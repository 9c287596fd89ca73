-------------------------- MODULE MCMerchantGateway --------------------------
(***************************************************************************)
(* Small instances of the merchant's gateway for TLC.                      *)
(***************************************************************************)
EXTENDS MerchantGateway
=============================================================================
