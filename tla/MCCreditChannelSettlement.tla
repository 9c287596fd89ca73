--------------------- MODULE MCCreditChannelSettlement ---------------------
(***************************************************************************)
(* Small instances of the settlement contract for TLC.                     *)
(***************************************************************************)
EXTENDS CreditChannelSettlement

CONSTANTS agent1, agent2, relayer1
=============================================================================
