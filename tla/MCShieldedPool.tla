--------------------------- MODULE MCShieldedPool ---------------------------
(***************************************************************************)
(* Small instances of the shielded pool and its wallet for TLC.            *)
(***************************************************************************)
EXTENDS ShieldedPool, TLC

CONSTANTS wallet, merchant, stranger, shop, secret1, secret2

\* One secret is as good as another.
MCSymmetry == Permutations(Secrets)

MCZeroLeaf == [amount |-> 0, rho |-> 0, pkHash |-> wallet]
=============================================================================
