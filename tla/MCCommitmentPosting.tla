------------------------ MODULE MCCommitmentPosting ------------------------
(***************************************************************************)
(* Small instances of commitment posting for TLC: one agent pays three     *)
(* times, so that up to three epochs overlap.                              *)
(***************************************************************************)
EXTENDS CommitmentPosting

CONSTANTS alice, keyA, req1, req2, req3, base

MCIntents == {
    [requestId |-> x[1], agentId |-> alice, agentPubKey |-> keyA,
     agentNonce |-> x[2], amountMicros |-> 1, requiredChainRef |-> base,
     expiresAt |-> 1] : x \in {<<req1, 0>>, <<req2, 1>>, <<req3, 2>>}}
=============================================================================
