----------------------------- MODULE MCLedgerTx -----------------------------
(***************************************************************************)
(* Small instances of the transactions of the credit ledger for TLC.       *)
(***************************************************************************)
EXTENDS LedgerTx, TLC

CONSTANTS alice, bob, keyA, keyB, req1, base, relayer1

SignedIntent(request, agent, key, nonce, expiry) ==
    [requestId |-> request, agentId |-> agent, agentPubKey |-> key,
     agentNonce |-> nonce, amountMicros |-> 1, requiredChainRef |-> base,
     expiresAt |-> expiry]

\* Alice and Bob use the same request id; credit comes in two portions, so that
\* one can meet a reclaim.
MCIntents == {
    SignedIntent(req1, alice, keyA, 0, 0),
    SignedIntent(req1, bob, keyB, 0, 1)}

MCRelayerKeys == {<<base, relayer1>>}
=============================================================================
