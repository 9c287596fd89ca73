--------------------------- MODULE MCCreditLedger ---------------------------
(***************************************************************************)
(* Small instances of the credit ledger for TLC.                           *)
(***************************************************************************)
EXTENDS CreditLedgerRefinement, TLC

CONSTANTS alice, bob, keyA, keyB, req1, req2, req3, base, solana, other,
          relayer1

SignedIntent(request, agent, key, nonce, amount, chain, expiry) ==
    [requestId |-> request, agentId |-> agent, agentPubKey |-> key,
     agentNonce |-> nonce, amountMicros |-> amount, requiredChainRef |-> chain,
     expiresAt |-> expiry]

\* Alice: two payments; the first request id for another amount, the second
\* one with the first nonce on another chain; a second payment signed with a
\* key that is not hers, and one on a chain nobody serves.  Bob: one payment.
MCIntents == {
    SignedIntent(req1, alice, keyA, 0, 1, base, 0),
    SignedIntent(req1, alice, keyA, 0, 2, base, 0),
    SignedIntent(req2, alice, keyA, 1, 1, base, 1),
    SignedIntent(req2, alice, keyA, 0, 1, solana, 0),
    SignedIntent(req2, alice, keyB, 1, 1, base, 1),
    SignedIntent(req2, alice, keyA, 1, 1, other, 1),
    SignedIntent(req3, bob, keyB, 0, 2, base, 0)}

MCRelayerKeys == {<<base, relayer1>>}

ReportSymmetry == Permutations(ReportIds) \cup Permutations(TxHashes)
=============================================================================
