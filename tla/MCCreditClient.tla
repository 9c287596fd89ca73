--------------------------- MODULE MCCreditClient ---------------------------
(***************************************************************************)
(* An agent that pays twice for one request, relayers and ledger, for TLC. *)
(***************************************************************************)
EXTENDS CreditClient, TLC

CONSTANTS alice, keyA, req1, base, solana, relayer1, call1, call2, rep1,
          rep2, tx1, tx2

SignedIntent(expiry) ==
    [requestId |-> req1, agentId |-> alice, agentPubKey |-> keyA,
     agentNonce |-> 0, amountMicros |-> 1, requiredChainRef |-> base,
     expiresAt |-> expiry]

MCIntents == {SignedIntent(expiry) : expiry \in 1..MaxClock}
MCRequestOf == [c \in Calls |-> SignedIntent(0)]

MCRelayerKeys == {<<base, relayer1>>, <<solana, relayer1>>}
Relayer(chainRef) == [chainRef |-> chainRef, keyId |-> relayer1]
MCRelayers == {Relayer(base), Relayer(solana)}

\* The client knows the relayer, knows none, or takes another's for it.
MCConfigurations == {base :> Relayer(base), solana :> Relayer(solana),
                     base :> Relayer(solana)}

\* The second call has the relayer pay somebody else, and more than the intent.
MCMerchantRequestOf ==
    (call1 :> [payee |-> "merchant", amount |-> 1]) @@
    (call2 :> [payee |-> "other", amount |-> 2])

MCReportIdOf == (call1 :> rep1) @@ (call2 :> rep2)
\* The same transaction or another one.
MCTxHashesOf == (call1 :> {tx1}) @@ (call2 :> {tx1, tx2})
=============================================================================
