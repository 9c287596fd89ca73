----------------------- MODULE CreditLedgerRefinement -----------------------
(***************************************************************************)
(* The credit ledger implements the escrow: an account's credit is         *)
(* credited_micros, its promises are the agent's authorizations in the     *)
(* order of their nonces.                                                  *)
(***************************************************************************)
EXTENDS CreditLedger, Functions

AuthorizationOf(a, nonce) ==
    CHOOSE id \in DOMAIN authorizations :
        /\ authorizations[id].intent.agentId = a
        /\ authorizations[id].intent.agentNonce = nonce

PromiseState ==
    [ISSUED |-> "open", EXECUTED |-> "paid", RECLAIMED |-> "refunded"]

PromiseOf(a, nonce) ==
    LET row == authorizations[AuthorizationOf(a, nonce)]
    IN  [amount |-> row.intent.amountMicros, state |-> PromiseState[row.status]]

EscrowCredited == [a \in Agents |-> agents[a].credited]
EscrowPromises == [a \in Agents |->
                      [k \in 1..agents[a].nextNonce |-> PromiseOf(a, k - 1)]]

Escrow == INSTANCE CreditEscrow WITH
             Accounts <- Agents,
             credited <- EscrowCredited,
             promises <- EscrowPromises

\* Every history of credits, authorizations, reports, reclaims and sweeps is a
\* history of the escrow: no promise is made from held funds, none is settled
\* twice, and none is dropped or reordered.
ImplementsEscrow == Escrow!Spec

\* The two counters of the agents row, each updated in place by every
\* transaction, always say what the authorizations table adds up to:
\* balance_micros is what no promise holds, debited_outstanding_micros what
\* the promises hold.  So a reclaim never meets "INVARIANT_VIOLATION
\* outstanding balance lower than reclaim amount".
CountersMatchTable ==
    \A a \in Agents :
        /\ agents[a].balance = Escrow!Available(a)
        /\ agents[a].debitedOutstanding = Escrow!HeldAmount(EscrowPromises[a])

\* docs/multi-chain-credit-mvp.md:71, "cumulative accepted debit never exceeds
\* cumulative credited balance", over all accepted authorizations as
\* assertAgentAuthorizationInvariant (sequencer.ts) sums them.
AcceptedDebitWithinCredit ==
    \A a \in Agents :
        SumFunction([k \in 1..agents[a].nextNonce |-> EscrowPromises[a][k].amount])
            <= agents[a].credited
=============================================================================
