---------------------------- MODULE CreditEscrow ----------------------------
(***************************************************************************)
(* What an agent is promised by a sequencer it deposits credit with, free  *)
(* of tables, nonces, reports and clocks.  An account is the credit        *)
(* deposited and the promises made from it, in order.  A promise is made   *)
(* only from funds no other promise holds, and is settled once: paid, for  *)
(* good, or refunded.                                                      *)
(***************************************************************************)
EXTENDS Integers, Sequences, Functions

CONSTANT Accounts
\* The credit of each account; its promises, as [amount, state].
VARIABLES credited, promises

HeldAmount(ps) ==
    LET amounts == [k \in DOMAIN ps |-> ps[k].amount]
    IN  SumFunctionOnSet(amounts, {k \in DOMAIN ps : ps[k].state # "refunded"})

Available(a) == credited[a] - HeldAmount(promises[a])

Init ==
    /\ credited = [a \in Accounts |-> 0]
    /\ promises = [a \in Accounts |-> << >>]

Deposit(a) ==
    /\ credited'[a] > credited[a]
    /\ credited' = [credited EXCEPT ![a] = credited'[a]]
    /\ UNCHANGED promises

MakePromise(a) ==
    /\ \E amount \in 1..Available(a) :
          promises' = [promises EXCEPT
                         ![a] = Append(@, [amount |-> amount, state |-> "open"])]
    /\ UNCHANGED credited

Settle(a, k, outcome) ==
    /\ promises[a][k].state = "open"
    /\ promises' = [promises EXCEPT ![a][k].state = outcome]
    /\ UNCHANGED credited

Next ==
    \E a \in Accounts :
        \/ Deposit(a)
        \/ MakePromise(a)
        \/ \E k \in DOMAIN promises[a] :
              \/ Settle(a, k, "paid")
              \/ Settle(a, k, "refunded")

Spec == Init /\ [][Next]_<<credited, promises>>
=============================================================================
