---------------------------- MODULE CreditClient ----------------------------
(***************************************************************************)
(* An agent that pays with MultiChainCreditClient.pay(): it signs an       *)
(* intent, has the sequencer authorize it and brings the authorization to  *)
(* the relayer of its chain.  Put together with the relayers and the       *)
(* ledger.                                                                 *)
(*                                                                         *)
(* pay() keeps nothing and tries nothing twice, and what it returns is     *)
(* what its relayer answered, if the answer arrives, else it throws.  A    *)
(* caller that saw it throw may call it again for the same request, at the *)
(* same time or later; the expiry is new then.  A request that was sent    *)
(* reaches its server at any later time or never, also when its caller has *)
(* given up, and so with the answer.                                       *)
(***************************************************************************)
EXTENDS PaymentRelayer

CONSTANTS
    RequestOf,       \* what each call of pay() asks, as an intent of expiry 0
    ExpiresIn,       \* expiresInSeconds
    Configurations   \* the relayerUrls a client may have: chain -> relayer

\* A call of pay() makes at most one of /v1/relay/pay: they share a name.
ASSUME ClientConstants ==
    /\ RequestOf \in [Calls -> Intent]
    /\ \A p \in Calls, expiry \in 1..MaxClock :
          [RequestOf[p] EXCEPT !.expiresAt = expiry] \in Intents
    /\ ExpiresIn \in Nat \ {0}
    /\ \A urls \in Configurations :
          DOMAIN urls \subseteq ChainRefs
          /\ \A chainRef \in DOMAIN urls : urls[chainRef] \in Relayers

VARIABLES
    relayerUrls,    \* the client's configuration
    pays,           \* what each call of pay() has got to
    requests        \* requests under way, <<call, route>>

clientVars == <<relayerUrls, pays, requests>>
systemVars == <<vars, relayVars, clientVars>>

NewPay == [pc |-> "new", intent |-> NULL, authId |-> NULL]

SystemInit ==
    /\ Init /\ RelayerInit
    /\ relayerUrls \in Configurations
    /\ pays = [p \in Calls |-> NewPay]
    /\ requests = {}

-----------------------------------------------------------------------------
(* pay() *)

\* Bound of the model: every intent has time to expire.
ClockHasRoom == clock + ExpiresIn < MaxClock

Pay(p) ==
    /\ pays[p].pc = "new" /\ ClockHasRoom
    /\ pays' = [pays EXCEPT ![p].pc = "authorize",
                   ![p].intent = [RequestOf[p] EXCEPT !.expiresAt = clock + ExpiresIn]]
    /\ requests' = requests \cup {<<p, "authorize">>}
    /\ UNCHANGED <<vars, relayVars, relayerUrls>>

\* The authorization arrives.  relayPay follows at once, if there is a relayer.
RelayPay(p, authId) ==
    LET chainRef == pays[p].intent.requiredChainRef
    IN  /\ pays[p].pc = "authorize"
        /\ \/ /\ chainRef \in DOMAIN relayerUrls
              /\ pays' = [pays EXCEPT ![p].pc = "relay", ![p].authId = authId]
              /\ requests' = (requests \ {<<p, "authorize">>}) \cup {<<p, "pay">>}
           \/ /\ chainRef \notin DOMAIN relayerUrls
              /\ pays' = [pays EXCEPT ![p].pc = "threw"]
              /\ requests' = requests \ {<<p, "authorize">>}

\* It is lost, or the connection was.
NoAuthorization(p) ==
    /\ pays' = [pays EXCEPT ![p].pc = "threw"]
    /\ requests' = requests \ {<<p, "authorize">>}

-----------------------------------------------------------------------------
(* The servers *)

\* POST /v1/credit/authorize: a new authorization, or that of the request.
KnownRequest(i, now) ==
    /\ IntentAdmissible(i, now)
    /\ i.requestId \in DOMAIN idempotencyKeys
    /\ idempotencyKeys[i.requestId].intent = i

Authorizes(p) ==
    LET i == pays[p].intent
    IN  /\ <<p, "authorize">> \in requests
        /\ \E now \in Now :
              \/ /\ AuthorizeIntent(i, now)
                 /\ RelayPay(p, idempotencyKeys'[i.requestId].authId)
                    \/ NoAuthorization(p)
              \/ /\ KnownRequest(i, now)
                 /\ RelayPay(p, idempotencyKeys[i.requestId].authId)
                 /\ UNCHANGED vars
        /\ UNCHANGED <<relayVars, relayerUrls>>

\* POST /v1/relay/pay.  A refusal changes nothing: to the caller it is a pay()
\* that throws.
Receives(p) ==
    /\ <<p, "pay">> \in requests
    /\ Accept(p, relayerUrls[pays[p].intent.requiredChainRef], pays[p].authId)
    /\ requests' = requests \ {<<p, "pay">>}
    /\ UNCHANGED <<relayerUrls, pays>>

\* Everything else the ledger does that an agent or a relayer can see: not the
\* epochs, nor the sweeper's passes (a reclaim of theirs is one by the
\* sequencer).
Reclaims == \E id \in DOMAIN authorizations, now \in Now : ReclaimBySequencer(id, now)

LedgerStep ==
    /\ \/ \E a \in Agents, amount \in CreditAmounts : AdminCredit(a, amount)
       \/ Reclaims
       \/ Tick
    /\ UNCHANGED <<relayVars, clientVars>>

RelayerStep ==
    /\ \/ \E c \in Calls : Proceed(c) \/ \E attempt \in 0..2 : Deliver(c, attempt)
       \/ \E relayer \in Relayers : RelayerStops(relayer)
    /\ UNCHANGED clientVars

SystemNext ==
    \/ LedgerStep \/ RelayerStep
    \/ \E p \in Calls : Pay(p) \/ Authorizes(p) \/ Receives(p)

SystemSpec == SystemInit /\ [][SystemNext]_systemVars

\* While one of these can go on, one does: every await of the relayer's handler
\* ends, the merchant's in timeoutMs or with the receipt, a fetch of the
\* sequencer with an answer or an error; the clock runs; the sweeper reclaims.
Progress ==
    /\ \/ \E c \in Calls : Proceed(c)
       \/ Tick /\ UNCHANGED relayVars
       \/ Reclaims /\ UNCHANGED relayVars
    /\ UNCHANGED clientVars

SystemFairSpec == SystemSpec /\ WF_systemVars(Progress)

-----------------------------------------------------------------------------

\* An agent told DONE can rely on it: the sequencer has the execution on record
\* with the transaction the agent was told, for the intent this call signed, so
\* the payment is never refunded, however late the report of it came.
DoneIsRecorded ==
    \A response \in responses :
        /\ response.authId \in DOMAIN executions
        /\ executions[response.authId].txHash = response.executionTxHash
        /\ authorizations[response.authId].status = "EXECUTED"
        /\ authorizations[response.authId].intent = pays[response.call].intent

Settled(p) ==
    /\ calls[p].pc \in {"new", "ended"}
    /\ \A id \in DOMAIN authorizations :
          authorizations[id].intent = pays[p].intent =>
             authorizations[id].status # "ISSUED"

\* Whatever is lost on the way, and however often the agent tries, the credit
\* its calls of pay() were granted is spent or comes back: again and again no
\* relayer is busy with an authorization of theirs and none stays open.
PaysSettle == []<>(\A p \in Calls : Settled(p))
=============================================================================
