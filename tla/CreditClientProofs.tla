------------------------- MODULE CreditClientProofs -------------------------
(***************************************************************************)
(* Theorems about an agent, the relayers and the ledger put together: what *)
(* is executed was paid, what an agent is told is done is on record, and   *)
(* what was refunded is not paid for, for every value of the constants.    *)
(***************************************************************************)
EXTENDS CreditClient, CreditLedgerProofs

-----------------------------------------------------------------------------
(* The invariant *)

\* A call of pay() that waits for an authorization asked for an intent it may
\* sign; one that went on to its relayer has an authorization of that intent.
PayTied(p) ==
    /\ DOMAIN pays[p] = {"pc", "intent", "authId"}
    /\ <<p, "authorize">> \in requests =>
          pays[p].pc = "authorize" /\ pays[p].intent \in Intents
    /\ <<p, "pay">> \in requests => pays[p].pc = "relay"
    /\ pays[p].pc = "relay" =>
          /\ pays[p].authId \in DOMAIN authorizations
          /\ authorizations[pays[p].authId].intent = pays[p].intent
          /\ pays[p].intent.requiredChainRef \in DOMAIN relayerUrls

\* A relayer works on the authorization of its caller, for its own chain.
Taken(c) ==
    /\ pays[c].pc = "relay"
    /\ calls[c].authId = pays[c].authId
    /\ calls[c].authId \in DOMAIN authorizations
    /\ calls[c].relayer \in Relayers
    /\ authorizations[calls[c].authId].intent.requiredChainRef
          = calls[c].relayer.chainRef

\* The report of a call, once made, is its own and does not change: it may be
\* on its way to the sequencer, or in the table of attempts, long after the
\* call has ended.
Attempted(c) == ReportIdOf[c] \in DOMAIN executionAttempts
Made(c) ==
    \/ calls[c].pc \in {"report", "await"}
    \/ \E x \in inFlight : x[1] = c
    \/ Attempted(c)
ReportTied(c) ==
    LET r == calls[c].report
    IN  /\ r \in ReportsOn(calls[c].authId)
        /\ r.reportId = ReportIdOf[c]
        /\ r.chainRef = calls[c].relayer.chainRef
        /\ r.status = "SUCCESS" => Payout(c, r.txHash) \in payouts

Recorded(r) ==
    r.authId \in DOMAIN executions /\ executions[r.authId].txHash = r.txHash

CallFields == {"pc", "relayer", "authId", "report", "attempt", "reply"}
CallTied(c) ==
    /\ DOMAIN calls[c] = CallFields
    /\ calls[c].pc = "new" => calls[c].relayer = NULL
    /\ calls[c].pc # "new" => Taken(c)
    /\ Made(c) => calls[c].pc \notin {"new", "pay"} /\ ReportTied(c)
    /\ Attempted(c) /\ calls[c].report.status = "SUCCESS"
          => Recorded(calls[c].report)
    /\ calls[c].pc = "await" /\ calls[c].reply = "ok" => Attempted(c)

PayoutTied(x) ==
    /\ x.call \in Calls /\ calls[x.call].pc # "new"
    /\ x.authId = calls[x.call].authId
    /\ x.request = MerchantRequestOf[x.call]

ResponseTied(x) ==
    /\ x.call \in Calls /\ pays[x.call].pc = "relay"
    /\ x.authId \in DOMAIN executions
    /\ executions[x.authId].txHash = x.executionTxHash
    /\ x.authId \in DOMAIN authorizations
    /\ authorizations[x.authId].intent = pays[x.call].intent

ExecutionPaid(id) ==
    \E x \in payouts :
        /\ x.authId = id /\ x.txHash = executions[id].txHash
        /\ calls[x.call].relayer.chainRef = executions[id].chainRef

SystemInv ==
    /\ relayerUrls \in Configurations
    /\ DOMAIN pays = Calls /\ DOMAIN calls = Calls
    /\ \A p \in Calls : PayTied(p)
    /\ \A c \in Calls : CallTied(c)
    /\ \A x \in payouts : PayoutTied(x)
    /\ \A x \in responses : ResponseTied(x)
    /\ \A id \in DOMAIN executions : ExecutionPaid(id)

-----------------------------------------------------------------------------
(* What the ledger never takes back *)

Grows ==
    /\ \A id \in DOMAIN authorizations :
          /\ id \in DOMAIN authorizations'
          /\ authorizations'[id].intent = authorizations[id].intent
    /\ \A id \in DOMAIN executions :
          id \in DOMAIN executions' /\ executions'[id] = executions[id]

LEMMA LedgerGrows == ASSUME TypeOK, [Next]_vars PROVE Grows
  <1>1. \A id \in DOMAIN executions :
           id \in DOMAIN executions' /\ executions'[id] = executions[id]
    BY StepIsFinal DEF FinalStep
  <1>2. \A id \in DOMAIN authorizations : authorizations[id] \in AuthorizationRow
    BY DEF TypeOK
  <1>3. CASE Authorize
    BY <1>1, <1>3, AuthorizeIssues DEF Authorize, Issues, Grows
  <1>4. CASE ReportStep
    <2>0. PICK id \in DOMAIN authorizations : \E r \in ReportsOn(id), now \in Now :
             RecordExecution(r, now)
      BY <1>4 DEF ReportStep
    <2>1. PICK r \in ReportsOn(id), now \in Now : RecordExecution(r, now)
      BY <2>0
    <2>2. CASE RecordSuccess(r, now)
      <3>1. Replaces(id, Executed(authorizations[id], now)) /\ now \in Nat
        BY <2>2, SuccessReplaces
      <3>2. Executed(authorizations[id], now).intent = authorizations[id].intent
        BY <1>2, <3>1, SettledRow
      <3> QED
        BY <1>1, <3>1, <3>2 DEF Replaces, Grows
    <2>3. CASE RecordFailure(r, now) \/ RecordRepeat(r, now)
      BY <1>1, <2>3 DEF RecordFailure, RecordRepeat, Grows
    <2> QED
      BY <2>1, <2>2, <2>3 DEF RecordExecution
  <1>5. CASE ReclaimStep
    <2>1. PICK id \in DOMAIN authorizations, now \in Now :
             Reclaimable(id, now) /\ CreditBack(id, now)
      BY <1>5 DEF ReclaimStep
    <2>2. Replaces(id, Reclaimed(authorizations[id], now)) /\ now \in Nat
      BY <2>1, ReclaimReplaces
    <2>3. Reclaimed(authorizations[id], now).intent = authorizations[id].intent
      BY <1>2, <2>2, SettledRow
    <2> QED
      BY <1>1, <2>2, <2>3 DEF Replaces, Grows
  <1>6. CASE Credit \/ RunCommitmentEpoch \/ Quiet
    BY <1>1, <1>6 DEF Credit, AdminCredit, RunCommitmentEpoch, Quiet, Grows
  <1> QED
    BY <1>3, <1>4, <1>5, <1>6, StepCases

LEMMA StutterGrows == ASSUME UNCHANGED vars PROVE Grows
    BY DEF vars, Grows
-----------------------------------------------------------------------------
(* What one party's step leaves of what another relies on *)

LEMMA PayKept ==
    ASSUME Grows, UNCHANGED relayerUrls, NEW p \in Calls, PayTied(p),
           pays'[p] = pays[p],
           <<p, "authorize">> \in requests' => <<p, "authorize">> \in requests,
           <<p, "pay">> \in requests' => <<p, "pay">> \in requests
    PROVE  PayTied(p)'
    BY DEF Grows, PayTied

LEMMA TakenKept ==
    ASSUME Grows, NEW c \in Calls, Taken(c), pays'[c] = pays[c],
           calls'[c].authId = calls[c].authId,
           calls'[c].relayer = calls[c].relayer
    PROVE  Taken(c)'
    BY DEF Grows, Taken

LEMMA RecordedKept ==
    ASSUME Grows, NEW r, Recorded(r)
    PROVE  Recorded(r)'
    BY DEF Grows, Recorded

LEMMA ReportKept ==
    ASSUME NEW c \in Calls, ReportTied(c), payouts \subseteq payouts',
           calls'[c].authId = calls[c].authId,
           calls'[c].relayer = calls[c].relayer,
           calls'[c].report = calls[c].report
    PROVE  ReportTied(c)'
    BY DEF ReportTied, ReportsOn, Payout

\* A call that moves on without making a report or having one recorded.
LEMMA CallMoves ==
    ASSUME Grows, NEW c \in Calls, CallTied(c),
           pays[c].pc = "relay" => pays'[c] = pays[c],
           DOMAIN calls'[c] = CallFields,
           calls[c].pc # "new", calls'[c].pc # "new",
           calls'[c].authId = calls[c].authId,
           calls'[c].relayer = calls[c].relayer,
           calls'[c].report = calls[c].report,
           payouts \subseteq payouts',
           Attempted(c)' => Attempted(c),
           Made(c)' => Made(c) /\ calls'[c].pc # "pay",
           calls'[c].pc = "await" /\ calls'[c].reply = "ok" => Attempted(c)'
    PROVE  CallTied(c)'
  <1>1. Taken(c)'
    BY TakenKept DEF CallTied, Taken
  <1>2. ASSUME Made(c)' PROVE ReportTied(c)'
    BY <1>2, ReportKept DEF CallTied
  <1>3. ASSUME Attempted(c)', calls'[c].report.status = "SUCCESS"
        PROVE  Recorded(calls[c].report)'
    <2>1. PICK r : r = calls[c].report
      OBVIOUS
    <2>2. Recorded(r)
      BY <1>3, <2>1 DEF CallTied
    <2>3. Recorded(r)'
      BY <2>2, RecordedKept
    <2> QED
      BY <2>1, <2>3 DEF Recorded
  <1> QED
    BY <1>1, <1>2, <1>3 DEF CallTied

\* A call that does not move.
LEMMA CallKept ==
    ASSUME Grows, NEW c \in Calls, CallTied(c),
           pays[c].pc = "relay" => pays'[c] = pays[c],
           calls'[c] = calls[c], payouts \subseteq payouts',
           \A x \in inFlight' : x[1] = c => x \in inFlight,
           Attempted(c)' <=> Attempted(c)
    PROVE  CallTied(c)'
  <1>1. Made(c)' => Made(c)
    BY DEF Made
  <1>2. CASE calls[c].pc = "new"
    BY <1>1, <1>2 DEF CallTied, Made
  <1>3. CASE calls[c].pc # "new"
    BY <1>1, <1>3, CallMoves DEF CallTied
  <1> QED
    BY <1>2, <1>3

\* The rest of the invariant, for any step.
LEMMA RestKept ==
    ASSUME SystemInv, Grows, UNCHANGED relayerUrls,
           DOMAIN pays' = Calls, DOMAIN calls' = Calls,
           \A p \in Calls : pays[p].pc = "relay" => pays'[p] = pays[p],
           \A p \in Calls : PayTied(p)',
           \A c \in Calls : CallTied(c)',
           \A c \in Calls : calls[c].pc # "new" =>
              calls'[c].pc # "new" /\ calls'[c].relayer = calls[c].relayer
              /\ calls'[c].authId = calls[c].authId,
           payouts \subseteq payouts',
           \A x \in payouts' \ payouts : PayoutTied(x),
           \A x \in responses' \ responses : ResponseTied(x),
           \A id \in DOMAIN executions' \ DOMAIN executions : ExecutionPaid(id)'
    PROVE  SystemInv'
  <1>1. ASSUME NEW x \in payouts' PROVE PayoutTied(x)'
    BY <1>1 DEF SystemInv, PayoutTied
  <1>2. ASSUME NEW x \in responses' PROVE ResponseTied(x)'
    BY <1>2 DEF SystemInv, ResponseTied, Grows
  <1>3. ASSUME NEW id \in DOMAIN executions PROVE ExecutionPaid(id)'
    <2>1. PICK x \in payouts :
             /\ x.authId = id /\ x.txHash = executions[id].txHash
             /\ calls[x.call].relayer.chainRef = executions[id].chainRef
      BY DEF SystemInv, ExecutionPaid
    <2>2. x \in payouts' /\ calls'[x.call].relayer = calls[x.call].relayer
      BY DEF SystemInv, PayoutTied
    <2>3. executions'[id] = executions[id]
      BY DEF Grows
    <2> QED
      BY <2>1, <2>2, <2>3 DEF ExecutionPaid
  <1> QED
    BY <1>1, <1>2, <1>3 DEF SystemInv
\* A step of one call of a relayer.
LEMMA OneCallStep ==
    ASSUME SystemInv, Grows, UNCHANGED clientVars, NEW c \in Calls,
           DOMAIN calls' = Calls,
           \A d \in Calls \ {c} : calls'[d] = calls[d],
           calls[c].pc # "new", calls'[c].pc # "new",
           calls'[c].relayer = calls[c].relayer,
           calls'[c].authId = calls[c].authId,
           CallTied(c)',
           \A x \in inFlight' : x[1] # c => x \in inFlight,
           \A d \in Calls \ {c} : Attempted(d)' <=> Attempted(d),
           payouts \subseteq payouts',
           \A x \in payouts' \ payouts : \E t : x = Payout(c, t),
           \A x \in responses' \ responses : ResponseTied(x),
           \A id \in DOMAIN executions' \ DOMAIN executions : ExecutionPaid(id)'
    PROVE  SystemInv'
  <1>1. UNCHANGED <<relayerUrls, pays, requests>>
    BY DEF clientVars
  <1>2. ASSUME NEW p \in Calls PROVE PayTied(p)'
    BY <1>1, PayKept DEF SystemInv
  <1>3. ASSUME NEW d \in Calls, d # c PROVE CallTied(d)'
    BY <1>1, <1>3, CallKept DEF SystemInv
  <1>4. \A x \in payouts' \ payouts : PayoutTied(x)
    BY DEF PayoutTied, Payout
  <1>5. DOMAIN pays' = Calls
    BY <1>1 DEF SystemInv
  <1>6. \A d \in Calls : calls[d].pc # "new" =>
           calls'[d].pc # "new" /\ calls'[d].relayer = calls[d].relayer
           /\ calls'[d].authId = calls[d].authId
    OBVIOUS
  <1> QED
    BY <1>1, <1>2, <1>3, <1>4, <1>5, <1>6, RestKept

-----------------------------------------------------------------------------
(* The relayers *)

\* The merchant answers: the report is made, and its success is a payout.
LEMMA PayMerchantStep ==
    ASSUME SystemInv, NEW c \in Calls, NEW t \in TxHashesOf[c],
           NEW s \in MerchantStatuses, PayMerchant(c, t, s),
           UNCHANGED clientVars
    PROVE  SystemInv'
  <1> DEFINE r == ReportOf(c, t, s)
  <1>1. /\ calls[c].pc = "pay" /\ UNCHANGED <<vars, inFlight, responses>>
        /\ calls' = [calls EXCEPT ![c].pc = "report", ![c].report = r]
        /\ CallTied(c) /\ Taken(c) /\ ~Made(c)
    BY DEF PayMerchant, SystemInv, CallTied
  <1>2. /\ DOMAIN calls' = Calls
        /\ \A d \in Calls \ {c} : calls'[d] = calls[d]
        /\ DOMAIN calls'[c] = CallFields
        /\ calls'[c].pc = "report" /\ calls'[c].report = r
        /\ calls'[c].authId = calls[c].authId
        /\ calls'[c].relayer = calls[c].relayer
    BY <1>1 DEF SystemInv, CallTied, CallFields
  <1>3. /\ payouts \subseteq payouts'
        /\ \A x \in payouts' \ payouts : \E u : x = Payout(c, u)
        /\ ReportStatus(s) = "SUCCESS" => Payout(c, t) \in payouts'
    BY DEF PayMerchant, ReportStatus
  <1>4. Grows
    BY <1>1, StutterGrows
  <1>5. Taken(c)'
    BY <1>1, <1>2, <1>4, TakenKept DEF clientVars
  <1>6. /\ calls[c].relayer.chainRef \in ChainRefs
        /\ calls[c].relayer.keyId \in RelayerKeyIds
        /\ t \in TxHashes /\ ReportIdOf[c] \in ReportIds
    BY <1>1, RelayerConstants DEF Taken
  <1>7. r \in ReportsOn(calls[c].authId)
    BY <1>6 DEF ReportOf, ReportsOn, ReportStatus, MerchantStatuses
  <1>8. /\ r.reportId = ReportIdOf[c] /\ r.chainRef = calls[c].relayer.chainRef
        /\ r.status = ReportStatus(s) /\ r.txHash = t
    BY DEF ReportOf
  <1>9. Payout(c, t)' = Payout(c, t)
    BY <1>2 DEF Payout
  <1>10. ReportTied(c)'
    BY <1>2, <1>3, <1>7, <1>8, <1>9 DEF ReportTied, ReportsOn
  <1>11. ~Attempted(c)'
    BY <1>1 DEF Made, Attempted, vars
  <1>12. CallTied(c)'
    BY <1>2, <1>5, <1>10, <1>11 DEF CallTied
  <1>13. UNCHANGED <<executions, executionAttempts>>
    BY <1>1 DEF vars
  <1> QED
    BY <1>1, <1>2, <1>3, <1>4, <1>12, <1>13, OneCallStep DEF Attempted
\* The steps that neither make a report nor reach the sequencer.
LEMMA ProceedStep ==
    ASSUME SystemInv, UNCHANGED clientVars, NEW c \in Calls,
           PayThrows(c) \/ SendReport(c) \/ Respond(c) \/ Retry(c)
    PROVE  SystemInv'
  <1>1. /\ calls[c].pc \in {"pay", "report", "await"} /\ UNCHANGED vars
        /\ CallTied(c) /\ Taken(c) /\ DOMAIN calls = Calls
    BY DEF PayThrows, SendReport, Respond, Retry, SystemInv, CallTied
  <1>2. Grows /\ UNCHANGED <<executions, executionAttempts>>
    BY <1>1, StutterGrows DEF vars
  <1>3. UNCHANGED pays
    BY DEF clientVars
  <1>4. DOMAIN calls[c] = CallFields
    BY <1>1 DEF CallTied
  <1>5. /\ DOMAIN calls' = Calls
        /\ \A d \in Calls \ {c} : calls'[d] = calls[d]
    BY <1>1 DEF PayThrows, SendReport, Respond, Retry
  <1>6. CASE PayThrows(c)
    <2>1. /\ DOMAIN calls'[c] = CallFields /\ calls'[c].pc = "ended"
          /\ calls'[c].authId = calls[c].authId
          /\ calls'[c].relayer = calls[c].relayer
          /\ calls'[c].report = calls[c].report
      BY <1>1, <1>4, <1>6 DEF PayThrows, Ended, CallFields
    <2>2. PICK made \in SUBSET {Payout(c, t) : t \in TxHashesOf[c]} :
             payouts' = payouts \cup made
      BY <1>6 DEF PayThrows
    <2>3. /\ payouts \subseteq payouts'
          /\ \A x \in payouts' \ payouts : \E t : x = Payout(c, t)
      BY <2>2
    <2>4. UNCHANGED <<inFlight, responses>>
      BY <1>6 DEF PayThrows
    <2>5. CallTied(c)'
      BY <1>1, <1>2, <1>3, <2>1, <2>3, <2>4, CallMoves DEF Made, Attempted
    <2> QED
      BY <1>1, <1>2, <1>5, <2>1, <2>3, <2>4, <2>5, OneCallStep DEF Attempted
  <1>7. CASE SendReport(c)
    <2>1. /\ DOMAIN calls'[c] = CallFields /\ calls'[c].pc = "await"
          /\ calls'[c].reply = NULL
          /\ calls'[c].authId = calls[c].authId
          /\ calls'[c].relayer = calls[c].relayer
          /\ calls'[c].report = calls[c].report
      BY <1>1, <1>4, <1>7 DEF SendReport, CallFields
    <2>2. /\ UNCHANGED <<payouts, responses>> /\ calls[c].pc = "report"
          /\ \A x \in inFlight' : x[1] # c => x \in inFlight
      BY <1>7 DEF SendReport
    <2>3. CallTied(c)'
      BY <1>1, <1>2, <1>3, <2>1, <2>2, RelayerConstants, CallMoves DEF Made, Attempted
    <2> QED
      BY <1>1, <1>2, <1>5, <2>1, <2>2, <2>3, OneCallStep DEF Attempted
  <1>8. CASE Respond(c)
    <2>1. /\ DOMAIN calls'[c] = CallFields /\ calls'[c].pc = "ended"
          /\ calls'[c].authId = calls[c].authId
          /\ calls'[c].relayer = calls[c].relayer
          /\ calls'[c].report = calls[c].report
      BY <1>1, <1>4, <1>8 DEF Respond, Ended, CallFields
    <2>2. UNCHANGED <<payouts, inFlight>>
      BY <1>8 DEF Respond
    <2>3. CallTied(c)'
      BY <1>1, <1>2, <1>3, <2>1, <2>2, CallMoves DEF Made, Attempted
    <2>4. ASSUME NEW x \in responses' \ responses PROVE ResponseTied(x)
      <3>1. /\ calls[c].report.status = "SUCCESS"
            /\ x = [call |-> c, authId |-> calls[c].report.authId,
                    executionTxHash |-> calls[c].report.txHash]
        BY <1>8, <2>4 DEF Respond
      <3>2. Attempted(c) /\ ReportTied(c)
        BY <1>1, <1>8 DEF Respond, ReplyOk, CallTied, Made
      <3>3. Recorded(calls[c].report)
        BY <1>1, <3>1, <3>2 DEF CallTied
      <3>4. calls[c].report.authId = calls[c].authId
        BY <3>2 DEF ReportTied, ReportsOn
      <3>5. PayTied(c)
        BY DEF SystemInv
      <3> QED
        BY <1>1, <3>1, <3>3, <3>4, <3>5 DEF ResponseTied, Recorded, Taken, PayTied
    <2> QED
      BY <1>1, <1>2, <1>5, <2>1, <2>2, <2>3, <2>4, OneCallStep DEF Attempted
  <1>9. CASE Retry(c)
    <2>1. /\ DOMAIN calls'[c] = CallFields /\ calls'[c].pc \in {"ended", "report"}
          /\ calls'[c].authId = calls[c].authId
          /\ calls'[c].relayer = calls[c].relayer
          /\ calls'[c].report = calls[c].report
      BY <1>1, <1>4, <1>9 DEF Retry, Ended, CallFields
    <2>2. UNCHANGED <<payouts, inFlight, responses>> /\ calls[c].pc = "await"
      BY <1>9 DEF Retry
    <2>3. CallTied(c)'
      BY <1>1, <1>2, <1>3, <2>1, <2>2, CallMoves DEF Made, Attempted
    <2> QED
      BY <1>1, <1>2, <1>5, <2>1, <2>2, <2>3, OneCallStep DEF Attempted
  <1> QED
    BY <1>6, <1>7, <1>8, <1>9

\* A relayer that stops ends the calls it was accepted for.
LEMMA StopStep ==
    ASSUME SystemInv, UNCHANGED clientVars, NEW relayer \in Relayers,
           RelayerStops(relayer), UNCHANGED vars
    PROVE  SystemInv'
  <1>1. Grows /\ UNCHANGED <<executions, executionAttempts>>
    BY StutterGrows DEF vars
  <1>2. UNCHANGED <<relayerUrls, pays, requests, payouts, inFlight, responses>>
    BY DEF RelayerStops, clientVars
  <1>3. DOMAIN calls' = Calls
    BY DEF RelayerStops
  <1>4. ASSUME NEW c \in Calls
        PROVE  /\ CallTied(c)'
               /\ calls[c].pc # "new" =>
                     calls'[c].pc # "new" /\ calls'[c].relayer = calls[c].relayer
                     /\ calls'[c].authId = calls[c].authId
    <2>1. CASE calls[c].relayer = relayer
      <3>1. calls[c].pc # "new" /\ CallTied(c)
        BY <2>1, RelayerConstants DEF SystemInv, CallTied
      <3>2. /\ DOMAIN calls'[c] = CallFields /\ calls'[c].pc = "ended"
            /\ calls'[c].authId = calls[c].authId
            /\ calls'[c].relayer = calls[c].relayer
            /\ calls'[c].report = calls[c].report
        BY <2>1, <3>1 DEF RelayerStops, Ended, CallTied, CallFields
      <3> QED
        BY <1>1, <1>2, <3>1, <3>2, CallMoves DEF Made, Attempted
    <2>2. CASE calls[c].relayer # relayer
      <3>1. calls'[c] = calls[c] /\ CallTied(c)
        BY <2>2 DEF RelayerStops, SystemInv
      <3> QED
        BY <1>1, <1>2, <3>1, CallKept DEF Attempted
    <2> QED
      BY <2>1, <2>2
  <1>5. \A p \in Calls : PayTied(p)'
    BY <1>1, <1>2, PayKept DEF SystemInv
  <1>6. DOMAIN pays' = Calls
    BY <1>2 DEF SystemInv
  <1> QED
    BY <1>1, <1>2, <1>3, <1>4, <1>5, <1>6, RestKept
-----------------------------------------------------------------------------
(* The sequencer takes reports *)

\* A report that is taken is in the table of attempts with, if of a success,
\* its transaction as the execution.
LEMMA TakenReport ==
    ASSUME NEW r, NEW now, RecordExecution(r, now)
    PROVE  /\ DOMAIN executionAttempts' = DOMAIN executionAttempts \cup {r.reportId}
           /\ r.status = "SUCCESS" => Recorded(r)'
           /\ \A id \in DOMAIN executions' \ DOMAIN executions :
                 r.status = "SUCCESS" /\ id = r.authId
                 /\ executions'[id].txHash = r.txHash
                 /\ executions'[id].chainRef = r.chainRef
           /\ r.status \in {"SUCCESS", "FAILED"}
  <1>1. DOMAIN executionAttempts' = DOMAIN executionAttempts \cup {r.reportId}
    BY ReportAddsAttempt DEF WithRow
  <1>2. CASE RecordFailure(r, now)
    BY <1>1, <1>2 DEF RecordFailure
  <1>3. CASE RecordSuccess(r, now)
    BY <1>1, <1>3 DEF RecordSuccess, WithRow, Recorded
  <1>4. CASE RecordRepeat(r, now)
    BY <1>1, <1>4 DEF RecordRepeat, Recorded
  <1> QED
    BY <1>2, <1>3, <1>4 DEF RecordExecution

LEMMA DeliverStep ==
    ASSUME TypeOK, SystemInv, UNCHANGED clientVars, NEW c \in Calls, NEW attempt,
           Deliver(c, attempt)
    PROVE  [Next]_vars /\ SystemInv'
  <1>1. PICK r : r = calls[c].report
    OBVIOUS
  <1>2. /\ CallTied(c) /\ Made(c) /\ calls[c].pc \notin {"new", "pay"}
        /\ ReportTied(c) /\ Taken(c)
    BY DEF Deliver, SystemInv, CallTied, Made
  <1>3. /\ r \in ReportsOn(calls[c].authId) /\ r.reportId = ReportIdOf[c]
        /\ r.authId = calls[c].authId /\ r.authId \in DOMAIN authorizations
        /\ r.chainRef = calls[c].relayer.chainRef
        /\ r.status = "SUCCESS" => Payout(c, r.txHash) \in payouts
    BY <1>1, <1>2 DEF ReportTied, ReportsOn, Taken
  <1>4. PICK reply \in {"ok", "error"} :
           /\ Reply(c, attempt, reply)
           /\ \/ UNCHANGED vars /\ (reply = "ok" => Attempted(c))
              \/ \E now \in Now : RecordExecution(r, now)
    BY <1>1, <1>3 DEF Deliver, Attempted
  <1>5. /\ DOMAIN calls' = Calls
        /\ \A d \in Calls \ {c} : calls'[d] = calls[d]
        /\ DOMAIN calls'[c] = CallFields
        /\ calls'[c].pc = calls[c].pc
        /\ calls'[c].authId = calls[c].authId
        /\ calls'[c].relayer = calls[c].relayer
        /\ calls'[c].report = calls[c].report
        /\ calls'[c].reply \in {calls[c].reply, reply}
    BY <1>2, <1>4 DEF Reply, SystemInv, CallTied, CallFields
  <1>6. /\ UNCHANGED <<payouts, responses, pays>>
        /\ \A x \in inFlight' : x \in inFlight
    BY DEF Deliver, clientVars
  <1>7. CASE UNCHANGED vars /\ (reply = "ok" => Attempted(c))
    <2>1. Grows /\ UNCHANGED <<executions, executionAttempts>>
      BY <1>7, StutterGrows DEF vars
    <2>2. Made(c)' => Made(c) /\ calls'[c].pc # "pay"
      BY <1>2, <1>5
    <2>3. calls'[c].pc = "await" /\ calls'[c].reply = "ok" => Attempted(c)'
      BY <1>2, <1>5, <1>7, <2>1 DEF CallTied, Attempted
    <2>4. CallTied(c)'
      BY <1>2, <1>5, <1>6, <2>1, <2>2, <2>3, CallMoves DEF Attempted
    <2> QED
      BY <1>2, <1>5, <1>6, <1>7, <2>1, <2>4, OneCallStep DEF Attempted
  <1>8. CASE \E now \in Now : RecordExecution(r, now)
    <2>1. PICK now \in Now : RecordExecution(r, now)
      BY <1>8
    <2>2. r \in ReportsOn(r.authId)
      BY <1>3
    <2>3. [Next]_vars
      BY <1>3, <2>1, <2>2 DEF Next
    <2>4. Grows
      BY <2>3, LedgerGrows
    <2>5. /\ DOMAIN executionAttempts' = DOMAIN executionAttempts \cup {r.reportId}
          /\ r.status = "SUCCESS" => Recorded(r)'
          /\ \A id \in DOMAIN executions' \ DOMAIN executions :
                r.status = "SUCCESS" /\ id = r.authId
                /\ executions'[id].txHash = r.txHash
                /\ executions'[id].chainRef = r.chainRef
      BY <2>1, TakenReport
    <2>6. Attempted(c)' /\ \A d \in Calls \ {c} : Attempted(d)' <=> Attempted(d)
      BY <1>3, <2>5, RelayerConstants DEF Attempted
    <2>7. Taken(c)' /\ ReportTied(c)'
      BY <1>2, <1>5, <1>6, <2>4, TakenKept, ReportKept
    <2>8. calls'[c].report.status = "SUCCESS" => Recorded(calls[c].report)'
      BY <1>1, <1>5, <2>5 DEF Recorded
    <2>9. CallTied(c)'
      BY <1>2, <1>5, <2>6, <2>7, <2>8 DEF CallTied
    <2>10. ASSUME NEW id \in DOMAIN executions' \ DOMAIN executions
           PROVE  ExecutionPaid(id)'
      <3>1. PICK x : x = Payout(c, r.txHash)
        OBVIOUS
      <3>2. x \in payouts' /\ x.authId = id /\ x.txHash = r.txHash /\ x.call = c
        BY <1>3, <1>6, <2>5, <3>1 DEF Payout
      <3> QED
        BY <1>3, <1>5, <2>5, <3>2 DEF ExecutionPaid
    <2> QED
      BY <1>2, <1>5, <1>6, <2>3, <2>4, <2>6, <2>9, <2>10, OneCallStep
  <1> QED
    BY <1>4, <1>7, <1>8
-----------------------------------------------------------------------------
(* The agent, the sequencer's authorizations and the rest of the ledger *)

\* A step of one call of pay() that is not with its relayer yet.
LEMMA OnePayStep ==
    ASSUME SystemInv, Grows,
           UNCHANGED <<relayVars, relayerUrls, executions, executionAttempts>>,
           NEW p \in Calls, DOMAIN pays' = Calls, pays[p].pc # "relay",
           \A q \in Calls \ {p} : pays'[q] = pays[q],
           \A x \in requests' : x[1] # p => x \in requests,
           PayTied(p)'
    PROVE  SystemInv'
  <1>1. UNCHANGED <<calls, payouts, inFlight, responses>>
    BY DEF relayVars
  <1>2. ASSUME NEW q \in Calls, q # p PROVE PayTied(q)'
    <2>1. /\ <<q, "authorize">> \in requests' => <<q, "authorize">> \in requests
          /\ <<q, "pay">> \in requests' => <<q, "pay">> \in requests
      BY <1>2
    <2> QED
      BY <1>2, <2>1, PayKept DEF SystemInv
  <1>3. ASSUME NEW c \in Calls PROVE CallTied(c)'
    BY <1>1, CallKept DEF SystemInv, Attempted
  <1>4. DOMAIN calls' = Calls
    BY <1>1 DEF SystemInv
  <1> QED
    BY <1>1, <1>2, <1>3, <1>4, RestKept

LEMMA PayStep ==
    ASSUME TypeOK, SystemInv, NEW p \in Calls, Pay(p)
    PROVE  SystemInv'
  <1>1. PICK i : i = [RequestOf[p] EXCEPT !.expiresAt = clock + ExpiresIn]
    OBVIOUS
  <1>2. i \in Intents
    <2>1. PICK expiry : expiry = clock + ExpiresIn
      OBVIOUS
    <2>2. expiry \in 1..MaxClock
      BY <2>1, LedgerConstants, ClientConstants DEF TypeOK, Pay, ClockHasRoom
    <2> QED
      BY <1>1, <2>1, <2>2, ClientConstants
  <1>3. /\ pays[p].pc = "new" /\ DOMAIN pays = Calls /\ PayTied(p)
        /\ pays' = [pays EXCEPT ![p].pc = "authorize", ![p].intent = i]
        /\ requests' = requests \cup {<<p, "authorize">>}
        /\ UNCHANGED <<vars, relayVars, relayerUrls>>
    BY <1>1 DEF Pay, SystemInv
  <1>4. /\ DOMAIN pays' = Calls /\ \A q \in Calls \ {p} : pays'[q] = pays[q]
        /\ DOMAIN pays'[p] = {"pc", "intent", "authId"}
        /\ pays'[p].pc = "authorize" /\ pays'[p].intent = i
    BY <1>3 DEF PayTied
  <1>5. <<p, "pay">> \notin requests'
    BY <1>3 DEF PayTied
  <1>6. PayTied(p)'
    BY <1>2, <1>4, <1>5 DEF PayTied
  <1>7. Grows /\ UNCHANGED <<executions, executionAttempts>>
    BY <1>3, StutterGrows DEF vars
  <1>8. \A x \in requests' : x[1] # p => x \in requests
    BY <1>3
  <1> QED
    BY <1>3, <1>4, <1>6, <1>7, <1>8, OnePayStep

\* The answer to POST /v1/credit/authorize, if there is one: an authorization
\* of the intent that was sent.
LEMMA AnswerStep ==
    ASSUME SystemInv, Grows, NEW p \in Calls, <<p, "authorize">> \in requests,
           NEW id,
           \/ RelayPay(p, id) /\ id \in DOMAIN authorizations'
              /\ authorizations'[id].intent = pays[p].intent
           \/ NoAuthorization(p),
           UNCHANGED <<relayVars, relayerUrls, executions, executionAttempts>>
    PROVE  SystemInv'
  <1>1. /\ DOMAIN pays = Calls /\ PayTied(p)
        /\ pays[p].pc = "authorize" /\ <<p, "pay">> \notin requests
    BY DEF SystemInv, PayTied
  <1>2. /\ DOMAIN pays' = Calls /\ \A q \in Calls \ {p} : pays'[q] = pays[q]
        /\ DOMAIN pays'[p] = {"pc", "intent", "authId"}
        /\ pays'[p].intent = pays[p].intent
        /\ \A x \in requests' : x[1] # p => x \in requests
        /\ <<p, "authorize">> \notin requests'
    BY <1>1 DEF RelayPay, NoAuthorization, PayTied
  <1>3. \/ pays'[p].pc = "threw" /\ <<p, "pay">> \notin requests'
        \/ /\ pays'[p].pc = "relay" /\ pays'[p].authId = id
           /\ id \in DOMAIN authorizations'
           /\ authorizations'[id].intent = pays[p].intent
           /\ pays[p].intent.requiredChainRef \in DOMAIN relayerUrls
    BY <1>1 DEF RelayPay, NoAuthorization, PayTied
  <1>4. PayTied(p)'
    BY <1>2, <1>3 DEF PayTied
  <1> QED
    BY <1>1, <1>2, <1>4, OnePayStep

LEMMA AuthorizesStep ==
    ASSUME TypeOK, IdempotencyExact, SystemInv, NEW p \in Calls, Authorizes(p)
    PROVE  [Next]_vars /\ SystemInv'
  <1>1. PICK i : i = pays[p].intent
    OBVIOUS
  <1>2. i \in Intents /\ <<p, "authorize">> \in requests
    BY <1>1 DEF Authorizes, SystemInv, PayTied
  <1>3. UNCHANGED <<relayVars, relayerUrls>>
    BY DEF Authorizes
  <1>4. ASSUME NEW now \in Now, AuthorizeIntent(i, now),
               RelayPay(p, idempotencyKeys'[i.requestId].authId) \/ NoAuthorization(p)
        PROVE  [Next]_vars /\ SystemInv'
    <2>1. [Next]_vars
      BY <1>2, <1>4 DEF Next
    <2>2. Grows
      BY <2>1, LedgerGrows
    <2>3. PICK id \in AuthIds :
             /\ Issues(id) /\ id[1] = i
             /\ idempotencyKeys' = WithRow(idempotencyKeys, i.requestId,
                                           [intent |-> i, authId |-> id])
             /\ UNCHANGED <<executions, executionAttempts>>
      BY <1>2, <1>4, AuthorizeIssues
    <2>4. id \in DOMAIN authorizations' /\ authorizations'[id].intent = i
      BY <2>3 DEF Issues
    <2>5. idempotencyKeys'[i.requestId].authId = id
      BY <2>3 DEF WithRow
    <2>6. RelayPay(p, id) \/ NoAuthorization(p)
      BY <1>4, <2>5
    <2> QED
      BY <1>1, <1>2, <1>3, <2>1, <2>2, <2>3, <2>4, <2>6, AnswerStep
  <1>5. ASSUME NEW now \in Now, KnownRequest(i, now), UNCHANGED vars,
               RelayPay(p, idempotencyKeys[i.requestId].authId)
        PROVE  [Next]_vars /\ SystemInv'
    <2>1. Grows /\ UNCHANGED <<authorizations, executions, executionAttempts>>
      BY <1>5, StutterGrows DEF vars
    <2>2. PICK id : id = idempotencyKeys[i.requestId].authId
      OBVIOUS
    <2>3. id \in DOMAIN authorizations /\ authorizations[id].intent = i
      BY <1>5, <2>2 DEF KnownRequest, IdempotencyExact
    <2>4. RelayPay(p, id)
      BY <1>5, <2>2
    <2> QED
      BY <1>1, <1>2, <1>3, <1>5, <2>1, <2>3, <2>4, AnswerStep
  <1> QED
    BY <1>1, <1>4, <1>5 DEF Authorizes

\* The relayer the client is configured with takes the authorization on, if it
\* is of its chain.
LEMMA ReceivesStep ==
    ASSUME SystemInv, NEW p \in Calls, Receives(p)
    PROVE  SystemInv'
  <1>1. PICK relayer, id :
           /\ relayer = relayerUrls[pays[p].intent.requiredChainRef]
           /\ id = pays[p].authId
    OBVIOUS
  <1>2. /\ PayTied(p) /\ CallTied(p) /\ pays[p].pc = "relay"
        /\ DOMAIN calls = Calls /\ DOMAIN pays = Calls
    BY DEF Receives, SystemInv, PayTied
  <1>3. /\ calls[p].pc = "new" /\ Payable(relayer, id)
        /\ calls' = [calls EXCEPT ![p].pc = "pay", ![p].relayer = relayer,
                                  ![p].authId = id]
        /\ UNCHANGED <<vars, payouts, inFlight, responses, relayerUrls, pays>>
        /\ requests' = requests \ {<<p, "pay">>}
    BY <1>1 DEF Receives, Accept
  <1>4. relayer \in Relayers
    BY <1>1, <1>2, ClientConstants DEF SystemInv, PayTied
  <1>5. /\ DOMAIN calls' = Calls /\ \A d \in Calls \ {p} : calls'[d] = calls[d]
        /\ DOMAIN calls'[p] = CallFields /\ calls'[p].pc = "pay"
        /\ calls'[p].relayer = relayer /\ calls'[p].authId = id
    BY <1>2, <1>3 DEF CallTied, CallFields
  <1>6. /\ Grows
        /\ UNCHANGED <<authorizations, executions, executionAttempts>>
    BY <1>3, StutterGrows DEF vars
  <1>7. Taken(p)'
    BY <1>1, <1>2, <1>3, <1>4, <1>5, <1>6 DEF Taken, PayTied, Payable
  <1>8. ~Made(p)'
    BY <1>2, <1>3, <1>5, <1>6 DEF CallTied, Made, Attempted
  <1>9. CallTied(p)'
    BY <1>5, <1>7, <1>8 DEF CallTied, Made
  <1>10. ASSUME NEW d \in Calls, d # p PROVE CallTied(d)'
    BY <1>3, <1>5, <1>6, <1>10, CallKept DEF SystemInv, Attempted
  <1>11. \A q \in Calls : PayTied(q)'
    BY <1>3, <1>6, PayKept DEF SystemInv
  <1>12. \A d \in Calls : calls[d].pc # "new" =>
            calls'[d].pc # "new" /\ calls'[d].relayer = calls[d].relayer
            /\ calls'[d].authId = calls[d].authId
    BY <1>3, <1>5
  <1> QED
    BY <1>2, <1>3, <1>5, <1>6, <1>9, <1>10, <1>11, <1>12, RestKept

LEMMA LedgerMoves ==
    ASSUME TypeOK, SystemInv, [Next]_vars,
           UNCHANGED <<relayVars, clientVars, executions, executionAttempts>>
    PROVE  SystemInv'
  <1>1. UNCHANGED <<calls, payouts, inFlight, responses, relayerUrls, pays, requests>>
    BY DEF relayVars, clientVars
  <1>2. Grows
    BY LedgerGrows
  <1>3. \A p \in Calls : PayTied(p)' /\ CallTied(p)'
    BY <1>1, <1>2, PayKept, CallKept DEF SystemInv, Attempted
  <1>4. DOMAIN pays' = Calls /\ DOMAIN calls' = Calls
    BY <1>1 DEF SystemInv
  <1> QED
    BY <1>1, <1>2, <1>3, <1>4, RestKept
-----------------------------------------------------------------------------
(* The system *)

LEMMA SystemStep ==
    TypeOK /\ IdempotencyExact /\ SystemInv /\ [SystemNext]_systemVars
        => [Next]_vars /\ SystemInv'
  <1> SUFFICES ASSUME TypeOK, IdempotencyExact, SystemInv, [SystemNext]_systemVars
               PROVE  [Next]_vars /\ SystemInv'
    OBVIOUS
  <1>1. CASE LedgerStep
    <2>1. [Next]_vars
      BY <1>1 DEF LedgerStep, Reclaims, Next
    <2>2. UNCHANGED <<executions, executionAttempts, relayVars, clientVars>>
      BY <1>1
      DEF LedgerStep, AdminCredit, Reclaims, ReclaimBySequencer, Tick, reportVars
    <2> QED
      BY <2>1, <2>2, LedgerMoves
  <1>2. CASE RelayerStep
    <2>1. UNCHANGED clientVars
      BY <1>2 DEF RelayerStep
    <2>2. ASSUME NEW c \in Calls, Proceed(c)
          PROVE  [Next]_vars /\ SystemInv'
      <3>1. UNCHANGED vars
        BY <2>2
        DEF Proceed, PayMerchant, PayThrows, SendReport, Respond, Retry
      <3> QED
        BY <2>1, <2>2, <3>1, PayMerchantStep, ProceedStep DEF Proceed
    <2>3. ASSUME NEW c \in Calls, NEW attempt \in 0..2, Deliver(c, attempt)
          PROVE  [Next]_vars /\ SystemInv'
      BY <2>1, <2>3, DeliverStep
    <2>4. ASSUME NEW relayer \in Relayers, RelayerStops(relayer)
          PROVE  [Next]_vars /\ SystemInv'
      <3>1. UNCHANGED vars
        BY <2>4 DEF RelayerStops
      <3> QED
        BY <2>1, <2>4, <3>1, StopStep
    <2> QED
      BY <1>2, <2>2, <2>3, <2>4 DEF RelayerStep
  <1>3. ASSUME NEW p \in Calls, Pay(p) \/ Authorizes(p) \/ Receives(p)
        PROVE  [Next]_vars /\ SystemInv'
    <2>1. CASE Pay(p)
      BY <2>1, PayStep DEF Pay
    <2>2. CASE Authorizes(p)
      BY <2>2, AuthorizesStep
    <2>3. CASE Receives(p)
      BY <2>3, ReceivesStep DEF Receives, Accept
    <2> QED
      BY <1>3, <2>1, <2>2, <2>3
  <1>4. CASE UNCHANGED systemVars
    <2>1. UNCHANGED <<vars, relayVars, clientVars, executions, executionAttempts>>
      BY <1>4 DEF systemVars, vars
    <2> QED
      BY <2>1, LedgerMoves
  <1> QED
    BY <1>1, <1>2, <1>3, <1>4 DEF SystemNext

LEMMA InitSystemInv == SystemInit => SystemInv
  <1> SUFFICES ASSUME SystemInit PROVE SystemInv
    OBVIOUS
  <1>1. /\ relayerUrls \in Configurations /\ DOMAIN pays = Calls
        /\ DOMAIN calls = Calls /\ requests = {} /\ inFlight = {}
        /\ payouts = {} /\ responses = {}
        /\ DOMAIN executions = {} /\ DOMAIN executionAttempts = {}
    BY DEF SystemInit, RelayerInit, Init
  <1>2. ASSUME NEW p \in Calls PROVE PayTied(p) /\ CallTied(p)
    <2>1. /\ DOMAIN pays[p] = {"pc", "intent", "authId"} /\ pays[p].pc = "new"
      BY DEF SystemInit, NewPay
    <2>2. /\ DOMAIN calls[p] = CallFields /\ calls[p].pc = "new"
          /\ calls[p].relayer = NULL
      BY DEF SystemInit, RelayerInit, NewCall, CallFields
    <2> QED
      BY <1>1, <2>1, <2>2 DEF PayTied, CallTied, Made, Attempted
  <1> QED
    BY <1>1, <1>2 DEF SystemInv

LEMMA SystemInvHolds ==
    SystemSpec => []SystemInv /\ [][Next]_vars /\ Init
  <1> DEFINE I == TypeOK /\ IdempotencyExact /\ SystemInv
  <1>1. SystemInit => I /\ Init
    BY InitTypeOK, InitIdempotencyExact, InitSystemInv DEF SystemInit
  <1>2. I /\ [SystemNext]_systemVars => I' /\ [Next]_vars
    BY SystemStep, StepTypeOK, StepIdempotencyExact
  <1>3. I => SystemInv
    OBVIOUS
  <1> HIDE DEF I
  <1> QED
    BY <1>1, <1>2, <1>3, PTL DEF SystemSpec

\* The ledger, with an agent and relayers at work, is the ledger: what is
\* proved of Spec holds of the whole system.
LEMMA SystemKeepsLedger == SystemSpec => Spec
  <1> QED
    BY SystemInvHolds, PTL DEF Spec

\* The sequencer records no execution without a merchant request carried out for
\* it: every report a relayer signs as SUCCESS is of a merchantRequest that
\* executeMerchantRequest carried out (it returned below 400) for a call that
\* brought this authorization, in that transaction and by a relayer of that
\* chain, and recordExecution takes no other, however the reports of overlapping
\* calls are delayed, lost, sent again or overtaken.  Whom the request pays and
\* how much is its caller's choice (MerchantRequestOf is any function).
THEOREM ExecutionsArePaid == SystemSpec => []ExecutionsPaid
  <1>1. SystemInv => ExecutionsPaid
    BY DEF SystemInv, ExecutionPaid, ExecutionsPaid, PayoutTied
  <1> QED
    BY <1>1, SystemInvHolds, PTL

\* An agent told DONE has its execution on record, with the transaction it was
\* told and for the intent it signed: the answer "ok" to an attempt of
\* reportExecution means that this call's report is in the table of attempts.
THEOREM DoneMeansRecorded == SystemSpec => []DoneIsRecorded
  <1>1. SystemInv /\ SettledOnce => DoneIsRecorded
    BY DEF SystemInv, ResponseTied, SettledOnce, DoneIsRecorded
  <1> QED
    BY <1>1, SystemInvHolds, SystemKeepsLedger, SettlesOnce, PTL

-----------------------------------------------------------------------------
(* Refunds and relayers *)

\* A reclaim is not of the future.
ReclaimedInPast ==
    \A id \in DOMAIN authorizations :
        authorizations[id].reclaimedAt # NULL => authorizations[id].reclaimedAt <= clock

LEMMA StepReclaimedInPast ==
    TypeOK /\ ReclaimedInPast /\ [Next]_vars => ReclaimedInPast'
  <1> SUFFICES ASSUME TypeOK, ReclaimedInPast, [Next]_vars PROVE ReclaimedInPast'
    OBVIOUS
  <1>0. \A id \in DOMAIN authorizations : authorizations[id] \in AuthorizationRow
    BY DEF TypeOK
  <1>1. CASE Authorize
    <2>1. PICK i \in Intents, now \in Now : AuthorizeIntent(i, now)
      BY <1>1 DEF Authorize
    <2>2. PICK id \in AuthIds : Issues(id)
      BY <2>1, AuthorizeIssues
    <2> QED
      BY <2>1, <2>2 DEF AuthorizeIntent, Issues, ReclaimedInPast
  <1>2. CASE ReportStep
    <2>1. PICK id \in DOMAIN authorizations : \E r \in ReportsOn(id), now \in Now :
             RecordExecution(r, now)
      BY <1>2 DEF ReportStep
    <2>2. PICK r \in ReportsOn(id), now \in Now : RecordExecution(r, now)
      BY <2>1
    <2>3. UNCHANGED clock
      BY <2>2 DEF RecordExecution, RecordFailure, RecordSuccess, RecordRepeat
    <2>4. CASE RecordSuccess(r, now)
      <3>1. Replaces(id, Executed(authorizations[id], now)) /\ now \in Nat
        BY <2>4, SuccessReplaces
      <3>2. Executed(authorizations[id], now).reclaimedAt
               = authorizations[id].reclaimedAt
        BY <1>0, <3>1, SettledRow
      <3> QED
        BY <2>3, <3>1, <3>2 DEF Replaces, ReclaimedInPast
    <2>5. CASE RecordFailure(r, now) \/ RecordRepeat(r, now)
      BY <2>5 DEF RecordFailure, RecordRepeat, ReclaimedInPast
    <2> QED
      BY <2>2, <2>4, <2>5 DEF RecordExecution
  <1>3. CASE ReclaimStep
    <2>1. PICK id \in DOMAIN authorizations, now \in Now :
             Reclaimable(id, now) /\ CreditBack(id, now) /\ UNCHANGED clock
      BY <1>3 DEF ReclaimStep
    <2>2. Replaces(id, Reclaimed(authorizations[id], now)) /\ now \in Nat
      BY <2>1, ReclaimReplaces
    <2>3. Reclaimed(authorizations[id], now).reclaimedAt = now
      BY <1>0, <2>2, SettledRow
    <2>4. now <= clock
      BY <2>1 DEF Now, TypeOK
    <2> QED
      BY <2>1, <2>2, <2>3, <2>4 DEF Replaces, ReclaimedInPast
  <1>4. CASE Credit \/ RunCommitmentEpoch \/ Quiet
    <2>1. UNCHANGED authorizations /\ clock' \in {clock, clock + 1}
      BY <1>4 DEF Credit, AdminCredit, RunCommitmentEpoch, Quiet
    <2>2. \A id \in DOMAIN authorizations :
             authorizations[id].reclaimedAt \in Nat \cup {NULL}
      BY <1>0 DEF AuthorizationRow
    <2> QED
      BY <2>1, <2>2 DEF ReclaimedInPast, TypeOK
  <1> QED
    BY <1>1, <1>2, <1>3, <1>4, StepCases

LEMMA ReclaimsAreOfThePast == Spec => []ReclaimedInPast
  <1>1. Init => ReclaimedInPast
    BY DEF Init, ReclaimedInPast
  <1> QED
    BY <1>1, StepReclaimedInPast, TypeCorrect, PTL DEF Spec

RefusesRefunded ==
    \A c \in Calls :
        calls[c].pc = "new" /\ calls'[c].pc = "pay" =>
           authorizations[calls'[c].authId].status # "RECLAIMED"

LEMMA RefundedIsExpired ==
    ASSUME TypeOK, SettledOnce, ReclaimedInPast, NEW id \in DOMAIN authorizations,
           clock <= authorizations[id].intent.expiresAt
    PROVE  authorizations[id].status # "RECLAIMED"
  <1>1. authorizations[id] \in AuthorizationRow
    BY DEF TypeOK
  <1>2. /\ authorizations[id].reclaimedAt \in Nat \cup {NULL}
        /\ authorizations[id].intent.expiresAt \in Nat /\ clock \in Nat
    BY <1>1, IntentFields DEF AuthorizationRow, TypeOK
  <1> QED
    BY <1>2 DEF SettledOnce, ReclaimedInPast

LEMMA OnlyReceivesTakesOn ==
    ASSUME SystemInv, [SystemNext]_systemVars, NEW c \in Calls,
           calls[c].pc = "new", calls'[c].pc = "pay"
    PROVE  Receives(c)
  <1>1. calls'[c] # calls[c] /\ DOMAIN calls = Calls /\ DOMAIN calls[c] = CallFields
    BY DEF SystemInv, CallTied
  <1>2. ~LedgerStep /\ ~UNCHANGED systemVars
        /\ \A p \in Calls : ~Pay(p) /\ ~Authorizes(p)
    BY <1>1 DEF LedgerStep, systemVars, relayVars, Pay, Authorizes
  <1>3. ASSUME NEW d \in Calls, Proceed(d) PROVE FALSE
    <2>1. calls[d].pc # "new" /\ calls'[c] = IF d = c THEN calls'[c] ELSE calls[c]
      BY <1>1, <1>3
      DEF Proceed, PayMerchant, PayThrows, SendReport, Respond, Retry
    <2> QED
      BY <1>1, <2>1
  <1>4. ASSUME NEW d \in Calls, NEW attempt \in 0..2, Deliver(d, attempt)
        PROVE  FALSE
    <2>1. PICK reply : Reply(d, attempt, reply)
      BY <1>4 DEF Deliver
    <2>2. calls'[c].pc = calls[c].pc
      BY <1>1, <2>1 DEF Reply, CallFields
    <2> QED
      BY <2>2
  <1>5. ASSUME NEW relayer \in Relayers, RelayerStops(relayer) PROVE FALSE
    <2>1. calls'[c] = calls[c] \/ calls'[c].pc = "ended"
      BY <1>1, <1>5 DEF RelayerStops, Ended, CallFields
    <2> QED
      BY <1>1, <2>1
  <1>6. PICK p \in Calls : Receives(p)
    BY <1>2, <1>3, <1>4, <1>5 DEF SystemNext, RelayerStep
  <1> QED
    BY <1>1, <1>6 DEF Receives, Accept

\* No relayer takes on an authorization that was already refunded: a reclaim,
\* whoever asks for it, comes after expires_at (reclaimAuthorization), and
\* POST /v1/relay/pay refuses an authorization past it, by the same clock.
THEOREM RefundedStaysUnpaid == SystemSpec => RefundedIsNotAccepted
  <1>1. TypeOK /\ SettledOnce /\ ReclaimedInPast /\ SystemInv
           /\ [SystemNext]_systemVars => [RefusesRefunded]_relayVars
    <2> SUFFICES ASSUME TypeOK, SettledOnce, ReclaimedInPast, SystemInv,
                        [SystemNext]_systemVars, NEW c \in Calls,
                        calls[c].pc = "new", calls'[c].pc = "pay"
                 PROVE  authorizations[calls'[c].authId].status # "RECLAIMED"
      BY DEF RefusesRefunded
    <2>1. Receives(c)
      BY OnlyReceivesTakesOn
    <2>2. /\ calls'[c].authId = pays[c].authId
          /\ pays[c].authId \in DOMAIN authorizations
          /\ clock <= authorizations[pays[c].authId].intent.expiresAt
      BY <2>1 DEF Receives, Accept, Payable, SystemInv, PayTied, CallTied, CallFields
    <2> QED
      BY <2>2, RefundedIsExpired
  <1> QED
    BY <1>1, SystemInvHolds, SystemKeepsLedger, SettlesOnce, TypeCorrect,
       ReclaimsAreOfThePast, PTL
    DEF SystemSpec, RefundedIsNotAccepted, RefusesRefunded
=============================================================================
