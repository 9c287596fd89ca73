--------------------------- MODULE PaymentRelayer ---------------------------
(***************************************************************************)
(* The payment relayers and the credit ledger.  A relayer serves one       *)
(* chain.  A call of POST /v1/relay/pay checks the authorization it        *)
(* carries, executes the merchantRequest that came with it, and reports    *)
(* the outcome to the sequencer, trying three times.  Whom that request    *)
(* pays and how much is what the caller wrote into it: the relayer does    *)
(* not compare it with the merchantId and the amount of the authorization. *)
(* It keeps nothing between calls: the same authorization may be brought   *)
(* to it again, by calls that overlap, with another merchantRequest.       *)
(*                                                                         *)
(* A report sent reaches the sequencer at any later time, also when the    *)
(* relayer has given up on it, or never: one that is lost stays in flight. *)
(* So with its answer.  A relayer may stop at any point of a call.         *)
(* Relayers and sequencer read the same clock.                             *)
(***************************************************************************)
EXTENDS CreditLedger

CONSTANTS
    Relayers,      \* relayers run, as [chainRef, keyId]
    Calls,         \* calls of POST /v1/relay/pay, the bound of the model
    MerchantRequestOf, \* the merchantRequest of each: whom to pay, how much
    ReportIdOf,    \* the random report id each of them draws
    TxHashesOf     \* the transactions each of them may pay in

ASSUME RelayerConstants ==
    /\ Relayers \subseteq [chainRef: ChainRefs, keyId: RelayerKeyIds]
    /\ NULL \notin Relayers /\ NULL \notin {"ok", "error"}
    /\ DOMAIN MerchantRequestOf = Calls
    /\ ReportIdOf \in [Calls -> ReportIds]
    /\ TxHashesOf \in [Calls -> SUBSET TxHashes]
    /\ \A c, d \in Calls : ReportIdOf[c] = ReportIdOf[d] => c = d

VARIABLES
    calls,      \* what each call has got to
    payouts,    \* merchant requests carried out, with their transaction
    inFlight,   \* reports on their way to the sequencer, by call and attempt
    responses   \* RelayPayResponseV1 of status DONE that callers received

relayVars == <<calls, payouts, inFlight, responses>>

\* report is the signed report, once made; attempt counts its transmissions;
\* reply is the sequencer's answer to the last.
NewCall == [pc |-> "new", relayer |-> NULL, authId |-> NULL, report |-> NULL,
            attempt |-> 0, reply |-> NULL]

RelayerInit ==
    /\ calls = [c \in Calls |-> NewCall]
    /\ payouts = {} /\ inFlight = {} /\ responses = {}

-----------------------------------------------------------------------------
(* A call of POST /v1/relay/pay *)

\* Its report may still be in flight.
Ended(call) == [call EXCEPT !.pc = "ended", !.attempt = 0, !.reply = NULL]

\* The checks of the handler; the caller holds the sequencer's signature.
PayableAtAnyTime(relayer, authId) ==
    authorizations[authId].intent.requiredChainRef = relayer.chainRef
Payable(relayer, authId) ==
    /\ authorizations[authId].intent.requiredChainRef = relayer.chainRef
    /\ clock <= authorizations[authId].intent.expiresAt

Accept(c, relayer, authId) ==
    /\ calls[c].pc = "new"
    /\ Payable(relayer, authId)
    /\ calls' = [calls EXCEPT ![c].pc = "pay", ![c].relayer = relayer,
                              ![c].authId = authId]
    /\ UNCHANGED <<vars, payouts, inFlight, responses>>

\* A request answered with an error status was not carried out.
MerchantStatuses == {"below400", "400orMore"}
ReportSuccess(merchantStatus) == "SUCCESS"
ReportStatus(merchantStatus) ==
    IF merchantStatus = "below400" THEN "SUCCESS" ELSE "FAILED"

ReportOf(c, txHash, merchantStatus) ==
    [authId |-> calls[c].authId, chainRef |-> calls[c].relayer.chainRef,
     keyId |-> calls[c].relayer.keyId, reportId |-> ReportIdOf[c],
     txHash |-> txHash, status |-> ReportStatus(merchantStatus)]

\* The authorization only says which call this is: payee and amount are those
\* of the request.
Payout(c, txHash) == [authId |-> calls[c].authId, txHash |-> txHash, call |-> c,
                      request |-> MerchantRequestOf[c]]

\* executeMerchantRequest returns: the transfer the request asks for went
\* through, or the address it names answered it.  (In payout mode noop nothing
\* is sent and the request counts as carried out.)
PayMerchant(c, txHash, merchantStatus) ==
    /\ calls[c].pc = "pay"
    /\ payouts' = IF merchantStatus = "below400"
                  THEN payouts \cup {Payout(c, txHash)} ELSE payouts
    /\ calls' = [calls EXCEPT ![c].pc = "report",
                              ![c].report = ReportOf(c, txHash, merchantStatus)]
    /\ UNCHANGED <<vars, inFlight, responses>>

\* executeMerchantRequest throws, the request carried out or not (a timeout, an
\* answer too long): nothing is reported.
PayThrows(c) ==
    /\ calls[c].pc = "pay"
    /\ \E made \in SUBSET {Payout(c, t) : t \in TxHashesOf[c]} :
          Cardinality(made) <= 1 /\ payouts' = payouts \cup made
    /\ calls' = [calls EXCEPT ![c] = Ended(@)]
    /\ UNCHANGED <<vars, inFlight, responses>>

\* The loop around reportExecution.
NoIncrement(attempt) == attempt
NextAttempt(attempt) == attempt + 1

SendReport(c) ==
    /\ calls[c].pc = "report"
    /\ inFlight' = inFlight \cup {<<c, calls[c].attempt>>}
    /\ calls' = [calls EXCEPT ![c].pc = "await", ![c].reply = NULL]
    /\ UNCHANGED <<vars, payouts, responses>>

AnyReply(reply) == reply # NULL
ReplyOk(reply) == reply = "ok"

\* The sequencer took the report: the caller is told how the payment went.
Respond(c) ==
    LET report == calls[c].report
    IN  /\ calls[c].pc = "await" /\ ReplyOk(calls[c].reply)
        /\ responses' = IF report.status = "SUCCESS"
                        THEN responses \cup {[call |-> c, authId |-> report.authId,
                                              executionTxHash |-> report.txHash]}
                        ELSE responses
        /\ calls' = [calls EXCEPT ![c] = Ended(@)]
        /\ UNCHANGED <<vars, payouts, inFlight>>

\* An error status, or no answer: the report is sent again, three times in all,
\* then the caller is told FAILED.
Retry(c) ==
    /\ calls[c].pc = "await"
    /\ LET attempt == NextAttempt(calls[c].attempt)
       IN  calls' = [calls EXCEPT ![c] =
                        IF attempt >= 3 THEN Ended(@)
                        ELSE [@ EXCEPT !.attempt = attempt, !.pc = "report"]]
    /\ UNCHANGED <<vars, payouts, inFlight, responses>>

\* The relayer's process ends with its calls.
RelayerStops(relayer) ==
    /\ \E c \in Calls : calls[c].relayer = relayer /\ calls[c].pc # "ended"
    /\ calls' = [c \in Calls |->
                    IF calls[c].relayer = relayer THEN Ended(calls[c]) ELSE calls[c]]
    /\ UNCHANGED <<vars, payouts, inFlight, responses>>

-----------------------------------------------------------------------------
(* POST /v1/credit/executions at the sequencer *)

Recordable(r, now) ==
    /\ ReportAccepted(r, now)
    /\ r.status = "SUCCESS" =>
          IF r.authId \in DOMAIN executions
          THEN executions[r.authId].txHash = r.txHash
          ELSE authorizations[r.authId].status = "ISSUED"

\* The answer reaches the call if it still waits for this attempt.
Reply(c, attempt, reply) ==
    calls' = [calls EXCEPT ![c].reply =
                 IF calls[c].pc = "await" /\ calls[c].attempt = attempt
                 THEN reply ELSE @]

Deliver(c, attempt) ==
    LET report == calls[c].report
    IN  /\ <<c, attempt>> \in inFlight
        /\ inFlight' = inFlight \ {<<c, attempt>>}
        /\ \/ /\ report.reportId \in DOMAIN executionAttempts
              /\ Reply(c, attempt, "ok") /\ UNCHANGED vars
           \/ \E now \in Now :
                 RecordExecution(report, now) /\ Reply(c, attempt, "ok")
           \/ /\ report.reportId \notin DOMAIN executionAttempts
              /\ \E now \in Now : ~Recordable(report, now)
              /\ Reply(c, attempt, "error") /\ UNCHANGED vars
        /\ UNCHANGED <<payouts, responses>>

-----------------------------------------------------------------------------

\* What a call does by itself once it is accepted.
Proceed(c) ==
    \/ \E t \in TxHashesOf[c], s \in MerchantStatuses : PayMerchant(c, t, s)
    \/ PayThrows(c)
    \/ SendReport(c) \/ Respond(c) \/ Retry(c)

-----------------------------------------------------------------------------

\* The sequencer records no execution without a merchant request carried out
\* for it: an authorization is EXECUTED only if a relayer of the authorized
\* chain executed, in the transaction on record, the merchantRequest of a call
\* that brought this very authorization, whatever reports came late or twice.
\* It does not say that the authorization's merchant was paid, nor its amount:
\* the request is the caller's, and no code compares the two.
ExecutionsPaid ==
    \A id \in DOMAIN executions :
        \E p \in payouts :
            /\ p.txHash = executions[id].txHash
            /\ p.request = MerchantRequestOf[p.call]
            /\ calls[p.call].authId = id
            /\ calls[p.call].relayer.chainRef = executions[id].chainRef

\* No relayer takes on an authorization that was already refunded: it looks at
\* expires_at only, and a reclaim, by whoever, comes after that.
RefundedIsNotAccepted ==
    [][\A c \in Calls :
          calls[c].pc = "new" /\ calls'[c].pc = "pay" =>
             authorizations[calls'[c].authId].status # "RECLAIMED"]_relayVars
=============================================================================
