------------------------------ MODULE LedgerTx ------------------------------
(***************************************************************************)
(* The transactions of the credit ledger statement by statement.           *)
(*                                                                         *)
(* Every HTTP request runs as one READ COMMITTED transaction (withTx) on a *)
(* connection of its own.  SELECT ... FOR UPDATE waits for the row's lock, *)
(* then reads the row as last committed; what was read is kept in          *)
(* variables of the request and written back, as absolute values, later.   *)
(* A row that is not there is not locked.  Rows a transaction writes are   *)
(* visible to others when it commits, and its locks end then.  PostgreSQL  *)
(* aborts a transaction of a cycle of lock waits.  A transaction may also  *)
(* end at any statement without effect: an error, a lost connection, a     *)
(* crash of the server.                                                    *)
(*                                                                         *)
(* The tables are those of CreditLedger, whose Spec this module implements *)
(***************************************************************************)
EXTENDS CreditLedger

CONSTANT Sessions   \* concurrent requests

VARIABLES
    session,   \* what each request in progress has read, and the locks it holds
    answers    \* authorizations returned to clients, with the intent asked

tables == <<agents, idempotencyKeys, authorizations, reportVars, logVars>>
txVars == <<clock, sweep, tables, session, answers>>

\* pc names the next statement; arg is the request; now is kept where a later
\* statement uses it; agent, row, tip and pending are the results of the
\* queries on agents, on idempotency_keys or authorizations, on
\* sequencer_counters and on auth_leaves.
Idle == [pc |-> "idle", arg |-> NULL, now |-> 0, holds |-> {},
         agent |-> NULL, row |-> NULL, tip |-> NULL, pending |-> {}]

TxInit ==
    /\ Init
    /\ session = [s \in Sessions |-> Idle]
    /\ answers = {}

-----------------------------------------------------------------------------
(* Row locks *)

AgentLock(a) == <<"agents", a>>
RequestLock(r) == <<"idempotency_keys", r>>
AuthorizationLock(id) == <<"authorizations", id>>
RelayerKeyLock(chain, key) == <<"relayer_keys", chain, key>>
CountersLock == <<"sequencer_counters">>

\* The rows the next statement of a session selects FOR UPDATE.
RowsSelected(s) ==
    LET my == session[s]
    IN  CASE my.pc = "lockAgent" -> {AgentLock(my.arg.agentId)}
          [] my.pc = "findRequest" ->
                {RequestLock(r) : r \in {my.arg.requestId} \cap DOMAIN idempotencyKeys}
          [] my.pc = "replay" -> {AuthorizationLock(my.row.authId)}
          [] my.pc \in {"lockCounters", "lockLog"} -> {CountersLock}
          [] my.pc = "lockReported" -> {AuthorizationLock(my.arg.authId)}
          [] my.pc = "lockKey" -> {RelayerKeyLock(my.arg.chainRef, my.arg.keyId)}
          [] my.pc = "lockReclaimed" -> {AuthorizationLock(my.arg)}
          [] my.pc = "lockOwner" -> {AgentLock(my.row.intent.agentId)}
          [] OTHER -> {}

LocksNeededButAgents(s) == {lock \in RowsSelected(s) : lock[1] # "agents"}
LocksNeededWithOwner(s) ==
    RowsSelected(s) \cup
        IF session[s].pc = "lockKey"
        THEN {AgentLock(session[s].row.intent.agentId)} ELSE {}
LocksNeeded(s) == RowsSelected(s)

WaitsFor(s, t) == s # t /\ LocksNeeded(s) \cap session[t].holds # {}
Runs(s, pc) == session[s].pc = pc /\ \A t \in Sessions : ~WaitsFor(s, t)

\* s is in every set that has the sessions it waits for and with each session
\* those that one waits for: it waits, through others, for itself.
Deadlocked(s) ==
    \A W \in SUBSET Sessions :
        /\ \A t \in Sessions : WaitsFor(s, t) => t \in W
        /\ \A t \in W, u \in Sessions : WaitsFor(t, u) => u \in W
        => s \in W

\* The statement locks its rows and the request goes on as next, or the code
\* throws and the transaction rolls back.
QueryWithoutRollback(s, ok, next) ==
    /\ session' = [session EXCEPT ![s] =
          IF ok THEN [next EXCEPT !.holds = @ \cup LocksNeeded(s)] ELSE @]
    /\ UNCHANGED <<clock, sweep, tables, answers>>
Query(s, ok, next) ==
    /\ session' = [session EXCEPT ![s] =
          IF ok THEN [next EXCEPT !.holds = @ \cup LocksNeeded(s)] ELSE Idle]
    /\ UNCHANGED <<clock, sweep, tables, answers>>

Abort(s) ==
    /\ session[s].pc # "idle"
    /\ session' = [session EXCEPT ![s] = Idle]
    /\ UNCHANGED <<clock, sweep, tables, answers>>

DeadlockAbort(s) == Deadlocked(s) /\ Abort(s)

\* now is read, and what needs no table is checked, before BEGIN.
Begin(s, pc, arg, now) ==
    /\ session[s] = Idle
    /\ session' = [session EXCEPT ![s] =
          [Idle EXCEPT !.pc = pc, !.arg = arg, !.now = now]]
    /\ UNCHANGED <<clock, sweep, tables, answers>>

Request(s) ==
    \/ \E i \in Intents :
          /\ clock <= i.expiresAt
          /\ i.requiredChainRef \in SupportedChainRefs
          /\ Begin(s, "lockAgent", i, 0)
    \/ \E id \in DOMAIN authorizations :
          \/ \E r \in ReportsOn(id) : Begin(s, "lockReported", r, clock)
          \/ Begin(s, "lockReclaimed", id, clock)
    \/ Begin(s, "lockLog", NULL, 0)

-----------------------------------------------------------------------------
(* authorizeIntent *)

LockAgent(s) ==
    LET agent == agents[session[s].arg.agentId]
    IN  /\ Runs(s, "lockAgent")
        /\ Query(s, agent.pubKey \in {NULL, session[s].arg.agentPubKey},
                 [session[s] EXCEPT !.pc = "findRequest", !.agent = agent])

RequestKnown(i) == i.requestId \in DOMAIN idempotencyKeys
SameIntent(i) == idempotencyKeys[i.requestId].intent = i

\* An unknown request id has its nonce and amount checked against the agent
\* row read before; a known one must be of the same intent.
FindRequest(s) ==
    LET i == session[s].arg
        agent == session[s].agent
    IN  /\ Runs(s, "findRequest")
        /\ IF RequestKnown(i)
           THEN Query(s, SameIntent(i),
                  [session[s] EXCEPT !.pc = "replay",
                                     !.row = idempotencyKeys[i.requestId]])
           ELSE Query(s, /\ i.agentNonce = agent.nextNonce
                         /\ i.amountMicros > 0
                         /\ agent.balance >= i.amountMicros,
                  [session[s] EXCEPT !.pc = "lockCounters"])

Answered(s, id) ==
    [session EXCEPT ![s] =
        [Idle EXCEPT !.pc = "answer", !.arg = session[s].arg, !.row = id]]

Replay(s) ==
    /\ Runs(s, "replay")
    /\ session' = Answered(s, session[s].row.authId)
    /\ UNCHANGED <<clock, sweep, tables, answers>>

LockCounters(s) ==
    /\ Runs(s, "lockCounters")
    /\ Query(s, TRUE, [session[s] EXCEPT !.pc = "insert", !.tip = counters])

\* The INSERTs, the UPDATEs with the values computed from what was read, and
\* COMMIT; an INSERT fails on a key that is there by now.
Insertable(s, id, seqNo) ==
    LET i == session[s].arg
        agent == session[s].agent
    IN  /\ i.requestId \notin DOMAIN idempotencyKeys
        /\ UniqueAuthorization(id, seqNo)
        /\ agent.debitedOutstanding + i.amountMicros <= agent.credited

InsertAuthorization(s) ==
    LET i == session[s].arg
        tip == session[s].tip
        debited == WithDebit(session[s].agent, i)
        seqNo == tip.logSeqNo + 1
        epochHint == tip.lastEpochId + 1
        id == DeriveAuthorizationId(i, epochHint, seqNo)
        leafHash == AuthorizationLeaf(tip.lastLeafHash, id)
    IN  /\ Runs(s, "insert")
        /\ Insertable(s, id, seqNo)
        /\ authorizations' = WithRow(authorizations, id,
                                     NewAuthorization(i, epochHint, seqNo))
        /\ idempotencyKeys' = WithRow(idempotencyKeys, i.requestId,
                                      [intent |-> i, authId |-> id])
        /\ authLeaves' = WithRow(authLeaves, seqNo,
              [authId |-> id, prevLeafHash |-> tip.lastLeafHash,
               leafHash |-> leafHash, epochId |-> NoEpoch])
        /\ agents' = [agents EXCEPT
              ![i.agentId] = [debited EXCEPT !.credited = agents[i.agentId].credited]]
        /\ counters' = [counters EXCEPT !.logSeqNo = seqNo,
                                        !.lastLeafHash = leafHash]
        /\ session' = Answered(s, id)
        /\ UNCHANGED <<clock, sweep, reportVars, commitments, answers>>

InsertFails(s) ==
    LET seqNo == session[s].tip.logSeqNo + 1
        epochHint == session[s].tip.lastEpochId + 1
    IN  /\ Runs(s, "insert")
        /\ ~Insertable(s, DeriveAuthorizationId(session[s].arg, epochHint, seqNo),
                       seqNo)
        /\ Abort(s)

\* The response reaches the client; Abort loses it after the COMMIT.
Answer(s) ==
    /\ Runs(s, "answer")
    /\ answers' = answers \cup {<<session[s].arg, session[s].row>>}
    /\ session' = [session EXCEPT ![s] = Idle]
    /\ UNCHANGED <<clock, sweep, tables>>

-----------------------------------------------------------------------------
(* recordExecution *)

LockReported(s) ==
    LET r == session[s].arg
        row == authorizations[r.authId]
    IN  /\ Runs(s, "lockReported")
        /\ Query(s, r.chainRef = row.intent.requiredChainRef,
                 [session[s] EXCEPT !.pc = "lockKey", !.row = row])

LockKey(s) ==
    LET r == session[s].arg
    IN  /\ Runs(s, "lockKey")
        /\ Query(s, <<r.chainRef, r.keyId>> \in ActiveRelayerKeys,
                 [session[s] EXCEPT !.pc = "record"])

\* The queries on execution_attempts and executions and the writes: reports of
\* one chain and of one authorization wait for each other's locks, so nothing
\* they read here changes between the statements.
Recordable(s) ==
    LET r == session[s].arg
        row == session[s].row
    IN  /\ r.reportId \notin DOMAIN executionAttempts
        /\ row.status \in {"ISSUED", "EXECUTED"}
        /\ session[s].now <= row.graceUntil
        /\ r.status = "SUCCESS" =>
              IF r.authId \in DOMAIN executions
              THEN executions[r.authId].txHash = r.txHash
              ELSE row.status = "ISSUED"

Record(s) ==
    LET r == session[s].arg
    IN  /\ Runs(s, "record") /\ Recordable(s)
        /\ InsertAttempt(r)
        /\ IF r.status = "SUCCESS" /\ r.authId \notin DOMAIN executions
           THEN /\ executions' = WithRow(executions, r.authId,
                      [chainRef |-> r.chainRef, txHash |-> r.txHash,
                       keyId |-> r.keyId])
                /\ authorizations' = [authorizations EXCEPT ![r.authId] =
                      Executed(authorizations[r.authId], session[s].now)]
           ELSE UNCHANGED <<executions, authorizations>>
        /\ session' = [session EXCEPT ![s] = Idle]
        /\ UNCHANGED <<clock, sweep, agents, idempotencyKeys, logVars, answers>>

RecordFails(s) == Runs(s, "record") /\ ~Recordable(s) /\ Abort(s)

-----------------------------------------------------------------------------
(* reclaimAuthorization, runCommitmentEpoch and POST /v1/admin/credit *)

Lapsed(row, now) ==
    row.status = "ISSUED" /\ row.reclaimedAt = NULL /\ now > row.intent.expiresAt

\* A sequencer's reclaim is checked before the agent row is locked, an agent's
\* after it: its row holds the key that verifies the signature.  The row of the
\* authorization is locked by then, so a second check finds what the first did.
LockReclaimed(s) ==
    LET row == authorizations[session[s].arg]
    IN  /\ Runs(s, "lockReclaimed")
        /\ \E callerType \in {"sequencer", "agent"} :
              Query(s, callerType = "sequencer" => Lapsed(row, session[s].now),
                    [session[s] EXCEPT !.pc = "lockOwner", !.row = row])

LockOwner(s) ==
    LET i == session[s].row.intent
        agent == agents[i.agentId]
    IN  /\ Runs(s, "lockOwner")
        /\ Query(s, /\ Lapsed(session[s].row, session[s].now)
                    /\ agent.debitedOutstanding >= i.amountMicros,
                 [session[s] EXCEPT !.pc = "refund", !.agent = agent])

Refund(s) ==
    LET i == session[s].row.intent
        refunded == WithRefund(session[s].agent, i.amountMicros)
    IN  /\ Runs(s, "refund")
        /\ agents' = [agents EXCEPT
              ![i.agentId].balance = refunded.balance,
              ![i.agentId].debitedOutstanding = refunded.debitedOutstanding]
        /\ authorizations' = [authorizations EXCEPT
              ![session[s].arg] = Reclaimed(authorizations[session[s].arg],
                                            session[s].now)]
        /\ session' = [session EXCEPT ![s] = Idle]
        /\ UNCHANGED <<clock, sweep, idempotencyKeys, reportVars, logVars, answers>>

LockLog(s) ==
    /\ Runs(s, "lockLog")
    /\ Query(s, TRUE, [session[s] EXCEPT !.pc = "readLeaves", !.tip = counters])

ReadLeaves(s) ==
    /\ Runs(s, "readLeaves")
    /\ Query(s, PendingLeaves # {},
             [session[s] EXCEPT !.pc = "commitEpoch", !.pending = PendingLeaves])

\* The UPDATE of auth_leaves takes whatever is uncommitted by now; root and
\* count are of the leaves read.
EndEpoch(s) ==
    LET tip == session[s].tip
        pending == session[s].pending
        epochId == tip.lastEpochId + 1
    IN  /\ Runs(s, "commitEpoch")
        /\ epochId \notin DOMAIN commitments
        /\ CommitLeaves(epochId)
        /\ commitments' = WithRow(commitments, epochId,
              [root |-> MerkleRoot(pending), count |-> Cardinality(pending),
               prevRoot |-> tip.lastRoot])
        /\ \E top \in pending \cup {counters.logSeqNo} :
              /\ \A n \in pending \cup {counters.logSeqNo} : n <= top
              /\ counters' = [counters EXCEPT !.lastEpochId = epochId,
                                !.lastRoot = MerkleRoot(pending), !.logSeqNo = top]
        /\ session' = [session EXCEPT ![s] = Idle]
        /\ UNCHANGED <<clock, sweep, agents, idempotencyKeys, authorizations,
                       reportVars, answers>>

\* One INSERT ... ON CONFLICT DO UPDATE: it waits for the row and adds to it.
CreditAgent(a, amount) ==
    /\ \A s \in Sessions : AgentLock(a) \notin session[s].holds
    /\ AdminCredit(a, amount)
    /\ UNCHANGED <<session, answers>>

-----------------------------------------------------------------------------

Statement(s) ==
    \/ LockAgent(s) \/ FindRequest(s) \/ Replay(s) \/ LockCounters(s)
    \/ InsertAuthorization(s) \/ InsertFails(s) \/ Answer(s)
    \/ LockReported(s) \/ LockKey(s) \/ Record(s) \/ RecordFails(s)
    \/ LockReclaimed(s) \/ LockOwner(s) \/ Refund(s)
    \/ LockLog(s) \/ ReadLeaves(s) \/ EndEpoch(s)

TxNext ==
    \/ \E s \in Sessions :
          Request(s) \/ Statement(s) \/ DeadlockAbort(s) \/ Abort(s)
    \/ \E a \in Agents, amount \in CreditAmounts : CreditAgent(a, amount)
    \/ Tick /\ UNCHANGED <<session, answers>>

TxSpec == TxInit /\ [][TxNext]_txVars

\* A statement whose rows are free again and again is served (lock waits are
\* queued), and PostgreSQL breaks a cycle of waits.
TxFairSpec ==
    /\ TxSpec
    /\ \A s \in Sessions : SF_txVars(Statement(s))
    /\ WF_txVars(\E s \in Sessions : DeadlockAbort(s))

-----------------------------------------------------------------------------

\* Concurrent requests, in any interleaving of their statements and with any
\* of them cut off, change the tables only as the atomic ledger does: no lost
\* update of a balance or of the counters, no leaf between the root and the
\* UPDATE of an epoch, no two executions, no refund of an executed payment.
ImplementsLedger == Init /\ [][Next]_vars

\* Clients that ask twice, concurrently or after losing the answer, are told
\* the same authorization, and it is on record.
AnswersAgree ==
    /\ \A x \in answers :
          /\ x[2] \in DOMAIN authorizations
          /\ authorizations[x[2]].intent = x[1]
    /\ \A x, y \in answers : x[1].requestId = y[1].requestId => x = y

\* The only cycles of lock waits are of a replayed authorize (agent row, then
\* authorization row) and a reclaim (authorization row, then agent row).
OnlyReplayAndReclaimDeadlock ==
    \A s \in Sessions :
        Deadlocked(s) => session[s].pc \in {"replay", "lockOwner"}

\* Every request comes to an end.
RequestsEnd ==
    \A s \in Sessions : session[s].pc # "idle" ~> session[s].pc = "idle"
=============================================================================
