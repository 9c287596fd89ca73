-------------------------- MODULE SequencerProofs ---------------------------
(***************************************************************************)
(* Theorems about what the ledger runs in.  Its transactions, interleaved  *)
(* statement by statement in any number of sessions, implement the atomic  *)
(* ledger; and its commitments reach the registry contract in order, for   *)
(* every number of posters, failures and restarts.                         *)
(***************************************************************************)
EXTENDS LedgerTx, CommitmentPosting, CreditLedgerProofs, SequenceTheorems

-----------------------------------------------------------------------------
(* The lock discipline *)

\* A session is a record of these fields.
Fields == {"pc", "arg", "now", "holds", "agent", "row", "tip", "pending"}

\* What a session knows at its next statement, of authorizeIntent: the agent
\* row it read is the agent row, since it holds its lock; a request id that was
\* known stays known; the counters it read are the counters.
AuthorizePcs == {"lockAgent", "findRequest", "replay", "lockCounters", "insert"}
KnowsAgent(my) ==
    /\ AgentLock(my.arg.agentId) \in my.holds
    /\ my.agent = agents[my.arg.agentId]
    /\ my.agent.pubKey \in {NULL, my.arg.agentPubKey}
KnowsRequest(my) ==
    /\ my.arg.requestId \in DOMAIN idempotencyKeys
    /\ idempotencyKeys[my.arg.requestId] = my.row
    /\ my.row.intent = my.arg
KnowsTip(my) == CountersLock \in my.holds /\ my.tip = counters
AuthorizeKnows(my) ==
    /\ my.pc \in AuthorizePcs =>
          my.arg \in Intents /\ my.arg.requiredChainRef \in SupportedChainRefs
    /\ my.pc \in AuthorizePcs \ {"lockAgent"} => KnowsAgent(my)
    /\ my.pc = "replay" => KnowsRequest(my)
    /\ my.pc \in {"lockCounters", "insert"} =>
          /\ my.arg.agentNonce = my.agent.nextNonce
          /\ my.arg.amountMicros > 0
          /\ my.agent.balance >= my.arg.amountMicros
    /\ my.pc = "insert" => KnowsTip(my)
    /\ my.pc = "answer" => /\ my.row \in DOMAIN authorizations
                           /\ authorizations[my.row].intent = my.arg

\* Of recordExecution.
ReportPcs == {"lockReported", "lockKey", "record"}
KnowsReported(my) ==
    /\ AuthorizationLock(my.arg.authId) \in my.holds
    /\ my.row = authorizations[my.arg.authId]
    /\ my.arg.chainRef = my.row.intent.requiredChainRef
RecordKnows(my) ==
    /\ my.pc \in ReportPcs => /\ my.arg.authId \in DOMAIN authorizations
                              /\ my.arg \in ReportsOn(my.arg.authId)
                              /\ my.now \in Now
    /\ my.pc \in ReportPcs \ {"lockReported"} => KnowsReported(my)
    /\ my.pc = "record" => <<my.arg.chainRef, my.arg.keyId>> \in ActiveRelayerKeys

\* Of reclaimAuthorization.
ReclaimPcs == {"lockReclaimed", "lockOwner", "refund"}
KnowsReclaimed(my) ==
    /\ AuthorizationLock(my.arg) \in my.holds
    /\ my.row = authorizations[my.arg]
KnowsOwner(my) ==
    LET i == my.row.intent
    IN  /\ AgentLock(i.agentId) \in my.holds
        /\ my.agent = agents[i.agentId]
        /\ my.agent.debitedOutstanding >= i.amountMicros
        /\ Lapsed(my.row, my.now)
ReclaimKnows(my) ==
    /\ my.pc \in ReclaimPcs => my.arg \in DOMAIN authorizations /\ my.now \in Now
    /\ my.pc \in ReclaimPcs \ {"lockReclaimed"} => KnowsReclaimed(my)
    /\ my.pc = "refund" => KnowsOwner(my)

\* Of runCommitmentEpoch: the leaves it read are those its UPDATE will take.
CommitKnows(my) ==
    /\ my.pc \in {"readLeaves", "commitEpoch"} => KnowsTip(my)
    /\ my.pc = "commitEpoch" =>
          my.pending = PendingLeaves /\ my.pending # {}

Knows(my) ==
    /\ DOMAIN my = Fields
    /\ AuthorizeKnows(my) /\ RecordKnows(my) /\ ReclaimKnows(my) /\ CommitKnows(my)

LocksExclude ==
    \A s, t \in Sessions : s # t => session[s].holds \cap session[t].holds = {}

AnswersOnRecord ==
    \A x \in answers :
        /\ x = <<x[1], x[2]>>
        /\ x[2] \in DOMAIN authorizations
        /\ authorizations[x[2]].intent = x[1]

TxInv ==
    /\ DOMAIN session = Sessions
    /\ \A s \in Sessions : Knows(session[s])
    /\ LocksExclude
    /\ AnswersOnRecord
\* A transaction that holds the locks W changes no row another one relies on:
\* rows are never removed, an authorization keeps its intent, and what is under
\* a lock changes only with the lock held.
Writes(W) ==
    /\ clock <= clock'
    /\ \A a \in Agents : AgentLock(a) \notin W => agents'[a] = agents[a]
    /\ \A r \in DOMAIN idempotencyKeys :
          r \in DOMAIN idempotencyKeys' /\ idempotencyKeys'[r] = idempotencyKeys[r]
    /\ \A id \in DOMAIN authorizations :
          /\ id \in DOMAIN authorizations'
          /\ authorizations'[id].intent = authorizations[id].intent
          /\ AuthorizationLock(id) \notin W => authorizations'[id] = authorizations[id]
    /\ CountersLock \notin W => UNCHANGED <<counters, authLeaves>>

LEMMA KeptNow ==
    ASSUME TypeOK, TypeOK', NEW W, Writes(W)
    PROVE  Now \subseteq Now'
    BY DEF Writes, Now, TypeOK

LEMMA KnowsKept ==
    ASSUME TypeOK, TypeOK', NEW W, Writes(W),
           NEW my, Knows(my), my.holds \cap W = {}
    PROVE  Knows(my)'
  <1>1. Now \subseteq Now'
    BY KeptNow
  <1>2. \A id \in DOMAIN authorizations :
           /\ authorizations[id].intent \in Intents
           /\ authorizations[id].intent.agentId \in Agents
    BY IntentFields DEF TypeOK, AuthorizationRow
  <1>3. DOMAIN my = Fields
    BY DEF Knows
  <1>4. AuthorizeKnows(my)'
    <2>1. ASSUME my.pc \in AuthorizePcs
          PROVE  my.arg \in Intents /\ my.arg.agentId \in Agents
                 /\ my.arg.requiredChainRef \in SupportedChainRefs
      BY <2>1, IntentFields DEF Knows, AuthorizeKnows
    <2>2. ASSUME my.pc \in AuthorizePcs \ {"lockAgent"} PROVE KnowsAgent(my)'
      <3>1. KnowsAgent(my) /\ my.arg.agentId \in Agents
        BY <2>1, <2>2 DEF Knows, AuthorizeKnows
      <3> QED
        BY <3>1 DEF KnowsAgent, Writes
    <2>3. ASSUME my.pc = "replay" PROVE KnowsRequest(my)'
      <3>1. KnowsRequest(my)
        BY <2>3 DEF Knows, AuthorizeKnows
      <3> QED
        BY <3>1 DEF KnowsRequest, Writes
    <2>4. ASSUME my.pc = "insert" PROVE KnowsTip(my)'
      <3>1. KnowsTip(my)
        BY <2>4 DEF Knows, AuthorizeKnows
      <3> QED
        BY <3>1 DEF KnowsTip, Writes
    <2>5. ASSUME my.pc = "answer"
          PROVE  /\ my.row \in DOMAIN authorizations'
                 /\ authorizations'[my.row].intent = my.arg
      BY <2>5 DEF Knows, AuthorizeKnows, Writes
    <2> QED
      BY <2>1, <2>2, <2>3, <2>4, <2>5 DEF Knows, AuthorizeKnows
  <1>5. RecordKnows(my)'
    <2>1. ASSUME my.pc \in ReportPcs
          PROVE  /\ my.arg.authId \in DOMAIN authorizations
                 /\ my.arg.authId \in DOMAIN authorizations'
                 /\ my.arg \in ReportsOn(my.arg.authId)
                 /\ my.now \in Now'
      BY <1>1, <2>1 DEF Knows, RecordKnows, Writes
    <2>2. ASSUME my.pc \in ReportPcs \ {"lockReported"} PROVE KnowsReported(my)'
      <3>1. KnowsReported(my)
        BY <2>2 DEF Knows, RecordKnows
      <3> QED
        BY <2>1, <2>2, <3>1 DEF KnowsReported, Writes
    <2> QED
      BY <2>1, <2>2 DEF Knows, RecordKnows, ReportsOn
  <1>6. ReclaimKnows(my)'
    <2>1. ASSUME my.pc \in ReclaimPcs
          PROVE  /\ my.arg \in DOMAIN authorizations
                 /\ my.arg \in DOMAIN authorizations'
                 /\ my.now \in Now'
      BY <1>1, <2>1 DEF Knows, ReclaimKnows, Writes
    <2>2. ASSUME my.pc \in ReclaimPcs \ {"lockReclaimed"}
          PROVE  KnowsReclaimed(my) /\ KnowsReclaimed(my)'
      <3>1. KnowsReclaimed(my)
        BY <2>2 DEF Knows, ReclaimKnows
      <3> QED
        BY <2>1, <2>2, <3>1 DEF KnowsReclaimed, Writes
    <2>3. ASSUME my.pc = "refund" PROVE KnowsOwner(my)'
      <3>1. KnowsOwner(my) /\ KnowsReclaimed(my) /\ my.arg \in DOMAIN authorizations
        BY <2>1, <2>2, <2>3 DEF Knows, ReclaimKnows, ReclaimPcs
      <3>2. my.row.intent.agentId \in Agents
        BY <1>2, <3>1 DEF KnowsReclaimed
      <3> QED
        BY <3>1, <3>2 DEF KnowsOwner, Writes
    <2> QED
      BY <2>1, <2>2, <2>3 DEF ReclaimKnows
  <1>7. CommitKnows(my)'
    <2>1. ASSUME my.pc \in {"readLeaves", "commitEpoch"}
          PROVE  KnowsTip(my)' /\ authLeaves' = authLeaves
      <3>1. KnowsTip(my)
        BY <2>1 DEF Knows, CommitKnows
      <3> QED
        BY <3>1 DEF KnowsTip, Writes
    <2> QED
      BY <2>1 DEF Knows, CommitKnows, PendingLeaves
  <1> QED
    BY <1>3, <1>4, <1>5, <1>6, <1>7 DEF Knows

\* A step of one session under its own locks, or with the row it selects locked
\* by no other, keeps the invariant if its own next state does.
LEMMA SessionStep ==
    ASSUME TypeOK, TypeOK', TxInv, NEW s \in Sessions, NEW new,
           session' = [session EXCEPT ![s] = new],
           Writes(session[s].holds), Knows(new)',
           \/ new.holds = {}
           \/ /\ new.holds \subseteq session[s].holds \cup LocksNeeded(s)
              /\ \A t \in Sessions : ~WaitsFor(s, t),
           AnswersOnRecord'
    PROVE  TxInv'
  <1>1. /\ DOMAIN session' = Sessions /\ session'[s] = new
        /\ \A t \in Sessions \ {s} : session'[t] = session[t]
    BY DEF TxInv
  <1>2. ASSUME NEW t \in Sessions, t # s PROVE Knows(session[t])'
    <2>1. PICK my : my = session[t]
      OBVIOUS
    <2>2. Knows(my) /\ my.holds \cap session[s].holds = {}
      BY <1>2, <2>1 DEF TxInv, LocksExclude
    <2>3. Knows(my)'
      BY <2>2, KnowsKept
    <2> QED
      BY <1>1, <1>2, <2>1, <2>3
  <1>3. Knows(session[s])'
    BY <1>1
  <1>4. ASSUME NEW t \in Sessions, t # s PROVE new.holds \cap session[t].holds = {}
    BY <1>4 DEF TxInv, LocksExclude, WaitsFor
  <1>5. LocksExclude'
    BY <1>1, <1>4 DEF TxInv, LocksExclude
  <1> QED
    BY <1>1, <1>2, <1>3, <1>5 DEF TxInv

LEMMA UnchangedWrites ==
    ASSUME TypeOK, NEW W, UNCHANGED <<clock, tables>>
    PROVE  Writes(W)
    BY DEF Writes, tables, logVars, TypeOK

LEMMA IdleKnows == Knows(Idle) /\ Knows(Idle)' /\ Idle.holds = {}
    BY DEF Knows, Fields, AuthorizeKnows, RecordKnows, ReclaimKnows, CommitKnows,
           AuthorizePcs, ReportPcs, ReclaimPcs, Idle
-----------------------------------------------------------------------------
(* The statements that only read *)

LEMMA ReadStep ==
    ASSUME TypeOK, TxInv, NEW s \in Sessions, NEW new,
           session' = [session EXCEPT ![s] = new], Knows(new),
           UNCHANGED <<clock, sweep, tables, answers>>,
           \/ new.holds = {}
           \/ /\ new.holds \subseteq session[s].holds \cup LocksNeeded(s)
              /\ \A t \in Sessions : ~WaitsFor(s, t)
    PROVE  TxInv'
  <1>1. TypeOK'
    BY DEF TypeOK, tables, reportVars, logVars
  <1>2. Writes(session[s].holds) /\ Writes({})
    BY UnchangedWrites
  <1>3. Knows(new)'
    BY <1>1, <1>2, KnowsKept
  <1>4. AnswersOnRecord'
    BY DEF TxInv, AnswersOnRecord, tables
  <1> QED
    BY <1>1, <1>2, <1>3, <1>4, SessionStep

\* A request whose query is refused, that is aborted or has ended, starts over.
LEMMA BackToIdle ==
    ASSUME TypeOK, TxInv, NEW s \in Sessions,
           session' = [session EXCEPT ![s] = Idle],
           UNCHANGED <<clock, sweep, tables, answers>>
    PROVE  TxInv'
    BY IdleKnows, ReadStep

LEMMA RequestStep ==
    ASSUME TypeOK, TxInv, NEW s \in Sessions, Request(s)
    PROVE  TxInv'
  <1>0. clock \in Now
    BY DEF TypeOK, Now
  <1> USE DEF Knows, AuthorizeKnows, RecordKnows, ReclaimKnows, CommitKnows,
              AuthorizePcs, ReportPcs, ReclaimPcs
  <1>1. ASSUME NEW i \in Intents, i.requiredChainRef \in SupportedChainRefs,
               Begin(s, "lockAgent", i, 0)
        PROVE  TxInv'
    <2> DEFINE new == [Idle EXCEPT !.pc = "lockAgent", !.arg = i, !.now = 0]
    <2>1. /\ DOMAIN new = Fields /\ new.pc = "lockAgent" /\ new.arg = i
          /\ new.holds = {}
      BY DEF Fields, Idle
    <2>2. /\ session' = [session EXCEPT ![s] = new]
          /\ UNCHANGED <<clock, sweep, tables, answers>>
      BY <1>1 DEF Begin
    <2> HIDE DEF new
    <2>3. Knows(new)
      BY <1>1, <2>1
    <2> QED
      BY <2>1, <2>2, <2>3, ReadStep
  <1>2. ASSUME NEW id \in DOMAIN authorizations, NEW r \in ReportsOn(id),
               Begin(s, "lockReported", r, clock)
        PROVE  TxInv'
    <2> DEFINE new == [Idle EXCEPT !.pc = "lockReported", !.arg = r, !.now = clock]
    <2>1. /\ DOMAIN new = Fields /\ new.pc = "lockReported" /\ new.arg = r
          /\ new.now = clock /\ new.holds = {}
      BY DEF Fields, Idle
    <2>2. /\ session' = [session EXCEPT ![s] = new]
          /\ UNCHANGED <<clock, sweep, tables, answers>>
      BY <1>2 DEF Begin
    <2>3. r.authId = id
      BY DEF ReportsOn
    <2> HIDE DEF new
    <2>4. Knows(new)
      BY <1>0, <2>1, <2>3
    <2> QED
      BY <2>1, <2>2, <2>4, ReadStep
  <1>3. ASSUME NEW id \in DOMAIN authorizations,
               Begin(s, "lockReclaimed", id, clock)
        PROVE  TxInv'
    <2> DEFINE new == [Idle EXCEPT !.pc = "lockReclaimed", !.arg = id, !.now = clock]
    <2>1. /\ DOMAIN new = Fields /\ new.pc = "lockReclaimed" /\ new.arg = id
          /\ new.now = clock /\ new.holds = {}
      BY DEF Fields, Idle
    <2>2. /\ session' = [session EXCEPT ![s] = new]
          /\ UNCHANGED <<clock, sweep, tables, answers>>
      BY <1>3 DEF Begin
    <2> HIDE DEF new
    <2>3. Knows(new)
      BY <1>0, <2>1
    <2> QED
      BY <2>1, <2>2, <2>3, ReadStep
  <1>4. ASSUME Begin(s, "lockLog", NULL, 0)
        PROVE  TxInv'
    <2> DEFINE new == [Idle EXCEPT !.pc = "lockLog", !.arg = NULL, !.now = 0]
    <2>1. DOMAIN new = Fields /\ new.pc = "lockLog" /\ new.holds = {}
      BY DEF Fields, Idle
    <2>2. /\ session' = [session EXCEPT ![s] = new]
          /\ UNCHANGED <<clock, sweep, tables, answers>>
      BY <1>4 DEF Begin
    <2> HIDE DEF new
    <2>3. Knows(new)
      BY <2>1
    <2> QED
      BY <2>1, <2>2, <2>3, ReadStep
  <1> QED
    BY <1>1, <1>2, <1>3, <1>4 DEF Request

\* A query that goes on has locked what it selected.
LEMMA QueryStep ==
    ASSUME TypeOK, TxInv, NEW s \in Sessions, NEW new,
           \A t \in Sessions : ~WaitsFor(s, t),
           session' = [session EXCEPT ![s] = new],
           new.holds = session[s].holds \cup LocksNeeded(s), Knows(new),
           UNCHANGED <<clock, sweep, tables, answers>>
    PROVE  TxInv'
    BY ReadStep

LEMMA AuthorizeQueries ==
    ASSUME TypeOK, TxInv, NEW s \in Sessions,
           IdempotencyExact,
           LockAgent(s) \/ FindRequest(s) \/ Replay(s) \/ LockCounters(s)
    PROVE  TxInv'
  <1> DEFINE my == session[s]
             i == my.arg
             L == LocksNeeded(s)
  <1>0. Knows(my) /\ DOMAIN my = Fields
    BY DEF TxInv, Knows
  <1> USE DEF AuthorizeKnows, RecordKnows, ReclaimKnows, CommitKnows,
              AuthorizePcs, ReportPcs, ReclaimPcs
  <1>1. CASE LockAgent(s)
    <2> DEFINE agent == agents[i.agentId]
               new == [[my EXCEPT !.pc = "findRequest", !.agent = agent]
                          EXCEPT !.holds = @ \cup L]
    <2>1. /\ DOMAIN new = Fields /\ new.pc = "findRequest" /\ new.arg = i
          /\ new.agent = agent /\ new.holds = my.holds \cup L
      BY <1>0 DEF Fields
    <2>2. /\ my.pc = "lockAgent" /\ AgentLock(i.agentId) \in L
          /\ i \in Intents /\ i.requiredChainRef \in SupportedChainRefs
          /\ \A t \in Sessions : ~WaitsFor(s, t)
          /\ UNCHANGED <<clock, sweep, tables, answers>>
      BY <1>0, <1>1 DEF LockAgent, Runs, Query, LocksNeeded, RowsSelected, Knows
    <2>3. CASE session' = [session EXCEPT ![s] = new]
               /\ agent.pubKey \in {NULL, i.agentPubKey}
      <3> HIDE DEF new, my, L
      <3>1. KnowsAgent(new)
        BY <2>1, <2>2, <2>3 DEF KnowsAgent
      <3>2. Knows(new)
        BY <2>1, <2>2, <3>1 DEF Knows
      <3> QED
        BY <2>1, <2>2, <2>3, <3>2, QueryStep DEF my, L
    <2>4. CASE session' = [session EXCEPT ![s] = Idle]
      BY <2>2, <2>4, BackToIdle
    <2> QED
      BY <1>1, <2>3, <2>4 DEF LockAgent, Query
  <1>2. CASE FindRequest(s)
    <2>1. /\ my.pc = "findRequest" /\ KnowsAgent(my)
          /\ i \in Intents /\ i.requiredChainRef \in SupportedChainRefs
          /\ \A t \in Sessions : ~WaitsFor(s, t)
          /\ UNCHANGED <<clock, sweep, tables, answers>>
      BY <1>0, <1>2 DEF FindRequest, Runs, Query, Knows
    <2>2. CASE session' = [session EXCEPT ![s] = Idle]
      BY <2>1, <2>2, BackToIdle
    <2>3. CASE RequestKnown(i) /\ session' # [session EXCEPT ![s] = Idle]
      <3> DEFINE new == [[my EXCEPT !.pc = "replay",
                                    !.row = idempotencyKeys[i.requestId]]
                            EXCEPT !.holds = @ \cup L]
      <3>1. /\ DOMAIN new = Fields /\ new.pc = "replay" /\ new.arg = i
            /\ new.agent = my.agent /\ new.row = idempotencyKeys[i.requestId]
            /\ new.holds = my.holds \cup L
        BY <1>0 DEF Fields
      <3>2. session' = [session EXCEPT ![s] = new] /\ SameIntent(i)
        BY <1>2, <2>3 DEF FindRequest, Query
      <3> HIDE DEF new, my, L
      <3>3. KnowsAgent(new) /\ KnowsRequest(new)
        BY <2>1, <2>3, <3>1, <3>2
        DEF KnowsAgent, KnowsRequest, RequestKnown, SameIntent
      <3>4. Knows(new)
        BY <2>1, <3>1, <3>3 DEF Knows
      <3> QED
        BY <2>1, <3>1, <3>2, <3>4, QueryStep DEF my, L
    <2>4. CASE ~RequestKnown(i) /\ session' # [session EXCEPT ![s] = Idle]
      <3> DEFINE new == [[my EXCEPT !.pc = "lockCounters"]
                            EXCEPT !.holds = @ \cup L]
      <3>1. /\ DOMAIN new = Fields /\ new.pc = "lockCounters" /\ new.arg = i
            /\ new.agent = my.agent /\ new.holds = my.holds \cup L
        BY <1>0 DEF Fields
      <3>2. /\ session' = [session EXCEPT ![s] = new]
            /\ i.agentNonce = my.agent.nextNonce
            /\ i.amountMicros > 0 /\ my.agent.balance >= i.amountMicros
        BY <1>2, <2>4 DEF FindRequest, Query
      <3> HIDE DEF new, my, L
      <3>3. KnowsAgent(new)
        BY <2>1, <3>1 DEF KnowsAgent
      <3>4. Knows(new)
        BY <2>1, <3>1, <3>2, <3>3 DEF Knows
      <3> QED
        BY <2>1, <3>1, <3>2, <3>4, QueryStep DEF my, L
    <2> QED
      BY <2>2, <2>3, <2>4
  <1>3. CASE Replay(s)
    <2> DEFINE new == [Idle EXCEPT !.pc = "answer", !.arg = i,
                                   !.row = my.row.authId]
    <2>1. /\ DOMAIN new = Fields /\ new.pc = "answer" /\ new.arg = i
          /\ new.row = my.row.authId /\ new.holds = {}
      BY DEF Fields, Idle
    <2>2. /\ session' = [session EXCEPT ![s] = new]
          /\ UNCHANGED <<clock, sweep, tables, answers>>
          /\ KnowsRequest(my)
      BY <1>0, <1>3 DEF Replay, Answered, Runs, Knows
    <2> HIDE DEF new, my
    <2>3. new.row \in DOMAIN authorizations /\ authorizations[new.row].intent = i
      BY <2>1, <2>2 DEF KnowsRequest, IdempotencyExact
    <2>4. Knows(new)
      BY <2>1, <2>3 DEF Knows
    <2> QED
      BY <2>1, <2>2, <2>4, ReadStep
  <1>4. CASE LockCounters(s)
    <2> DEFINE new == [[my EXCEPT !.pc = "insert", !.tip = counters]
                          EXCEPT !.holds = @ \cup L]
    <2>1. /\ DOMAIN new = Fields /\ new.pc = "insert" /\ new.arg = i
          /\ new.agent = my.agent /\ new.tip = counters
          /\ new.holds = my.holds \cup L
      BY <1>0 DEF Fields
    <2>2. /\ KnowsAgent(my) /\ CountersLock \in L
          /\ i \in Intents /\ i.requiredChainRef \in SupportedChainRefs
          /\ i.agentNonce = my.agent.nextNonce
          /\ i.amountMicros > 0 /\ my.agent.balance >= i.amountMicros
          /\ \A t \in Sessions : ~WaitsFor(s, t)
          /\ session' = [session EXCEPT ![s] = new]
          /\ UNCHANGED <<clock, sweep, tables, answers>>
      BY <1>0, <1>4
      DEF LockCounters, Runs, Query, LocksNeeded, RowsSelected, Knows
    <2> HIDE DEF new, my, L
    <2>3. KnowsAgent(new) /\ KnowsTip(new)
      BY <2>1, <2>2 DEF KnowsAgent, KnowsTip
    <2>4. Knows(new)
      BY <2>1, <2>2, <2>3 DEF Knows
    <2> QED
      BY <2>1, <2>2, <2>4, QueryStep DEF my, L
  <1> QED
    BY <1>1, <1>2, <1>3, <1>4
LEMMA RecordQueries ==
    ASSUME TypeOK, TxInv, NEW s \in Sessions,
           LockReported(s) \/ LockKey(s)
    PROVE  TxInv'
  <1> DEFINE my == session[s]
             r == my.arg
             L == LocksNeeded(s)
  <1>0. Knows(my) /\ DOMAIN my = Fields
    BY DEF TxInv, Knows
  <1> USE DEF AuthorizeKnows, RecordKnows, ReclaimKnows, CommitKnows,
              AuthorizePcs, ReportPcs, ReclaimPcs
  <1>1. CASE LockReported(s)
    <2> DEFINE row == authorizations[r.authId]
               new == [[my EXCEPT !.pc = "lockKey", !.row = row]
                          EXCEPT !.holds = @ \cup L]
    <2>1. /\ DOMAIN new = Fields /\ new.pc = "lockKey" /\ new.arg = r
          /\ new.row = row /\ new.now = my.now /\ new.holds = my.holds \cup L
      BY <1>0 DEF Fields
    <2>2. /\ my.pc = "lockReported" /\ AuthorizationLock(r.authId) \in L
          /\ r.authId \in DOMAIN authorizations /\ r \in ReportsOn(r.authId)
          /\ my.now \in Now
          /\ \A t \in Sessions : ~WaitsFor(s, t)
          /\ UNCHANGED <<clock, sweep, tables, answers>>
      BY <1>0, <1>1 DEF LockReported, Runs, Query, LocksNeeded, RowsSelected, Knows
    <2>3. CASE session' = [session EXCEPT ![s] = new]
               /\ r.chainRef = row.intent.requiredChainRef
      <3> HIDE DEF new, my, L
      <3>1. KnowsReported(new)
        BY <2>1, <2>2, <2>3 DEF KnowsReported
      <3>2. Knows(new)
        BY <2>1, <2>2, <3>1 DEF Knows
      <3> QED
        BY <2>1, <2>2, <2>3, <3>2, QueryStep DEF my, L
    <2>4. CASE session' = [session EXCEPT ![s] = Idle]
      BY <2>2, <2>4, BackToIdle
    <2> QED
      BY <1>1, <2>3, <2>4 DEF LockReported, Query
  <1>2. CASE LockKey(s)
    <2> DEFINE new == [[my EXCEPT !.pc = "record"] EXCEPT !.holds = @ \cup L]
    <2>1. /\ DOMAIN new = Fields /\ new.pc = "record" /\ new.arg = r
          /\ new.row = my.row /\ new.now = my.now /\ new.holds = my.holds \cup L
      BY <1>0 DEF Fields
    <2>2. /\ my.pc = "lockKey" /\ KnowsReported(my)
          /\ r.authId \in DOMAIN authorizations /\ r \in ReportsOn(r.authId)
          /\ my.now \in Now
          /\ \A t \in Sessions : ~WaitsFor(s, t)
          /\ UNCHANGED <<clock, sweep, tables, answers>>
      BY <1>0, <1>2 DEF LockKey, Runs, Query, Knows
    <2>3. CASE session' = [session EXCEPT ![s] = new]
               /\ <<r.chainRef, r.keyId>> \in ActiveRelayerKeys
      <3> HIDE DEF new, my, L
      <3>1. KnowsReported(new)
        BY <2>1, <2>2 DEF KnowsReported
      <3>2. Knows(new)
        BY <2>1, <2>2, <2>3, <3>1 DEF Knows
      <3> QED
        BY <2>1, <2>2, <2>3, <3>2, QueryStep DEF my, L
    <2>4. CASE session' = [session EXCEPT ![s] = Idle]
      BY <2>2, <2>4, BackToIdle
    <2> QED
      BY <1>2, <2>3, <2>4 DEF LockKey, Query
  <1> QED
    BY <1>1, <1>2

LEMMA ReclaimQueries ==
    ASSUME TypeOK, TxInv, NEW s \in Sessions,
           LockReclaimed(s) \/ LockOwner(s)
    PROVE  TxInv'
  <1> DEFINE my == session[s]
             L == LocksNeeded(s)
  <1>0. Knows(my) /\ DOMAIN my = Fields
    BY DEF TxInv, Knows
  <1> USE DEF AuthorizeKnows, RecordKnows, ReclaimKnows, CommitKnows,
              AuthorizePcs, ReportPcs, ReclaimPcs
  <1>1. CASE LockReclaimed(s)
    <2> DEFINE row == authorizations[my.arg]
               new == [[my EXCEPT !.pc = "lockOwner", !.row = row]
                          EXCEPT !.holds = @ \cup L]
    <2>1. /\ DOMAIN new = Fields /\ new.pc = "lockOwner" /\ new.arg = my.arg
          /\ new.row = row /\ new.now = my.now /\ new.holds = my.holds \cup L
      BY <1>0 DEF Fields
    <2>2. /\ my.pc = "lockReclaimed" /\ AuthorizationLock(my.arg) \in L
          /\ my.arg \in DOMAIN authorizations /\ my.now \in Now
          /\ \A t \in Sessions : ~WaitsFor(s, t)
          /\ UNCHANGED <<clock, sweep, tables, answers>>
      BY <1>0, <1>1 DEF LockReclaimed, Runs, Query, LocksNeeded, RowsSelected, Knows
    <2>3. CASE session' = [session EXCEPT ![s] = new]
      <3> HIDE DEF new, my, L
      <3>1. KnowsReclaimed(new)
        BY <2>1, <2>2 DEF KnowsReclaimed
      <3>2. Knows(new)
        BY <2>1, <2>2, <3>1 DEF Knows
      <3> QED
        BY <2>1, <2>2, <2>3, <3>2, QueryStep DEF my, L
    <2>4. CASE session' = [session EXCEPT ![s] = Idle]
      BY <2>2, <2>4, BackToIdle
    <2> QED
      BY <1>1, <2>3, <2>4 DEF LockReclaimed, Query
  <1>2. CASE LockOwner(s)
    <2> DEFINE i == my.row.intent
               agent == agents[i.agentId]
               new == [[my EXCEPT !.pc = "refund", !.agent = agent]
                          EXCEPT !.holds = @ \cup L]
    <2>1. /\ DOMAIN new = Fields /\ new.pc = "refund" /\ new.arg = my.arg
          /\ new.row = my.row /\ new.now = my.now /\ new.agent = agent
          /\ new.holds = my.holds \cup L
      BY <1>0 DEF Fields
    <2>2. /\ my.pc = "lockOwner" /\ KnowsReclaimed(my)
          /\ AgentLock(i.agentId) \in L
          /\ my.arg \in DOMAIN authorizations /\ my.now \in Now
          /\ \A t \in Sessions : ~WaitsFor(s, t)
          /\ UNCHANGED <<clock, sweep, tables, answers>>
      BY <1>0, <1>2 DEF LockOwner, Runs, Query, LocksNeeded, RowsSelected, Knows
    <2>3. CASE /\ session' = [session EXCEPT ![s] = new]
               /\ Lapsed(my.row, my.now)
               /\ agent.debitedOutstanding >= i.amountMicros
      <3> HIDE DEF new, my, L
      <3>1. KnowsReclaimed(new)
        BY <2>1, <2>2 DEF KnowsReclaimed
      <3>2. KnowsOwner(new)
        BY <2>1, <2>2, <2>3 DEF KnowsOwner
      <3>3. Knows(new)
        BY <2>1, <2>2, <3>1, <3>2 DEF Knows
      <3> QED
        BY <2>1, <2>2, <2>3, <3>3, QueryStep DEF my, L
    <2>4. CASE session' = [session EXCEPT ![s] = Idle]
      BY <2>2, <2>4, BackToIdle
    <2> QED
      BY <1>2, <2>3, <2>4 DEF LockOwner, Query
  <1> QED
    BY <1>1, <1>2

LEMMA CommitQueries ==
    ASSUME TypeOK, TxInv, NEW s \in Sessions, LockLog(s) \/ ReadLeaves(s)
    PROVE  TxInv'
  <1> DEFINE my == session[s]
             L == LocksNeeded(s)
  <1>0. Knows(my) /\ DOMAIN my = Fields
    BY DEF TxInv, Knows
  <1> USE DEF AuthorizeKnows, RecordKnows, ReclaimKnows, CommitKnows,
              AuthorizePcs, ReportPcs, ReclaimPcs
  <1>1. CASE LockLog(s)
    <2> DEFINE new == [[my EXCEPT !.pc = "readLeaves", !.tip = counters]
                          EXCEPT !.holds = @ \cup L]
    <2>1. /\ DOMAIN new = Fields /\ new.pc = "readLeaves" /\ new.tip = counters
          /\ new.holds = my.holds \cup L
      BY <1>0 DEF Fields
    <2>2. /\ CountersLock \in L
          /\ \A t \in Sessions : ~WaitsFor(s, t)
          /\ session' = [session EXCEPT ![s] = new]
          /\ UNCHANGED <<clock, sweep, tables, answers>>
      BY <1>1 DEF LockLog, Runs, Query, LocksNeeded, RowsSelected
    <2> HIDE DEF new, my, L
    <2>3. KnowsTip(new)
      BY <2>1, <2>2 DEF KnowsTip
    <2>4. Knows(new)
      BY <2>1, <2>3 DEF Knows
    <2> QED
      BY <2>1, <2>2, <2>4, QueryStep DEF my, L
  <1>2. CASE ReadLeaves(s)
    <2> DEFINE new == [[my EXCEPT !.pc = "commitEpoch", !.pending = PendingLeaves]
                          EXCEPT !.holds = @ \cup L]
    <2>1. /\ DOMAIN new = Fields /\ new.pc = "commitEpoch" /\ new.tip = my.tip
          /\ new.pending = PendingLeaves /\ new.holds = my.holds \cup L
      BY <1>0 DEF Fields
    <2>2. /\ KnowsTip(my)
          /\ \A t \in Sessions : ~WaitsFor(s, t)
          /\ UNCHANGED <<clock, sweep, tables, answers>>
      BY <1>0, <1>2 DEF ReadLeaves, Runs, Query, Knows
    <2>3. CASE session' = [session EXCEPT ![s] = new] /\ PendingLeaves # {}
      <3> HIDE DEF new, my, L
      <3>1. KnowsTip(new)
        BY <2>1, <2>2 DEF KnowsTip
      <3>2. Knows(new)
        BY <2>1, <2>3, <3>1 DEF Knows
      <3> QED
        BY <2>1, <2>2, <2>3, <3>2, QueryStep DEF my, L
    <2>4. CASE session' = [session EXCEPT ![s] = Idle]
      BY <2>2, <2>4, BackToIdle
    <2> QED
      BY <1>2, <2>3, <2>4 DEF ReadLeaves, Query
  <1> QED
    BY <1>1, <1>2

\* A transaction that fails, is aborted or loses its connection has no effect.
LEMMA Rollbacks ==
    ASSUME TypeOK, TxInv, NEW s \in Sessions,
           InsertFails(s) \/ RecordFails(s) \/ DeadlockAbort(s) \/ Abort(s)
    PROVE  TxInv'
    BY BackToIdle DEF InsertFails, RecordFails, DeadlockAbort, Abort
-----------------------------------------------------------------------------
(* The statements that write: each is a transaction of the atomic ledger *)

\* What an agent's row becomes when all but credited is written back.
LEMMA CreditedKept ==
    ASSUME NEW row \in AgentRow
    PROVE  [row EXCEPT !.credited = row.credited] = row
    BY DEF AgentRow

\* The agent row, the request and the counters are as the session read them,
\* so its inserts and updates are those of an authorization made at once.
LEMMA InsertAuthorizes ==
    ASSUME TypeOK, TxInv, NEW s \in Sessions, InsertAuthorization(s)
    PROVE  /\ session[s].arg \in Intents /\ AuthorizeIntent(session[s].arg, 0)
           /\ KnowsAgent(session[s]) /\ KnowsTip(session[s])
  <1> DEFINE my == session[s]
             i == my.arg
             agent == agents[i.agentId]
             debited == WithDebit(agent, i)
             seqNo == counters.logSeqNo + 1
             id == DeriveAuthorizationId(i, EpochHint, seqNo)
  <1>1. /\ i \in Intents /\ i.requiredChainRef \in SupportedChainRefs
        /\ KnowsAgent(my) /\ KnowsTip(my)
        /\ i.agentNonce = agent.nextNonce
        /\ i.amountMicros > 0 /\ agent.balance >= i.amountMicros
    BY DEF InsertAuthorization, Runs, TxInv, Knows, AuthorizeKnows, AuthorizePcs,
           KnowsAgent
  <1>2. /\ my.agent = agent /\ my.tip = counters
        /\ agent.pubKey \in {NULL, i.agentPubKey}
    BY <1>1 DEF KnowsAgent, KnowsTip
  <1>3. i \in Intent /\ i.agentId \in Agents /\ i.expiresAt \in Nat
    BY <1>1, IntentFields
  <1>4. agent \in AgentRow
    BY <1>3 DEF TypeOK
  <1>5. debited \in AgentRow /\ debited.credited = agent.credited
    BY <1>1, <1>3, <1>4, WithDebitRow
  <1>6. [debited EXCEPT !.credited = agent.credited] = debited
    BY <1>5, CreditedKept
  <1>7. /\ Insertable(s, id, seqNo)
        /\ authorizations' = WithRow(authorizations, id,
                                     NewAuthorization(i, EpochHint, seqNo))
        /\ idempotencyKeys' = WithRow(idempotencyKeys, i.requestId,
                                      [intent |-> i, authId |-> id])
        /\ AppendLeaf(id, seqNo)
        /\ agents' = [agents EXCEPT ![i.agentId] =
              [debited EXCEPT !.credited = agent.credited]]
        /\ UNCHANGED <<clock, sweep, reportVars, commitments>>
    BY <1>2 DEF InsertAuthorization, EpochHint, AppendLeaf
  <1>8. DebitAgent(i)
    BY <1>6, <1>7 DEF DebitAgent
  <1>9. IntentAdmissible(i, 0)
    BY <1>1, <1>2, <1>3 DEF IntentAdmissible
  <1>10. /\ RequestIsNew(i) /\ UniqueAuthorization(id, seqNo)
         /\ agent.debitedOutstanding + i.amountMicros <= agent.credited
    BY <1>2, <1>7 DEF Insertable, RequestIsNew
  <1>11. NonceIsNext(i) /\ Affordable(i)
    BY <1>1, <1>10 DEF NonceIsNext, Affordable
  <1> QED
    BY <1>1, <1>7, <1>8, <1>9, <1>10, <1>11 DEF AuthorizeIntent

LEMMA InsertStep ==
    ASSUME TypeOK, TxInv, NEW s \in Sessions, InsertAuthorization(s)
    PROVE  [Next]_vars /\ TxInv'
  <1>1. /\ session[s].arg \in Intents /\ AuthorizeIntent(session[s].arg, 0)
        /\ KnowsAgent(session[s]) /\ KnowsTip(session[s])
    BY InsertAuthorizes
  <1>2. 0 \in Now
    BY DEF Now, TypeOK
  <1>3. [Next]_vars
    BY <1>1, <1>2 DEF Next
  <1>4. TypeOK'
    BY <1>3, StepTypeOK
  <1>5. PICK i, seqNo, id, row :
           /\ i = session[s].arg /\ seqNo = counters.logSeqNo + 1
           /\ id = DeriveAuthorizationId(i, EpochHint, seqNo)
           /\ row = NewAuthorization(i, EpochHint, seqNo)
    OBVIOUS
  <1>6. /\ UniqueAuthorization(id, seqNo) /\ RequestIsNew(i)
        /\ authorizations' = WithRow(authorizations, id, row)
        /\ idempotencyKeys' = WithRow(idempotencyKeys, i.requestId,
                                      [intent |-> i, authId |-> id])
        /\ DebitAgent(i) /\ UNCHANGED clock
    BY <1>1, <1>5 DEF AuthorizeIntent
  <1>7. PICK new : new = [Idle EXCEPT !.pc = "answer", !.arg = i, !.row = id]
    OBVIOUS
  <1>8. /\ DOMAIN new = Fields /\ new.pc = "answer" /\ new.arg = i
        /\ new.row = id /\ new.holds = {}
    BY <1>7 DEF Fields, Idle
  <1>9. session' = [session EXCEPT ![s] = new] /\ UNCHANGED answers
    BY <1>1, <1>5, <1>7 DEF InsertAuthorization, Answered, KnowsTip, EpochHint
  <1>10. row.intent = i
    BY <1>5 DEF NewAuthorization
  <1>11. Writes(session[s].holds)
    <2>1. \A a \in Agents :
             AgentLock(a) \notin session[s].holds => agents'[a] = agents[a]
      BY <1>1, <1>5, <1>6 DEF DebitAgent, TypeOK, KnowsAgent
    <2>2. \A r \in DOMAIN idempotencyKeys :
             r \in DOMAIN idempotencyKeys' /\ idempotencyKeys'[r] = idempotencyKeys[r]
      BY <1>6 DEF WithRow, RequestIsNew
    <2>3. \A k \in DOMAIN authorizations :
             k \in DOMAIN authorizations' /\ authorizations'[k] = authorizations[k]
      BY <1>6 DEF WithRow, UniqueAuthorization
    <2> QED
      BY <1>1, <1>6, <2>1, <2>2, <2>3 DEF Writes, KnowsTip, TypeOK
  <1>12. id \in DOMAIN authorizations' /\ authorizations'[id].intent = i
    BY <1>6, <1>10 DEF WithRow
  <1>13. Knows(new)'
    BY <1>8, <1>12
    DEF Knows, AuthorizeKnows, RecordKnows, ReclaimKnows, CommitKnows,
        AuthorizePcs, ReportPcs, ReclaimPcs
  <1>14. AnswersOnRecord'
    BY <1>9, <1>11 DEF TxInv, AnswersOnRecord, Writes
  <1> QED
    BY <1>3, <1>4, <1>8, <1>9, <1>11, <1>13, <1>14, SessionStep

\* The answer is the authorization the session found or inserted.
LEMMA AnswerStep ==
    ASSUME TypeOK, TxInv, NEW s \in Sessions, Answer(s)
    PROVE  [Next]_vars /\ TxInv'
  <1>1. /\ UNCHANGED <<clock, sweep, tables>>
        /\ session' = [session EXCEPT ![s] = Idle]
        /\ answers' = answers \cup {<<session[s].arg, session[s].row>>}
    BY DEF Answer
  <1>2. UNCHANGED vars
    BY <1>1 DEF vars, tables, reportVars, logVars
  <1>3. TypeOK'
    BY <1>2, StepTypeOK
  <1>4. /\ session[s].row \in DOMAIN authorizations
        /\ authorizations[session[s].row].intent = session[s].arg
    BY DEF TxInv, Knows, AuthorizeKnows, Answer, Runs
  <1>5. AnswersOnRecord'
    BY <1>1, <1>2, <1>4 DEF TxInv, AnswersOnRecord, vars
  <1>6. Writes(session[s].holds)
    BY <1>1, UnchangedWrites
  <1> QED
    BY <1>1, <1>2, <1>3, <1>5, <1>6, IdleKnows, SessionStep
\* The authorization a report is about is as the session read it, and a report
\* is a failure, a first success or a repeated one.
LEMMA RecordRecords ==
    ASSUME TypeOK, TxInv, NEW s \in Sessions, Record(s)
    PROVE  /\ session[s].arg.authId \in DOMAIN authorizations
           /\ session[s].arg \in ReportsOn(session[s].arg.authId)
           /\ session[s].now \in Now /\ KnowsReported(session[s])
           /\ RecordExecution(session[s].arg, session[s].now)
  <1> DEFINE my == session[s]
             r == my.arg
  <1>1. /\ r.authId \in DOMAIN authorizations /\ r \in ReportsOn(r.authId)
        /\ my.now \in Now /\ KnowsReported(my)
        /\ <<r.chainRef, r.keyId>> \in ActiveRelayerKeys
    BY DEF Record, Runs, TxInv, Knows, RecordKnows, ReportPcs
  <1>2. r.status \in {"SUCCESS", "FAILED"}
    BY <1>1 DEF ReportsOn
  <1>3. my.row = authorizations[r.authId] /\ Recordable(s)
    BY <1>1 DEF KnowsReported, Record
  <1>4. ReportAccepted(r, my.now)
    BY <1>1, <1>3 DEF Recordable, KnowsReported, ReportAccepted
  <1>5. CASE r.status = "FAILED"
    BY <1>1, <1>4, <1>5 DEF Record, RecordExecution, RecordFailure
  <1>6. CASE r.status = "SUCCESS" /\ r.authId \notin DOMAIN executions
    BY <1>1, <1>3, <1>4, <1>6 DEF Record, Recordable, RecordExecution, RecordSuccess
  <1>7. CASE r.status = "SUCCESS" /\ r.authId \in DOMAIN executions
    BY <1>1, <1>3, <1>4, <1>7 DEF Record, Recordable, RecordExecution, RecordRepeat
  <1> QED
    BY <1>1, <1>2, <1>5, <1>6, <1>7

LEMMA RecordStep ==
    ASSUME TypeOK, TxInv, NEW s \in Sessions, Record(s)
    PROVE  [Next]_vars /\ TxInv'
  <1>1. /\ session[s].arg.authId \in DOMAIN authorizations
        /\ session[s].arg \in ReportsOn(session[s].arg.authId)
        /\ session[s].now \in Now /\ KnowsReported(session[s])
        /\ RecordExecution(session[s].arg, session[s].now)
    BY RecordRecords
  <1>2. [Next]_vars
    BY <1>1 DEF Next
  <1>3. TypeOK'
    BY <1>2, StepTypeOK
  <1>4. PICK r, now : r = session[s].arg /\ now = session[s].now
    OBVIOUS
  <1>5. now \in Nat
    BY <1>1, <1>4 DEF Now
  <1>6. authorizations[r.authId] \in AuthorizationRow
    BY <1>1, <1>4 DEF TypeOK
  <1>7. Executed(authorizations[r.authId], now).intent = authorizations[r.authId].intent
    BY <1>5, <1>6, SettledRow
  <1>8. \/ UNCHANGED authorizations
        \/ authorizations' = [authorizations EXCEPT
              ![r.authId] = Executed(authorizations[r.authId], now)]
    BY <1>4 DEF Record
  <1>9. \A id \in DOMAIN authorizations :
           /\ id \in DOMAIN authorizations'
           /\ authorizations'[id].intent = authorizations[id].intent
           /\ id # r.authId => authorizations'[id] = authorizations[id]
    BY <1>7, <1>8
  <1>10. /\ session' = [session EXCEPT ![s] = Idle]
         /\ UNCHANGED <<clock, agents, idempotencyKeys, counters, authLeaves, answers>>
    BY DEF Record, logVars
  <1>11. Writes(session[s].holds)
    BY <1>1, <1>4, <1>9, <1>10 DEF Writes, KnowsReported, TypeOK
  <1>12. AnswersOnRecord'
    BY <1>10, <1>11 DEF TxInv, AnswersOnRecord, Writes
  <1> QED
    BY <1>2, <1>3, <1>10, <1>11, <1>12, IdleKnows, SessionStep

\* Writing back balance and debitedOutstanding alone is the refund of the row.
LEMMA RefundWritten ==
    ASSUME TypeOK, NEW a \in Agents, NEW amount \in Nat,
           agents[a].debitedOutstanding >= amount
    PROVE  LET refunded == WithRefund(agents[a], amount)
           IN  [agents EXCEPT ![a].balance = refunded.balance,
                              ![a].debitedOutstanding = refunded.debitedOutstanding]
                 = [agents EXCEPT ![a] = refunded]
  <1> DEFINE row == agents[a]
             refunded == WithRefund(row, amount)
             written == [[row EXCEPT !.balance = refunded.balance]
                           EXCEPT !.debitedOutstanding = refunded.debitedOutstanding]
  <1>1. row \in AgentRow
    BY DEF TypeOK
  <1>2. /\ refunded \in AgentRow /\ refunded.credited = row.credited
        /\ refunded.nextNonce = row.nextNonce /\ refunded.pubKey = row.pubKey
    BY <1>1, WithRefundRow
  <1> HIDE DEF refunded, row
  <1>3. written = refunded
    BY <1>1, <1>2 DEF AgentRow
  <1>4. [agents EXCEPT ![a].balance = refunded.balance,
                       ![a].debitedOutstanding = refunded.debitedOutstanding]
           = [agents EXCEPT ![a] = written]
    BY DEF TypeOK, row
  <1> QED
    BY <1>3, <1>4 DEF refunded, row

\* The authorization and its agent's row are as the session read them, so the
\* refund is that of a reclaim made at once.
LEMMA RefundReclaims ==
    ASSUME TypeOK, TxInv, NEW s \in Sessions, Refund(s)
    PROVE  /\ session[s].arg \in DOMAIN authorizations /\ session[s].now \in Now
           /\ KnowsReclaimed(session[s]) /\ KnowsOwner(session[s])
           /\ ReclaimBySequencer(session[s].arg, session[s].now)
  <1> DEFINE my == session[s]
             id == my.arg
             i == authorizations[id].intent
  <1>1. /\ id \in DOMAIN authorizations /\ my.now \in Now
        /\ KnowsReclaimed(my) /\ KnowsOwner(my)
    BY DEF Refund, Runs, TxInv, Knows, ReclaimKnows, ReclaimPcs
  <1>2. /\ my.row = authorizations[id] /\ my.agent = agents[i.agentId]
        /\ Reclaimable(id, my.now)
    BY <1>1 DEF KnowsReclaimed, KnowsOwner, Lapsed, Reclaimable
  <1>3. authorizations[id] \in AuthorizationRow
    BY <1>1 DEF TypeOK
  <1>4. i.agentId \in Agents /\ i.amountMicros \in Nat
    BY <1>3, IntentFields DEF AuthorizationRow
  <1>5. agents[i.agentId].debitedOutstanding >= i.amountMicros
    BY <1>2 DEF Reclaimable
  <1>6. agents' = [agents EXCEPT
           ![i.agentId].balance = WithRefund(agents[i.agentId], i.amountMicros).balance,
           ![i.agentId].debitedOutstanding =
              WithRefund(agents[i.agentId], i.amountMicros).debitedOutstanding]
    BY <1>2 DEF Refund
  <1>7. agents' = [agents EXCEPT
           ![i.agentId] = WithRefund(agents[i.agentId], i.amountMicros)]
    BY <1>4, <1>5, <1>6, RefundWritten
  <1>8. CreditBack(id, my.now)
    BY <1>7 DEF CreditBack, Refund
  <1> QED
    BY <1>1, <1>2, <1>8 DEF ReclaimBySequencer, Refund

LEMMA RefundStep ==
    ASSUME TypeOK, TxInv, NEW s \in Sessions, Refund(s)
    PROVE  [Next]_vars /\ TxInv'
  <1>1. /\ session[s].arg \in DOMAIN authorizations /\ session[s].now \in Now
        /\ KnowsReclaimed(session[s]) /\ KnowsOwner(session[s])
        /\ ReclaimBySequencer(session[s].arg, session[s].now)
    BY RefundReclaims
  <1>2. [Next]_vars
    BY <1>1 DEF Next
  <1>3. TypeOK'
    BY <1>2, StepTypeOK
  <1>4. PICK id, now, i : /\ id = session[s].arg /\ now = session[s].now
                          /\ i = authorizations[id].intent
    OBVIOUS
  <1>5. now \in Nat
    BY <1>1, <1>4 DEF Now
  <1>6. authorizations[id] \in AuthorizationRow
    BY <1>1, <1>4 DEF TypeOK
  <1>7. Reclaimed(authorizations[id], now).intent = i
    BY <1>4, <1>5, <1>6, SettledRow
  <1>8. /\ agents' = [agents EXCEPT
              ![i.agentId] = WithRefund(agents[i.agentId], i.amountMicros)]
        /\ authorizations' = [authorizations EXCEPT
              ![id] = Reclaimed(authorizations[id], now)]
    BY <1>1, <1>4 DEF ReclaimBySequencer, CreditBack
  <1>9. \A k \in DOMAIN authorizations :
           /\ k \in DOMAIN authorizations'
           /\ authorizations'[k].intent = authorizations[k].intent
           /\ k # id => authorizations'[k] = authorizations[k]
    BY <1>4, <1>7, <1>8
  <1>10. AgentLock(i.agentId) \in session[s].holds
    BY <1>1, <1>4 DEF KnowsOwner, KnowsReclaimed
  <1>11. /\ session' = [session EXCEPT ![s] = Idle]
         /\ UNCHANGED <<clock, idempotencyKeys, counters, authLeaves, answers>>
    BY DEF Refund, logVars
  <1>12. Writes(session[s].holds)
    <2>1. \A a \in Agents :
             AgentLock(a) \notin session[s].holds => agents'[a] = agents[a]
      BY <1>8, <1>10 DEF TypeOK
    <2> QED
      BY <1>1, <1>4, <1>9, <1>11, <2>1 DEF Writes, KnowsReclaimed, TypeOK
  <1>13. AnswersOnRecord'
    BY <1>11, <1>12 DEF TxInv, AnswersOnRecord, Writes
  <1> QED
    BY <1>2, <1>3, <1>11, <1>12, <1>13, IdleKnows, SessionStep
\* While the session holds the counters no leaf is added: the leaves its UPDATE
\* commits are those its root is of, and the last log number is not below them.
LEMMA CommitCommits ==
    ASSUME TypeOK, TxInv, LogHashChain, NEW s \in Sessions, EndEpoch(s)
    PROVE  KnowsTip(session[s]) /\ RunCommitmentEpoch
  <1> DEFINE my == session[s]
             epochId == counters.lastEpochId + 1
             root == MerkleRoot(PendingLeaves)
  <1>1. KnowsTip(my) /\ my.pending = PendingLeaves /\ PendingLeaves # {}
    BY DEF EndEpoch, Runs, TxInv, Knows, CommitKnows
  <1>2. PICK last \in Nat : last = counters.logSeqNo
    BY DEF TypeOK
  <1>3. PendingLeaves \subseteq 1..last
    BY <1>2 DEF LogHashChain, PendingLeaves
  <1>4. PendingLeaves \subseteq 0..last
    BY <1>3
  <1>5. PICK maxLogSeqNo \in PendingLeaves : \A n \in PendingLeaves : n <= maxLogSeqNo
    BY <1>1, <1>4, LargestElement
  <1>6. PICK top \in PendingLeaves \cup {last} :
           /\ \A n \in PendingLeaves \cup {last} : n <= top
           /\ counters' = [counters EXCEPT !.lastEpochId = epochId,
                             !.lastRoot = root, !.logSeqNo = top]
    BY <1>1, <1>2 DEF EndEpoch, KnowsTip
  <1>7. top = last /\ ~(maxLogSeqNo > last)
    BY <1>3, <1>5, <1>6
  <1>8. counters' = [counters EXCEPT !.lastEpochId = epochId, !.lastRoot = root,
           !.logSeqNo = IF maxLogSeqNo > counters.logSeqNo
                        THEN maxLogSeqNo ELSE counters.logSeqNo]
    BY <1>2, <1>6, <1>7
  <1>9. /\ epochId \notin DOMAIN commitments
        /\ CommitLeaves(epochId)
        /\ commitments' = WithRow(commitments, epochId,
              [root |-> root, count |-> Cardinality(PendingLeaves),
               prevRoot |-> counters.lastRoot])
        /\ UNCHANGED <<clock, agents, idempotencyKeys, authorizations,
                       reportVars, sweep>>
    BY <1>1 DEF EndEpoch, KnowsTip
  <1> QED
    BY <1>1, <1>5, <1>8, <1>9 DEF RunCommitmentEpoch

LEMMA CommitStep ==
    ASSUME TypeOK, TxInv, LogHashChain, NEW s \in Sessions, EndEpoch(s)
    PROVE  [Next]_vars /\ TxInv'
  <1>1. KnowsTip(session[s]) /\ RunCommitmentEpoch
    BY CommitCommits
  <1>2. [Next]_vars
    BY <1>1 DEF Next
  <1>3. TypeOK'
    BY <1>2, StepTypeOK
  <1>4. /\ session' = [session EXCEPT ![s] = Idle]
        /\ UNCHANGED <<clock, agents, idempotencyKeys, authorizations, answers>>
    BY DEF EndEpoch
  <1>5. Writes(session[s].holds)
    BY <1>1, <1>4 DEF Writes, KnowsTip, TypeOK
  <1>6. AnswersOnRecord'
    BY <1>4, <1>5 DEF TxInv, AnswersOnRecord, Writes
  <1> QED
    BY <1>2, <1>3, <1>4, <1>5, <1>6, IdleKnows, SessionStep

\* A change that is not of a session, of rows that no session has locked.
LEMMA OutsideStep ==
    ASSUME TypeOK, TypeOK', TxInv, NEW W, Writes(W),
           \A s \in Sessions : session[s].holds \cap W = {},
           UNCHANGED <<session, answers>>
    PROVE  TxInv'
  <1>1. ASSUME NEW s \in Sessions PROVE Knows(session[s])'
    <2>1. PICK my : my = session[s]
      OBVIOUS
    <2>2. Knows(my)'
      BY <2>1, KnowsKept DEF TxInv
    <2> QED
      BY <2>1, <2>2
  <1>2. LocksExclude' /\ AnswersOnRecord'
    BY DEF TxInv, LocksExclude, AnswersOnRecord, Writes
  <1> QED
    BY <1>1, <1>2 DEF TxInv

LEMMA OthersStep ==
    ASSUME TypeOK, TxInv,
           \/ \E a \in Agents, amount \in CreditAmounts : CreditAgent(a, amount)
           \/ Tick /\ UNCHANGED <<session, answers>>
           \/ UNCHANGED txVars
    PROVE  [Next]_vars /\ TxInv'
  <1>1. ASSUME NEW a \in Agents, NEW amount \in CreditAmounts, CreditAgent(a, amount)
        PROVE  [Next]_vars /\ TxInv'
    <2>1. AdminCredit(a, amount) /\ UNCHANGED <<session, answers>>
      BY <1>1 DEF CreditAgent
    <2>2. [Next]_vars
      BY <2>1 DEF Next
    <2>3. TypeOK'
      BY <2>2, StepTypeOK
    <2>4. Writes({AgentLock(a)})
      <3>1. \A b \in Agents : b # a => agents'[b] = agents[b]
        BY <2>1 DEF AdminCredit, TypeOK
      <3> QED
        BY <2>1, <3>1 DEF Writes, AdminCredit, logVars, TypeOK
    <2>5. \A s \in Sessions : session[s].holds \cap {AgentLock(a)} = {}
      BY <1>1 DEF CreditAgent
    <2> QED
      BY <2>1, <2>2, <2>3, <2>4, <2>5, OutsideStep
  <1>2. CASE Tick /\ UNCHANGED <<session, answers>>
    <2>1. [Next]_vars
      BY <1>2 DEF Next
    <2>2. TypeOK'
      BY <2>1, StepTypeOK
    <2>3. Writes({})
      BY <1>2 DEF Writes, Tick, logVars, TypeOK
    <2> QED
      BY <1>2, <2>1, <2>2, <2>3, OutsideStep
  <1>3. CASE UNCHANGED txVars
    <2>1. UNCHANGED vars /\ UNCHANGED <<clock, tables, session, answers>>
      BY <1>3 DEF txVars, tables, vars, reportVars, logVars
    <2>2. TypeOK'
      BY <2>1, StepTypeOK
    <2>3. Writes({})
      BY <2>1, UnchangedWrites
    <2> QED
      BY <2>1, <2>2, <2>3, OutsideStep
  <1> QED
    BY <1>1, <1>2, <1>3

-----------------------------------------------------------------------------
(* The transactions implement the ledger *)

LEMMA TxStep ==
    TypeOK /\ IdempotencyExact /\ LogHashChain /\ TxInv /\ [TxNext]_txVars
        => [Next]_vars /\ TxInv'
  <1> SUFFICES ASSUME TypeOK, IdempotencyExact, LogHashChain, TxInv, [TxNext]_txVars
               PROVE  [Next]_vars /\ TxInv'
    OBVIOUS
  <1>1. ASSUME NEW s \in Sessions,
               \/ Request(s)
               \/ LockAgent(s) \/ FindRequest(s) \/ Replay(s) \/ LockCounters(s)
               \/ LockReported(s) \/ LockKey(s)
               \/ LockReclaimed(s) \/ LockOwner(s)
               \/ LockLog(s) \/ ReadLeaves(s)
               \/ InsertFails(s) \/ RecordFails(s) \/ DeadlockAbort(s) \/ Abort(s)
        PROVE  [Next]_vars /\ TxInv'
    <2>1. TxInv'
      BY <1>1, RequestStep, AuthorizeQueries, RecordQueries, ReclaimQueries,
         CommitQueries, Rollbacks
    <2>2. UNCHANGED <<clock, sweep, tables>>
      BY <1>1
      DEF Request, Begin, LockAgent, FindRequest, Replay, LockCounters, LockReported,
          LockKey, LockReclaimed, LockOwner, LockLog, ReadLeaves, Query,
          InsertFails, RecordFails, DeadlockAbort, Abort
    <2> QED
      BY <2>1, <2>2 DEF vars, tables, reportVars, logVars
  <1>2. ASSUME NEW s \in Sessions,
               \/ InsertAuthorization(s) \/ Answer(s) \/ Record(s) \/ Refund(s)
               \/ EndEpoch(s)
        PROVE  [Next]_vars /\ TxInv'
    BY <1>2, InsertStep, AnswerStep, RecordStep, RefundStep, CommitStep
  <1> QED
    BY <1>1, <1>2, OthersStep DEF TxNext, Statement

LEMMA TxInitInv == TxInit => TxInv
  <1> SUFFICES ASSUME TxInit PROVE TxInv
    OBVIOUS
  <1>1. DOMAIN session = Sessions /\ \A s \in Sessions : session[s] = Idle
    BY DEF TxInit
  <1> QED
    BY <1>1, IdleKnows DEF TxInit, TxInv, LocksExclude, AnswersOnRecord

\* What the atomic ledger's own invariants and the sessions' lock discipline
\* amount to together: the inductive invariant of the transactions.
TxLedgerInv == TypeOK /\ IdempotencyExact /\ LogHashChain /\ TxInv
LEMMA TxLedgerInvHolds == TxSpec => []TxLedgerInv
  <1>1. TxInit => TxLedgerInv
    BY InitTypeOK, InitIdempotencyExact, InitLogHashChain, TxInitInv
    DEF TxInit, TxLedgerInv
  <1>2. TxLedgerInv /\ [TxNext]_txVars => TxLedgerInv'
    BY TxStep, StepTypeOK, StepIdempotencyExact, StepLogHashChain DEF TxLedgerInv
  <1> QED
    BY <1>1, <1>2, PTL DEF TxSpec

\* Interleaved statement by statement, with any of them aborted, failing or cut
\* off, the transactions of authorizeIntent, recordExecution,
\* reclaimAuthorization and runCommitmentEpoch change the tables only as they
\* would one after the other: each statement that writes is the whole of one
\* atomic action of the ledger, every other statement changes no table.
THEOREM TransactionsAreAtomic == TxSpec => ImplementsLedger
  <1>1. TxInit => Init
    BY DEF TxInit
  <1>2. TxLedgerInv /\ [TxNext]_txVars => [Next]_vars
    BY TxStep DEF TxLedgerInv
  <1> QED
    BY <1>1, <1>2, TxLedgerInvHolds, PTL DEF TxSpec, ImplementsLedger

\* Clients that ask authorizeIntent for the same request id, at once or again
\* after a lost answer, are told one authorization, which is on record.
THEOREM ClientsAreToldTheSame == TxSpec => []AnswersAgree
  <1>1. TxLedgerInv => AnswersAgree
    <2> SUFFICES ASSUME TxLedgerInv PROVE AnswersAgree
      OBVIOUS
    <2>1. \A x \in answers :
             /\ x = <<x[1], x[2]>>
             /\ x[2] \in DOMAIN authorizations
             /\ authorizations[x[2]].intent = x[1]
      BY DEF TxLedgerInv, TxInv, AnswersOnRecord
    <2>2. \A x \in answers : idempotencyKeys[x[1].requestId].authId = x[2]
      BY <2>1 DEF TxLedgerInv, IdempotencyExact
    <2>3. ASSUME NEW x \in answers, NEW y \in answers, x[1].requestId = y[1].requestId
          PROVE  x = y
      BY <2>1, <2>2, <2>3
    <2> QED
      BY <2>1, <2>3 DEF AnswersAgree
  <1> QED
    BY <1>1, TxLedgerInvHolds, PTL

-----------------------------------------------------------------------------
(* Which rows a session has locked, and who can wait for whom *)

Pcs == {"idle", "answer", "lockLog", "readLeaves", "commitEpoch"}
          \cup AuthorizePcs \cup ReportPcs \cup ReclaimPcs

\* At most these locks are held at a statement.
HoldsOnly(my) ==
    /\ my.pc \in Pcs
    /\ my.pc \in {"idle", "answer", "lockAgent", "lockReported", "lockReclaimed",
                  "lockLog"} => my.holds = {}
    /\ my.pc \in {"findRequest", "lockCounters"} =>
          my.holds \subseteq {AgentLock(my.arg.agentId)}
    /\ my.pc = "replay" =>
          my.holds \subseteq {AgentLock(my.arg.agentId), RequestLock(my.arg.requestId)}
    /\ my.pc = "insert" =>
          my.holds \subseteq {AgentLock(my.arg.agentId), CountersLock}
    /\ my.pc = "lockKey" => my.holds \subseteq {AuthorizationLock(my.arg.authId)}
    /\ my.pc = "record" =>
          my.holds \subseteq {AuthorizationLock(my.arg.authId),
                              RelayerKeyLock(my.arg.chainRef, my.arg.keyId)}
    /\ my.pc = "lockOwner" => my.holds \subseteq {AuthorizationLock(my.arg)}
    /\ my.pc = "refund" =>
          my.holds \subseteq {AuthorizationLock(my.arg),
                              AgentLock(my.row.intent.agentId)}
    /\ my.pc \in {"readLeaves", "commitEpoch"} => my.holds \subseteq {CountersLock}

HoldsInv == \A s \in Sessions : HoldsOnly(session[s])

\* The rows a statement waits for are one row at most.
LEMMA LocksAtStatement ==
    ASSUME NEW s \in Sessions, HoldsOnly(session[s])
    PROVE  LET my == session[s] IN
           /\ my.pc = "lockAgent" => LocksNeeded(s) = {AgentLock(my.arg.agentId)}
           /\ my.pc = "findRequest" =>
                 LocksNeeded(s) = IF my.arg.requestId \in DOMAIN idempotencyKeys
                                  THEN {RequestLock(my.arg.requestId)} ELSE {}
           /\ my.pc = "replay" => LocksNeeded(s) = {AuthorizationLock(my.row.authId)}
           /\ my.pc \in {"lockCounters", "lockLog"} => LocksNeeded(s) = {CountersLock}
           /\ my.pc = "lockReported" =>
                 LocksNeeded(s) = {AuthorizationLock(my.arg.authId)}
           /\ my.pc = "lockKey" =>
                 LocksNeeded(s) = {RelayerKeyLock(my.arg.chainRef, my.arg.keyId)}
           /\ my.pc = "lockReclaimed" => LocksNeeded(s) = {AuthorizationLock(my.arg)}
           /\ my.pc = "lockOwner" =>
                 LocksNeeded(s) = {AgentLock(my.row.intent.agentId)}
           /\ my.pc \in {"idle", "answer", "insert", "record", "refund",
                         "readLeaves", "commitEpoch"} => LocksNeeded(s) = {}
  <1> PICK my : my = session[s]
    OBVIOUS
  <1>1. my.pc = "findRequest" =>
           LocksNeeded(s) = IF my.arg.requestId \in DOMAIN idempotencyKeys
                            THEN {RequestLock(my.arg.requestId)} ELSE {}
    <2>1. SUFFICES ASSUME my.pc = "findRequest"
                   PROVE  {RequestLock(r) : r \in {my.arg.requestId}
                                                     \cap DOMAIN idempotencyKeys} =
                             IF my.arg.requestId \in DOMAIN idempotencyKeys
                             THEN {RequestLock(my.arg.requestId)} ELSE {}
      BY DEF LocksNeeded, RowsSelected
    <2> QED
      OBVIOUS
  <1>2. my.pc = "replay" => LocksNeeded(s) = {AuthorizationLock(my.row.authId)}
    BY DEF LocksNeeded, RowsSelected
  <1>3. my.pc = "lockAgent" => LocksNeeded(s) = {AgentLock(my.arg.agentId)}
    BY DEF LocksNeeded, RowsSelected
  <1>4. my.pc \in {"lockCounters", "lockLog"} => LocksNeeded(s) = {CountersLock}
    BY DEF LocksNeeded, RowsSelected
  <1>5. my.pc = "lockReported" => LocksNeeded(s) = {AuthorizationLock(my.arg.authId)}
    BY DEF LocksNeeded, RowsSelected
  <1>6. my.pc = "lockKey" =>
           LocksNeeded(s) = {RelayerKeyLock(my.arg.chainRef, my.arg.keyId)}
    BY DEF LocksNeeded, RowsSelected
  <1>7. my.pc = "lockReclaimed" => LocksNeeded(s) = {AuthorizationLock(my.arg)}
    BY DEF LocksNeeded, RowsSelected
  <1>8. my.pc = "lockOwner" => LocksNeeded(s) = {AgentLock(my.row.intent.agentId)}
    BY DEF LocksNeeded, RowsSelected
  <1>9. my.pc \in {"idle", "answer", "insert", "record", "refund",
                   "readLeaves", "commitEpoch"} => LocksNeeded(s) = {}
    BY DEF LocksNeeded, RowsSelected
  <1> QED
    BY <1>1, <1>2, <1>3, <1>4, <1>5, <1>6, <1>7, <1>8, <1>9

LEMMA IdleHolds == HoldsOnly(Idle)
  BY DEF Idle, HoldsOnly, Pcs

\* A statement that locks and goes on.
LEMMA QueryHolds ==
    ASSUME TxInv, HoldsInv, NEW s \in Sessions,
           \/ LockAgent(s) \/ FindRequest(s) \/ LockCounters(s)
           \/ LockReported(s) \/ LockKey(s) \/ LockReclaimed(s) \/ LockOwner(s)
           \/ LockLog(s) \/ ReadLeaves(s)
    PROVE  \E new : session' = [session EXCEPT ![s] = new] /\ HoldsOnly(new)
  <1> DEFINE my == session[s]
             L == LocksNeeded(s)
             Goes(new) == session' = [session EXCEPT ![s] = new]
             Held(new) == [new EXCEPT !.holds = @ \cup L]
  <1>0. DOMAIN my = Fields /\ HoldsOnly(my)
    BY DEF TxInv, Knows, HoldsInv
  <1>1. ASSUME Goes(Idle) PROVE \E new : Goes(new) /\ HoldsOnly(new)
    BY <1>1, IdleHolds
  <1>2. CASE LockAgent(s)
    <2> DEFINE new == Held([my EXCEPT !.pc = "findRequest",
                                      !.agent = agents[my.arg.agentId]])
    <2>1. /\ new.pc = "findRequest" /\ new.arg = my.arg
          /\ new.holds = my.holds \cup L
      BY <1>0 DEF Fields
    <2>2. my.pc = "lockAgent" /\ (Goes(new) \/ Goes(Idle))
      BY <1>2 DEF LockAgent, Runs, Query
    <2> HIDE DEF new, Goes
    <2>3. my.holds = {} /\ L = {AgentLock(my.arg.agentId)}
      BY <1>0, <2>2, LocksAtStatement DEF HoldsOnly
    <2>4. HoldsOnly(new)
      BY <2>1, <2>3 DEF HoldsOnly, Pcs, AuthorizePcs
    <2> QED
      BY <1>1, <2>2, <2>4 DEF Goes
  <1>3. CASE FindRequest(s)
    <2> DEFINE known == Held([my EXCEPT !.pc = "replay",
                                        !.row = idempotencyKeys[my.arg.requestId]])
               fresh == Held([my EXCEPT !.pc = "lockCounters"])
    <2>1. /\ known.pc = "replay" /\ known.arg = my.arg
          /\ known.holds = my.holds \cup L
          /\ fresh.pc = "lockCounters" /\ fresh.arg = my.arg
          /\ fresh.holds = my.holds \cup L
      BY <1>0 DEF Fields
    <2>2. /\ my.pc = "findRequest"
          /\ \/ Goes(known) \/ Goes(Idle)
             \/ Goes(fresh) /\ my.arg.requestId \notin DOMAIN idempotencyKeys
      BY <1>3 DEF FindRequest, Runs, Query, RequestKnown
    <2> HIDE DEF known, fresh, Goes
    <2>3. /\ my.holds \subseteq {AgentLock(my.arg.agentId)}
          /\ L = IF my.arg.requestId \in DOMAIN idempotencyKeys
                 THEN {RequestLock(my.arg.requestId)} ELSE {}
      BY <1>0, <2>2, LocksAtStatement DEF HoldsOnly
    <2>4. HoldsOnly(known)
      BY <2>1, <2>3 DEF HoldsOnly, Pcs, AuthorizePcs
    <2>5. my.arg.requestId \notin DOMAIN idempotencyKeys => HoldsOnly(fresh)
      BY <2>1, <2>3 DEF HoldsOnly, Pcs, AuthorizePcs
    <2> QED
      BY <1>1, <2>2, <2>4, <2>5 DEF Goes
  <1>4. CASE LockCounters(s)
    <2> DEFINE new == Held([my EXCEPT !.pc = "insert", !.tip = counters])
    <2>1. /\ new.pc = "insert" /\ new.arg = my.arg
          /\ new.holds = my.holds \cup L
      BY <1>0 DEF Fields
    <2>2. my.pc = "lockCounters" /\ (Goes(new) \/ Goes(Idle))
      BY <1>4 DEF LockCounters, Runs, Query
    <2> HIDE DEF new, Goes
    <2>3. my.holds \subseteq {AgentLock(my.arg.agentId)} /\ L = {CountersLock}
      BY <1>0, <2>2, LocksAtStatement DEF HoldsOnly
    <2>4. HoldsOnly(new)
      BY <2>1, <2>3 DEF HoldsOnly, Pcs, AuthorizePcs
    <2> QED
      BY <1>1, <2>2, <2>4 DEF Goes
  <1>5. CASE LockReported(s)
    <2> DEFINE new == Held([my EXCEPT !.pc = "lockKey",
                                      !.row = authorizations[my.arg.authId]])
    <2>1. /\ new.pc = "lockKey" /\ new.arg = my.arg
          /\ new.holds = my.holds \cup L
      BY <1>0 DEF Fields
    <2>2. my.pc = "lockReported" /\ (Goes(new) \/ Goes(Idle))
      BY <1>5 DEF LockReported, Runs, Query
    <2> HIDE DEF new, Goes
    <2>3. my.holds = {} /\ L = {AuthorizationLock(my.arg.authId)}
      BY <1>0, <2>2, LocksAtStatement DEF HoldsOnly
    <2>4. HoldsOnly(new)
      BY <2>1, <2>3 DEF HoldsOnly, Pcs, ReportPcs
    <2> QED
      BY <1>1, <2>2, <2>4 DEF Goes
  <1>6. CASE LockKey(s)
    <2> DEFINE new == Held([my EXCEPT !.pc = "record"])
    <2>1. /\ new.pc = "record" /\ new.arg = my.arg
          /\ new.holds = my.holds \cup L
      BY <1>0 DEF Fields
    <2>2. my.pc = "lockKey" /\ (Goes(new) \/ Goes(Idle))
      BY <1>6 DEF LockKey, Runs, Query
    <2> HIDE DEF new, Goes
    <2>3. /\ my.holds \subseteq {AuthorizationLock(my.arg.authId)}
          /\ L = {RelayerKeyLock(my.arg.chainRef, my.arg.keyId)}
      BY <1>0, <2>2, LocksAtStatement DEF HoldsOnly
    <2>4. HoldsOnly(new)
      BY <2>1, <2>3 DEF HoldsOnly, Pcs, ReportPcs
    <2> QED
      BY <1>1, <2>2, <2>4 DEF Goes
  <1>7. CASE LockReclaimed(s)
    <2> DEFINE new == Held([my EXCEPT !.pc = "lockOwner",
                                      !.row = authorizations[my.arg]])
    <2>1. /\ new.pc = "lockOwner" /\ new.arg = my.arg
          /\ new.holds = my.holds \cup L
      BY <1>0 DEF Fields
    <2>2. my.pc = "lockReclaimed" /\ (Goes(new) \/ Goes(Idle))
      BY <1>7 DEF LockReclaimed, Runs, Query
    <2> HIDE DEF new, Goes
    <2>3. my.holds = {} /\ L = {AuthorizationLock(my.arg)}
      BY <1>0, <2>2, LocksAtStatement DEF HoldsOnly
    <2>4. HoldsOnly(new)
      BY <2>1, <2>3 DEF HoldsOnly, Pcs, ReclaimPcs
    <2> QED
      BY <1>1, <2>2, <2>4 DEF Goes
  <1>8. CASE LockOwner(s)
    <2> DEFINE new == Held([my EXCEPT !.pc = "refund",
                                      !.agent = agents[my.row.intent.agentId]])
    <2>1. /\ new.pc = "refund" /\ new.arg = my.arg /\ new.row = my.row
          /\ new.holds = my.holds \cup L
      BY <1>0 DEF Fields
    <2>2. my.pc = "lockOwner" /\ (Goes(new) \/ Goes(Idle))
      BY <1>8 DEF LockOwner, Runs, Query
    <2> HIDE DEF new, Goes
    <2>3. my.holds \subseteq {AuthorizationLock(my.arg)} /\ L = {AgentLock(my.row.intent.agentId)}
      BY <1>0, <2>2, LocksAtStatement DEF HoldsOnly
    <2>4. HoldsOnly(new)
      BY <2>1, <2>3 DEF HoldsOnly, Pcs, ReclaimPcs
    <2> QED
      BY <1>1, <2>2, <2>4 DEF Goes
  <1>9. CASE LockLog(s)
    <2> DEFINE new == Held([my EXCEPT !.pc = "readLeaves", !.tip = counters])
    <2>1. /\ new.pc = "readLeaves" /\ new.arg = my.arg
          /\ new.holds = my.holds \cup L
      BY <1>0 DEF Fields
    <2>2. my.pc = "lockLog" /\ (Goes(new) \/ Goes(Idle))
      BY <1>9 DEF LockLog, Runs, Query
    <2> HIDE DEF new, Goes
    <2>3. my.holds = {} /\ L = {CountersLock}
      BY <1>0, <2>2, LocksAtStatement DEF HoldsOnly
    <2>4. HoldsOnly(new)
      BY <2>1, <2>3 DEF HoldsOnly, Pcs
    <2> QED
      BY <1>1, <2>2, <2>4 DEF Goes
  <1>10. CASE ReadLeaves(s)
    <2> DEFINE new == Held([my EXCEPT !.pc = "commitEpoch", !.pending = PendingLeaves])
    <2>1. /\ new.pc = "commitEpoch" /\ new.arg = my.arg
          /\ new.holds = my.holds \cup L
      BY <1>0 DEF Fields
    <2>2. my.pc = "readLeaves" /\ (Goes(new) \/ Goes(Idle))
      BY <1>10 DEF ReadLeaves, Runs, Query
    <2> HIDE DEF new, Goes
    <2>3. my.holds \subseteq {CountersLock} /\ L = {}
      BY <1>0, <2>2, LocksAtStatement DEF HoldsOnly
    <2>4. HoldsOnly(new)
      BY <2>1, <2>3 DEF HoldsOnly, Pcs
    <2> QED
      BY <1>1, <2>2, <2>4 DEF Goes
  <1> QED
    BY <1>2, <1>3, <1>4, <1>5, <1>6, <1>7, <1>8, <1>9, <1>10

LEMMA StatementHolds ==
    ASSUME TxInv, HoldsInv, NEW s \in Sessions,
           Request(s) \/ Statement(s) \/ DeadlockAbort(s) \/ Abort(s)
    PROVE  HoldsInv'
  <1>1. ASSUME NEW new, session' = [session EXCEPT ![s] = new], HoldsOnly(new)
        PROVE  HoldsInv'
    <2>1. ASSUME NEW t \in Sessions PROVE session'[t] \in {new, session[t]}
      BY <1>1 DEF TxInv
    <2>2. ASSUME NEW t \in Sessions PROVE HoldsOnly(session'[t])
      BY <1>1, <2>1 DEF HoldsInv
    <2>3. ASSUME NEW t \in Sessions PROVE HoldsOnly(session[t])'
      <3>1. PICK my : my = session'[t]
        OBVIOUS
      <3>2. HoldsOnly(my)
        BY <2>2, <3>1
      <3> QED
        BY <3>1, <3>2 DEF HoldsOnly
    <2> QED
      BY <2>3 DEF HoldsInv
  <1>2. ASSUME NEW pc \in {"lockAgent", "lockReported", "lockReclaimed", "lockLog"},
               NEW arg, NEW now, Begin(s, pc, arg, now)
        PROVE  HoldsInv'
    <2> DEFINE new == [Idle EXCEPT !.pc = pc, !.arg = arg, !.now = now]
    <2>1. new.pc = pc /\ new.holds = {}
      BY DEF Idle
    <2>2. session' = [session EXCEPT ![s] = new]
      BY <1>2 DEF Begin
    <2> HIDE DEF new
    <2>3. HoldsOnly(new)
      BY <2>1 DEF HoldsOnly, Pcs, AuthorizePcs, ReportPcs, ReclaimPcs
    <2> QED
      BY <1>1, <2>2, <2>3
  <1>3. CASE Request(s)
    BY <1>2, <1>3 DEF Request
  <1>4. CASE \/ LockAgent(s) \/ FindRequest(s) \/ LockCounters(s)
             \/ LockReported(s) \/ LockKey(s) \/ LockReclaimed(s) \/ LockOwner(s)
             \/ LockLog(s) \/ ReadLeaves(s)
    <2>1. PICK new : session' = [session EXCEPT ![s] = new] /\ HoldsOnly(new)
      BY <1>4, QueryHolds
    <2> QED
      BY <1>1, <2>1
  <1>5. ASSUME NEW id, session' = Answered(s, id) PROVE HoldsInv'
    <2> DEFINE new == [Idle EXCEPT !.pc = "answer", !.arg = session[s].arg, !.row = id]
    <2>1. new.pc = "answer" /\ new.holds = {}
      BY DEF Idle
    <2>2. session' = [session EXCEPT ![s] = new]
      BY <1>5 DEF Answered
    <2> HIDE DEF new
    <2>3. HoldsOnly(new)
      BY <2>1 DEF HoldsOnly, Pcs
    <2> QED
      BY <1>1, <2>2, <2>3
  <1>6. CASE Replay(s)
    BY <1>5, <1>6 DEF Replay
  <1>7. CASE InsertAuthorization(s)
    <2>1. \E id : session' = Answered(s, id)
      BY <1>7 DEF InsertAuthorization
    <2> QED
      BY <1>5, <2>1
  <1>8. CASE \/ InsertFails(s) \/ Answer(s) \/ Record(s) \/ RecordFails(s)
             \/ Refund(s) \/ EndEpoch(s) \/ DeadlockAbort(s) \/ Abort(s)
    <2>1. session' = [session EXCEPT ![s] = Idle]
      BY <1>8 DEF InsertFails, Answer, Record, RecordFails, Refund, EndEpoch,
                  DeadlockAbort, Abort
    <2> QED
      BY <1>1, <2>1, IdleHolds
  <1> QED
    BY <1>3, <1>4, <1>6, <1>7, <1>8 DEF Statement

LEMMA HoldsInvHolds == TxSpec => []HoldsInv
  <1>1. TxInit => HoldsInv
    BY IdleHolds DEF TxInit, HoldsInv
  <1>2. TxLedgerInv /\ HoldsInv /\ [TxNext]_txVars => HoldsInv'
    <2> SUFFICES ASSUME TxLedgerInv, HoldsInv, [TxNext]_txVars PROVE HoldsInv'
      OBVIOUS
    <2>1. CASE UNCHANGED session
      BY <2>1 DEF HoldsInv, HoldsOnly
    <2>2. ASSUME NEW s \in Sessions,
                 Request(s) \/ Statement(s) \/ DeadlockAbort(s) \/ Abort(s)
          PROVE  HoldsInv'
      BY <2>2, StatementHolds DEF TxLedgerInv
    <2> QED
      BY <2>1, <2>2 DEF TxNext, txVars, CreditAgent
  <1> QED
    BY <1>1, <1>2, TxLedgerInvHolds, PTL DEF TxSpec

\* Locks of different tables, and of different authorizations, are different.
LEMMA LocksDiffer ==
    /\ \A a : AgentLock(a)[1] = "agents"
    /\ \A r : RequestLock(r)[1] = "idempotency_keys"
    /\ \A id : AuthorizationLock(id)[1] = "authorizations" /\ AuthorizationLock(id)[2] = id
    /\ \A c, k : RelayerKeyLock(c, k)[1] = "relayer_keys"
    /\ CountersLock[1] = "sequencer_counters"
  BY DEF AgentLock, RequestLock, AuthorizationLock, RelayerKeyLock, CountersLock

\* The statements a session that holds a lock can be at.
LEMMA HoldersAt ==
    ASSUME HoldsInv, NEW t \in Sessions
    PROVE  LET my == session[t] IN
           /\ CountersLock \in my.holds =>
                 my.pc \in {"insert", "readLeaves", "commitEpoch"}
           /\ \A c, k : RelayerKeyLock(c, k) \in my.holds => my.pc = "record"
           /\ \A r : RequestLock(r) \in my.holds => my.pc = "replay"
           /\ \A id : AuthorizationLock(id) \in my.holds =>
                 \/ my.pc \in {"lockKey", "record", "refund"}
                 \/ my.pc = "lockOwner" /\ my.arg = id
  <1> PICK my : my = session[t]
    OBVIOUS
  <1>1. HoldsOnly(my)
    BY DEF HoldsInv
  <1>2. ASSUME NEW lock \in my.holds
        PROVE  /\ lock[1] = "sequencer_counters" =>
                     my.pc \in {"insert", "readLeaves", "commitEpoch"}
               /\ lock[1] = "relayer_keys" => my.pc = "record"
               /\ lock[1] = "idempotency_keys" => my.pc = "replay"
               /\ lock[1] = "authorizations" =>
                     \/ my.pc \in {"lockKey", "record", "refund"}
                     \/ my.pc = "lockOwner" /\ my.arg = lock[2]
    <2>1. CASE my.pc \in {"idle", "answer", "lockAgent", "lockReported", "lockReclaimed",
                          "lockLog"}
      BY <1>1, <2>1 DEF HoldsOnly
    <2>2. CASE my.pc \in {"findRequest", "lockCounters"}
      <3>1. lock = AgentLock(my.arg.agentId)
        BY <1>1, <2>2 DEF HoldsOnly
      <3> QED
        BY <3>1, LocksDiffer
    <2>3. CASE my.pc = "replay"
      <3>1. lock \in {AgentLock(my.arg.agentId), RequestLock(my.arg.requestId)}
        BY <1>1, <2>3 DEF HoldsOnly
      <3> QED
        BY <2>3, <3>1, LocksDiffer
    <2>4. CASE my.pc = "insert"
      <3>1. lock \in {AgentLock(my.arg.agentId), CountersLock}
        BY <1>1, <2>4 DEF HoldsOnly
      <3> QED
        BY <2>4, <3>1, LocksDiffer
    <2>5. CASE my.pc \in {"lockKey", "record"}
      <3>1. \/ lock = AuthorizationLock(my.arg.authId)
            \/ /\ lock = RelayerKeyLock(my.arg.chainRef, my.arg.keyId)
               /\ my.pc = "record"
        BY <1>1, <2>5 DEF HoldsOnly
      <3> QED
        BY <2>5, <3>1, LocksDiffer
    <2>6. CASE my.pc = "lockOwner"
      <3>1. lock = AuthorizationLock(my.arg)
        BY <1>1, <2>6 DEF HoldsOnly
      <3> QED
        BY <2>6, <3>1, LocksDiffer
    <2>7. CASE my.pc = "refund"
      <3>1. lock \in {AuthorizationLock(my.arg), AgentLock(my.row.intent.agentId)}
        BY <1>1, <2>7 DEF HoldsOnly
      <3> QED
        BY <2>7, <3>1, LocksDiffer
    <2>8. CASE my.pc \in {"readLeaves", "commitEpoch"}
      <3>1. lock = CountersLock
        BY <1>1, <2>8 DEF HoldsOnly
      <3> QED
        BY <2>8, <3>1, LocksDiffer
    <2>9. my.pc \in Pcs
      BY <1>1 DEF HoldsOnly
    <2> QED
      BY <2>1, <2>2, <2>3, <2>4, <2>5, <2>6, <2>7, <2>8, <2>9
      DEF Pcs, AuthorizePcs, ReportPcs, ReclaimPcs
  <1> QED
    BY <1>2, LocksDiffer

\* A session outside a set that has what it waits for, and what those wait for,
\* is not deadlocked.
LEMMA NotDeadlocked ==
    ASSUME NEW s \in Sessions, NEW W, W \subseteq Sessions, s \notin W,
           \A t \in Sessions : WaitsFor(s, t) => t \in W,
           \A t \in W, u \in Sessions : WaitsFor(t, u) => u \in W
    PROVE  ~Deadlocked(s)
  BY DEF Deadlocked

\* A reclaim that holds the authorization a replay waits for waits for no one
\* but that replay: it needs the row of the same agent.
LEMMA ReclaimWaitsForReplay ==
    ASSUME TxLedgerInv, NEW y \in Sessions, NEW z \in Sessions, NEW u \in Sessions,
           session[y].pc = "replay", session[z].pc = "lockOwner",
           session[z].arg = session[y].row.authId, HoldsInv, WaitsFor(z, u)
    PROVE  u = y
  <1> PICK my, its : my = session[y] /\ its = session[z]
    OBVIOUS
  <1>1. /\ IdempotencyExact /\ TxInv
        /\ Knows(my) /\ Knows(its)
    BY DEF TxLedgerInv, TxInv
  <1>2. /\ KnowsRequest(my) /\ AgentLock(my.arg.agentId) \in my.holds
        /\ its.row = authorizations[its.arg]
    BY <1>1 DEF Knows, AuthorizeKnows, ReclaimKnows, KnowsAgent, KnowsReclaimed,
       AuthorizePcs, ReclaimPcs
  <1>3. its.row.intent = my.arg
    <2>1. /\ my.row = idempotencyKeys[my.arg.requestId]
          /\ my.arg.requestId \in DOMAIN idempotencyKeys
          /\ my.row.intent = my.arg
      BY <1>2 DEF KnowsRequest
    <2>2. authorizations[my.row.authId].intent = my.row.intent
      BY <1>1, <2>1 DEF IdempotencyExact
    <2> QED
      BY <1>2, <2>1, <2>2
  <1>4. LocksNeeded(z) = {AgentLock(my.arg.agentId)}
    <2>1. HoldsOnly(session[z])
      BY DEF HoldsInv
    <2> QED
      BY <1>3, <2>1, LocksAtStatement
  <1>5. AgentLock(my.arg.agentId) \in session[u].holds
    BY <1>4 DEF WaitsFor
  <1> QED
    BY <1>1, <1>2, <1>5 DEF TxInv, LocksExclude

\* A request id is locked by a replay; a replay waits for a report, which waits
\* for a report about to be recorded, or for a reclaim that waits for it: none of
\* them comes to wait for a session that is looking for its request id.
LEMMA FindRequestNotDeadlocked ==
    ASSUME TxLedgerInv, HoldsInv, NEW s \in Sessions, session[s].pc = "findRequest"
    PROVE  ~Deadlocked(s)
  <1>1. ASSUME NEW t \in Sessions PROVE HoldsOnly(session[t])
    BY DEF HoldsInv
  <1> DEFINE Replays == {t \in Sessions : session[t].pc = "replay"}
             Settled == {t \in Sessions : session[t].pc \in {"lockKey", "record", "refund"}}
             Reclaims == {t \in Sessions :
                            /\ session[t].pc = "lockOwner"
                            /\ \A u \in Sessions : WaitsFor(t, u) => u \in Replays}
             W == Replays \cup Settled \cup Reclaims
  <1>2. ASSUME NEW t \in Sessions, WaitsFor(s, t) PROVE t \in Replays
    <2>1. LocksNeeded(s) \subseteq {RequestLock(session[s].arg.requestId)}
      BY <1>1, LocksAtStatement
    <2>2. RequestLock(session[s].arg.requestId) \in session[t].holds
      BY <1>2, <2>1 DEF WaitsFor
    <2> QED
      BY <2>2, HoldersAt
  <1>3. ASSUME NEW t \in Replays, NEW u \in Sessions, WaitsFor(t, u)
        PROVE  u \in Settled \cup Reclaims
    <2>1. AuthorizationLock(session[t].row.authId) \in session[u].holds
      <3>1. LocksNeeded(t) = {AuthorizationLock(session[t].row.authId)}
        BY <1>1, LocksAtStatement
      <3> QED
        BY <1>3, <3>1 DEF WaitsFor
    <2>2. \/ u \in Settled
          \/ session[u].pc = "lockOwner" /\ session[u].arg = session[t].row.authId
      BY <2>1, HoldersAt
    <2>3. ASSUME session[u].pc = "lockOwner", session[u].arg = session[t].row.authId
          PROVE  u \in Reclaims
      BY <2>3, ReclaimWaitsForReplay
    <2> QED
      BY <2>2, <2>3
  <1>4. ASSUME NEW t \in Settled, NEW u \in Sessions, WaitsFor(t, u)
        PROVE  u \in Settled
    <2>1. LocksNeeded(t) \subseteq
             {RelayerKeyLock(session[t].arg.chainRef, session[t].arg.keyId)}
      BY <1>1, LocksAtStatement
    <2>2. RelayerKeyLock(session[t].arg.chainRef, session[t].arg.keyId)
             \in session[u].holds
      BY <1>4, <2>1 DEF WaitsFor
    <2> QED
      BY <2>2, HoldersAt
  <1>5. ASSUME NEW t \in W, NEW u \in Sessions, WaitsFor(t, u) PROVE u \in W
    BY <1>3, <1>4, <1>5
  <1>6. W \subseteq Sessions /\ s \notin W
    OBVIOUS
  <1>7. ASSUME NEW t \in Sessions, WaitsFor(s, t) PROVE t \in W
    BY <1>2, <1>7
  <1> HIDE DEF W
  <1> QED
    BY <1>5, <1>6, <1>7, NotDeadlocked

LEMMA DeadlocksAt == TxLedgerInv /\ HoldsInv => OnlyReplayAndReclaimDeadlock
  <1> SUFFICES ASSUME TxLedgerInv, HoldsInv, NEW s \in Sessions,
                      session[s].pc \notin {"replay", "lockOwner"}
               PROVE  ~Deadlocked(s)
    BY DEF OnlyReplayAndReclaimDeadlock
  <1>1. ASSUME NEW t \in Sessions PROVE HoldsOnly(session[t])
    BY DEF HoldsInv
  <1>2. CASE session[s].pc \in {"idle", "answer", "insert", "record", "refund",
                                "readLeaves", "commitEpoch"}
    <2>1. LocksNeeded(s) = {}
      BY <1>1, <1>2, LocksAtStatement
    <2>2. \A t \in Sessions : ~WaitsFor(s, t)
      BY <2>1 DEF WaitsFor
    <2>3. PICK W : W = {}
      OBVIOUS
    <2> QED
      BY <2>2, <2>3, NotDeadlocked
  <1>3. CASE session[s].pc \in {"lockAgent", "lockReported", "lockReclaimed", "lockLog"}
    <2>1. session[s].holds = {}
      BY <1>1, <1>3 DEF HoldsOnly
    <2>2. \A t \in Sessions : ~WaitsFor(t, s)
      BY <2>1 DEF WaitsFor
    <2>3. PICK W : W = Sessions \ {s}
      OBVIOUS
    <2> QED
      BY <2>2, <2>3, NotDeadlocked
  <1>4. CASE session[s].pc = "lockCounters"
    <2>1. PICK W : W = {t \in Sessions :
                          session[t].pc \in {"insert", "readLeaves", "commitEpoch"}}
      OBVIOUS
    <2>2. ASSUME NEW t \in Sessions, WaitsFor(s, t) PROVE t \in W
      <3>1. LocksNeeded(s) = {CountersLock}
        BY <1>1, <1>4, LocksAtStatement
      <3> QED
        BY <2>1, <2>2, <3>1, HoldersAt DEF WaitsFor
    <2>3. ASSUME NEW t \in W, NEW u \in Sessions PROVE ~WaitsFor(t, u)
      <3>1. LocksNeeded(t) = {}
        BY <1>1, <2>1, LocksAtStatement
      <3> QED
        BY <3>1 DEF WaitsFor
    <2> QED
      BY <1>4, <2>1, <2>2, <2>3, NotDeadlocked
  <1>5. CASE session[s].pc = "lockKey"
    <2>1. PICK W : W = {t \in Sessions : session[t].pc = "record"}
      OBVIOUS
    <2>2. ASSUME NEW t \in Sessions, WaitsFor(s, t) PROVE t \in W
      <3>1. LocksNeeded(s) =
               {RelayerKeyLock(session[s].arg.chainRef, session[s].arg.keyId)}
        BY <1>1, <1>5, LocksAtStatement
      <3> QED
        BY <2>1, <2>2, <3>1, HoldersAt DEF WaitsFor
    <2>3. ASSUME NEW t \in W, NEW u \in Sessions PROVE ~WaitsFor(t, u)
      <3>1. LocksNeeded(t) = {}
        BY <1>1, <2>1, LocksAtStatement
      <3> QED
        BY <3>1 DEF WaitsFor
    <2> QED
      BY <1>5, <2>1, <2>2, <2>3, NotDeadlocked
  <1>6. CASE session[s].pc = "findRequest"
    BY <1>6, FindRequestNotDeadlocked
  <1>7. session[s].pc \in Pcs
    BY <1>1 DEF HoldsOnly
  <1> QED
    BY <1>2, <1>3, <1>4, <1>5, <1>6, <1>7 DEF Pcs, AuthorizePcs, ReportPcs, ReclaimPcs

\* Whatever the number of concurrent requests, a cycle of lock waits that
\* PostgreSQL has to break (pool.ts's transactions over ledger.ts's SELECT ...
\* FOR UPDATE statements) is made of replays of authorizeIntent, which lock the
\* agent before the authorization, and of reclaims, which lock the
\* authorization before the agent: no other request is ever the victim.
THEOREM OnlyReplaysAndReclaimsDeadlock == TxSpec => []OnlyReplayAndReclaimDeadlock
  BY TxLedgerInvHolds, HoldsInvHolds, DeadlocksAt, PTL

-----------------------------------------------------------------------------
(* The posting of the commitments *)

\* A sequencer that posts is still a sequencer: no poster, transaction or
\* restart changes what the ledger holds.
LEMMA PostingKeepsLedger == PostingSpec => Spec
  <1>1. PostingInit => Init
    BY DEF PostingInit
  <1>2. [PostingNext]_allVars => [Next]_vars
    <2> SUFFICES ASSUME [PostingNext]_allVars PROVE [Next]_vars
      OBVIOUS
    <2>1. CASE LedgerStep
      BY <2>1 DEF LedgerStep
    <2>2. CASE CommitEpoch
      BY <2>2 DEF CommitEpoch, Next
    <2>3. ASSUME NEW epoch \in DOMAIN posters, Poster(epoch) \/ Throw(epoch)
          PROVE  UNCHANGED vars
      BY <2>3 DEF Poster, Send, UpdatePosted, UpdateLocal, TimeOut, Throw
    <2>4. CASE Include \/ Drop \/ Restart \/ UNCHANGED allVars
      BY <2>4 DEF Include, Drop, Restart, allVars
    <2> QED
      BY <2>1, <2>2, <2>3, <2>4 DEF PostingNext
  <1> QED
    BY <1>1, <1>2, PTL DEF PostingSpec, Spec

\* The contract with the ledger's first n commitments in it.
RegistryAt(n) ==
    [latestEpochId |-> n, roots |-> [e \in 1..n |-> commitments[e]]]

RowsWhole ==
    \A e \in DOMAIN commitments :
        commitments[e] = [root |-> commitments[e].root,
                          count |-> commitments[e].count,
                          prevRoot |-> commitments[e].prevRoot]

Calls == {CallOf(e) : e \in DOMAIN commitments}

\* What is sent follows what is on the contract, epoch by epoch.
MempoolInTurn ==
    /\ mempool \in Seq(Calls)
    /\ \A k \in 1..Len(mempool) : mempool[k] = CallOf(registry.latestEpochId + k)
    /\ 1..(registry.latestEpochId + Len(mempool)) \subseteq DOMAIN commitments

\* A poster sends once, and one that saw its transaction included finds its
\* epoch on the contract.
PostersInTurn ==
    /\ DOMAIN posters \subseteq DOMAIN commitments
    /\ \A e \in DOMAIN posters :
          /\ posters[e] = "send" => ~InMempool(e)
          /\ posters[e] = "updatePosted" => e \in 1..registry.latestEpochId
    /\ \A e \in DOMAIN postedAs :
          postedAs[e] = "transaction" => e \in 1..registry.latestEpochId

PostingInv ==
    /\ registry.latestEpochId \in Nat
    /\ registry = RegistryAt(registry.latestEpochId)
    /\ RowsWhole
    /\ MempoolInTurn
    /\ PostersInTurn

\* The contract accepts the epoch that is next, whose prevRoot is the root of
\* the one before, and no other.
LEMMA NextCallAccepted ==
    ASSUME CommitmentsProvable, TypeOK, RowsWhole,
           NEW n \in Nat, n + 1 \in DOMAIN commitments
    PROVE  PostCommitment(RegistryAt(n), CallOf(n + 1)) = RegistryAt(n + 1)
  <1>1. n # 0 => n \in DOMAIN commitments
    BY CommitmentsProvableParts DEF TypeOK
  <1>2. Provable(n + 1)
    BY CommitmentsProvableParts
  <1>3. commitments[n + 1].prevRoot = IF n = 0 THEN ZeroHash ELSE commitments[n].root
    BY <1>2 DEF Provable
  <1>4. Accepts(RegistryAt(n), CallOf(n + 1))
    BY <1>3 DEF Accepts, RegistryAt, CallOf
  <1>5. WithRow(RegistryAt(n).roots, n + 1,
                [root |-> CallOf(n + 1).root, count |-> CallOf(n + 1).count,
                 prevRoot |-> CallOf(n + 1).prevRoot])
           = [e \in 1..(n + 1) |-> commitments[e]]
    <2>1. commitments[n + 1] = [root |-> CallOf(n + 1).root,
                                count |-> CallOf(n + 1).count,
                                prevRoot |-> CallOf(n + 1).prevRoot]
      BY DEF RowsWhole, CallOf
    <2>2. (1..n) \cup {n + 1} = 1..(n + 1)
      OBVIOUS
    <2> QED
      BY <2>1, <2>2 DEF WithRow, RegistryAt
  <1> QED
    BY <1>4, <1>5 DEF PostCommitment, RegistryAt, CallOf

LEMMA OnlyNextAccepted ==
    ASSUME NEW n \in Nat, NEW e, Accepts(RegistryAt(n), CallOf(e))
    PROVE  e = n + 1
    BY DEF Accepts, RegistryAt, CallOf

\* The pending block: every call of the mempool will be accepted.  Pending is
\* defined by recursion: the function of RegistryAt solves the recursion, so
\* that one that does is chosen, and the first number at which the two would
\* differ is none.
LEMMA PendingIsNext ==
    ASSUME CommitmentsProvable, TypeOK, PostingInv
    PROVE  Pending = RegistryAt(registry.latestEpochId + Len(mempool))
  <1> DEFINE n == Len(mempool)
             last == registry.latestEpochId
             body(g) == [k \in 0..n |-> IF k = 0 THEN registry
                                        ELSE PostCommitment(g[k - 1], mempool[k])]
             after == CHOOSE g : g = body(g)
             at == [k \in 0..n |-> RegistryAt(last + k)]
  <1>1. /\ n \in Nat /\ last \in Nat /\ registry = RegistryAt(last)
        /\ \A k \in 1..n : mempool[k] = CallOf(last + k)
        /\ \A k \in 1..n : last + k \in DOMAIN commitments
    BY LenProperties DEF PostingInv, MempoolInTurn
  <1>2. Pending = after[n]
    BY DEF Pending
  <1>3. \A k \in 1..n : PostCommitment(RegistryAt(last + (k - 1)), mempool[k])
                           = RegistryAt(last + k)
    <2> SUFFICES ASSUME NEW k \in 1..n
                 PROVE  PostCommitment(RegistryAt(last + (k - 1)), mempool[k])
                           = RegistryAt(last + k)
      OBVIOUS
    <2>1. PICK j \in Nat : j = last + (k - 1) /\ j + 1 = last + k
      BY <1>1, SMTT(30)
    <2> HIDE DEF last, n
    <2>2. PostCommitment(RegistryAt(j), CallOf(j + 1)) = RegistryAt(j + 1)
      BY <1>1, <2>1, NextCallAccepted DEF PostingInv
    <2> QED
      BY <1>1, <2>1, <2>2
  <1> HIDE DEF last
  <1>4. at = body(at)
    <2>1. ASSUME NEW k \in 0..n
          PROVE  at[k] = IF k = 0 THEN registry
                         ELSE PostCommitment(at[k - 1], mempool[k])
      <3>1. CASE k = 0
        BY <1>1, <3>1
      <3>2. CASE k # 0
        <4>1. k \in 1..n /\ k - 1 \in 0..n
          BY <1>1, <3>2
        <4> QED
          BY <1>3, <3>2, <4>1
      <3> QED
        BY <3>1, <3>2
    <2> QED
      BY <2>1
  <1>5. after = body(after)
    BY <1>4
  <1> HIDE DEF after
  <1>6. ASSUME NEW k \in 0..n
        PROVE  after[k] = IF k = 0 THEN registry
                          ELSE PostCommitment(after[k - 1], mempool[k])
    BY <1>5
  <1> DEFINE T == {k \in 0..n : after[k] # at[k]}
  <1>7. T = {}
    <2> SUFFICES ASSUME T # {} PROVE FALSE
      OBVIOUS
    <2>1. T \subseteq Nat
      BY <1>1
    <2> HIDE DEF T
    <2>2. PICK m \in T : \A k \in T : m <= k
      BY <2>1, LeastElement
    <2>3. m \in 0..n /\ after[m] # at[m]
      BY DEF T
    <2>4. CASE m = 0
      BY <1>1, <1>6, <2>3, <2>4
    <2>5. CASE m # 0
      <3>1. m \in 1..n /\ m - 1 \in 0..n /\ ~(m <= m - 1)
        BY <1>1, <2>3, <2>5
      <3>2. after[m - 1] = at[m - 1]
        BY <2>2, <3>1 DEF T
      <3> QED
        BY <1>3, <1>6, <2>3, <2>5, <3>1, <3>2
    <2> QED
      BY <2>4, <2>5
  <1>8. after[n] = RegistryAt(last + n)
    <2>1. n \in 0..n
      BY <1>1
    <2>2. at[n] = RegistryAt(last + n)
      BY <2>1
    <2> HIDE DEF n, at
    <2> QED
      BY <1>7, <2>1, <2>2
  <1> QED
    BY <1>2, <1>8 DEF last
\* The ledger's own steps and a new epoch leave what is posted in place.
LEMMA GrowthKeepsPosting ==
    ASSUME PostingInv, TypeOK, RowsWhole',
           \A e \in DOMAIN commitments :
              e \in DOMAIN commitments' /\ commitments'[e] = commitments[e],
           UNCHANGED <<mempool, registry>>
    PROVE  /\ registry' = RegistryAt(registry.latestEpochId)'
           /\ MempoolInTurn'
  <1>1. /\ registry.latestEpochId \in Nat /\ Len(mempool) \in Nat
        /\ mempool \in Seq(Calls)
        /\ 1..(registry.latestEpochId + Len(mempool)) \subseteq DOMAIN commitments
        /\ registry = RegistryAt(registry.latestEpochId)
    BY LenProperties DEF PostingInv, MempoolInTurn
  <1>2. \A e \in DOMAIN commitments : CallOf(e)' = CallOf(e)
    BY DEF CallOf
  <1>3. Calls \subseteq Calls'
    BY <1>2 DEF Calls
  <1>4. mempool' \in Seq(Calls')
    BY <1>1, <1>3, SeqMonotonic
  <1>5. \A k \in 1..Len(mempool) :
           mempool[k] = CallOf(registry.latestEpochId + k)'
    <2> SUFFICES ASSUME NEW k \in 1..Len(mempool)
                 PROVE  mempool[k] = CallOf(registry.latestEpochId + k)'
      OBVIOUS
    <2>1. PICK e \in DOMAIN commitments : e = registry.latestEpochId + k
      BY <1>1
    <2>2. mempool[k] = CallOf(e)
      BY <2>1 DEF PostingInv, MempoolInTurn
    <2> QED
      BY <1>2, <2>1, <2>2 DEF CallOf
  <1>6. registry' = RegistryAt(registry.latestEpochId)'
    <2>1. \A e \in 1..registry.latestEpochId : commitments'[e] = commitments[e]
      BY <1>1
    <2> QED
      BY <1>1, <2>1 DEF RegistryAt
  <1> QED
    BY <1>1, <1>4, <1>5, <1>6 DEF MempoolInTurn

\* A call sent when it is the next one keeps the mempool in turn.
LEMMA SendKeepsTurn ==
    ASSUME PostingInv, TypeOK, CommitmentsProvable, NEW epoch \in DOMAIN posters,
           posters[epoch] = "send", NEW block \in EstimateBlocks,
           EstimateOf(CallOf(epoch), block)
    PROVE  epoch = registry.latestEpochId + Len(mempool) + 1
  <1>1. /\ registry.latestEpochId \in Nat /\ Len(mempool) \in Nat
        /\ registry = RegistryAt(registry.latestEpochId)
        /\ DOMAIN mempool = 1..Len(mempool)
        /\ \A k \in 1..Len(mempool) : mempool[k] = CallOf(registry.latestEpochId + k)
    BY LenProperties DEF PostingInv, MempoolInTurn
  <1>2. CASE block = "latest"
    <2>1. epoch = registry.latestEpochId + 1
      BY <1>1, <1>2, OnlyNextAccepted DEF EstimateOf
    <2>2. Len(mempool) = 0
      <3> SUFFICES ASSUME 1 \in 1..Len(mempool) PROVE FALSE
        BY <1>1
      <3>1. mempool[1].epochId = epoch
        BY <1>1, <2>1 DEF CallOf
      <3> QED
        BY <1>1, <3>1 DEF PostingInv, PostersInTurn, InMempool
    <2> QED
      BY <1>1, <2>1, <2>2
  <1>3. CASE block # "latest"
    <2>1. PICK n \in Nat : n = registry.latestEpochId + Len(mempool)
      BY <1>1
    <2>2. Accepts(RegistryAt(n), CallOf(epoch))
      BY <1>3, <2>1, PendingIsNext DEF EstimateOf
    <2> QED
      BY <2>1, <2>2, OnlyNextAccepted
  <1> QED
    BY <1>2, <1>3
LEMMA CommitEpochKeepsPosting ==
    ASSUME PostingInv, TypeOK, LogHashChain, CommitmentsProvable, CommitEpoch
    PROVE  PostingInv'
  <1>0. PICK E \in Nat : E = counters.lastEpochId + 1
    BY DEF TypeOK
  <1>1. CommitsLog
    BY CommitmentCommits, LogHashChainParts DEF CommitEpoch
  <1>2. /\ DOMAIN commitments' = DOMAIN commitments \cup {E}
        /\ E \notin DOMAIN commitments
        /\ \A e \in DOMAIN commitments : commitments'[e] = commitments[e]
        /\ commitments'[E] = [root |-> MerkleRoot(PendingLeaves),
                              count |-> Cardinality(PendingLeaves),
                              prevRoot |-> counters.lastRoot]
        /\ counters'.lastEpochId = E
    BY <1>0, <1>1 DEF CommitsLog
  <1>3. RowsWhole'
    <2>1. ASSUME NEW e \in DOMAIN commitments'
          PROVE  commitments'[e] = [root |-> commitments'[e].root,
                                    count |-> commitments'[e].count,
                                    prevRoot |-> commitments'[e].prevRoot]
      BY <1>2, <2>1 DEF PostingInv, RowsWhole
    <2> QED
      BY <2>1 DEF RowsWhole
  <1>4. /\ UNCHANGED <<mempool, registry, postedAs>>
        /\ posters' = WithRow(posters, E, IF configured THEN "send"
                                                        ELSE "updateLocal")
    BY <1>2 DEF CommitEpoch, chainVars
  <1>5. registry' = RegistryAt(registry.latestEpochId)' /\ MempoolInTurn'
    BY <1>2, <1>3, <1>4, GrowthKeepsPosting
  <1>6. PostersInTurn'
    <2>1. ~InMempool(E)
      <3>1. /\ DOMAIN mempool = 1..Len(mempool)
            /\ \A k \in 1..Len(mempool) : mempool[k] \in Calls
        BY LenProperties, ElementOfSeq DEF PostingInv, MempoolInTurn
      <3> QED
        BY <1>2, <3>1 DEF InMempool, Calls, CallOf
    <2>2. /\ DOMAIN posters' = DOMAIN posters \cup {E}
          /\ posters'[E] \in {"send", "updateLocal"}
          /\ \A e \in DOMAIN posters : e # E => posters'[e] = posters[e]
      BY <1>4 DEF WithRow
    <2>3. ASSUME NEW e \in DOMAIN posters'
          PROVE  /\ posters'[e] = "send" => ~InMempool(e)'
                 /\ posters'[e] = "updatePosted" => e \in 1..registry'.latestEpochId
      <3>1. CASE e = E
        BY <1>4, <2>1, <2>2, <3>1 DEF InMempool
      <3>2. CASE e # E
        BY <1>4, <2>2, <2>3, <3>2 DEF PostingInv, PostersInTurn, InMempool
      <3> QED
        BY <3>1, <3>2
    <2>4. DOMAIN posters' \subseteq DOMAIN commitments'
      BY <1>2, <2>2 DEF PostingInv, PostersInTurn
    <2> QED
      BY <1>4, <2>3, <2>4 DEF PostingInv, PostersInTurn
  <1> QED
    BY <1>3, <1>4, <1>5, <1>6 DEF PostingInv

LEMMA SendKeepsPosting ==
    ASSUME PostingInv, TypeOK, CommitmentsProvable, NEW epoch \in DOMAIN posters,
           Send(epoch)
    PROVE  PostingInv'
  <1>0. /\ posters[epoch] = "send"
        /\ UNCHANGED <<commitments, registry, postedAs>>
    BY DEF Send, At, vars
  <1>1. /\ registry.latestEpochId \in Nat /\ Len(mempool) \in Nat
        /\ mempool \in Seq(Calls) /\ DOMAIN mempool = 1..Len(mempool)
        /\ \A k \in 1..Len(mempool) : mempool[k] = CallOf(registry.latestEpochId + k)
        /\ 1..(registry.latestEpochId + Len(mempool)) \subseteq DOMAIN commitments
        /\ DOMAIN posters \subseteq DOMAIN commitments
    BY LenProperties DEF PostingInv, MempoolInTurn, PostersInTurn
  <1>2. /\ registry' = RegistryAt(registry.latestEpochId)'
        /\ RowsWhole' /\ Calls' = Calls
        /\ \A e : CallOf(e)' = CallOf(e)
    BY <1>0 DEF PostingInv, RegistryAt, RowsWhole, Calls, CallOf
  <1>3. CASE posters' = Without(epoch) /\ UNCHANGED mempool
    <2>1. MempoolInTurn'
      BY <1>0, <1>1, <1>2, <1>3 DEF PostingInv, MempoolInTurn
    <2>2. PostersInTurn'
      BY <1>0, <1>3 DEF PostingInv, PostersInTurn, Without, InMempool
    <2> QED
      BY <1>0, <1>2, <2>1, <2>2 DEF PostingInv
  <1>4. CASE /\ mempool' = Append(mempool, CallOf(epoch))
             /\ posters' = [posters EXCEPT ![epoch] = "waitForReceipt"]
             /\ \E block \in EstimateBlocks : EstimateOf(CallOf(epoch), block)
    <2>1. epoch = registry.latestEpochId + Len(mempool) + 1
      BY <1>0, <1>4, SendKeepsTurn
    <2>2. CallOf(epoch) \in Calls
      BY <1>1 DEF Calls
    <2>3. PICK N \in Nat : N = Len(mempool)
      BY <1>1
    <2>4. /\ mempool' \in Seq(Calls) /\ Len(mempool') = N + 1
          /\ DOMAIN mempool' = 1..(N + 1)
          /\ mempool'[N + 1] = CallOf(epoch)
          /\ \A k \in 1..N : mempool'[k] = mempool[k]
      BY <1>1, <1>4, <2>2, <2>3
    <2>5. MempoolInTurn'
      <3>1. \A k \in 1..(N + 1) : mempool'[k] = CallOf(registry.latestEpochId + k)
        <4>1. ASSUME NEW k \in 1..N
              PROVE  mempool'[k] = CallOf(registry.latestEpochId + k)
          BY <1>1, <2>3, <2>4
        <4>2. registry.latestEpochId + (N + 1) = epoch
          BY <1>1, <2>1, <2>3
        <4>3. 1..(N + 1) = (1..N) \cup {N + 1}
          BY <2>3
        <4> QED
          BY <2>4, <4>1, <4>2, <4>3
      <3>2. 1..(registry.latestEpochId + (N + 1)) \subseteq DOMAIN commitments
        <4>1. PICK n \in Nat : n = registry.latestEpochId
          BY <1>1
        <4>2. 1..(n + N) \subseteq DOMAIN commitments /\ epoch = n + N + 1
          BY <1>1, <2>1, <2>3, <4>1
        <4>3. epoch \in DOMAIN commitments
          BY <1>1
        <4>4. 1..(n + (N + 1)) = (1..(n + N)) \cup {n + N + 1}
          OBVIOUS
        <4> QED
          BY <4>1, <4>2, <4>3, <4>4
      <3> QED
        BY <1>0, <1>2, <2>4, <3>1, <3>2 DEF MempoolInTurn
    <2>6. PostersInTurn'
      <3>1. ASSUME NEW e \in DOMAIN posters, e # epoch, posters[e] = "send"
            PROVE  ~InMempool(e)'
        <4>1. ~InMempool(e)
          BY <3>1 DEF PostingInv, PostersInTurn
        <4>2. ASSUME NEW k \in 1..(N + 1) PROVE mempool'[k].epochId # e
          <5>1. CASE k = N + 1
            BY <2>4, <3>1, <5>1 DEF CallOf
          <5>2. CASE k \in 1..N
            BY <1>1, <2>3, <2>4, <4>1, <5>2 DEF InMempool
          <5> QED
            BY <5>1, <5>2, <2>3
        <4> QED
          BY <2>4, <4>2 DEF InMempool
      <3> QED
        BY <1>0, <1>4, <3>1 DEF PostingInv, PostersInTurn
    <2> QED
      BY <1>0, <1>1, <1>2, <2>5, <2>6 DEF PostingInv
  <1> QED
    BY <1>3, <1>4 DEF Send

LEMMA IncludeKeepsPosting ==
    ASSUME PostingInv, TypeOK, CommitmentsProvable, Include
    PROVE  PostingInv'
  <1> DEFINE last == registry.latestEpochId
  <1>0. /\ mempool # << >> /\ mempool' = Tail(mempool)
        /\ registry' = PostCommitment(registry, Head(mempool))
        /\ posters' = [e \in DOMAIN posters |->
                          IF e = Head(mempool).epochId THEN "updatePosted"
                                                       ELSE posters[e]]
        /\ UNCHANGED <<commitments, postedAs>>
    BY DEF Include, vars
  <1>1. PICK n \in Nat, N \in Nat : n = last /\ N + 1 = Len(mempool)
    <2>1. last \in Nat /\ Len(mempool) \in Nat /\ Len(mempool) # 0
      BY <1>0, LenProperties, EmptySeq DEF PostingInv, MempoolInTurn
    <2>2. Len(mempool) - 1 \in Nat /\ (Len(mempool) - 1) + 1 = Len(mempool)
      BY <2>1
    <2> QED
      BY <2>1, <2>2
  <1>2. /\ mempool \in Seq(Calls) /\ DOMAIN mempool = 1..(N + 1)
        /\ \A k \in 1..(N + 1) : mempool[k] = CallOf(n + k)
        /\ 1..(n + (N + 1)) \subseteq DOMAIN commitments
        /\ registry = RegistryAt(n)
    BY <1>1, LenProperties DEF PostingInv, MempoolInTurn
  <1>3. Head(mempool) = CallOf(n + 1) /\ Head(mempool).epochId = n + 1
    BY <1>0, <1>1, <1>2 DEF CallOf
  <1>4. registry' = RegistryAt(n + 1)
    BY <1>0, <1>1, <1>2, <1>3, NextCallAccepted DEF PostingInv
  <1>5. registry'.latestEpochId = n + 1
    BY <1>4 DEF RegistryAt
  <1>6. /\ RowsWhole' /\ Calls' = Calls
        /\ \A e : CallOf(e)' = CallOf(e) /\ RegistryAt(e)' = RegistryAt(e)
    BY <1>0 DEF PostingInv, RowsWhole, Calls, CallOf, RegistryAt
  <1>7. /\ mempool' \in Seq(Calls) /\ Len(mempool') = N
        /\ DOMAIN mempool' = 1..N
        /\ \A k \in 1..N : mempool'[k] = mempool[k + 1]
    BY <1>0, <1>1, <1>2, HeadTailProperties, LenProperties
  <1>8. MempoolInTurn'
    <2>1. ASSUME NEW k \in 1..N PROVE mempool'[k] = CallOf((n + 1) + k)
      <3>1. k + 1 \in 1..(N + 1) /\ n + (k + 1) = (n + 1) + k
        OBVIOUS
      <3> QED
        BY <1>2, <1>7, <3>1
    <2>2. 1..((n + 1) + N) \subseteq DOMAIN commitments
      BY <1>2
    <2> QED
      BY <1>0, <1>5, <1>6, <1>7, <2>1, <2>2 DEF MempoolInTurn
  <1>9. PostersInTurn'
    <2>1. ASSUME NEW e \in DOMAIN posters, posters'[e] = "send"
          PROVE  ~InMempool(e)'
      <3>1. ~InMempool(e)
        BY <1>0, <2>1 DEF PostingInv, PostersInTurn
      <3>2. ASSUME NEW k \in 1..N PROVE mempool'[k].epochId # e
        <4>1. k + 1 \in DOMAIN mempool
          BY <1>2
        <4> QED
          BY <1>7, <3>1, <4>1 DEF InMempool
      <3> QED
        BY <1>7, <3>2 DEF InMempool
    <2>2. ASSUME NEW e \in DOMAIN posters, posters'[e] = "updatePosted"
          PROVE  e \in 1..(n + 1)
      BY <1>0, <1>1, <1>3, <2>2 DEF PostingInv, PostersInTurn
    <2>3. \A e \in DOMAIN postedAs :
             postedAs[e] = "transaction" => e \in 1..(n + 1)
      BY <1>1 DEF PostingInv, PostersInTurn
    <2>4. DOMAIN posters' = DOMAIN posters /\ DOMAIN posters \subseteq DOMAIN commitments
      BY <1>0 DEF PostingInv, PostersInTurn
    <2> QED
      BY <1>0, <1>5, <2>1, <2>2, <2>3, <2>4 DEF PostersInTurn
  <1>10. registry' = RegistryAt(registry'.latestEpochId) /\ registry'.latestEpochId \in Nat
    BY <1>4, <1>5
  <1> QED
    BY <1>6, <1>8, <1>9, <1>10 DEF PostingInv

LEMMA DropKeepsPosting ==
    ASSUME PostingInv, TypeOK, Drop
    PROVE  PostingInv'
  <1>0. /\ mempool # << >> /\ mempool' = SubSeq(mempool, 1, Len(mempool) - 1)
        /\ UNCHANGED <<commitments, registry, posters, postedAs>>
    BY DEF Drop, vars, Front
  <1>1. PICK N \in Nat : N + 1 = Len(mempool)
    <2>1. Len(mempool) \in Nat /\ Len(mempool) # 0
      BY <1>0, LenProperties, EmptySeq DEF PostingInv, MempoolInTurn
    <2> QED
      BY <2>1
  <1>2. mempool \in Seq(Calls) /\ DOMAIN mempool = 1..(N + 1)
    BY <1>1, LenProperties DEF PostingInv, MempoolInTurn
  <1>3. /\ mempool' \in Seq(Calls) /\ Len(mempool') = N /\ DOMAIN mempool' = 1..N
        /\ \A k \in 1..N : mempool'[k] = mempool[k]
    <2>1. mempool' = SubSeq(mempool, 1, N)
      BY <1>0, <1>1
    <2>2. \A k \in 1..N : mempool[k] \in Calls
      BY <1>1, <1>2, ElementOfSeq
    <2> QED
      BY <1>2, <2>1, <2>2, SubSeqProperties, LenProperties
  <1>4. MempoolInTurn'
    <2>1. /\ \A k \in 1..N : mempool'[k] = CallOf(registry.latestEpochId + k)
          /\ 1..(registry.latestEpochId + N) \subseteq DOMAIN commitments
          /\ registry.latestEpochId \in Nat
      BY <1>1, <1>3 DEF PostingInv, MempoolInTurn
    <2>2. Calls' = Calls /\ \A e : CallOf(e)' = CallOf(e)
      BY <1>0 DEF Calls, CallOf
    <2> QED
      BY <1>0, <1>3, <2>1, <2>2 DEF MempoolInTurn
  <1>5. PostersInTurn'
    BY <1>0, <1>2, <1>3 DEF PostingInv, PostersInTurn, InMempool
  <1> QED
    BY <1>0, <1>4, <1>5 DEF PostingInv, RowsWhole, RegistryAt

LEMMA StepPosting ==
    PostingInv /\ TypeOK /\ LogHashChain /\ CommitmentsProvable
       /\ [PostingNext]_allVars => PostingInv'
  <1> SUFFICES ASSUME PostingInv, TypeOK, LogHashChain, CommitmentsProvable,
                      [PostingNext]_allVars
               PROVE  PostingInv'
    OBVIOUS
  <1>1. ASSUME UNCHANGED <<commitments, mempool, registry>>,
               DOMAIN posters' \subseteq DOMAIN posters,
               \A e \in DOMAIN posters' : posters'[e] = posters[e],
               \A e \in DOMAIN postedAs' : postedAs'[e] = "transaction" =>
                  e \in 1..registry.latestEpochId
        PROVE  PostingInv'
    <2>1. MempoolInTurn' /\ RowsWhole' /\ registry' = RegistryAt(registry.latestEpochId)'
      BY <1>1 DEF PostingInv, MempoolInTurn, RowsWhole, RegistryAt, Calls, CallOf
    <2>2. PostersInTurn'
      BY <1>1 DEF PostingInv, PostersInTurn, InMempool
    <2> QED
      BY <1>1, <2>1, <2>2 DEF PostingInv
  <1>2. \A e \in DOMAIN postedAs :
           postedAs[e] = "transaction" => e \in 1..registry.latestEpochId
    BY DEF PostingInv, PostersInTurn
  <1>3. CASE LedgerStep \/ UNCHANGED allVars \/ Restart
    BY <1>1, <1>2, <1>3
    DEF LedgerStep, Restart, allVars, vars, postingVars, chainVars
  <1>4. CASE CommitEpoch
    BY <1>4, CommitEpochKeepsPosting
  <1>5. ASSUME NEW epoch \in DOMAIN posters, Poster(epoch) \/ Throw(epoch)
        PROVE  PostingInv'
    <2>1. CASE Send(epoch)
      BY <2>1, SendKeepsPosting
    <2>2. CASE UpdatePosted(epoch)
      <3>1. epoch \in 1..registry.latestEpochId
        BY <2>2 DEF UpdatePosted, At, PostingInv, PostersInTurn
      <3> QED
        BY <1>1, <1>2, <2>2, <3>1 DEF UpdatePosted, Without, WithRow, vars, chainVars
    <2>3. CASE UpdateLocal(epoch)
      BY <1>1, <1>2, <2>3 DEF UpdateLocal, Without, WithRow, vars, chainVars
    <2>4. CASE TimeOut(epoch) \/ Throw(epoch)
      BY <1>1, <1>2, <2>4 DEF TimeOut, Throw, Without, vars, chainVars
    <2> QED
      BY <1>5, <2>1, <2>2, <2>3, <2>4 DEF Poster
  <1>6. CASE Include
    BY <1>6, IncludeKeepsPosting
  <1>7. CASE Drop
    BY <1>7, DropKeepsPosting
  <1> QED
    BY <1>3, <1>4, <1>5, <1>6, <1>7 DEF PostingNext

LEMMA InitPosting == PostingInit => PostingInv
  <1> SUFFICES ASSUME PostingInit PROVE PostingInv
    OBVIOUS
  <1>1. /\ commitments = << >> /\ mempool = << >> /\ posters = << >>
        /\ postedAs = << >> /\ registry.latestEpochId = 0
        /\ registry = [latestEpochId |-> 0, roots |-> << >>]
    BY DEF PostingInit, Init, NoCommitments
  <1>2. << >> = [e \in 1..0 |-> commitments[e]]
    OBVIOUS
  <1>3. registry = RegistryAt(0)
    BY <1>1, <1>2 DEF RegistryAt
  <1>4. MempoolInTurn
    BY <1>1, EmptySeq DEF MempoolInTurn
  <1> QED
    BY <1>1, <1>3, <1>4 DEF PostingInv, PostersInTurn, RowsWhole

\* What auditors find on Base is the ledger's history without a gap, and an
\* epoch the sequencer gives a transaction for is there: for every number of
\* epochs, failures and restarts, posters overlapping or not, and whichever
\* block the node estimates gas on.  The status of the receipt is not looked
\* at and need not be: PostingInv says why, every call in the mempool is the
\* next one for the contract when its turn comes, since writeContract estimates
\* it first and transactions are included in the order of their nonces.
THEOREM RegistryIsLedger == PostingSpec => []RegistryFollowsLedger
  <1>1. PostingInv /\ TypeOK /\ CommitmentsProvable => RegistryFollowsLedger
    <2> SUFFICES ASSUME PostingInv, CommitmentsProvable PROVE RegistryFollowsLedger
      OBVIOUS
    <2>1. /\ registry = RegistryAt(registry.latestEpochId)
          /\ registry.latestEpochId \in Nat
          /\ 1..registry.latestEpochId \subseteq DOMAIN commitments
      <3>1. Len(mempool) \in Nat
        BY LenProperties DEF PostingInv, MempoolInTurn
      <3> QED
        BY <3>1 DEF PostingInv, MempoolInTurn
    <2>2. /\ DOMAIN registry.roots = 1..registry.latestEpochId
          /\ \A e \in 1..registry.latestEpochId : registry.roots[e] = commitments[e]
      BY <2>1 DEF RegistryAt
    <2>3. \A e \in DOMAIN commitments : commitments[e].root = MerkleRoot(LeavesOf(e))
      BY CommitmentsProvableParts DEF Provable
    <2> QED
      BY <2>1, <2>2, <2>3 DEF RegistryFollowsLedger, PostingInv, PostersInTurn
  <1> QED
    BY <1>1, InitPosting, StepPosting, PostingKeepsLedger, LogIsChained,
       CommitmentsStayProvable, TypeCorrect, PTL DEF PostingSpec
=============================================================================
