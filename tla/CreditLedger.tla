---------------------------- MODULE CreditLedger ----------------------------
(***************************************************************************)
(* The credit ledger of the sequencer: the PostgreSQL tables of            *)
(* services/credit-sequencer and the transactions that change them.  One   *)
(* action is one committed transaction; a request the code rejects rolls   *)
(* back and is a stuttering step.  LedgerTx splits the transactions into   *)
(* their statements and row locks and is checked to implement this module. *)
(*                                                                         *)
(* `now' is read before a transaction begins (nowSeconds() is called       *)
(* before withTx), so while the transaction waits for its row locks it     *)
(* grows stale without bound: every action takes any now <= clock.         *)
(*                                                                         *)
(* Hashes are modelled by what they commit to.  An intent hash is the      *)
(* intent, an authId the triple it is derived from, a leaf hash the chain  *)
(* of authIds up to it, a Merkle root the leaves below it by log number.   *)
(***************************************************************************)
EXTENDS Integers, FiniteSets, Sequences

CONSTANTS
    Agents,               \* agent ids
    PubKeys,              \* agent signing keys
    RequestIds,           \* client-chosen request ids
    ChainRefs,            \* chain references known to anyone
    SupportedChainRefs,   \* SEQUENCER_SUPPORTED_CHAIN_REFS
    Intents,              \* the signed intents clients may submit
    RelayerKeyIds,        \* relayer key ids
    ActiveRelayerKeys,    \* rows of relayer_keys with status ACTIVE
    ReportIds, TxHashes,  \* what a relayer's execution report names
    GraceSeconds,         \* SEQUENCER_EXECUTION_GRACE_SECONDS
    SweepLimit,           \* LIMIT of the sweeper's query (200)
    CreditAmounts,        \* amounts POST /v1/admin/credit is called with
    MaxCredit, MaxClock,  \* bounds of the model
    NULL                  \* SQL NULL

Intent == [requestId: RequestIds, agentId: Agents, agentPubKey: PubKeys,
           agentNonce: Nat, amountMicros: Nat, requiredChainRef: ChainRefs,
           expiresAt: Nat]

ASSUME LedgerConstants ==
    /\ Intents \subseteq Intent
    /\ SupportedChainRefs \subseteq ChainRefs
    /\ ActiveRelayerKeys \subseteq ChainRefs \X RelayerKeyIds
    /\ GraceSeconds \in Nat
    /\ SweepLimit \in Nat \ {0}
    /\ CreditAmounts \subseteq Nat \ {0}
    /\ MaxCredit \in Nat /\ MaxClock \in Nat
    /\ NULL \notin PubKeys /\ NULL \notin Nat

VARIABLES
    clock,              \* the wall clock of the sequencer, in seconds
    agents,             \* table agents, a row of defaults for each agent
    idempotencyKeys,    \* table idempotency_keys, by request_id
    authorizations,     \* table authorizations, by auth_id
    executions,         \* table executions, by auth_id
    executionAttempts,  \* table execution_attempts, by report_id
    authLeaves,         \* table auth_leaves, by log_seq_no
    commitments,        \* table commitments, by epoch_id
    counters,           \* the row of sequencer_counters
    sweep               \* authIds the sweeper's current pass has yet to visit

reportVars == <<executions, executionAttempts>>
logVars == <<authLeaves, commitments, counters>>
vars == <<clock, agents, idempotencyKeys, authorizations, executions,
          executionAttempts, authLeaves, commitments, counters, sweep>>

-----------------------------------------------------------------------------
(* Rows *)

Statuses == {"ISSUED", "EXECUTED", "RECLAIMED"}
NoEpoch == 0   \* epoch_id IS NULL: epochs are numbered from 1
AuthIds == Intents \X Nat \X Nat

DeriveAuthorizationId(intent, epoch, seqNo) == <<intent, epoch, seqNo>>

\* computeAuthorizationLeaf: commits to the log number (part of the authId),
\* the authorization and the previous leaf, hence to the log so far.
ZeroHash == << >>
AuthorizationLeaf(prevLeafHash, authId) == Append(prevLeafHash, authId)

AgentRow == [balance: Nat, nextNonce: Nat, credited: Nat,
             debitedOutstanding: Nat, pubKey: PubKeys \cup {NULL}]
AuthorizationRow == [intent: Intents, epochHint: Nat, logSeqNo: Nat,
                     graceUntil: Nat, status: Statuses,
                     executedAt: Nat \cup {NULL}, reclaimedAt: Nat \cup {NULL}]
IdempotencyRow == [intent: Intents, authId: AuthIds]
ExecutionRow == [chainRef: ChainRefs, txHash: TxHashes, keyId: RelayerKeyIds]
AttemptRow == [authId: AuthIds, txHash: TxHashes,
               status: {"SUCCESS", "FAILED"}, keyId: RelayerKeyIds]
LeafRow == [authId: AuthIds, prevLeafHash: Seq(AuthIds),
            leafHash: Seq(AuthIds), epochId: Nat]
\* INSERT of a row under a key that is not there yet.
WithRow(table, key, row) ==
    [k \in DOMAIN table \cup {key} |-> IF k = key THEN row ELSE table[k]]

Now == 0..clock

Init ==
    /\ clock = 0
    /\ agents = [a \in Agents |-> [balance |-> 0, nextNonce |-> 0,
                                   credited |-> 0, debitedOutstanding |-> 0,
                                   pubKey |-> NULL]]
    /\ idempotencyKeys = << >>
    /\ authorizations = << >>
    /\ executions = << >>
    /\ executionAttempts = << >>
    /\ authLeaves = << >>
    /\ commitments = << >>
    /\ counters = [logSeqNo |-> 0, lastLeafHash |-> ZeroHash,
                   lastEpochId |-> 0, lastRoot |-> ZeroHash]
    /\ sweep = {}

-----------------------------------------------------------------------------
(* The transactions *)

\* POST /v1/admin/credit.  It has no idempotency key.
WithCredit(agent, amount) ==
    [agent EXCEPT !.balance = agent.balance + amount,
                  !.credited = agent.credited + amount]

AdminCredit(a, amount) ==
    /\ agents[a].credited + amount <= MaxCredit
    /\ agents' = [agents EXCEPT ![a] = WithCredit(agents[a], amount)]
    /\ UNCHANGED <<clock, idempotencyKeys, authorizations, reportVars,
                   logVars, sweep>>

\* authorizeIntent, for a request id that is not in idempotency_keys.  (When
\* it is, the code returns the stored authorization or an error: no change.)
IntentAdmissible(i, now) ==
    /\ now <= i.expiresAt
    /\ i.requiredChainRef \in SupportedChainRefs
    /\ agents[i.agentId].pubKey \in {NULL, i.agentPubKey}

RequestIsNewUnchecked(i) == TRUE
RequestIsNew(i) == i.requestId \notin DOMAIN idempotencyKeys

NonceIsFresh(i) == i.agentNonce >= agents[i.agentId].nextNonce
NonceIsNext(i) == i.agentNonce = agents[i.agentId].nextNonce

AffordableOnCredit(i) == agents[i.agentId].credited >= i.amountMicros
Affordable(i) ==
    LET agent == agents[i.agentId]
    IN  /\ i.amountMicros > 0
        /\ agent.balance >= i.amountMicros
        /\ agent.debitedOutstanding + i.amountMicros <= agent.credited

\* PRIMARY KEY and UNIQUE constraints of the tables an authorization enters.
UniqueAuthorization(authId, seqNo) ==
    /\ authId \notin DOMAIN authorizations
    /\ seqNo \notin DOMAIN authLeaves
    /\ \A other \in DOMAIN authorizations :
          /\ authorizations[other].logSeqNo # seqNo
          /\ \/ authorizations[other].intent.agentId # authId[1].agentId
             \/ authorizations[other].intent.agentNonce # authId[1].agentNonce

NewAuthorization(i, epochHint, seqNo) ==
    [intent |-> i, epochHint |-> epochHint, logSeqNo |-> seqNo,
     graceUntil |-> i.expiresAt + GraceSeconds, status |-> "ISSUED",
     executedAt |-> NULL, reclaimedAt |-> NULL]

WithDebit(agent, i) ==
    [agent EXCEPT
        !.balance = agent.balance - i.amountMicros,
        !.nextNonce = i.agentNonce + 1,
        !.debitedOutstanding = agent.debitedOutstanding + i.amountMicros,
        !.pubKey = IF agent.pubKey = NULL THEN i.agentPubKey ELSE agent.pubKey]

DebitAgent(i) ==
    agents' = [agents EXCEPT ![i.agentId] = WithDebit(agents[i.agentId], i)]

AppendLeaf(authId, seqNo) ==
    LET leafHash == AuthorizationLeaf(counters.lastLeafHash, authId)
    IN  /\ authLeaves' = WithRow(authLeaves, seqNo,
              [authId |-> authId, prevLeafHash |-> counters.lastLeafHash,
               leafHash |-> leafHash, epochId |-> NoEpoch])
        /\ counters' = [counters EXCEPT !.logSeqNo = seqNo,
                                        !.lastLeafHash = leafHash]

EpochHint == counters.lastEpochId + 1

AuthorizeIntent(i, now) ==
    LET seqNo == counters.logSeqNo + 1
        authId == DeriveAuthorizationId(i, EpochHint, seqNo)
    IN  /\ IntentAdmissible(i, now)
        /\ RequestIsNew(i) /\ NonceIsNext(i) /\ Affordable(i)
        /\ UniqueAuthorization(authId, seqNo)
        /\ authorizations' = WithRow(authorizations, authId,
                                     NewAuthorization(i, EpochHint, seqNo))
        /\ idempotencyKeys' = WithRow(idempotencyKeys, i.requestId,
                                      [intent |-> i, authId |-> authId])
        /\ AppendLeaf(authId, seqNo)
        /\ DebitAgent(i)
        /\ UNCHANGED <<clock, reportVars, commitments, sweep>>

\* recordExecution up to and including the INSERT into execution_attempts,
\* and the checks of the authorization that follow it.  A report id that is
\* already there is answered from its row: no change.
ReportAcceptedOnAnyChain(r, now) ==
    /\ r.authId \in DOMAIN authorizations
    /\ <<r.chainRef, r.keyId>> \in ActiveRelayerKeys
    /\ r.reportId \notin DOMAIN executionAttempts
    /\ authorizations[r.authId].status \in {"ISSUED", "EXECUTED"}
    /\ now <= authorizations[r.authId].graceUntil
ReportAccepted(r, now) ==
    /\ r.authId \in DOMAIN authorizations
    /\ r.chainRef = authorizations[r.authId].intent.requiredChainRef
    /\ <<r.chainRef, r.keyId>> \in ActiveRelayerKeys
    /\ r.reportId \notin DOMAIN executionAttempts
    /\ authorizations[r.authId].status \in {"ISSUED", "EXECUTED"}
    /\ now <= authorizations[r.authId].graceUntil

InsertAttempt(r) ==
    executionAttempts' = WithRow(executionAttempts, r.reportId,
        [authId |-> r.authId, txHash |-> r.txHash, status |-> r.status,
         keyId |-> r.keyId])

\* A FAILED report leaves only its attempt: the authorization stays open.
RecordFailure(r, now) ==
    /\ ReportAccepted(r, now)
    /\ r.status = "FAILED"
    /\ InsertAttempt(r)
    /\ UNCHANGED <<clock, agents, idempotencyKeys, authorizations, executions,
                   logVars, sweep>>

Executed(row, now) ==
    [row EXCEPT !.status = "EXECUTED", !.executedAt = now]

RecordSuccess(r, now) ==
    /\ ReportAccepted(r, now)
    /\ r.status = "SUCCESS"
    /\ r.authId \notin DOMAIN executions
    /\ authorizations[r.authId].status = "ISSUED"
    /\ InsertAttempt(r)
    /\ executions' = WithRow(executions, r.authId,
          [chainRef |-> r.chainRef, txHash |-> r.txHash, keyId |-> r.keyId])
    /\ authorizations' = [authorizations EXCEPT
                            ![r.authId] = Executed(authorizations[r.authId], now)]
    /\ UNCHANGED <<clock, agents, idempotencyKeys, logVars, sweep>>

\* The same transaction reported again under a new report id; another
\* transaction is CONFLICT_EXECUTION and rolls the attempt back.
RecordRepeat(r, now) ==
    /\ ReportAccepted(r, now)
    /\ r.status = "SUCCESS"
    /\ r.authId \in DOMAIN executions
    /\ executions[r.authId].txHash = r.txHash
    /\ InsertAttempt(r)
    /\ UNCHANGED <<clock, agents, idempotencyKeys, authorizations, executions,
                   logVars, sweep>>

\* reclaimAuthorization after its caller is accepted.
ReclaimableWhateverStatus(authId, now) ==
    /\ authId \in DOMAIN authorizations
    /\ now > authorizations[authId].intent.expiresAt
    /\ authorizations[authId].reclaimedAt = NULL
    /\ agents[authorizations[authId].intent.agentId].debitedOutstanding
          >= authorizations[authId].intent.amountMicros
Reclaimable(authId, now) ==
    /\ authId \in DOMAIN authorizations
    /\ authorizations[authId].status = "ISSUED"
    /\ now > authorizations[authId].intent.expiresAt
    /\ authorizations[authId].reclaimedAt = NULL
    /\ agents[authorizations[authId].intent.agentId].debitedOutstanding
          >= authorizations[authId].intent.amountMicros

WithRefundKeepingDebit(agent, amount) ==
    [agent EXCEPT !.balance = agent.balance + amount]
WithRefund(agent, amount) ==
    [agent EXCEPT !.balance = agent.balance + amount,
                  !.debitedOutstanding = agent.debitedOutstanding - amount]

Reclaimed(row, now) ==
    [row EXCEPT !.status = "RECLAIMED", !.reclaimedAt = now]

CreditBack(authId, now) ==
    LET i == authorizations[authId].intent
    IN  /\ agents' = [agents EXCEPT
              ![i.agentId] = WithRefund(agents[i.agentId], i.amountMicros)]
        /\ authorizations' = [authorizations EXCEPT
              ![authId] = Reclaimed(authorizations[authId], now)]

\* POST /v1/credit/reclaim with the admin token, or signed with an agent's key.
ReclaimBySequencer(authId, now) ==
    /\ Reclaimable(authId, now)
    /\ CreditBack(authId, now)
    /\ UNCHANGED <<clock, idempotencyKeys, reportVars, logVars, sweep>>

ReclaimByAgent(authId, signer, now) ==
    /\ Reclaimable(authId, now)
    /\ agents[authorizations[authId].intent.agentId].pubKey = signer
    /\ CreditBack(authId, now)
    /\ UNCHANGED <<clock, idempotencyKeys, reportVars, logVars, sweep>>

\* The database transaction of runCommitmentEpoch; CommitmentPosting posts its
\* row.
PendingBelowTip ==
    {n \in DOMAIN authLeaves :
        authLeaves[n].epochId = NoEpoch /\ n < counters.logSeqNo}
PendingLeaves == {n \in DOMAIN authLeaves : authLeaves[n].epochId = NoEpoch}

MerkleRoot(leaves) == [n \in leaves |-> authLeaves[n].leafHash]

WithEpoch(leaves, epochId) ==
    [n \in DOMAIN authLeaves |->
        IF n \in leaves THEN [authLeaves[n] EXCEPT !.epochId = epochId]
                        ELSE authLeaves[n]]

CommitAllLeaves(epochId) == authLeaves' = WithEpoch(DOMAIN authLeaves, epochId)
CommitLeaves(epochId) == authLeaves' = WithEpoch(PendingLeaves, epochId)

RunCommitmentEpoch ==
    LET epochId == counters.lastEpochId + 1
        root == MerkleRoot(PendingLeaves)
    IN  \E maxLogSeqNo \in PendingLeaves :
          /\ \A n \in PendingLeaves : n <= maxLogSeqNo
          /\ epochId \notin DOMAIN commitments
          /\ CommitLeaves(epochId)
          /\ commitments' = WithRow(commitments, epochId,
                [root |-> root, count |-> Cardinality(PendingLeaves),
                 prevRoot |-> counters.lastRoot])
          /\ counters' = [counters EXCEPT
                !.lastEpochId = epochId, !.lastRoot = root,
                !.logSeqNo = IF maxLogSeqNo > @ THEN maxLogSeqNo ELSE @]
          /\ UNCHANGED <<clock, agents, idempotencyKeys, authorizations,
                         reportVars, sweep>>

-----------------------------------------------------------------------------
(* The sweeper: a query, then one reclaim transaction for each row found.  *)

NotYetExpired == {id \in DOMAIN authorizations :
                    /\ authorizations[id].status = "ISSUED"
                    /\ authorizations[id].intent.expiresAt > clock}
Expired == {id \in DOMAIN authorizations :
              /\ authorizations[id].status = "ISSUED"
              /\ authorizations[id].intent.expiresAt < clock}

ExpiresFirst(id, ids) ==
    \A other \in ids : authorizations[id].intent.expiresAt
                          <= authorizations[other].intent.expiresAt

SweepSelect ==
    /\ sweep = {} /\ Expired # {}
    /\ \E batch \in SUBSET Expired :
          /\ \A id \in batch : ExpiresFirst(id, Expired \ batch)
          /\ \/ batch = Expired /\ Cardinality(batch) <= SweepLimit
             \/ Cardinality(batch) = SweepLimit
          /\ sweep' = batch
    /\ UNCHANGED <<clock, agents, idempotencyKeys, authorizations, reportVars,
                   logVars>>

SweepReclaim(authId, now) ==
    /\ authId \in sweep /\ ExpiresFirst(authId, sweep)
    /\ Reclaimable(authId, now)
    /\ CreditBack(authId, now)
    /\ sweep' = sweep \ {authId}
    /\ UNCHANGED <<clock, idempotencyKeys, reportVars, logVars>>

\* The reclaim failed: the error is logged and the sweep goes on.
SweepSkip(authId) ==
    /\ authId \in sweep /\ ExpiresFirst(authId, sweep)
    /\ ~Reclaimable(authId, clock)
    /\ sweep' = sweep \ {authId}
    /\ UNCHANGED <<clock, agents, idempotencyKeys, authorizations, reportVars,
                   logVars>>

Sweeper ==
    \/ SweepSelect
    \/ \E id \in sweep :
          \/ \E now \in Now : SweepReclaim(id, now)
          \/ SweepSkip(id)

Tick ==
    /\ clock < MaxClock
    /\ clock' = clock + 1
    /\ UNCHANGED <<agents, idempotencyKeys, authorizations, reportVars,
                   logVars, sweep>>

\* The reports a relayer may send about an authorization on record.
ReportsOn(authId) ==
    [authId: {authId}, chainRef: ChainRefs, keyId: RelayerKeyIds,
     reportId: ReportIds, txHash: TxHashes, status: {"SUCCESS", "FAILED"}]

RecordExecution(r, now) ==
    \/ RecordFailure(r, now)
    \/ RecordSuccess(r, now)
    \/ RecordRepeat(r, now)

Next ==
    \/ \E a \in Agents, amount \in CreditAmounts : AdminCredit(a, amount)
    \/ \E i \in Intents, now \in Now : AuthorizeIntent(i, now)
    \/ \E id \in DOMAIN authorizations, now \in Now :
          \/ \E r \in ReportsOn(id) : RecordExecution(r, now)
          \/ ReclaimBySequencer(id, now)
          \/ \E signer \in PubKeys : ReclaimByAgent(id, signer, now)
    \/ RunCommitmentEpoch
    \/ Sweeper
    \/ Tick

Spec == Init /\ [][Next]_vars

\* The clock runs, and the two setInterval timers of server.ts fire again and
\* again; nothing else is obliged to happen.
Fairness ==
    /\ WF_vars(Tick)
    /\ WF_vars(Sweeper)
    /\ WF_vars(RunCommitmentEpoch)

FairSpec == Spec /\ Fairness

-----------------------------------------------------------------------------
(* What the ledger promises *)

\* Every row is well formed (db/migrations/001_mvp_bootstrap.sql); balances,
\* outstanding debits and nonces stay natural numbers.
TypeOK ==
    /\ clock \in Nat
    /\ agents \in [Agents -> AgentRow]
    /\ DOMAIN idempotencyKeys \subseteq RequestIds
    /\ idempotencyKeys \in [DOMAIN idempotencyKeys -> IdempotencyRow]
    /\ DOMAIN authorizations \subseteq AuthIds
    /\ authorizations \in [DOMAIN authorizations -> AuthorizationRow]
    /\ DOMAIN executions \subseteq AuthIds
    /\ executions \in [DOMAIN executions -> ExecutionRow]
    /\ DOMAIN executionAttempts \subseteq ReportIds
    /\ executionAttempts \in [DOMAIN executionAttempts -> AttemptRow]
    /\ DOMAIN authLeaves \subseteq Nat
    /\ authLeaves \in [DOMAIN authLeaves -> LeafRow]
    /\ DOMAIN commitments \subseteq Nat
    /\ counters \in [logSeqNo: Nat, lastLeafHash: Seq(AuthIds),
                     lastEpochId: Nat, lastRoot: {counters.lastRoot}]
    /\ sweep \subseteq DOMAIN authorizations

\* Credit is neither made nor lost: over any sequence of authorizations,
\* executions and reclaims, what an agent can still spend and what is debited
\* add up to what it was credited (authorizeIntent, reclaimAuthorization).
CreditConserved ==
    \A a \in Agents :
        agents[a].balance + agents[a].debitedOutstanding = agents[a].credited

\* An authorization is settled at most once and its row says how: it is
\* EXECUTED exactly when an execution is on record (so recordExecution never
\* meets "already executed with missing execution record"), the execution was
\* reported by a key of the authorized chain in an attempt on record, within
\* the grace window, and a RECLAIMED one was reclaimed after it expired.
SettledOnce ==
    /\ \A id \in DOMAIN authorizations :
          LET row == authorizations[id]
          IN  /\ row.status = "EXECUTED" <=> id \in DOMAIN executions
              /\ row.status = "EXECUTED" <=> row.executedAt # NULL
              /\ row.status = "RECLAIMED" <=> row.reclaimedAt # NULL
              /\ row.executedAt # NULL => row.executedAt <= row.graceUntil
              /\ row.reclaimedAt # NULL => row.reclaimedAt > row.intent.expiresAt
    /\ \A id \in DOMAIN executions :
          LET execution == executions[id]
          IN  /\ id \in DOMAIN authorizations
              /\ execution.chainRef = authorizations[id].intent.requiredChainRef
              /\ <<execution.chainRef, execution.keyId>> \in ActiveRelayerKeys
              /\ \E p \in DOMAIN executionAttempts :
                    executionAttempts[p] = [authId |-> id, status |-> "SUCCESS",
                        txHash |-> execution.txHash, keyId |-> execution.keyId]

\* A request id buys one authorization: the idempotency table and the
\* authorizations refer to each other one to one, with the same intent, so
\* that a retried POST /v1/credit/authorize finds exactly what it was granted
\* ("idempotency record points to missing authorization" is never met).
IdempotencyExact ==
    /\ \A r \in DOMAIN idempotencyKeys :
          LET row == idempotencyKeys[r]
          IN  /\ row.intent.requestId = r
              /\ row.authId \in DOMAIN authorizations
              /\ authorizations[row.authId].intent = row.intent
    /\ \A id \in DOMAIN authorizations :
          /\ authorizations[id].intent.requestId \in DOMAIN idempotencyKeys
          /\ idempotencyKeys[authorizations[id].intent.requestId].authId = id

\* Strict nonce progression (docs/testing-playbook.md:39): an agent's
\* authorizations carry the nonces 0 .. next_agent_nonce - 1, each once, all
\* signed with the key the agent is bound to, and in the order of the log.
NoncesInOrder ==
    /\ \A id \in DOMAIN authorizations :
          LET i == authorizations[id].intent
          IN  /\ i.agentNonce < agents[i.agentId].nextNonce
              /\ i.agentPubKey = agents[i.agentId].pubKey
    /\ \A a \in Agents : \A n \in 0..(agents[a].nextNonce - 1) :
          \E id \in DOMAIN authorizations :
              /\ authorizations[id].intent.agentId = a
              /\ authorizations[id].intent.agentNonce = n
    /\ \A x, y \in DOMAIN authorizations :
          LET i == authorizations[x].intent
              j == authorizations[y].intent
          IN  i.agentId = j.agentId =>
                 /\ i.agentNonce = j.agentNonce => x = y
                 /\ i.agentNonce < j.agentNonce =>
                       authorizations[x].logSeqNo < authorizations[y].logSeqNo

\* The log has no gap and no fork: leaf n is the hash of leaf n - 1 and of the
\* authorization numbered n, the counters hold its end, and an agent's
\* authorizations stand in it in the order of their nonces.
LogHashChain ==
    /\ NoncesInOrder
    /\ DOMAIN authLeaves = 1..counters.logSeqNo
    /\ \A n \in DOMAIN authLeaves :
          LET leaf == authLeaves[n]
          IN  /\ leaf.authId \in DOMAIN authorizations
              /\ authorizations[leaf.authId].logSeqNo = n
              /\ leaf.leafHash = AuthorizationLeaf(leaf.prevLeafHash, leaf.authId)
              /\ leaf.prevLeafHash = IF n = 1 THEN ZeroHash
                                     ELSE authLeaves[n - 1].leafHash
    /\ counters.lastLeafHash = IF counters.logSeqNo = 0 THEN ZeroHash
                               ELSE authLeaves[counters.logSeqNo].leafHash
    /\ \A id \in DOMAIN authorizations :
          /\ authorizations[id].logSeqNo \in DOMAIN authLeaves
          /\ authLeaves[authorizations[id].logSeqNo].authId = id

\* Epochs cut the log into consecutive stretches: a leaf is committed only
\* after every leaf before it, no later epoch holds an earlier leaf, and the
\* epoch an authorization was promised (sequencerEpochHint, part of its
\* signed authId) is the one that commits it.
EpochsCutLog ==
    /\ DOMAIN commitments = 1..counters.lastEpochId
    /\ \A n \in DOMAIN authLeaves :
          LET hint == authorizations[authLeaves[n].authId].epochHint
          IN  IF authLeaves[n].epochId = NoEpoch
              THEN hint = counters.lastEpochId + 1
              ELSE /\ hint = authLeaves[n].epochId
                   /\ authLeaves[n].epochId \in DOMAIN commitments
    /\ \A m, n \in DOMAIN authLeaves :
          m < n /\ authLeaves[n].epochId # NoEpoch =>
             /\ authLeaves[m].epochId # NoEpoch
             /\ authLeaves[m].epochId <= authLeaves[n].epochId

LeavesOf(epoch) == {n \in DOMAIN authLeaves : authLeaves[n].epochId = epoch}

\* Every committed epoch can be proved: epochs cut the log; the root of one is
\* the Merkle root of the leaves the table now holds for it (so
\* buildInclusionProof never fails with "commitment root mismatch for epoch"),
\* its count is theirs, and prev_root links it to the epoch before.
CommitmentsProvable ==
    /\ EpochsCutLog
    /\ \A e \in DOMAIN commitments :
          /\ LeavesOf(e) # {}
          /\ commitments[e].root = MerkleRoot(LeavesOf(e))
          /\ commitments[e].count = Cardinality(LeavesOf(e))
          /\ commitments[e].prevRoot = IF e = 1 THEN ZeroHash
                                       ELSE commitments[e - 1].root
    /\ counters.lastRoot = IF counters.lastEpochId = 0 THEN ZeroHash
                           ELSE commitments[counters.lastEpochId].root

\* Settlement is final: whatever arrives late, out of order or twice, an
\* executed or reclaimed authorization never changes again and an execution on
\* record is never replaced or removed.
SettlementIsFinal ==
    [][/\ \A id \in DOMAIN authorizations :
             /\ id \in DOMAIN authorizations'
             /\ authorizations[id].status # "ISSUED" =>
                   authorizations'[id] = authorizations[id]
       /\ \A id \in DOMAIN executions :
             id \in DOMAIN executions' /\ executions'[id] = executions[id]
      ]_vars

\* The log is append-only: a leaf keeps its authorization and hashes, the
\* epoch that committed it is never reassigned, no commitment is rewritten,
\* and a new leaf enters at the end and uncommitted.
LogIsAppendOnly ==
    [][/\ \A n \in DOMAIN authLeaves :
             /\ n \in DOMAIN authLeaves'
             /\ authLeaves'[n].leafHash = authLeaves[n].leafHash
             /\ authLeaves[n].epochId # NoEpoch => authLeaves'[n] = authLeaves[n]
       /\ \A n \in DOMAIN authLeaves' \ DOMAIN authLeaves :
             authLeaves'[n].epochId = NoEpoch /\ n > counters.logSeqNo
       /\ \A e \in DOMAIN commitments :
             e \in DOMAIN commitments' /\ commitments'[e] = commitments[e]
      ]_vars

Unsettled(r) ==
    \E id \in DOMAIN authorizations :
        /\ authorizations[id].intent.requestId = r
        /\ authorizations[id].status = "ISSUED"

\* Nothing stays in limbo: every authorization issued is eventually executed
\* or, by the sweeper if nobody else, reclaimed (server.ts,
\* sweepExpiredAuthorizations), although a pass takes SweepLimit rows at most.
EveryAuthorizationSettles ==
    \A r \in RequestIds : Unsettled(r) ~> ~Unsettled(r)

Committed(n) == authLeaves[n].epochId \in DOMAIN commitments

\* Every authorization is eventually committed in an epoch, its leaf with it.
EveryLeafCommitted ==
    \A n \in 1..Cardinality(Intents) :
        n \in DOMAIN authLeaves ~> n \in DOMAIN authLeaves /\ Committed(n)
=============================================================================
