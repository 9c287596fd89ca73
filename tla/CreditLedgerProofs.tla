------------------------- MODULE CreditLedgerProofs -------------------------
(***************************************************************************)
(* Theorems about the credit ledger, for every set of agents, intents,     *)
(* keys and reports and every grace period and sweep limit: types,         *)
(* conservation of credit, settlement, what a request id buys, the log of  *)
(* authorizations and its commitments, and the escrow the ledger           *)
(* implements.                                                             *)
(***************************************************************************)
EXTENDS CreditLedgerRefinement, FiniteSums

-----------------------------------------------------------------------------
(* Rows and tables *)

\* WithCredit adds to what an agent may spend and to what it was credited.
LEMMA WithCreditRow ==
    ASSUME NEW agent \in AgentRow, NEW amount \in Nat
    PROVE  LET new == WithCredit(agent, amount)
           IN  /\ new \in AgentRow
               /\ new.balance = agent.balance + amount
               /\ new.credited = agent.credited + amount
               /\ new.debitedOutstanding = agent.debitedOutstanding
               /\ new.nextNonce = agent.nextNonce
               /\ new.pubKey = agent.pubKey
  <1>1. PICK b \in Nat : b = agent.balance + amount
    BY DEF AgentRow
  <1>2. PICK c \in Nat : c = agent.credited + amount
    BY DEF AgentRow
  <1>3. WithCredit(agent, amount) = [agent EXCEPT !.balance = b, !.credited = c]
    BY <1>1, <1>2 DEF WithCredit
  <1> QED
    BY <1>1, <1>2, <1>3 DEF AgentRow

\* WithRefund moves an amount from the outstanding debit back to the balance.
LEMMA WithRefundRow ==
    ASSUME NEW agent \in AgentRow, NEW amount \in Nat,
           agent.debitedOutstanding >= amount
    PROVE  LET new == WithRefund(agent, amount)
           IN  /\ new \in AgentRow
               /\ new.balance = agent.balance + amount
               /\ new.credited = agent.credited
               /\ new.debitedOutstanding = agent.debitedOutstanding - amount
               /\ new.nextNonce = agent.nextNonce
               /\ new.pubKey = agent.pubKey
  <1>1. PICK b \in Nat : b = agent.balance + amount
    BY DEF AgentRow
  <1>2. PICK d \in Nat : d = agent.debitedOutstanding - amount
    BY DEF AgentRow
  <1>3. WithRefund(agent, amount)
           = [agent EXCEPT !.balance = b, !.debitedOutstanding = d]
    BY <1>1, <1>2 DEF WithRefund
  <1> QED
    BY <1>1, <1>2, <1>3 DEF AgentRow

\* WithDebit moves an amount the balance covers to the outstanding debit, takes
\* the next nonce and binds the agent to a key.
LEMMA WithDebitRow ==
    ASSUME NEW agent \in AgentRow, NEW i \in Intent,
           agent.balance >= i.amountMicros
    PROVE  LET new == WithDebit(agent, i)
           IN  /\ new \in AgentRow
               /\ new.balance = agent.balance - i.amountMicros
               /\ new.credited = agent.credited
               /\ new.debitedOutstanding
                     = agent.debitedOutstanding + i.amountMicros
               /\ new.nextNonce = i.agentNonce + 1
               /\ new.pubKey = IF agent.pubKey = NULL THEN i.agentPubKey
                                                     ELSE agent.pubKey
  <1> DEFINE key == IF agent.pubKey = NULL THEN i.agentPubKey ELSE agent.pubKey
  <1>1. PICK b \in Nat : b = agent.balance - i.amountMicros
    BY DEF AgentRow, Intent
  <1>2. PICK d \in Nat : d = agent.debitedOutstanding + i.amountMicros
    BY DEF AgentRow, Intent
  <1>3. PICK n \in Nat : n = i.agentNonce + 1
    BY DEF Intent
  <1>4. PICK k \in PubKeys \cup {NULL} : k = key
    BY DEF AgentRow, Intent
  <1>5. WithDebit(agent, i) = [agent EXCEPT !.balance = b, !.nextNonce = n,
                                            !.debitedOutstanding = d,
                                            !.pubKey = k]
    BY <1>1, <1>2, <1>3, <1>4 DEF WithDebit
  <1> HIDE DEF key
  <1>6. /\ WithDebit(agent, i) \in AgentRow
        /\ WithDebit(agent, i).balance = b
        /\ WithDebit(agent, i).credited = agent.credited
        /\ WithDebit(agent, i).debitedOutstanding = d
        /\ WithDebit(agent, i).nextNonce = n
        /\ WithDebit(agent, i).pubKey = k
    BY <1>5 DEF AgentRow
  <1> QED
    BY <1>1, <1>2, <1>3, <1>4, <1>6 DEF key

\* Executed and Reclaimed settle a row and leave what was authorized alone.
LEMMA SettledRow ==
    ASSUME NEW row \in AuthorizationRow, NEW now \in Nat
    PROVE  /\ Executed(row, now) \in AuthorizationRow
           /\ Executed(row, now).intent = row.intent
           /\ Executed(row, now).epochHint = row.epochHint
           /\ Executed(row, now).logSeqNo = row.logSeqNo
           /\ Executed(row, now).graceUntil = row.graceUntil
           /\ Executed(row, now).status = "EXECUTED"
           /\ Executed(row, now).executedAt = now
           /\ Executed(row, now).reclaimedAt = row.reclaimedAt
           /\ Reclaimed(row, now) \in AuthorizationRow
           /\ Reclaimed(row, now).intent = row.intent
           /\ Reclaimed(row, now).epochHint = row.epochHint
           /\ Reclaimed(row, now).logSeqNo = row.logSeqNo
           /\ Reclaimed(row, now).graceUntil = row.graceUntil
           /\ Reclaimed(row, now).status = "RECLAIMED"
           /\ Reclaimed(row, now).executedAt = row.executedAt
           /\ Reclaimed(row, now).reclaimedAt = now
    BY DEF AuthorizationRow, Executed, Reclaimed, Statuses

LEMMA IntentFields ==
    ASSUME NEW i \in Intents
    PROVE  /\ i \in Intent
           /\ i.requestId \in RequestIds /\ i.agentId \in Agents
           /\ i.agentPubKey \in PubKeys /\ i.agentNonce \in Nat
           /\ i.amountMicros \in Nat /\ i.expiresAt \in Nat
           /\ i.requiredChainRef \in ChainRefs
    BY LedgerConstants DEF Intent

-----------------------------------------------------------------------------
(* Type correctness *)

LEMMA InitTypeOK == Init => TypeOK
  <1> SUFFICES ASSUME Init PROVE TypeOK
    OBVIOUS
  <1> USE DEF Init, ZeroHash
  <1>1. agents \in [Agents -> AgentRow]
    BY DEF AgentRow
  <1>2. counters \in [logSeqNo: Nat, lastLeafHash: Seq(AuthIds),
                      lastEpochId: Nat, lastRoot: {counters.lastRoot}]
    OBVIOUS
  <1>3. /\ DOMAIN << >> = {}
        /\ \A S : << >> \in [{} -> S]
    OBVIOUS
  <1> QED
    BY <1>1, <1>2, <1>3 DEF TypeOK

LEMMA CreditBackType ==
    ASSUME TypeOK, NEW id, NEW now \in Now, Reclaimable(id, now),
           CreditBack(id, now)
    PROVE  /\ agents' \in [Agents -> AgentRow]
           /\ DOMAIN authorizations' = DOMAIN authorizations
           /\ authorizations' \in [DOMAIN authorizations' -> AuthorizationRow]
  <1> DEFINE row == authorizations[id]
             i == row.intent
             a == i.agentId
  <1>1. row \in AuthorizationRow /\ now \in Nat
    BY DEF TypeOK, Reclaimable, Now
  <1>2. i \in Intents
    BY <1>1 DEF AuthorizationRow
  <1>3. a \in Agents /\ i.amountMicros \in Nat
    BY <1>2, IntentFields
  <1>4. agents[a] \in AgentRow /\ agents[a].debitedOutstanding >= i.amountMicros
    BY <1>3 DEF TypeOK, Reclaimable
  <1>5. WithRefund(agents[a], i.amountMicros) \in AgentRow
    BY <1>3, <1>4, WithRefundRow
  <1>6. agents' \in [Agents -> AgentRow]
    BY <1>3, <1>5 DEF CreditBack, TypeOK
  <1>7. Reclaimed(row, now) \in AuthorizationRow
    BY <1>1, SettledRow
  <1>8. /\ DOMAIN authorizations' = DOMAIN authorizations
        /\ authorizations' \in [DOMAIN authorizations' -> AuthorizationRow]
    BY <1>7 DEF CreditBack, TypeOK
  <1> QED
    BY <1>6, <1>8

LEMMA AuthorizeIntentType ==
    ASSUME TypeOK, NEW i \in Intents, NEW now \in Now, AuthorizeIntent(i, now)
    PROVE  TypeOK'
  <1> DEFINE seqNo == counters.logSeqNo + 1
             authId == DeriveAuthorizationId(i, EpochHint, seqNo)
             leafHash == AuthorizationLeaf(counters.lastLeafHash, authId)
             leaf == [authId |-> authId, prevLeafHash |-> counters.lastLeafHash,
                      leafHash |-> leafHash, epochId |-> NoEpoch]
  <1>1. i \in Intent /\ i.agentId \in Agents /\ i.requestId \in RequestIds
        /\ i.amountMicros \in Nat /\ i.expiresAt \in Nat
    BY IntentFields
  <1>2. /\ counters.logSeqNo \in Nat /\ counters.lastEpochId \in Nat
        /\ counters.lastLeafHash \in Seq(AuthIds)
    BY DEF TypeOK
  <1>3. seqNo \in Nat /\ EpochHint \in Nat /\ authId \in AuthIds
    BY <1>2 DEF DeriveAuthorizationId, AuthIds, EpochHint
  <1> HIDE DEF authId
  <1>4. leafHash \in Seq(AuthIds)
    BY <1>2, <1>3 DEF AuthorizationLeaf
  <1>5. leaf \in LeafRow
    BY <1>2, <1>3, <1>4 DEF LeafRow, NoEpoch
  <1>6. agents' \in [Agents -> AgentRow]
    <2>1. agents[i.agentId] \in AgentRow
          /\ agents[i.agentId].balance >= i.amountMicros
      BY <1>1 DEF TypeOK, AuthorizeIntent, Affordable
    <2>2. WithDebit(agents[i.agentId], i) \in AgentRow
      BY <1>1, <2>1, WithDebitRow
    <2> QED
      BY <1>1, <2>2 DEF AuthorizeIntent, DebitAgent, TypeOK
  <1>7. NewAuthorization(i, EpochHint, seqNo) \in AuthorizationRow
    BY <1>1, <1>3, LedgerConstants
    DEF NewAuthorization, AuthorizationRow, Statuses
  <1>8. authorizations' = WithRow(authorizations, authId,
                                  NewAuthorization(i, EpochHint, seqNo))
    BY DEF AuthorizeIntent, authId
  <1>9. /\ DOMAIN authorizations' = DOMAIN authorizations \cup {authId}
        /\ DOMAIN authorizations' \subseteq AuthIds
        /\ authorizations' \in [DOMAIN authorizations' -> AuthorizationRow]
    BY <1>3, <1>7, <1>8 DEF WithRow, TypeOK
  <1>10. /\ DOMAIN idempotencyKeys' \subseteq RequestIds
         /\ idempotencyKeys' \in [DOMAIN idempotencyKeys' -> IdempotencyRow]
    <2>1. idempotencyKeys' = WithRow(idempotencyKeys, i.requestId,
                                     [intent |-> i, authId |-> authId])
      BY DEF AuthorizeIntent, authId
    <2>2. [intent |-> i, authId |-> authId] \in IdempotencyRow
      BY <1>3 DEF IdempotencyRow
    <2> QED
      BY <1>1, <2>1, <2>2 DEF WithRow, TypeOK
  <1>11. authLeaves' = WithRow(authLeaves, seqNo, leaf)
    BY DEF AuthorizeIntent, AppendLeaf, authId
  <1>12. /\ DOMAIN authLeaves' \subseteq Nat
         /\ authLeaves' \in [DOMAIN authLeaves' -> LeafRow]
    BY <1>3, <1>5, <1>11 DEF WithRow, TypeOK
  <1>13. counters' = [counters EXCEPT !.logSeqNo = seqNo,
                                      !.lastLeafHash = leafHash]
    BY DEF AuthorizeIntent, AppendLeaf, authId
  <1> HIDE DEF seqNo, leafHash
  <1>14. counters' \in [logSeqNo: Nat, lastLeafHash: Seq(AuthIds),
                        lastEpochId: Nat, lastRoot: {counters'.lastRoot}]
    BY <1>3, <1>4, <1>13 DEF TypeOK
  <1> QED
    BY <1>6, <1>9, <1>10, <1>12, <1>14 DEF TypeOK, AuthorizeIntent, reportVars

LEMMA RecordExecutionType ==
    ASSUME TypeOK, NEW id \in DOMAIN authorizations, NEW r \in ReportsOn(id),
           NEW now \in Now, RecordExecution(r, now)
    PROVE  TypeOK'
  <1>1. /\ r.authId = id /\ id \in AuthIds
        /\ r.chainRef \in ChainRefs /\ r.keyId \in RelayerKeyIds
        /\ r.reportId \in ReportIds /\ r.txHash \in TxHashes
        /\ r.status \in {"SUCCESS", "FAILED"}
    BY DEF ReportsOn, TypeOK
  <1>2. /\ InsertAttempt(r)
        /\ UNCHANGED <<clock, agents, idempotencyKeys, logVars, sweep>>
    BY DEF RecordExecution, RecordFailure, RecordSuccess, RecordRepeat, logVars
  <1>3. /\ DOMAIN executionAttempts' \subseteq ReportIds
        /\ executionAttempts' \in [DOMAIN executionAttempts' -> AttemptRow]
    <2>1. [authId |-> r.authId, txHash |-> r.txHash, status |-> r.status,
           keyId |-> r.keyId] \in AttemptRow
      BY <1>1 DEF AttemptRow
    <2> QED
      BY <1>1, <1>2, <2>1 DEF InsertAttempt, WithRow, TypeOK
  <1>4. CASE RecordSuccess(r, now)
    <2>1. authorizations[id] \in AuthorizationRow /\ now \in Nat
      BY DEF TypeOK, Now
    <2>2. Executed(authorizations[id], now) \in AuthorizationRow
      BY <2>1, SettledRow
    <2>3. /\ DOMAIN authorizations' = DOMAIN authorizations
          /\ authorizations' \in [DOMAIN authorizations' -> AuthorizationRow]
      BY <1>1, <1>4, <2>2 DEF RecordSuccess, TypeOK
    <2>4. [chainRef |-> r.chainRef, txHash |-> r.txHash, keyId |-> r.keyId]
             \in ExecutionRow
      BY <1>1 DEF ExecutionRow
    <2>5. /\ DOMAIN executions' \subseteq AuthIds
          /\ executions' \in [DOMAIN executions' -> ExecutionRow]
      BY <1>1, <1>4, <2>4 DEF RecordSuccess, WithRow, TypeOK
    <2> QED
      BY <1>2, <1>3, <2>3, <2>5 DEF TypeOK, logVars
  <1>5. CASE RecordFailure(r, now) \/ RecordRepeat(r, now)
    BY <1>2, <1>3, <1>5 DEF TypeOK, logVars, RecordFailure, RecordRepeat
  <1> QED
    BY <1>4, <1>5 DEF RecordExecution

LEMMA CommitmentType == ASSUME TypeOK, RunCommitmentEpoch PROVE TypeOK'
  <1> DEFINE epochId == counters.lastEpochId + 1
             root == MerkleRoot(PendingLeaves)
             row == [root |-> root, count |-> Cardinality(PendingLeaves),
                     prevRoot |-> counters.lastRoot]
  <1>1. PICK maxLogSeqNo \in PendingLeaves :
           /\ authLeaves' = WithEpoch(PendingLeaves, epochId)
           /\ commitments' = WithRow(commitments, epochId, row)
           /\ counters' = [counters EXCEPT
                 !.lastEpochId = epochId, !.lastRoot = root,
                 !.logSeqNo = IF maxLogSeqNo > counters.logSeqNo
                              THEN maxLogSeqNo ELSE counters.logSeqNo]
           /\ UNCHANGED <<clock, agents, idempotencyKeys, authorizations,
                          reportVars, sweep>>
    BY DEF RunCommitmentEpoch, CommitLeaves, TypeOK
  <1>2. maxLogSeqNo \in Nat /\ counters.logSeqNo \in Nat /\ epochId \in Nat
    BY DEF PendingLeaves, TypeOK
  <1> HIDE DEF epochId, root, row
  <1>3. /\ DOMAIN authLeaves' \subseteq Nat
        /\ authLeaves' \in [DOMAIN authLeaves' -> LeafRow]
    <2>1. \A n \in DOMAIN authLeaves :
             [authLeaves[n] EXCEPT !.epochId = epochId] \in LeafRow
      BY <1>2 DEF TypeOK, LeafRow
    <2> QED
      BY <1>1, <2>1 DEF WithEpoch, TypeOK
  <1>4. DOMAIN commitments' \subseteq Nat
    BY <1>1, <1>2 DEF WithRow, TypeOK
  <1>5. counters' \in [logSeqNo: Nat, lastLeafHash: Seq(AuthIds),
                       lastEpochId: Nat, lastRoot: {counters'.lastRoot}]
    <2>1. PICK top \in Nat : top = IF maxLogSeqNo > counters.logSeqNo
                                   THEN maxLogSeqNo ELSE counters.logSeqNo
      BY <1>2
    <2>2. counters' = [counters EXCEPT !.lastEpochId = epochId,
                                       !.lastRoot = root, !.logSeqNo = top]
      BY <1>1, <2>1
    <2> QED
      BY <1>2, <2>1, <2>2 DEF TypeOK
  <1> QED
    BY <1>1, <1>3, <1>4, <1>5 DEF TypeOK, reportVars

-----------------------------------------------------------------------------
(* The steps, by the tables they touch *)

Credit == \E a \in Agents, amount \in CreditAmounts : AdminCredit(a, amount)
Authorize == \E i \in Intents, now \in Now : AuthorizeIntent(i, now)
ReportStep ==
    \E id \in DOMAIN authorizations : \E r \in ReportsOn(id), now \in Now :
        RecordExecution(r, now)
ReclaimStep ==
    \E id \in DOMAIN authorizations, now \in Now :
        /\ Reclaimable(id, now)
        /\ CreditBack(id, now)
        /\ sweep' \subseteq sweep
        /\ UNCHANGED <<clock, idempotencyKeys, reportVars, logVars>>
Quiet ==
    /\ clock' \in {clock, clock + 1}
    /\ sweep' \subseteq sweep \cup DOMAIN authorizations
    /\ UNCHANGED <<agents, idempotencyKeys, authorizations, reportVars, logVars>>

\* Every step credits an agent, authorizes, takes a report, reclaims, commits
\* an epoch, or leaves the tables alone.
LEMMA StepCases ==
    ASSUME [Next]_vars
    PROVE  Credit \/ Authorize \/ ReportStep \/ ReclaimStep
           \/ RunCommitmentEpoch \/ Quiet
  <1>1. ASSUME NEW id \in DOMAIN authorizations, NEW now \in Now,
               \E r \in ReportsOn(id) : RecordExecution(r, now)
        PROVE  ReportStep
    BY <1>1 DEF ReportStep
  <1>2. ASSUME NEW id \in DOMAIN authorizations, NEW now \in Now,
               \/ ReclaimBySequencer(id, now)
               \/ \E signer \in PubKeys : ReclaimByAgent(id, signer, now)
        PROVE  ReclaimStep
    BY <1>2 DEF ReclaimStep, ReclaimBySequencer, ReclaimByAgent
  <1>3. CASE Sweeper
    <2>1. CASE SweepSelect
      BY <2>1 DEF SweepSelect, Expired, Quiet
    <2>2. ASSUME NEW id \in sweep, NEW now \in Now, SweepReclaim(id, now)
          PROVE  ReclaimStep
      BY <2>2 DEF SweepReclaim, ReclaimStep, Reclaimable
    <2>3. ASSUME NEW id \in sweep, SweepSkip(id)
          PROVE  Quiet
      BY <2>3 DEF SweepSkip, Quiet
    <2> QED
      BY <1>3, <2>1, <2>2, <2>3 DEF Sweeper
  <1> QED
    BY <1>1, <1>2, <1>3
    DEF Next, Tick, Quiet, vars, Credit, Authorize, reportVars, logVars

LEMMA StepTypeOK == TypeOK /\ [Next]_vars => TypeOK'
  <1> SUFFICES ASSUME TypeOK, [Next]_vars PROVE TypeOK'
    OBVIOUS
  <1>1. CASE Credit
    <2>1. PICK a \in Agents, amount \in CreditAmounts : AdminCredit(a, amount)
      BY <1>1 DEF Credit
    <2>2. amount \in Nat /\ agents[a] \in AgentRow
      BY LedgerConstants DEF TypeOK
    <2>3. WithCredit(agents[a], amount) \in AgentRow
      BY <2>2, WithCreditRow
    <2> QED
      BY <2>1, <2>3 DEF AdminCredit, TypeOK, reportVars, logVars
  <1>2. CASE Authorize
    BY <1>2, AuthorizeIntentType DEF Authorize
  <1>3. CASE ReportStep
    BY <1>3, RecordExecutionType DEF ReportStep
  <1>4. CASE ReclaimStep
    <2>1. PICK id \in DOMAIN authorizations, now \in Now :
             /\ Reclaimable(id, now)
             /\ CreditBack(id, now)
             /\ sweep' \subseteq sweep
             /\ UNCHANGED <<clock, idempotencyKeys, reportVars, logVars>>
      BY <1>4 DEF ReclaimStep
    <2> QED
      BY <2>1, CreditBackType DEF TypeOK, reportVars, logVars
  <1>5. CASE RunCommitmentEpoch
    BY <1>5, CommitmentType
  <1>6. CASE Quiet
    BY <1>6 DEF Quiet, TypeOK, reportVars, logVars
  <1> QED
    BY <1>1, <1>2, <1>3, <1>4, <1>5, <1>6, StepCases

\* Whatever requests, reports and reclaims arrive, in any order, every table
\* keeps its type: in particular no balance, outstanding debit or nonce ever
\* becomes negative (docs/testing-playbook.md:40).
THEOREM TypeCorrect == Spec => []TypeOK
  <1> QED
    BY InitTypeOK, StepTypeOK, PTL DEF Spec

-----------------------------------------------------------------------------
(* Conservation of credit *)

LEMMA StepCreditConserved ==
    TypeOK /\ CreditConserved /\ [Next]_vars => CreditConserved'
  <1> SUFFICES ASSUME TypeOK, CreditConserved, [Next]_vars
               PROVE  CreditConserved'
    OBVIOUS
  <1>0. \A a \in Agents : agents[a] \in AgentRow
    BY DEF TypeOK
  <1>1. CASE Credit
    <2>1. PICK a \in Agents, amount \in CreditAmounts : AdminCredit(a, amount)
      BY <1>1 DEF Credit
    <2> DEFINE new == WithCredit(agents[a], amount)
    <2>2. new.balance + new.debitedOutstanding = new.credited
      BY <1>0, WithCreditRow, LedgerConstants DEF CreditConserved, AgentRow
    <2>3. agents' = [agents EXCEPT ![a] = new]
      BY <2>1 DEF AdminCredit
    <2> HIDE DEF new
    <2> QED
      BY <2>2, <2>3 DEF CreditConserved, TypeOK
  <1>2. CASE Authorize
    <2>1. PICK i \in Intents, now \in Now : AuthorizeIntent(i, now)
      BY <1>2 DEF Authorize
    <2>2. i \in Intent /\ i.agentId \in Agents /\ i.amountMicros \in Nat
      BY IntentFields
    <2>3. agents[i.agentId].balance >= i.amountMicros
      BY <2>1 DEF AuthorizeIntent, Affordable
    <2> DEFINE new == WithDebit(agents[i.agentId], i)
    <2>4. new.balance + new.debitedOutstanding = new.credited
      BY <1>0, <2>2, <2>3, WithDebitRow DEF CreditConserved, AgentRow
    <2>5. agents' = [agents EXCEPT ![i.agentId] = new]
      BY <2>1 DEF AuthorizeIntent, DebitAgent
    <2> HIDE DEF new
    <2> QED
      BY <2>2, <2>4, <2>5 DEF CreditConserved, TypeOK
  <1>3. CASE ReclaimStep
    <2>1. PICK id \in DOMAIN authorizations, now \in Now :
             Reclaimable(id, now) /\ CreditBack(id, now)
      BY <1>3 DEF ReclaimStep
    <2> DEFINE i == authorizations[id].intent
    <2>2. i \in Intents
      BY DEF TypeOK, AuthorizationRow
    <2>3. i.agentId \in Agents /\ i.amountMicros \in Nat
      BY <2>2, IntentFields
    <2>4. agents[i.agentId].debitedOutstanding >= i.amountMicros
      BY <2>1 DEF Reclaimable
    <2> DEFINE new == WithRefund(agents[i.agentId], i.amountMicros)
    <2>5. new.balance + new.debitedOutstanding = new.credited
      <3>1. PICK agent \in AgentRow : agent = agents[i.agentId]
        BY <1>0, <2>3
      <3>2. agent.balance + agent.debitedOutstanding = agent.credited
        BY <2>3, <3>1 DEF CreditConserved
      <3>3. PICK amount \in Nat : amount = i.amountMicros
        BY <2>3
      <3>4. agent.debitedOutstanding >= amount
        BY <2>4, <3>1, <3>3
      <3> HIDE DEF i
      <3>5. /\ new.balance = agent.balance + amount
            /\ new.credited = agent.credited
            /\ new.debitedOutstanding = agent.debitedOutstanding - amount
        BY <3>1, <3>3, <3>4, WithRefundRow
      <3> QED
        BY <3>2, <3>5 DEF AgentRow
    <2>6. agents' = [agents EXCEPT ![i.agentId] = new]
      BY <2>1 DEF CreditBack
    <2> HIDE DEF new, i
    <2> QED
      BY <2>3, <2>5, <2>6 DEF CreditConserved, TypeOK
  <1>4. CASE ReportStep \/ RunCommitmentEpoch \/ Quiet
    BY <1>4
    DEF ReportStep, RecordExecution, RecordFailure, RecordSuccess, RecordRepeat,
        RunCommitmentEpoch, Quiet, CreditConserved
  <1> QED
    BY <1>1, <1>2, <1>3, <1>4, StepCases

\* balance_micros + debited_outstanding_micros = credited_micros for every
\* agent, over every sequence of credits, authorizations, executions, reclaims
\* and sweeps: the ledger neither makes credit nor loses it.
THEOREM CreditIsConserved == Spec => []CreditConserved
  <1>1. Init => CreditConserved
    BY DEF Init, CreditConserved
  <1> QED
    BY <1>1, StepCreditConserved, TypeCorrect, PTL DEF Spec

-----------------------------------------------------------------------------
(* The table of authorizations *)

\* What a step may do to the table of authorizations: add an issued one under a
\* new id, or settle one that is issued, leaving its intent alone.
Issues(id) ==
    /\ id \notin DOMAIN authorizations
    /\ DOMAIN authorizations' = DOMAIN authorizations \cup {id}
    /\ authorizations'[id].status = "ISSUED"
    /\ authorizations'[id].executedAt = NULL
    /\ authorizations'[id].reclaimedAt = NULL
    /\ authorizations'[id].intent = id[1]
    /\ \A k \in DOMAIN authorizations : authorizations'[k] = authorizations[k]

Replaces(id, row) ==
    /\ id \in DOMAIN authorizations
    /\ authorizations[id].status = "ISSUED"
    /\ DOMAIN authorizations' = DOMAIN authorizations
    /\ authorizations'[id] = row
    /\ \A k \in DOMAIN authorizations \ {id} : authorizations'[k] = authorizations[k]

LEMMA AuthorizeIssues ==
    ASSUME TypeOK, NEW i \in Intents, NEW now \in Now, AuthorizeIntent(i, now)
    PROVE  \E id \in AuthIds :
              /\ Issues(id) /\ id[1] = i
              /\ RequestIsNew(i)
              /\ idempotencyKeys' = WithRow(idempotencyKeys, i.requestId,
                                            [intent |-> i, authId |-> id])
              /\ UNCHANGED <<executions, executionAttempts>>
  <1> DEFINE seqNo == counters.logSeqNo + 1
             id == DeriveAuthorizationId(i, EpochHint, seqNo)
             row == NewAuthorization(i, EpochHint, seqNo)
  <1>1. id \in AuthIds /\ id[1] = i
    BY DEF TypeOK, DeriveAuthorizationId, AuthIds, EpochHint
  <1>2. /\ authorizations' = WithRow(authorizations, id, row)
        /\ id \notin DOMAIN authorizations
        /\ RequestIsNew(i)
        /\ idempotencyKeys' = WithRow(idempotencyKeys, i.requestId,
                                      [intent |-> i, authId |-> id])
        /\ UNCHANGED <<executions, executionAttempts>>
    BY DEF AuthorizeIntent, UniqueAuthorization, reportVars
  <1>3. /\ row.status = "ISSUED" /\ row.executedAt = NULL
        /\ row.reclaimedAt = NULL /\ row.intent = i
    BY DEF NewAuthorization
  <1> HIDE DEF id, row
  <1>4. Issues(id)
    BY <1>1, <1>2, <1>3 DEF Issues, WithRow
  <1> QED
    BY <1>1, <1>2, <1>4

LEMMA ReclaimReplaces ==
    ASSUME TypeOK, NEW id \in DOMAIN authorizations, NEW now \in Now,
           Reclaimable(id, now), CreditBack(id, now)
    PROVE  /\ Replaces(id, Reclaimed(authorizations[id], now))
           /\ now \in Nat /\ now > authorizations[id].intent.expiresAt
    BY DEF Replaces, Reclaimable, CreditBack, TypeOK, Now

\* A success that is recorded is the first, and executes its authorization.
LEMMA SuccessReplaces ==
    ASSUME TypeOK, NEW id \in DOMAIN authorizations, NEW r \in ReportsOn(id),
           NEW now \in Now, RecordSuccess(r, now)
    PROVE  /\ Replaces(id, Executed(authorizations[id], now))
           /\ now \in Nat /\ now <= authorizations[id].graceUntil
           /\ id \notin DOMAIN executions
           /\ executions' = WithRow(executions, id,
                 [chainRef |-> r.chainRef, txHash |-> r.txHash, keyId |-> r.keyId])
           /\ UNCHANGED idempotencyKeys
  <1>1. r.authId = id
    BY DEF ReportsOn
  <1> QED
    BY <1>1 DEF Replaces, RecordSuccess, ReportAccepted, TypeOK, Now

\* An attempt enters under a new report id.
LEMMA ReportAddsAttempt ==
    ASSUME NEW r, NEW now, RecordExecution(r, now)
    PROVE  /\ ReportAccepted(r, now)
           /\ r.reportId \notin DOMAIN executionAttempts
           /\ executionAttempts' = WithRow(executionAttempts, r.reportId,
                 [authId |-> r.authId, txHash |-> r.txHash, status |-> r.status,
                  keyId |-> r.keyId])
    BY DEF RecordExecution, RecordFailure, RecordSuccess, RecordRepeat,
           ReportAccepted, InsertAttempt

-----------------------------------------------------------------------------
(* Settlement *)

\* The halves of SettledOnce, for one authorization and one execution.
StatusTied(id) ==
    LET row == authorizations[id]
    IN  /\ row.status = "EXECUTED" <=> id \in DOMAIN executions
        /\ row.status = "EXECUTED" <=> row.executedAt # NULL
        /\ row.status = "RECLAIMED" <=> row.reclaimedAt # NULL
        /\ row.executedAt # NULL => row.executedAt <= row.graceUntil
        /\ row.reclaimedAt # NULL => row.reclaimedAt > row.intent.expiresAt

ExecutionTied(id) ==
    LET execution == executions[id]
    IN  /\ id \in DOMAIN authorizations
        /\ execution.chainRef = authorizations[id].intent.requiredChainRef
        /\ <<execution.chainRef, execution.keyId>> \in ActiveRelayerKeys
        /\ \E p \in DOMAIN executionAttempts :
              executionAttempts[p] = [authId |-> id, status |-> "SUCCESS",
                  txHash |-> execution.txHash, keyId |-> execution.keyId]

LEMMA SettledOnceParts ==
    /\ SettledOnce <=> /\ \A id \in DOMAIN authorizations : StatusTied(id)
                       /\ \A id \in DOMAIN executions : ExecutionTied(id)
    /\ SettledOnce' <=> /\ \A id \in DOMAIN authorizations' : StatusTied(id)'
                        /\ \A id \in DOMAIN executions' : ExecutionTied(id)'
    BY DEF SettledOnce, StatusTied, ExecutionTied

LEMMA AuthorizeKeepsSettledOnce ==
    ASSUME TypeOK, SettledOnce, NEW id, Issues(id),
           UNCHANGED <<executions, executionAttempts>>
    PROVE  SettledOnce'
  <1>1. id \notin DOMAIN executions
    BY SettledOnceParts DEF ExecutionTied, Issues
  <1>2. StatusTied(id)'
    BY <1>1 DEF StatusTied, Issues
  <1>3. ASSUME NEW k \in DOMAIN authorizations PROVE StatusTied(k)'
    BY <1>3, SettledOnceParts DEF StatusTied, Issues
  <1>4. ASSUME NEW k \in DOMAIN executions PROVE ExecutionTied(k)'
    BY <1>4, SettledOnceParts DEF ExecutionTied, Issues
  <1> QED
    BY <1>2, <1>3, <1>4, SettledOnceParts DEF Issues

LEMMA ReclaimKeepsSettledOnce ==
    ASSUME TypeOK, SettledOnce, NEW id \in DOMAIN authorizations, NEW now \in Nat,
           Replaces(id, Reclaimed(authorizations[id], now)),
           now > authorizations[id].intent.expiresAt,
           UNCHANGED <<executions, executionAttempts>>
    PROVE  SettledOnce'
  <1>1. authorizations[id] \in AuthorizationRow
    BY DEF TypeOK
  <1> DEFINE row == Reclaimed(authorizations[id], now)
  <1>2. /\ row.intent = authorizations[id].intent /\ row.status = "RECLAIMED"
        /\ row.executedAt = authorizations[id].executedAt
        /\ row.reclaimedAt = now
    BY <1>1, SettledRow
  <1>3. StatusTied(id) /\ authorizations[id].status = "ISSUED"
    BY SettledOnceParts DEF Replaces
  <1>4. authorizations'[id] = row
    BY DEF Replaces
  <1> HIDE DEF row
  <1>5. StatusTied(id)'
    BY <1>2, <1>3, <1>4, LedgerConstants DEF StatusTied
  <1>6. ASSUME NEW k \in DOMAIN authorizations \ {id} PROVE StatusTied(k)'
    BY <1>6, SettledOnceParts DEF StatusTied, Replaces
  <1>7. ASSUME NEW k \in DOMAIN executions PROVE ExecutionTied(k)'
    BY <1>2, <1>4, <1>7, SettledOnceParts DEF ExecutionTied, Replaces
  <1> QED
    BY <1>5, <1>6, <1>7, SettledOnceParts DEF Replaces

LEMMA ReportKeepsSettledOnce ==
    ASSUME TypeOK, SettledOnce, NEW id \in DOMAIN authorizations,
           NEW r \in ReportsOn(id), NEW now \in Now, RecordExecution(r, now)
    PROVE  SettledOnce'
  <1> DEFINE attempt == [authId |-> r.authId, txHash |-> r.txHash,
                         status |-> r.status, keyId |-> r.keyId]
             execution == [chainRef |-> r.chainRef, txHash |-> r.txHash,
                           keyId |-> r.keyId]
  <1>1. /\ ReportAccepted(r, now) /\ r.authId = id
        /\ executionAttempts' = WithRow(executionAttempts, r.reportId, attempt)
        /\ r.reportId \notin DOMAIN executionAttempts
    BY ReportAddsAttempt DEF ReportsOn
  <1>2. /\ DOMAIN executionAttempts' = DOMAIN executionAttempts \cup {r.reportId}
        /\ executionAttempts'[r.reportId] = attempt
        /\ \A p \in DOMAIN executionAttempts :
              executionAttempts'[p] = executionAttempts[p]
    BY <1>1 DEF WithRow
  <1>3. CASE UNCHANGED <<authorizations, executions>>
    <2>1. ASSUME NEW k \in DOMAIN authorizations PROVE StatusTied(k)'
      BY <1>3, <2>1, SettledOnceParts DEF StatusTied
    <2>2. ASSUME NEW k \in DOMAIN executions PROVE ExecutionTied(k)'
      BY <1>2, <1>3, <2>2, SettledOnceParts DEF ExecutionTied
    <2> QED
      BY <1>3, <2>1, <2>2, SettledOnceParts
  <1>4. CASE RecordSuccess(r, now)
    <2>1. /\ Replaces(id, Executed(authorizations[id], now))
          /\ now \in Nat /\ now <= authorizations[id].graceUntil
          /\ id \notin DOMAIN executions
          /\ executions' = WithRow(executions, id, execution)
      BY <1>4, SuccessReplaces
    <2>2. authorizations[id] \in AuthorizationRow
      BY DEF TypeOK
    <2> DEFINE row == Executed(authorizations[id], now)
    <2>3. /\ row.intent = authorizations[id].intent /\ row.status = "EXECUTED"
          /\ row.graceUntil = authorizations[id].graceUntil
          /\ row.reclaimedAt = authorizations[id].reclaimedAt
          /\ row.executedAt = now
      BY <2>1, <2>2, SettledRow
    <2>4. /\ authorizations'[id] = row
          /\ \A k \in DOMAIN authorizations \ {id} :
                authorizations'[k] = authorizations[k]
          /\ DOMAIN authorizations' = DOMAIN authorizations
          /\ authorizations[id].status = "ISSUED"
      BY <2>1 DEF Replaces
    <2> HIDE DEF row
    <2>5. /\ DOMAIN executions' = DOMAIN executions \cup {id}
          /\ executions'[id] = execution
          /\ \A k \in DOMAIN executions : executions'[k] = executions[k]
      BY <2>1 DEF WithRow
    <2>6. StatusTied(id)'
      BY <2>1, <2>3, <2>4, <2>5, SettledOnceParts, LedgerConstants DEF StatusTied
    <2>7. ASSUME NEW k \in DOMAIN authorizations \ {id} PROVE StatusTied(k)'
      BY <2>4, <2>5, <2>7, SettledOnceParts DEF StatusTied
    <2>8. ExecutionTied(id)'
      <3>1. executionAttempts'[r.reportId]
               = [authId |-> id, status |-> "SUCCESS", txHash |-> execution.txHash,
                  keyId |-> execution.keyId]
        BY <1>1, <1>2, <1>4 DEF RecordSuccess
      <3>2. /\ execution.chainRef = authorizations[id].intent.requiredChainRef
            /\ <<execution.chainRef, execution.keyId>> \in ActiveRelayerKeys
        BY <1>1 DEF ReportAccepted
      <3> HIDE DEF execution
      <3> QED
        BY <1>2, <2>3, <2>4, <2>5, <3>1, <3>2 DEF ExecutionTied
    <2>9. ASSUME NEW k \in DOMAIN executions PROVE ExecutionTied(k)'
      <3>1. ExecutionTied(k) /\ k # id
        BY <2>1, <2>9, SettledOnceParts
      <3> QED
        BY <1>2, <2>4, <2>5, <3>1 DEF ExecutionTied
    <2> QED
      BY <2>4, <2>5, <2>6, <2>7, <2>8, <2>9, SettledOnceParts
  <1> QED
    BY <1>3, <1>4 DEF RecordExecution, RecordFailure, RecordRepeat

LEMMA StepSettledOnce == TypeOK /\ SettledOnce /\ [Next]_vars => SettledOnce'
  <1> SUFFICES ASSUME TypeOK, SettledOnce, [Next]_vars PROVE SettledOnce'
    OBVIOUS
  <1>1. CASE Authorize
    BY <1>1, AuthorizeIssues, AuthorizeKeepsSettledOnce DEF Authorize
  <1>2. CASE ReportStep
    BY <1>2, ReportKeepsSettledOnce DEF ReportStep
  <1>3. CASE ReclaimStep
    BY <1>3, ReclaimReplaces, ReclaimKeepsSettledOnce DEF ReclaimStep, reportVars
  <1>4. CASE Credit \/ RunCommitmentEpoch \/ Quiet
    BY <1>4, ZenonT(40) DEF Credit, AdminCredit, RunCommitmentEpoch, Quiet, reportVars, SettledOnce
  <1> QED
    BY <1>1, <1>2, <1>3, <1>4, StepCases

\* An authorization is EXECUTED exactly when an execution is on record, which a
\* relayer of the authorized chain reported in time, or RECLAIMED after it
\* expired, and never both: recordExecution and reclaimAuthorization decide on
\* the row they lock, however late their clocks were read.
THEOREM SettlesOnce == Spec => []SettledOnce
  <1>1. Init => SettledOnce
    BY DEF Init, SettledOnce
  <1> QED
    BY <1>1, StepSettledOnce, TypeCorrect, PTL DEF Spec

-----------------------------------------------------------------------------
(* Finality *)

FinalStep ==
    /\ \A id \in DOMAIN authorizations :
          /\ id \in DOMAIN authorizations'
          /\ authorizations[id].status # "ISSUED" =>
                authorizations'[id] = authorizations[id]
    /\ \A id \in DOMAIN executions :
          id \in DOMAIN executions' /\ executions'[id] = executions[id]

LEMMA StepIsFinal == TypeOK /\ [Next]_vars => FinalStep
  <1> SUFFICES ASSUME TypeOK, [Next]_vars PROVE FinalStep
    OBVIOUS
  <1>1. CASE Authorize
    BY <1>1, AuthorizeIssues DEF Authorize, FinalStep, Issues
  <1>2. CASE ReportStep
    <2>1. PICK id \in DOMAIN authorizations : \E r \in ReportsOn(id), now \in Now :
             RecordExecution(r, now)
      BY <1>2 DEF ReportStep
    <2>2. PICK r \in ReportsOn(id), now \in Now : RecordExecution(r, now)
      BY <2>1
    <2>3. CASE RecordSuccess(r, now)
      <3>1. /\ Replaces(id, Executed(authorizations[id], now))
            /\ id \notin DOMAIN executions
            /\ executions' = WithRow(executions, id,
                  [chainRef |-> r.chainRef, txHash |-> r.txHash, keyId |-> r.keyId])
        BY <2>3, SuccessReplaces
      <3> QED
        BY <3>1 DEF FinalStep, Replaces, WithRow
    <2>4. CASE RecordFailure(r, now) \/ RecordRepeat(r, now)
      BY <2>4 DEF RecordFailure, RecordRepeat, FinalStep
    <2> QED
      BY <2>2, <2>3, <2>4 DEF RecordExecution
  <1>3. CASE ReclaimStep
    BY <1>3, ReclaimReplaces DEF ReclaimStep, Replaces, FinalStep, reportVars
  <1>4. CASE Credit \/ RunCommitmentEpoch \/ Quiet
    BY <1>4 DEF Credit, AdminCredit, RunCommitmentEpoch, Quiet, reportVars, FinalStep
  <1> QED
    BY <1>1, <1>2, <1>3, <1>4, StepCases

\* Whatever arrives late, twice or in another order, a settled authorization
\* and an execution on record never change again.
THEOREM SettlementsAreFinal == Spec => SettlementIsFinal
  <1>1. TypeOK /\ [Next]_vars => [FinalStep]_vars
    BY StepIsFinal
  <1> QED
    BY <1>1, TypeCorrect, PTL DEF Spec, SettlementIsFinal, FinalStep

-----------------------------------------------------------------------------
(* Idempotency *)

LEMMA AuthorizeKeepsIdempotency ==
    ASSUME TypeOK, IdempotencyExact, NEW i \in Intents, NEW now \in Now,
           AuthorizeIntent(i, now)
    PROVE  IdempotencyExact'
  <1>1. PICK id \in AuthIds :
           /\ Issues(id) /\ id[1] = i /\ RequestIsNew(i)
           /\ idempotencyKeys' = WithRow(idempotencyKeys, i.requestId,
                                         [intent |-> i, authId |-> id])
    BY AuthorizeIssues
  <1> DEFINE q == i.requestId
             row == [intent |-> i, authId |-> id]
  <1>2. /\ DOMAIN idempotencyKeys' = DOMAIN idempotencyKeys \cup {q}
        /\ idempotencyKeys'[q] = row
        /\ q \notin DOMAIN idempotencyKeys
        /\ \A r \in DOMAIN idempotencyKeys : idempotencyKeys'[r] = idempotencyKeys[r]
    BY <1>1 DEF RequestIsNew, WithRow
  <1>3. ASSUME NEW r \in DOMAIN idempotencyKeys'
        PROVE  /\ idempotencyKeys'[r].intent.requestId = r
               /\ idempotencyKeys'[r].authId \in DOMAIN authorizations'
               /\ authorizations'[idempotencyKeys'[r].authId].intent
                     = idempotencyKeys'[r].intent
    <2>1. CASE r = q
      BY <1>1, <1>2, <2>1 DEF Issues
    <2>2. CASE r \in DOMAIN idempotencyKeys
      BY <1>1, <1>2, <2>2 DEF Issues, IdempotencyExact
    <2> QED
      BY <1>2, <1>3, <2>1, <2>2
  <1>4. ASSUME NEW k \in DOMAIN authorizations'
        PROVE  /\ authorizations'[k].intent.requestId \in DOMAIN idempotencyKeys'
               /\ idempotencyKeys'[authorizations'[k].intent.requestId].authId = k
    <2>1. CASE k = id
      BY <1>1, <1>2, <2>1 DEF Issues
    <2>2. CASE k \in DOMAIN authorizations
      BY <1>1, <1>2, <2>2 DEF Issues, IdempotencyExact
    <2> QED
      BY <1>1, <1>4, <2>1, <2>2 DEF Issues
  <1> QED
    BY <1>3, <1>4 DEF IdempotencyExact

LEMMA SettlingKeepsIdempotency ==
    ASSUME IdempotencyExact, NEW id \in DOMAIN authorizations, NEW row,
           Replaces(id, row), row.intent = authorizations[id].intent,
           UNCHANGED idempotencyKeys
    PROVE  IdempotencyExact'
  <1>1. /\ DOMAIN authorizations' = DOMAIN authorizations
        /\ \A k \in DOMAIN authorizations :
              authorizations'[k].intent = authorizations[k].intent
    BY DEF Replaces
  <1> QED
    BY <1>1 DEF IdempotencyExact

LEMMA InitIdempotencyExact == Init => IdempotencyExact
    BY DEF Init, IdempotencyExact

LEMMA StepIdempotencyExact ==
    TypeOK /\ IdempotencyExact /\ [Next]_vars => IdempotencyExact'
  <1> SUFFICES ASSUME TypeOK, IdempotencyExact, [Next]_vars PROVE IdempotencyExact'
    OBVIOUS
  <1>1. CASE Authorize
    BY <1>1, AuthorizeKeepsIdempotency DEF Authorize
  <1>2. CASE ReportStep
    <2>1. PICK id \in DOMAIN authorizations : \E r \in ReportsOn(id), now \in Now :
             RecordExecution(r, now)
      BY <1>2 DEF ReportStep
    <2>2. PICK r \in ReportsOn(id), now \in Now : RecordExecution(r, now)
      BY <2>1
    <2>3. CASE RecordSuccess(r, now)
      <3>1. /\ Replaces(id, Executed(authorizations[id], now))
            /\ UNCHANGED idempotencyKeys /\ now \in Nat
        BY <2>3, SuccessReplaces
      <3>2. authorizations[id] \in AuthorizationRow
        BY DEF TypeOK
      <3>3. Executed(authorizations[id], now).intent = authorizations[id].intent
        BY <3>1, <3>2, SettledRow
      <3> QED
        BY <3>1, <3>3, SettlingKeepsIdempotency
    <2>4. CASE RecordFailure(r, now) \/ RecordRepeat(r, now)
      BY <2>4 DEF RecordFailure, RecordRepeat, IdempotencyExact
    <2> QED
      BY <2>2, <2>3, <2>4 DEF RecordExecution
  <1>3. CASE ReclaimStep
    <2>1. PICK id \in DOMAIN authorizations, now \in Now :
             /\ Reclaimable(id, now) /\ CreditBack(id, now)
             /\ UNCHANGED idempotencyKeys
      BY <1>3 DEF ReclaimStep
    <2>2. Replaces(id, Reclaimed(authorizations[id], now)) /\ now \in Nat
      BY <2>1, ReclaimReplaces
    <2>3. authorizations[id] \in AuthorizationRow
      BY DEF TypeOK
    <2>4. Reclaimed(authorizations[id], now).intent = authorizations[id].intent
      BY <2>2, <2>3, SettledRow
    <2> QED
      BY <2>1, <2>2, <2>4, SettlingKeepsIdempotency
  <1>4. CASE Credit \/ RunCommitmentEpoch \/ Quiet
    BY <1>4 DEF Credit, AdminCredit, RunCommitmentEpoch, Quiet, IdempotencyExact
  <1> QED
    BY <1>1, <1>2, <1>3, <1>4, StepCases

\* A request id buys one authorization, for the intent it was sent with: what a
\* repeated POST /v1/credit/authorize finds is what was granted.
THEOREM RequestsBuyOnce == Spec => []IdempotencyExact
  <1> QED
    BY InitIdempotencyExact, StepIdempotencyExact, TypeCorrect, PTL DEF Spec

-----------------------------------------------------------------------------
(* The steps, by what they do to the log *)

\* What the log says of an authorization, an agent's nonce and key.
KeepsLog ==
    /\ UNCHANGED logVars
    /\ DOMAIN authorizations' = DOMAIN authorizations
    /\ \A id \in DOMAIN authorizations :
          /\ authorizations'[id].intent = authorizations[id].intent
          /\ authorizations'[id].epochHint = authorizations[id].epochHint
          /\ authorizations'[id].logSeqNo = authorizations[id].logSeqNo
    /\ \A a \in Agents :
          /\ agents'[a].nextNonce = agents[a].nextNonce
          /\ agents'[a].pubKey = agents[a].pubKey

\* authorizeIntent appends one leaf, numbers the authorization with it, and
\* moves the agent's nonce.
AppendsToLog(i, id) ==
    LET seqNo == counters.logSeqNo + 1
        leafHash == AuthorizationLeaf(counters.lastLeafHash, id)
    IN  /\ id \notin DOMAIN authorizations
        /\ DOMAIN authorizations' = DOMAIN authorizations \cup {id}
        /\ \A k \in DOMAIN authorizations : authorizations'[k] = authorizations[k]
        /\ authorizations'[id].intent = i
        /\ authorizations'[id].epochHint = counters.lastEpochId + 1
        /\ authorizations'[id].logSeqNo = seqNo
        /\ seqNo \notin DOMAIN authLeaves
        /\ DOMAIN authLeaves' = DOMAIN authLeaves \cup {seqNo}
        /\ \A n \in DOMAIN authLeaves : authLeaves'[n] = authLeaves[n]
        /\ authLeaves'[seqNo].authId = id
        /\ authLeaves'[seqNo].prevLeafHash = counters.lastLeafHash
        /\ authLeaves'[seqNo].leafHash = leafHash
        /\ authLeaves'[seqNo].epochId = NoEpoch
        /\ counters'.logSeqNo = seqNo
        /\ counters'.lastLeafHash = leafHash
        /\ counters'.lastEpochId = counters.lastEpochId
        /\ counters'.lastRoot = counters.lastRoot
        /\ commitments' = commitments
        /\ i.agentNonce = agents[i.agentId].nextNonce
        /\ agents[i.agentId].pubKey \in {NULL, i.agentPubKey}
        /\ agents'[i.agentId].nextNonce = i.agentNonce + 1
        /\ agents'[i.agentId].pubKey = i.agentPubKey
        /\ \A a \in Agents \ {i.agentId} : agents'[a] = agents[a]

\* runCommitmentEpoch gives the leaves that have no epoch the next one.
CommitsLog ==
    LET epochId == counters.lastEpochId + 1
    IN  /\ PendingLeaves # {}
        /\ DOMAIN authLeaves' = DOMAIN authLeaves
        /\ \A n \in DOMAIN authLeaves :
              /\ authLeaves'[n].authId = authLeaves[n].authId
              /\ authLeaves'[n].prevLeafHash = authLeaves[n].prevLeafHash
              /\ authLeaves'[n].leafHash = authLeaves[n].leafHash
              /\ authLeaves[n].epochId = NoEpoch =>
                    authLeaves'[n].epochId = epochId
              /\ authLeaves[n].epochId # NoEpoch => authLeaves'[n] = authLeaves[n]
        /\ DOMAIN commitments' = DOMAIN commitments \cup {epochId}
        /\ epochId \notin DOMAIN commitments
        /\ \A e \in DOMAIN commitments : commitments'[e] = commitments[e]
        /\ commitments'[epochId] = [root |-> MerkleRoot(PendingLeaves),
                                    count |-> Cardinality(PendingLeaves),
                                    prevRoot |-> counters.lastRoot]
        /\ counters'.logSeqNo = counters.logSeqNo
        /\ counters'.lastLeafHash = counters.lastLeafHash
        /\ counters'.lastEpochId = epochId
        /\ counters'.lastRoot = MerkleRoot(PendingLeaves)
        /\ UNCHANGED <<agents, authorizations>>

LEMMA AuthorizeAppends ==
    ASSUME TypeOK, NEW i \in Intents, NEW now \in Now, AuthorizeIntent(i, now)
    PROVE  \E id \in AuthIds : AppendsToLog(i, id)
  <1> DEFINE seqNo == counters.logSeqNo + 1
             id == DeriveAuthorizationId(i, EpochHint, seqNo)
             row == NewAuthorization(i, EpochHint, seqNo)
             leafHash == AuthorizationLeaf(counters.lastLeafHash, id)
             leaf == [authId |-> id, prevLeafHash |-> counters.lastLeafHash,
                      leafHash |-> leafHash, epochId |-> NoEpoch]
  <1>1. /\ seqNo \in Nat /\ id \in AuthIds
        /\ i \in Intent /\ i.agentId \in Agents /\ i.agentPubKey \in PubKeys
    BY IntentFields DEF TypeOK, DeriveAuthorizationId, AuthIds, EpochHint
  <1>2. /\ id \notin DOMAIN authorizations /\ seqNo \notin DOMAIN authLeaves
        /\ authorizations' = WithRow(authorizations, id, row)
        /\ authLeaves' = WithRow(authLeaves, seqNo, leaf)
        /\ counters' = [counters EXCEPT !.logSeqNo = seqNo,
                                        !.lastLeafHash = leafHash]
        /\ commitments' = commitments
        /\ i.agentNonce = agents[i.agentId].nextNonce
        /\ agents[i.agentId].pubKey \in {NULL, i.agentPubKey}
        /\ agents[i.agentId].balance >= i.amountMicros
        /\ agents' = [agents EXCEPT
                         ![i.agentId] = WithDebit(agents[i.agentId], i)]
    BY DEF AuthorizeIntent, UniqueAuthorization, AppendLeaf, DebitAgent,
           IntentAdmissible, NonceIsNext, Affordable
  <1>3. /\ row.intent = i /\ row.epochHint = counters.lastEpochId + 1
        /\ row.logSeqNo = seqNo
    BY DEF NewAuthorization, EpochHint
  <1>4. agents[i.agentId] \in AgentRow
    BY <1>1 DEF TypeOK
  <1>5. /\ WithDebit(agents[i.agentId], i).nextNonce = i.agentNonce + 1
        /\ WithDebit(agents[i.agentId], i).pubKey = i.agentPubKey
    BY <1>1, <1>2, <1>4, WithDebitRow
  <1>6. /\ agents'[i.agentId] = WithDebit(agents[i.agentId], i)
        /\ \A a \in Agents \ {i.agentId} : agents'[a] = agents[a]
    BY <1>1, <1>2 DEF TypeOK
  <1> HIDE DEF id, row, leafHash
  <1>7. /\ counters'.logSeqNo = seqNo /\ counters'.lastLeafHash = leafHash
        /\ counters'.lastEpochId = counters.lastEpochId
        /\ counters'.lastRoot = counters.lastRoot
    BY <1>2 DEF TypeOK
  <1>8. /\ DOMAIN authorizations' = DOMAIN authorizations \cup {id}
        /\ authorizations'[id] = row
        /\ \A k \in DOMAIN authorizations : authorizations'[k] = authorizations[k]
    BY <1>2 DEF WithRow
  <1>9. /\ DOMAIN authLeaves' = DOMAIN authLeaves \cup {seqNo}
        /\ authLeaves'[seqNo] = leaf
        /\ \A n \in DOMAIN authLeaves : authLeaves'[n] = authLeaves[n]
    BY <1>2 DEF WithRow
  <1>10. leafHash = AuthorizationLeaf(counters.lastLeafHash, id)
    BY DEF leafHash
  <1>11. AppendsToLog(i, id)
    BY <1>2, <1>3, <1>5, <1>6, <1>7, <1>8, <1>9, <1>10 DEF AppendsToLog
  <1> QED
    BY <1>1, <1>11

LEMMA CommitmentCommits ==
    ASSUME TypeOK, DOMAIN authLeaves = 1..counters.logSeqNo, RunCommitmentEpoch
    PROVE  CommitsLog
  <1> DEFINE epochId == counters.lastEpochId + 1
             root == MerkleRoot(PendingLeaves)
             row == [root |-> root, count |-> Cardinality(PendingLeaves),
                     prevRoot |-> counters.lastRoot]
  <1>1. PICK maxLogSeqNo \in PendingLeaves :
           /\ epochId \notin DOMAIN commitments
           /\ authLeaves' = WithEpoch(PendingLeaves, epochId)
           /\ commitments' = WithRow(commitments, epochId, row)
           /\ counters' = [counters EXCEPT
                 !.lastEpochId = epochId, !.lastRoot = root,
                 !.logSeqNo = IF maxLogSeqNo > counters.logSeqNo
                              THEN maxLogSeqNo ELSE counters.logSeqNo]
           /\ UNCHANGED <<agents, authorizations>>
    BY DEF RunCommitmentEpoch, CommitLeaves, TypeOK
  <1>2. counters.logSeqNo \in Nat /\ ~(maxLogSeqNo > counters.logSeqNo)
    BY DEF TypeOK, PendingLeaves
  <1> HIDE DEF epochId, root, row
  <1>3. counters' = [counters EXCEPT !.lastEpochId = epochId, !.lastRoot = root,
                                     !.logSeqNo = counters.logSeqNo]
    BY <1>1, <1>2
  <1>4. /\ counters'.logSeqNo = counters.logSeqNo
        /\ counters'.lastLeafHash = counters.lastLeafHash
        /\ counters'.lastEpochId = epochId /\ counters'.lastRoot = root
    BY <1>3 DEF TypeOK
  <1>5. DOMAIN authLeaves' = DOMAIN authLeaves
    BY <1>1 DEF WithEpoch
  <1>6. ASSUME NEW n \in DOMAIN authLeaves
        PROVE  /\ authLeaves'[n].authId = authLeaves[n].authId
               /\ authLeaves'[n].prevLeafHash = authLeaves[n].prevLeafHash
               /\ authLeaves'[n].leafHash = authLeaves[n].leafHash
               /\ authLeaves[n].epochId = NoEpoch => authLeaves'[n].epochId = epochId
               /\ authLeaves[n].epochId # NoEpoch => authLeaves'[n] = authLeaves[n]
    <2>1. authLeaves[n] \in LeafRow
      BY DEF TypeOK
    <2>2. authLeaves'[n] = IF authLeaves[n].epochId = NoEpoch
                           THEN [authLeaves[n] EXCEPT !.epochId = epochId]
                           ELSE authLeaves[n]
      BY <1>1 DEF WithEpoch, PendingLeaves
    <2> QED
      BY <2>1, <2>2 DEF LeafRow
  <1>7. /\ DOMAIN commitments' = DOMAIN commitments \cup {epochId}
        /\ commitments'[epochId] = row
        /\ \A e \in DOMAIN commitments : commitments'[e] = commitments[e]
    BY <1>1 DEF WithRow
  <1> QED
    BY <1>1, <1>4, <1>5, <1>6, <1>7 DEF CommitsLog, epochId, root, row

LEMMA StepKeepsLog ==
    ASSUME TypeOK, [Next]_vars
    PROVE  Authorize \/ RunCommitmentEpoch \/ KeepsLog
  <1>0. \A a \in Agents : agents[a] \in AgentRow
    BY DEF TypeOK
  <1>1. CASE Credit
    <2>1. PICK a \in Agents, amount \in CreditAmounts : AdminCredit(a, amount)
      BY <1>1 DEF Credit
    <2> DEFINE new == WithCredit(agents[a], amount)
    <2>2. new.nextNonce = agents[a].nextNonce /\ new.pubKey = agents[a].pubKey
      BY <1>0, WithCreditRow, LedgerConstants
    <2>3. agents' = [agents EXCEPT ![a] = new]
      BY <2>1 DEF AdminCredit
    <2> HIDE DEF new
    <2>4. \A b \in Agents : /\ agents'[b].nextNonce = agents[b].nextNonce
                            /\ agents'[b].pubKey = agents[b].pubKey
      BY <2>2, <2>3 DEF TypeOK
    <2> QED
      BY <2>1, <2>4 DEF AdminCredit, KeepsLog, logVars
  <1>2. CASE ReportStep
    <2>1. PICK id \in DOMAIN authorizations : \E r \in ReportsOn(id), now \in Now :
             RecordExecution(r, now)
      BY <1>2 DEF ReportStep
    <2>2. PICK r \in ReportsOn(id), now \in Now : RecordExecution(r, now)
      BY <2>1
    <2>3. UNCHANGED <<agents, logVars>>
      BY <2>2 DEF RecordExecution, RecordFailure, RecordSuccess, RecordRepeat
    <2>4. CASE RecordSuccess(r, now)
      <3>1. Replaces(id, Executed(authorizations[id], now)) /\ now \in Nat
        BY <2>4, SuccessReplaces
      <3>2. authorizations[id] \in AuthorizationRow
        BY DEF TypeOK
      <3> QED
        BY <2>3, <3>1, <3>2, SettledRow DEF Replaces, KeepsLog
    <2>5. CASE RecordFailure(r, now) \/ RecordRepeat(r, now)
      BY <2>3, <2>5 DEF RecordFailure, RecordRepeat, KeepsLog
    <2> QED
      BY <2>2, <2>4, <2>5 DEF RecordExecution
  <1>3. CASE ReclaimStep
    <2>1. PICK id \in DOMAIN authorizations, now \in Now :
             /\ Reclaimable(id, now) /\ CreditBack(id, now) /\ UNCHANGED logVars
      BY <1>3 DEF ReclaimStep
    <2>2. Replaces(id, Reclaimed(authorizations[id], now)) /\ now \in Nat
      BY <2>1, ReclaimReplaces
    <2>3. authorizations[id] \in AuthorizationRow
      BY DEF TypeOK
    <2> DEFINE i == authorizations[id].intent
               new == WithRefund(agents[i.agentId], i.amountMicros)
    <2>4. i \in Intents
      BY <2>3 DEF AuthorizationRow
    <2>5. i.agentId \in Agents /\ i.amountMicros \in Nat
          /\ agents[i.agentId].debitedOutstanding >= i.amountMicros
      BY <2>1, <2>4, IntentFields DEF Reclaimable
    <2>6. /\ new.nextNonce = agents[i.agentId].nextNonce
          /\ new.pubKey = agents[i.agentId].pubKey
      BY <1>0, <2>5, WithRefundRow
    <2>7. agents' = [agents EXCEPT ![i.agentId] = new]
      BY <2>1 DEF CreditBack
    <2> HIDE DEF new, i
    <2>8. \A b \in Agents : /\ agents'[b].nextNonce = agents[b].nextNonce
                            /\ agents'[b].pubKey = agents[b].pubKey
      BY <2>5, <2>6, <2>7 DEF TypeOK
    <2>9. LET row == Reclaimed(authorizations[id], now)
          IN  /\ row.intent = authorizations[id].intent
              /\ row.epochHint = authorizations[id].epochHint
              /\ row.logSeqNo = authorizations[id].logSeqNo
      BY <2>2, <2>3, SettledRow
    <2> QED
      BY <2>1, <2>2, <2>8, <2>9 DEF Replaces, KeepsLog
  <1>4. CASE Quiet
    BY <1>4 DEF Quiet, KeepsLog
  <1> QED
    BY <1>1, <1>2, <1>3, <1>4, StepCases

-----------------------------------------------------------------------------
(* The log *)

\* The conjuncts of LogHashChain, for one leaf and one authorization.
LeafChained(n) ==
    LET leaf == authLeaves[n]
    IN  /\ leaf.authId \in DOMAIN authorizations
        /\ authorizations[leaf.authId].logSeqNo = n
        /\ leaf.leafHash = AuthorizationLeaf(leaf.prevLeafHash, leaf.authId)
        /\ leaf.prevLeafHash = IF n = 1 THEN ZeroHash
                               ELSE authLeaves[n - 1].leafHash
OnLog(id) ==
    /\ authorizations[id].logSeqNo \in DOMAIN authLeaves
    /\ authLeaves[authorizations[id].logSeqNo].authId = id
TipIsLastLeaf ==
    counters.lastLeafHash = IF counters.logSeqNo = 0 THEN ZeroHash
                            ELSE authLeaves[counters.logSeqNo].leafHash

LEMMA LogHashChainParts ==
    /\ LogHashChain <=> /\ NoncesInOrder
                        /\ DOMAIN authLeaves = 1..counters.logSeqNo
                        /\ \A n \in DOMAIN authLeaves : LeafChained(n)
                        /\ TipIsLastLeaf
                        /\ \A id \in DOMAIN authorizations : OnLog(id)
    /\ LogHashChain' <=> /\ NoncesInOrder'
                         /\ DOMAIN authLeaves' = 1..counters'.logSeqNo
                         /\ \A n \in DOMAIN authLeaves' : LeafChained(n)'
                         /\ TipIsLastLeaf'
                         /\ \A id \in DOMAIN authorizations' : OnLog(id)'
    BY DEF LogHashChain, LeafChained, TipIsLastLeaf, OnLog

LEMMA KeepsNoncesInOrder ==
    ASSUME TypeOK, NoncesInOrder, KeepsLog
    PROVE  NoncesInOrder'
  <1>1. \A id \in DOMAIN authorizations :
           authorizations[id].intent.agentId \in Agents
    BY IntentFields DEF TypeOK, AuthorizationRow
  <1>2. ASSUME NEW id \in DOMAIN authorizations'
        PROVE  LET i == authorizations'[id].intent
               IN  /\ i.agentNonce < agents'[i.agentId].nextNonce
                   /\ i.agentPubKey = agents'[i.agentId].pubKey
    BY <1>1, <1>2 DEF NoncesInOrder, KeepsLog
  <1>3. ASSUME NEW a \in Agents, NEW n \in 0..(agents'[a].nextNonce - 1)
        PROVE  \E id \in DOMAIN authorizations' :
                  /\ authorizations'[id].intent.agentId = a
                  /\ authorizations'[id].intent.agentNonce = n
    <2>1. n \in 0..(agents[a].nextNonce - 1)
      BY <1>3 DEF KeepsLog
    <2>2. PICK id \in DOMAIN authorizations :
             /\ authorizations[id].intent.agentId = a
             /\ authorizations[id].intent.agentNonce = n
      BY <2>1 DEF NoncesInOrder
    <2> QED
      BY <2>2 DEF KeepsLog
  <1>4. ASSUME NEW x \in DOMAIN authorizations', NEW y \in DOMAIN authorizations'
        PROVE  LET i == authorizations'[x].intent
                   j == authorizations'[y].intent
               IN  i.agentId = j.agentId =>
                     /\ i.agentNonce = j.agentNonce => x = y
                     /\ i.agentNonce < j.agentNonce =>
                           authorizations'[x].logSeqNo < authorizations'[y].logSeqNo
    BY <1>4 DEF NoncesInOrder, KeepsLog
  <1> QED
    BY <1>2, <1>3, <1>4 DEF NoncesInOrder

LEMMA AppendKeepsNoncesInOrder ==
    ASSUME TypeOK, LogHashChain, NEW i \in Intents, NEW id, AppendsToLog(i, id)
    PROVE  NoncesInOrder'
  <1> DEFINE agent == i.agentId
  <1>0. \A k \in DOMAIN authorizations :
           /\ authorizations[k].intent \in Intents
           /\ authorizations[k].intent.agentId \in Agents
           /\ authorizations[k].intent.agentPubKey \in PubKeys
           /\ authorizations[k].intent.agentNonce \in Nat
           /\ authorizations[k].logSeqNo \in 1..counters.logSeqNo
    BY IntentFields, LogHashChainParts DEF TypeOK, AuthorizationRow, OnLog
  <1>1. agent \in Agents /\ i.agentNonce \in Nat /\ counters.logSeqNo \in Nat
    BY IntentFields DEF TypeOK
  <1>2. /\ DOMAIN authorizations' = DOMAIN authorizations \cup {id}
        /\ id \notin DOMAIN authorizations
        /\ authorizations'[id].intent = i
        /\ authorizations'[id].logSeqNo = counters.logSeqNo + 1
        /\ \A k \in DOMAIN authorizations : authorizations'[k] = authorizations[k]
        /\ i.agentNonce = agents[agent].nextNonce
        /\ agents[agent].pubKey \in {NULL, i.agentPubKey}
        /\ agents'[agent].nextNonce = i.agentNonce + 1
        /\ agents'[agent].pubKey = i.agentPubKey
        /\ \A a \in Agents \ {agent} : agents'[a] = agents[a]
    BY DEF AppendsToLog
  <1>3. NoncesInOrder
    BY LogHashChainParts
  <1>4. \A k \in DOMAIN authorizations :
           authorizations[k].intent.agentId = agent =>
              /\ authorizations[k].intent.agentNonce < i.agentNonce
              /\ authorizations[k].intent.agentPubKey = i.agentPubKey
    BY <1>0, <1>2, <1>3, LedgerConstants DEF NoncesInOrder
  <1> HIDE DEF agent
  <1>5. ASSUME NEW k \in DOMAIN authorizations'
        PROVE  LET j == authorizations'[k].intent
               IN  /\ j.agentNonce < agents'[j.agentId].nextNonce
                   /\ j.agentPubKey = agents'[j.agentId].pubKey
    <2>1. CASE k = id
      BY <1>1, <1>2, <2>1 DEF agent
    <2>2. CASE k \in DOMAIN authorizations /\ authorizations[k].intent.agentId = agent
      <3>1. /\ authorizations[k].intent.agentNonce < i.agentNonce
            /\ authorizations[k].intent.agentPubKey = i.agentPubKey
            /\ authorizations'[k] = authorizations[k]
        BY <1>2, <1>4, <2>2
      <3> QED
        BY <1>0, <1>1, <1>2, <2>2, <3>1
    <2>3. CASE k \in DOMAIN authorizations /\ authorizations[k].intent.agentId # agent
      BY <1>0, <1>2, <1>3, <2>3 DEF NoncesInOrder
    <2> QED
      BY <1>2, <2>1, <2>2, <2>3
  <1>6. ASSUME NEW a \in Agents, NEW n \in 0..(agents'[a].nextNonce - 1)
        PROVE  \E k \in DOMAIN authorizations' :
                  /\ authorizations'[k].intent.agentId = a
                  /\ authorizations'[k].intent.agentNonce = n
    <2>1. CASE a = agent /\ n = i.agentNonce
      BY <1>2, <2>1 DEF agent
    <2>2. CASE ~(a = agent /\ n = i.agentNonce)
      <3>1. n \in 0..(agents[a].nextNonce - 1)
        BY <1>1, <1>2, <1>6, <2>2
      <3>2. PICK k \in DOMAIN authorizations :
               /\ authorizations[k].intent.agentId = a
               /\ authorizations[k].intent.agentNonce = n
        BY <1>3, <3>1 DEF NoncesInOrder
      <3> QED
        BY <1>2, <3>2
    <2> QED
      BY <2>1, <2>2
  <1>7. ASSUME NEW x \in DOMAIN authorizations', NEW y \in DOMAIN authorizations',
               authorizations'[x].intent.agentId = authorizations'[y].intent.agentId
        PROVE  LET j == authorizations'[x].intent
                   k == authorizations'[y].intent
               IN  /\ j.agentNonce = k.agentNonce => x = y
                   /\ j.agentNonce < k.agentNonce =>
                         authorizations'[x].logSeqNo < authorizations'[y].logSeqNo
    <2>1. CASE x = id /\ y = id
      BY <1>1, <1>2, <2>1
    <2>2. CASE x = id /\ y \in DOMAIN authorizations
      <3>1. authorizations[y].intent.agentNonce < i.agentNonce
        BY <1>2, <1>4, <1>7, <2>2 DEF agent
      <3> QED
        BY <1>0, <1>1, <1>2, <2>2, <3>1
    <2>3. CASE y = id /\ x \in DOMAIN authorizations
      <3>1. authorizations[x].intent.agentNonce < i.agentNonce
        BY <1>2, <1>4, <1>7, <2>3 DEF agent
      <3> QED
        BY <1>0, <1>1, <1>2, <2>3, <3>1
    <2>4. CASE x \in DOMAIN authorizations /\ y \in DOMAIN authorizations
      BY <1>2, <1>3, <1>7, <2>4 DEF NoncesInOrder
    <2> QED
      BY <1>2, <2>1, <2>2, <2>3, <2>4
  <1> QED
    BY <1>5, <1>6, <1>7 DEF NoncesInOrder

LEMMA AppendKeepsChain ==
    ASSUME TypeOK, LogHashChain, NEW i \in Intents, NEW id, AppendsToLog(i, id)
    PROVE  LogHashChain'
  <1>0. PICK N \in Nat, top \in Nat : N = counters.logSeqNo /\ top = N + 1
    BY DEF TypeOK
  <1>1. /\ DOMAIN authLeaves = 1..N
        /\ id \notin DOMAIN authorizations
        /\ DOMAIN authorizations' = DOMAIN authorizations \cup {id}
        /\ \A k \in DOMAIN authorizations : authorizations'[k] = authorizations[k]
        /\ authorizations'[id].logSeqNo = top
        /\ DOMAIN authLeaves' = DOMAIN authLeaves \cup {top}
        /\ \A n \in DOMAIN authLeaves : authLeaves'[n] = authLeaves[n]
        /\ authLeaves'[top].authId = id
        /\ authLeaves'[top].prevLeafHash = counters.lastLeafHash
        /\ authLeaves'[top].leafHash = AuthorizationLeaf(counters.lastLeafHash, id)
        /\ counters'.logSeqNo = top
        /\ counters'.lastLeafHash = AuthorizationLeaf(counters.lastLeafHash, id)
    BY <1>0, LogHashChainParts DEF AppendsToLog
  <1>2. DOMAIN authLeaves' = 1..counters'.logSeqNo
    BY <1>0, <1>1
  <1>3. TipIsLastLeaf'
    BY <1>0, <1>1 DEF TipIsLastLeaf
  <1>4. LeafChained(top)'
    <2>1. authLeaves'[top].prevLeafHash = IF top = 1 THEN ZeroHash
                                          ELSE authLeaves'[top - 1].leafHash
      <3>1. counters.lastLeafHash = IF N = 0 THEN ZeroHash ELSE authLeaves[N].leafHash
        BY <1>0, LogHashChainParts DEF TipIsLastLeaf
      <3>2. CASE N = 0
        BY <1>0, <1>1, <3>1, <3>2
      <3>3. CASE N # 0
        <4>1. N \in DOMAIN authLeaves /\ top - 1 = N /\ top # 1
          BY <1>0, <1>1, <3>3
        <4> QED
          BY <1>1, <3>1, <3>3, <4>1
      <3> QED
        BY <3>2, <3>3
    <2> QED
      BY <1>1, <2>1 DEF LeafChained
  <1>5. ASSUME NEW n \in DOMAIN authLeaves PROVE LeafChained(n)'
    <2>1. LeafChained(n) /\ (n # 1 => n - 1 \in DOMAIN authLeaves)
      BY <1>0, <1>1, LogHashChainParts
    <2> QED
      BY <1>1, <2>1 DEF LeafChained
  <1>6. OnLog(id)'
    BY <1>1 DEF OnLog
  <1>7. ASSUME NEW k \in DOMAIN authorizations PROVE OnLog(k)'
    BY <1>1, LogHashChainParts DEF OnLog
  <1>8. NoncesInOrder'
    BY AppendKeepsNoncesInOrder
  <1> QED
    BY <1>1, <1>2, <1>3, <1>4, <1>5, <1>6, <1>7, <1>8, LogHashChainParts

LEMMA InitLogHashChain == Init => LogHashChain
  <1> SUFFICES ASSUME Init PROVE LogHashChain
    OBVIOUS
  <1>1. /\ DOMAIN authorizations = {} /\ DOMAIN authLeaves = {}
        /\ counters.logSeqNo = 0 /\ counters.lastLeafHash = ZeroHash
        /\ \A a \in Agents : agents[a].nextNonce = 0
    BY DEF Init
  <1>2. NoncesInOrder
    BY <1>1 DEF NoncesInOrder
  <1> QED
    BY <1>1, <1>2 DEF LogHashChain

LEMMA StepLogHashChain == TypeOK /\ LogHashChain /\ [Next]_vars => LogHashChain'
  <1> SUFFICES ASSUME TypeOK, LogHashChain, [Next]_vars PROVE LogHashChain'
    OBVIOUS
  <1>1. CASE Authorize
    BY <1>1, AuthorizeAppends, AppendKeepsChain DEF Authorize
  <1>2. CASE RunCommitmentEpoch
    <2>0. /\ DOMAIN authLeaves = 1..counters.logSeqNo /\ NoncesInOrder
          /\ counters.logSeqNo \in Nat
      BY LogHashChainParts DEF TypeOK
    <2>1. CommitsLog
      BY <1>2, <2>0, CommitmentCommits
    <2>2. /\ DOMAIN authLeaves' = DOMAIN authLeaves
          /\ \A n \in DOMAIN authLeaves :
                /\ authLeaves'[n].authId = authLeaves[n].authId
                /\ authLeaves'[n].prevLeafHash = authLeaves[n].prevLeafHash
                /\ authLeaves'[n].leafHash = authLeaves[n].leafHash
          /\ counters'.logSeqNo = counters.logSeqNo
          /\ counters'.lastLeafHash = counters.lastLeafHash
          /\ UNCHANGED <<agents, authorizations>>
      BY <2>1 DEF CommitsLog
    <2>3. NoncesInOrder'
      BY <2>0, <2>2 DEF NoncesInOrder
    <2>4. ASSUME NEW n \in DOMAIN authLeaves PROVE LeafChained(n)'
      <3>1. LeafChained(n) /\ (n # 1 => n - 1 \in DOMAIN authLeaves)
        BY <2>0, LogHashChainParts
      <3> QED
        BY <2>2, <3>1 DEF LeafChained
    <2>5. ASSUME NEW id \in DOMAIN authorizations PROVE OnLog(id)'
      BY <2>2, LogHashChainParts DEF OnLog
    <2>6. TipIsLastLeaf'
      <3>1. counters.logSeqNo # 0 => counters.logSeqNo \in DOMAIN authLeaves
        BY <2>0
      <3> QED
        BY <2>2, <3>1, LogHashChainParts DEF TipIsLastLeaf
    <2> QED
      BY <2>0, <2>2, <2>3, <2>4, <2>5, <2>6, LogHashChainParts
  <1>3. CASE KeepsLog
    <2>1. NoncesInOrder'
      BY <1>3, KeepsNoncesInOrder, LogHashChainParts
    <2>2. ASSUME NEW n \in DOMAIN authLeaves PROVE LeafChained(n)'
      BY <1>3, LogHashChainParts DEF LeafChained, KeepsLog, logVars
    <2>3. ASSUME NEW id \in DOMAIN authorizations PROVE OnLog(id)'
      BY <1>3, LogHashChainParts DEF OnLog, KeepsLog, logVars
    <2> QED
      BY <1>3, <2>1, <2>2, <2>3, LogHashChainParts
      DEF KeepsLog, logVars, TipIsLastLeaf
  <1> QED
    BY <1>1, <1>2, <1>3, StepKeepsLog

\* The log of authorizations has no gap and no fork, whatever the order of
\* requests, reports, reclaims and epochs: authorizeIntent appends under the
\* counters' number and runCommitmentEpoch, which writes the counters too,
\* never moves that number back or on.
THEOREM LogIsChained == Spec => []LogHashChain
  <1> QED
    BY InitLogHashChain, StepLogHashChain, TypeCorrect, PTL DEF Spec

-----------------------------------------------------------------------------
(* The commitments *)

\* The conjuncts of EpochsCutLog and CommitmentsProvable, for one leaf, two
\* leaves and one commitment.
HintKept(n) ==
    LET hint == authorizations[authLeaves[n].authId].epochHint
    IN  IF authLeaves[n].epochId = NoEpoch
        THEN hint = counters.lastEpochId + 1
        ELSE /\ hint = authLeaves[n].epochId
             /\ authLeaves[n].epochId \in DOMAIN commitments
CutInOrder(m, n) ==
    m < n /\ authLeaves[n].epochId # NoEpoch =>
       /\ authLeaves[m].epochId # NoEpoch
       /\ authLeaves[m].epochId <= authLeaves[n].epochId
Provable(e) ==
    /\ LeavesOf(e) # {}
    /\ commitments[e].root = MerkleRoot(LeavesOf(e))
    /\ commitments[e].count = Cardinality(LeavesOf(e))
    /\ commitments[e].prevRoot = IF e = 1 THEN ZeroHash
                                 ELSE commitments[e - 1].root
LastRootKept ==
    counters.lastRoot = IF counters.lastEpochId = 0 THEN ZeroHash
                        ELSE commitments[counters.lastEpochId].root

LEMMA CommitmentsProvableParts ==
    /\ CommitmentsProvable <=>
          /\ DOMAIN commitments = 1..counters.lastEpochId
          /\ \A n \in DOMAIN authLeaves : HintKept(n)
          /\ \A m, n \in DOMAIN authLeaves : CutInOrder(m, n)
          /\ \A e \in DOMAIN commitments : Provable(e)
          /\ LastRootKept
    /\ CommitmentsProvable' <=>
          /\ DOMAIN commitments' = 1..counters'.lastEpochId
          /\ \A n \in DOMAIN authLeaves' : HintKept(n)'
          /\ \A m, n \in DOMAIN authLeaves' : CutInOrder(m, n)'
          /\ \A e \in DOMAIN commitments' : Provable(e)'
          /\ LastRootKept'
    BY DEF CommitmentsProvable, EpochsCutLog, HintKept, CutInOrder, Provable,
           LastRootKept

\* An epoch keeps its root while its leaves keep their hashes.
LEMMA SameLeavesSameRoot ==
    ASSUME NEW S, S \subseteq DOMAIN authLeaves,
           \A n \in S : authLeaves'[n].leafHash = authLeaves[n].leafHash
    PROVE  [n \in S |-> authLeaves'[n].leafHash] = MerkleRoot(S)
    BY DEF MerkleRoot

LEMMA KeptProvable ==
    ASSUME NEW e, Provable(e), LeavesOf(e)' = LeavesOf(e),
           \A n \in LeavesOf(e) : authLeaves'[n].leafHash = authLeaves[n].leafHash,
           commitments'[e] = commitments[e],
           e # 1 => commitments'[e - 1] = commitments[e - 1]
    PROVE  Provable(e)'
  <1>1. MerkleRoot(LeavesOf(e))' = MerkleRoot(LeavesOf(e))
    BY SameLeavesSameRoot DEF MerkleRoot, LeavesOf
  <1>2. Cardinality(LeavesOf(e))' = Cardinality(LeavesOf(e))
    OBVIOUS
  <1> HIDE DEF LeavesOf
  <1> QED
    BY <1>1, <1>2 DEF Provable

LEMMA AppendKeepsCommitments ==
    ASSUME TypeOK, LogHashChain, CommitmentsProvable,
           NEW i \in Intents, NEW id, AppendsToLog(i, id)
    PROVE  CommitmentsProvable'
  <1>0. PICK top \in Nat : top = counters.logSeqNo + 1
    BY DEF TypeOK
  <1>1. /\ counters.lastEpochId \in Nat /\ counters.logSeqNo \in Nat
        /\ DOMAIN authLeaves = 1..counters.logSeqNo
        /\ DOMAIN commitments = 1..counters.lastEpochId
    BY LogHashChainParts, CommitmentsProvableParts DEF TypeOK
  <1>2. /\ id \notin DOMAIN authorizations
        /\ \A k \in DOMAIN authorizations : authorizations'[k] = authorizations[k]
        /\ authorizations'[id].epochHint = counters.lastEpochId + 1
        /\ DOMAIN authLeaves' = DOMAIN authLeaves \cup {top}
        /\ \A n \in DOMAIN authLeaves : authLeaves'[n] = authLeaves[n]
        /\ authLeaves'[top].authId = id
        /\ authLeaves'[top].epochId = NoEpoch
        /\ counters'.lastEpochId = counters.lastEpochId
        /\ counters'.lastRoot = counters.lastRoot
        /\ commitments' = commitments
    BY <1>0 DEF AppendsToLog
  <1>3. HintKept(top)'
    BY <1>2 DEF HintKept
  <1>4. ASSUME NEW n \in DOMAIN authLeaves PROVE HintKept(n)'
    <2>1. HintKept(n) /\ authLeaves[n].authId \in DOMAIN authorizations
      BY LogHashChainParts, CommitmentsProvableParts DEF LeafChained
    <2> QED
      BY <1>2, <2>1 DEF HintKept
  <1>5. ASSUME NEW m \in DOMAIN authLeaves', NEW n \in DOMAIN authLeaves'
        PROVE  CutInOrder(m, n)'
    <2>1. CASE n = top
      BY <1>2, <2>1 DEF CutInOrder
    <2>2. CASE m = top /\ n # top
      BY <1>0, <1>1, <1>2, <2>2 DEF CutInOrder
    <2>3. CASE m # top /\ n # top
      BY <1>2, <2>3, CommitmentsProvableParts DEF CutInOrder
    <2> QED
      BY <2>1, <2>2, <2>3
  <1>6. ASSUME NEW e \in DOMAIN commitments PROVE Provable(e)'
    <2>1. e # NoEpoch
      BY <1>1 DEF NoEpoch
    <2>2. LeavesOf(e)' = LeavesOf(e)
      <3>1. ASSUME NEW n PROVE n \in LeavesOf(e)' <=> n \in LeavesOf(e)
        BY <1>0, <1>1, <1>2, <2>1 DEF LeavesOf
      <3> QED
        BY <3>1
    <2>3. \A n \in LeavesOf(e) : authLeaves'[n].leafHash = authLeaves[n].leafHash
      BY <1>2 DEF LeavesOf
    <2> QED
      BY <1>2, <2>2, <2>3, KeptProvable, CommitmentsProvableParts
  <1>7. LastRootKept'
    BY <1>2, CommitmentsProvableParts DEF LastRootKept
  <1> QED
    BY <1>1, <1>2, <1>3, <1>4, <1>5, <1>6, <1>7, CommitmentsProvableParts

LEMMA CommitKeepsCommitments ==
    ASSUME TypeOK, LogHashChain, CommitmentsProvable, CommitsLog
    PROVE  CommitmentsProvable'
  <1>0. PICK last \in Nat, E \in Nat : last = counters.lastEpochId /\ E = last + 1
    BY DEF TypeOK
  <1>1. /\ DOMAIN commitments = 1..last
        /\ \A n \in DOMAIN authLeaves : HintKept(n)
        /\ \A n \in DOMAIN authLeaves :
              /\ authLeaves[n].authId \in DOMAIN authorizations
              /\ authLeaves[n].epochId # NoEpoch =>
                    authLeaves[n].epochId \in 1..last
    BY <1>0, LogHashChainParts, CommitmentsProvableParts DEF LeafChained, HintKept
  <1>2. /\ PendingLeaves # {}
        /\ DOMAIN authLeaves' = DOMAIN authLeaves
        /\ \A n \in DOMAIN authLeaves :
              /\ authLeaves'[n].authId = authLeaves[n].authId
              /\ authLeaves'[n].leafHash = authLeaves[n].leafHash
              /\ authLeaves[n].epochId = NoEpoch => authLeaves'[n].epochId = E
              /\ authLeaves[n].epochId # NoEpoch => authLeaves'[n] = authLeaves[n]
        /\ DOMAIN commitments' = DOMAIN commitments \cup {E}
        /\ \A e \in DOMAIN commitments : commitments'[e] = commitments[e]
        /\ commitments'[E] = [root |-> MerkleRoot(PendingLeaves),
                              count |-> Cardinality(PendingLeaves),
                              prevRoot |-> counters.lastRoot]
        /\ counters'.lastEpochId = E
        /\ counters'.lastRoot = MerkleRoot(PendingLeaves)
        /\ authorizations' = authorizations
    BY <1>0 DEF CommitsLog
  <1>3. DOMAIN commitments' = 1..counters'.lastEpochId
    BY <1>0, <1>1, <1>2
  <1>4. ASSUME NEW n \in DOMAIN authLeaves PROVE HintKept(n)'
    <2>1. CASE authLeaves[n].epochId = NoEpoch
      BY <1>0, <1>1, <1>2, <2>1 DEF HintKept, NoEpoch
    <2>2. CASE authLeaves[n].epochId # NoEpoch
      BY <1>1, <1>2, <2>2 DEF HintKept
    <2> QED
      BY <2>1, <2>2
  <1>5. ASSUME NEW m \in DOMAIN authLeaves, NEW n \in DOMAIN authLeaves
        PROVE  CutInOrder(m, n)'
    <2>1. CutInOrder(m, n)
      BY CommitmentsProvableParts
    <2>2. CASE authLeaves[n].epochId # NoEpoch
      BY <1>2, <2>1, <2>2 DEF CutInOrder
    <2>3. CASE authLeaves[n].epochId = NoEpoch
      BY <1>0, <1>1, <1>2, <2>3 DEF CutInOrder, NoEpoch
    <2> QED
      BY <2>2, <2>3
  <1>6. LeavesOf(E)' = PendingLeaves
    <2>1. ASSUME NEW n PROVE n \in LeavesOf(E)' <=> n \in PendingLeaves
      BY <1>0, <1>1, <1>2 DEF LeavesOf, PendingLeaves
    <2> QED
      BY <2>1
  <1>7. Provable(E)'
    <2>1. MerkleRoot(LeavesOf(E))' = MerkleRoot(PendingLeaves)
      BY <1>2, <1>6, SameLeavesSameRoot DEF MerkleRoot, PendingLeaves
    <2>2. Cardinality(LeavesOf(E))' = Cardinality(PendingLeaves)
      BY <1>6
    <2>3. counters.lastRoot = IF E = 1 THEN ZeroHash ELSE commitments'[E - 1].root
      <3>1. LastRootKept /\ E - 1 = last
        BY <1>0, CommitmentsProvableParts
      <3>2. CASE last = 0
        BY <1>0, <3>1, <3>2 DEF LastRootKept
      <3>3. CASE last # 0
        <4>1. last \in DOMAIN commitments
          BY <1>0, <1>1, <3>3
        <4> QED
          BY <1>0, <1>2, <3>1, <3>3, <4>1 DEF LastRootKept
      <3> QED
        BY <3>2, <3>3
    <2> QED
      BY <1>2, <1>6, <2>1, <2>2, <2>3 DEF Provable
  <1>8. ASSUME NEW e \in DOMAIN commitments PROVE Provable(e)'
    <2>1. e # NoEpoch /\ e # E /\ (e # 1 => e - 1 \in DOMAIN commitments)
      BY <1>0, <1>1 DEF NoEpoch
    <2>2. LeavesOf(e)' = LeavesOf(e)
      <3>1. ASSUME NEW n PROVE n \in LeavesOf(e)' <=> n \in LeavesOf(e)
        BY <1>2, <2>1 DEF LeavesOf
      <3> QED
        BY <3>1
    <2>3. \A n \in LeavesOf(e) : authLeaves'[n].leafHash = authLeaves[n].leafHash
      BY <1>2 DEF LeavesOf
    <2> QED
      BY <1>2, <2>1, <2>2, <2>3, KeptProvable, CommitmentsProvableParts
  <1>9. LastRootKept'
    BY <1>0, <1>2 DEF LastRootKept
  <1> QED
    BY <1>2, <1>3, <1>4, <1>5, <1>7, <1>8, <1>9, CommitmentsProvableParts

LEMMA StepCommitmentsProvable ==
    TypeOK /\ LogHashChain /\ CommitmentsProvable /\ [Next]_vars
       => CommitmentsProvable'
  <1> SUFFICES ASSUME TypeOK, LogHashChain, CommitmentsProvable, [Next]_vars
               PROVE  CommitmentsProvable'
    OBVIOUS
  <1>1. CASE Authorize
    BY <1>1, AuthorizeAppends, AppendKeepsCommitments DEF Authorize
  <1>2. CASE RunCommitmentEpoch
    BY <1>2, CommitmentCommits, CommitKeepsCommitments, LogHashChainParts
  <1>3. CASE KeepsLog
    <2>1. UNCHANGED <<authLeaves, commitments, counters>>
      BY <1>3 DEF KeepsLog, logVars
    <2>2. ASSUME NEW n \in DOMAIN authLeaves PROVE HintKept(n)'
      <3>1. HintKept(n) /\ authLeaves[n].authId \in DOMAIN authorizations
        BY LogHashChainParts, CommitmentsProvableParts DEF LeafChained
      <3> QED
        BY <1>3, <2>1, <3>1 DEF HintKept, KeepsLog
    <2>3. ASSUME NEW m \in DOMAIN authLeaves, NEW n \in DOMAIN authLeaves
          PROVE  CutInOrder(m, n)'
      BY <2>1, CommitmentsProvableParts DEF CutInOrder
    <2>4. ASSUME NEW e \in DOMAIN commitments PROVE Provable(e)'
      <3>1. LeavesOf(e)' = LeavesOf(e)
        BY <2>1 DEF LeavesOf
      <3>2. Provable(e) /\ (e # 1 => commitments'[e - 1] = commitments[e - 1])
        BY <2>1, CommitmentsProvableParts
      <3> QED
        BY <2>1, <3>1, <3>2, KeptProvable
    <2> QED
      BY <2>1, <2>2, <2>3, <2>4, CommitmentsProvableParts DEF LastRootKept
  <1> QED
    BY <1>1, <1>2, <1>3, StepKeepsLog

LEMMA InitCommitmentsProvable == Init => CommitmentsProvable
    BY DEF Init, CommitmentsProvable, EpochsCutLog

\* What buildInclusionProof recomputes is what was committed: the root and
\* count of every epoch are those of the leaves that carry it now, epochs cut
\* the log into consecutive stretches, and each authorization is committed by
\* the epoch it was promised.  LogHashChain is needed with it: it is the last
\* log number that keeps a new leaf out of the epochs committed before.
THEOREM CommitmentsStayProvable == Spec => []CommitmentsProvable
  <1> QED
    BY InitCommitmentsProvable, StepCommitmentsProvable, LogIsChained,
       TypeCorrect, PTL DEF Spec

AppendOnlyStep ==
    /\ \A n \in DOMAIN authLeaves :
          /\ n \in DOMAIN authLeaves'
          /\ authLeaves'[n].leafHash = authLeaves[n].leafHash
          /\ authLeaves[n].epochId # NoEpoch => authLeaves'[n] = authLeaves[n]
    /\ \A n \in DOMAIN authLeaves' \ DOMAIN authLeaves :
          authLeaves'[n].epochId = NoEpoch /\ n > counters.logSeqNo
    /\ \A e \in DOMAIN commitments :
          e \in DOMAIN commitments' /\ commitments'[e] = commitments[e]

LEMMA StepIsAppendOnly ==
    TypeOK /\ LogHashChain /\ [Next]_vars => AppendOnlyStep
  <1> SUFFICES ASSUME TypeOK, LogHashChain, [Next]_vars PROVE AppendOnlyStep
    OBVIOUS
  <1>0. counters.logSeqNo \in Nat
    BY DEF TypeOK
  <1>1. CASE Authorize
    <2>1. PICK i \in Intents, id \in AuthIds : AppendsToLog(i, id)
      BY <1>1, AuthorizeAppends DEF Authorize
    <2> QED
      BY <1>0, <2>1 DEF AppendsToLog, AppendOnlyStep
  <1>2. CASE RunCommitmentEpoch
    <2>1. CommitsLog
      BY <1>2, CommitmentCommits, LogHashChainParts
    <2> QED
      BY <2>1 DEF CommitsLog, AppendOnlyStep
  <1>3. CASE KeepsLog
    BY <1>3 DEF KeepsLog, logVars, AppendOnlyStep
  <1> QED
    BY <1>1, <1>2, <1>3, StepKeepsLog

\* Nothing rewrites the log: a leaf keeps its hash, once committed its epoch,
\* and a commitment its row; new leaves enter past the counters' number.
THEOREM LogOnlyGrows == Spec => LogIsAppendOnly
  <1>1. TypeOK /\ LogHashChain /\ [Next]_vars => [AppendOnlyStep]_vars
    BY StepIsAppendOnly
  <1> QED
    BY <1>1, LogIsChained, TypeCorrect, PTL
    DEF Spec, LogIsAppendOnly, AppendOnlyStep
-----------------------------------------------------------------------------
(* The promises *)

Promise == [amount: Nat, state: {"open", "paid", "refunded"}]
PromiseIn(row) ==
    [amount |-> row.intent.amountMicros, state |-> PromiseState[row.status]]

\* The authorization an agent's nonce stands for.
NamedBy(id, a, nonce) ==
    /\ id \in DOMAIN authorizations
    /\ authorizations[id].intent.agentId = a
    /\ authorizations[id].intent.agentNonce = nonce

LEMMA PromiseOfNonce ==
    /\ NoncesInOrder =>
          \A id, a, nonce : NamedBy(id, a, nonce) =>
             PromiseOf(a, nonce) = PromiseIn(authorizations[id])
    /\ NoncesInOrder' =>
          \A id, a, nonce : NamedBy(id, a, nonce)' =>
             PromiseOf(a, nonce)' = PromiseIn(authorizations'[id])
  <1>1. ASSUME NoncesInOrder, NEW id, NEW a, NEW nonce, NamedBy(id, a, nonce)
        PROVE  AuthorizationOf(a, nonce) = id
    BY <1>1 DEF NamedBy, AuthorizationOf, NoncesInOrder
  <1>2. ASSUME NoncesInOrder', NEW id, NEW a, NEW nonce, NamedBy(id, a, nonce)'
        PROVE  AuthorizationOf(a, nonce)' = id
    BY <1>2 DEF NamedBy, AuthorizationOf, NoncesInOrder
  <1>3. ASSUME NoncesInOrder, NEW id, NEW a, NEW nonce, NamedBy(id, a, nonce)
        PROVE  PromiseOf(a, nonce) = PromiseIn(authorizations[id])
    BY <1>1, <1>3 DEF PromiseOf, PromiseIn
  <1>4. ASSUME NoncesInOrder', NEW id, NEW a, NEW nonce, NamedBy(id, a, nonce)'
        PROVE  PromiseOf(a, nonce)' = PromiseIn(authorizations'[id])
    BY <1>2, <1>4 DEF PromiseOf, PromiseIn
  <1> QED
    BY <1>3, <1>4

\* Every promise of an agent is one of its authorizations.
LEMMA PromiseIsNamed ==
    ASSUME TypeOK, NoncesInOrder, NEW a \in Agents,
           NEW k \in 1..agents[a].nextNonce
    PROVE  \E id \in DOMAIN authorizations :
              /\ NamedBy(id, a, k - 1)
              /\ EscrowPromises[a][k] = PromiseIn(authorizations[id])
              /\ EscrowPromises[a][k] \in Promise
  <1>1. agents[a].nextNonce \in Nat
    BY DEF TypeOK, AgentRow
  <1>2. k - 1 \in 0..(agents[a].nextNonce - 1)
    BY <1>1
  <1>3. PICK id \in DOMAIN authorizations : NamedBy(id, a, k - 1)
    BY <1>2 DEF NoncesInOrder, NamedBy
  <1>4. EscrowPromises[a][k] = PromiseIn(authorizations[id])
    BY <1>3, PromiseOfNonce DEF EscrowPromises
  <1>5. /\ authorizations[id].status \in Statuses
        /\ authorizations[id].intent.amountMicros \in Nat
    BY IntentFields DEF TypeOK, AuthorizationRow
  <1>6. PromiseIn(authorizations[id]) \in Promise
    BY <1>5 DEF PromiseIn, Promise, PromiseState, Statuses
  <1> QED
    BY <1>3, <1>4, <1>6

\* The other way round: every authorization is a promise of its agent.
LEMMA NamedIsPromise ==
    ASSUME TypeOK, NoncesInOrder, NEW id \in DOMAIN authorizations
    PROVE  LET i == authorizations[id].intent
           IN  /\ i.agentId \in Agents /\ i.agentNonce \in Nat
               /\ i.amountMicros \in Nat
               /\ i.agentNonce + 1 \in 1..agents[i.agentId].nextNonce
               /\ NamedBy(id, i.agentId, i.agentNonce)
               /\ EscrowPromises[i.agentId][i.agentNonce + 1]
                     = PromiseIn(authorizations[id])
  <1> DEFINE i == authorizations[id].intent
  <1>1. i \in Intents
    BY DEF TypeOK, AuthorizationRow
  <1>2. i.agentId \in Agents /\ i.agentNonce \in Nat /\ i.amountMicros \in Nat
    BY <1>1, IntentFields
  <1>3. agents[i.agentId].nextNonce \in Nat
    BY <1>2 DEF TypeOK, AgentRow
  <1>4. i.agentNonce < agents[i.agentId].nextNonce
    BY DEF NoncesInOrder
  <1>5. NamedBy(id, i.agentId, i.agentNonce)
    BY DEF NamedBy
  <1>6. (i.agentNonce + 1) - 1 = i.agentNonce
    BY <1>2
  <1>7. i.agentNonce + 1 \in 1..agents[i.agentId].nextNonce
    BY <1>2, <1>3, <1>4
  <1> HIDE DEF i
  <1>8. EscrowPromises[i.agentId][i.agentNonce + 1]
           = PromiseOf(i.agentId, (i.agentNonce + 1) - 1)
    BY <1>2, <1>7 DEF EscrowPromises
  <1>9. PromiseOf(i.agentId, i.agentNonce) = PromiseIn(authorizations[id])
    BY <1>5, PromiseOfNonce
  <1> QED
    BY <1>2, <1>5, <1>6, <1>7, <1>8, <1>9 DEF i

-----------------------------------------------------------------------------
(* What promises hold *)

Amounts(ps) == [k \in DOMAIN ps |-> ps[k].amount]
Holding(ps) == {k \in DOMAIN ps : ps[k].state # "refunded"}

LEMMA HeldIsSum ==
    \A ps : Escrow!HeldAmount(ps) = SumFunctionOnSet(Amounts(ps), Holding(ps))
  <1>1. \A f, S : Escrow!SumFunctionOnSet(f, S) = SumFunctionOnSet(f, S)
    BY DEF Escrow!SumFunctionOnSet, Escrow!FoldFunctionOnSet,
           Escrow!MapThenFoldSet, SumFunctionOnSet, FoldFunctionOnSet,
           MapThenFoldSet
  <1>2. \A ps : Escrow!HeldAmount(ps)
                   = Escrow!SumFunctionOnSet(Amounts(ps), Holding(ps))
    BY DEF Escrow!HeldAmount, Amounts, Holding
  <1> QED
    BY <1>1, <1>2

LEMMA HoldingIsFinite ==
    ASSUME NEW n \in Nat, NEW ps, DOMAIN ps = 1..n,
           \A k \in 1..n : ps[k] \in Promise
    PROVE  /\ IsFiniteSet(Holding(ps))
           /\ \A k \in 1..n : Amounts(ps)[k] = ps[k].amount /\ ps[k].amount \in Nat
           /\ Holding(ps) \subseteq 1..n
           /\ \A k \in Holding(ps) : Amounts(ps)[k] \in Int
           /\ SumFunctionOnSet(Amounts(ps), Holding(ps)) \in Nat
  <1>1. IsFiniteSet(1..n) /\ Holding(ps) \subseteq 1..n
    BY FS_Interval DEF Holding
  <1>2. IsFiniteSet(Holding(ps))
    BY <1>1, FS_Subset
  <1>3. \A k \in 1..n : Amounts(ps)[k] = ps[k].amount /\ ps[k].amount \in Nat
    BY DEF Amounts, Promise
  <1>4. \A k \in Holding(ps) : Amounts(ps)[k] \in Nat
    BY <1>1, <1>3
  <1> QED
    BY <1>1, <1>2, <1>3, <1>4, SumNatural

\* A promise that is made holds its amount.
LEMMA HeldWithOneMore ==
    ASSUME NEW n \in Nat, NEW ps, NEW qs, DOMAIN ps = 1..n,
           DOMAIN qs = 1..(n + 1), \A k \in 1..n : qs[k] = ps[k],
           \A k \in 1..(n + 1) : qs[k] \in Promise, qs[n + 1].state = "open"
    PROVE  Escrow!HeldAmount(qs) = Escrow!HeldAmount(ps) + qs[n + 1].amount
  <1>1. n + 1 \in Nat /\ n + 1 \in 1..(n + 1) /\ n + 1 \notin 1..n
        /\ 1..(n + 1) = (1..n) \cup {n + 1}
    OBVIOUS
  <1>2. PICK m \in Nat : m = n + 1
    BY <1>1
  <1>3. Holding(qs) = Holding(ps) \cup {m} /\ m \notin Holding(ps)
    BY <1>1, <1>2 DEF Holding
  <1>4. \A k \in 1..n : ps[k] \in Promise
    BY <1>1
  <1>5. \A k \in Holding(ps) : Amounts(qs)[k] = Amounts(ps)[k]
    BY <1>1 DEF Holding, Amounts
  <1>6. \A k \in Holding(ps) \cup {m} : Amounts(qs)[k] \in Int
    BY <1>2, <1>3, HoldingIsFinite
  <1>7. SumFunctionOnSet(Amounts(qs), Holding(ps) \cup {m})
           = Amounts(qs)[m] + SumFunctionOnSet(Amounts(qs), Holding(ps))
    BY <1>3, <1>4, <1>6, HoldingIsFinite, SumAdd
  <1>8. SumFunctionOnSet(Amounts(qs), Holding(ps))
           = SumFunctionOnSet(Amounts(ps), Holding(ps))
    BY <1>4, <1>5, HoldingIsFinite, SumSame
  <1>9. /\ SumFunctionOnSet(Amounts(ps), Holding(ps)) \in Nat
        /\ Amounts(qs)[m] = qs[m].amount /\ qs[m].amount \in Nat
    BY <1>1, <1>2, <1>4, HoldingIsFinite
  <1>10. /\ Escrow!HeldAmount(qs) = SumFunctionOnSet(Amounts(qs), Holding(ps) \cup {m})
         /\ Escrow!HeldAmount(ps) = SumFunctionOnSet(Amounts(ps), Holding(ps))
    BY <1>3, HeldIsSum
  <1> QED
    BY <1>2, <1>7, <1>8, <1>9, <1>10

\* A promise that is paid goes on holding it, one that is refunded does not.
LEMMA HeldAfterSettling ==
    ASSUME NEW n \in Nat, NEW ps, NEW qs, DOMAIN ps = 1..n, DOMAIN qs = 1..n,
           NEW j \in 1..n, ps[j].state = "open",
           \A k \in 1..n : ps[k] \in Promise /\ qs[k] \in Promise,
           \A k \in (1..n) \ {j} : qs[k] = ps[k], qs[j].amount = ps[j].amount
    PROVE  /\ qs[j].state = "paid"
                 => Escrow!HeldAmount(qs) = Escrow!HeldAmount(ps)
           /\ qs[j].state = "refunded"
                 => Escrow!HeldAmount(qs) = Escrow!HeldAmount(ps) - ps[j].amount
  <1>1. \A k \in 1..n : Amounts(qs)[k] = Amounts(ps)[k]
    BY DEF Amounts
  <1>2. j \in Holding(ps) /\ Amounts(ps)[j] = ps[j].amount /\ ps[j].amount \in Nat
    BY HoldingIsFinite DEF Holding
  <1>3. ASSUME qs[j].state = "paid"
        PROVE  Escrow!HeldAmount(qs) = Escrow!HeldAmount(ps)
    <2>1. Holding(qs) = Holding(ps)
      BY <1>3 DEF Holding
    <2>2. SumFunctionOnSet(Amounts(qs), Holding(ps))
             = SumFunctionOnSet(Amounts(ps), Holding(ps))
      BY <1>1, HoldingIsFinite, SumSame
    <2> QED
      BY <2>1, <2>2, HeldIsSum
  <1>4. ASSUME qs[j].state = "refunded"
        PROVE  Escrow!HeldAmount(qs) = Escrow!HeldAmount(ps) - ps[j].amount
    <2>1. Holding(qs) = Holding(ps) \ {j}
      BY <1>4 DEF Holding
    <2>2. IsFiniteSet(Holding(ps) \ {j})
      BY HoldingIsFinite, FS_RemoveElement
    <2>3. SumFunctionOnSet(Amounts(qs), Holding(ps) \ {j})
             = SumFunctionOnSet(Amounts(ps), Holding(ps) \ {j})
      BY <1>1, <2>2, HoldingIsFinite, SumSame
    <2>4. SumFunctionOnSet(Amounts(ps), Holding(ps))
             = Amounts(ps)[j] + SumFunctionOnSet(Amounts(ps), Holding(ps) \ {j})
      BY <1>2, HoldingIsFinite, SumSplit
    <2>5. SumFunctionOnSet(Amounts(ps), Holding(ps) \ {j}) \in Int
      BY <2>2, HoldingIsFinite, SumType
    <2>6. /\ Escrow!HeldAmount(qs) = SumFunctionOnSet(Amounts(qs), Holding(ps) \ {j})
          /\ Escrow!HeldAmount(ps) = SumFunctionOnSet(Amounts(ps), Holding(ps))
      BY <2>1, HeldIsSum
    <2> QED
      BY <1>2, <2>3, <2>4, <2>5, <2>6
  <1> QED
    BY <1>3, <1>4
-----------------------------------------------------------------------------
(* The steps, by what they do to the promises *)

LEMMA TablesKeepPromises ==
    ASSUME authorizations' = authorizations,
           \A a \in Agents : agents'[a].nextNonce = agents[a].nextNonce
    PROVE  EscrowPromises' = EscrowPromises
  BY DEF EscrowPromises, PromiseOf, AuthorizationOf

\* authorizeIntent adds a promise after the agent's others.
LEMMA AuthorizeMakesPromise ==
    ASSUME TypeOK, TypeOK', NoncesInOrder, NoncesInOrder',
           NEW i \in Intents, NEW now \in Now, AuthorizeIntent(i, now)
    PROVE  /\ i.agentId \in Agents
           /\ agents'[i.agentId].nextNonce = agents[i.agentId].nextNonce + 1
           /\ \A k \in 1..agents[i.agentId].nextNonce :
                 EscrowPromises'[i.agentId][k] = EscrowPromises[i.agentId][k]
           /\ EscrowPromises'[i.agentId][agents[i.agentId].nextNonce + 1]
                 = [amount |-> i.amountMicros, state |-> "open"]
           /\ \A b \in Agents \ {i.agentId} : EscrowPromises'[b] = EscrowPromises[b]
  <1>1. PICK id : AppendsToLog(i, id)
    BY AuthorizeAppends
  <1>2. PICK x \in AuthIds : Issues(x)
    BY AuthorizeIssues
  <1>3. x = id
    BY <1>1, <1>2 DEF AppendsToLog, Issues
  <1>4. /\ i.agentId \in Agents /\ i.agentNonce \in Nat
        /\ agents[i.agentId].nextNonce = i.agentNonce
        /\ agents'[i.agentId].nextNonce = i.agentNonce + 1
        /\ \A b \in Agents \ {i.agentId} : agents'[b] = agents[b]
        /\ \A b \in Agents : agents[b].nextNonce \in Nat
    BY <1>1, IntentFields DEF AppendsToLog, TypeOK, AgentRow
  <1>5. /\ authorizations'[id].intent = i /\ authorizations'[id].status = "ISSUED"
        /\ id \in DOMAIN authorizations'
        /\ DOMAIN authorizations \subseteq DOMAIN authorizations'
        /\ \A k \in DOMAIN authorizations : authorizations'[k] = authorizations[k]
    BY <1>1, <1>2, <1>3 DEF AppendsToLog, Issues
  <1>6. ASSUME NEW b \in Agents, NEW k \in 1..agents[b].nextNonce
        PROVE  /\ k \in 1..agents'[b].nextNonce
               /\ EscrowPromises'[b][k] = EscrowPromises[b][k]
    <2>1. PICK named \in DOMAIN authorizations :
             /\ NamedBy(named, b, k - 1)
             /\ EscrowPromises[b][k] = PromiseIn(authorizations[named])
      BY PromiseIsNamed
    <2>2. NamedBy(named, b, k - 1)'
      BY <1>5, <2>1 DEF NamedBy
    <2>3. PromiseOf(b, k - 1)' = PromiseIn(authorizations'[named])
      BY <2>2, PromiseOfNonce
    <2>4. k \in 1..agents'[b].nextNonce
      BY <1>4
    <2>5. EscrowPromises'[b][k] = PromiseOf(b, k - 1)'
      BY <2>4 DEF EscrowPromises
    <2> QED
      BY <1>5, <2>1, <2>3, <2>4, <2>5
  <1>7. EscrowPromises'[i.agentId][agents[i.agentId].nextNonce + 1]
           = [amount |-> i.amountMicros, state |-> "open"]
    <2>1. PICK k : k = i.agentNonce + 1
      OBVIOUS
    <2>2. k \in 1..agents'[i.agentId].nextNonce /\ k - 1 = i.agentNonce
      BY <1>4, <2>1
    <2>3. NamedBy(id, i.agentId, i.agentNonce)'
      BY <1>5 DEF NamedBy
    <2>4. PromiseOf(i.agentId, i.agentNonce)' = PromiseIn(authorizations'[id])
      BY <2>3, PromiseOfNonce
    <2>5. EscrowPromises'[i.agentId][k] = PromiseOf(i.agentId, k - 1)'
      BY <1>4, <2>2 DEF EscrowPromises
    <2>6. PromiseIn(authorizations'[id]) = [amount |-> i.amountMicros, state |-> "open"]
      BY <1>5 DEF PromiseIn, PromiseState
    <2> QED
      BY <1>4, <2>1, <2>2, <2>4, <2>5, <2>6
  <1>8. ASSUME NEW b \in Agents \ {i.agentId}
        PROVE  EscrowPromises'[b] = EscrowPromises[b]
    <2>1. agents'[b].nextNonce = agents[b].nextNonce
      BY <1>4
    <2>2. /\ DOMAIN EscrowPromises[b] = 1..agents[b].nextNonce
          /\ DOMAIN EscrowPromises'[b] = 1..agents[b].nextNonce
          /\ EscrowPromises[b] = [k \in 1..agents[b].nextNonce |-> EscrowPromises[b][k]]
          /\ EscrowPromises'[b] = [k \in 1..agents[b].nextNonce |-> EscrowPromises'[b][k]]
      BY <2>1 DEF EscrowPromises
    <2> QED
      BY <1>6, <2>2
  <1> QED
    BY <1>4, <1>6, <1>7, <1>8

\* An execution or a reclaim settles one open promise.
SettlesPromise(id, state) ==
    LET a == authorizations[id].intent.agentId
        j == authorizations[id].intent.agentNonce + 1
    IN  /\ a \in Agents /\ j \in 1..agents[a].nextNonce
        /\ \A b \in Agents : agents'[b].nextNonce = agents[b].nextNonce
        /\ EscrowPromises[a][j].state = "open"
        /\ EscrowPromises[a][j].amount = authorizations[id].intent.amountMicros
        /\ EscrowPromises'[a][j]
              = [amount |-> authorizations[id].intent.amountMicros, state |-> state]
        /\ \A b \in Agents : \A k \in 1..agents[b].nextNonce :
              b # a \/ k # j => EscrowPromises'[b][k] = EscrowPromises[b][k]

LEMMA ReplacingSettlesPromise ==
    ASSUME TypeOK, TypeOK', NoncesInOrder, NoncesInOrder',
           NEW id, NEW row, Replaces(id, row),
           row.intent = authorizations[id].intent,
           row.status \in {"EXECUTED", "RECLAIMED"},
           \A a \in Agents : agents'[a].nextNonce = agents[a].nextNonce
    PROVE  SettlesPromise(id, PromiseState[row.status])
  <1> DEFINE i == authorizations[id].intent
  <1>1. /\ id \in DOMAIN authorizations /\ authorizations[id].status = "ISSUED"
        /\ DOMAIN authorizations' = DOMAIN authorizations
        /\ authorizations'[id] = row
        /\ \A k \in DOMAIN authorizations \ {id} :
              authorizations'[k] = authorizations[k]
    BY DEF Replaces
  <1>2. PICK a, nonce, amount, j :
           /\ a = i.agentId /\ nonce = i.agentNonce
           /\ amount = i.amountMicros /\ j = nonce + 1
    OBVIOUS
  <1>3. /\ a \in Agents /\ nonce \in Nat /\ amount \in Nat
        /\ j \in 1..agents[a].nextNonce
        /\ NamedBy(id, a, nonce)
        /\ EscrowPromises[a][j] = PromiseIn(authorizations[id])
    BY <1>1, <1>2, NamedIsPromise
  <1>4. EscrowPromises[a][j] = [amount |-> amount, state |-> "open"]
    BY <1>1, <1>2, <1>3 DEF PromiseIn, PromiseState
  <1>5. ASSUME NEW b \in Agents, NEW k \in 1..agents[b].nextNonce, NEW named,
               NamedBy(named, b, k - 1)
        PROVE  EscrowPromises'[b][k] = PromiseIn(authorizations'[named])
    <2>1. NamedBy(named, b, k - 1)'
      BY <1>1, <1>5 DEF NamedBy
    <2>2. PromiseOf(b, k - 1)' = PromiseIn(authorizations'[named])
      BY <2>1, PromiseOfNonce
    <2>3. EscrowPromises'[b][k] = PromiseOf(b, k - 1)'
      BY DEF EscrowPromises
    <2> QED
      BY <2>2, <2>3
  <1>6. EscrowPromises'[a][j] = [amount |-> amount, state |-> PromiseState[row.status]]
    <2>1. j - 1 = nonce
      BY <1>2, <1>3
    <2>2. EscrowPromises'[a][j] = PromiseIn(row)
      BY <1>1, <1>3, <1>5, <2>1
    <2> QED
      BY <1>2, <2>2 DEF PromiseIn
  <1>7. ASSUME NEW b \in Agents, NEW k \in 1..agents[b].nextNonce, (b # a \/ k # j)
        PROVE  EscrowPromises'[b][k] = EscrowPromises[b][k]
    <2>1. PICK named \in DOMAIN authorizations :
             /\ NamedBy(named, b, k - 1)
             /\ EscrowPromises[b][k] = PromiseIn(authorizations[named])
      BY PromiseIsNamed
    <2>2. k - 1 # nonce \/ b # a
      BY <1>2, <1>3, <1>7
    <2>3. named # id
      BY <1>3, <2>1, <2>2 DEF NamedBy
    <2> QED
      BY <1>1, <1>5, <2>1, <2>3
  <1> QED
    BY <1>2, <1>3, <1>4, <1>6, <1>7 DEF SettlesPromise
-----------------------------------------------------------------------------
(* The counters and the table *)

LEMMA PromisesAreWhole ==
    /\ EscrowPromises = [a \in Agents |-> EscrowPromises[a]]
    /\ EscrowPromises' = [a \in Agents |-> EscrowPromises'[a]]
    /\ \A a \in Agents :
          /\ DOMAIN EscrowPromises[a] = 1..agents[a].nextNonce
          /\ DOMAIN EscrowPromises'[a] = 1..agents'[a].nextNonce
          /\ EscrowPromises[a]
                = [k \in 1..agents[a].nextNonce |-> EscrowPromises[a][k]]
          /\ EscrowPromises'[a]
                = [k \in 1..agents'[a].nextNonce |-> EscrowPromises'[a][k]]
  BY DEF EscrowPromises

\* What settling a promise changes: nothing of other agents, and for its own
\* what the promise held, if it is refunded.
LEMMA SettlingMoves ==
    ASSUME TypeOK, NoncesInOrder, NEW id \in DOMAIN authorizations,
           NEW state \in {"paid", "refunded"}, SettlesPromise(id, state)
    PROVE  LET i == authorizations[id].intent
               a == i.agentId
               held == Escrow!HeldAmount(EscrowPromises[a])
           IN  /\ \A b \in Agents \ {a} : EscrowPromises'[b] = EscrowPromises[b]
               /\ EscrowPromises' =
                     [EscrowPromises EXCEPT ![a][i.agentNonce + 1].state = state]
               /\ Escrow!HeldAmount(EscrowPromises'[a])
                     = IF state = "paid" THEN held ELSE held - i.amountMicros
  <1> DEFINE i == authorizations[id].intent
  <1>1. PICK a, j, amount :
           a = i.agentId /\ j = i.agentNonce + 1 /\ amount = i.amountMicros
    OBVIOUS
  <1>2. /\ a \in Agents /\ j \in 1..agents[a].nextNonce
        /\ \A b \in Agents : agents'[b].nextNonce = agents[b].nextNonce
        /\ \A b \in Agents : agents[b].nextNonce \in Nat
        /\ EscrowPromises[a][j].state = "open"
        /\ EscrowPromises[a][j].amount = amount
        /\ EscrowPromises'[a][j] = [amount |-> amount, state |-> state]
        /\ \A b \in Agents : \A k \in 1..agents[b].nextNonce :
              b # a \/ k # j => EscrowPromises'[b][k] = EscrowPromises[b][k]
    BY <1>1 DEF SettlesPromise, TypeOK, AgentRow
  <1>3. PICK n \in Nat : n = agents[a].nextNonce
    BY <1>2
  <1>4. \A k \in 1..n : EscrowPromises[a][k] \in Promise
    BY <1>2, <1>3, PromiseIsNamed
  <1>5. PICK ps, qs : ps = EscrowPromises[a] /\ qs = EscrowPromises'[a]
    OBVIOUS
  <1>6. /\ DOMAIN ps = 1..n /\ DOMAIN qs = 1..n /\ j \in 1..n
        /\ ps = [k \in 1..n |-> ps[k]] /\ qs = [k \in 1..n |-> qs[k]]
        /\ ps[j].state = "open" /\ ps[j].amount = amount
        /\ qs[j] = [amount |-> amount, state |-> state]
        /\ \A k \in (1..n) \ {j} : qs[k] = ps[k]
        /\ \A k \in 1..n : ps[k] \in Promise
    BY <1>2, <1>3, <1>4, <1>5, PromisesAreWhole
  <1>7. qs[j].state = state /\ qs[j].amount = amount /\ qs[j] \in Promise
    BY <1>6 DEF Promise
  <1>8. Escrow!HeldAmount(qs) = IF state = "paid" THEN Escrow!HeldAmount(ps)
                                ELSE Escrow!HeldAmount(ps) - amount
    <2>1. \A k \in 1..n : ps[k] \in Promise /\ qs[k] \in Promise
      <3> SUFFICES ASSUME NEW k \in 1..n PROVE ps[k] \in Promise /\ qs[k] \in Promise
        OBVIOUS
      <3> QED
        BY <1>6, <1>7
    <2>2. /\ qs[j].state = "paid"
                => Escrow!HeldAmount(qs) = Escrow!HeldAmount(ps)
          /\ qs[j].state = "refunded"
                => Escrow!HeldAmount(qs) = Escrow!HeldAmount(ps) - ps[j].amount
      BY <1>6, <1>7, <2>1, HeldAfterSettling, SMTT(30)
    <2>3. CASE state = "paid"
      BY <1>7, <2>2, <2>3
    <2>4. CASE state = "refunded"
      BY <1>6, <1>7, <2>2, <2>4
    <2> QED
      BY <2>3, <2>4
  <1>9. ASSUME NEW b \in Agents \ {a}
        PROVE  EscrowPromises'[b] = EscrowPromises[b]
    <2>1. /\ EscrowPromises[b]
                = [k \in 1..agents[b].nextNonce |-> EscrowPromises[b][k]]
          /\ EscrowPromises'[b]
                = [k \in 1..agents[b].nextNonce |-> EscrowPromises'[b][k]]
      BY <1>2, PromisesAreWhole
    <2>2. \A k \in 1..agents[b].nextNonce :
             EscrowPromises'[b][k] = EscrowPromises[b][k]
      BY <1>2
    <2> QED
      BY <2>1, <2>2
  <1>10. [ps[j] EXCEPT !.state = state] = qs[j]
    BY <1>6 DEF Promise
  <1>11. qs = [ps EXCEPT ![j] = qs[j]]
    BY <1>6
  <1>12. EscrowPromises' = [EscrowPromises EXCEPT ![a] = qs]
    BY <1>5, <1>9, PromisesAreWhole
  <1>13. EscrowPromises' = [EscrowPromises EXCEPT ![a][j].state = state]
    BY <1>5, <1>10, <1>11, <1>12
  <1> QED
    BY <1>1, <1>5, <1>8, <1>9, <1>13

HeldIsOutstanding ==
    \A a \in Agents : agents[a].debitedOutstanding
                         = Escrow!HeldAmount(EscrowPromises[a])

LEMMA StepHeldIsOutstanding ==
    ASSUME TypeOK, TypeOK', NoncesInOrder, NoncesInOrder', HeldIsOutstanding,
           [Next]_vars
    PROVE  HeldIsOutstanding'
  <1>0. /\ \A a \in Agents : agents[a] \in AgentRow
        /\ \A a \in Agents : agents[a].nextNonce \in Nat
        /\ agents = [a \in Agents |-> agents[a]]
    BY DEF TypeOK, AgentRow
  <1> SUFFICES ASSUME NEW b \in Agents
               PROVE  agents'[b].debitedOutstanding
                         = Escrow!HeldAmount(EscrowPromises'[b])
    BY DEF HeldIsOutstanding
  <1>01. agents[b].debitedOutstanding = Escrow!HeldAmount(EscrowPromises[b])
    BY DEF HeldIsOutstanding
  <1>1. CASE Credit
    <2>1. PICK a \in Agents, amount \in CreditAmounts : AdminCredit(a, amount)
      BY <1>1 DEF Credit
    <2> DEFINE new == WithCredit(agents[a], amount)
    <2>2. /\ new.nextNonce = agents[a].nextNonce
          /\ new.debitedOutstanding = agents[a].debitedOutstanding
      BY <1>0, WithCreditRow, LedgerConstants
    <2>3. agents' = [agents EXCEPT ![a] = new] /\ authorizations' = authorizations
      BY <2>1 DEF AdminCredit
    <2> HIDE DEF new
    <2>4. \A x \in Agents :
             /\ agents'[x].nextNonce = agents[x].nextNonce
             /\ agents'[x].debitedOutstanding = agents[x].debitedOutstanding
      BY <1>0, <2>2, <2>3
    <2> QED
      BY <1>01, <2>3, <2>4, TablesKeepPromises
  <1>2. CASE Authorize
    <2>1. PICK i \in Intents, now \in Now : AuthorizeIntent(i, now)
      BY <1>2 DEF Authorize
    <2>2. PICK a, amount : a = i.agentId /\ amount = i.amountMicros
      OBVIOUS
    <2>3. /\ a \in Agents /\ amount \in Nat
          /\ agents[a].balance >= amount
          /\ agents' = [agents EXCEPT ![a] = WithDebit(agents[a], i)]
          /\ i \in Intent
      BY <2>1, <2>2, IntentFields DEF AuthorizeIntent, Affordable, DebitAgent
    <2>4. /\ agents'[a].debitedOutstanding = agents[a].debitedOutstanding + amount
          /\ \A x \in Agents \ {a} : agents'[x] = agents[x]
      BY <1>0, <2>2, <2>3, WithDebitRow
    <2>5. PICK n \in Nat : n = agents[a].nextNonce
      BY <1>0, <2>3
    <2>6. /\ agents'[a].nextNonce = n + 1
          /\ \A k \in 1..n : EscrowPromises'[a][k] = EscrowPromises[a][k]
          /\ EscrowPromises'[a][n + 1] = [amount |-> amount, state |-> "open"]
          /\ \A x \in Agents \ {a} : EscrowPromises'[x] = EscrowPromises[x]
      BY <2>1, <2>2, <2>5, AuthorizeMakesPromise
    <2>7. PICK ps, qs : ps = EscrowPromises[a] /\ qs = EscrowPromises'[a]
      OBVIOUS
    <2>8. \A k \in 1..n : ps[k] \in Promise
      BY <2>3, <2>5, <2>7, PromiseIsNamed
    <2>9. DOMAIN ps = 1..n /\ DOMAIN qs = 1..(n + 1)
      BY <2>3, <2>5, <2>6, <2>7, PromisesAreWhole
    <2>10. /\ \A k \in 1..n : qs[k] = ps[k]
           /\ qs[n + 1] \in Promise
           /\ qs[n + 1].state = "open" /\ qs[n + 1].amount = amount
      BY <2>3, <2>6, <2>7 DEF Promise
    <2>11. \A k \in 1..(n + 1) : qs[k] \in Promise
      <3>1. ASSUME NEW k \in 1..(n + 1) PROVE k \in 1..n \/ k = n + 1
        OBVIOUS
      <3> QED
        BY <2>8, <2>10, <3>1
    <2>12. Escrow!HeldAmount(qs) = Escrow!HeldAmount(ps) + amount
      BY <2>9, <2>10, <2>11, HeldWithOneMore
    <2>13. CASE b = a
      BY <1>01, <2>4, <2>7, <2>12, <2>13
    <2>14. CASE b # a
      BY <1>01, <2>4, <2>6, <2>14
    <2> QED
      BY <2>13, <2>14
  <1>3. CASE ReportStep
    <2>1. PICK id \in DOMAIN authorizations : \E r \in ReportsOn(id), now \in Now :
             RecordExecution(r, now)
      BY <1>3 DEF ReportStep
    <2>2. PICK r \in ReportsOn(id), now \in Now : RecordExecution(r, now)
      BY <2>1
    <2>3. agents' = agents
      BY <2>2 DEF RecordExecution, RecordFailure, RecordSuccess, RecordRepeat
    <2>4. CASE RecordSuccess(r, now)
      <3>1. PICK row : row = Executed(authorizations[id], now)
        OBVIOUS
      <3>2. Replaces(id, row) /\ now \in Nat
        BY <2>4, <3>1, SuccessReplaces
      <3>3. row.intent = authorizations[id].intent /\ row.status = "EXECUTED"
        <4>1. authorizations[id] \in AuthorizationRow
          BY DEF TypeOK
        <4> QED
          BY <3>1, <3>2, <4>1, SettledRow
      <3>4. SettlesPromise(id, "paid")
        BY <2>3, <3>2, <3>3, ReplacingSettlesPromise DEF PromiseState
      <3>5. Escrow!HeldAmount(EscrowPromises'[b])
               = Escrow!HeldAmount(EscrowPromises[b])
        BY <3>4, SettlingMoves
      <3> QED
        BY <1>01, <2>3, <3>5
    <2>5. CASE RecordFailure(r, now) \/ RecordRepeat(r, now)
      <3>1. authorizations' = authorizations
        BY <2>5 DEF RecordFailure, RecordRepeat
      <3> QED
        BY <1>01, <2>3, <3>1, TablesKeepPromises
    <2> QED
      BY <2>2, <2>4, <2>5 DEF RecordExecution
  <1>4. CASE ReclaimStep
    <2>1. PICK id \in DOMAIN authorizations, now \in Now :
             Reclaimable(id, now) /\ CreditBack(id, now)
      BY <1>4 DEF ReclaimStep
    <2>2. PICK row : row = Reclaimed(authorizations[id], now)
      OBVIOUS
    <2>3. Replaces(id, row) /\ now \in Nat
      BY <2>1, <2>2, ReclaimReplaces
    <2>4. row.intent = authorizations[id].intent /\ row.status = "RECLAIMED"
      <3>1. authorizations[id] \in AuthorizationRow
        BY DEF TypeOK
      <3> QED
        BY <2>2, <2>3, <3>1, SettledRow
    <2>5. PICK a, amount : a = authorizations[id].intent.agentId
                           /\ amount = authorizations[id].intent.amountMicros
      OBVIOUS
    <2>6. /\ a \in Agents /\ amount \in Nat
          /\ agents[a].debitedOutstanding >= amount
          /\ agents' = [agents EXCEPT ![a] = WithRefund(agents[a], amount)]
      BY <2>1, <2>5, NamedIsPromise DEF Reclaimable, CreditBack
    <2>7. /\ agents'[a].debitedOutstanding = agents[a].debitedOutstanding - amount
          /\ agents'[a].nextNonce = agents[a].nextNonce
          /\ \A x \in Agents \ {a} : agents'[x] = agents[x]
      BY <1>0, <2>6, WithRefundRow
    <2>8. SettlesPromise(id, "refunded")
      <3>1. \A x \in Agents : agents'[x].nextNonce = agents[x].nextNonce
        BY <2>7
      <3> QED
        BY <2>3, <2>4, <3>1, ReplacingSettlesPromise DEF PromiseState
    <2>9. /\ \A x \in Agents \ {a} : EscrowPromises'[x] = EscrowPromises[x]
          /\ Escrow!HeldAmount(EscrowPromises'[a])
                = Escrow!HeldAmount(EscrowPromises[a]) - amount
      BY <2>5, <2>8, SettlingMoves
    <2>10. CASE b = a
      BY <1>01, <2>7, <2>9, <2>10
    <2>11. CASE b # a
      BY <1>01, <2>7, <2>9, <2>11
    <2> QED
      BY <2>10, <2>11
  <1>5. CASE RunCommitmentEpoch \/ Quiet
    BY <1>01, <1>5, TablesKeepPromises DEF RunCommitmentEpoch, Quiet
  <1> QED
    BY <1>1, <1>2, <1>3, <1>4, <1>5, StepCases
LEMMA InitHeldIsOutstanding == Init => HeldIsOutstanding
  <1> SUFFICES ASSUME Init, NEW a \in Agents
               PROVE  agents[a].debitedOutstanding
                         = Escrow!HeldAmount(EscrowPromises[a])
    BY DEF HeldIsOutstanding
  <1>1. agents[a].debitedOutstanding = 0 /\ agents[a].nextNonce = 0
    BY DEF Init
  <1>2. DOMAIN EscrowPromises[a] = {}
    BY <1>1 DEF EscrowPromises
  <1>3. Holding(EscrowPromises[a]) = {}
    BY <1>2 DEF Holding
  <1>4. Escrow!HeldAmount(EscrowPromises[a]) = 0
    BY <1>3, HeldIsSum, SumOfNothing
  <1> QED
    BY <1>1, <1>4

LEMMA CountersMatchParts ==
    ASSUME TypeOK, CreditConserved, HeldIsOutstanding, NEW a \in Agents
    PROVE  /\ agents[a].balance = Escrow!Available(a)
           /\ agents[a].debitedOutstanding = Escrow!HeldAmount(EscrowPromises[a])
  <1>1. /\ agents[a].balance \in Nat /\ agents[a].debitedOutstanding \in Nat
        /\ agents[a].balance + agents[a].debitedOutstanding = agents[a].credited
    BY DEF TypeOK, AgentRow, CreditConserved
  <1>2. agents[a].debitedOutstanding = Escrow!HeldAmount(EscrowPromises[a])
    BY DEF HeldIsOutstanding
  <1>3. EscrowCredited[a] = agents[a].credited
    BY DEF EscrowCredited
  <1>4. Escrow!Available(a) = EscrowCredited[a] - Escrow!HeldAmount(EscrowPromises[a])
    BY DEF Escrow!Available
  <1> QED
    BY <1>1, <1>2, <1>3, <1>4

LEMMA HeldIsAlwaysOutstanding == Spec => []HeldIsOutstanding
  <1>1. LogHashChain => NoncesInOrder
    BY LogHashChainParts
  <1>2. LogHashChain' => NoncesInOrder'
    BY LogHashChainParts
  <1> QED
    BY <1>1, <1>2, InitHeldIsOutstanding, StepHeldIsOutstanding, TypeCorrect,
       LogIsChained, PTL DEF Spec

\* The counters updated in place by every transaction say what the table of
\* authorizations adds up to: balance_micros what no promise holds,
\* debited_outstanding_micros what the promises hold.
THEOREM CountersMatch == Spec => []CountersMatchTable
  <1>1. TypeOK /\ CreditConserved /\ HeldIsOutstanding => CountersMatchTable
    BY CountersMatchParts DEF CountersMatchTable
  <1> QED
    BY <1>1, TypeCorrect, CreditIsConserved, HeldIsAlwaysOutstanding, PTL
-----------------------------------------------------------------------------
(* The ledger implements the escrow *)

escrowVars == <<EscrowCredited, EscrowPromises>>

LEMMA InitEscrow == Init => Escrow!Init
  <1> SUFFICES ASSUME Init PROVE Escrow!Init
    OBVIOUS
  <1>1. \A a \in Agents : agents[a].nextNonce = 0 /\ agents[a].credited = 0
    BY DEF Init
  <1>2. EscrowCredited = [a \in Agents |-> 0]
    BY <1>1 DEF EscrowCredited
  <1>3. \A a \in Agents : EscrowPromises[a] = << >>
    BY <1>1 DEF EscrowPromises
  <1>4. EscrowPromises = [a \in Agents |-> << >>]
    BY <1>3, PromisesAreWhole
  <1> QED
    BY <1>2, <1>4 DEF Escrow!Init

LEMMA SameCredit ==
    ASSUME \A a \in Agents : agents'[a].credited = agents[a].credited
    PROVE  EscrowCredited' = EscrowCredited
  BY DEF EscrowCredited

LEMMA CreditDeposits ==
    ASSUME TypeOK, NEW a \in Agents, NEW amount \in CreditAmounts,
           AdminCredit(a, amount)
    PROVE  Escrow!Deposit(a)
  <1>1. agents = [x \in Agents |-> agents[x]] /\ agents[a] \in AgentRow
    BY DEF TypeOK
  <1>2. amount \in Nat \ {0} /\ agents[a].credited \in Nat
    BY <1>1, LedgerConstants DEF AgentRow
  <1>3. PICK new : new = WithCredit(agents[a], amount)
    OBVIOUS
  <1>4. /\ new.credited = agents[a].credited + amount
        /\ new.nextNonce = agents[a].nextNonce
    BY <1>1, <1>2, <1>3, WithCreditRow
  <1>5. agents' = [agents EXCEPT ![a] = new] /\ authorizations' = authorizations
    BY <1>3 DEF AdminCredit
  <1>6. /\ agents'[a] = new
        /\ \A x \in Agents \ {a} : agents'[x] = agents[x]
    BY <1>1, <1>5
  <1>7. EscrowPromises' = EscrowPromises
    <2>1. \A x \in Agents : agents'[x].nextNonce = agents[x].nextNonce
      BY <1>4, <1>6
    <2> QED
      BY <1>5, <2>1, TablesKeepPromises
  <1>8. /\ EscrowCredited = [x \in Agents |-> EscrowCredited[x]]
        /\ EscrowCredited' = [x \in Agents |-> EscrowCredited'[x]]
        /\ \A x \in Agents : EscrowCredited[x] = agents[x].credited
        /\ \A x \in Agents : EscrowCredited'[x] = agents'[x].credited
    BY DEF EscrowCredited
  <1>9. EscrowCredited'[a] > EscrowCredited[a]
    BY <1>2, <1>4, <1>6, <1>8
  <1>10. \A x \in Agents \ {a} : EscrowCredited'[x] = EscrowCredited[x]
    BY <1>6, <1>8
  <1>11. EscrowCredited' = [EscrowCredited EXCEPT ![a] = EscrowCredited'[a]]
    BY <1>8, <1>10
  <1> QED
    BY <1>7, <1>9, <1>11 DEF Escrow!Deposit

LEMMA AuthorizeMakesEscrowPromise ==
    ASSUME TypeOK, TypeOK', NoncesInOrder, NoncesInOrder', CreditConserved,
           HeldIsOutstanding, NEW i \in Intents, NEW now \in Now,
           AuthorizeIntent(i, now)
    PROVE  Escrow!MakePromise(i.agentId)
  <1>1. PICK a, amount, new :
           /\ a = i.agentId /\ amount = i.amountMicros
           /\ new = WithDebit(agents[a], i)
    OBVIOUS
  <1>2. /\ a \in Agents /\ amount \in Nat /\ i \in Intent
        /\ amount > 0 /\ agents[a].balance >= amount
        /\ agents' = [agents EXCEPT ![a] = new]
    BY <1>1, IntentFields DEF AuthorizeIntent, Affordable, DebitAgent
  <1>3. /\ agents = [x \in Agents |-> agents[x]] /\ agents[a] \in AgentRow
        /\ agents[a].nextNonce \in Nat /\ agents[a].balance \in Nat
    BY <1>2 DEF TypeOK, AgentRow
  <1>4. EscrowCredited' = EscrowCredited
    <2>1. new.credited = agents[a].credited
      BY <1>1, <1>2, <1>3, WithDebitRow
    <2>2. \A x \in Agents : agents'[x].credited = agents[x].credited
      BY <1>2, <1>3, <2>1
    <2> QED
      BY <2>2, SameCredit
  <1>5. amount \in 1..Escrow!Available(a)
    <2>1. agents[a].balance = Escrow!Available(a)
      BY <1>2, CountersMatchParts
    <2> QED
      BY <1>2, <1>3, <2>1
  <1>6. PICK n \in Nat : n = agents[a].nextNonce
    BY <1>3
  <1>7. PICK ps, qs, made :
           /\ ps = EscrowPromises[a] /\ qs = EscrowPromises'[a]
           /\ made = [amount |-> amount, state |-> "open"]
    OBVIOUS
  <1>8. /\ agents'[a].nextNonce = n + 1
        /\ \A k \in 1..n : qs[k] = ps[k]
        /\ qs[n + 1] = made
        /\ \A x \in Agents \ {a} : EscrowPromises'[x] = EscrowPromises[x]
    BY <1>1, <1>6, <1>7, AuthorizeMakesPromise
  <1>9. /\ ps = [k \in 1..n |-> ps[k]] /\ qs = [k \in 1..(n + 1) |-> qs[k]]
        /\ DOMAIN ps = 1..n /\ DOMAIN qs = 1..(n + 1)
    BY <1>2, <1>6, <1>7, <1>8, PromisesAreWhole
  <1>10. \A k \in 1..n : ps[k] \in Promise
    BY <1>2, <1>6, <1>7, PromiseIsNamed
  <1>11. made \in Promise
    BY <1>2, <1>7 DEF Promise
  <1>12. qs = Append(ps, made)
    <2>1. ps \in Seq(Promise) /\ Len(ps) = n
      BY <1>9, <1>10
    <2>2. /\ Append(ps, made) \in Seq(Promise)
          /\ Len(Append(ps, made)) = n + 1
          /\ \A k \in 1..n : Append(ps, made)[k] = ps[k]
          /\ Append(ps, made)[n + 1] = made
      BY <1>11, <2>1
    <2>3. \A k \in 1..(n + 1) : qs[k] = Append(ps, made)[k]
      <3>1. ASSUME NEW k \in 1..(n + 1) PROVE k \in 1..n \/ k = n + 1
        OBVIOUS
      <3> QED
        BY <1>8, <2>2, <3>1
    <2>4. Append(ps, made) = [k \in 1..(n + 1) |-> Append(ps, made)[k]]
      <3>1. \A s \in Seq(Promise) : s = [k \in 1..Len(s) |-> s[k]]
        OBVIOUS
      <3> QED
        BY <2>2, <3>1
    <2> QED
      BY <1>9, <2>3, <2>4
  <1>13. EscrowPromises' = [EscrowPromises EXCEPT ![a] = Append(@, made)]
    BY <1>2, <1>7, <1>8, <1>12, PromisesAreWhole
  <1> QED
    BY <1>1, <1>4, <1>5, <1>7, <1>13 DEF Escrow!MakePromise

LEMMA SettlingIsEscrowSettle ==
    ASSUME TypeOK, NoncesInOrder, NEW id \in DOMAIN authorizations,
           NEW state \in {"paid", "refunded"}, SettlesPromise(id, state),
           \A a \in Agents : agents'[a].credited = agents[a].credited
    PROVE  \E a \in Agents : \E k \in DOMAIN EscrowPromises[a] :
              Escrow!Settle(a, k, state)
  <1>1. PICK a, j : /\ a = authorizations[id].intent.agentId
                    /\ j = authorizations[id].intent.agentNonce + 1
    OBVIOUS
  <1>2. /\ a \in Agents /\ j \in 1..agents[a].nextNonce
        /\ EscrowPromises[a][j].state = "open"
    BY <1>1 DEF SettlesPromise
  <1>3. j \in DOMAIN EscrowPromises[a]
    BY <1>2, PromisesAreWhole
  <1>4. EscrowPromises' = [EscrowPromises EXCEPT ![a][j].state = state]
    BY <1>1, SettlingMoves
  <1>5. Escrow!Settle(a, j, state)
    BY <1>2, <1>4, SameCredit DEF Escrow!Settle
  <1> QED
    BY <1>2, <1>3, <1>5
EscrowStep == Escrow!Next \/ UNCHANGED escrowVars

LEMMA StepIsEscrowStep ==
    ASSUME TypeOK, TypeOK', NoncesInOrder, NoncesInOrder', CreditConserved,
           HeldIsOutstanding, [Next]_vars
    PROVE  EscrowStep
  <1>0. /\ agents = [a \in Agents |-> agents[a]]
        /\ \A a \in Agents : agents[a] \in AgentRow
    BY DEF TypeOK
  <1>1. CASE Credit
    <2>1. PICK a \in Agents, amount \in CreditAmounts : AdminCredit(a, amount)
      BY <1>1 DEF Credit
    <2>2. Escrow!Deposit(a)
      BY <2>1, CreditDeposits
    <2> QED
      BY <2>2 DEF EscrowStep, Escrow!Next
  <1>2. CASE Authorize
    <2>1. PICK i \in Intents, now \in Now : AuthorizeIntent(i, now)
      BY <1>2 DEF Authorize
    <2>2. Escrow!MakePromise(i.agentId) /\ i.agentId \in Agents
      BY <2>1, AuthorizeMakesEscrowPromise, IntentFields
    <2> QED
      BY <2>2 DEF EscrowStep, Escrow!Next
  <1>3. CASE ReportStep
    <2>1. PICK id \in DOMAIN authorizations : \E r \in ReportsOn(id), now \in Now :
             RecordExecution(r, now)
      BY <1>3 DEF ReportStep
    <2>2. PICK r \in ReportsOn(id), now \in Now : RecordExecution(r, now)
      BY <2>1
    <2>3. agents' = agents
      BY <2>2 DEF RecordExecution, RecordFailure, RecordSuccess, RecordRepeat
    <2>4. CASE RecordSuccess(r, now)
      <3>1. PICK row : row = Executed(authorizations[id], now)
        OBVIOUS
      <3>2. Replaces(id, row) /\ now \in Nat
        BY <2>4, <3>1, SuccessReplaces
      <3>3. row.intent = authorizations[id].intent /\ row.status = "EXECUTED"
        <4>1. authorizations[id] \in AuthorizationRow
          BY DEF TypeOK
        <4> QED
          BY <3>1, <3>2, <4>1, SettledRow
      <3>4. SettlesPromise(id, "paid")
        BY <2>3, <3>2, <3>3, ReplacingSettlesPromise DEF PromiseState
      <3>5. \E a \in Agents : \E k \in DOMAIN EscrowPromises[a] :
               Escrow!Settle(a, k, "paid")
        BY <2>3, <3>4, SettlingIsEscrowSettle
      <3> QED
        BY <3>5 DEF EscrowStep, Escrow!Next
    <2>5. CASE RecordFailure(r, now) \/ RecordRepeat(r, now)
      <3>1. authorizations' = authorizations
        BY <2>5 DEF RecordFailure, RecordRepeat
      <3>2. EscrowPromises' = EscrowPromises /\ EscrowCredited' = EscrowCredited
        BY <2>3, <3>1, TablesKeepPromises, SameCredit
      <3> QED
        BY <3>2 DEF EscrowStep, escrowVars
    <2> QED
      BY <2>2, <2>4, <2>5 DEF RecordExecution
  <1>4. CASE ReclaimStep
    <2>1. PICK id \in DOMAIN authorizations, now \in Now :
             Reclaimable(id, now) /\ CreditBack(id, now)
      BY <1>4 DEF ReclaimStep
    <2>2. PICK row : row = Reclaimed(authorizations[id], now)
      OBVIOUS
    <2>3. Replaces(id, row) /\ now \in Nat
      BY <2>1, <2>2, ReclaimReplaces
    <2>4. row.intent = authorizations[id].intent /\ row.status = "RECLAIMED"
      <3>1. authorizations[id] \in AuthorizationRow
        BY DEF TypeOK
      <3> QED
        BY <2>2, <2>3, <3>1, SettledRow
    <2>5. PICK a, amount, new :
             /\ a = authorizations[id].intent.agentId
             /\ amount = authorizations[id].intent.amountMicros
             /\ new = WithRefund(agents[a], amount)
      OBVIOUS
    <2>6. /\ a \in Agents /\ amount \in Nat
          /\ agents[a].debitedOutstanding >= amount
          /\ agents' = [agents EXCEPT ![a] = new]
      BY <2>1, <2>5, NamedIsPromise DEF Reclaimable, CreditBack
    <2>7. /\ new.credited = agents[a].credited
          /\ new.nextNonce = agents[a].nextNonce
      BY <1>0, <2>5, <2>6, WithRefundRow
    <2>8. \A x \in Agents : /\ agents'[x].nextNonce = agents[x].nextNonce
                            /\ agents'[x].credited = agents[x].credited
      BY <1>0, <2>6, <2>7
    <2>9. SettlesPromise(id, "refunded")
      BY <2>3, <2>4, <2>8, ReplacingSettlesPromise DEF PromiseState
    <2>10. \E x \in Agents : \E k \in DOMAIN EscrowPromises[x] :
              Escrow!Settle(x, k, "refunded")
      BY <2>8, <2>9, SettlingIsEscrowSettle
    <2> QED
      BY <2>10 DEF EscrowStep, Escrow!Next
  <1>5. CASE RunCommitmentEpoch \/ Quiet
    <2>1. agents' = agents /\ authorizations' = authorizations
      BY <1>5 DEF RunCommitmentEpoch, Quiet
    <2>2. EscrowPromises' = EscrowPromises /\ EscrowCredited' = EscrowCredited
      BY <2>1, TablesKeepPromises, SameCredit
    <2> QED
      BY <2>2 DEF EscrowStep, escrowVars
  <1> QED
    BY <1>1, <1>2, <1>3, <1>4, <1>5, StepCases

\* Every history of the ledger is one of the escrow: a credit deposits, an
\* authorization makes a promise from funds no other promise holds, an
\* execution pays one open promise and a reclaim, the sweeper's too, refunds
\* one; reports that change nothing, epochs and the clock are stuttering steps.
THEOREM LedgerImplementsEscrow == Spec => ImplementsEscrow
  <1>1. LogHashChain => NoncesInOrder
    BY LogHashChainParts
  <1>2. LogHashChain' => NoncesInOrder'
    BY LogHashChainParts
  <1>3. EscrowStep <=> [Escrow!Next]_escrowVars
    BY DEF EscrowStep
  <1>4. TypeOK /\ TypeOK' /\ LogHashChain /\ LogHashChain' /\ CreditConserved
        /\ HeldIsOutstanding /\ [Next]_vars => [Escrow!Next]_escrowVars
    BY <1>1, <1>2, <1>3, StepIsEscrowStep
  <1>5. Init => Escrow!Init
    BY InitEscrow
  <1>6. Spec => Escrow!Init /\ [][Escrow!Next]_escrowVars
    BY <1>4, <1>5, TypeCorrect, LogIsChained, CreditIsConserved,
       HeldIsAlwaysOutstanding, PTL DEF Spec
  <1> QED
    BY <1>6 DEF ImplementsEscrow, Escrow!Spec, escrowVars
=============================================================================
