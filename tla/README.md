# Verification of shielded-x402

TLA+ modules that model the parts of shielded-x402 that keep state, the TLC
configurations that check them on small instances, and theorems about them that
the TLA+ proof system proves for every value of the constants. `PROJECT.json`
lists the components, the runs, the lines of the code each definition models,
the hazards the properties are for, and for each property a plausible bug that
makes it fail.

The repository holds two payment systems that share the x402 headers:

- **multi-chain credit**: an agent is credited off line, the *sequencer* grants
  it signed authorizations, a *relayer* of the authorized chain carries out a
  merchant request and reports to the sequencer, which settles or reclaims; hourly the
  sequencer commits its log of authorizations to a registry contract on Base. A
  settlement contract lets an agent and a relayer close a credit channel;
- **shielded payments**: a wallet holds notes in a pool contract and pays a
  merchant with a proof that spends one; the merchant's gateway answers 402 with
  a challenge, checks the payment, settles it on the pool and serves.

Beside them an *agent directory* (ERC-8004) tells a payer who an agent is and at
which endpoint it takes payment: an indexer of the registry's events, and a
client that asks several providers.

## Inventory

| component | state | operations | how it interacts | hard about it |
|---|---|---|---|---|
| credit ledger (`credit-sequencer/src/services/ledger.ts`, `db`) | PostgreSQL tables agents, idempotency_keys, authorizations, executions, execution_attempts, auth_leaves, commitments, sequencer_counters, relayer_keys | credit, authorize, record an execution, reclaim, commit an epoch, inclusion proof | HTTP routes call it, each in one READ COMMITTED transaction; two timers call it | interleaved transactions, rows read before they are written, lock order, retries, late reports, grace window |
| sequencer process (`server.ts`) | timers | sweep expired authorizations (at most 200), commit an epoch | calls ledger and posting | a pass that overlaps the next, starvation in a bounded batch |
| commitment posting (`commitments.ts`, `CommitmentRegistryV1.sol`) | posters in progress, posted_at, mempool, the registry | post an epoch, wait, record | after the commit, outside any transaction | crash between commit and post, overlap, gas estimated before inclusion |
| payment relayer (`payment-relayer/src/server.ts`) | none between calls | `/v1/relay/pay` | checks the sequencer's signature, calls the merchant, reports three times | repeated calls, lost answers, late reports |
| settlement contract (`CreditChannelSettlement.sol`) | channels, escrow | openOrTopup, startClose, challengeClose, finalizeClose | states co-signed off chain | stale closes, windows, top-ups between signing and closing, reuse of an id |
| shielded pool (`ShieldedPool.sol`), circuit, wallet tree (`sdk/client`) | incremental tree, nullifiers, roots, spend records; indexer's leaves, notes | deposit, submitSpend, withdraw; ingest, prepare a payment | events, proofs against an older root | three tree algorithms that must agree, old roots, a full tree |
| merchant SDK and gateway (`sdk/merchant`, `merchant-gateway`) | challenges, accepted payments, in memory | issue402, verifyShieldedPayment, settleOnchain, confirmSettlement | reads and writes the pool by RPC | six awaits in one request, other requests in between, restart |
| messages and Merkle proofs (`shared-types/src/sequencer.ts`, `crypto.ts`) | none | canonical encodings, hashes, ids, buildMerkleRoot, buildMerkleProof, verifyMerkleProof | agents, sequencer and relayers sign and hash, the others verify; auditors check proofs | odd sizes, fields of variable length, optional fields, two signature schemes |
| credit client (`multiChainCredit.ts`) | none | pay = authorize, then relayPay | sequencer, then the relayer of the chain | calls that overlap, lost answers, requests that arrive after their caller gave up; a retry is another intent |
| directory client (`erc8004-adapter`), choice of endpoint (`counterpartyPolicy.ts`) | resolveCache, shared by all calls | resolveAgent, search, selectCounterpartyEndpoint | asks registry (RPC), index (GraphQL) and scan API one after another | slow calls that overlap, providers that fail or lag, filters of different callers over one cache |
| event indexer (`envio-erc8004-indexer`) | one row for each agent | one handler for each event | reads the registry's log, serves the directory client | rows updated in place by events that are silent on most columns |
| Solana gateway (`lib.rs`), adapters | one root | set root, pay_authorized | relayer's payout on Solana | not modelled |
| others | none | validation, request-format adapters, shieldedFetch, calls to the prover | | pure conversions and I/O |

What makes the core correct, in a sentence each:

- ledger: credit is conserved, a promise is settled once, a request id buys one
  authorization, the log has no gap or fork and its epochs can be proved;
- posting: what is on Base is the ledger's history;
- relayer: what is recorded was carried out for that authorization, what is
  answered DONE is recorded;
- channel: an accepted close is payable, and the newest state wins;
- pool: its books close to the unit, a spend is final, a prepared payment stays
  good;
- gateway: what is served is paid, and by its own spend; every request ends;
- credit client: credit that was granted is spent or comes back;
- messages: what was signed or hashed is one message, and a proof shows its leaf;
- directory: an answer is recent, a provider's failure is not an absence, and an
  endpoint chosen for payment is one the agent had not long ago.

## Modules

```
CreditEscrow <--refined by-- CreditLedgerRefinement --extends--> CreditLedger
CreditLedger <--extended by-- LedgerTx            (and implemented by it)
CreditLedger <--extended by-- CommitmentPosting   (registry on Base)
CreditLedger <--extended by-- PaymentRelayer <--extended by-- CreditClient
CreditLedgerRefinement <--extended by-- CreditLedgerProofs
CreditLedgerProofs <--extended by-- SequencerProofs (of LedgerTx and
                                    CommitmentPosting), CreditClientProofs
CreditChannelSettlement <-- CreditChannelSettlementProofs
ShieldedTree <-- ShieldedPool <-- ShieldedPoolProofs
FiniteSums <--extended by-- CreditLedgerProofs, CreditChannelSettlementProofs,
                            ShieldedPoolProofs, AgentDirectoryProofs,
                            MessageProofs
MerkleProofs, CanonicalBytes <-- WireFormats
MerchantGateway, WireFormats <-- MessageProofs
AgentProfiles <-- AgentDirectory <-- AgentDirectoryProofs
MC*: an instance of each for TLC
```

**CreditLedger** is the core. Each table is a function from its key to its row
and its domain the rows there are. An action is one committed transaction of
`ledger.ts` or `commitments.ts`; a request the code refuses rolls back and
changes nothing. `nowSeconds()` is read before `withTx`, so a transaction that
waits for its locks decides on an old time: every action takes any `now` that is
not in the future. Hashes stand for what they commit to: an intent hash is the
intent, an authId the triple it is derived from, a leaf hash the chain of
authIds up to it. `Sweeper` is the query with its LIMIT and the reclaims, one
transaction each; a reclaim that fails is skipped as the code skips it.

**CreditEscrow** says what an agent may expect, without tables, nonces, reports
and clocks: a promise is made only from funds no promise holds, and is settled
once. `CreditLedgerRefinement` maps the tables to it (`ImplementsEscrow`).

**LedgerTx** takes the transactions apart: `SELECT ... FOR UPDATE` waits for the
row's lock and reads the last committed row, what was read is kept and written
back as absolute values, an absent row locks nothing, locks end with the
transaction, a cycle of waits is aborted, and any transaction may be cut off at
any statement. A reclaim is checked before the agent row is locked if the
sequencer asks for it and after that if the agent does, whose key is in the
row. It is what justifies the atomic actions of CreditLedger
(`ImplementsLedger`, checked and proved).

**CommitmentPosting** adds the second half of `runCommitmentEpoch`: a poster for
each epoch, the mempool of the posting account, the registry, errors, lost
transactions and restarts. Gas is estimated before sending, on the latest or
the pending block as the node likes; the receipt's status is not looked at.

**PaymentRelayer** adds relayers: calls of `/v1/relay/pay` that overlap and
repeat, the merchant request each call brings along, reports in flight that
arrive late or never, three attempts, relayers that stop. Whom a merchant
request pays, how much, and for the EVM over which RPC node is what the caller
wrote into it (`server.ts:238-337`); the handler compares neither payee nor
amount with the `merchantId` and `authorizedAmountMicros` of the authorization,
and so does the model: a payout carries the request of its call.

**CreditClient** puts an agent in front of them: calls of `pay()` for one
request, at the same time or one after the other, each with the expiry of its
own time; requests that reach their server late, also when the caller has given
up; answers that are lost; a client whose configuration names the right relayer,
none, or another chain's. It is the composition of client, relayers and ledger.

**CreditChannelSettlement** is the contract, function by function, with
`CoSign` for the signing that happens in no code of the repository. The asset
is one that transfers exactly what it is asked to: `openOrTopup` does not
compare its balance before and after, as `ShieldedPool.sol:79-82` does.

**ShieldedPool** is the contract with a wallet of the client SDK: its indexer
reads the events in order, its payments are prepared from the tree it knows and
submitted at any time and any number of times. A nullifier is derived from the
note and from a secret that each payment names anew: `prepare402Payment` takes
it as an argument (`client.ts:157`) and the circuit as a private input it ties
to nothing else (`main.nr:73`). A deposit takes a commitment to any amount. The
verifier accepts a proof when the circuit's outputs are the public inputs. **ShieldedTree** holds the
three tree algorithms: the contract's insertion path, the SDK's rebuilt levels
and the circuit's fold.

**MerchantGateway** has one action for what the middleware does from one await
to the next, with the on-chain adapters of the safe mode.

**MerkleProofs** holds the functions over one epoch; its state is the epoch,
which grows by a leaf as a step of `FormatsSpec` does that makes no message.
**CanonicalBytes** holds the encodings, byte for byte in a narrower format: a
byte is a digit, a hash two of them. Hashes have no collisions: bytes stand for
their digest. **WireFormats** has the messages of all parties as its inputs and
compares what their keys sign and under which hashes they are filed.

**AgentProfiles** holds the forms in which an agent is known (document, indexed
row, profile of each provider) and the conversions between them: the indexer's
handlers, the mappers of the providers, merge, filters, choice of endpoint.
An address is marked as a URL or as a mere identifier, as only the former can be
paid: a `did`, `ens` or `email` has a URL when a document gives it in an object
with one. The indexer reads the bytes of a wallet as text, so an account is
stored as one only if its bytes make no text (`StoredWallet`).
**AgentDirectory** runs them: the registry's log with block times, the indexer
that handles it at its own pace, and calls of the directory client with one
action from each await to the next, over a cache they share. A provider may
fail, be without an agent it should have (a page of a search, a 404 of the scan
API, an error of the RPC node), or have no registry for the chain at all
(`onchainUnset`); `unchecked` is a history variable that marks the answers made
with a null of the last three sorts.

**FiniteSums** models nothing: it has the lemmas about sums over finite sets
that the proofs about money share (a sum is the value at any one element and the
sum over the rest), and the induction over numbers and subsets they rest on.

## Runs

Twelve runs, each within five minutes on two workers.

| run | distinct states | what it shows |
|---|---|---|
| `ledger_safety` | 152,944 | `CreditConserved`, `CountersMatchTable`: money; `SettledOnce`, `SettlementIsFinal`: settlement; `IdempotencyExact`: grants; `LogHashChain`, `CommitmentsProvable`, `LogIsAppendOnly`: the log, the nonces along it and its epochs; `TypeOK` |
| `ledger_escrow` | 26,380 | the ledger implements the escrow; every authorization is executed or reclaimed although a pass takes one row; every leaf is committed |
| `ledger_accepted_debit` | violation | the sentence of the docs on accepted debit, see Findings |
| `tx` | 180,916 | statement by statement, the ledger does what the atomic one does (`ImplementsLedger`); repeated requests get the same answer; the only lock cycle is replay against reclaim; every request ends, also after a deadlock |
| `posting` | 1,468 | `RegistryFollowsLedger`: under failures, restarts and overlap the registry has a prefix of the ledger's epochs, and an epoch recorded as posted is on it; undisturbed, every epoch gets there |
| `posting_failure` | violation | one failure ends posting, see Findings |
| `relayer` | 329,751 | recorded executions go back to a merchant request carried out for them; DONE is recorded, for the intent that call of `pay()` signed; a refunded authorization is not taken on; what calls of `pay()` were granted is spent or comes back |
| `channel` | 547,515 | escrow is backed, closes are covered and move forward, the newest state prevails where a party watches, closes settle |
| `pool` | 340,209 | contract, SDK and circuit agree on the tree until it is full; prepared payments stay good; the pool's books close to the unit; spends are final |
| `gateway` | 707,502 | what is served is paid by its own spend; requests are answered; a charged wallet is served when nothing fails |
| `formats` | 2,121 | `ProofsExact`: a served proof verifies for its own leaf and index and no other, and root and count stand for one epoch; `BytesStandForOneMessage` |
| `directory` | 472,016 | answers are recent; absence was said by the registry or the index, or a provider of that very answer could not know better; `PayeesAreCurrent`: an endpoint chosen for payment is one the agent had not long ago, whatever was merged and cached; the index says what the events said last |

Bounds, and why they are enough:

- ledger: two agents, three request ids and seven intents chosen for their
  conflicts (same request with another amount, same nonce on another chain, a
  foreign key, an unserved chain); two report ids and two hashes, for which the
  model is symmetric; clock 0..2 with a grace of 1 passes every comparison on
  both sides; credit 2 against amounts 1 and 2 makes funds run out; LIMIT 1
  makes the sweeper's batch smaller than its work;
- transactions: two agents that use one request id, so that an absent row is
  waited for by both; two sessions, so lock cycles of two. A transaction takes at
  most an agent, a request, an authorization or relayer key and the counters,
  in the order the module lists, and the cycle found is the only pair of
  opposite orders;
- posting: three epochs can be under way at once, with two failures;
- relayer: two calls of `pay()` for one request, so two intents when their
  expiries differ and one when they do not; two chains; three attempts for each
  report. The second payout may have the first one's transaction hash or another
  (`TxHashesOf`). A request or report may stay in flight for ever, which is its
  loss. `ClockHasRoom` starts a call only when its intent can still expire
  before `MaxClock`;
- channel: two channels so that one could pay out of the other's escrow, two
  agents of whom one watches; `ClockHasRoom` starts a close only when `MaxTime`
  lets the windows of all its challenges end, so that no bound cuts a close off;
- pool: a tree of depth 3 has eight leaves and fills up with three deposits and
  three payments of two leaves each, after odd and even insertions at every
  level; each random number is a fresh one (`lastRho`); two secrets, and a note
  that claims what is deposited with it or more;
- gateway: two requests, since requests meet only through a nullifier or a
  challenge; two notes and two challenges, the price and another amount, a
  challenge that expires at once or not, one failed call or restart;
- formats: six leaves have odd sizes at two levels (3 of 6 leaves, 5 and its
  3 parents); three hashes, so leaves repeat. A message is wrong bytes because a
  field is left out, shifted or runs over into the next, which shows between
  messages that differ in one fixed field (`Variants`) or in any of the fields
  of variable length, whose texts are prefixes and suffixes of each other;
  widths of one or two digits do not change that;
- directory: one agent, since agents share nothing; two calls, since they meet
  only in the cache; two or three providers, in the order in which
  `find-payable-agent.mjs` of the examples configures them, the second of two
  with a registry or without one, or the registry alone, which cannot be
  searched; a cache time and a call time of one tick each on a clock of 0..2.
  The constraint `Small` keeps three sorts of behaviours: histories of up to five
  events with the indexer alone (`IndexerAlone`); overlapping calls while an agent
  is registered and changes hands once (`ClientsAsk`; only unfiltered resolve calls
  overlap, and these, as well as calls that ask three providers, end by time 1);
  and one unfiltered call at a time,
  since an entry an earlier call left in the cache is enough to be stale, while
  the agent goes through three documents with different endpoints, so that what
  the index, the registry and the cache say may be of three documents
  (`PayersAsk`). The indexer can read two of these documents: one replaces an
  endpoint of the other, and gives a `did` with a URL.

`CHECK_DEADLOCK FALSE` stands where the system may stop: an idle server, and a
clock, credit, amounts and nonces that are bounded.

### Fairness

- ledger: the clock runs (`WF Tick`) and the two `setInterval` timers fire again
  and again (`WF Sweeper`, `WF RunCommitmentEpoch`). Clients and relayers owe
  nothing.
- transactions: a statement that can run again and again does (`SF`; PostgreSQL
  queues lock waits), and its deadlock detector breaks cycles (`WF`).
- posting: a poster that can go on does, and what is in the mempool is included.
  The properties that need it say when it is not enough.
- relayer: one `WF` for all: while a handler can go on, the clock can run or an
  expired row can be reclaimed, one of them happens. Every await of the handler
  ends, in an answer, an error or a timeout (`timeoutMs`). Nothing is assumed of
  requests, reports and answers on their way, nor of the agent.
- channel: blocks come, anybody may finalize, and a watchful party challenges
  within the window; the last is an assumption about people, named `Watchful`.
- gateway: the event loop runs continuations, calls to the node answer or time
  out, and transactions sent are included.

### Findings

1. `ledger_accepted_debit`: `docs/multi-chain-credit-mvp.md:71` says that the
   cumulative accepted debit never exceeds the cumulative credit, and
   `assertAgentAuthorizationInvariant` sums it so. After a reclaim the amount is
   spent again (`ledger.ts:650`): the sum of all accepted authorizations exceeds
   the credit. What holds is `CreditConserved` and the escrow.
2. `posting_failure`: an error while posting is logged and dropped
   (`commitments.ts:254`), nothing posts that epoch again and the registry takes
   only the next one: one failed call, lost transaction or restart ends posting
   for good, against `README.md:42`.

What the models also show, without a sentence of the repository against it:

- a poster that is still waiting when the next run starts can lose an epoch in
  the same way: if the node estimates on the latest block, the second call is
  estimated to revert and is dropped (`server.ts:136`). `UndisturbedEpochsPosted`
  excludes it;
- `/v1/relay/pay` carries out a merchant request as often as it is called, and
  whichever the caller sends: the ledger records one execution and knows neither
  payee nor amount of it. That the authorization's merchant got its amount is no
  property of this code;
- between expiry and the end of the grace window an authorization may be
  reclaimed while its payment is on its way: the request is carried out and the
  agent refunded. `DoneIsRecorded` says that no caller was told DONE then;
- the pool holds what its unspent notes are worth only while every deposit pays
  for its note and every note is spent under one secret; neither the contract
  nor the circuit can see it, so it is up to the applications. `PoolBacked` has
  both differences as terms of its equation;
- the SDK's record of an accepted payment is overwritten by a second request
  with the same nullifier before the first one settles (`merchant.ts:177`);
- a wallet charged for a spend whose receipt did not reach the gateway is
  answered 409 from then on; `PaidIsServed` holds only while nothing fails;
- with the default `verifyingContract`, the pool's own address
  (`server.ts:94` of the gateway), the challenge binds that address and
  `withdraw`, which hashes the recipient, pays nobody else;
- a spend needs two free leaves, and the SDK builds neither a witness nor a root
  in a full tree (`merkle.ts:38`): the last notes of a pool cannot be spent;
- an index past the end of an odd level verifies for the repeated last leaf, and
  a root alone does not fix the number of leaves; the registry records the count
  and `ProofsExact` uses it;
- a second `pay()` for one request while the first is under way, or after it
  threw, is another intent as soon as a second has passed, and the sequencer
  refuses it until the agent takes a new request id; the credit of the first
  comes back by reclaim (`PaysSettle`);
- the typed data a wallet signs shows an absent `serviceHash` or `memoHash` as
  the zero hash (`shared-types/src/sequencer.ts:543`): the wallet's signature
  fits both, the canonical intent hash tells them apart;
- the merchant URLs `https://host/` and `https://host//` have one merchant id.
  `docs/multi-chain-credit-mvp.md:101` writes the id as a hash of registry and
  URL one after the other; `sequencer.ts` puts a zero byte between them, and
  `BytesStandForOneMessage` is about the code;
- an endpoint a newer registration document no longer lists stays in the
  indexer's row (`EventHandlers.ts:243`) and can be chosen for payment;
- revoked feedback is counted, but stays in the trust score
  (`EventHandlers.ts:415`);
- an error the RPC node answers with, a registry or RPC URL that is not
  configured for the chain (`onchainRegistryProvider.ts:102` and `:210`) and a
  404 of the scan API (`scanApiProvider.ts:225`) count as an agent that does not
  exist. An outage of all other providers is then answered, and cached, as an
  absence: `AbsenceIsReported` holds of the answers no such null went into.

## Proofs

All are checked by `tlapm` to the last leaf, without unproved assumptions other
than the named `ASSUME`s on constants, which TLC evaluates on every run.

| module | theorem | argument |
|---|---|---|
| `CreditLedgerProofs` | `TypeCorrect`: `Spec => []TypeOK` | inductive as it stands. A lemma for each operation on a row (`WithCreditRow`, `WithDebitRow`, `WithRefundRow`, `SettledRow`), one for each kind of action, and `StepCases` that reduces `Next` to them |
| | `CreditIsConserved`: `Spec => []CreditConserved` | inductive together with `TypeOK`, without which `balance - amount` might not be a number: the row lemmas say which of the two counters moves by how much |
| | `SettlesOnce`: `Spec => []SettledOnce` | inductive with `TypeOK`. Whatever a step is, it adds one `ISSUED` row under a new id (`Issues`), settles one that is `ISSUED` (`Replaces`), or leaves the table alone. `SettledOnce` is taken apart by row (`StatusTied`, `ExecutionTied`), and a step needs to be followed at one row only |
| | `SettlementsAreFinal`: `Spec => SettlementIsFinal` | from `TypeOK` alone: `Replaces` asks for an `ISSUED` row and a success is recorded under a new id |
| | `RequestsBuyOnce`: `Spec => []IdempotencyExact` | inductive with `TypeOK`: a new authorization enters both tables under new keys, and settling keeps the intent |
| | `LogIsChained`: `Spec => []LogHashChain` | inductive with `TypeOK` and `IdempotencyExact`: a nonce of an agent is new because the agent's authorizations lie below its next nonce, and the new leaf hangs on the counters' last hash |
| | `CommitmentsStayProvable`: `Spec => []CommitmentsProvable` | with `LogHashChain`: `RunCommitmentEpoch` takes the leaves without an epoch, which are the ones after the last epoch's range (`EpochsCutLog`). The last leaf of a stretch exists by `LargestElement` |
| | `LogOnlyGrows`: `Spec => LogIsAppendOnly` | from the same invariant: a new leaf has the next number and an epoch files only leaves that have none |
| | `CountersMatch`: `Spec => []CountersMatchTable` | `HeldIsOutstanding`, the outstanding debit is what the promises hold, is inductive with `TypeOK` and the nonces' part of `LogHashChain`: an agent's nonces 0, 1, ... name its authorizations one to one (`PromiseIsNamed`, `NamedIsPromise`), so an authorization adds one term to the sum (`HeldWithOneMore`) and a settlement changes one (`HeldAfterSettling`). The balance follows by `CreditConserved` |
| | `LedgerImplementsEscrow`: `Spec => ImplementsEscrow` | the step simulation (`StepIsEscrowStep`): a credit is `Deposit`, an authorization `MakePromise` of an amount that `CountersMatch` shows available, an execution and each reclaim, the sweeper's one by one, `Settle`; everything else is a stutter |
| `SequencerProofs` | `TransactionsAreAtomic`: `TxSpec => ImplementsLedger` | the step simulation, with the tables mapped to themselves. `TxLedgerInv`: what a transaction read is still what the table holds as long as it holds the lock (`TxInv`: each variable of a session against its row, its locks exclusive). Each statement that writes is then one action of the ledger, every other one a stutter. Committing an epoch in two statements also needs `LogHashChain`: no leaf arrives under the counters' lock |
| | `ClientsAreToldTheSame`: `TxSpec => []AnswersAgree` | the same invariant with `AnswersOnRecord`: an answer's intent is that of its row, and `IdempotencyExact` leaves one row for a request |
| | `OnlyReplaysAndReclaimsDeadlock`: `TxSpec => []OnlyReplayAndReclaimDeadlock` | `HoldsInv`: the locks a session can hold at each statement, hence who can hold what (`HoldersAt`). `Deadlocked` says that no set closed under waiting excludes the session, so one such set refutes it. Most have an easy one; a session looking for its request id has the replays, the reports past their first lock and the reclaims that wait for replays only (`FindRequestNotDeadlocked`): by `TxLedgerInv` the reclaim a replay waits for needs the agent row that very replay holds |
| | `RegistryIsLedger`: `PostingSpec => []RegistryFollowsLedger` | `PostingInv`: the registry is the ledger's table of commitments cut off at the latest epoch, calls in the mempool and in posters carry whole rows, a poster sends once, and one that saw its transaction included finds its epoch on the contract. `PendingIsNext` says what an estimate on the pending block answers |
| `CreditClientProofs` | `ExecutionsArePaid`: `SystemSpec => []ExecutionsPaid` | `SystemInv`: a report in flight and an attempt on record go back to a payout, a payout to a call that has taken on its authorization and to its merchant request (`PayoutTied`, `ReportTied`, `CallTied`) |
| | `DoneMeansRecorded`: `SystemSpec => []DoneIsRecorded` | `ResponseTied` and `CallTied`: DONE is answered after the ledger took this call's report, for the intent in the authorization the call was given, which `PayTied` ties to the intent signed. `SettledOnce` makes its row EXECUTED, and no step of the ledger takes that back (`StepIsFinal`) |
| | `RefundedStaysUnpaid`: `SystemSpec => RefundedIsNotAccepted` | `ReclaimedInPast`: a reclaimed authorization expired before the clock, with `SettledOnce` |
| `CreditChannelSettlementProofs` | `ClosesAreCovered` | `ChannelInv`: each channel is `Sound` (typed, its parties known, a close within its escrow, an empty one empty) and `Windowed` (its deadline at most a period away) |
| | `ClosesOnlyMoveForward` | from `ChannelInv`; `Windowed` is what makes a challenge move the deadline later and never earlier |
| | `WatchedClosesAreNewest` | `WatchInv`: a watched channel with an answer outstanding has its window open. Inductive relative to `ChannelInv`; a finalization needs a closed one |
| | `EscrowIsHeld`: `Spec => []EscrowBacked` | with `ChannelInv`: each function of the contract changes the escrow of one channel, and the sum by as much (`SumChange`) |
| `ShieldedPoolProofs` | `SpendsStayFinal` | `PoolInv`: the domain of the records is the set of used nullifiers, hence a new spend writes over no record |
| | `PoolIsBacked`: `Spec => []PoolBacked` | `WalletInv`: notes carry random numbers already drawn (`NotesOk`); events say where their leaves lie, without holes (`EventsOk`), so that every commitment the indexer has is a leaf (`IndexOk`); a payment's note is a leaf, and its two new notes are leaves only if its nullifier is used (`PaymentOk`). A submission takes one note out of the unspent ones and puts two worth the same in (`SubmitUnspent`); under a second secret it takes none out, and `Respent` grows instead (`SubmitSpent`) |
| | `TreesAlwaysAgree`: `Spec => []TreesAgree` | `TreeOk`: a filled subtree the next insertion reads is the node the SDK has to the left of that path (`FilledFits`), which an insertion keeps true (`FilledStaysFit`) because the next index differs at a level by one at most (`NextIndex`). Level by level, the hashes of an insertion are then the SDK's nodes above the new leaf, and no other node changes (`NodesAppended`); the node at the top is the root (`RootsAgree`), for as long as the SDK computes one (`DerivedRoot`) |
| | `PreparedPaymentsStayGood`: `Spec => []PaymentsStayGood` | with `TreeOk`: the indexer's leaves are a prefix of the pool's, hence the root a witness has is one the pool had (a conjunct of `TreeOk`), and the circuit folds that witness into that root (`WitnessFolds`); roots are never forgotten |
| `MessageProofs` | `PaymentsServeOnce`: `ServedOnce` and `ServedIsPaid` | `GatewayInv`, for each request: nothing sent before it sends, the price once past its check, its own record once its transaction went through, served only then. Two served requests with one nullifier would both own its one record |
| | `InclusionProofsAreExact`: `EpochSpec => []ProofsExact` | for epochs of every size. A node of a level and its sibling, itself when it has none, make the node above (`Branching`), and a level is halved until one node is left (`LevelsAreLists`, `HeightIs`). Up the tree, the served siblings lead from the leaf to the root (`ServedProofVerifies`); down the tree, a branch that ends in the root is the tree's own, whatever proof of the tree's height it came with (`OnlyItsLeafVerifies`), and two epochs of a size under one root have the same levels (`RootIsOfOneEpoch`) |
| | `OneMessageEach`: `FormatsSpec => []BytesStandForOneMessage` | at every width and base. A number below the span of its width is told by its digits (`DigitsFacts`). Each message is a row of 13 fields (`IntentIsRow`, `ReportIsRow`, ...), each of which tells its value and its end whatever follows (`U64Apart`, `TextApart`, ...), so equal rows have equal fields (`RowsApart`). In canonical bytes an intent is longer than a reclaim (`IntentIsNoReclaim`). Digests: the tags differ in their second or third byte (`TagsTell`), an id begins with the text `id` where an authorization has its version (`AuthorizationIsNoId`), a merchant's id has no tag (`MerchantIsUntagged`) and tells its parts by its last zero byte, the first slash of the URL and the colon of the port (`MerchantIdTells`) |
| `AgentDirectoryProofs` | `TypeCorrect`: `Spec => []TypeOK` | each handler makes a row of a row (`HandleType`), each provider and the merge a profile (`EnvioProfileType`, `MergeProfilesFacts`, ...) |
| | `RecentAnswers`, `ReportedAbsence`, `CurrentPayees`: `Spec => []AnswersAreRecent`, `[]AbsenceIsReported`, `[]PayeesAreCurrent` | `IInv`: what a call has collected or holds was true of the agent at some time since the call began (`Collected`, `HeldOK`, by `Good`); an agent it has no profile of was reported absent unless every provider failed or one took something else for absence (`unchecked`, `NotFoundKeeps`); an entry of the cache was true at most `CacheTtl + MaxCall` before it expires (`EntryOK`). What was true at some time stays so, because log and index only grow and a new event carries the present time (`OwnedStays`, `AbsentStays`, `CurrentStays`), so every step of others keeps `IInv` (`CallStays`, `CacheStays`); `ProfilesAreCollected` and `FailureIsCounted` are a provider's two ways to end, and `FinishIsRight` and `AnswerIsRight` turn what was collected into the answer |
| | `TheIndexFollowsTheLog`: `Spec => IndexFollowsLog` | `TableSays` is part of `IInv`. The next event adds its number to the sets the columns are computed from, or leaves them (`SaidNext`, `TellingNext`, `GivingNext`), and is their maximum (`NewestIsMax`): `HandleSays` for the columns, `HandleOwns` for the owner, which needs `LogOK`, that a registration follows the transfer that mints its token |

Every extension of the ledger is proved from the ledger's own theorems:
`SystemKeepsLedger` and `PostingKeepsLedger` show that a behaviour of the
composition is one of `CreditLedger!Spec`, whose invariants then hold in it.

Assumptions on the constants are about names and shapes (`NULL` is no relayer
and no reply, an authId is not a leaf hash, a call's intent under another expiry
is again an intent; channel ids, which are 32 bytes, are finitely many; a
directory has a provider, its documents and metadata have the types their
readers make sure of, and a call may take a tick); none bounds the number of
agents, intents, sessions, calls, reports, providers or registry events. The
messages of WireFormats are what the encoders do not throw at
(`MessageAssumption`); `MerchantAssumption` says what `new URL()` returns, with
an IPv6 host in its brackets, and one thing the code does not check: no service
is registered under one of the four domain tags and a zero byte. Where
an argument is an induction over numbers (the largest element of a finite set of
log numbers, the mempool in order, the sum over a finite set), it takes a set
instead of a predicate: the least counterexample (`LeastElement`), a set of
numbers or of subsets closed under one step more (`NaturalsOneByOne`,
`SubsetsOneByOne`). The library's induction theorems take an operator and cannot
be instantiated. Sums are `SumFunctionOnSet` of the library, which picks an
order; `SumsExist` shows that its recursion has a solution and `SumsSplit` that
the order does not matter. The recursive functions of ShieldedTree are unfolded
in the same way, one level of the tree at a time (`LevelByLevel`, `ZerosLevels`,
`InsertionPathLevels`, ...), and the leaves of the pool's events one event at a
time (`LeavesByEvent`); so are those of MerkleProofs (`LevelsUnfold`,
`IndexesUnfold`, `BranchUnfold`) and the digits of a number (`DigitsUnfold`).

Liveness is model-checked only: it needs fairness and ENABLED.

## Abstractions and what is not modelled

- In the modules with state, signatures are who signed what and hashes are what
  they commit to; that the encodings justify this is what the `formats`
  run shows and `OneMessageEach` proves. Header formats and shape validation are
  pure conversions.
- Amounts are natural numbers. The BIGINT columns are narrower than the uint64
  of intents; PostgreSQL raises an error and the transaction rolls back.
- Relayers are honest about their reports (fresh ids, success only after the
  merchant request was carried out) and share the sequencer's clock. A request
  answered with 400 or more was not carried out. In payout mode `noop` nothing is
  sent, and a request counts as carried out nonetheless.
- The indexer of the wallet gets the pool's events in order, which it does not
  check. Ownership transfer of the contracts is left out: it touches no other
  state.
- The gateway's unsafe development adapters are left out: they keep nullifiers
  in memory or not at all and promise nothing after a restart.
- Rate limits, host allow-lists, metrics and logs change no state modelled.
- The directory leaves out what it treats like a field it has: description and
  image (as name), activity and validation (as feedback), health; text search;
  and reorganizations of the chain, which the indexer's framework
  undoes before a handler sees them. Its `decodeURIComponent` outside the `try`
  (`EventHandlers.ts:73`) stops the handler at a malformed URI; the model's
  documents are well formed. The records the scan API serves are taken to be
  what the registry says at that time: how far that service lags is in no code
  here, and recency is relative to it. A document behind a URI does not change.
- `shieldedFetch` keeps nothing and sends two requests, which the wallets of
  MerchantGateway may send as well, among others. The adapters between
  requirement formats, note encryption, the calls to the prover and the
  exclusion circuit are pure conversions and I/O.
- The Solana gateway program holds one root; `pay_authorized` moves lamports
  behind checks and writes nothing else. For the ledger it is a payout, which
  PaymentRelayer has without asking how it was made.
- Generated verifiers, examples and scripts keep no state a property could be
  about.

## Plan

The pool under the gateway: MerchantGateway's reduced pool as a refinement of
ShieldedPool.
