-------------------------- MODULE CommitmentPosting --------------------------
(***************************************************************************)
(* The commitments of the credit ledger on their way to the registry       *)
(* contract on Base: the second half of runCommitmentEpoch, a poster for   *)
(* each epoch that runs after the database transaction has committed, and  *)
(* CommitmentRegistryV1.                                                   *)
(*                                                                         *)
(* Posters of different epochs overlap: the timer and POST                 *)
(* /v1/commitments/run start one each.  An error is logged and ends the    *)
(* poster; nothing starts another one for its epoch.                       *)
(*                                                                         *)
(* The chain is external.  Transactions of the posting account enter a     *)
(* mempool in the order of their nonces and are included in that order.    *)
(* writeContract estimates gas first and throws if the call would revert,  *)
(* on the latest block or on the pending one as the node does it.          *)
(***************************************************************************)
EXTENDS CreditLedger, SequencesExt

CONSTANTS
    OverlappingRuns,  \* a run may start before the poster of the last one ends
    EstimateBlocks,   \* the blocks the node may estimate on: latest, pending
    MaxFailures,      \* bound on lost transactions, failed calls and restarts
    Configurations    \* whether SEQUENCER_BASE_* is set, at each start

ASSUME PostingConstants ==
    /\ OverlappingRuns \in BOOLEAN
    /\ EstimateBlocks \subseteq {"latest", "pending"}
    /\ MaxFailures \in Nat
    /\ Configurations \subseteq BOOLEAN

VARIABLES
    configured,   \* baseRegistryAddress, basePosterPrivateKey and baseRpcUrl
    posters,      \* epoch |-> the next step of its poster, while it runs
    postedAs,     \* columns posted_at, posted_tx_hash, by epoch, once set
    mempool,      \* calls of postCommitment sent and not included
    registry,     \* the contract
    failures

chainVars == <<mempool, registry>>
postingVars == <<configured, posters, postedAs, chainVars, failures>>
allVars == <<vars, postingVars>>

NoCommitments == [latestEpochId |-> 0, roots |-> << >>]

PostingInit ==
    /\ Init
    /\ configured \in Configurations
    /\ posters = << >> /\ postedAs = << >>
    /\ mempool = << >> /\ registry = NoCommitments
    /\ failures = 0

-----------------------------------------------------------------------------
(* CommitmentRegistryV1 *)

\* The requirements of postCommitment, in a given state of the contract.  Its
\* only caller is the sequencer's account: it reverts for every other.
Accepts(contract, call) ==
    /\ call.epochId = contract.latestEpochId + 1
    /\ call.prevRoot = IF contract.latestEpochId = 0 THEN ZeroHash
                       ELSE contract.roots[contract.latestEpochId].root

PostCommitment(contract, call) ==
    IF Accepts(contract, call)
    THEN [latestEpochId |-> call.epochId,
          roots |-> WithRow(contract.roots, call.epochId,
                            [root |-> call.root, count |-> call.count,
                             prevRoot |-> call.prevRoot])]
    ELSE contract

\* The contract once the first k calls of the mempool, or all, are included.
Pending ==
    LET after[k \in 0..Len(mempool)] ==
            IF k = 0 THEN registry ELSE PostCommitment(after[k - 1], mempool[k])
    IN  after[Len(mempool)]

\* The estimate of gas on one of the node's blocks.
EstimateOf(call, block) ==
    Accepts(IF block = "latest" THEN registry ELSE Pending, call)

-----------------------------------------------------------------------------
(* The posters *)

\* The ledger's actions other than the epoch change nothing here.
LedgerStep ==
    /\ Next
    /\ UNCHANGED <<commitments, postingVars>>

CommitEpoch ==
    /\ OverlappingRuns \/ posters = << >>
    /\ RunCommitmentEpoch
    /\ posters' = WithRow(posters, counters'.lastEpochId,
                          IF configured THEN "send" ELSE "updateLocal")
    /\ UNCHANGED <<configured, postedAs, chainVars, failures>>

CallWithLastRoot(epoch) ==
    [epochId |-> epoch, root |-> commitments[epoch].root,
     count |-> commitments[epoch].count, prevRoot |-> counters.lastRoot]
CallOf(epoch) ==
    [epochId |-> epoch, root |-> commitments[epoch].root,
     count |-> commitments[epoch].count, prevRoot |-> commitments[epoch].prevRoot]

At(epoch, step) == epoch \in DOMAIN posters /\ posters[epoch] = step
Without(epoch) == [e \in DOMAIN posters \ {epoch} |-> posters[e]]

\* SELECT prev_root, count; writeContract.
SendUnestimated(epoch) ==
    /\ At(epoch, "send")
    /\ mempool' = Append(mempool, CallOf(epoch))
    /\ posters' = [posters EXCEPT ![epoch] = "waitForReceipt"]
    /\ UNCHANGED <<vars, configured, postedAs, registry, failures>>
Send(epoch) ==
    /\ At(epoch, "send")
    /\ \E block \in EstimateBlocks :
          IF EstimateOf(CallOf(epoch), block)
          THEN /\ mempool' = Append(mempool, CallOf(epoch))
               /\ posters' = [posters EXCEPT ![epoch] = "waitForReceipt"]
          ELSE /\ posters' = Without(epoch)
               /\ UNCHANGED mempool
    /\ UNCHANGED <<vars, configured, postedAs, registry, failures>>

\* waitForTransactionReceipt returns once the transaction is included, also
\* when it reverted: the status of the receipt is not looked at.
InMempool(epoch) == \E k \in DOMAIN mempool : mempool[k].epochId = epoch

Include ==
    /\ mempool # << >>
    /\ registry' = PostCommitment(registry, Head(mempool))
    /\ mempool' = Tail(mempool)
    /\ posters' = [e \in DOMAIN posters |->
                      IF e = Head(mempool).epochId THEN "updatePosted"
                                                   ELSE posters[e]]
    /\ UNCHANGED <<vars, configured, postedAs, failures>>

UpdatePosted(epoch) ==
    /\ At(epoch, "updatePosted")
    /\ postedAs' = WithRow(postedAs, epoch, "transaction")
    /\ posters' = Without(epoch)
    /\ UNCHANGED <<vars, configured, chainVars, failures>>

\* Posting is not configured: posted_at is set and posted_tx_hash is not.
UpdateLocal(epoch) ==
    /\ At(epoch, "updateLocal")
    /\ postedAs' = WithRow(postedAs, epoch, "local")
    /\ posters' = Without(epoch)
    /\ UNCHANGED <<vars, configured, chainVars, failures>>

-----------------------------------------------------------------------------
(* Failures *)

\* A call to the database or to the node throws.
Throw(epoch) ==
    /\ failures < MaxFailures /\ failures' = failures + 1
    /\ epoch \in DOMAIN posters
    /\ posters' = Without(epoch)
    /\ UNCHANGED <<vars, configured, postedAs, chainVars>>

\* A transaction is lost before it is included; the wait for it times out.
Drop ==
    /\ failures < MaxFailures /\ failures' = failures + 1
    /\ mempool # << >>
    /\ mempool' = Front(mempool)
    /\ UNCHANGED <<vars, configured, posters, postedAs, registry>>

TimeOut(epoch) ==
    /\ At(epoch, "waitForReceipt") /\ ~InMempool(epoch)
    /\ posters' = Without(epoch)
    /\ UNCHANGED <<vars, configured, postedAs, chainVars, failures>>

\* The server stops, gracefully or not, and starts again: shutdown waits for
\* connections, not for posters.
Restart ==
    /\ failures < MaxFailures /\ failures' = failures + 1
    /\ posters' = << >>
    /\ configured' \in Configurations
    /\ UNCHANGED <<vars, postedAs, chainVars>>

-----------------------------------------------------------------------------

Poster(epoch) ==
    \/ Send(epoch) \/ UpdatePosted(epoch) \/ UpdateLocal(epoch)
    \/ TimeOut(epoch)

PostingNext ==
    \/ LedgerStep
    \/ CommitEpoch
    \/ \E epoch \in DOMAIN posters : Poster(epoch) \/ Throw(epoch)
    \/ Include \/ Drop
    \/ Restart

PostingSpec == PostingInit /\ [][PostingNext]_allVars

\* Posters run on, and the chain includes what it is sent.
PostingFairSpec ==
    /\ PostingSpec
    /\ WF_allVars(\E epoch \in DOMAIN posters : Poster(epoch))
    /\ WF_allVars(Include)

-----------------------------------------------------------------------------

\* What auditors find on Base is the ledger's history, without a gap: epoch
\* after epoch the root of the leaves the sequencer holds, so that an inclusion
\* proof it serves checks against the contract; and an epoch that GET
\* /v1/commitments/latest and the inclusion proofs give a transaction for is
\* there, though the code never looks whether that transaction succeeded.
RegistryFollowsLedger ==
    /\ DOMAIN registry.roots = 1..registry.latestEpochId
    /\ \A e \in DOMAIN registry.roots :
          /\ registry.roots[e] = commitments[e]
          /\ registry.roots[e].root = MerkleRoot(LeavesOf(e))
    /\ \A e \in DOMAIN postedAs :
          postedAs[e] = "transaction" => e \in DOMAIN registry.roots

\* README.md:42, "Hourly Base commitments are posted for delayed auditability":
\* every epoch committed by a sequencer that posts gets to the registry.
EveryEpochPosted ==
    \A e \in 1..Cardinality(Intents) :
        e \in DOMAIN commitments ~> e \in DOMAIN registry.roots

\* That much holds of a sequencer that is never disturbed: it posts, no call
\* fails, it is not restarted, and no run starts before the poster of the last
\* one is done.  Whichever block the node estimates on, every epoch gets to the
\* registry then, in its turn.
Undisturbed == configured /\ failures = 0 /\ Cardinality(DOMAIN posters) <= 1
UndisturbedEpochsPosted == []Undisturbed => EveryEpochPosted
=============================================================================
