---------------------------- MODULE ShieldedPool ----------------------------
(***************************************************************************)
(* The shielded pool (contracts/src/ShieldedPool.sol) with wallets that    *)
(* use it through sdk/client: they deposit notes, follow the pool's events *)
(* with LocalNoteIndexer, prepare payments against the tree as it is known *)
(* then, and submit them whenever and as often as they like.               *)
(*                                                                         *)
(* A commitment, a nullifier and a challenge hash are what they commit to. *)
(* Nothing ties a nullifier secret to a note: it is an argument of each    *)
(* payment and a private input of the circuit.  Nothing ties a deposited   *)
(* commitment to the amount deposited with it either.  That a wallet keeps *)
(* one secret for each note and deposits what its note says is therefore   *)
(* no part of the model, nor that a merchant leaves its notes in the pool. *)
(* The verifier accepts a proof exactly when the circuit's outputs for its *)
(* private inputs are the public inputs.                                   *)
(***************************************************************************)
EXTENDS ShieldedTree, FiniteSets, Functions

CONSTANTS
    Owner, MerchantPubKey,   \* whose notes: pkHash of the payer, the merchant
    Secrets,                 \* nullifier secrets
    Nonces,                  \* challenge nonces
    Recipients,              \* addresses a withdrawal may name
    Merchant,                \* the one payments are addressed to
    NoteAmounts, DepositAmounts, PayAmounts,
    MaxDeposits, MaxPayments \* bounds of the model

ASSUME PoolConstants ==
    /\ Merchant \in Recipients
    /\ DepositAmounts \subseteq Nat \ {0}
    /\ NoteAmounts \subseteq Nat /\ PayAmounts \subseteq Nat
    /\ ZeroLeaf = [amount |-> 0, rho |-> 0, pkHash |-> Owner]
    /\ {MaxDeposits, MaxPayments} \subseteq Nat

VARIABLES
    leafCount, latestRoot, filledSubtrees,  \* the contract's tree
    isNullifierUsed, isKnownRoot,           \* its mappings to bool, as sets
    spendRecords,                           \* its spend records, by nullifier
    held,                                   \* what the asset says it holds
    events,                                 \* the events it emitted
    indexed, commitments,   \* LocalNoteIndexer: events read, state.commitments
    notes, payments,        \* notes opened to somebody, payments prepared
    lastRho                 \* the random numbers drawn so far

treeVars == <<leafCount, latestRoot, filledSubtrees, isKnownRoot>>
poolVars == <<treeVars, isNullifierUsed, spendRecords, held, events>>
walletVars == <<indexed, commitments, notes, payments, lastRho>>
vars == <<poolVars, walletVars>>

\* deriveCommitment, deriveNullifier, deriveChallengeHash
Note(amount, rho, pkHash) == [amount |-> amount, rho |-> rho, pkHash |-> pkHash]
Nullifier(secret, note) == [secret |-> secret, note |-> note]
ChallengeHash(nonce, amount, recipient) == <<nonce, amount, recipient>>

Init ==
    /\ leafCount = 0
    /\ latestRoot = Zeros[TreeDepth]
    /\ filledSubtrees = [level \in Below |-> Zeros[level]]
    /\ isNullifierUsed = {}
    /\ isKnownRoot = {Zeros[TreeDepth]}
    /\ spendRecords = << >>
    /\ held = 0
    /\ events = << >>
    /\ indexed = 0
    /\ commitments = << >>
    /\ notes = {}
    /\ payments = {}
    /\ lastRho = 0

-----------------------------------------------------------------------------
(* _insertCommitment, of one commitment or of two in a row *)

HasRoom(n) == leafCount + n <= Capacity

Insert(c) ==
    LET root == RootAfter(filledSubtrees, leafCount, c)
    IN  /\ filledSubtrees' = FilledAfter(filledSubtrees, leafCount, c)
        /\ latestRoot' = root
        /\ isKnownRoot' = isKnownRoot \cup {root}
        /\ leafCount' = leafCount + 1

InsertTwo(c1, c2) ==
    LET filled == FilledAfter(filledSubtrees, leafCount, c1)
        root1 == RootAfter(filledSubtrees, leafCount, c1)
        root2 == RootAfter(filled, leafCount + 1, c2)
    IN  /\ filledSubtrees' = FilledAfter(filled, leafCount + 1, c2)
        /\ latestRoot' = root2
        /\ isKnownRoot' = isKnownRoot \cup {root1, root2}
        /\ leafCount' = leafCount + 2

\* deposit of the contract, of any commitment with any amount; that of
\* ShieldedClientSDK deposits the amount of the note.
Deposit(noteAmount, amount) ==
    LET note == Note(noteAmount, lastRho + 1, Owner)
    IN  /\ Cardinality({n \in DOMAIN events : events[n].kind = "Deposited"})
              < MaxDeposits
        /\ HasRoom(1)
        /\ held' = held + amount
        /\ Insert(note)
        /\ events' = Append(events, [kind |-> "Deposited", leafIndex |-> leafCount,
                                     inserted |-> <<note>>, amount |-> amount])
        /\ notes' = notes \cup {note}
        /\ lastRho' = lastRho + 1
        /\ UNCHANGED <<isNullifierUsed, spendRecords, indexed, commitments,
                       payments>>

-----------------------------------------------------------------------------
(* The wallet *)

\* ingestDeposit writes at the leaf index, ingestSpend appends.
IngestDeposit(event) ==
    commitments' = [i \in 1..(event.leafIndex + 1) |->
                      IF i = event.leafIndex + 1 THEN event.inserted[1]
                                                 ELSE commitments[i]]
IngestSpend(event) == commitments' = commitments \o event.inserted

Ingest ==
    /\ indexed < Len(events)
    /\ LET event == events[indexed + 1]
       IN  IF event.kind = "Deposited" THEN IngestDeposit(event)
                                       ELSE IngestSpend(event)
    /\ indexed' = indexed + 1
    /\ UNCHANGED <<poolVars, notes, payments, lastRho>>

\* prepare402Payment for a note found in the tree as it is known, under the
\* nullifier secret of this call.
PreparePayment(note, index, secret, amount, nonce) ==
    LET merchantNote == Note(amount, lastRho + 1, MerchantPubKey)
        changeNote == Note(note.amount - amount, lastRho + 2, note.pkHash)
    IN  /\ Cardinality(payments) < MaxPayments
        /\ WitnessPossible(commitments, index)
        /\ commitments[index + 1] = note
        /\ amount <= note.amount
        /\ payments' = payments \cup
              {[note |-> note, secret |-> secret, amount |-> amount, nonce |-> nonce,
                merchantNote |-> merchantNote, changeNote |-> changeNote,
                witness |-> DeriveWitness(commitments, index)]}
        /\ notes' = notes \cup {merchantNote, changeNote}
        /\ lastRho' = lastRho + 2
        /\ UNCHANGED <<poolVars, indexed, commitments>>

\* What buildSpendProof puts in the response.
PublicInputs(p) ==
    [nullifier |-> Nullifier(p.secret, p.note), root |-> p.witness.root,
     merchantCommitment |-> p.merchantNote, changeCommitment |-> p.changeNote,
     challengeHash |-> ChallengeHash(p.nonce, p.amount, Merchant),
     amount |-> p.amount]

\* main of the circuit: what it asserts and what it outputs.
ProofHolds(p) == p.amount <= p.note.amount
CircuitOutputs(p) ==
    [nullifier |-> Nullifier(p.secret, p.note),
     root |-> MerkleRootFromPath(p.note, p.witness.path, p.witness.indexBits),
     merchantCommitment |-> Note(p.amount, p.merchantNote.rho, MerchantPubKey),
     changeCommitment |-> Note(p.note.amount - p.amount, p.changeNote.rho,
                               p.note.pkHash),
     challengeHash |-> ChallengeHash(p.nonce, p.amount, Merchant),
     amount |-> p.amount]

-----------------------------------------------------------------------------
(* submitSpend and withdraw *)

VerifierAccepts(p) == ProofHolds(p) /\ CircuitOutputs(p) = PublicInputs(p)

KnowsLatestOnly(root) == root = latestRoot
Knows(root) == root \in isKnownRoot

NullifierUnchecked(nullifier) == TRUE
NullifierIsNew(nullifier) == nullifier \notin isNullifierUsed

SpendAccepted(p) ==
    LET public == PublicInputs(p)
    IN  /\ public.amount > 0
        /\ NullifierIsNew(public.nullifier)
        /\ Knows(public.root)
        /\ VerifierAccepts(p)
        /\ HasRoom(2)

SubmitSpend(p) ==
    LET public == PublicInputs(p)
        record == [amount |-> public.amount,
                   challengeHash |-> public.challengeHash, withdrawn |-> FALSE]
    IN  /\ SpendAccepted(p)
        /\ isNullifierUsed' = isNullifierUsed \cup {public.nullifier}
        /\ spendRecords' =
              [n \in DOMAIN spendRecords \cup {public.nullifier} |->
                  IF n = public.nullifier THEN record ELSE spendRecords[n]]
        /\ InsertTwo(public.merchantCommitment, public.changeCommitment)
        /\ events' = Append(events,
              [kind |-> "Spent", leafIndex |-> leafCount,
               inserted |-> <<public.merchantCommitment, public.changeCommitment>>,
               amount |-> public.amount])
        /\ UNCHANGED <<held, walletVars>>

WithdrawnAgain(record) == TRUE
NotWithdrawn(record) == ~record.withdrawn

Withdraw(nullifier, nonce, recipient) ==
    LET record == spendRecords[nullifier]
    IN  /\ NotWithdrawn(record)
        /\ ChallengeHash(nonce, record.amount, recipient) = record.challengeHash
        /\ record.amount <= held      \* else the asset's transfer reverts
        /\ spendRecords' = [spendRecords EXCEPT ![nullifier].withdrawn = TRUE]
        /\ held' = held - record.amount
        /\ UNCHANGED <<treeVars, isNullifierUsed, events, walletVars>>

Next ==
    \/ \E noteAmount \in NoteAmounts, amount \in DepositAmounts :
          Deposit(noteAmount, amount)
    \/ Ingest
    \/ \E note \in notes, index \in 0..(Len(commitments) - 1),
          secret \in Secrets, amount \in PayAmounts, nonce \in Nonces :
          PreparePayment(note, index, secret, amount, nonce)
    \/ \E p \in payments : SubmitSpend(p)
    \/ \E nullifier \in DOMAIN spendRecords, nonce \in Nonces,
          recipient \in Recipients : Withdraw(nullifier, nonce, recipient)

Spec == Init /\ [][Next]_vars

-----------------------------------------------------------------------------
SpendRecord == [amount: Nat \ {0}, challengeHash: Nonces \X Nat \X Recipients,
                withdrawn: BOOLEAN]

TypeOK ==
    /\ leafCount \in 0..Capacity
    /\ DOMAIN filledSubtrees = Below
    /\ latestRoot \in isKnownRoot
    /\ DOMAIN spendRecords = isNullifierUsed
    /\ \A n \in isNullifierUsed : spendRecords[n] \in SpendRecord
    /\ held \in Nat
    /\ indexed \in 0..Len(events)

Inserted(n) ==
    LET leaves[i \in 0..n] == IF i = 0 THEN << >>
                              ELSE leaves[i - 1] \o events[i].inserted
    IN  leaves[n]

\* One tree: the root the contract computes leaf by leaf from its filled
\* subtrees is the root the SDK computes from all the commitments inserted so
\* far, until the tree is full: then the contract still knows its root and
\* deriveRootFromCommitments throws.  The indexer's list is what the events it
\* has read inserted.
TreesAgree ==
    LET all == Inserted(Len(events))
    IN  /\ leafCount = Len(all)
        /\ DeriveRoot(all) = IF leafCount < Capacity THEN latestRoot ELSE Thrown
        /\ commitments = Inserted(indexed)

\* A payment once prepared stays good: whatever was deposited, spent or
\* withdrawn since, and however old the root of its witness, submitSpend
\* accepts it as long as its nullifier is not used and the tree has room for
\* its two notes.  (In a tree without room every note is stuck.)
PaymentsStayGood ==
    \A p \in payments :
        p.amount > 0 /\ Nullifier(p.secret, p.note) \notin isNullifierUsed
        /\ HasRoom(2)
           => SpendAccepted(p)

SpentNotes == {n.note : n \in isNullifierUsed}
UnspentNotes ==
    {n \in notes \ SpentNotes :
        \E i \in DOMAIN events, j \in 1..2 :
            j \in DOMAIN events[i].inserted /\ events[i].inserted[j] = n}

PaidOut ==
    LET owed == [n \in DOMAIN spendRecords |-> spendRecords[n].amount]
    IN  SumFunctionOnSet(owed, {n \in DOMAIN spendRecords : spendRecords[n].withdrawn})

\* What deposited notes claim beyond what was paid in with them.
ClaimedBeyond(event) ==
    IF event.kind = "Deposited" THEN event.inserted[1].amount - event.amount ELSE 0
Overclaimed ==
    LET beyond == [i \in DOMAIN events |-> ClaimedBeyond(events[i])]
    IN  SumFunctionOnSet(beyond, DOMAIN events)

\* What notes were spent for after the first time, under another secret.
Respent ==
    LET spent == [n \in isNullifierUsed |-> n.note.amount]
        once == [n \in SpentNotes |-> n.amount]
    IN  SumFunctionOnSet(spent, isNullifierUsed) - SumFunctionOnSet(once, SpentNotes)

\* The pool's books, to the unit: what its unspent notes are worth is what it
\* holds and has paid out to merchants, with what deposited notes claim beyond
\* the deposit and what notes were spent for again, over all deposits, payments
\* prepared twice from one note, change and withdrawals.  So while every
\* deposit pays for its note and every note keeps one secret, which is up to
\* the applications, and no merchant spends a note, the pool holds exactly the
\* payers' unspent notes and the spend records not yet withdrawn.
PoolBacked ==
    LET worth == [n \in notes |-> n.amount]
    IN  SumFunctionOnSet(worth, UnspentNotes)
           = held + PaidOut + Overclaimed + Respent

\* A spend is final: its nullifier stays used, its record keeps amount and
\* payee, and it is withdrawn once; money leaves only so.
SpendsAreFinal ==
    [][/\ isNullifierUsed \subseteq isNullifierUsed'
       /\ isKnownRoot \subseteq isKnownRoot'
       /\ \A n \in DOMAIN spendRecords :
             LET old == spendRecords[n]
                 new == spendRecords'[n]
             IN  \/ new = old
                 \/ /\ new = [old EXCEPT !.withdrawn = TRUE] /\ ~old.withdrawn
                    /\ held' = held - old.amount
       /\ held' < held => \E n \in DOMAIN spendRecords :
                             spendRecords'[n] # spendRecords[n]
      ]_vars
=============================================================================
