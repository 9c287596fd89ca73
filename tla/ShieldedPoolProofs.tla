------------------------- MODULE ShieldedPoolProofs -------------------------
(***************************************************************************)
(* Proofs about the shielded pool, for every tree depth, every set of      *)
(* amounts and any number of deposits, payments and withdrawals.           *)
(***************************************************************************)
EXTENDS ShieldedPool, FiniteSums

\* A record of a spend, whatever its challenge hash: records hold amounts.
IsRecord(r) == /\ r = [amount |-> r.amount, challengeHash |-> r.challengeHash,
                       withdrawn |-> r.withdrawn]
               /\ r.amount \in Nat \ {0}
               /\ r.withdrawn \in BOOLEAN

\* Every used nullifier has its spend record and no other has one: this is
\* what keeps submitSpend from writing over a record.
RecordsAreNullifiers == DOMAIN spendRecords = isNullifierUsed
RecordsOk == \A n \in DOMAIN spendRecords : IsRecord(spendRecords[n])
AmountsOk == held \in Int /\ \A p \in payments : p.amount \in Nat

PoolInv == RecordsAreNullifiers /\ RecordsOk /\ AmountsOk

\* The initial state has no record, no nullifier and no money.
LEMMA InitPoolInv == Init => PoolInv
  BY DEF Init, PoolInv, RecordsAreNullifiers, RecordsOk, AmountsOk

\* What submitSpend does to the mappings.
LEMMA SubmitRecords ==
    ASSUME PoolInv, NEW p \in payments, SubmitSpend(p)
    PROVE  /\ PoolInv'
           /\ isNullifierUsed \subseteq isNullifierUsed'
           /\ isKnownRoot \subseteq isKnownRoot'
           /\ \A n \in DOMAIN spendRecords : spendRecords'[n] = spendRecords[n]
           /\ held' = held
  <1> DEFINE k == PublicInputs(p).nullifier
             record == [amount |-> p.amount,
                        challengeHash |-> PublicInputs(p).challengeHash,
                        withdrawn |-> FALSE]
  <1>1. /\ p.amount > 0 /\ k \notin isNullifierUsed
        /\ isNullifierUsed' = isNullifierUsed \cup {k}
        /\ spendRecords' = [n \in DOMAIN spendRecords \cup {k} |->
                               IF n = k THEN record ELSE spendRecords[n]]
        /\ UNCHANGED <<held, payments>>
    BY DEF SubmitSpend, SpendAccepted, PublicInputs, NullifierIsNew, walletVars
  <1>2. isKnownRoot \subseteq isKnownRoot'
    BY DEF SubmitSpend, InsertTwo
  <1>3. p.amount \in Nat \ {0}
    BY <1>1 DEF PoolInv, AmountsOk
  <1>4. IsRecord(record)
    BY <1>3 DEF IsRecord
  <1> HIDE DEF k, record
  <1>5. k \notin DOMAIN spendRecords
    BY <1>1 DEF PoolInv, RecordsAreNullifiers
  <1>6. RecordsAreNullifiers'
    BY <1>1 DEF PoolInv, RecordsAreNullifiers
  <1>7. RecordsOk'
    BY <1>1, <1>4 DEF PoolInv, RecordsOk
  <1>8. AmountsOk'
    BY <1>1 DEF PoolInv, AmountsOk
  <1> QED
    BY <1>1, <1>2, <1>5, <1>6, <1>7, <1>8 DEF PoolInv

\* What withdraw does to the record it is for, and to the money.
LEMMA WithdrawRecords ==
    ASSUME PoolInv, NEW k \in DOMAIN spendRecords, NEW nonce \in Nonces,
           NEW recipient \in Recipients, Withdraw(k, nonce, recipient)
    PROVE  /\ PoolInv'
           /\ UNCHANGED <<isNullifierUsed, isKnownRoot>>
           /\ \A n \in DOMAIN spendRecords : n # k => spendRecords'[n] = spendRecords[n]
           /\ spendRecords'[k] = [spendRecords[k] EXCEPT !.withdrawn = TRUE]
           /\ ~spendRecords[k].withdrawn
           /\ held' = held - spendRecords[k].amount
  <1>1. /\ ~spendRecords[k].withdrawn
        /\ spendRecords' = [spendRecords EXCEPT ![k].withdrawn = TRUE]
        /\ held' = held - spendRecords[k].amount
        /\ UNCHANGED <<isNullifierUsed, isKnownRoot, payments>>
    BY DEF Withdraw, NotWithdrawn, treeVars, walletVars
  <1>2. IsRecord(spendRecords[k])
    BY DEF PoolInv, RecordsOk
  <1>3. /\ DOMAIN spendRecords' = DOMAIN spendRecords
        /\ spendRecords'[k] = [spendRecords[k] EXCEPT !.withdrawn = TRUE]
        /\ \A n \in DOMAIN spendRecords : n # k => spendRecords'[n] = spendRecords[n]
    BY <1>1
  <1>4. IsRecord(spendRecords'[k])
    BY <1>2, <1>3 DEF IsRecord
  <1>5. RecordsOk'
    BY <1>3, <1>4 DEF PoolInv, RecordsOk
  <1>6. RecordsAreNullifiers'
    BY <1>1, <1>3 DEF PoolInv, RecordsAreNullifiers
  <1>7. AmountsOk'
    BY <1>1, <1>2 DEF PoolInv, AmountsOk, IsRecord
  <1> QED
    BY <1>1, <1>3, <1>5, <1>6, <1>7 DEF PoolInv

\* The property of one step that SpendsAreFinal claims of every step.
KeepsSpends ==
    /\ isNullifierUsed \subseteq isNullifierUsed'
    /\ isKnownRoot \subseteq isKnownRoot'
    /\ \A n \in DOMAIN spendRecords :
          LET old == spendRecords[n]
              new == spendRecords'[n]
          IN  \/ new = old
              \/ /\ new = [old EXCEPT !.withdrawn = TRUE] /\ ~old.withdrawn
                 /\ held' = held - old.amount
    /\ held' < held => \E n \in DOMAIN spendRecords :
                          spendRecords'[n] # spendRecords[n]

LEMMA StepKeepsSpends ==
    ASSUME PoolInv, [Next]_vars
    PROVE  PoolInv' /\ KeepsSpends
  <1>1. ASSUME NEW noteAmount \in NoteAmounts, NEW amount \in DepositAmounts,
               Deposit(noteAmount, amount)
        PROVE  PoolInv' /\ KeepsSpends
    <2>1. /\ held' = held + amount /\ UNCHANGED <<isNullifierUsed, spendRecords, payments>>
          /\ isKnownRoot \subseteq isKnownRoot'
      BY <1>1 DEF Deposit, Insert
    <2>2. amount \in Nat
      BY PoolConstants DEF PoolConstants
    <2>3. PoolInv'
      BY <2>1, <2>2 DEF PoolInv, RecordsAreNullifiers, RecordsOk, AmountsOk
    <2>4. ~(held' < held)
      BY <2>1, <2>2 DEF PoolInv, AmountsOk
    <2> QED
      BY <2>1, <2>3, <2>4 DEF KeepsSpends
  <1>2. ASSUME UNCHANGED <<poolVars>>, \A p \in payments' : p.amount \in Nat
        PROVE  PoolInv' /\ KeepsSpends
    <2>1. UNCHANGED <<isNullifierUsed, spendRecords, isKnownRoot, held>>
      BY <1>2 DEF poolVars, treeVars
    <2>2. ~(held' < held)
      BY <2>1 DEF PoolInv, AmountsOk
    <2> QED
      BY <1>2, <2>1, <2>2
      DEF PoolInv, RecordsAreNullifiers, RecordsOk, AmountsOk, KeepsSpends
  <1>3. CASE Ingest
    BY <1>2, <1>3 DEF Ingest, PoolInv, AmountsOk
  <1>4. ASSUME NEW note, NEW index, NEW secret, NEW amount \in PayAmounts,
               NEW nonce, PreparePayment(note, index, secret, amount, nonce)
        PROVE  PoolInv' /\ KeepsSpends
    <2>1. amount \in Nat
      BY PoolConstants DEF PoolConstants
    <2> DEFINE q ==
          [note |-> note, secret |-> secret, amount |-> amount, nonce |-> nonce,
           merchantNote |-> Note(amount, lastRho + 1, MerchantPubKey),
           changeNote |-> Note(note.amount - amount, lastRho + 2, note.pkHash),
           witness |-> DeriveWitness(commitments, index)]
    <2>2. payments' = payments \cup {q}
      BY <1>4, Zenon DEF PreparePayment
    <2>3. UNCHANGED <<poolVars>>
      BY <1>4 DEF PreparePayment
    <2>4. q.amount = amount
      OBVIOUS
    <2> HIDE DEF q
    <2> QED
      BY <1>2, <2>1, <2>2, <2>3, <2>4 DEF PoolInv, AmountsOk
  <1>5. ASSUME NEW p \in payments, SubmitSpend(p)
        PROVE  PoolInv' /\ KeepsSpends
    <2>1. ~(held' < held)
      BY <1>5, SubmitRecords DEF PoolInv, AmountsOk
    <2> QED
      BY <1>5, <2>1, SubmitRecords DEF KeepsSpends
  <1>6. ASSUME NEW k \in DOMAIN spendRecords, NEW nonce \in Nonces,
               NEW recipient \in Recipients, Withdraw(k, nonce, recipient)
        PROVE  PoolInv' /\ KeepsSpends
    <2>1. IsRecord(spendRecords[k])
      BY DEF PoolInv, RecordsOk
    <2>2. spendRecords'[k] # spendRecords[k]
      BY <1>6, <2>1, WithdrawRecords DEF IsRecord
    <2> QED
      BY <1>6, <2>2, WithdrawRecords DEF KeepsSpends
  <1>7. CASE UNCHANGED vars
    <2>1. UNCHANGED <<poolVars>> /\ payments' = payments
      BY <1>7 DEF vars, walletVars
    <2> QED
      BY <1>2, <2>1 DEF PoolInv, AmountsOk
  <1> QED
    BY <1>1, <1>3, <1>4, <1>5, <1>6, <1>7 DEF Next

\* Every step of the pool and its wallet keeps every spend final: nullifiers
\* and roots are never forgotten, a record only ever becomes withdrawn, once,
\* and the pool's money goes down by exactly the record withdrawn
\* (submitSpend and withdraw of ShieldedPool.sol).
THEOREM SpendsStayFinal == Spec => SpendsAreFinal
  <1>1. PoolInv /\ [Next]_vars => PoolInv'
    BY StepKeepsSpends
  <1>2. PoolInv /\ [Next]_vars => KeepsSpends
    BY StepKeepsSpends
  <1>3. Spec => []PoolInv
    BY InitPoolInv, <1>1, PTL DEF Spec
  <1>4. Spec => [][KeepsSpends]_vars
    BY <1>2, <1>3, PTL DEF Spec
  <1> QED
    BY <1>4 DEF SpendsAreFinal, KeepsSpends
-----------------------------------------------------------------------------
(* What the wallet and the log of events know of each other *)

\* The note is a leaf of the tree.
WasInserted(n) ==
    \E i \in DOMAIN events, j \in 1..2 :
        j \in DOMAIN events[i].inserted /\ events[i].inserted[j] = n

\* A note whose random number has been drawn.
NoteDrawn == [amount: Nat, rho: 1..lastRho, pkHash: {Owner, MerchantPubKey}]
EventRow == [kind: {"Deposited", "Spent"}, leafIndex: Nat,
             inserted: Seq(NoteDrawn), amount: Nat]

NotesOk ==
    /\ lastRho \in Nat
    /\ IsFiniteSet(notes)
    /\ notes \subseteq NoteDrawn

\* An event says where its leaves begin, which is where the leaves of the
\* event before it end.
End(n) == IF n = 0 THEN 0 ELSE events[n].leafIndex + Len(events[n].inserted)
EventOk(i) ==
    /\ events[i].leafIndex = End(i - 1)
    /\ Len(events[i].inserted) = IF events[i].kind = "Deposited" THEN 1 ELSE 2
EventsOk ==
    /\ events \in Seq(EventRow)
    /\ \A i \in DOMAIN events : EventOk(i)
    /\ leafCount = End(Len(events))

\* So the indexer, which writes a deposit at its leaf index, leaves no hole.
IndexOk ==
    /\ indexed \in 0..Len(events)
    /\ commitments \in Seq(NoteDrawn)
    /\ Len(commitments) = End(indexed)
    /\ \A k \in DOMAIN commitments : WasInserted(commitments[k])

\* The notes a payment puts into the tree.
Heirs(p) == {p.merchantNote, p.changeNote}

\* A payment spends a note in the tree; its heirs are worth that note and are
\* not in the tree before its nullifier is used, whatever other payment of the
\* same note and secret it competes with.
PaymentOk(p) ==
    /\ p.note \in notes /\ WasInserted(p.note)
    /\ p.amount \in Nat /\ p.amount <= p.note.amount
    /\ Heirs(p) \subseteq notes /\ p.merchantNote # p.changeNote
    /\ p.merchantNote.amount = p.amount
    /\ p.changeNote.amount = p.note.amount - p.amount
    /\ \A n \in Heirs(p) :
          WasInserted(n) => Nullifier(p.secret, p.note) \in isNullifierUsed
    /\ \A q \in payments : Heirs(p) \cap Heirs(q) # {}
          => Nullifier(p.secret, p.note) = Nullifier(q.secret, q.note)
PaymentsOk == \A p \in payments : PaymentOk(p)

UsedOk ==
    /\ IsFiniteSet(isNullifierUsed)
    /\ \A k \in isNullifierUsed : WasInserted(k.note)

WalletInv == NotesOk /\ EventsOk /\ IndexOk /\ PaymentsOk /\ UsedOk

LEMMA InitWalletInv == Init => WalletInv
  <1> SUFFICES ASSUME Init PROVE WalletInv
    OBVIOUS
  <1>1. NotesOk
    BY FS_EmptySet DEF Init, NotesOk
  <1>2. EventsOk
    BY DEF Init, EventsOk, End
  <1>3. IndexOk
    BY DEF Init, IndexOk, End
  <1>4. PaymentsOk
    BY DEF Init, PaymentsOk
  <1>5. UsedOk
    BY FS_EmptySet DEF Init, UsedOk
  <1> QED
    BY <1>1, <1>2, <1>3, <1>4, <1>5 DEF WalletInv

\* More random numbers drawn, more notes there can be.
LEMMA DrawingMore ==
    ASSUME lastRho \in Nat, lastRho' \in Nat, lastRho <= lastRho'
    PROVE  /\ NoteDrawn \subseteq NoteDrawn'
           /\ EventRow \subseteq EventRow'
  <1>1. 1..lastRho \subseteq 1..lastRho'
    OBVIOUS
  <1>2. NoteDrawn \subseteq NoteDrawn'
    BY <1>1 DEF NoteDrawn
  <1>3. Seq(NoteDrawn) \subseteq Seq(NoteDrawn')
    BY <1>2
  <1>4. EventRow \subseteq EventRow'
    BY <1>3 DEF EventRow
  <1> QED
    BY <1>2, <1>4

\* A new event adds its leaves and keeps the others where they were.
LEMMA AppendedEvent ==
    ASSUME EventsOk, NEW e \in EventRow', EventRow \subseteq EventRow',
           events' = Append(events, e), e.leafIndex = leafCount,
           Len(e.inserted) = (IF e.kind = "Deposited" THEN 1 ELSE 2),
           leafCount' = leafCount + Len(e.inserted)
    PROVE  /\ EventsOk'
           /\ Len(events) \in Nat /\ Len(events') = Len(events) + 1
           /\ \A n \in 0..Len(events) : End(n)' = End(n)
           /\ \A n \in DOMAIN events : events'[n] = events[n]
           /\ \A n : WasInserted(n)' <=>
                 \/ WasInserted(n)
                 \/ \E j \in 1..2 : j \in DOMAIN e.inserted /\ e.inserted[j] = n
  <1>1. PICK len \in Nat : len = Len(events)
    BY DEF EventsOk
  <1>2. /\ events \in Seq(EventRow) /\ events' \in Seq(EventRow')
        /\ DOMAIN events = 1..len /\ DOMAIN events' = 1..(len + 1)
        /\ Len(events') = len + 1
        /\ events'[len + 1] = e
        /\ \A n \in 1..len : events'[n] = events[n]
    <2>1. events \in Seq(EventRow) /\ events \in Seq(EventRow')
      BY DEF EventsOk
    <2> QED
      BY <1>1, <2>1
  <1>3. \A n \in 0..len : End(n)' = End(n)
    BY <1>1, <1>2 DEF End
  <1>4. End(len + 1)' = leafCount'
    BY <1>1, <1>2 DEF End
  <1>5. ASSUME NEW i \in 1..(len + 1) PROVE EventOk(i)'
    <2>1. CASE i \in 1..len
      <3>1. i - 1 \in 0..len
        BY <1>1, <2>1
      <3> QED
        BY <1>2, <1>3, <2>1, <3>1 DEF EventsOk, EventOk
    <2>2. CASE i = len + 1
      <3>1. i - 1 = len /\ leafCount = End(len)
        BY <1>1, <2>2 DEF EventsOk
      <3>2. End(i - 1)' = leafCount
        <4>1. End(len)' = End(len)
          BY <1>1, <1>3
        <4> QED
          BY <3>1, <4>1
      <3>3. events'[i] = e
        BY <1>2, <2>2
      <3> QED
        BY <3>2, <3>3 DEF EventOk
    <2> QED
      BY <1>1, <2>1, <2>2
  <1>6. EventsOk'
    BY <1>2, <1>4, <1>5 DEF EventsOk
  <1>7. ASSUME NEW n
        PROVE  WasInserted(n)' <=>
                 \/ WasInserted(n)
                 \/ \E j \in 1..2 : j \in DOMAIN e.inserted /\ e.inserted[j] = n
    <2>1. \A i \in 1..(len + 1) : i \in 1..len \/ i = len + 1
      BY <1>1
    <2>2. 1..len \subseteq 1..(len + 1) /\ len + 1 \in 1..(len + 1)
      BY <1>1
    <2> QED
      BY <1>2, <2>1, <2>2 DEF WasInserted
  <1> QED
    BY <1>1, <1>2, <1>3, <1>6, <1>7
LEMMA LogFacts ==
    ASSUME WalletInv
    PROVE  /\ \A n \in 0..Len(events) : End(n) \in Nat
           /\ leafCount \in Nat
           /\ \A n : WasInserted(n) => n \in NoteDrawn
  <1>1. Len(events) \in Nat
    BY DEF WalletInv, EventsOk
  <1>2. ASSUME NEW n \in 0..Len(events) PROVE End(n) \in Nat
    <2>1. CASE n = 0
      BY <2>1 DEF End
    <2>2. CASE n # 0
      <3>1. PICK last : last = events[n]
        OBVIOUS
      <3>2. n \in DOMAIN events
        BY <1>1, <2>2 DEF WalletInv, EventsOk
      <3>3. last \in EventRow
        BY <3>1, <3>2 DEF WalletInv, EventsOk
      <3>4. last.leafIndex \in Nat /\ Len(last.inserted) \in Nat
        BY <3>3 DEF EventRow
      <3>5. End(n) = last.leafIndex + Len(last.inserted)
        BY <2>2, <3>1 DEF End
      <3> QED
        BY <3>4, <3>5
    <2> QED
      BY <2>1, <2>2
  <1>3. leafCount \in Nat
    BY <1>1, <1>2 DEF WalletInv, EventsOk
  <1>4. ASSUME NEW n, WasInserted(n) PROVE n \in NoteDrawn
    <2>1. PICK i \in DOMAIN events, j \in 1..2 :
             j \in DOMAIN events[i].inserted /\ events[i].inserted[j] = n
      BY <1>4 DEF WasInserted
    <2>2. events[i] \in EventRow
      BY DEF WalletInv, EventsOk
    <2> QED
      BY <2>1, <2>2 DEF EventRow
  <1> QED
    BY <1>2, <1>3, <1>4

LEMMA QuietKeepsWallet ==
    ASSUME WalletInv, UNCHANGED <<notes, lastRho, events, leafCount, indexed,
                                  commitments, payments, isNullifierUsed>>
    PROVE  WalletInv' /\ \A n : WasInserted(n)' <=> WasInserted(n)
  BY DEF WalletInv, NotesOk, EventsOk, EventOk, IndexOk, PaymentsOk, PaymentOk,
         Heirs, UsedOk, WasInserted, End, NoteDrawn, EventRow

\* What a deposit does: a new note, straight into the tree.
Deposits(note, amount) ==
    /\ note \in [amount: Nat, rho: {lastRho + 1}, pkHash: {Owner}]
    /\ amount \in Nat
    /\ notes' = notes \cup {note}
    /\ lastRho' = lastRho + 1
    /\ leafCount' = leafCount + 1
    /\ events' = Append(events, [kind |-> "Deposited", leafIndex |-> leafCount,
                                 inserted |-> <<note>>, amount |-> amount])
    /\ UNCHANGED <<indexed, commitments, payments, isNullifierUsed, spendRecords>>

LEMMA DepositDeposits ==
    ASSUME NotesOk, NEW noteAmount \in NoteAmounts, NEW amount \in DepositAmounts,
           Deposit(noteAmount, amount)
    PROVE  /\ Deposits(Note(noteAmount, lastRho + 1, Owner), amount)
           /\ held' = held + amount /\ amount \in Nat
  <1>1. amount \in Nat /\ noteAmount \in Nat
    BY PoolConstants DEF PoolConstants
  <1>2. Note(noteAmount, lastRho + 1, Owner)
           \in [amount: Nat, rho: {lastRho + 1}, pkHash: {Owner}]
    BY <1>1 DEF Note
  <1> QED
    BY <1>1, <1>2 DEF Deposit, Insert, Deposits

LEMMA DepositKeepsWallet ==
    ASSUME WalletInv, NEW note, NEW amount, Deposits(note, amount)
    PROVE  /\ WalletInv'
           /\ note \notin notes /\ ~WasInserted(note)
           /\ \A n : WasInserted(n)' <=> WasInserted(n) \/ n = note
  <1>1. /\ lastRho \in Nat /\ lastRho' = lastRho + 1 /\ lastRho' \in Nat
        /\ lastRho <= lastRho' /\ note.rho = lastRho + 1
        /\ note \in NoteDrawn' /\ amount \in Nat
    BY DEF WalletInv, NotesOk, Deposits, NoteDrawn
  <1>2. /\ NoteDrawn \subseteq NoteDrawn' /\ EventRow \subseteq EventRow'
        /\ notes \subseteq NoteDrawn'
    BY <1>1, DrawingMore DEF WalletInv, NotesOk
  <1>3. PICK e : e = [kind |-> "Deposited", leafIndex |-> leafCount,
                      inserted |-> <<note>>, amount |-> amount]
    OBVIOUS
  <1>4. leafCount \in Nat
    BY LogFacts
  <1>5. /\ e \in EventRow' /\ e.leafIndex = leafCount
        /\ Len(e.inserted) = 1 /\ e.kind = "Deposited"
        /\ DOMAIN e.inserted = {1} /\ e.inserted[1] = note
    BY <1>1, <1>3, <1>4 DEF EventRow
  <1>6. /\ EventsOk'
        /\ Len(events) \in Nat /\ Len(events') = Len(events) + 1
        /\ \A n \in 0..Len(events) : End(n)' = End(n)
        /\ \A n : WasInserted(n)' <=>
              \/ WasInserted(n)
              \/ \E j \in 1..2 : j \in DOMAIN e.inserted /\ e.inserted[j] = n
    BY <1>2, <1>3, <1>5, AppendedEvent DEF WalletInv, Deposits
  <1>7. \A n : WasInserted(n)' <=> WasInserted(n) \/ n = note
    BY <1>5, <1>6
  <1>8. note \notin notes
    BY <1>1 DEF WalletInv, NotesOk, NoteDrawn
  <1>9. NotesOk'
    BY <1>1, <1>2, FS_AddElement DEF WalletInv, NotesOk, Deposits
  <1>10. \A n : WasInserted(n) => n \in NoteDrawn
    BY LogFacts
  <1>11. ~WasInserted(note)
    <2>1. \A n \in NoteDrawn : n.rho # lastRho + 1
      BY <1>1 DEF NoteDrawn
    <2> QED
      BY <1>1, <1>10, <2>1
  <1>12. IndexOk'
    <2>1. indexed \in 0..Len(events) /\ indexed \in 0..Len(events')
      BY <1>6 DEF WalletInv, IndexOk
    <2>2. /\ End(indexed)' = End(indexed)
      BY <1>6, <2>1 DEF Deposits, End
    <2>3. commitments \in Seq(NoteDrawn')
      BY <1>2 DEF WalletInv, IndexOk
    <2> QED
      BY <1>7, <2>1, <2>2, <2>3 DEF WalletInv, IndexOk, Deposits
  <1>13. PaymentsOk'
    <2> SUFFICES ASSUME NEW p \in payments PROVE PaymentOk(p)'
      BY DEF PaymentsOk, Deposits
    <2>1. PaymentOk(p)
      BY DEF WalletInv, PaymentsOk
    <2>2. note \notin Heirs(p)
      BY <1>8, <2>1 DEF PaymentOk
    <2> QED
      BY <1>7, <2>1, <2>2 DEF PaymentOk, Deposits, Heirs
  <1>14. UsedOk'
    BY <1>7 DEF WalletInv, UsedOk, Deposits
  <1> QED
    BY <1>6, <1>7, <1>8, <1>9, <1>11, <1>12, <1>13, <1>14 DEF WalletInv
\* The indexer reads the next event: its leaves go after the ones it has.
LEMMA IngestKeepsWallet ==
    ASSUME WalletInv, Ingest
    PROVE  WalletInv' /\ \A n : WasInserted(n)' <=> WasInserted(n)
  <1>1. /\ indexed < Len(events) /\ indexed' = indexed + 1
        /\ UNCHANGED <<notes, lastRho, events, leafCount, payments,
                       isNullifierUsed>>
    BY DEF Ingest, poolVars, treeVars
  <1>2. PICK next \in Nat : next = indexed + 1
    BY DEF WalletInv, IndexOk
  <1>3. PICK e : e = events[next]
    OBVIOUS
  <1>4. /\ indexed \in Nat /\ next \in DOMAIN events /\ next - 1 = indexed
        /\ indexed' \in 0..Len(events) /\ Len(events) \in Nat
    BY <1>1, <1>2 DEF WalletInv, IndexOk, EventsOk
  <1>5. e \in EventRow
    BY <1>3, <1>4 DEF WalletInv, EventsOk
  <1>6. EventOk(next)
    BY <1>4 DEF WalletInv, EventsOk
  <1>7. /\ e.leafIndex = Len(commitments)
        /\ Len(e.inserted) = IF e.kind = "Deposited" THEN 1 ELSE 2
    BY <1>3, <1>4, <1>6 DEF EventOk, WalletInv, IndexOk
  <1>8. PICK len, more \in Nat : len = Len(commitments) /\ more = Len(e.inserted)
    BY <1>5 DEF EventRow, WalletInv, IndexOk
  <1>9. /\ e.inserted \in Seq(NoteDrawn) /\ commitments \in Seq(NoteDrawn)
        /\ DOMAIN e.inserted = 1..more /\ DOMAIN commitments = 1..len
        /\ (more = 1 \/ more = 2)
    <2>1. e.inserted \in Seq(NoteDrawn) /\ commitments \in Seq(NoteDrawn)
      BY <1>5 DEF EventRow, WalletInv, IndexOk
    <2>2. more = 1 \/ more = 2
      BY <1>7, <1>8
    <2> QED
      BY <1>8, <2>1, <2>2
  <1>10. \A k \in 1..more : WasInserted(e.inserted[k])
    BY <1>3, <1>4, <1>9 DEF WasInserted
  <1>11. /\ commitments' \in Seq(NoteDrawn)
         /\ Len(commitments') = len + more
         /\ \A k \in 1..len : commitments'[k] = commitments[k]
         /\ \A k \in (len + 1)..(len + more) : commitments'[k] = e.inserted[k - len]
    <2>1. CASE e.kind = "Deposited"
      <3>1. /\ commitments' = [i \in 1..(len + 1) |->
                  IF i = len + 1 THEN e.inserted[1] ELSE commitments[i]]
            /\ more = 1
        BY <1>2, <1>3, <1>7, <1>8, <2>1 DEF Ingest, IngestDeposit
      <3>2. e.inserted[1] \in NoteDrawn
        BY <1>9, <3>1
      <3>3. \A i \in 1..(len + 1) : commitments'[i] \in NoteDrawn
        BY <1>9, <3>1, <3>2
      <3>4. commitments' \in Seq(NoteDrawn) /\ Len(commitments') = len + 1
        BY <3>1, <3>3
      <3>5. \A k \in (len + 1)..(len + 1) : k = len + 1 /\ k - len = 1
        OBVIOUS
      <3> QED
        BY <3>1, <3>4, <3>5
    <2>2. CASE e.kind # "Deposited"
      <3>1. commitments' = commitments \o e.inserted
        BY <1>2, <1>3, <2>2 DEF Ingest, IngestSpend
      <3> QED
        BY <1>8, <1>9, <3>1
    <2> QED
      BY <2>1, <2>2
  <1>12. \A n : WasInserted(n)' <=> WasInserted(n)
    BY <1>1 DEF WasInserted
  <1>13. ASSUME NEW k \in DOMAIN commitments' PROVE WasInserted(commitments'[k])
    <2>1. k \in 1..len \/ (k \in (len + 1)..(len + more) /\ k - len \in 1..more)
      BY <1>11
    <2>2. CASE k \in 1..len
      BY <1>9, <1>11, <2>2 DEF WalletInv, IndexOk
    <2>3. CASE k \in (len + 1)..(len + more) /\ k - len \in 1..more
      BY <1>10, <1>11, <2>3
    <2> QED
      BY <2>1, <2>2, <2>3
  <1>14. End(indexed)' = len + more
    <2>1. indexed' # 0 /\ events'[indexed'] = e
      BY <1>1, <1>2, <1>3, <1>4
    <2>2. End(indexed)' = events'[indexed'].leafIndex + Len(events'[indexed'].inserted)
      BY <2>1 DEF End
    <2> QED
      BY <1>7, <1>8, <2>1, <2>2
  <1>15. IndexOk'
    <2>1. NoteDrawn' = NoteDrawn
      BY <1>1 DEF NoteDrawn
    <2>2. indexed' \in 0..Len(events')
      BY <1>1, <1>4
    <2>3. Len(commitments') = End(indexed)'
      BY <1>11, <1>14
    <2> QED
      BY <1>11, <1>12, <1>13, <2>1, <2>2, <2>3 DEF IndexOk
  <1>16. NotesOk' /\ EventsOk' /\ PaymentsOk' /\ UsedOk'
    BY <1>1 DEF WalletInv, NotesOk, EventsOk, EventOk, PaymentsOk, PaymentOk,
                Heirs, UsedOk, WasInserted, End, NoteDrawn, EventRow
  <1> QED
    BY <1>12, <1>15, <1>16 DEF WalletInv
\* What preparing a payment does: two numbers drawn, two notes made known.
Prepares(q) ==
    /\ q.note \in notes /\ WasInserted(q.note)
    /\ q.amount \in Nat /\ q.amount <= q.note.amount
    /\ q.changeNote \in [amount: {q.note.amount - q.amount}, rho: {lastRho + 2},
                         pkHash: {q.note.pkHash}]
    /\ q.merchantNote \in [amount: {q.amount}, rho: {lastRho + 1},
                           pkHash: {MerchantPubKey}]
    /\ payments' = payments \cup {q}
    /\ notes' = notes \cup Heirs(q)
    /\ lastRho' = lastRho + 2
    /\ UNCHANGED <<poolVars, indexed, commitments>>

LEMMA PreparePrepares ==
    ASSUME WalletInv, NEW note \in notes, NEW index \in 0..(Len(commitments) - 1),
           NEW secret, NEW amount \in PayAmounts, NEW nonce,
           PreparePayment(note, index, secret, amount, nonce)
    PROVE  \E q : Prepares(q)
  <1>1. PICK m, c, w :
           /\ m = Note(amount, lastRho + 1, MerchantPubKey)
           /\ c = Note(note.amount - amount, lastRho + 2, note.pkHash)
           /\ w = DeriveWitness(commitments, index)
    OBVIOUS
  <1>2. PICK q : q = [note |-> note, secret |-> secret, amount |-> amount,
                      nonce |-> nonce, merchantNote |-> m, changeNote |-> c,
                      witness |-> w]
    OBVIOUS
  <1>3. /\ payments' = payments \cup {q} /\ notes' = notes \cup {m, c}
        /\ lastRho' = lastRho + 2 /\ UNCHANGED <<poolVars, indexed, commitments>>
        /\ amount <= note.amount /\ commitments[index + 1] = note
    BY <1>1, <1>2, Zenon DEF PreparePayment
  <1>4. amount \in Nat
    BY PoolConstants DEF PoolConstants
  <1>5. WasInserted(note)
    <2>1. index + 1 \in DOMAIN commitments
      BY DEF WalletInv, IndexOk
    <2> QED
      BY <1>3, <2>1 DEF WalletInv, IndexOk
  <1>6. /\ m \in [amount: {amount}, rho: {lastRho + 1}, pkHash: {MerchantPubKey}]
        /\ c \in [amount: {note.amount - amount}, rho: {lastRho + 2},
                  pkHash: {note.pkHash}]
    BY <1>1 DEF Note
  <1>7. /\ q.note = note /\ q.amount = amount /\ q.merchantNote = m
        /\ q.changeNote = c
    BY <1>2
  <1>8. Prepares(q)
    BY <1>3, <1>4, <1>5, <1>6, <1>7 DEF Prepares, Heirs
  <1> QED
    BY <1>8

LEMMA PrepareKeepsWallet ==
    ASSUME WalletInv, NEW q, Prepares(q)
    PROVE  /\ WalletInv'
           /\ \A n \in Heirs(q) : ~WasInserted(n)
           /\ \A n : WasInserted(n)' <=> WasInserted(n)
  <1>1. PICK c, m : c = q.changeNote /\ m = q.merchantNote
    OBVIOUS
  <1>2. /\ lastRho \in Nat /\ lastRho' = lastRho + 2 /\ lastRho' \in Nat
        /\ lastRho <= lastRho'
        /\ c.rho = lastRho + 2 /\ m.rho = lastRho + 1 /\ m # c
        /\ Heirs(q) = {m, c}
    BY <1>1 DEF WalletInv, NotesOk, Prepares, Heirs
  <1>3. q.note.amount \in Nat /\ q.note.pkHash \in {Owner, MerchantPubKey}
    BY DEF WalletInv, NotesOk, Prepares, NoteDrawn
  <1>4. /\ m \in NoteDrawn' /\ c \in NoteDrawn'
        /\ m.amount = q.amount /\ c.amount = q.note.amount - q.amount
    <2>1. q.note.amount - q.amount \in Nat /\ q.amount \in Nat
      BY <1>3 DEF Prepares
    <2>2. /\ m \in [amount: Nat, rho: 1..lastRho', pkHash: {Owner, MerchantPubKey}]
          /\ c \in [amount: Nat, rho: 1..lastRho', pkHash: {Owner, MerchantPubKey}]
      BY <1>1, <1>2, <1>3, <2>1 DEF Prepares
    <2> QED
      BY <1>1, <2>2 DEF NoteDrawn, Prepares
  <1>5. /\ NoteDrawn \subseteq NoteDrawn' /\ EventRow \subseteq EventRow'
        /\ notes \subseteq NoteDrawn'
    BY <1>2, DrawingMore DEF WalletInv, NotesOk
  <1>6. /\ UNCHANGED <<events, leafCount, isNullifierUsed, indexed, commitments>>
        /\ notes' = notes \cup {m, c} /\ payments' = payments \cup {q}
    BY <1>2 DEF Prepares, poolVars, treeVars
  <1>7. \A n : WasInserted(n)' <=> WasInserted(n)
    BY <1>6 DEF WasInserted
  <1>8. \A n : WasInserted(n) \/ n \in notes => n # c /\ n # m
    <2>1. \A n \in NoteDrawn : n.rho \in 1..lastRho
      BY DEF NoteDrawn
    <2>2. \A n : WasInserted(n) \/ n \in notes => n \in NoteDrawn
      BY LogFacts DEF WalletInv, NotesOk
    <2> QED
      BY <1>2, <2>1, <2>2
  <1>9. NotesOk'
    <2>1. IsFiniteSet(notes \cup {m}) /\ IsFiniteSet((notes \cup {m}) \cup {c})
      BY FS_AddElement DEF WalletInv, NotesOk
    <2>2. (notes \cup {m}) \cup {c} = notes'
      BY <1>6
    <2> QED
      BY <1>2, <1>4, <1>5, <1>6, <2>1, <2>2 DEF NotesOk
  <1>10. EventsOk'
    <2>1. events' \in Seq(EventRow')
      BY <1>5, <1>6 DEF WalletInv, EventsOk
    <2> QED
      BY <1>6, <2>1 DEF WalletInv, EventsOk, EventOk, End
  <1>11. IndexOk'
    <2>1. commitments' \in Seq(NoteDrawn')
      BY <1>5, <1>6 DEF WalletInv, IndexOk
    <2> QED
      BY <1>6, <1>7, <2>1 DEF WalletInv, IndexOk, End
  <1>12. ASSUME NEW p \in payments
         PROVE  Heirs(p) \subseteq notes /\ Heirs(p) \cap Heirs(q) = {}
    <2>1. Heirs(p) \subseteq notes
      BY DEF WalletInv, PaymentsOk, PaymentOk
    <2> QED
      BY <1>2, <1>8, <2>1
  <1>13. ASSUME NEW p \in payments PROVE PaymentOk(p)'
    <2>1. PaymentOk(p)
      BY DEF WalletInv, PaymentsOk
    <2>2. \A x \in payments' : Heirs(p) \cap Heirs(x) # {}
             => Nullifier(p.secret, p.note) = Nullifier(x.secret, x.note)
      BY <1>6, <1>12, <2>1 DEF PaymentOk
    <2>3. /\ p.note \in notes' /\ WasInserted(p.note)' /\ Heirs(p) \subseteq notes'
          /\ \A n \in Heirs(p) :
                WasInserted(n)' => Nullifier(p.secret, p.note) \in isNullifierUsed'
      BY <1>6, <1>7, <2>1 DEF PaymentOk
    <2> QED
      BY <2>1, <2>2, <2>3 DEF PaymentOk, Heirs
  <1>14. PaymentOk(q)'
    <2>1. \A x \in payments' : Heirs(q) \cap Heirs(x) # {}
             => Nullifier(q.secret, q.note) = Nullifier(x.secret, x.note)
      BY <1>6, <1>12
    <2>2. /\ q.note \in notes' /\ WasInserted(q.note)' /\ Heirs(q) \subseteq notes'
          /\ \A n \in Heirs(q) : ~WasInserted(n)'
      BY <1>2, <1>6, <1>7, <1>8 DEF Prepares
    <2>3. q.amount \in Nat /\ q.amount <= q.note.amount
      BY DEF Prepares
    <2> QED
      BY <1>1, <1>2, <1>4, <2>1, <2>2, <2>3 DEF PaymentOk, Heirs
  <1>15. PaymentsOk'
    BY <1>6, <1>13, <1>14 DEF PaymentsOk
  <1>16. UsedOk'
    BY <1>6, <1>7 DEF WalletInv, UsedOk
  <1>17. \A n \in Heirs(q) : ~WasInserted(n)
    BY <1>2, <1>8
  <1> QED
    BY <1>7, <1>9, <1>10, <1>11, <1>15, <1>16, <1>17 DEF WalletInv

\* What submitSpend does: the note is spent, its two heirs enter the tree.
Submits(p) ==
    /\ p \in payments /\ Nullifier(p.secret, p.note) \notin isNullifierUsed
    /\ isNullifierUsed' = isNullifierUsed \cup {Nullifier(p.secret, p.note)}
    /\ leafCount' = leafCount + 2
    /\ events' = Append(events, [kind |-> "Spent", leafIndex |-> leafCount,
                                 inserted |-> <<p.merchantNote, p.changeNote>>,
                                 amount |-> p.amount])
    /\ UNCHANGED <<held, walletVars>>

LEMMA SubmitSubmits ==
    ASSUME NEW p \in payments, SubmitSpend(p)
    PROVE  Submits(p)
  BY DEF SubmitSpend, SpendAccepted, NullifierIsNew, PublicInputs, InsertTwo,
         Submits

LEMMA SubmitKeepsWallet ==
    ASSUME WalletInv, NEW p, Submits(p)
    PROVE  /\ WalletInv'
           /\ \A n : WasInserted(n)' <=> WasInserted(n) \/ n \in Heirs(p)
  <1>1. PICK m, c : m = p.merchantNote /\ c = p.changeNote /\ Heirs(p) = {m, c}
    BY DEF Heirs
  <1>2. PaymentOk(p)
    BY DEF WalletInv, PaymentsOk, Submits
  <1>3. UNCHANGED <<notes, payments, lastRho, indexed, commitments>>
    BY DEF Submits, walletVars
  <1>4. NoteDrawn' = NoteDrawn /\ EventRow' = EventRow
    BY <1>3 DEF NoteDrawn, EventRow
  <1>5. m \in NoteDrawn /\ c \in NoteDrawn /\ p.amount \in Nat
    BY <1>1, <1>2 DEF PaymentOk, WalletInv, NotesOk
  <1>6. PICK e : e = [kind |-> "Spent", leafIndex |-> leafCount, inserted |-> <<m, c>>,
                      amount |-> p.amount]
    OBVIOUS
  <1>7. /\ e \in EventRow' /\ e.leafIndex = leafCount
        /\ Len(e.inserted) = 2 /\ e.kind = "Spent"
        /\ DOMAIN e.inserted = 1..2 /\ e.inserted[1] = m /\ e.inserted[2] = c
    BY <1>4, <1>5, <1>6, LogFacts DEF EventRow
  <1>8. /\ EventsOk'
        /\ Len(events) \in Nat /\ Len(events') = Len(events) + 1
        /\ \A n \in 0..Len(events) : End(n)' = End(n)
        /\ \A n : WasInserted(n)' <=>
              \/ WasInserted(n)
              \/ \E j \in 1..2 : j \in DOMAIN e.inserted /\ e.inserted[j] = n
    BY <1>1, <1>4, <1>6, <1>7, AppendedEvent DEF WalletInv, Submits
  <1>9. \A n : WasInserted(n)' <=> WasInserted(n) \/ n \in Heirs(p)
    BY <1>1, <1>7, <1>8
  <1>10. NotesOk'
    BY <1>3, <1>4 DEF WalletInv, NotesOk
  <1>11. IndexOk'
    <2>1. indexed \in 0..Len(events) /\ indexed \in 0..Len(events')
      BY <1>8 DEF WalletInv, IndexOk
    <2>2. End(indexed)' = End(indexed)
      BY <1>3, <1>8, <2>1 DEF End
    <2> QED
      BY <1>3, <1>4, <1>9, <2>1, <2>2 DEF WalletInv, IndexOk
  <1>12. PaymentsOk'
    <2> SUFFICES ASSUME NEW q \in payments PROVE PaymentOk(q)'
      BY <1>3 DEF PaymentsOk
    <2>1. PaymentOk(q)
      BY DEF WalletInv, PaymentsOk
    <2>2. /\ Nullifier(p.secret, p.note) \in isNullifierUsed'
          /\ isNullifierUsed \subseteq isNullifierUsed'
      BY DEF Submits
    <2>3. ASSUME NEW n \in Heirs(q), WasInserted(n)'
          PROVE  Nullifier(q.secret, q.note) \in isNullifierUsed'
      <3>1. CASE n \in Heirs(p)
        <4>1. p \in payments /\ Heirs(q) \cap Heirs(p) # {}
          BY <3>1 DEF Submits
        <4> QED
          BY <2>1, <2>2, <4>1 DEF PaymentOk
      <3>2. CASE n \notin Heirs(p)
        BY <1>9, <2>1, <2>2, <2>3, <3>2 DEF PaymentOk
      <3> QED
        BY <3>1, <3>2
    <2>4. WasInserted(q.note)'
      BY <1>9, <2>1 DEF PaymentOk
    <2> QED
      BY <1>3, <2>1, <2>3, <2>4 DEF PaymentOk, Heirs
  <1>13. UsedOk'
    <2>1. Nullifier(p.secret, p.note).note = p.note
      BY DEF Nullifier
    <2>2. IsFiniteSet(isNullifierUsed')
      BY FS_AddElement DEF WalletInv, UsedOk, Submits
    <2>3. ASSUME NEW k \in isNullifierUsed' PROVE WasInserted(k.note)'
      BY <1>2, <1>9, <2>1 DEF WalletInv, UsedOk, Submits, PaymentOk
    <2> QED
      BY <2>2, <2>3 DEF UsedOk
  <1> QED
    BY <1>8, <1>9, <1>10, <1>11, <1>12, <1>13 DEF WalletInv
-----------------------------------------------------------------------------
(* What the notes and the records are worth *)

Worth == [n \in notes |-> n.amount]
Owed == [n \in DOMAIN spendRecords |-> spendRecords[n].amount]
Withdrawn == {n \in DOMAIN spendRecords : spendRecords[n].withdrawn}
Beyond == [i \in DOMAIN events |-> ClaimedBeyond(events[i])]
Spent == [n \in isNullifierUsed |-> n.note.amount]
Once == [n \in SpentNotes |-> n.amount]

LEMMA UnspentIs ==
    /\ UnspentNotes = {n \in notes : WasInserted(n) /\ n \notin SpentNotes}
    /\ UnspentNotes' = {n \in notes' : WasInserted(n)' /\ n \notin SpentNotes'}
  BY DEF UnspentNotes, WasInserted

\* The sums, and the books as one equation of theirs.
UnspentWorth == SumFunctionOnSet(Worth, UnspentNotes)
SpentWorth == SumFunctionOnSet(Spent, isNullifierUsed)
OnceWorth == SumFunctionOnSet(Once, SpentNotes)

LEMMA BackedIs ==
    /\ PoolBacked <=>
          UnspentWorth = held + PaidOut + Overclaimed + (SpentWorth - OnceWorth)
    /\ PaidOut = SumFunctionOnSet(Owed, Withdrawn)
    /\ Overclaimed = SumFunctionOnSet(Beyond, DOMAIN events)
  BY DEF PoolBacked, PaidOut, Overclaimed, Respent, UnspentWorth, SpentWorth,
         OnceWorth, Worth, Owed, Withdrawn, Beyond, Spent, Once

LEMMA BackedNext ==
    PoolBacked' <=> UnspentWorth' = held' + PaidOut' + Overclaimed'
                                       + (SpentWorth' - OnceWorth')
  BY DEF PoolBacked, Respent, UnspentWorth, SpentWorth, OnceWorth, Worth, Spent,
         Once

LEMMA SpentNotesDrawn ==
    ASSUME WalletInv
    PROVE  /\ IsFiniteSet(SpentNotes)
           /\ \A n \in SpentNotes : n \in NoteDrawn /\ WasInserted(n)
           /\ \A k \in isNullifierUsed : k.note \in SpentNotes
  <1>1. IsFiniteSet(SpentNotes)
    <2>1. PICK f : f = [k \in isNullifierUsed |-> k.note]
      OBVIOUS
    <2>2. f \in Surjection(isNullifierUsed, SpentNotes)
      BY <2>1 DEF Surjection, SpentNotes
    <2> QED
      BY <2>2, FS_Surjection DEF WalletInv, UsedOk
  <1>2. \A n \in SpentNotes : WasInserted(n)
    BY DEF WalletInv, UsedOk, SpentNotes
  <1> QED
    BY <1>1, <1>2, LogFacts DEF SpentNotes

LEMMA SumsAreFinite ==
    ASSUME PoolInv, WalletInv
    PROVE  /\ IsFiniteSet(UnspentNotes) /\ UnspentNotes \subseteq notes
           /\ IsFiniteSet(Withdrawn) /\ Withdrawn \subseteq DOMAIN spendRecords
           /\ IsFiniteSet(isNullifierUsed) /\ IsFiniteSet(SpentNotes)
           /\ \A n \in notes : Worth[n] = n.amount /\ Worth[n] \in Int
           /\ \A n \in DOMAIN spendRecords : /\ Owed[n] = spendRecords[n].amount
                                             /\ Owed[n] \in Int
           /\ \A k \in isNullifierUsed : /\ Spent[k] = k.note.amount
                                         /\ Spent[k] \in Int
           /\ \A n \in SpentNotes : Once[n] = n.amount /\ Once[n] \in Int
  <1>1. IsFiniteSet(UnspentNotes) /\ UnspentNotes \subseteq notes
    BY UnspentIs, FS_Subset DEF WalletInv, NotesOk
  <1>2. IsFiniteSet(isNullifierUsed) /\ IsFiniteSet(SpentNotes)
    BY SpentNotesDrawn DEF WalletInv, UsedOk
  <1>3. IsFiniteSet(Withdrawn) /\ Withdrawn \subseteq DOMAIN spendRecords
    <2>1. Withdrawn \subseteq DOMAIN spendRecords /\ IsFiniteSet(DOMAIN spendRecords)
      BY <1>2 DEF Withdrawn, PoolInv, RecordsAreNullifiers
    <2> QED
      BY <2>1, FS_Subset
  <1>4. \A n \in NoteDrawn : n.amount \in Int
    BY DEF NoteDrawn
  <1>5. \A n \in notes : Worth[n] = n.amount /\ Worth[n] \in Int
    BY <1>4 DEF Worth, WalletInv, NotesOk
  <1>6. \A n \in DOMAIN spendRecords : /\ Owed[n] = spendRecords[n].amount
                                       /\ Owed[n] \in Int
    BY DEF Owed, PoolInv, RecordsOk, IsRecord
  <1>7. \A k \in isNullifierUsed : Spent[k] = k.note.amount /\ Spent[k] \in Int
    BY <1>4, SpentNotesDrawn DEF Spent
  <1>8. \A n \in SpentNotes : Once[n] = n.amount /\ Once[n] \in Int
    BY <1>4, SpentNotesDrawn DEF Once
  <1> QED
    BY <1>1, <1>2, <1>3, <1>5, <1>6, <1>7, <1>8

\* What an event deposited beyond its payment is a number.
LEMMA BeyondIs ==
    ASSUME EventsOk
    PROVE  /\ IsFiniteSet(DOMAIN events)
           /\ \A i \in DOMAIN events : Beyond[i] \in Int
           /\ Overclaimed \in Int
  <1>1. PICK len \in Nat : len = Len(events)
    BY DEF EventsOk
  <1>2. DOMAIN events = 1..len
    BY <1>1 DEF EventsOk
  <1>3. IsFiniteSet(DOMAIN events)
    BY <1>2, FS_Interval
  <1>4. ASSUME NEW i \in DOMAIN events PROVE Beyond[i] \in Int
    <2>1. PICK e : e = events[i]
      OBVIOUS
    <2>2. e \in EventRow /\ (e.kind = "Deposited" => Len(e.inserted) = 1)
      <3>1. EventOk(i) /\ events[i] \in EventRow
        BY DEF EventsOk
      <3> QED
        BY <2>1, <3>1 DEF EventOk
    <2>3. e.inserted \in Seq(NoteDrawn) /\ e.amount \in Nat
      BY <2>2 DEF EventRow
    <2>4. e.kind = "Deposited" => e.inserted[1] \in NoteDrawn
      BY <2>2, <2>3
    <2>5. ClaimedBeyond(e) \in Int
      BY <2>3, <2>4 DEF ClaimedBeyond, NoteDrawn
    <2> QED
      BY <2>1, <2>5 DEF Beyond
  <1> QED
    BY <1>3, <1>4, SumType, BackedIs

LEMMA SumsAreInts ==
    ASSUME PoolInv, WalletInv
    PROVE  /\ UnspentWorth \in Int /\ SpentWorth \in Int /\ OnceWorth \in Int
           /\ PaidOut \in Int /\ Overclaimed \in Int /\ held \in Int
  <1>1. UnspentWorth \in Int
    BY SumsAreFinite, SumType DEF UnspentWorth
  <1>2. SpentWorth \in Int /\ OnceWorth \in Int
    BY SumsAreFinite, SumType DEF SpentWorth, OnceWorth
  <1>3. PaidOut \in Int
    <2>1. \A n \in Withdrawn : Owed[n] \in Int
      BY SumsAreFinite
    <2> QED
      BY <2>1, SumsAreFinite, SumType, BackedIs
  <1> QED
    BY <1>1, <1>2, <1>3, BeyondIs DEF PoolInv, AmountsOk, WalletInv

\* A new event adds what it deposited beyond its payment.
LEMMA OverclaimedMore ==
    ASSUME EventsOk, EventsOk', NEW e, events' = Append(events, e)
    PROVE  Overclaimed' = Overclaimed + ClaimedBeyond(e)
  <1>1. PICK len \in Nat : len = Len(events)
    BY DEF EventsOk
  <1>2. /\ DOMAIN events = 1..len /\ DOMAIN events' = 1..(len + 1)
        /\ events'[len + 1] = e
        /\ \A i \in 1..len : events'[i] = events[i]
    BY <1>1 DEF EventsOk
  <1>3. PICK S, x, f, g : /\ S = DOMAIN events /\ x = len + 1
                          /\ f = Beyond /\ g = Beyond'
    OBVIOUS
  <1>4. /\ x \notin S /\ DOMAIN events' = S \cup {x}
        /\ \A i \in S : i \in DOMAIN events' /\ events'[i] = events[i]
        /\ events'[x] = e /\ x \in DOMAIN events'
    BY <1>2, <1>3
  <1>5. IsFiniteSet(S) /\ \A i \in S : f[i] \in Int
    BY <1>3, BeyondIs
  <1>6. (\A i \in DOMAIN events : Beyond[i] \in Int)'
    <2>1. EventsOk' => (\A i \in DOMAIN events : Beyond[i] \in Int)'
      BY BeyondIs, PTL
    <2> QED
      BY <2>1
  <1>7. \A i \in S \cup {x} : g[i] \in Int
    BY <1>3, <1>4, <1>6
  <1>8. g[x] = ClaimedBeyond(e) /\ \A i \in S : g[i] = f[i]
    BY <1>3, <1>4 DEF Beyond, ClaimedBeyond
  <1>9. SumFunctionOnSet(g, S \cup {x}) = g[x] + SumFunctionOnSet(g, S)
    BY <1>4, <1>5, <1>7, SumAdd
  <1>10. SumFunctionOnSet(g, S) = SumFunctionOnSet(f, S)
    BY <1>5, <1>8, SumSame
  <1>11. Overclaimed = SumFunctionOnSet(f, S)
    BY <1>3, BackedIs
  <1>12. Overclaimed' = SumFunctionOnSet(g, S \cup {x})
    BY <1>3, <1>4 DEF Overclaimed, Beyond
  <1>13. SumFunctionOnSet(f, S) \in Int
    BY <1>11, BeyondIs
  <1> QED
    BY <1>4, <1>7, <1>8, <1>9, <1>10, <1>11, <1>12, <1>13

LEMMA SameSpends ==
    ASSUME isNullifierUsed' = isNullifierUsed
    PROVE  SpentNotes' = SpentNotes /\ SpentWorth' = SpentWorth /\ OnceWorth' = OnceWorth
  BY DEF SpentNotes, SpentWorth, OnceWorth, Spent, Once

LEMMA SamePaidOut ==
    ASSUME spendRecords' = spendRecords
    PROVE  PaidOut' = PaidOut
  BY DEF PaidOut

\* Notes made known are worth nothing before they are in the tree.
LEMMA SameUnspent ==
    ASSUME PoolInv, WalletInv, notes \subseteq notes',
           UnspentNotes' = UnspentNotes
    PROVE  UnspentWorth' = UnspentWorth
  <1>1. \A n \in UnspentNotes : Worth'[n] = Worth[n]
    BY SumsAreFinite DEF Worth
  <1>2. SumFunctionOnSet(Worth', UnspentNotes) = SumFunctionOnSet(Worth, UnspentNotes)
    BY <1>1, SumsAreFinite, SumSame
  <1> QED
    BY <1>2 DEF UnspentWorth

\* A note that enters the tree adds its worth.
LEMMA OneMoreUnspent ==
    ASSUME NEW f, NEW S, IsFiniteSet(S), NEW x, x \notin S,
           \A y \in S \cup {x} : f[y] = y.amount /\ f[y] \in Int
    PROVE  /\ IsFiniteSet(S \cup {x})
           /\ SumFunctionOnSet(f, S) \in Int
           /\ SumFunctionOnSet(f, S \cup {x}) = x.amount + SumFunctionOnSet(f, S)
  <1>1. SumFunctionOnSet(f, S) \in Int
    BY SumType
  <1>2. \A y \in S \cup {x} : f[y] \in Int
    OBVIOUS
  <1>3. /\ IsFiniteSet(S \cup {x})
        /\ SumFunctionOnSet(f, S \cup {x}) = f[x] + SumFunctionOnSet(f, S)
    BY <1>2, SumAdd
  <1> QED
    BY <1>1, <1>3

\* A deposit adds the worth of its note and what was paid in.
LEMMA DepositBacked ==
    ASSUME PoolInv, WalletInv, PoolBacked, NEW note, NEW amount \in Nat,
           Deposits(note, amount), held' = held + amount
    PROVE  PoolBacked'
  <1>1. /\ WalletInv' /\ note \notin notes /\ ~WasInserted(note)
        /\ \A n : WasInserted(n)' <=> WasInserted(n) \/ n = note
    BY DepositKeepsWallet
  <1>2. /\ notes' = notes \cup {note} /\ isNullifierUsed' = isNullifierUsed
        /\ spendRecords' = spendRecords /\ note.amount \in Nat
    BY DEF Deposits
  <1>3. note \notin SpentNotes /\ SpentNotes' = SpentNotes
    BY <1>1, <1>2, SpentNotesDrawn, SameSpends
  <1>4. UnspentNotes' = UnspentNotes \cup {note} /\ note \notin UnspentNotes
    BY <1>1, <1>2, <1>3, UnspentIs
  <1>5. PICK S, worth, old : S = UnspentNotes /\ worth = Worth' /\ old = Worth
    OBVIOUS
  <1>6. IsFiniteSet(S) /\ S \subseteq notes /\ \A n \in S : old[n] = n.amount /\ old[n] \in Int
    BY <1>5, SumsAreFinite
  <1>7. \A n \in notes' : worth[n] = n.amount
    BY <1>5 DEF Worth
  <1>8. /\ \A n \in S : worth[n] = old[n]
        /\ \A n \in S \cup {note} : worth[n] = n.amount /\ worth[n] \in Int
    BY <1>2, <1>6, <1>7
  <1>9. SumFunctionOnSet(worth, S \cup {note})
           = note.amount + SumFunctionOnSet(worth, S)
    BY <1>4, <1>5, <1>6, <1>8, OneMoreUnspent
  <1>10. SumFunctionOnSet(worth, S) = SumFunctionOnSet(old, S)
    BY <1>6, <1>8, SumSame
  <1>11. UnspentWorth' = note.amount + UnspentWorth
    BY <1>4, <1>5, <1>9, <1>10 DEF UnspentWorth
  <1>12. Overclaimed' = Overclaimed + (note.amount - amount)
    <2>1. PICK e : e = [kind |-> "Deposited", leafIndex |-> leafCount,
                        inserted |-> <<note>>, amount |-> amount]
      OBVIOUS
    <2>2. ClaimedBeyond(e) = note.amount - amount
      BY <2>1 DEF ClaimedBeyond
    <2>3. events' = Append(events, e) /\ EventsOk /\ EventsOk'
      BY <1>1, <2>1 DEF Deposits, WalletInv
    <2> QED
      BY <2>2, <2>3, OverclaimedMore
  <1>13. PaidOut' = PaidOut /\ SpentWorth' = SpentWorth /\ OnceWorth' = OnceWorth
    BY <1>2, SameSpends, SamePaidOut
  <1>14. UnspentWorth = held + PaidOut + Overclaimed + (SpentWorth - OnceWorth)
    BY BackedIs
  <1>15. UnspentWorth' = held' + PaidOut' + Overclaimed' + (SpentWorth' - OnceWorth')
    BY <1>2, <1>11, <1>12, <1>13, <1>14, SumsAreInts
  <1> QED
    BY <1>15, BackedNext

\* A payment prepared is worth nothing until it is submitted.
LEMMA PrepareBacked ==
    ASSUME PoolInv, WalletInv, PoolBacked, NEW q, Prepares(q)
    PROVE  PoolBacked'
  <1>1. /\ \A n \in Heirs(q) : ~WasInserted(n)
        /\ \A n : WasInserted(n)' <=> WasInserted(n)
    BY PrepareKeepsWallet
  <1>2. /\ notes' = notes \cup Heirs(q)
        /\ UNCHANGED <<isNullifierUsed, spendRecords, held, events>>
    BY DEF Prepares, poolVars
  <1>3. UnspentNotes' = UnspentNotes
    BY <1>1, <1>2, UnspentIs, SameSpends
  <1>4. UnspentWorth' = UnspentWorth
    BY <1>2, <1>3, SameUnspent
  <1>5. /\ PaidOut' = PaidOut /\ SpentWorth' = SpentWorth
        /\ OnceWorth' = OnceWorth /\ Overclaimed' = Overclaimed
    BY <1>2, SameSpends, SamePaidOut DEF Overclaimed
  <1> QED
    BY <1>2, <1>4, <1>5, BackedIs, BackedNext

\* A spend puts its two heirs into the tree, which are worth its note: that is
\* worth nothing any more, if it was before.
LEMMA SubmitUnspent ==
    ASSUME PoolInv, WalletInv, NEW p, Submits(p)
    PROVE  /\ p.note \in SpentNotes => UnspentWorth' = UnspentWorth + p.note.amount
           /\ p.note \notin SpentNotes => UnspentWorth' = UnspentWorth
  <1>1. PICK s, m, c : s = p.note /\ m = p.merchantNote /\ c = p.changeNote
    OBVIOUS
  <1>2. PaymentOk(p) /\ Nullifier(p.secret, s) \notin isNullifierUsed
    BY <1>1 DEF WalletInv, PaymentsOk, Submits
  <1>3. /\ s \in notes /\ WasInserted(s) /\ m \in notes /\ c \in notes /\ m # c
        /\ ~WasInserted(m) /\ ~WasInserted(c) /\ Heirs(p) = {m, c}
        /\ m.amount = p.amount /\ c.amount = s.amount - p.amount
        /\ p.amount \in Nat
    BY <1>1, <1>2 DEF PaymentOk, Heirs
  <1>4. /\ notes' = notes /\ Worth' = Worth
        /\ isNullifierUsed' = isNullifierUsed \cup {Nullifier(p.secret, s)}
    BY <1>1 DEF Submits, walletVars, Worth
  <1>5. SpentNotes' = SpentNotes \cup {s}
    <2>1. PICK k : k = Nullifier(p.secret, s) /\ k.note = s
      <3>1. Nullifier(p.secret, s).note = s
        BY DEF Nullifier
      <3> QED
        BY <3>1
    <2>2. isNullifierUsed' = isNullifierUsed \cup {k}
      BY <1>4, <2>1
    <2> QED
      BY <2>1, <2>2 DEF SpentNotes
  <1>6. \A n : WasInserted(n)' <=> WasInserted(n) \/ n \in {m, c}
    BY <1>3, SubmitKeepsWallet
  <1>7. m \notin SpentNotes /\ c \notin SpentNotes /\ m # s /\ c # s
    BY <1>3, SpentNotesDrawn
  <1>8. PICK S, T, f : S = UnspentNotes /\ T = UnspentNotes \ {s} /\ f = Worth
    OBVIOUS
  <1>9. /\ m \notin S /\ c \notin T \cup {m} /\ m \notin T
        /\ UnspentNotes' = (T \cup {m}) \cup {c}
        /\ (s \in S <=> s \notin SpentNotes)
    BY <1>3, <1>4, <1>5, <1>6, <1>7, <1>8, UnspentIs
  <1>10. /\ IsFiniteSet(S) /\ S \subseteq notes /\ T \subseteq notes
         /\ IsFiniteSet(T)
         /\ \A n \in notes : f[n] = n.amount /\ f[n] \in Int
    <2>1. IsFiniteSet(UnspentNotes \ {s})
      BY SumsAreFinite, FS_RemoveElement
    <2> QED
      BY <1>8, <2>1, SumsAreFinite
  <1>11. /\ IsFiniteSet(T \cup {m}) /\ SumFunctionOnSet(f, T) \in Int
         /\ SumFunctionOnSet(f, T \cup {m}) = m.amount + SumFunctionOnSet(f, T)
    <2>1. \A y \in T \cup {m} : f[y] = y.amount /\ f[y] \in Int
      BY <1>3, <1>10
    <2> QED
      BY <1>9, <1>10, <2>1, OneMoreUnspent
  <1>12. SumFunctionOnSet(f, (T \cup {m}) \cup {c})
            = c.amount + SumFunctionOnSet(f, T \cup {m})
    <2>1. \A y \in (T \cup {m}) \cup {c} : f[y] = y.amount /\ f[y] \in Int
      BY <1>3, <1>10
    <2> QED
      BY <1>9, <1>11, <2>1, OneMoreUnspent
  <1>13. UnspentWorth' = SumFunctionOnSet(f, (T \cup {m}) \cup {c})
    BY <1>4, <1>8, <1>9 DEF UnspentWorth
  <1>14. s.amount \in Int
    BY <1>3, <1>10
  <1>15. UnspentWorth' = s.amount + SumFunctionOnSet(f, T)
    BY <1>3, <1>11, <1>12, <1>13, <1>14
  <1>16. UnspentWorth = SumFunctionOnSet(f, S)
    BY <1>8 DEF UnspentWorth
  <1>17. CASE s \in SpentNotes
    <2>1. T = S
      BY <1>8, <1>9, <1>17
    <2> QED
      BY <1>1, <1>11, <1>14, <1>15, <1>16, <1>17, <2>1
  <1>18. CASE s \notin SpentNotes
    <2>1. SumFunctionOnSet(f, S) = f[s] + SumFunctionOnSet(f, T)
      <3>1. s \in S /\ T = S \ {s} /\ \A n \in S : f[n] \in Int
        BY <1>8, <1>9, <1>10, <1>18
      <3> QED
        BY <1>10, <3>1, SumSplit
    <2>2. f[s] = s.amount
      BY <1>3, <1>10
    <2> QED
      BY <1>1, <1>11, <1>14, <1>15, <1>16, <1>18, <2>1, <2>2
  <1> QED
    BY <1>17, <1>18

\* It is spent for its worth, and for the first time if it was unspent.
LEMMA SubmitSpent ==
    ASSUME PoolInv, WalletInv, NEW p, Submits(p)
    PROVE  /\ SpentWorth' = SpentWorth + p.note.amount
           /\ p.note \in SpentNotes => OnceWorth' = OnceWorth
           /\ p.note \notin SpentNotes => OnceWorth' = OnceWorth + p.note.amount
           /\ p.note.amount \in Int
  <1>1. PICK s, k : s = p.note /\ k = Nullifier(p.secret, s)
    OBVIOUS
  <1>2. k.note = s /\ k \notin isNullifierUsed /\ isNullifierUsed' = isNullifierUsed \cup {k}
    BY <1>1 DEF Submits, Nullifier
  <1>3. SpentNotes' = SpentNotes \cup {s}
    BY <1>2 DEF SpentNotes
  <1>4. s.amount \in Int
    <2>1. s \in notes
      BY <1>1 DEF WalletInv, PaymentsOk, PaymentOk, Submits
    <2> QED
      BY <2>1 DEF WalletInv, NotesOk, NoteDrawn
  <1>5. PICK U, f, g : U = isNullifierUsed /\ f = Spent /\ g = Spent'
    OBVIOUS
  <1>6. /\ IsFiniteSet(U) /\ k \notin U /\ \A x \in U : f[x] = x.note.amount /\ f[x] \in Int
        /\ \A x \in U \cup {k} : g[x] = x.note.amount
        /\ SpentWorth = SumFunctionOnSet(f, U) /\ SpentWorth' = SumFunctionOnSet(g, U \cup {k})
    BY <1>2, <1>5, SumsAreFinite DEF Spent, SpentWorth
  <1>7. /\ \A x \in U : g[x] = f[x]
        /\ \A x \in U \cup {k} : g[x] \in Int
        /\ g[k] = s.amount
    BY <1>2, <1>4, <1>6
  <1>8. SumFunctionOnSet(g, U \cup {k}) = g[k] + SumFunctionOnSet(g, U)
    BY <1>6, <1>7, SumAdd
  <1>9. SumFunctionOnSet(g, U) = SumFunctionOnSet(f, U) /\ SumFunctionOnSet(f, U) \in Int
    BY <1>6, <1>7, SumSame, SumType
  <1>10. SpentWorth' = SpentWorth + s.amount
    BY <1>4, <1>6, <1>7, <1>8, <1>9
  <1>11. PICK V, h, i : V = SpentNotes /\ h = Once /\ i = Once'
    OBVIOUS
  <1>12. /\ IsFiniteSet(V) /\ \A x \in V : h[x] = x.amount /\ h[x] \in Int
         /\ \A x \in V \cup {s} : i[x] = x.amount
         /\ OnceWorth = SumFunctionOnSet(h, V) /\ OnceWorth' = SumFunctionOnSet(i, V \cup {s})
    BY <1>3, <1>11, SumsAreFinite DEF Once, OnceWorth
  <1>13. \A x \in V : i[x] = h[x]
    BY <1>12
  <1>14. SumFunctionOnSet(i, V) = SumFunctionOnSet(h, V) /\ SumFunctionOnSet(h, V) \in Int
    BY <1>12, <1>13, SumSame, SumType
  <1>15. CASE s \in V
    <2>1. V \cup {s} = V
      BY <1>15
    <2> QED
      BY <1>1, <1>4, <1>10, <1>11, <1>12, <1>14, <1>15, <2>1
  <1>16. CASE s \notin V
    <2>1. \A x \in V \cup {s} : i[x] \in Int
      BY <1>4, <1>12
    <2>2. SumFunctionOnSet(i, V \cup {s}) = i[s] + SumFunctionOnSet(i, V)
      BY <1>12, <1>16, <2>1, SumAdd
    <2>3. i[s] = s.amount
      BY <1>12
    <2> QED
      BY <1>1, <1>4, <1>10, <1>11, <1>12, <1>14, <1>16, <2>2, <2>3
  <1> QED
    BY <1>15, <1>16

\* Nothing is paid out or deposited by a spend.
LEMMA SubmitPaid ==
    ASSUME PoolInv, WalletInv, NEW p, Submits(p),
           NEW k, k \notin DOMAIN spendRecords, ~spendRecords'[k].withdrawn,
           DOMAIN spendRecords' = DOMAIN spendRecords \cup {k},
           \A n \in DOMAIN spendRecords : spendRecords'[n] = spendRecords[n]
    PROVE  PaidOut' = PaidOut /\ Overclaimed' = Overclaimed /\ held' = held
  <1>1. Withdrawn' = Withdrawn
    BY DEF Withdrawn
  <1>2. PICK W, f, g : W = Withdrawn /\ f = Owed /\ g = Owed'
    OBVIOUS
  <1>3. IsFiniteSet(W) /\ \A n \in W : g[n] = f[n]
    BY <1>2, SumsAreFinite DEF Owed
  <1>4. SumFunctionOnSet(g, W) = SumFunctionOnSet(f, W)
    BY <1>3, SumSame
  <1>5. PaidOut' = SumFunctionOnSet(Owed', Withdrawn')
    BY DEF PaidOut, Owed, Withdrawn
  <1>6. PaidOut' = PaidOut
    BY <1>1, <1>2, <1>4, <1>5, BackedIs
  <1>7. Overclaimed' = Overclaimed
    <2>1. PICK e : e = [kind |-> "Spent", leafIndex |-> leafCount,
                        inserted |-> <<p.merchantNote, p.changeNote>>,
                        amount |-> p.amount]
      OBVIOUS
    <2>2. ClaimedBeyond(e) = 0
      BY <2>1 DEF ClaimedBeyond
    <2>3. events' = Append(events, e)
      BY <2>1 DEF Submits
    <2>4. EventsOk /\ EventsOk'
      BY SubmitKeepsWallet DEF WalletInv
    <2>5. Overclaimed' = Overclaimed + ClaimedBeyond(e)
      BY <2>3, <2>4, OverclaimedMore
    <2> QED
      BY <2>2, <2>5, SumsAreInts
  <1> QED
    BY <1>6, <1>7 DEF Submits

\* A spend turns its note into its heirs: the books stay balanced.
LEMMA SubmitBacked ==
    ASSUME PoolInv, WalletInv, PoolBacked, NEW p, Submits(p),
           NEW k, k \notin DOMAIN spendRecords, ~spendRecords'[k].withdrawn,
           DOMAIN spendRecords' = DOMAIN spendRecords \cup {k},
           \A n \in DOMAIN spendRecords : spendRecords'[n] = spendRecords[n]
    PROVE  PoolBacked'
  <1>1. PICK s : s = p.note.amount
    OBVIOUS
  <1>2. \/ UnspentWorth' = UnspentWorth + s /\ OnceWorth' = OnceWorth
        \/ UnspentWorth' = UnspentWorth /\ OnceWorth' = OnceWorth + s
    BY <1>1, SubmitUnspent, SubmitSpent
  <1>3. SpentWorth' = SpentWorth + s /\ s \in Int
    BY <1>1, SubmitSpent
  <1>4. PaidOut' = PaidOut /\ Overclaimed' = Overclaimed /\ held' = held
    BY SubmitPaid
  <1>5. UnspentWorth = held + PaidOut + Overclaimed + (SpentWorth - OnceWorth)
    BY BackedIs
  <1>6. UnspentWorth' = held' + PaidOut' + Overclaimed' + (SpentWorth' - OnceWorth')
    BY <1>2, <1>3, <1>4, <1>5, SumsAreInts
  <1> QED
    BY <1>6, BackedNext

\* A withdrawal pays out one record.
LEMMA WithdrawBacked ==
    ASSUME PoolInv, WalletInv, PoolBacked, NEW k \in DOMAIN spendRecords,
           NEW nonce \in Nonces, NEW recipient \in Recipients,
           Withdraw(k, nonce, recipient)
    PROVE  PoolBacked'
  <1>0. IsRecord(spendRecords[k])
    BY DEF PoolInv, RecordsOk
  <1>1. /\ UNCHANGED <<notes, events, isNullifierUsed>>
        /\ DOMAIN spendRecords' = DOMAIN spendRecords
    BY DEF Withdraw, walletVars
  <1>2. /\ \A n \in DOMAIN spendRecords : n # k => spendRecords'[n] = spendRecords[n]
        /\ spendRecords'[k].amount = spendRecords[k].amount
        /\ spendRecords'[k].withdrawn /\ ~spendRecords[k].withdrawn
        /\ held' = held - spendRecords[k].amount
    <2>1. PICK old, new : old = spendRecords[k] /\ new = spendRecords'[k]
      OBVIOUS
    <2>2. /\ new = [old EXCEPT !.withdrawn = TRUE] /\ IsRecord(old)
          /\ ~old.withdrawn /\ held' = held - old.amount
      BY <1>0, <2>1, WithdrawRecords
    <2>3. new.amount = old.amount /\ new.withdrawn
      BY <2>2 DEF IsRecord
    <2>4. \A n \in DOMAIN spendRecords : n # k => spendRecords'[n] = spendRecords[n]
      BY WithdrawRecords
    <2> QED
      BY <2>1, <2>2, <2>3, <2>4
  <1>3. UnspentNotes' = UnspentNotes /\ UnspentWorth' = UnspentWorth
    BY <1>1 DEF UnspentNotes, UnspentWorth, Worth, SpentNotes
  <1>4. Owed' = Owed
    BY <1>1, <1>2 DEF Owed
  <1>5. k \notin Withdrawn /\ Withdrawn' = Withdrawn \cup {k}
    BY <1>1, <1>2 DEF Withdrawn
  <1>6. PICK W, f : W = Withdrawn /\ f = Owed
    OBVIOUS
  <1>7. /\ IsFiniteSet(W) /\ k \notin W /\ W \subseteq DOMAIN spendRecords
        /\ \A n \in W \cup {k} : f[n] \in Int
        /\ f[k] = spendRecords[k].amount /\ f[k] \in Int
    BY <1>5, <1>6, SumsAreFinite
  <1>8. SumFunctionOnSet(f, W \cup {k}) = f[k] + SumFunctionOnSet(f, W)
    BY <1>7, SumAdd
  <1>9. PaidOut' = SumFunctionOnSet(Owed', Withdrawn')
    BY DEF PaidOut, Owed, Withdrawn
  <1>10. PaidOut' = f[k] + PaidOut
    BY <1>4, <1>5, <1>6, <1>8, <1>9, BackedIs
  <1>11. held' = held - f[k]
    BY <1>2, <1>7
  <1>12. /\ SpentWorth' = SpentWorth /\ OnceWorth' = OnceWorth
         /\ Overclaimed' = Overclaimed
    BY <1>1, SameSpends DEF Overclaimed
  <1>13. UnspentWorth = held + PaidOut + Overclaimed + (SpentWorth - OnceWorth)
    BY BackedIs
  <1>14. UnspentWorth' = held' + PaidOut' + Overclaimed' + (SpentWorth' - OnceWorth')
    BY <1>3, <1>7, <1>10, <1>11, <1>12, <1>13, SumsAreInts
  <1> QED
    BY <1>14, BackedNext

LEMMA QuietBacked ==
    ASSUME PoolBacked, UNCHANGED <<held, notes, events, isNullifierUsed, spendRecords>>
    PROVE  PoolBacked'
  BY DEF PoolBacked, UnspentNotes, PaidOut, Overclaimed, Respent, SpentNotes

LEMMA InitPoolBacked == Init => PoolBacked
  <1> SUFFICES ASSUME Init PROVE PoolBacked
    OBVIOUS
  <1>1. /\ UnspentNotes = {} /\ Withdrawn = {} /\ held = 0
        /\ isNullifierUsed = {} /\ SpentNotes = {} /\ DOMAIN events = {}
    BY DEF Init, UnspentNotes, Withdrawn, SpentNotes
  <1>2. \A f : SumFunctionOnSet(f, {}) = 0
    BY SumOfNothing
  <1>3. UnspentWorth = 0 /\ SpentWorth = 0 /\ OnceWorth = 0
    BY <1>1, <1>2 DEF UnspentWorth, SpentWorth, OnceWorth
  <1>4. PaidOut = 0 /\ Overclaimed = 0
    BY <1>1, <1>2, BackedIs
  <1> QED
    BY <1>1, <1>3, <1>4, BackedIs

LEMMA StepPoolBacked ==
    ASSUME PoolInv, WalletInv, PoolBacked, [Next]_vars
    PROVE  WalletInv' /\ PoolBacked'
  <1>1. ASSUME NEW noteAmount \in NoteAmounts, NEW amount \in DepositAmounts,
               Deposit(noteAmount, amount)
        PROVE  WalletInv' /\ PoolBacked'
    <2>1. PICK note : note = Note(noteAmount, lastRho + 1, Owner)
      OBVIOUS
    <2>2. Deposits(note, amount) /\ held' = held + amount /\ amount \in Nat
      BY <1>1, <2>1, DepositDeposits DEF WalletInv
    <2> QED
      BY <2>2, DepositKeepsWallet, DepositBacked
  <1>2. CASE Ingest
    <2>1. UNCHANGED <<held, notes, events, isNullifierUsed, spendRecords>>
      BY <1>2 DEF Ingest, poolVars
    <2> QED
      BY <1>2, <2>1, IngestKeepsWallet, QuietBacked
  <1>3. ASSUME NEW note \in notes, NEW index \in 0..(Len(commitments) - 1),
               NEW secret \in Secrets, NEW amount \in PayAmounts,
               NEW nonce \in Nonces,
               PreparePayment(note, index, secret, amount, nonce)
        PROVE  WalletInv' /\ PoolBacked'
    <2>1. PICK q : Prepares(q)
      BY <1>3, PreparePrepares
    <2> QED
      BY <2>1, PrepareKeepsWallet, PrepareBacked
  <1>4. ASSUME NEW p \in payments, SubmitSpend(p)
        PROVE  WalletInv' /\ PoolBacked'
    <2>1. Submits(p)
      BY <1>4, SubmitSubmits
    <2>2. PICK k, record :
             /\ k = Nullifier(p.secret, p.note)
             /\ record = [amount |-> p.amount, challengeHash |->
                             PublicInputs(p).challengeHash, withdrawn |-> FALSE]
      OBVIOUS
    <2>3. /\ k \notin isNullifierUsed
          /\ spendRecords' = [n \in DOMAIN spendRecords \cup {k} |->
                                 IF n = k THEN record ELSE spendRecords[n]]
      BY <1>4, <2>2 DEF SubmitSpend, SpendAccepted, PublicInputs, NullifierIsNew
    <2>4. ~record.withdrawn
      BY <2>2
    <2>5. k \notin DOMAIN spendRecords
      BY <2>3 DEF PoolInv, RecordsAreNullifiers
    <2>6. /\ spendRecords'[k] = record
          /\ DOMAIN spendRecords' = DOMAIN spendRecords \cup {k}
          /\ \A n \in DOMAIN spendRecords : spendRecords'[n] = spendRecords[n]
      BY <2>3, <2>5
    <2>7. PoolBacked'
      BY <2>1, <2>4, <2>5, <2>6, SubmitBacked
    <2> QED
      BY <2>1, <2>7, SubmitKeepsWallet
  <1>5. ASSUME NEW k \in DOMAIN spendRecords, NEW nonce \in Nonces,
               NEW recipient \in Recipients, Withdraw(k, nonce, recipient)
        PROVE  WalletInv' /\ PoolBacked'
    <2>1. UNCHANGED <<notes, lastRho, events, leafCount, indexed, commitments,
                      payments, isNullifierUsed>>
      BY <1>5 DEF Withdraw, treeVars, walletVars
    <2> QED
      BY <1>5, <2>1, QuietKeepsWallet, WithdrawBacked
  <1>6. CASE UNCHANGED vars
    <2>1. /\ UNCHANGED <<notes, lastRho, events, leafCount, indexed, commitments,
                         payments, isNullifierUsed>>
          /\ UNCHANGED <<held, spendRecords>>
      BY <1>6 DEF vars, poolVars, treeVars, walletVars
    <2> QED
      BY <2>1, QuietKeepsWallet, QuietBacked
  <1> QED
    BY <1>1, <1>2, <1>3, <1>4, <1>5, <1>6 DEF Next

\* The pool's books balance (deposit, submitSpend, withdraw of
\* ShieldedPool.sol): what its unspent notes are worth is what it holds and has
\* paid out, with what deposited notes claim beyond their deposits and what
\* notes were spent for again under another nullifier secret; for any deposits,
\* any secrets and any payments prepared from one note or another, the change
\* and the merchants' notes included.
THEOREM PoolIsBacked == Spec => []PoolBacked
  <1>1. PoolInv /\ [Next]_vars => PoolInv'
    BY StepKeepsSpends
  <1>2. PoolInv /\ WalletInv /\ PoolBacked /\ [Next]_vars => WalletInv' /\ PoolBacked'
    BY StepPoolBacked
  <1> QED
    BY <1>1, <1>2, InitPoolInv, InitWalletInv, InitPoolBacked, PTL DEF Spec
-----------------------------------------------------------------------------
(* The levels of the tree, one by one *)

ToRoot == 0..TreeDepth

LEMMA LevelsAre ==
    /\ TreeDepth \in Nat /\ 0 \in ToRoot /\ TreeDepth \in ToRoot
    /\ ToRoot \subseteq Nat /\ Below \subseteq ToRoot
    /\ \A l \in Below : l \in Nat /\ l + 1 \in ToRoot /\ l + 1 # 0 /\ (l + 1) - 1 = l
    /\ \A l \in ToRoot : l # 0 => l - 1 \in Below /\ (l - 1) + 1 = l
  BY TreeDepthAssumption DEF TreeDepthAssumption, ToRoot, Below

\* Induction over the levels.
LEMMA LevelByLevel ==
    ASSUME NEW G, 0 \in G, \A l \in Below : l \in G => l + 1 \in G
    PROVE  ToRoot \subseteq G
  <1> DEFINE H == {n \in Nat : n \in ToRoot => n \in G}
  <1>1. 0 \in H
    OBVIOUS
  <1>2. ASSUME NEW n \in Nat, n \in H PROVE n + 1 \in H
    <2>1. n + 1 \in ToRoot => n \in ToRoot /\ n \in Below
      BY TreeDepthAssumption DEF TreeDepthAssumption, ToRoot, Below
    <2> QED
      BY <1>2, <2>1
  <1> HIDE DEF H
  <1>3. Nat \subseteq H
    BY <1>1, <1>2, NaturalsOneByOne
  <1> QED
    BY <1>3, LevelsAre DEF H

\* A function on the levels up to n, with one level more.
OneMore(h, g, n, v) ==
    /\ h = [level \in 0..(n + 1) |-> h[level]]
    /\ \A level \in 0..(n + 1) :
          IF level = n + 1
          THEN h[level] = v /\ level # 0 /\ h[level - 1] = g[n] /\ level - 1 = n
          ELSE /\ h[level] = g[level] /\ level \in 0..n
               /\ level # 0 => h[level - 1] = g[level - 1]

LEMMA OneMoreLevel ==
    ASSUME NEW n \in Nat, NEW g, NEW v
    PROVE  \E h : OneMore(h, g, n, v)
  <1> DEFINE h == [level \in 0..(n + 1) |-> IF level = n + 1 THEN v ELSE g[level]]
  <1>1. \A level \in 0..(n + 1) : level # n + 1 =>
           level \in 0..n /\ (level # 0 => level - 1 \in 0..(n + 1) /\ level - 1 # n + 1)
    OBVIOUS
  <1>2. n \in 0..(n + 1) /\ n # n + 1 /\ (n + 1) - 1 = n /\ n + 1 # 0
    OBVIOUS
  <1>3. OneMore(h, g, n, v)
    BY <1>1, <1>2 DEF OneMore
  <1> QED
    BY <1>3

-----------------------------------------------------------------------------
(* The recursions over the levels, unfolded.  Each is chosen among the       *)
(* functions that satisfy its equation (To), of which there is one up to any *)
(* level by induction.                                                       *)

LEMMA ZerosLevels ==
    /\ Zeros[0] = ZeroLeaf
    /\ \A l \in Below : Zeros[l + 1] =
          HashPair(Zeros[l], Zeros[l])
  <1> DEFINE To(g, n) == g = [level \in 0..n |->
                            IF level = 0 THEN ZeroLeaf
                            ELSE HashPair(g[level - 1], g[level - 1])]
             G == {n \in ToRoot : \E g : To(g, n)}
  <1>1. 0 \in G
    <2>1. To([level \in 0..0 |-> ZeroLeaf], 0)
      OBVIOUS
    <2> QED
      BY <2>1, LevelsAre
  <1>2. ASSUME NEW n \in Below, n \in G PROVE n + 1 \in G
    <2>1. PICK g : To(g, n)
      BY <1>2
    <2>2. PICK h : OneMore(h, g, n,
                     HashPair(g[n], g[n]))
      BY OneMoreLevel, LevelsAre
    <2>3. ASSUME NEW level \in 0..(n + 1)
          PROVE  h[level] = IF level = 0 THEN ZeroLeaf
                          ELSE HashPair(h[level - 1], h[level - 1])
      <3>1. CASE level = n + 1
        BY <2>2, <3>1 DEF OneMore
      <3>2. CASE level # n + 1
        <4>1. /\ h[level] = g[level] /\ level \in 0..n
              /\ level # 0 => h[level - 1] = g[level - 1]
          BY <2>2, <3>2 DEF OneMore
        <4> QED
          BY <2>1, <4>1
      <3> QED
        BY <3>1, <3>2
    <2>4. To(h, n + 1)
      BY <2>2, <2>3 DEF OneMore
    <2> HIDE DEF To
    <2> QED
      BY <2>4, LevelsAre
  <1>3. TreeDepth \in G
    <2> HIDE DEF G
    <2> QED
      BY <1>1, <1>2, LevelByLevel, LevelsAre
  <1>4. PICK u : u = CHOOSE g : To(g, TreeDepth)
    OBVIOUS
  <1>5. u = Zeros
    BY <1>4 DEF Zeros
  <1>6. To(u, TreeDepth)
    BY <1>3, <1>4
  <1>7. u[0] = ZeroLeaf
    BY <1>6, LevelsAre DEF ToRoot
  <1>8. ASSUME NEW l \in Below PROVE u[l + 1] = HashPair(u[l], u[l])
    <2>1. PICK m : m = l + 1
      OBVIOUS
    <2>2. m \in 0..TreeDepth /\ m # 0 /\ m - 1 = l
      BY <2>1, LevelsAre DEF ToRoot
    <2> QED
      BY <1>6, <2>1, <2>2
  <1> QED
    BY <1>5, <1>7, <1>8

LEMMA PowerOfTwoLevels ==
    /\ PowerOfTwo[0] = 1
    /\ \A l \in Below : PowerOfTwo[l + 1] =
          2 * PowerOfTwo[l]
  <1> DEFINE To(g, n) == g = [level \in 0..n |->
                            IF level = 0 THEN 1
                            ELSE 2 * g[level - 1]]
             G == {n \in ToRoot : \E g : To(g, n)}
  <1>1. 0 \in G
    <2>1. To([level \in 0..0 |-> 1], 0)
      OBVIOUS
    <2> QED
      BY <2>1, LevelsAre
  <1>2. ASSUME NEW n \in Below, n \in G PROVE n + 1 \in G
    <2>1. PICK g : To(g, n)
      BY <1>2
    <2>2. PICK h : OneMore(h, g, n,
                     2 * g[n])
      BY OneMoreLevel, LevelsAre
    <2>3. ASSUME NEW level \in 0..(n + 1)
          PROVE  h[level] = IF level = 0 THEN 1
                          ELSE 2 * h[level - 1]
      <3>1. CASE level = n + 1
        BY <2>2, <3>1 DEF OneMore
      <3>2. CASE level # n + 1
        <4>1. /\ h[level] = g[level] /\ level \in 0..n
              /\ level # 0 => h[level - 1] = g[level - 1]
          BY <2>2, <3>2 DEF OneMore
        <4> QED
          BY <2>1, <4>1
      <3> QED
        BY <3>1, <3>2
    <2>4. To(h, n + 1)
      BY <2>2, <2>3 DEF OneMore
    <2> HIDE DEF To
    <2> QED
      BY <2>4, LevelsAre
  <1>3. TreeDepth \in G
    <2> HIDE DEF G
    <2> QED
      BY <1>1, <1>2, LevelByLevel, LevelsAre
  <1>4. PICK u : u = CHOOSE g : To(g, TreeDepth)
    OBVIOUS
  <1>5. u = PowerOfTwo
    BY <1>4 DEF PowerOfTwo
  <1>6. To(u, TreeDepth)
    BY <1>3, <1>4
  <1>7. u[0] = 1
    BY <1>6, LevelsAre DEF ToRoot
  <1>8. ASSUME NEW l \in Below PROVE u[l + 1] = 2 * u[l]
    <2>1. PICK m : m = l + 1
      OBVIOUS
    <2>2. m \in 0..TreeDepth /\ m # 0 /\ m - 1 = l
      BY <2>1, LevelsAre DEF ToRoot
    <2> QED
      BY <1>6, <2>1, <2>2
  <1> QED
    BY <1>5, <1>7, <1>8

LEMMA CurrentIndexLevels ==
    ASSUME NEW index
    PROVE  /\ CurrentIndex(index)[0] = index
           /\ \A l \in Below : CurrentIndex(index)[l + 1] =
                 CurrentIndex(index)[l] \div 2
  <1> DEFINE To(g, n) == g = [level \in 0..n |->
                            IF level = 0 THEN index
                            ELSE g[level - 1] \div 2]
             G == {n \in ToRoot : \E g : To(g, n)}
  <1>1. 0 \in G
    <2>1. To([level \in 0..0 |-> index], 0)
      OBVIOUS
    <2> QED
      BY <2>1, LevelsAre
  <1>2. ASSUME NEW n \in Below, n \in G PROVE n + 1 \in G
    <2>1. PICK g : To(g, n)
      BY <1>2
    <2>2. PICK h : OneMore(h, g, n,
                     g[n] \div 2)
      BY OneMoreLevel, LevelsAre
    <2>3. ASSUME NEW level \in 0..(n + 1)
          PROVE  h[level] = IF level = 0 THEN index
                          ELSE h[level - 1] \div 2
      <3>1. CASE level = n + 1
        BY <2>2, <3>1 DEF OneMore
      <3>2. CASE level # n + 1
        <4>1. /\ h[level] = g[level] /\ level \in 0..n
              /\ level # 0 => h[level - 1] = g[level - 1]
          BY <2>2, <3>2 DEF OneMore
        <4> QED
          BY <2>1, <4>1
      <3> QED
        BY <3>1, <3>2
    <2>4. To(h, n + 1)
      BY <2>2, <2>3 DEF OneMore
    <2> HIDE DEF To
    <2> QED
      BY <2>4, LevelsAre
  <1>3. TreeDepth \in G
    <2> HIDE DEF G
    <2> QED
      BY <1>1, <1>2, LevelByLevel, LevelsAre
  <1>4. PICK u : u = CHOOSE g : To(g, TreeDepth)
    OBVIOUS
  <1>5. u = CurrentIndex(index)
    BY <1>4 DEF CurrentIndex
  <1>6. To(u, TreeDepth)
    BY <1>3, <1>4
  <1>7. u[0] = index
    BY <1>6, LevelsAre DEF ToRoot
  <1>8. ASSUME NEW l \in Below PROVE u[l + 1] = u[l] \div 2
    <2>1. PICK m : m = l + 1
      OBVIOUS
    <2>2. m \in 0..TreeDepth /\ m # 0 /\ m - 1 = l
      BY <2>1, LevelsAre DEF ToRoot
    <2> QED
      BY <1>6, <2>1, <2>2
  <1> QED
    BY <1>5, <1>7, <1>8

LEMMA InsertionPathLevels ==
    ASSUME NEW filled, NEW index, NEW c
    PROVE  /\ InsertionPath(filled, index, c)[0] = c
           /\ \A l \in Below : InsertionPath(filled, index, c)[l + 1] =
                 IF Bit(index, l) = 0
                 THEN HashPair(InsertionPath(filled, index, c)[l], Zeros[l])
                 ELSE HashPair(filled[l], InsertionPath(filled, index, c)[l])
  <1> DEFINE To(g, n) == g = [level \in 0..n |->
                            IF level = 0 THEN c
                            ELSE IF Bit(index, level - 1) = 0
                                 THEN HashPair(g[level - 1], Zeros[level - 1])
                                 ELSE HashPair(filled[level - 1], g[level - 1])]
             G == {n \in ToRoot : \E g : To(g, n)}
  <1>1. 0 \in G
    <2>1. To([level \in 0..0 |-> c], 0)
      OBVIOUS
    <2> QED
      BY <2>1, LevelsAre
  <1>2. ASSUME NEW n \in Below, n \in G PROVE n + 1 \in G
    <2>1. PICK g : To(g, n)
      BY <1>2
    <2>2. PICK h : OneMore(h, g, n,
                     IF Bit(index, n) = 0 THEN HashPair(g[n], Zeros[n])
                                          ELSE HashPair(filled[n], g[n]))
      BY OneMoreLevel, LevelsAre
    <2>3. ASSUME NEW level \in 0..(n + 1)
          PROVE  h[level] = IF level = 0 THEN c
                          ELSE IF Bit(index, level - 1) = 0
                               THEN HashPair(h[level - 1], Zeros[level - 1])
                               ELSE HashPair(filled[level - 1], h[level - 1])
      <3>1. CASE level = n + 1
        BY <2>2, <3>1 DEF OneMore
      <3>2. CASE level # n + 1
        <4>1. /\ h[level] = g[level] /\ level \in 0..n
              /\ level # 0 => h[level - 1] = g[level - 1]
          BY <2>2, <3>2 DEF OneMore
        <4> QED
          BY <2>1, <4>1
      <3> QED
        BY <3>1, <3>2
    <2>4. To(h, n + 1)
      BY <2>2, <2>3 DEF OneMore
    <2> HIDE DEF To
    <2> QED
      BY <2>4, LevelsAre
  <1>3. TreeDepth \in G
    <2> HIDE DEF G
    <2> QED
      BY <1>1, <1>2, LevelByLevel, LevelsAre
  <1>4. PICK u : u = CHOOSE g : To(g, TreeDepth)
    OBVIOUS
  <1>5. u = InsertionPath(filled, index, c)
    BY <1>4 DEF InsertionPath
  <1>6. To(u, TreeDepth)
    BY <1>3, <1>4
  <1>7. u[0] = c
    BY <1>6, LevelsAre DEF ToRoot
  <1>8. ASSUME NEW l \in Below
        PROVE  u[l + 1] = IF Bit(index, l) = 0 THEN HashPair(u[l], Zeros[l])
                                               ELSE HashPair(filled[l], u[l])
    <2>1. PICK m : m = l + 1
      OBVIOUS
    <2>2. m \in 0..TreeDepth /\ m # 0 /\ m - 1 = l
      BY <2>1, LevelsAre DEF ToRoot
    <2> QED
      BY <1>6, <2>1, <2>2
  <1> QED
    BY <1>5, <1>7, <1>8

\* The level above: the parents of a level's nodes, a zero where one is odd.
NextLevel(nodes, level) ==
    [i \in 1..((Len(nodes) + 1) \div 2) |->
        HashPair(NodeOrZero(nodes, 2 * i - 2, level),
                 NodeOrZero(nodes, 2 * i - 1, level))]

LEMMA LevelsLevels ==
    ASSUME NEW leaves
    PROVE  /\ Levels(leaves)[0] = leaves
           /\ \A l \in Below : Levels(leaves)[l + 1] =
                 NextLevel(Levels(leaves)[l], l)
  <1> DEFINE To(g, n) == g = [level \in 0..n |->
                            IF level = 0 THEN leaves
                            ELSE NextLevel(g[level - 1], level - 1)]
             G == {n \in ToRoot : \E g : To(g, n)}
  <1>1. 0 \in G
    <2>1. To([level \in 0..0 |-> leaves], 0)
      OBVIOUS
    <2> QED
      BY <2>1, LevelsAre
  <1>2. ASSUME NEW n \in Below, n \in G PROVE n + 1 \in G
    <2>1. PICK g : To(g, n)
      BY <1>2
    <2>2. PICK h : OneMore(h, g, n,
                     NextLevel(g[n], n))
      BY OneMoreLevel, LevelsAre
    <2>3. ASSUME NEW level \in 0..(n + 1)
          PROVE  h[level] = IF level = 0 THEN leaves
                          ELSE NextLevel(h[level - 1], level - 1)
      <3>1. CASE level = n + 1
        BY <2>2, <3>1 DEF OneMore
      <3>2. CASE level # n + 1
        <4>1. /\ h[level] = g[level] /\ level \in 0..n
              /\ level # 0 => h[level - 1] = g[level - 1]
          BY <2>2, <3>2 DEF OneMore
        <4> QED
          BY <2>1, <4>1
      <3> QED
        BY <3>1, <3>2
    <2>4. To(h, n + 1)
      BY <2>2, <2>3 DEF OneMore
    <2> HIDE DEF To
    <2> QED
      BY <2>4, LevelsAre
  <1>3. TreeDepth \in G
    <2> HIDE DEF G
    <2> QED
      BY <1>1, <1>2, LevelByLevel, LevelsAre
  <1>4. PICK u : u = CHOOSE g : To(g, TreeDepth)
    OBVIOUS
  <1>5. u = Levels(leaves)
    BY <1>4 DEF Levels, NextLevel
  <1>6. To(u, TreeDepth)
    BY <1>3, <1>4
  <1>7. u[0] = leaves
    BY <1>6, LevelsAre DEF ToRoot
  <1>8. ASSUME NEW l \in Below PROVE u[l + 1] = NextLevel(u[l], l)
    <2>1. PICK m : m = l + 1
      OBVIOUS
    <2>2. m \in 0..TreeDepth /\ m # 0 /\ m - 1 = l
      BY <2>1, LevelsAre DEF ToRoot
    <2> QED
      BY <1>6, <2>1, <2>2
  <1> QED
    BY <1>5, <1>7, <1>8

\* The circuit's cur at each level.
Folded(leaf, path, bits) ==
    CHOOSE cur : cur = [level \in 0..TreeDepth |->
                          IF level = 0 THEN leaf
                          ELSE IF bits[level - 1] = 0
                               THEN HashPair(cur[level - 1], path[level - 1])
                               ELSE HashPair(path[level - 1], cur[level - 1])]

LEMMA FoldedIs ==
    \A leaf, path, bits :
        MerkleRootFromPath(leaf, path, bits) = Folded(leaf, path, bits)[TreeDepth]
  BY DEF MerkleRootFromPath, Folded

LEMMA FoldedLevels ==
    ASSUME NEW leaf, NEW path, NEW bits
    PROVE  /\ Folded(leaf, path, bits)[0] = leaf
           /\ \A l \in Below : Folded(leaf, path, bits)[l + 1] =
                 IF bits[l] = 0
                 THEN HashPair(Folded(leaf, path, bits)[l], path[l])
                 ELSE HashPair(path[l], Folded(leaf, path, bits)[l])
  <1> DEFINE To(g, n) == g = [level \in 0..n |->
                            IF level = 0 THEN leaf
                            ELSE IF bits[level - 1] = 0
                                 THEN HashPair(g[level - 1], path[level - 1])
                                 ELSE HashPair(path[level - 1], g[level - 1])]
             G == {n \in ToRoot : \E g : To(g, n)}
  <1>1. 0 \in G
    <2>1. To([level \in 0..0 |-> leaf], 0)
      OBVIOUS
    <2> QED
      BY <2>1, LevelsAre
  <1>2. ASSUME NEW n \in Below, n \in G PROVE n + 1 \in G
    <2>1. PICK g : To(g, n)
      BY <1>2
    <2>2. PICK h : OneMore(h, g, n,
                     IF bits[n] = 0 THEN HashPair(g[n], path[n])
                                    ELSE HashPair(path[n], g[n]))
      BY OneMoreLevel, LevelsAre
    <2>3. ASSUME NEW level \in 0..(n + 1)
          PROVE  h[level] = IF level = 0 THEN leaf
                          ELSE IF bits[level - 1] = 0
                               THEN HashPair(h[level - 1], path[level - 1])
                               ELSE HashPair(path[level - 1], h[level - 1])
      <3>1. CASE level = n + 1
        BY <2>2, <3>1 DEF OneMore
      <3>2. CASE level # n + 1
        <4>1. /\ h[level] = g[level] /\ level \in 0..n
              /\ level # 0 => h[level - 1] = g[level - 1]
          BY <2>2, <3>2 DEF OneMore
        <4> QED
          BY <2>1, <4>1
      <3> QED
        BY <3>1, <3>2
    <2>4. To(h, n + 1)
      BY <2>2, <2>3 DEF OneMore
    <2> HIDE DEF To
    <2> QED
      BY <2>4, LevelsAre
  <1>3. TreeDepth \in G
    <2> HIDE DEF G
    <2> QED
      BY <1>1, <1>2, LevelByLevel, LevelsAre
  <1>4. PICK u : u = CHOOSE g : To(g, TreeDepth)
    OBVIOUS
  <1>5. u = Folded(leaf, path, bits)
    BY <1>4 DEF Folded
  <1>6. To(u, TreeDepth)
    BY <1>3, <1>4
  <1>7. u[0] = leaf
    BY <1>6, LevelsAre DEF ToRoot
  <1>8. ASSUME NEW l \in Below
        PROVE  u[l + 1] = IF bits[l] = 0 THEN HashPair(u[l], path[l])
                                         ELSE HashPair(path[l], u[l])
    <2>1. PICK m : m = l + 1
      OBVIOUS
    <2>2. m \in 0..TreeDepth /\ m # 0 /\ m - 1 = l
      BY <2>1, LevelsAre DEF ToRoot
    <2> QED
      BY <1>6, <2>1, <2>2
  <1> QED
    BY <1>5, <1>7, <1>8

-----------------------------------------------------------------------------
(* The nodes of the tree, the absent ones included *)

\* On the way up an index loses its lowest bit at each level.
LEMMA IndexLevels ==
    ASSUME NEW k \in Nat
    PROVE  /\ CurrentIndex(k)[0] = k
           /\ \A l \in ToRoot : CurrentIndex(k)[l] \in Nat
           /\ \A l \in Below :
                 /\ Bit(k, l) \in {0, 1}
                 /\ CurrentIndex(k)[l] = 2 * CurrentIndex(k)[l + 1] + Bit(k, l)
  <1>1. /\ CurrentIndex(k)[0] = k
        /\ \A l \in Below : CurrentIndex(k)[l + 1] = CurrentIndex(k)[l] \div 2
    BY CurrentIndexLevels
  <1> DEFINE G == {l \in ToRoot : CurrentIndex(k)[l] \in Nat}
  <1>2. 0 \in G
    BY <1>1, LevelsAre
  <1>3. ASSUME NEW l \in Below, l \in G PROVE l + 1 \in G
    <2>1. PICK m \in Nat : m = CurrentIndex(k)[l]
      BY <1>3
    <2>2. m \div 2 \in Nat
      OBVIOUS
    <2> QED
      BY <1>1, <2>1, <2>2, LevelsAre
  <1>4. \A l \in ToRoot : CurrentIndex(k)[l] \in Nat
    <2> HIDE DEF G
    <2>1. ToRoot \subseteq G
      BY <1>2, <1>3, LevelByLevel
    <2> QED
      BY <2>1 DEF G
  <1>5. ASSUME NEW l \in Below
        PROVE  /\ Bit(k, l) \in {0, 1}
               /\ CurrentIndex(k)[l] = 2 * CurrentIndex(k)[l + 1] + Bit(k, l)
    <2>1. PICK m \in Nat : m = CurrentIndex(k)[l]
      BY <1>4, LevelsAre
    <2>2. m % 2 \in {0, 1} /\ m = 2 * (m \div 2) + (m % 2)
      OBVIOUS
    <2> QED
      BY <1>1, <2>1, <2>2 DEF Bit
  <1> QED
    BY <1>1, <1>4, <1>5

LEMMA PowersAreNat == \A n \in ToRoot : PowerOfTwo[n] \in Nat /\ PowerOfTwo[n] > 0
  <1> DEFINE G == {n \in ToRoot : PowerOfTwo[n] \in Nat /\ PowerOfTwo[n] > 0}
  <1>1. 0 \in G
    BY PowerOfTwoLevels, LevelsAre
  <1>2. ASSUME NEW n \in Below, n \in G PROVE n + 1 \in G
    <2>1. PICK m \in Nat : m = PowerOfTwo[n] /\ m > 0
      BY <1>2
    <2> QED
      BY <2>1, PowerOfTwoLevels, LevelsAre
  <1> HIDE DEF G
  <1>3. ToRoot \subseteq G
    BY <1>1, <1>2, LevelByLevel
  <1> QED
    BY <1>3 DEF G

\* An index of a leaf has been shifted out at the root.
LEMMA IndexAtRoot ==
    ASSUME NEW k \in Nat, k < Capacity
    PROVE  CurrentIndex(k)[TreeDepth] = 0
  <1> DEFINE P(n) == PowerOfTwo[n]
  <1>1. \A n \in ToRoot : P(n) \in Nat
    BY PowersAreNat
  <1> DEFINE H == {l \in ToRoot : CurrentIndex(k)[l] < P(TreeDepth - l)}
  <1>2. 0 \in H
    BY IndexLevels, LevelsAre DEF Capacity
  <1>3. ASSUME NEW l \in Below, l \in H PROVE l + 1 \in H
    <2>1. PICK n : n = TreeDepth - (l + 1)
      OBVIOUS
    <2>2. n \in Below /\ n + 1 = TreeDepth - l
      BY <2>1, TreeDepthAssumption DEF Below, TreeDepthAssumption
    <2>3. PICK p, i, j \in Nat :
             /\ p = P(n) /\ i = CurrentIndex(k)[l] /\ j = CurrentIndex(k)[l + 1]
      BY <1>1, <2>2, IndexLevels, LevelsAre
    <2>4. i = 2 * j \/ i = 2 * j + 1
      BY <2>3, IndexLevels
    <2>5. i < 2 * p
      BY <1>3, <2>2, <2>3, PowerOfTwoLevels
    <2>6. j < p
      BY <2>4, <2>5
    <2> QED
      BY <2>1, <2>3, <2>6, LevelsAre
  <1> HIDE DEF H, P
  <1>4. ToRoot \subseteq H
    BY <1>2, <1>3, LevelByLevel
  <1>5. CurrentIndex(k)[TreeDepth] < P(0)
    <2>1. TreeDepth - TreeDepth = 0
      BY LevelsAre
    <2> QED
      BY <1>4, <2>1, LevelsAre DEF H
  <1>6. P(0) = 1
    BY PowerOfTwoLevels DEF P
  <1> QED
    BY <1>5, <1>6, IndexLevels, LevelsAre

\* Node i of a level, counted from 0: a zero where there is none.
Node(leaves, level, i) == NodeOrZero(Levels(leaves)[level], i, level)

\* A level holds the lower one's nodes, in pairs.
LevelSized(nodes, n) == n \in Nat /\ Len(nodes) = n /\ DOMAIN nodes = 1..n

LEMMA LevelSizes ==
    ASSUME NEW S, NEW leaves \in Seq(S)
    PROVE  \A l \in ToRoot : \E n : /\ LevelSized(Levels(leaves)[l], n)
                                    /\ n = 0 <=> Len(leaves) = 0
  <1> DEFINE Is(l, n) == /\ LevelSized(Levels(leaves)[l], n)
                         /\ n = 0 <=> Len(leaves) = 0
             G == {l \in ToRoot : \E n : Is(l, n)}
  <1>1. 0 \in G
    <2>1. Is(0, Len(leaves))
      BY LevelsLevels DEF LevelSized
    <2> HIDE DEF Is
    <2> QED
      BY <2>1, LevelsAre
  <1>2. ASSUME NEW l \in Below, l \in G PROVE l + 1 \in G
    <2>1. PICK nodes, n : /\ nodes = Levels(leaves)[l]
                          /\ LevelSized(nodes, n)
                          /\ n = 0 <=> Len(leaves) = 0
      BY <1>2
    <2>2. PICK m \in Nat : m = (n + 1) \div 2
      BY <2>1 DEF LevelSized
    <2>3. LevelSized(NextLevel(nodes, l), m)
      BY <2>1, <2>2 DEF LevelSized, NextLevel
    <2>4. m = 0 <=> n = 0
      BY <2>1, <2>2 DEF LevelSized
    <2>5. Is(l + 1, m)
      BY <2>1, <2>3, <2>4, LevelsLevels
    <2> HIDE DEF Is
    <2> QED
      BY <2>5, LevelsAre
  <1> HIDE DEF G
  <1>3. ToRoot \subseteq G
    BY <1>1, <1>2, LevelByLevel
  <1> QED
    BY <1>3 DEF G

\* The absent nodes included, a node is the hash of the two below it.
LEMMA NodesOfLevels ==
    ASSUME NEW S, NEW leaves \in Seq(S)
    PROVE  /\ \A i \in Nat : Node(leaves, 0, i) =
                 IF i < Len(leaves) THEN leaves[i + 1] ELSE ZeroLeaf
           /\ \A l \in Below : \A i \in Nat : Node(leaves, l + 1, i) =
                 HashPair(Node(leaves, l, 2 * i), Node(leaves, l, 2 * i + 1))
  <1>1. ASSUME NEW i \in Nat
        PROVE  Node(leaves, 0, i) =
                 IF i < Len(leaves) THEN leaves[i + 1] ELSE ZeroLeaf
    BY LevelsLevels, ZerosLevels DEF Node, NodeOrZero
  <1>2. ASSUME NEW l \in Below, NEW i \in Nat
        PROVE  Node(leaves, l + 1, i) =
                 HashPair(Node(leaves, l, 2 * i), Node(leaves, l, 2 * i + 1))
    <2>1. PICK nodes, n : nodes = Levels(leaves)[l] /\ LevelSized(nodes, n)
      BY LevelSizes, LevelsAre
    <2>2. PICK m \in Nat : m = (n + 1) \div 2
      BY <2>1 DEF LevelSized
    <2>3. PICK next : next = NextLevel(nodes, l)
      OBVIOUS
    <2>4. Levels(leaves)[l + 1] = next
      BY <2>1, <2>3, LevelsLevels
    <2>5. /\ n \in Nat /\ Len(nodes) = n /\ Len(next) = m
          /\ \A k \in 1..m : next[k] = HashPair(NodeOrZero(nodes, 2 * k - 2, l),
                                               NodeOrZero(nodes, 2 * k - 1, l))
      BY <2>1, <2>2, <2>3 DEF LevelSized, NextLevel
    <2>6. CASE i < m
      <3>1. PICK k \in 1..m : k = i + 1
        BY <2>6
      <3>2. 2 * k - 2 = 2 * i /\ 2 * k - 1 = 2 * i + 1
        BY <3>1
      <3>3. NodeOrZero(next, i, l + 1) = next[k]
        BY <2>5, <2>6, <3>1 DEF NodeOrZero
      <3> QED
        BY <2>1, <2>4, <2>5, <3>1, <3>2, <3>3 DEF Node
    <2>7. CASE ~(i < m)
      <3>1. ~(2 * i < n) /\ ~(2 * i + 1 < n)
        BY <2>2, <2>5, <2>7
      <3>2. NodeOrZero(next, i, l + 1) = HashPair(Zeros[l], Zeros[l])
        BY <2>5, <2>7, ZerosLevels DEF NodeOrZero
      <3>3. /\ NodeOrZero(nodes, 2 * i, l) = Zeros[l]
            /\ NodeOrZero(nodes, 2 * i + 1, l) = Zeros[l]
        BY <2>5, <3>1 DEF NodeOrZero
      <3> QED
        BY <2>1, <2>4, <3>2, <3>3 DEF Node
    <2> QED
      BY <2>6, <2>7
  <1> QED
    BY <1>1, <1>2

\* Beyond the next leaf and the nodes above it the tree is empty.
LEMMA NodesBeyond ==
    ASSUME NEW S, NEW leaves \in Seq(S)
    PROVE  \A l \in ToRoot : \A i \in Nat :
              i > CurrentIndex(Len(leaves))[l]
                 => Node(leaves, l, i) = Zeros[l]
  <1> DEFINE at == CurrentIndex(Len(leaves))
             G == {l \in ToRoot : \A i \in Nat :
                      i > at[l] => Node(leaves, l, i) = Zeros[l]}
  <1>1. 0 \in G
    <2>1. at[0] = Len(leaves) /\ Len(leaves) \in Nat
      BY CurrentIndexLevels
    <2>2. ASSUME NEW i \in Nat, i > at[0] PROVE Node(leaves, 0, i) = Zeros[0]
      BY <2>1, <2>2, NodesOfLevels, ZerosLevels
    <2> QED
      BY <2>2, LevelsAre
  <1>2. ASSUME NEW l \in Below, l \in G PROVE l + 1 \in G
    <2>1. PICK m, n \in Nat : m = at[l] /\ n = at[l + 1]
      BY IndexLevels, LevelsAre
    <2>2. m = 2 * n \/ m = 2 * n + 1
      BY <2>1, IndexLevels
    <2>3. ASSUME NEW i \in Nat, i > n
          PROVE  Node(leaves, l + 1, i) = Zeros[l + 1]
      <3>1. 2 * i \in Nat /\ 2 * i + 1 \in Nat /\ 2 * i > m /\ 2 * i + 1 > m
        BY <2>2, <2>3
      <3>2. /\ Node(leaves, l, 2 * i) = Zeros[l]
            /\ Node(leaves, l, 2 * i + 1) = Zeros[l]
        BY <1>2, <2>1, <3>1
      <3> QED
        BY <3>2, NodesOfLevels, ZerosLevels
    <2> QED
      BY <2>1, <2>3, LevelsAre
  <1> HIDE DEF G
  <1>3. ToRoot \subseteq G
    BY <1>1, <1>2, LevelByLevel
  <1> QED
    BY <1>3 DEF G

-----------------------------------------------------------------------------
(* The contract's tree against the wallet's *)

\* A filled subtree that an insertion will read is the node the wallet has
\* there: the left sibling of the next leaf's path.
FilledFits(filled, leaves) ==
    \A l \in Below : Bit(Len(leaves), l) = 1 =>
        filled[l] = Node(leaves, l, CurrentIndex(Len(leaves))[l] - 1)

\* An insertion changes the nodes above the new leaf, to the hashes the
\* contract computes on its way up, and no other.
AppendedAt(filled, leaves, c, l) ==
    LET at == CurrentIndex(Len(leaves))[l]
    IN  /\ Node(Append(leaves, c), l, at) =
              InsertionPath(filled, Len(leaves), c)[l]
        /\ \A i \in Nat : i # at =>
              Node(Append(leaves, c), l, i) = Node(leaves, l, i)

LEMMA NodesAppended ==
    ASSUME NEW S, NEW leaves \in Seq(S), NEW c \in S, NEW filled,
           FilledFits(filled, leaves)
    PROVE  \A l \in ToRoot : AppendedAt(filled, leaves, c, l)
  <1> DEFINE cs == Append(leaves, c)
             k == Len(leaves)
             P(l) == InsertionPath(filled, k, c)[l]
             G == {l \in ToRoot : AppendedAt(filled, leaves, c, l)}
  <1>1. cs \in Seq(S) /\ k \in Nat /\ Len(cs) = k + 1
    OBVIOUS
  <1>2. 0 \in G
    <2>1. cs[k + 1] = c /\ \A i \in Nat : i < k => cs[i + 1] = leaves[i + 1]
      OBVIOUS
    <2>2. \A i \in Nat : i # k => (i < k + 1 <=> i < k)
      BY <1>1
    <2>3. Node(cs, 0, k) = c
      <3>1. k < Len(cs)
        BY <1>1
      <3>2. Node(cs, 0, k) = IF k < Len(cs) THEN cs[k + 1] ELSE ZeroLeaf
        BY <1>1, NodesOfLevels
      <3> QED
        BY <2>1, <3>1, <3>2
    <2>4. ASSUME NEW i \in Nat, i # k PROVE Node(cs, 0, i) = Node(leaves, 0, i)
      BY <1>1, <2>1, <2>2, <2>4, NodesOfLevels
    <2>5. CurrentIndex(k)[0] = k
      BY CurrentIndexLevels
    <2>6. P(0) = c
      BY InsertionPathLevels
    <2> QED
      BY <2>3, <2>4, <2>5, <2>6, LevelsAre DEF AppendedAt
  <1>3. ASSUME NEW l \in Below, l \in G PROVE l + 1 \in G
    <2>1. PICK m, n \in Nat : m = CurrentIndex(k)[l] /\ n = CurrentIndex(k)[l + 1]
      BY <1>1, IndexLevels, LevelsAre
    <2>2. Bit(k, l) \in {0, 1} /\ m = 2 * n + Bit(k, l)
      BY <1>1, <2>1, IndexLevels
    <2>3. /\ Node(cs, l, m) = P(l)
          /\ \A i \in Nat : i # m => Node(cs, l, i) = Node(leaves, l, i)
      BY <1>3, <2>1 DEF AppendedAt
    <2>4. \A i \in Nat : /\ Node(cs, l + 1, i) =
                              HashPair(Node(cs, l, 2 * i), Node(cs, l, 2 * i + 1))
                         /\ Node(leaves, l + 1, i) =
                              HashPair(Node(leaves, l, 2 * i),
                                       Node(leaves, l, 2 * i + 1))
      BY <1>1, NodesOfLevels
    <2> HIDE DEF cs
    <2>5. Node(cs, l + 1, n) = P(l + 1)
      <3>1. P(l + 1) = IF Bit(k, l) = 0 THEN HashPair(P(l), Zeros[l])
                                        ELSE HashPair(filled[l], P(l))
        BY InsertionPathLevels
      <3>2. CASE Bit(k, l) = 0
        <4>1. m = 2 * n /\ 2 * n + 1 \in Nat /\ 2 * n + 1 > m /\ 2 * n + 1 # m
          BY <2>2, <3>2
        <4>2. \A i \in Nat : i > m => Node(leaves, l, i) = Zeros[l]
          BY <2>1, NodesBeyond, LevelsAre
        <4>3. Node(leaves, l, 2 * n + 1) = Zeros[l]
          BY <4>1, <4>2
        <4> QED
          BY <2>3, <2>4, <3>1, <3>2, <4>1, <4>3
      <3>3. CASE Bit(k, l) = 1
        <4>1. m = 2 * n + 1 /\ 2 * n = m - 1 /\ 2 * n \in Nat /\ 2 * n # m
          BY <2>2, <3>3
        <4>2. filled[l] = Node(leaves, l, 2 * n)
          BY <2>1, <3>3, <4>1 DEF FilledFits
        <4>3. Bit(k, l) # 0
          BY <3>3
        <4> QED
          BY <2>3, <2>4, <3>1, <4>1, <4>2, <4>3
      <3> QED
        BY <2>2, <3>2, <3>3
    <2>6. ASSUME NEW i \in Nat, i # n
          PROVE  Node(cs, l + 1, i) = Node(leaves, l + 1, i)
      <3>1. 2 * i \in Nat /\ 2 * i + 1 \in Nat /\ 2 * i # m /\ 2 * i + 1 # m
        BY <2>2, <2>6
      <3> QED
        BY <2>3, <2>4, <3>1
    <2>7. AppendedAt(filled, leaves, c, l + 1)
      BY <2>1, <2>5, <2>6 DEF AppendedAt, cs
    <2> QED
      BY <2>7, LevelsAre
  <1> HIDE DEF G
  <1>4. ToRoot \subseteq G
    BY <1>2, <1>3, LevelByLevel
  <1> QED
    BY <1>4 DEF G

\* The path of the next index is the same one or its right neighbour.
LEMMA NextIndex ==
    ASSUME NEW k \in Nat
    PROVE  \A l \in ToRoot : \/ CurrentIndex(k + 1)[l] = CurrentIndex(k)[l]
                             \/ CurrentIndex(k + 1)[l] = CurrentIndex(k)[l] + 1
  <1> DEFINE G == {l \in ToRoot : \/ CurrentIndex(k + 1)[l] = CurrentIndex(k)[l]
                                  \/ CurrentIndex(k + 1)[l] = CurrentIndex(k)[l] + 1}
  <1>1. 0 \in G
    BY CurrentIndexLevels, LevelsAre
  <1>2. ASSUME NEW l \in Below, l \in G PROVE l + 1 \in G
    <2>1. PICK m, n \in Nat : m = CurrentIndex(k)[l] /\ n = CurrentIndex(k + 1)[l]
      BY IndexLevels, LevelsAre
    <2>2. n = m \/ n = m + 1
      BY <1>2, <2>1
    <2>3. n \div 2 = m \div 2 \/ n \div 2 = m \div 2 + 1
      BY <2>2
    <2> QED
      BY <2>1, <2>3, CurrentIndexLevels, LevelsAre
  <1> HIDE DEF G
  <1>3. ToRoot \subseteq G
    BY <1>1, <1>2, LevelByLevel
  <1> QED
    BY <1>3 DEF G

\* No insertion into the empty tree reads a filled subtree.
LEMMA EmptyFits == \A filled : FilledFits(filled, << >>)
  <1> DEFINE G == {l \in ToRoot : CurrentIndex(0)[l] = 0}
  <1>1. 0 \in G
    BY CurrentIndexLevels, LevelsAre
  <1>2. ASSUME NEW l \in Below, l \in G PROVE l + 1 \in G
    <2>1. 0 \div 2 = 0
      OBVIOUS
    <2> QED
      BY <1>2, <2>1, CurrentIndexLevels, LevelsAre
  <1> HIDE DEF G
  <1>3. ToRoot \subseteq G
    BY <1>1, <1>2, LevelByLevel
  <1>4. \A l \in Below : CurrentIndex(0)[l] = 0
    BY <1>3, LevelsAre DEF G
  <1>5. 0 % 2 = 0 /\ Len(<< >>) = 0
    OBVIOUS
  <1>6. \A l \in Below : Bit(Len(<< >>), l) = 0
    BY <1>4, <1>5 DEF Bit
  <1> QED
    BY <1>6 DEF FilledFits

\* What an insertion keeps in filledSubtrees is what the next ones need.
LEMMA FilledStaysFit ==
    ASSUME NEW S, NEW leaves \in Seq(S), NEW c \in S, NEW filled,
           FilledFits(filled, leaves)
    PROVE  FilledFits(FilledAfter(filled, Len(leaves), c),
                      Append(leaves, c))
  <1> DEFINE cs == Append(leaves, c)
             k == Len(leaves)
             F == FilledAfter(filled, k, c)
  <1>1. k \in Nat /\ Len(cs) = k + 1
    OBVIOUS
  <1>2. ASSUME NEW l \in Below, Bit(k + 1, l) = 1
        PROVE  F[l] = Node(cs, l, CurrentIndex(k + 1)[l] - 1)
    <2>1. PICK m, n \in Nat : m = CurrentIndex(k)[l] /\ n = CurrentIndex(k + 1)[l]
      <3>1. CurrentIndex(k)[l] \in Nat
        BY <1>1, IndexLevels, LevelsAre
      <3>2. k + 1 \in Nat
        BY <1>1
      <3>3. CurrentIndex(k + 1)[l] \in Nat
        BY <3>2, IndexLevels, LevelsAre
      <3> HIDE DEF k
      <3> QED
        BY <3>1, <3>3
    <2>2. n = m \/ n = m + 1
      BY <1>1, <2>1, NextIndex, LevelsAre
    <2>3. n % 2 = 1 /\ Bit(k, l) = m % 2
      BY <1>2, <2>1 DEF Bit
    <2>4. AppendedAt(filled, leaves, c, l)
      BY NodesAppended, LevelsAre
    <2>5. F[l] = IF Bit(k, l) = 0 THEN InsertionPath(filled, k, c)[l] ELSE filled[l]
      BY DEF FilledAfter
    <2>6. CASE n = m
      <3>1. Bit(k, l) = 1 /\ Bit(k, l) # 0 /\ m - 1 \in Nat /\ m - 1 # m
        BY <2>3, <2>6
      <3>2. filled[l] = Node(leaves, l, m - 1)
        BY <2>1, <3>1 DEF FilledFits
      <3>3. Node(cs, l, m - 1) = Node(leaves, l, m - 1)
        BY <2>1, <2>4, <3>1 DEF AppendedAt
      <3> HIDE DEF cs, F, k
      <3> QED
        BY <2>1, <2>5, <2>6, <3>1, <3>2, <3>3
    <2>7. CASE n = m + 1
      <3>1. Bit(k, l) = 0 /\ n - 1 = m
        BY <2>3, <2>7
      <3>2. Node(cs, l, m) = InsertionPath(filled, k, c)[l]
        BY <2>1, <2>4 DEF AppendedAt
      <3> HIDE DEF cs, F, k
      <3> QED
        BY <2>1, <2>5, <3>1, <3>2
    <2> QED
      BY <2>2, <2>6, <2>7
  <1> HIDE DEF F
  <1> QED
    BY <1>1, <1>2 DEF FilledFits, F

\* The root the SDK derives is the node at the top.
TreeRoot(leaves) ==
    IF leaves = << >> THEN Zeros[TreeDepth] ELSE Levels(leaves)[TreeDepth][1]

LEMMA RootIsNode ==
    ASSUME NEW S, NEW leaves \in Seq(S)
    PROVE  /\ TreeRoot(leaves) = Node(leaves, TreeDepth, 0)
           /\ leaves # << >> =>
                 TreeRoot(leaves) = Levels(leaves)[TreeDepth][1]
  <1>1. PICK nodes, n : /\ nodes = Levels(leaves)[TreeDepth]
                        /\ LevelSized(nodes, n)
                        /\ n = 0 <=> Len(leaves) = 0
    BY LevelSizes, LevelsAre
  <1>2. leaves = << >> <=> Len(leaves) = 0
    OBVIOUS
  <1>3. (0 < Len(nodes) <=> n # 0) /\ 0 + 1 = 1
    BY <1>1 DEF LevelSized
  <1> QED
    BY <1>1, <1>2, <1>3 DEF TreeRoot, Node, NodeOrZero

\* deriveRootFromCommitments gives the root of the leaves, or throws for a full
\* tree.
LEMMA DerivedRoot ==
    ASSUME NEW S, NEW leaves \in Seq(S), Capacity \in Nat, Capacity > 0
    PROVE  DeriveRoot(leaves) =
              IF Len(leaves) < Capacity THEN TreeRoot(leaves) ELSE Thrown
  <1>1. PICK n \in Nat : n = Len(leaves) /\ (leaves = << >> <=> n = 0)
    OBVIOUS
  <1>2. n # 0 => 0 \in 0..(n - 1)
    OBVIOUS
  <1>3. n # 0 => (WitnessPossible(leaves, 0) <=> n < Capacity)
    BY <1>1, <1>2 DEF WitnessPossible
  <1>4. DeriveWitness(leaves, 0).root = Levels(leaves)[TreeDepth][1]
    BY DEF DeriveWitness
  <1> QED
    BY <1>1, <1>3, <1>4 DEF DeriveRoot, TreeRoot

\* The root the contract computes is the root of all the leaves.
LEMMA RootsAgree ==
    ASSUME NEW S, NEW leaves \in Seq(S), NEW c \in S, NEW filled,
           FilledFits(filled, leaves), Len(leaves) < Capacity
    PROVE  RootAfter(filled, Len(leaves), c) = TreeRoot(Append(leaves, c))
  <1>1. Append(leaves, c) \in Seq(S) /\ Len(leaves) \in Nat
    OBVIOUS
  <1>2. CurrentIndex(Len(leaves))[TreeDepth] = 0
    BY <1>1, IndexAtRoot
  <1>3. AppendedAt(filled, leaves, c, TreeDepth)
    BY NodesAppended, LevelsAre
  <1>4. TreeRoot(Append(leaves, c)) = Node(Append(leaves, c), TreeDepth, 0)
    BY <1>1, RootIsNode
  <1> QED
    BY <1>2, <1>3, <1>4 DEF AppendedAt, RootAfter

\* The circuit folds the SDK's witness back into the SDK's root.
LEMMA WitnessFolds ==
    ASSUME NEW S, NEW leaves \in Seq(S), NEW index,
           WitnessPossible(leaves, index)
    PROVE  LET w == DeriveWitness(leaves, index)
           IN  /\ w.root = TreeRoot(leaves)
               /\ MerkleRootFromPath(leaves[index + 1], w.path, w.indexBits)
                     = w.root
  <1> DEFINE path == [level \in Below |->
                NodeOrZero(Levels(leaves)[level], SiblingIndex(index, level),
                           level)]
             bits == [level \in Below |-> Bit(index, level)]
             leaf == leaves[index + 1]
             w == DeriveWitness(leaves, index)
             At(l) == CurrentIndex(index)[l]
             Cur(l) == Folded(leaf, path, bits)[l]
             G == {l \in ToRoot : Cur(l) = Node(leaves, l, At(l))}
  <1>1. w.root = Levels(leaves)[TreeDepth][1] /\ w.path = path /\ w.indexBits = bits
    BY DEF DeriveWitness
  <1>2. index \in Nat /\ index < Len(leaves) /\ index < Capacity
    <2>1. index \in Nat /\ index < Len(leaves) /\ Len(leaves) < Capacity
      BY DEF WitnessPossible
    <2>2. Capacity \in Int
      BY PowersAreNat, LevelsAre DEF Capacity
    <2> QED
      BY <2>1, <2>2
  <1>3. 0 \in G
    BY <1>2, FoldedLevels, CurrentIndexLevels, NodesOfLevels, LevelsAre
  <1>4. ASSUME NEW l \in Below, l \in G PROVE l + 1 \in G
    <2>1. PICK m, n \in Nat : m = At(l) /\ n = At(l + 1)
      BY <1>2, IndexLevels, LevelsAre
    <2>2. Bit(index, l) \in {0, 1} /\ m = 2 * n + Bit(index, l)
      BY <1>2, <2>1, IndexLevels
    <2>3. Cur(l) = Node(leaves, l, m)
      BY <1>4, <2>1
    <2>4. Cur(l + 1) = IF bits[l] = 0 THEN HashPair(Cur(l), path[l])
                                      ELSE HashPair(path[l], Cur(l))
      BY FoldedLevels
    <2>5. /\ bits[l] = Bit(index, l)
          /\ path[l] = Node(leaves, l, SiblingIndex(index, l))
      BY DEF Node
    <2>6. SiblingIndex(index, l) = IF Bit(index, l) = 0 THEN m + 1 ELSE m - 1
      BY <2>1 DEF SiblingIndex
    <2>7. Node(leaves, l + 1, n) =
             HashPair(Node(leaves, l, 2 * n), Node(leaves, l, 2 * n + 1))
      BY NodesOfLevels
    <2> HIDE DEF Cur, At, path, bits
    <2>8. Cur(l + 1) = Node(leaves, l + 1, n)
      <3>1. CASE Bit(index, l) = 0
        <4>1. m = 2 * n
          BY <2>2, <3>1
        <4> QED
          BY <2>3, <2>4, <2>5, <2>6, <2>7, <3>1, <4>1
      <3>2. CASE Bit(index, l) = 1
        <4>1. m = 2 * n + 1 /\ m - 1 = 2 * n /\ Bit(index, l) # 0
          BY <2>2, <3>2
        <4> QED
          BY <2>3, <2>4, <2>5, <2>6, <2>7, <4>1
      <3> QED
        BY <2>2, <3>1, <3>2
    <2> QED
      BY <2>1, <2>8, LevelsAre
  <1> HIDE DEF G
  <1>5. ToRoot \subseteq G
    BY <1>3, <1>4, LevelByLevel
  <1>6. Cur(TreeDepth) = Node(leaves, TreeDepth, At(TreeDepth))
    BY <1>5, LevelsAre DEF G
  <1>7. At(TreeDepth) = 0
    BY <1>2, IndexAtRoot
  <1>8. leaves # << >>
    BY <1>2
  <1>9. MerkleRootFromPath(leaf, path, bits) = Cur(TreeDepth)
    BY FoldedIs
  <1> HIDE DEF path, bits, Cur, At, w
  <1>10. w.root = TreeRoot(leaves)
    BY <1>1, <1>8, RootIsNode
  <1>11. MerkleRootFromPath(leaf, w.path, w.indexBits) = w.root
    BY <1>1, <1>6, <1>7, <1>9, <1>10, RootIsNode
  <1> QED
    BY <1>10, <1>11 DEF w
-----------------------------------------------------------------------------
(* The leaves the events inserted *)

\* The leaves the first n of some events inserted.
Leaves(es, n) ==
    CHOOSE leaves : leaves = [i \in 0..n |-> IF i = 0 THEN << >>
                                             ELSE leaves[i - 1] \o es[i].inserted]
LeavesOf(es, n) == Leaves(es, n)[n]

LEMMA InsertedIs == \A n : Inserted(n) = LeavesOf(events, n)
  BY DEF Inserted, LeavesOf, Leaves

LEMMA LeavesUnfold ==
    ASSUME NEW es, NEW n \in Nat
    PROVE  Leaves(es, n) = [i \in 0..n |->
              IF i = 0 THEN << >> ELSE Leaves(es, n)[i - 1] \o es[i].inserted]
  <1> DEFINE To(g, m) == g = [i \in 0..m |->
                IF i = 0 THEN << >> ELSE g[i - 1] \o es[i].inserted]
             G == {m \in Nat : \E g : To(g, m)}
  <1>1. 0 \in G
    <2>1. To([i \in 0..0 |-> << >>], 0)
      OBVIOUS
    <2> QED
      BY <2>1
  <1>2. ASSUME NEW m \in Nat, m \in G PROVE m + 1 \in G
    <2>1. PICK g : To(g, m)
      BY <1>2
    <2>2. PICK h : OneMore(h, g, m, g[m] \o es[m + 1].inserted)
      BY OneMoreLevel
    <2>3. ASSUME NEW i \in 0..(m + 1)
          PROVE  h[i] = IF i = 0 THEN << >> ELSE h[i - 1] \o es[i].inserted
      <3>1. CASE i = m + 1
        BY <2>2, <3>1 DEF OneMore
      <3>2. CASE i # m + 1
        <4>1. /\ h[i] = g[i] /\ i \in 0..m
              /\ i # 0 => h[i - 1] = g[i - 1]
          BY <2>2, <3>2 DEF OneMore
        <4> QED
          BY <2>1, <4>1
      <3> QED
        BY <3>1, <3>2
    <2>4. To(h, m + 1)
      BY <2>2, <2>3 DEF OneMore
    <2> HIDE DEF To
    <2> QED
      BY <2>4
  <1>3. n \in G
    <2> HIDE DEF G
    <2> QED
      BY <1>1, <1>2, NaturalsOneByOne
  <1>4. PICK u : u = CHOOSE g : To(g, n)
    OBVIOUS
  <1>5. u = Leaves(es, n)
    BY <1>4 DEF Leaves
  <1>6. To(u, n)
    BY <1>3, <1>4
  <1> QED
    BY <1>5, <1>6

\* One event more, its leaves more.
LEMMA LeavesByEvent ==
    ASSUME NEW es
    PROVE  /\ LeavesOf(es, 0) = << >>
           /\ \A n \in Nat : LeavesOf(es, n + 1) = LeavesOf(es, n) \o es[n + 1].inserted
  <1>1. LeavesOf(es, 0) = << >>
    <2>1. PICK g : g = Leaves(es, 0)
      OBVIOUS
    <2>2. g = [i \in 0..0 |-> IF i = 0 THEN << >> ELSE g[i - 1] \o es[i].inserted]
      <3>1. Leaves(es, 0) = [i \in 0..0 |->
               IF i = 0 THEN << >> ELSE Leaves(es, 0)[i - 1] \o es[i].inserted]
        BY LeavesUnfold
      <3> QED
        BY <2>1, <3>1
    <2>3. g[0] = << >>
      BY <2>2
    <2> QED
      BY <2>1, <2>3 DEF LeavesOf
  <1>2. ASSUME NEW n \in Nat
        PROVE  LeavesOf(es, n + 1) = LeavesOf(es, n) \o es[n + 1].inserted
    <2>1. PICK g, h : g = Leaves(es, n) /\ h = Leaves(es, n + 1)
      OBVIOUS
    <2>2. \A i \in 0..n :
             g[i] = IF i = 0 THEN << >> ELSE g[i - 1] \o es[i].inserted
      BY <2>1, LeavesUnfold, ZenonT(40)
    <2>3. PICK m \in Nat : m = n + 1
      OBVIOUS
    <2>4. \A i \in 0..m :
             h[i] = IF i = 0 THEN << >> ELSE h[i - 1] \o es[i].inserted
      <3>1. h = [i \in 0..m |-> IF i = 0 THEN << >> ELSE h[i - 1] \o es[i].inserted]
        <4>1. Leaves(es, m) = [i \in 0..m |->
                 IF i = 0 THEN << >> ELSE Leaves(es, m)[i - 1] \o es[i].inserted]
          BY LeavesUnfold
        <4> QED
          BY <2>1, <2>3, <4>1
      <3> QED
        BY <3>1
    <2> DEFINE G == {i \in Nat : i <= n => g[i] = h[i]}
    <2>5. 0 \in G
      BY <2>2, <2>4
    <2>6. ASSUME NEW i \in Nat, i \in G PROVE i + 1 \in G
      <3>1. CASE i + 1 <= n
        <4>1. PICK j \in Nat : j = i + 1
          OBVIOUS
        <4>2. j \in 0..n /\ j \in 0..m /\ j # 0 /\ j - 1 = i /\ i <= n
          BY <2>3, <3>1, <4>1
        <4>3. g[j] = g[i] \o es[j].inserted /\ h[j] = h[i] \o es[j].inserted
          BY <2>2, <2>4, <4>2
        <4> QED
          BY <2>6, <4>1, <4>2, <4>3
      <3>2. CASE ~(i + 1 <= n)
        BY <3>2
      <3> QED
        BY <3>1, <3>2
    <2> HIDE DEF G
    <2>7. n \in G
      BY <2>5, <2>6, NaturalsOneByOne
    <2>8. g[n] = h[n]
      BY <2>7 DEF G
    <2>9. m \in 0..m /\ m # 0 /\ m - 1 = n
      BY <2>3
    <2>10. h[m] = h[n] \o es[m].inserted
      BY <2>4, <2>9
    <2> QED
      BY <2>1, <2>3, <2>8, <2>10 DEF LeavesOf
  <1> QED
    BY <1>1, <1>2

\* The same events, the same leaves.
LEMMA LeavesSame ==
    ASSUME NEW es, NEW fs, NEW n \in Nat, \A i \in 1..n : es[i] = fs[i]
    PROVE  \A m \in 0..n : LeavesOf(es, m) = LeavesOf(fs, m)
  <1> DEFINE G == {m \in Nat : m <= n => LeavesOf(es, m) = LeavesOf(fs, m)}
  <1>1. 0 \in G
    BY LeavesByEvent
  <1>2. ASSUME NEW m \in Nat, m \in G PROVE m + 1 \in G
    <2>1. CASE m + 1 <= n
      <3>1. es[m + 1] = fs[m + 1] /\ m <= n
        BY <2>1
      <3>2. /\ LeavesOf(es, m + 1) = LeavesOf(es, m) \o es[m + 1].inserted
            /\ LeavesOf(fs, m + 1) = LeavesOf(fs, m) \o fs[m + 1].inserted
        BY LeavesByEvent
      <3>3. LeavesOf(es, m) = LeavesOf(fs, m)
        BY <1>2, <3>1
      <3>4. LeavesOf(es, m + 1) = LeavesOf(fs, m + 1)
        BY <3>1, <3>2, <3>3
      <3> QED
        BY <3>4
    <2>2. CASE ~(m + 1 <= n)
      BY <2>2
    <2> QED
      BY <2>1, <2>2
  <1> HIDE DEF G
  <1>3. Nat \subseteq G
    BY <1>1, <1>2, NaturalsOneByOne
  <1>4. \A m \in 0..n : m \in Nat /\ m <= n
    OBVIOUS
  <1> QED
    BY <1>3, <1>4 DEF G

\* The leaves are notes, as many as the events say.
LEMMA InsertedAreNotes ==
    ASSUME WalletInv
    PROVE  /\ Len(events) \in Nat
           /\ \A n \in 0..Len(events) : /\ Inserted(n) \in Seq(NoteDrawn)
                                        /\ Len(Inserted(n)) = End(n)
           /\ leafCount = Len(Inserted(Len(events)))
  <1>1. PICK len \in Nat : len = Len(events)
    BY DEF WalletInv, EventsOk
  <1> DEFINE Is(n) == /\ LeavesOf(events, n) \in Seq(NoteDrawn)
                      /\ Len(LeavesOf(events, n)) = End(n)
             G == {n \in Nat : n <= len => Is(n)}
  <1>2. 0 \in G
    <2>1. LeavesOf(events, 0) = << >> /\ End(0) = 0
      BY LeavesByEvent DEF End
    <2>2. << >> \in Seq(NoteDrawn) /\ Len(<< >>) = 0
      OBVIOUS
    <2>3. Is(0)
      BY <2>1, <2>2
    <2> HIDE DEF Is
    <2> QED
      BY <2>3
  <1>3. ASSUME NEW n \in Nat, n \in G PROVE n + 1 \in G
    <2>1. CASE n + 1 <= len
      <3>1. PICK m \in Nat : m = n + 1
        OBVIOUS
      <3>2. m \in DOMAIN events /\ m # 0 /\ m - 1 = n /\ n <= len
        BY <1>1, <2>1, <3>1 DEF WalletInv, EventsOk
      <3>3. events[m] \in EventRow /\ events[m].leafIndex = End(n)
        BY <3>2 DEF WalletInv, EventsOk, EventOk
      <3>4. PICK more \in Seq(NoteDrawn) : more = events[m].inserted
        BY <3>3 DEF EventRow
      <3>5. PICK old \in Seq(NoteDrawn) : old = LeavesOf(events, n)
        BY <1>3, <3>2
      <3>6. Len(old) = End(n)
        BY <1>3, <3>2, <3>5
      <3>7. LeavesOf(events, m) = old \o more
        BY <3>1, <3>4, <3>5, LeavesByEvent
      <3>8. End(m) = End(n) + Len(more)
        BY <3>2, <3>3, <3>4 DEF End
      <3>9. old \o more \in Seq(NoteDrawn) /\ Len(old \o more) = Len(old) + Len(more)
        OBVIOUS
      <3>10. Is(m)
        BY <3>6, <3>7, <3>8, <3>9
      <3> HIDE DEF Is
      <3> QED
        BY <3>1, <3>10
    <2>2. CASE ~(n + 1 <= len)
      BY <2>2
    <2> QED
      BY <2>1, <2>2
  <1> HIDE DEF G
  <1>4. Nat \subseteq G
    BY <1>2, <1>3, NaturalsOneByOne
  <1>5. \A n \in 0..len : n \in Nat /\ n <= len
    OBVIOUS
  <1>6. \A n \in 0..len : Is(n)
    BY <1>4, <1>5 DEF G
  <1>7. len \in 0..len
    OBVIOUS
  <1>8. leafCount = End(len)
    BY <1>1 DEF WalletInv, EventsOk
  <1> QED
    BY <1>1, <1>6, <1>7, <1>8, InsertedIs

-----------------------------------------------------------------------------
(* One tree *)

\* The contract's root and filled subtrees are those of the leaves inserted;
\* every root since the first is still known; the indexer follows the leaves.
TreeOk ==
    /\ FilledFits(filledSubtrees, Inserted(Len(events)))
    /\ latestRoot = TreeRoot(Inserted(Len(events)))
    /\ \A n \in 0..Len(events) : TreeRoot(Inserted(n)) \in isKnownRoot
    /\ commitments = Inserted(indexed)

\* What a prepared payment was prepared against stays good.
PaymentGood(p) ==
    /\ p.witness.root \in isKnownRoot
    /\ MerkleRootFromPath(p.note, p.witness.path, p.witness.indexBits)
          = p.witness.root
    /\ p.merchantNote = Note(p.amount, p.merchantNote.rho, MerchantPubKey)
    /\ p.changeNote = Note(p.note.amount - p.amount, p.changeNote.rho,
                           p.note.pkHash)
PaymentsGood == \A p \in payments : PaymentGood(p)

LEMMA InitTrees == Init => TreeOk /\ PaymentsGood
  <1> SUFFICES ASSUME Init PROVE TreeOk /\ PaymentsGood
    OBVIOUS
  <1>1. Len(events) = 0 /\ 0..0 = {0}
    BY DEF Init
  <1>2. Inserted(0) = << >>
    BY InsertedIs, LeavesByEvent
  <1>3. TreeRoot(<< >>) = Zeros[TreeDepth]
    BY DEF TreeRoot
  <1>4. TreeOk
    BY <1>1, <1>2, <1>3, EmptyFits DEF Init, TreeOk
  <1> QED
    BY <1>4 DEF Init, PaymentsGood

\* A new event appends its leaves.
Inserts(len, leaves) ==
    /\ len = Len(events) /\ Len(events') = len + 1
    /\ \A n \in 0..len : LeavesOf(events', n) = Inserted(n)
    /\ LeavesOf(events', len + 1) = Inserted(len) \o leaves

LEMMA EventInserts ==
    ASSUME NEW len \in Nat, len = Len(events), NEW S, NEW e \in S, events \in Seq(S),
           events' = Append(events, e)
    PROVE  Inserts(len, e.inserted)
  <1>1. /\ Len(events') = len + 1 /\ events'[len + 1] = e
        /\ \A i \in 1..len : events[i] = events'[i]
    OBVIOUS
  <1>2. \A n \in 0..len : LeavesOf(events, n) = LeavesOf(events', n)
    BY <1>1, LeavesSame
  <1>3. LeavesOf(events', len + 1) = LeavesOf(events', len) \o events'[len + 1].inserted
    BY LeavesByEvent
  <1>4. len \in 0..len
    OBVIOUS
  <1> HIDE DEF Inserted
  <1> QED
    BY <1>1, <1>2, <1>3, <1>4, InsertedIs DEF Inserts

LEMMA InsertedNext == \A n : Inserted(n)' = LeavesOf(events', n)
  BY DEF Inserted, LeavesOf, Leaves

\* What is left to see after an insertion, for one leaf or two.
LEMMA TreeFollows ==
    ASSUME TreeOk, NEW len \in Nat, NEW leaves, Inserts(len, leaves),
           NEW all, all = Inserted(len) \o leaves,
           FilledFits(filledSubtrees', all), latestRoot' = TreeRoot(all),
           isKnownRoot \subseteq isKnownRoot', TreeRoot(all) \in isKnownRoot',
           indexed \in 0..len, UNCHANGED <<indexed, commitments>>
    PROVE  TreeOk'
  <1>1. LeavesOf(events', len + 1) = all /\ Len(events') = len + 1
    BY DEF Inserts
  <1>2. \A n \in 0..len : LeavesOf(events', n) = Inserted(n)
    BY DEF Inserts
  <1>3. /\ \A n \in 0..len : TreeRoot(Inserted(n)) \in isKnownRoot
        /\ commitments = Inserted(indexed)
    BY DEF TreeOk, Inserts
  <1>4. \A n \in 0..(len + 1) : n \in 0..len \/ n = len + 1
    OBVIOUS
  <1>5. \A n \in 0..(len + 1) : TreeRoot(LeavesOf(events', n)) \in isKnownRoot'
    BY <1>1, <1>2, <1>3, <1>4
  <1>6. commitments' = LeavesOf(events', indexed')
    BY <1>2, <1>3
  <1>7. \A n : Inserted(n)' = LeavesOf(events', n)
    BY InsertedNext
  <1>8. FilledFits(filledSubtrees, Inserted(Len(events)))'
    <2>1. FilledFits(filledSubtrees', LeavesOf(events', Len(events')))
      BY <1>1
    <2> QED
      BY <2>1 DEF FilledFits, Inserted, LeavesOf, Leaves
  <1>9. (latestRoot = TreeRoot(Inserted(Len(events))))'
    <2>1. latestRoot' = TreeRoot(LeavesOf(events', Len(events')))
      BY <1>1
    <2> QED
      BY <2>1 DEF Inserted, LeavesOf, Leaves
  <1>10. (commitments = Inserted(indexed))'
    BY <1>6 DEF Inserted, LeavesOf, Leaves
  <1>11. (\A n \in 0..Len(events) : TreeRoot(Inserted(n)) \in isKnownRoot)'
    BY <1>1, <1>5 DEF Inserted, LeavesOf, Leaves
  <1> QED
    BY <1>8, <1>9, <1>10, <1>11 DEF TreeOk

\* _insertCommitment of one leaf.
LEMMA InsertKeepsTree ==
    ASSUME WalletInv, TreeOk, NEW len \in Nat, NEW c \in NoteDrawn',
           NoteDrawn \subseteq NoteDrawn', HasRoom(1), Insert(c),
           Inserts(len, <<c>>), UNCHANGED <<indexed, commitments>>
    PROVE  TreeOk' /\ isKnownRoot \subseteq isKnownRoot'
  <1>1. PICK S, all, next : /\ S = NoteDrawn' /\ all = Inserted(len)
                            /\ next = Append(all, c)
    OBVIOUS
  <1>2. /\ all \in Seq(S) /\ c \in S /\ leafCount = Len(all)
    <2>1. all \in Seq(NoteDrawn) /\ leafCount = Len(all)
      BY <1>1, InsertedAreNotes DEF Inserts
    <2> QED
      BY <1>1, <2>1
  <1>3. Inserted(len) \o <<c>> = next
    BY <1>1, <1>2
  <1>4. FilledFits(filledSubtrees, all)
    BY <1>1 DEF TreeOk, Inserts
  <1>5. Len(all) < Capacity
    <2>1. Capacity \in Nat
      BY PowersAreNat, LevelsAre DEF Capacity
    <2> QED
      BY <1>2, <2>1 DEF HasRoom
  <1>6. RootAfter(filledSubtrees, leafCount, c) = TreeRoot(next)
    BY <1>1, <1>2, <1>4, <1>5, RootsAgree
  <1>7. FilledFits(FilledAfter(filledSubtrees, leafCount, c), next)
    BY <1>1, <1>2, <1>4, FilledStaysFit
  <1>8. /\ filledSubtrees' = FilledAfter(filledSubtrees, leafCount, c)
        /\ latestRoot' = TreeRoot(next)
        /\ isKnownRoot' = isKnownRoot \cup {TreeRoot(next)}
    BY <1>6 DEF Insert
  <1>9. indexed \in 0..len
    BY DEF WalletInv, IndexOk, Inserts
  <1> QED
    BY <1>3, <1>7, <1>8, <1>9, TreeFollows

\* _insertCommitment of the two leaves of a spend.
LEMMA InsertTwoKeepsTree ==
    ASSUME WalletInv, TreeOk, NEW len \in Nat, NEW c1 \in NoteDrawn,
           NEW c2 \in NoteDrawn, HasRoom(2), InsertTwo(c1, c2),
           Inserts(len, <<c1, c2>>), UNCHANGED <<indexed, commitments>>
    PROVE  TreeOk' /\ isKnownRoot \subseteq isKnownRoot'
  <1>1. PICK S, all, one, two : /\ S = NoteDrawn /\ all = Inserted(len)
                                /\ one = Append(all, c1) /\ two = Append(one, c2)
    OBVIOUS
  <1>2. /\ all \in Seq(S) /\ c1 \in S /\ c2 \in S /\ leafCount = Len(all)
    BY <1>1, InsertedAreNotes DEF Inserts
  <1>3. one \in Seq(S) /\ Len(one) = leafCount + 1 /\ leafCount \in Nat
    BY <1>1, <1>2
  <1>4. Inserted(len) \o <<c1, c2>> = two
    BY <1>1, <1>2
  <1>5. FilledFits(filledSubtrees, all)
    BY <1>1 DEF TreeOk, Inserts
  <1>6. Len(all) < Capacity /\ Len(one) < Capacity
    <2>1. Capacity \in Nat
      BY PowersAreNat, LevelsAre DEF Capacity
    <2> QED
      BY <1>2, <1>3, <2>1 DEF HasRoom
  <1>7. PICK filled : filled = FilledAfter(filledSubtrees, leafCount, c1)
    OBVIOUS
  <1>8. /\ RootAfter(filledSubtrees, leafCount, c1) = TreeRoot(one)
        /\ FilledFits(filled, one)
    BY <1>1, <1>2, <1>5, <1>6, <1>7, RootsAgree, FilledStaysFit
  <1>9. /\ RootAfter(filled, leafCount + 1, c2) = TreeRoot(two)
        /\ FilledFits(FilledAfter(filled, leafCount + 1, c2), two)
    BY <1>1, <1>2, <1>3, <1>6, <1>8, RootsAgree, FilledStaysFit
  <1>10. /\ filledSubtrees' = FilledAfter(filled, leafCount + 1, c2)
         /\ latestRoot' = TreeRoot(two)
         /\ isKnownRoot' = isKnownRoot \cup {TreeRoot(one), TreeRoot(two)}
    BY <1>7, <1>8, <1>9 DEF InsertTwo
  <1>11. indexed \in 0..len
    BY DEF WalletInv, IndexOk, Inserts
  <1> QED
    BY <1>4, <1>9, <1>10, <1>11, TreeFollows

\* The same events and the same tree.
LEMMA SameTree ==
    ASSUME TreeOk, UNCHANGED <<filledSubtrees, latestRoot, isKnownRoot, events>>
    PROVE  /\ FilledFits(filledSubtrees, Inserted(Len(events)))'
           /\ (latestRoot = TreeRoot(Inserted(Len(events))))'
           /\ (\A n \in 0..Len(events) : TreeRoot(Inserted(n)) \in isKnownRoot)'
           /\ Inserted(indexed) = LeavesOf(events', indexed)
  <1>1. /\ FilledFits(filledSubtrees', LeavesOf(events', Len(events')))
        /\ latestRoot' = TreeRoot(LeavesOf(events', Len(events')))
        /\ \A n \in 0..Len(events') : TreeRoot(LeavesOf(events', n)) \in isKnownRoot'
        /\ Inserted(indexed) = LeavesOf(events', indexed)
    BY InsertedIs DEF TreeOk
  <1>2. FilledFits(filledSubtrees, Inserted(Len(events)))'
    BY <1>1 DEF FilledFits, Inserted, LeavesOf, Leaves
  <1>3. /\ (latestRoot = TreeRoot(Inserted(Len(events))))'
        /\ (\A n \in 0..Len(events) : TreeRoot(Inserted(n)) \in isKnownRoot)'
    BY <1>1 DEF Inserted, LeavesOf, Leaves
  <1> QED
    BY <1>1, <1>2, <1>3

LEMMA QuietKeepsTree ==
    ASSUME TreeOk, UNCHANGED <<treeVars, events, indexed, commitments>>
    PROVE  TreeOk'
  <1>1. UNCHANGED <<filledSubtrees, latestRoot, isKnownRoot, events>>
    BY DEF treeVars
  <1>2. commitments' = LeavesOf(events', indexed')
    BY <1>1, SameTree DEF TreeOk
  <1>3. (commitments = Inserted(indexed))'
    BY <1>2 DEF Inserted, LeavesOf, Leaves
  <1> QED
    BY <1>1, <1>3, SameTree DEF TreeOk

LEMMA OneLeaf ==
    ASSUME NEW S, NEW t \in Seq(S), Len(t) = 1
    PROVE  t[1] \in S /\ t = <<t[1]>>
  <1>1. t[1] \in S
    OBVIOUS
  <1>2. t = <<t[1]>>
    OBVIOUS
  <1> QED
    BY <1>1, <1>2

\* Writing one leaf behind the last appends it.
LEMMA AppendOne ==
    ASSUME NEW S, NEW s \in Seq(S), NEW t \in Seq(S), Len(t) = 1
    PROVE  s \o t = [i \in 1..(Len(s) + 1) |-> IF i = Len(s) + 1 THEN t[1] ELSE s[i]]
  <1>1. PICK c \in S : c = t[1]
    BY OneLeaf
  <1>2. t = <<c>>
    BY <1>1, OneLeaf
  <1>3. PICK u \in Seq(S) : u = Append(s, c)
    <2>1. Append(s, c) \in Seq(S)
      OBVIOUS
    <2> QED
      BY <2>1
  <1>4. s \o t = u
    BY <1>2, <1>3
  <1>5. Len(u) = Len(s) + 1
    BY <1>3
  <1>6. \A i \in 1..(Len(s) + 1) : u[i] = IF i = Len(s) + 1 THEN c ELSE s[i]
    BY <1>3
  <1>7. \A v \in Seq(S) : v = [i \in 1..Len(v) |-> v[i]]
    OBVIOUS
  <1> QED
    BY <1>1, <1>4, <1>5, <1>6, <1>7

\* The indexer appends what the next event inserted, where the event says.
LEMMA IngestKeepsTree ==
    ASSUME WalletInv, TreeOk, Ingest
    PROVE  TreeOk'
  <1>1. PICK n, m, e : n = indexed /\ m = n + 1 /\ e = events[m]
    OBVIOUS
  <1>2. /\ n \in Nat /\ m \in DOMAIN events /\ m # 0 /\ m - 1 = n
        /\ n \in 0..Len(events) /\ m \in 0..Len(events)
    BY <1>1 DEF Ingest, WalletInv, IndexOk, EventsOk
  <1>3. PICK more \in Seq(NoteDrawn) : more = e.inserted
    <2>1. e \in EventRow
      BY <1>1, <1>2 DEF WalletInv, EventsOk
    <2> QED
      BY <2>1 DEF EventRow
  <1>4. e.leafIndex = End(n) /\ Len(more) = IF e.kind = "Deposited" THEN 1 ELSE 2
    BY <1>1, <1>2, <1>3 DEF WalletInv, EventsOk, EventOk
  <1>5. commitments \in Seq(NoteDrawn) /\ Len(commitments) = End(n)
    BY <1>1 DEF WalletInv, IndexOk
  <1>6. Inserted(m) = commitments \o more
    <2>1. Inserted(n) = commitments
      BY <1>1 DEF TreeOk
    <2>2. LeavesOf(events, m) = LeavesOf(events, n) \o e.inserted
      BY <1>1, <1>2, LeavesByEvent
    <2> QED
      BY <1>3, <2>1, <2>2, InsertedIs
  <1>7. commitments' = commitments \o more
    <2>1. CASE e.kind = "Deposited"
      <3>1. PICK len \in Nat : len = Len(commitments)
        BY <1>5
      <3>2. commitments' = [i \in 1..(len + 1) |->
                              IF i = len + 1 THEN more[1] ELSE commitments[i]]
        BY <1>1, <1>3, <1>4, <1>5, <2>1, <3>1 DEF Ingest, IngestDeposit
      <3>3. Len(more) = 1
        BY <1>4, <2>1
      <3>4. commitments \o more = [i \in 1..(len + 1) |->
                              IF i = len + 1 THEN more[1] ELSE commitments[i]]
        BY <1>3, <1>5, <3>1, <3>3, AppendOne
      <3> QED
        BY <3>2, <3>4
    <2>2. CASE e.kind # "Deposited"
      BY <1>1, <1>3, <2>2 DEF Ingest, IngestSpend
    <2> QED
      BY <2>1, <2>2
  <1>8. indexed' = m /\ UNCHANGED poolVars
    BY <1>1 DEF Ingest
  <1>9. UNCHANGED <<filledSubtrees, latestRoot, isKnownRoot, events>>
    BY <1>8 DEF poolVars, treeVars
  <1>10. (commitments = Inserted(indexed))'
    <2>1. commitments' = LeavesOf(events', m)
      BY <1>6, <1>7, <1>9, InsertedIs
    <2> QED
      BY <1>8, <2>1 DEF Inserted, LeavesOf, Leaves
  <1> QED
    BY <1>9, <1>10, SameTree DEF TreeOk

\* A payment is prepared against a root the pool had once.
LEMMA PrepareGood ==
    ASSUME WalletInv, TreeOk, PaymentsGood, NEW note, NEW index, NEW secret,
           NEW amount, NEW nonce, PreparePayment(note, index, secret, amount, nonce)
    PROVE  PaymentsGood'
  <1>1. PICK w : w = DeriveWitness(commitments, index)
    OBVIOUS
  <1>2. /\ WitnessPossible(commitments, index) /\ commitments[index + 1] = note
        /\ UNCHANGED <<isKnownRoot>>
    BY DEF PreparePayment, poolVars, treeVars
  <1>3. /\ w.root = TreeRoot(commitments)
        /\ MerkleRootFromPath(note, w.path, w.indexBits) = w.root
    <2>1. commitments \in Seq(NoteDrawn)
      BY DEF WalletInv, IndexOk
    <2> QED
      BY <1>1, <1>2, <2>1, WitnessFolds
  <1>4. w.root \in isKnownRoot
    BY <1>3 DEF TreeOk, WalletInv, IndexOk
  <1>5. PICK q :
           q = [note |-> note, secret |-> secret, amount |-> amount, nonce |-> nonce,
                merchantNote |-> Note(amount, lastRho + 1, MerchantPubKey),
                changeNote |-> Note(note.amount - amount, lastRho + 2, note.pkHash),
                witness |-> w]
    OBVIOUS
  <1>6. payments' = payments \cup {q}
    BY <1>1, <1>5 DEF PreparePayment
  <1>7. PaymentGood(q)
    BY <1>3, <1>4, <1>5 DEF PaymentGood, Note
  <1> QED
    BY <1>2, <1>6, <1>7 DEF PaymentsGood, PaymentGood

LEMMA KnownRootsStayGood ==
    ASSUME PaymentsGood, isKnownRoot \subseteq isKnownRoot', payments' = payments
    PROVE  PaymentsGood'
  BY DEF PaymentsGood, PaymentGood

\* Each step keeps the trees one and the payments good.
LEMMA StepTrees ==
    ASSUME PoolInv, WalletInv, TreeOk, PaymentsGood, [Next]_vars
    PROVE  TreeOk' /\ PaymentsGood'
  <1>0. PICK len \in Nat : len = Len(events)
    BY DEF WalletInv, EventsOk
  <1>1. ASSUME NEW noteAmount \in NoteAmounts, NEW amount \in DepositAmounts,
               Deposit(noteAmount, amount)
        PROVE  TreeOk' /\ PaymentsGood'
    <2>1. PICK c, e : /\ c = Note(noteAmount, lastRho + 1, Owner)
                      /\ e = [kind |-> "Deposited", leafIndex |-> leafCount,
                              inserted |-> <<c>>, amount |-> amount]
      OBVIOUS
    <2>2. /\ HasRoom(1) /\ Insert(c) /\ events' = Append(events, e)
          /\ UNCHANGED <<indexed, commitments, payments>>
          /\ lastRho' = lastRho + 1
      BY <1>1, <2>1 DEF Deposit
    <2>3. noteAmount \in Nat /\ lastRho \in Nat
      BY PoolConstants DEF PoolConstants, WalletInv, NotesOk
    <2>4. NoteDrawn \subseteq NoteDrawn'
      BY <2>2, <2>3, DrawingMore
    <2>5. c \in NoteDrawn'
      BY <2>1, <2>2, <2>3 DEF Note, NoteDrawn
    <2>6. e \in EventRow \cup {e} /\ events \in Seq(EventRow \cup {e})
      BY DEF WalletInv, EventsOk
    <2>7. Inserts(len, e.inserted)
      BY <1>0, <2>2, <2>6, EventInserts
    <2>8. e.inserted = <<c>>
      BY <2>1
    <2> QED
      BY <2>2, <2>4, <2>5, <2>7, <2>8, InsertKeepsTree, KnownRootsStayGood
  <1>2. CASE Ingest
    <2>1. UNCHANGED <<isKnownRoot, payments>>
      BY <1>2 DEF Ingest, poolVars, treeVars
    <2> QED
      BY <1>2, <2>1, IngestKeepsTree, KnownRootsStayGood
  <1>3. ASSUME NEW note \in notes, NEW index \in 0..(Len(commitments) - 1),
               NEW secret \in Secrets, NEW amount \in PayAmounts,
               NEW nonce \in Nonces,
               PreparePayment(note, index, secret, amount, nonce)
        PROVE  TreeOk' /\ PaymentsGood'
    <2>1. UNCHANGED <<treeVars, events, indexed, commitments>>
      BY <1>3 DEF PreparePayment, poolVars
    <2> QED
      BY <1>3, <2>1, QuietKeepsTree, PrepareGood
  <1>4. ASSUME NEW p \in payments, SubmitSpend(p)
        PROVE  TreeOk' /\ PaymentsGood'
    <2>1. PICK c1, c2, e : /\ c1 = p.merchantNote /\ c2 = p.changeNote
                           /\ e = [kind |-> "Spent", leafIndex |-> leafCount,
                                   inserted |-> <<c1, c2>>, amount |-> p.amount]
      OBVIOUS
    <2>2. /\ HasRoom(2) /\ InsertTwo(c1, c2) /\ events' = Append(events, e)
          /\ UNCHANGED <<indexed, commitments, payments>>
      BY <1>4, <2>1 DEF SubmitSpend, SpendAccepted, PublicInputs, walletVars
    <2>3. c1 \in NoteDrawn /\ c2 \in NoteDrawn
      BY <2>1 DEF WalletInv, PaymentsOk, PaymentOk, NotesOk, Heirs
    <2>4. e \in EventRow \cup {e} /\ events \in Seq(EventRow \cup {e})
      BY DEF WalletInv, EventsOk
    <2>5. Inserts(len, e.inserted)
      BY <1>0, <2>2, <2>4, EventInserts
    <2>6. e.inserted = <<c1, c2>>
      BY <2>1
    <2> QED
      BY <2>2, <2>3, <2>5, <2>6, InsertTwoKeepsTree, KnownRootsStayGood
  <1>5. ASSUME NEW k \in DOMAIN spendRecords, NEW nonce \in Nonces,
               NEW recipient \in Recipients, Withdraw(k, nonce, recipient)
        PROVE  TreeOk' /\ PaymentsGood'
    <2>1. UNCHANGED <<treeVars, events, indexed, commitments, payments, isKnownRoot>>
      BY <1>5 DEF Withdraw, walletVars, treeVars
    <2> QED
      BY <2>1, QuietKeepsTree, KnownRootsStayGood
  <1>6. CASE UNCHANGED vars
    <2>1. UNCHANGED <<treeVars, events, indexed, commitments, payments, isKnownRoot>>
      BY <1>6 DEF vars, poolVars, treeVars, walletVars
    <2> QED
      BY <2>1, QuietKeepsTree, KnownRootsStayGood
  <1> QED
    BY <1>1, <1>2, <1>3, <1>4, <1>5, <1>6 DEF Next

\* The contract, which inserts leaf by leaf and keeps one filled subtree a
\* level (_insertCommitment of ShieldedPool.sol), and the SDK, which rebuilds
\* the tree from all commitments (sdk/client/merkle.ts), have one root, for
\* every depth of the tree and every order of deposits and spends, as long as
\* the tree has room: for a full tree the SDK has none (deriveWitness throws).
THEOREM TreesAlwaysAgree == Spec => []TreesAgree
  <1>1. PoolInv /\ WalletInv /\ PoolBacked /\ [Next]_vars
           => PoolInv' /\ WalletInv' /\ PoolBacked'
    BY StepKeepsSpends, StepPoolBacked
  <1>2. PoolInv /\ WalletInv /\ TreeOk /\ PaymentsGood /\ [Next]_vars
           => TreeOk' /\ PaymentsGood'
    BY StepTrees
  <1>3. WalletInv /\ TreeOk => TreesAgree
    <2> SUFFICES ASSUME WalletInv, TreeOk PROVE TreesAgree
      OBVIOUS
    <2>1. PICK all : all = Inserted(Len(events))
      OBVIOUS
    <2>2. /\ all \in Seq(NoteDrawn) /\ leafCount = Len(all)
          /\ latestRoot = TreeRoot(all) /\ commitments = Inserted(indexed)
      BY <2>1, InsertedAreNotes DEF TreeOk
    <2>3. Capacity \in Nat /\ Capacity > 0
      BY PowersAreNat, LevelsAre DEF Capacity
    <2>4. DeriveRoot(all) = IF leafCount < Capacity THEN latestRoot ELSE Thrown
      BY <2>2, <2>3, DerivedRoot
    <2> QED
      BY <2>1, <2>2, <2>4 DEF TreesAgree
  <1> QED
    BY <1>1, <1>2, <1>3, InitPoolInv, InitWalletInv, InitPoolBacked, InitTrees,
       PTL DEF Spec

\* A payment prepared against any root the pool ever had, with a witness the
\* SDK derived from the leaves it had read then (prepare402Payment), is
\* accepted by submitSpend as long as its nullifier is unused and two leaves fit.
THEOREM PreparedPaymentsStayGood == Spec => []PaymentsStayGood
  <1>1. PoolInv /\ WalletInv /\ PoolBacked /\ [Next]_vars
           => PoolInv' /\ WalletInv' /\ PoolBacked'
    BY StepKeepsSpends, StepPoolBacked
  <1>2. PoolInv /\ WalletInv /\ TreeOk /\ PaymentsGood /\ [Next]_vars
           => TreeOk' /\ PaymentsGood'
    BY StepTrees
  <1>3. WalletInv /\ PaymentsGood => PaymentsStayGood
    <2> SUFFICES ASSUME WalletInv, PaymentsGood, NEW p \in payments, p.amount > 0,
                        Nullifier(p.secret, p.note) \notin isNullifierUsed, HasRoom(2)
                 PROVE  SpendAccepted(p)
      BY DEF PaymentsStayGood
    <2>1. PaymentGood(p)
      BY DEF PaymentsGood
    <2>2. p.amount <= p.note.amount
      BY DEF WalletInv, PaymentsOk, PaymentOk
    <2>3. CircuitOutputs(p) = PublicInputs(p)
      BY <2>1 DEF PaymentGood, CircuitOutputs, PublicInputs
    <2> QED
      BY <2>1, <2>2, <2>3 DEF SpendAccepted, VerifierAccepts, ProofHolds,
         PublicInputs, NullifierIsNew, Knows, PaymentGood
  <1> QED
    BY <1>1, <1>2, <1>3, InitPoolInv, InitWalletInv, InitPoolBacked, InitTrees,
       PTL DEF Spec
=============================================================================
