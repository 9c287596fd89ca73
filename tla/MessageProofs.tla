---------------------------- MODULE MessageProofs ----------------------------
(***************************************************************************)
(* Theorems about what a party may make of what another one sends it: a    *)
(* payment at the merchant's gateway, for any number of requests and       *)
(* failures; the inclusion proof of an authorization, whatever the number  *)
(* of leaves of its epoch; a signature or a hash, at every width of the    *)
(* fields and for any messages.                                            *)
(***************************************************************************)
EXTENDS MerchantGateway, WireFormats, FiniteSums, SequenceTheorems

-----------------------------------------------------------------------------
(* The gateway *)

\* The awaits before a request sends its transaction.
Early == Awaits \ {"receipt"}

\* What is known of one request: no transaction before it is sent; past the
\* check of its challenge it pays the price; a transaction that went through
\* left the request's own record; it is served only after such a transaction.
NotYetSent(r) == at[r] \in Early => r \notin mempool /\ r \notin DOMAIN receipts
PaysPrice(r) ==
    at[r] \in Awaits \cup {"served"} => paying[r].nonce \in issued
                                          /\ paying[r].amount = Price
OwnRecord(r) ==
    r \in DOMAIN receipts /\ receipts[r] = "success" =>
       /\ paying[r].nullifier \in DOMAIN spendRecords
       /\ spendRecords[paying[r].nullifier] =
             [amount |-> paying[r].amount, by |-> r,
              challengeHash |-> ChallengeHash(paying[r].nonce, paying[r].amount)]
Charged(r) == at[r] = "served" => r \in DOMAIN receipts /\ receipts[r] = "success"

Sound(r) == NotYetSent(r) /\ PaysPrice(r) /\ OwnRecord(r) /\ Charged(r)

Shape ==
    /\ DOMAIN paying = DOMAIN at
    /\ mempool \subseteq DOMAIN at /\ DOMAIN receipts \subseteq DOMAIN at
    /\ mempool \cap DOMAIN receipts = {}

GatewayInv == Shape /\ \A r \in DOMAIN at : Sound(r)

\* The invariant gives both properties of what is served.
LEMMA InvServes == GatewayInv => ServedOnce /\ ServedIsPaid
  <1> SUFFICES ASSUME GatewayInv
               PROVE  ServedOnce /\ ServedIsPaid
    OBVIOUS
  <1>1. ASSUME NEW r \in DOMAIN at, at[r] = "served"
        PROVE  /\ paying[r].nonce \in issued
               /\ paying[r].nullifier \in DOMAIN spendRecords
               /\ spendRecords[paying[r].nullifier] =
                     [amount |-> Price, by |-> r,
                      challengeHash |-> ChallengeHash(paying[r].nonce, Price)]
    BY <1>1 DEF GatewayInv, Sound, PaysPrice, OwnRecord, Charged
  <1>2. ServedIsPaid
    BY <1>1 DEF ServedIsPaid, IsNullifierUsed
  <1>3. ASSUME NEW r \in DOMAIN at, at[r] = "served"
        PROVE  spendRecords[paying[r].nullifier].by = r
    <2>1. spendRecords[paying[r].nullifier] =
             [amount |-> Price, by |-> r,
              challengeHash |-> ChallengeHash(paying[r].nonce, Price)]
      BY <1>1, <1>3
    <2> QED
      BY <2>1
  <1>4. ServedOnce
    BY <1>3 DEF ServedOnce
  <1> QED
    BY <1>2, <1>4

LEMMA InitGatewayInv == Init => GatewayInv
  BY DEF Init, GatewayInv, Shape

\* A request goes on to its next await or to an answer other than "served".
LEMMA MoveOn ==
    ASSUME GatewayInv, NEW r \in DOMAIN at, NEW place,
           GoTo(r, place), UNCHANGED chainVars, place # "served",
           at[r] \in Awaits, place \in Early => at[r] \in Early
    PROVE  GatewayInv'
  <1>1. /\ DOMAIN at' = DOMAIN at /\ at'[r] = place
        /\ \A s \in DOMAIN at : s # r => at'[s] = at[s]
        /\ UNCHANGED <<issued, paying, mempool, receipts, spendRecords>>
    BY DEF GoTo, chainVars
  <1>2. Shape'
    BY <1>1 DEF GatewayInv, Shape
  <1>3. ASSUME NEW s \in DOMAIN at PROVE Sound(s)'
    BY <1>1 DEF GatewayInv, Sound, NotYetSent, PaysPrice, OwnRecord, Charged, Early
  <1> QED
    BY <1>1, <1>2, <1>3 DEF GatewayInv

\* A request's transaction is sent, whether or not its answer arrives.
LEMMA Sent ==
    ASSUME GatewayInv, NEW r \in DOMAIN at, NEW place \in {"receipt", "502"},
           GoTo(r, place), at[r] = "writeContract",
           mempool' = mempool \cup {r}, UNCHANGED <<receipts, spendRecords>>
    PROVE  GatewayInv'
  <1>1. /\ DOMAIN at' = DOMAIN at /\ at'[r] = place
        /\ \A s \in DOMAIN at : s # r => at'[s] = at[s]
        /\ UNCHANGED <<issued, paying>>
    BY DEF GoTo
  <1>2. r \notin mempool /\ r \notin DOMAIN receipts
    BY DEF GatewayInv, Sound, NotYetSent, Early, Awaits
  <1>3. Shape'
    BY <1>1, <1>2 DEF GatewayInv, Shape
  <1>4. ASSUME NEW s \in DOMAIN at PROVE Sound(s)'
    BY <1>1 DEF GatewayInv, Sound, NotYetSent, PaysPrice, OwnRecord, Charged,
                Early, Awaits
  <1> QED
    BY <1>1, <1>3, <1>4 DEF GatewayInv

LEMMA FinishKeeps ==
    ASSUME GatewayInv, NEW r \in DOMAIN at, FinishSettlement(r)
    PROVE  GatewayInv'
  <1>1. CASE receipts[r] = "success"
    <2>1. /\ DOMAIN at' = DOMAIN at /\ at'[r] = "served"
          /\ \A s \in DOMAIN at : s # r => at'[s] = at[s]
          /\ r \in DOMAIN receipts /\ at[r] = "receipt"
          /\ UNCHANGED <<issued, paying, mempool, receipts, spendRecords>>
      BY <1>1 DEF FinishSettlement, HasReceipt, OnReceipt, GoTo, chainVars
    <2>2. Shape'
      BY <2>1 DEF GatewayInv, Shape
    <2>3. ASSUME NEW s \in DOMAIN at PROVE Sound(s)'
      BY <1>1, <2>1 DEF GatewayInv, Sound, NotYetSent, PaysPrice, OwnRecord,
                        Charged, Early, Awaits
    <2> QED
      BY <2>1, <2>2, <2>3 DEF GatewayInv
  <1>2. CASE receipts[r] # "success"
    BY <1>2, MoveOn DEF FinishSettlement, OnReceipt, Early, Awaits
  <1> QED
    BY <1>1, <1>2

LEMMA HandleKeeps ==
    ASSUME GatewayInv, NEW r \in DOMAIN at, Handle(r)
    PROVE  GatewayInv'
  <1>1. CASE CheckNullifier(r)
    BY <1>1, MoveOn DEF CheckNullifier, Early, Awaits
  <1>2. CASE VerifyProof(r)
    BY <1>2, MoveOn DEF VerifyProof, Early, Awaits
  <1>3. CASE AcceptPayment(r)
    BY <1>3, MoveOn DEF AcceptPayment, Early, Awaits
  <1>4. CASE ReadSettled(r)
    BY <1>4, MoveOn DEF ReadSettled, Early, Awaits
  <1>5. CASE WriteContract(r)
    <2>1. CASE IsNullifierUsed(paying[r].nullifier)
      BY <1>5, <2>1, MoveOn DEF WriteContract, Early, Awaits, chainVars
    <2>2. CASE ~IsNullifierUsed(paying[r].nullifier)
      BY <1>5, <2>2, Sent DEF WriteContract
    <2> QED
      BY <2>1, <2>2
  <1>6. CASE FinishSettlement(r)
    BY <1>6, FinishKeeps
  <1> QED
    BY <1>1, <1>2, <1>3, <1>4, <1>5, <1>6 DEF Handle

LEMMA CallFailsKeeps ==
    ASSUME GatewayInv, NEW r \in DOMAIN at, CallFails(r)
    PROVE  GatewayInv'
  <1>1. UNCHANGED <<receipts, spendRecords>>
    BY DEF CallFails
  <1>2. CASE /\ at[r] \in {"isNullifierUsed", "verifyProof"}
             /\ GoTo(r, "500") /\ UNCHANGED mempool
    BY <1>1, <1>2, MoveOn DEF Early, Awaits, chainVars
  <1>3. CASE /\ at[r] \in {"settleOnchain", "writeContract", "receipt"}
             /\ GoTo(r, "502") /\ UNCHANGED mempool
    BY <1>1, <1>3, MoveOn DEF Early, Awaits, chainVars
  <1>4. CASE /\ at[r] = "writeContract"
             /\ GoTo(r, "502") /\ mempool' = mempool \cup {r}
    BY <1>1, <1>4, Sent
  <1> QED
    BY <1>2, <1>3, <1>4 DEF CallFails

\* A spend goes to a nullifier that has no record, so no record is replaced.
LEMMA SpendKeepsRecords ==
    ASSUME NEW p, NEW by, SpendGoesThrough(p.nullifier), Spend(p, by)
    PROVE  /\ p.nullifier \in DOMAIN spendRecords'
           /\ spendRecords'[p.nullifier] =
                 [amount |-> p.amount, by |-> by,
                  challengeHash |-> ChallengeHash(p.nonce, p.amount)]
           /\ \A n \in DOMAIN spendRecords :
                 n \in DOMAIN spendRecords' /\ spendRecords'[n] = spendRecords[n]
  BY DEF SpendGoesThrough, IsNullifierUsed, Spend, Put

LEMMA IncludeKeeps ==
    ASSUME GatewayInv, NEW r \in mempool, Include(r)
    PROVE  GatewayInv'
  <1>1. /\ UNCHANGED <<issued, at, paying>> /\ mempool' = mempool \ {r}
        /\ r \in DOMAIN at /\ r \notin DOMAIN receipts
    BY DEF Include, requestVars, GatewayInv, Shape
  <1>2. ASSUME NEW status, receipts' = Put(receipts, r, status)
        PROVE  /\ DOMAIN receipts' = DOMAIN receipts \cup {r}
               /\ receipts'[r] = status
               /\ \A s \in DOMAIN receipts : receipts'[s] = receipts[s]
    BY <1>1, <1>2 DEF Put
  <1>3. PICK status : receipts' = Put(receipts, r, status)
    BY DEF Include
  <1>4. Shape'
    BY <1>1, <1>2, <1>3 DEF GatewayInv, Shape
  <1>5. /\ \A n \in DOMAIN spendRecords :
              n \in DOMAIN spendRecords' /\ spendRecords'[n] = spendRecords[n]
        /\ receipts'[r] = "success" =>
              /\ paying[r].nullifier \in DOMAIN spendRecords'
              /\ spendRecords'[paying[r].nullifier] =
                    [amount |-> paying[r].amount, by |-> r,
                     challengeHash |-> ChallengeHash(paying[r].nonce, paying[r].amount)]
    <2>1. CASE SpendGoesThrough(paying[r].nullifier)
      BY <2>1, SpendKeepsRecords DEF Include
    <2>2. CASE ~SpendGoesThrough(paying[r].nullifier)
      <3>1. receipts' = Put(receipts, r, "reverted") /\ UNCHANGED spendRecords
        BY <2>2 DEF Include
      <3> QED
        BY <1>2, <3>1
    <2> QED
      BY <2>1, <2>2
  <1>6. ASSUME NEW s \in DOMAIN at PROVE Sound(s)'
    <2>1. CASE s = r
      <3>1. at[r] \notin Early /\ at[r] # "served"
        BY <1>1 DEF GatewayInv, Sound, NotYetSent, Charged
      <3> QED
        BY <1>1, <1>2, <1>3, <1>5, <2>1, <3>1
        DEF GatewayInv, Sound, NotYetSent, PaysPrice, OwnRecord, Charged
    <2>2. CASE s # r
      <3>1. s \in DOMAIN receipts' <=> s \in DOMAIN receipts
        BY <1>2, <1>3, <2>2
      <3>2. s \in DOMAIN receipts => receipts'[s] = receipts[s]
        BY <1>2, <1>3
      <3> QED
        BY <1>1, <1>5, <2>2, <3>1, <3>2
        DEF GatewayInv, Sound, NotYetSent, PaysPrice, OwnRecord, Charged
    <2> QED
      BY <2>1, <2>2
  <1> QED
    BY <1>1, <1>4, <1>6 DEF GatewayInv

LEMMA WalletKeeps ==
    ASSUME GatewayInv, NEW p \in Payment, WalletSubmits(p)
    PROVE  GatewayInv'
  <1>1. UNCHANGED <<issued, at, paying, mempool, receipts>>
    BY DEF WalletSubmits, requestVars
  <1>2. \A n \in DOMAIN spendRecords :
           n \in DOMAIN spendRecords' /\ spendRecords'[n] = spendRecords[n]
    BY SpendKeepsRecords DEF WalletSubmits
  <1> QED
    BY <1>1, <1>2 DEF GatewayInv, Shape, Sound, NotYetSent, PaysPrice, OwnRecord,
                      Charged

LEMMA RequestKeeps ==
    ASSUME GatewayInv, NEW r \in Requests, NEW p \in Payment, Request(r, p)
    PROVE  GatewayInv'
  <1>1. /\ r \notin DOMAIN at /\ p.nonce \in issued
        /\ at' = Put(at, r, IF ChallengeActive(p.nonce) /\ PaysTheChallenge(p)
                            THEN "isNullifierUsed" ELSE "402")
        /\ paying' = Put(paying, r, p)
        /\ UNCHANGED <<issued, mempool, receipts, spendRecords>>
    BY DEF Request, chainVars
  <1>2. /\ DOMAIN at' = DOMAIN at \cup {r} /\ DOMAIN paying' = DOMAIN paying \cup {r}
        /\ \A s \in DOMAIN at : at'[s] = at[s] /\ paying'[s] = paying[s]
        /\ paying'[r] = p /\ at'[r] \in {"isNullifierUsed", "402"}
        /\ at'[r] = "isNullifierUsed" => PaysTheChallenge(p)
    BY <1>1 DEF Put, GatewayInv, Shape
  <1>3. Shape'
    BY <1>1, <1>2 DEF GatewayInv, Shape
  <1>4. Sound(r)'
    <2>1. PaysTheChallenge(p) => p.amount = Price
      BY DEF PaysTheChallenge, ChallengeHash
    <2>2. r \notin mempool /\ r \notin DOMAIN receipts
      BY <1>1 DEF GatewayInv, Shape
    <2> QED
      BY <1>1, <1>2, <2>1, <2>2
      DEF Sound, NotYetSent, PaysPrice, OwnRecord, Charged, Early, Awaits
  <1>5. ASSUME NEW s \in DOMAIN at PROVE Sound(s)'
    BY <1>1, <1>2 DEF GatewayInv, Sound, NotYetSent, PaysPrice, OwnRecord, Charged
  <1> QED
    BY <1>2, <1>3, <1>4, <1>5 DEF GatewayInv

LEMMA RestartKeeps ==
    ASSUME GatewayInv, Restart
    PROVE  GatewayInv'
  <1>1. /\ DOMAIN at' = DOMAIN at
        /\ \A s \in DOMAIN at :
              at'[s] = IF at[s] \in Awaits THEN "lost" ELSE at[s]
        /\ UNCHANGED <<issued, paying, mempool, receipts, spendRecords>>
    BY DEF Restart, chainVars
  <1>2. ASSUME NEW s \in DOMAIN at PROVE Sound(s)'
    BY <1>1 DEF GatewayInv, Sound, NotYetSent, PaysPrice, OwnRecord, Charged,
                Early, Awaits
  <1> QED
    BY <1>1, <1>2 DEF GatewayInv, Shape

\* Handing out a challenge, the passing of time and stuttering leave every
\* request as it is.
LEMMA OthersKeep ==
    ASSUME GatewayInv, issued \subseteq issued',
           UNCHANGED <<at, paying, mempool, receipts, spendRecords>>
    PROVE  GatewayInv'
  BY DEF GatewayInv, Shape, Sound, NotYetSent, PaysPrice, OwnRecord, Charged

LEMMA StepKeepsInv == GatewayInv /\ [Next]_vars => GatewayInv'
  <1> SUFFICES ASSUME GatewayInv, [Next]_vars
               PROVE  GatewayInv'
    OBVIOUS
  <1>1. ASSUME NEW nonce \in Nonces, Issue402(nonce)
        PROVE  GatewayInv'
    BY <1>1, OthersKeep DEF Issue402, requestVars, chainVars
  <1>2. CASE Tick
    BY <1>2, OthersKeep DEF Tick, requestVars, chainVars
  <1>3. CASE UNCHANGED vars
    BY <1>3, OthersKeep DEF vars, requestVars, chainVars
  <1> QED
    BY <1>1, <1>2, <1>3, RequestKeeps, HandleKeeps, CallFailsKeeps, RestartKeeps,
       IncludeKeeps, WalletKeeps DEF Next

\* No two requests with one nullifier are ever served, and what is served is
\* paid for: the middleware serves only behind a receipt of the request's own
\* submitSpend, of which the pool lets one through per nullifier.
THEOREM PaymentsServeOnce == Spec => [](ServedOnce /\ ServedIsPaid)
  <1>1. Spec => []GatewayInv
    BY InitGatewayInv, StepKeepsInv, PTL DEF Spec
  <1> QED
    BY <1>1, InvServes, PTL

-----------------------------------------------------------------------------
(* The Merkle tree of an epoch *)

\* A function on 0..n with one value more.
OneStepMore(f, g, n, v) ==
    /\ f = [h \in 0..(n + 1) |-> f[h]]
    /\ \A h \in 0..(n + 1) :
          IF h = n + 1
          THEN f[h] = v /\ h # 0 /\ f[h - 1] = g[n] /\ h - 1 = n
          ELSE /\ f[h] = g[h] /\ h \in 0..n
               /\ h # 0 => f[h - 1] = g[h - 1]

LEMMA OneStepMoreExists ==
    ASSUME NEW n \in Nat, NEW g, NEW v
    PROVE  \E f : OneStepMore(f, g, n, v)
  <1> DEFINE f == [h \in 0..(n + 1) |-> IF h = n + 1 THEN v ELSE g[h]]
  <1>1. \A h \in 0..(n + 1) : h # n + 1 =>
           h \in 0..n /\ (h # 0 => h - 1 \in 0..(n + 1) /\ h - 1 # n + 1)
    OBVIOUS
  <1>2. n \in 0..(n + 1) /\ n # n + 1 /\ (n + 1) - 1 = n /\ n + 1 # 0
    OBVIOUS
  <1>3. OneStepMore(f, g, n, v)
    BY <1>1, <1>2 DEF OneStepMore
  <1> QED
    BY <1>3

\* The recursions, unfolded: each has a solution, built up a level at a time.
LEMMA LevelsUnfold ==
    ASSUME NEW ls, Len(ls) \in Nat
    PROVE  \A h \in 0..Len(ls) :
              LevelsOf(ls)[h] =
                 IF h = 0 THEN ls
                 ELSE Parents(LevelsOf(ls)[h - 1])
  <1> DEFINE To(g, n) ==
                g = [h \in 0..n |-> IF h = 0 THEN ls
                                    ELSE Parents(g[h - 1])]
             G == {n \in Nat : \E g : To(g, n)}
  <1>1. 0 \in G
    <2>1. To([h \in 0..0 |-> ls], 0)
      OBVIOUS
    <2> QED
      BY <2>1
  <1>2. ASSUME NEW n \in Nat, n \in G PROVE n + 1 \in G
    <2>1. PICK g : To(g, n)
      BY <1>2
    <2>2. PICK f : OneStepMore(f, g, n, Parents(g[n]))
      BY OneStepMoreExists
    <2>3. ASSUME NEW h \in 0..(n + 1)
          PROVE  f[h] = IF h = 0 THEN ls
                        ELSE Parents(f[h - 1])
      <3>1. CASE h = n + 1
        BY <2>2, <3>1 DEF OneStepMore
      <3>2. CASE h # n + 1
        <4>1. /\ f[h] = g[h] /\ h \in 0..n
              /\ h # 0 => f[h - 1] = g[h - 1]
          BY <2>2, <3>2 DEF OneStepMore
        <4> QED
          BY <2>1, <4>1
      <3> QED
        BY <3>1, <3>2
    <2>4. To(f, n + 1)
      BY <2>2, <2>3 DEF OneStepMore
    <2> HIDE DEF To
    <2> QED
      BY <2>4
  <1>3. Len(ls) \in G
    <2> HIDE DEF G
    <2> QED
      BY <1>1, <1>2, NaturalsOneByOne
  <1>4. PICK u : u = CHOOSE g : To(g, Len(ls))
    OBVIOUS
  <1>5. u = LevelsOf(ls)
    BY <1>4 DEF LevelsOf
  <1>6. To(u, Len(ls))
    BY <1>3, <1>4
  <1> QED
    BY <1>5, <1>6

LEMMA IndexesUnfold ==
    ASSUME NEW i, NEW height \in Nat
    PROVE  \A h \in 0..height :
              IndexesOf(i, height)[h] =
                 IF h = 0 THEN i
                 ELSE IndexesOf(i, height)[h - 1] \div 2
  <1> DEFINE To(g, n) ==
                g = [h \in 0..n |-> IF h = 0 THEN i
                                    ELSE g[h - 1] \div 2]
             G == {n \in Nat : \E g : To(g, n)}
  <1>1. 0 \in G
    <2>1. To([h \in 0..0 |-> i], 0)
      OBVIOUS
    <2> QED
      BY <2>1
  <1>2. ASSUME NEW n \in Nat, n \in G PROVE n + 1 \in G
    <2>1. PICK g : To(g, n)
      BY <1>2
    <2>2. PICK f : OneStepMore(f, g, n, g[n] \div 2)
      BY OneStepMoreExists
    <2>3. ASSUME NEW h \in 0..(n + 1)
          PROVE  f[h] = IF h = 0 THEN i
                        ELSE f[h - 1] \div 2
      <3>1. CASE h = n + 1
        BY <2>2, <3>1 DEF OneStepMore
      <3>2. CASE h # n + 1
        <4>1. /\ f[h] = g[h] /\ h \in 0..n
              /\ h # 0 => f[h - 1] = g[h - 1]
          BY <2>2, <3>2 DEF OneStepMore
        <4> QED
          BY <2>1, <4>1
      <3> QED
        BY <3>1, <3>2
    <2>4. To(f, n + 1)
      BY <2>2, <2>3 DEF OneStepMore
    <2> HIDE DEF To
    <2> QED
      BY <2>4
  <1>3. height \in G
    <2> HIDE DEF G
    <2> QED
      BY <1>1, <1>2, NaturalsOneByOne
  <1>4. PICK u : u = CHOOSE g : To(g, height)
    OBVIOUS
  <1>5. u = IndexesOf(i, height)
    BY <1>4 DEF IndexesOf
  <1>6. To(u, height)
    BY <1>3, <1>4
  <1> QED
    BY <1>5, <1>6

\* One node further up.
BranchStep(node, i, proof, h) ==
    IF IndexesOf(i, Len(proof))[h - 1] % 2 = 0 THEN HashPair(node, proof[h])
                                               ELSE HashPair(proof[h], node)

LEMMA BranchUnfold ==
    ASSUME NEW leaf, NEW i, NEW proof, Len(proof) \in Nat
    PROVE  \A h \in 0..Len(proof) :
              BranchOf(leaf, i, proof)[h] =
                 IF h = 0 THEN leaf
                 ELSE BranchStep(BranchOf(leaf, i, proof)[h - 1], i, proof, h)
  <1> DEFINE To(g, n) ==
                g = [h \in 0..n |-> IF h = 0 THEN leaf
                                    ELSE BranchStep(g[h - 1], i, proof, h)]
             G == {n \in Nat : \E g : To(g, n)}
  <1>1. 0 \in G
    <2>1. To([h \in 0..0 |-> leaf], 0)
      OBVIOUS
    <2> QED
      BY <2>1
  <1>2. ASSUME NEW n \in Nat, n \in G PROVE n + 1 \in G
    <2>1. PICK g : To(g, n)
      BY <1>2
    <2>2. PICK f : OneStepMore(f, g, n, BranchStep(g[n], i, proof, n + 1))
      BY OneStepMoreExists
    <2>3. ASSUME NEW h \in 0..(n + 1)
          PROVE  f[h] = IF h = 0 THEN leaf
                        ELSE BranchStep(f[h - 1], i, proof, h)
      <3>1. CASE h = n + 1
        BY <2>2, <3>1 DEF OneStepMore
      <3>2. CASE h # n + 1
        <4>1. /\ f[h] = g[h] /\ h \in 0..n
              /\ h # 0 => f[h - 1] = g[h - 1]
          BY <2>2, <3>2 DEF OneStepMore
        <4> QED
          BY <2>1, <4>1
      <3> QED
        BY <3>1, <3>2
    <2>4. To(f, n + 1)
      BY <2>2, <2>3 DEF OneStepMore
    <2> HIDE DEF To
    <2> QED
      BY <2>4
  <1>3. Len(proof) \in G
    <2> HIDE DEF G
    <2> QED
      BY <1>1, <1>2, NaturalsOneByOne
  <1>4. PICK u : u = CHOOSE g : To(g, Len(proof))
    OBVIOUS
  <1>5. u = BranchOf(leaf, i, proof)
    BY <1>4 DEF BranchOf, BranchStep
  <1>6. To(u, Len(proof))
    BY <1>3, <1>4
  <1> QED
    BY <1>5, <1>6

\* What a list is: a function from 1 to its length.
Listed(s) == Len(s) \in Nat /\ s = [k \in 1..Len(s) |-> s[k]]

LEMMA ListIs ==
    ASSUME NEW m \in Nat, NEW s, s = [k \in 1..m |-> s[k]]
    PROVE  Listed(s) /\ Len(s) = m
  <1>1. PICK S : S = {s[k] : k \in 1..m}
    OBVIOUS
  <1>2. s \in [1..m -> S]
    BY <1>1
  <1>3. s \in Seq(S)
    BY <1>2, SeqDef
  <1>4. Len(s) \in Nat /\ DOMAIN s = 1..Len(s)
    BY <1>3, LenProperties
  <1>5. DOMAIN s = 1..m
    OBVIOUS
  <1>6. Len(s) = m
    BY <1>4, <1>5
  <1> QED
    BY <1>6 DEF Listed

LEMMA SeqIsListed ==
    ASSUME NEW S, NEW s \in Seq(S)
    PROVE  Listed(s)
  <1>1. Len(s) \in Nat /\ s \in [1..Len(s) -> S]
    BY LenProperties
  <1> QED
    BY <1>1 DEF Listed

LEMMA HalvesAre ==
    ASSUME NEW i \in Nat
    PROVE  \E half \in Nat, rest \in {0, 1} :
              half = i \div 2 /\ rest = i % 2 /\ i = 2 * half + rest
  <1>1. PICK half, rest : half = i \div 2 /\ rest = i % 2
    OBVIOUS
  <1>2. half \in Nat /\ rest \in {0, 1}
    BY <1>1
  <1>3. i = 2 * half + rest
    BY <1>1
  <1> QED
    BY <1>1, <1>2, <1>3

LEMMA ParentsAre ==
    ASSUME NEW level, Listed(level)
    PROVE  /\ Listed(Parents(level))
           /\ Len(Parents(level)) = (Len(level) + 1) \div 2
           /\ \A k \in 1..Len(Parents(level)) :
                 Parents(level)[k] =
                    HashPair(level[2 * k - 1], RightOf(level, 2 * k - 2))
  <1>1. PICK m \in Nat : m = (Len(level) + 1) \div 2
    BY DEF Listed
  <1>2. PICK s : s = Parents(level)
    OBVIOUS
  <1>3. s = [k \in 1..m |-> HashPair(level[2 * k - 1], RightOf(level, 2 * k - 2))]
    BY <1>1, <1>2 DEF Parents
  <1>4. s = [k \in 1..m |-> s[k]]
    BY <1>3
  <1>5. Listed(s) /\ Len(s) = m
    BY <1>4, ListIs
  <1> QED
    BY <1>1, <1>2, <1>3, <1>5

\* The node at i of a level and its sibling make the node above.
LEMMA Branching ==
    ASSUME NEW level, Listed(level), NEW i \in 0..(Len(level) - 1)
    PROVE  /\ i \div 2 \in 0..(Len(Parents(level)) - 1)
           /\ Parents(level)[i \div 2 + 1] =
                 IF i % 2 = 0 THEN HashPair(level[i + 1], SiblingIn(level, i))
                              ELSE HashPair(SiblingIn(level, i), level[i + 1])
  <1>1. PICK j \in Nat, rest \in {0, 1} :
          j = i \div 2 /\ rest = i % 2 /\ i = 2 * j + rest
    BY HalvesAre
  <1>2. Len(level) \in Nat
    BY DEF Listed
  <1>3. /\ Len(Parents(level)) = (Len(level) + 1) \div 2
        /\ \A k \in 1..Len(Parents(level)) :
              Parents(level)[k] =
                 HashPair(level[2 * k - 1], RightOf(level, 2 * k - 2))
    BY ParentsAre
  <1>4. PICK m \in Nat, over \in {0, 1} :
          m = (Len(level) + 1) \div 2 /\ Len(level) + 1 = 2 * m + over
    <2>1. Len(level) + 1 \in Nat
      BY <1>2
    <2> QED
      BY <2>1, HalvesAre
  <1>5. j < m
    <2>1. 2 * j + rest + 1 < Len(level) + 1
      BY <1>1, <1>2
    <2> QED
      BY <1>2, <1>4, <2>1
  <1>6. j + 1 \in 1..m /\ 2 * (j + 1) - 1 = 2 * j + 1 /\ 2 * (j + 1) - 2 = 2 * j
    BY <1>5
  <1>7. Parents(level)[j + 1] = HashPair(level[2 * j + 1], RightOf(level, 2 * j))
    BY <1>3, <1>4, <1>6
  <1>8. CASE i % 2 = 0
    <2>1. i = 2 * j
      BY <1>1, <1>8
    <2>2. SiblingOf(i) = i + 1
      BY <1>8 DEF SiblingOf
    <2>3. SiblingIn(level, i) = RightOf(level, 2 * j)
      BY <2>1, <2>2 DEF SiblingIn, RightOf
    <2> QED
      BY <1>1, <1>3, <1>4, <1>5, <1>7, <1>8, <2>1, <2>3
  <1>9. CASE i % 2 = 1
    <2>1. i = 2 * j + 1
      BY <1>1, <1>9
    <2>2. SiblingOf(i) = 2 * j
      BY <1>9, <2>1 DEF SiblingOf
    <2>3. SiblingIn(level, i) = level[2 * j + 1]
      BY <1>2, <2>1, <2>2 DEF SiblingIn
    <2>4. RightOf(level, 2 * j) = level[i + 1]
      <3>1. 2 * j + 1 < Len(level) /\ 2 * j + 2 = i + 1
        BY <1>2, <2>1
      <3> QED
        BY <3>1 DEF RightOf
    <2> QED
      BY <1>1, <1>3, <1>4, <1>5, <1>7, <1>9, <2>3, <2>4
  <1> QED
    BY <1>1, <1>8, <1>9

\* Every level is a list, halved from one to the next until one node is left.
LevelIs(ls, h) ==
    LET level == LevelsOf(ls)[h]
    IN  /\ Listed(level) /\ Len(level) >= 1
        /\ Len(level) = 1 \/ Len(level) <= Len(ls) - h

LEMMA LevelAbove ==
    ASSUME NEW ls, Listed(ls), NEW h \in Nat, h + 1 <= Len(ls)
    PROVE  LevelsOf(ls)[h + 1] = Parents(LevelsOf(ls)[h])
  <1>1. Len(ls) \in Nat /\ h + 1 \in 0..Len(ls) /\ h + 1 # 0 /\ (h + 1) - 1 = h
    BY DEF Listed
  <1>2. PICK n : n = h + 1
    OBVIOUS
  <1>3. LevelsOf(ls)[n] = Parents(LevelsOf(ls)[n - 1])
    BY <1>1, <1>2, LevelsUnfold
  <1> QED
    BY <1>1, <1>2, <1>3

LEMMA LevelsAreLists ==
    ASSUME NEW ls, Listed(ls), Len(ls) >= 1
    PROVE  \A h \in 0..Len(ls) : LevelIs(ls, h)
  <1> DEFINE G == {h \in Nat : h <= Len(ls) => LevelIs(ls, h)}
  <1>1. Len(ls) \in Nat
    BY DEF Listed
  <1>2. 0 \in G
    <2>1. LevelsOf(ls)[0] = ls
      BY <1>1, LevelsUnfold
    <2> QED
      BY <1>1, <2>1 DEF LevelIs
  <1>3. ASSUME NEW h \in Nat, h \in G PROVE h + 1 \in G
    <2>1. SUFFICES ASSUME h + 1 <= Len(ls) PROVE LevelIs(ls, h + 1)
      OBVIOUS
    <2>2. LevelIs(ls, h)
      BY <1>1, <1>3, <2>1
    <2>3. PICK level : level = LevelsOf(ls)[h]
      OBVIOUS
    <2>4. /\ Listed(level) /\ Len(level) >= 1 /\ Len(level) \in Nat
          /\ Len(level) = 1 \/ Len(level) <= Len(ls) - h
      BY <2>2, <2>3 DEF LevelIs, Listed
    <2>5. PICK above : above = Parents(level)
      OBVIOUS
    <2>6. Listed(above) /\ Len(above) = (Len(level) + 1) \div 2
      BY <2>4, <2>5, ParentsAre
    <2>7. above = LevelsOf(ls)[h + 1]
      BY <2>1, <2>3, <2>5, LevelAbove
    <2>8. PICK m \in Nat : m = Len(level)
      BY <2>4
    <2>9. (m + 1) \div 2 >= 1 /\ ((m + 1) \div 2 = 1 \/ (m + 1) \div 2 <= m - 1)
      BY <2>4, <2>8
    <2>10. Len(above) >= 1 /\ (Len(above) = 1 \/ Len(above) <= Len(ls) - (h + 1))
      <3>1. CASE m = 1
        BY <2>6, <2>8, <3>1
      <3>2. CASE m <= Len(ls) - h
        BY <1>1, <2>6, <2>8, <2>9, <3>2
      <3> QED
        BY <2>4, <2>8, <3>1, <3>2
    <2> QED
      BY <2>6, <2>7, <2>10 DEF LevelIs
  <1> HIDE DEF G
  <1>4. Nat \subseteq G
    BY <1>2, <1>3, NaturalsOneByOne
  <1> QED
    BY <1>1, <1>4 DEF G

\* The loops end at the first level of one node.
LEMMA HeightIs ==
    ASSUME NEW ls, Listed(ls), Len(ls) >= 1
    PROVE  /\ Height(ls) \in 0..Len(ls)
           /\ Len(LevelsOf(ls)[Height(ls)]) = 1
           /\ \A g \in 0..(Height(ls) - 1) : Len(LevelsOf(ls)[g]) > 1
  <1> DEFINE Ends(h) == /\ Len(LevelsOf(ls)[h]) <= 1
                        /\ \A g \in 0..(h - 1) : Len(LevelsOf(ls)[g]) > 1
             T == {h \in 0..Len(ls) : Len(LevelsOf(ls)[h]) <= 1}
  <1>1. Len(ls) \in Nat
    BY DEF Listed
  <1>2. \A h \in 0..Len(ls) : Len(LevelsOf(ls)[h]) \in Nat /\ Len(LevelsOf(ls)[h]) >= 1
    BY LevelsAreLists DEF LevelIs, Listed
  <1>3. Len(ls) \in T
    <2>1. PICK n \in Nat : n = Len(ls)
      BY <1>1
    <2>2. n \in 0..Len(ls) /\ LevelIs(ls, n)
      BY <2>1, LevelsAreLists
    <2>3. PICK w \in Nat : w = Len(LevelsOf(ls)[n])
      BY <1>2, <2>2
    <2>4. w = 1 \/ w <= n - n
      BY <2>1, <2>2, <2>3 DEF LevelIs
    <2>5. w <= 1
      BY <2>4
    <2> QED
      BY <2>1, <2>2, <2>3, <2>5
  <1>4. PICK m \in T : \A k \in T : m <= k
    <2>1. T \subseteq Nat
      BY <1>1
    <2> HIDE DEF T
    <2> QED
      BY <1>3, <2>1, LeastElement
  <1>5. m \in 0..Len(ls) /\ Ends(m)
    <2>1. ASSUME NEW g \in 0..(m - 1) PROVE Len(LevelsOf(ls)[g]) > 1
      <3>1. g \in 0..Len(ls) /\ ~(m <= g)
        BY <1>1, <1>4
      <3>2. g \notin T
        BY <1>4, <3>1
      <3>3. PICK w \in Nat : w = Len(LevelsOf(ls)[g])
        BY <1>2, <3>1
      <3>4. ~(w <= 1)
        BY <3>1, <3>2, <3>3
      <3> QED
        BY <3>3, <3>4
    <2> QED
      BY <1>4, <2>1
  <1>6. PICK height : height = CHOOSE h \in 0..Len(ls) : Ends(h)
    OBVIOUS
  <1>7. height = Height(ls)
    BY <1>6 DEF Height
  <1>8. height \in 0..Len(ls) /\ Ends(height)
    <2> HIDE DEF Ends
    <2> QED
      BY <1>5, <1>6
  <1>9. Len(LevelsOf(ls)[height]) = 1
    <2>1. PICK w \in Nat : w = Len(LevelsOf(ls)[height]) /\ w >= 1
      BY <1>2, <1>8
    <2>2. w <= 1
      BY <1>8, <2>1
    <2>3. \A x \in Nat : x >= 1 /\ x <= 1 => x = 1
      OBVIOUS
    <2>4. w = 1
      BY <2>1, <2>2, <2>3
    <2> QED
      BY <2>1, <2>4
  <1> QED
    BY <1>7, <1>8, <1>9

\* A leaf's branch meets every level at one of its nodes.
LEMMA BranchMeetsLevels ==
    ASSUME NEW ls, Listed(ls), Len(ls) >= 1, NEW i \in 0..(Len(ls) - 1)
    PROVE  \A h \in 0..Height(ls) :
              IndexesOf(i, Height(ls))[h] \in 0..(Len(LevelsOf(ls)[h]) - 1)
  <1> DEFINE Met(h) == IndexesOf(i, Height(ls))[h] \in 0..(Len(LevelsOf(ls)[h]) - 1)
             G == {h \in Nat : h <= Height(ls) => Met(h)}
  <1>1. Len(ls) \in Nat /\ Height(ls) \in Nat /\ Height(ls) <= Len(ls)
    BY HeightIs DEF Listed
  <1>2. 0 \in G
    <2>1. LevelsOf(ls)[0] = ls
      BY <1>1, LevelsUnfold
    <2>2. IndexesOf(i, Height(ls))[0] = i
      BY <1>1, IndexesUnfold
    <2> QED
      BY <1>1, <2>1, <2>2
  <1>3. ASSUME NEW h \in Nat, h \in G PROVE h + 1 \in G
    <2>1. SUFFICES ASSUME h + 1 <= Height(ls) PROVE Met(h + 1)
      OBVIOUS
    <2>2. h \in 0..Len(ls) /\ h + 1 <= Len(ls) /\ Met(h)
      BY <1>1, <1>3, <2>1
    <2>3. PICK level : level = LevelsOf(ls)[h] /\ Listed(level)
      BY <2>2, LevelsAreLists DEF LevelIs
    <2>4. PICK j : j = IndexesOf(i, Height(ls))[h] /\ j \in 0..(Len(level) - 1)
      BY <2>2, <2>3
    <2>5. j \div 2 \in 0..(Len(Parents(level)) - 1)
      BY <2>3, <2>4, Branching
    <2>6. LevelsOf(ls)[h + 1] = Parents(level)
      BY <2>2, <2>3, LevelAbove
    <2>7. IndexesOf(i, Height(ls))[h + 1] = j \div 2
      <3>1. PICK n : n = h + 1 /\ n \in 0..Height(ls) /\ n # 0 /\ n - 1 = h
        BY <1>1, <2>1
      <3>2. IndexesOf(i, Height(ls))[n] = IndexesOf(i, Height(ls))[n - 1] \div 2
        BY <1>1, <3>1, IndexesUnfold
      <3> QED
        BY <2>4, <3>1, <3>2
    <2> QED
      BY <2>5, <2>6, <2>7
  <1> HIDE DEF G
  <1>4. Nat \subseteq G
    BY <1>2, <1>3, NaturalsOneByOne
  <1> QED
    BY <1>1, <1>4 DEF G

\* The nodes from a leaf to the root.
NodeOf(ls, i, h) == LevelsOf(ls)[h][IndexesOf(i, Height(ls))[h] + 1]

LEMMA NodesFromLeafToRoot ==
    ASSUME NEW ls, Listed(ls), Len(ls) >= 1, NEW i \in 0..(Len(ls) - 1)
    PROVE  /\ NodeOf(ls, i, 0) = ls[i + 1]
           /\ NodeOf(ls, i, Height(ls)) = BuildMerkleRoot(ls)
  <1>1. Height(ls) \in Nat /\ Len(ls) \in Nat
    BY HeightIs DEF Listed
  <1>2. NodeOf(ls, i, 0) = ls[i + 1]
    <2>1. LevelsOf(ls)[0] = ls
      BY <1>1, LevelsUnfold
    <2>2. IndexesOf(i, Height(ls))[0] = i
      BY <1>1, IndexesUnfold
    <2> QED
      BY <2>1, <2>2 DEF NodeOf
  <1>3. ls # << >>
    <2>1. Len(<< >>) = 0
      BY EmptySeq
    <2> QED
      BY <2>1
  <1>4. IndexesOf(i, Height(ls))[Height(ls)] = 0
    <2>1. PICK w : w = Len(LevelsOf(ls)[Height(ls)]) /\ w = 1
      BY HeightIs
    <2>2. Height(ls) \in 0..Height(ls)
      BY <1>1
    <2>3. IndexesOf(i, Height(ls))[Height(ls)] \in 0..(w - 1)
      BY <2>1, <2>2, BranchMeetsLevels
    <2> QED
      BY <2>1, <2>3
  <1> QED
    BY <1>2, <1>3, <1>4 DEF NodeOf, BuildMerkleRoot

LEMMA NodeAbove ==
    ASSUME NEW ls, Listed(ls), Len(ls) >= 1, NEW i \in 0..(Len(ls) - 1),
           NEW h \in Nat, h + 1 <= Height(ls)
    PROVE  LET index == IndexesOf(i, Height(ls))[h]
               sibling == SiblingIn(LevelsOf(ls)[h], index)
           IN  NodeOf(ls, i, h + 1) =
                  IF index % 2 = 0 THEN HashPair(NodeOf(ls, i, h), sibling)
                                   ELSE HashPair(sibling, NodeOf(ls, i, h))
  <1>1. Height(ls) \in Nat /\ Height(ls) <= Len(ls) /\ Len(ls) \in Nat
    BY HeightIs DEF Listed
  <1>2. h \in 0..Height(ls) /\ h \in 0..Len(ls) /\ h + 1 <= Len(ls)
    BY <1>1
  <1>3. PICK level : level = LevelsOf(ls)[h] /\ Listed(level)
    BY <1>2, LevelsAreLists DEF LevelIs
  <1>4. PICK j : j = IndexesOf(i, Height(ls))[h] /\ j \in 0..(Len(level) - 1)
    BY <1>2, <1>3, BranchMeetsLevels
  <1>5. Parents(level)[j \div 2 + 1] =
           IF j % 2 = 0 THEN HashPair(level[j + 1], SiblingIn(level, j))
                        ELSE HashPair(SiblingIn(level, j), level[j + 1])
    BY <1>3, <1>4, Branching
  <1>6. LevelsOf(ls)[h + 1] = Parents(level)
    BY <1>2, <1>3, LevelAbove
  <1>7. IndexesOf(i, Height(ls))[h + 1] = j \div 2
    <2>1. PICK n : n = h + 1 /\ n \in 0..Height(ls) /\ n # 0 /\ n - 1 = h
      BY <1>1
    <2>2. IndexesOf(i, Height(ls))[n] = IndexesOf(i, Height(ls))[n - 1] \div 2
      BY <1>1, <2>1, IndexesUnfold
    <2> QED
      BY <1>4, <2>1, <2>2
  <1>8. NodeOf(ls, i, h) = level[j + 1]
    BY <1>3, <1>4 DEF NodeOf
  <1>9. NodeOf(ls, i, h + 1) = Parents(level)[j \div 2 + 1]
    BY <1>6, <1>7 DEF NodeOf
  <1> QED
    BY <1>3, <1>4, <1>5, <1>8, <1>9

LEMMA BranchAbove ==
    ASSUME NEW leaf, NEW i, NEW proof, NEW height \in Nat, Len(proof) = height,
           NEW h \in Nat, h + 1 <= height
    PROVE  BranchOf(leaf, i, proof)[h + 1] =
              IF IndexesOf(i, height)[h] % 2 = 0
              THEN HashPair(BranchOf(leaf, i, proof)[h], proof[h + 1])
              ELSE HashPair(proof[h + 1], BranchOf(leaf, i, proof)[h])
  <1>1. PICK n : n = h + 1 /\ n \in 0..height /\ n # 0 /\ n - 1 = h
    OBVIOUS
  <1>2. BranchOf(leaf, i, proof)[n] =
           BranchStep(BranchOf(leaf, i, proof)[n - 1], i, proof, n)
    BY <1>1, BranchUnfold
  <1> QED
    BY <1>1, <1>2 DEF BranchStep

\* Whatever proof of the tree's height it comes with, forged ones included, no
\* leaf verifies at an index but the one that is there: from the root down a
\* branch that verifies is the branch of the tree.
LEMMA OnlyItsLeafVerifies ==
    ASSUME NEW ls, Listed(ls), Len(ls) >= 1, NEW i \in 0..(Len(ls) - 1),
           NEW leaf, NEW proof, Len(proof) = Height(ls),
           VerifyMerkleProof(leaf, i, proof, BuildMerkleRoot(ls))
    PROVE  leaf = ls[i + 1]
  <1> DEFINE height == Height(ls)
             branch == BranchOf(leaf, i, proof)
             G == {d \in Nat : d <= height =>
                                  branch[height - d] = NodeOf(ls, i, height - d)}
  <1>1. height \in Nat
    BY HeightIs
  <1>2. 0 \in G
    <2>1. branch[height] = NodeOf(ls, i, height)
      BY NodesFromLeafToRoot DEF VerifyMerkleProof
    <2>2. height - 0 = height
      BY <1>1
    <2> QED
      BY <2>1, <2>2
  <1>3. ASSUME NEW d \in Nat, d \in G PROVE d + 1 \in G
    <2>1. SUFFICES ASSUME d + 1 <= height
                   PROVE  branch[height - (d + 1)] = NodeOf(ls, i, height - (d + 1))
      OBVIOUS
    <2>2. PICK h \in Nat : h = height - (d + 1) /\ h + 1 = height - d /\ h + 1 <= height
      BY <1>1, <2>1
    <2>3. branch[h + 1] = NodeOf(ls, i, h + 1)
      BY <1>1, <1>3, <2>1, <2>2
    <2>4. PICK index, sibling :
            /\ index = IndexesOf(i, height)[h]
            /\ sibling = SiblingIn(LevelsOf(ls)[h], index)
      OBVIOUS
    <2>5. NodeOf(ls, i, h + 1) = IF index % 2 = 0
                                 THEN HashPair(NodeOf(ls, i, h), sibling)
                                 ELSE HashPair(sibling, NodeOf(ls, i, h))
      BY <2>2, <2>4, NodeAbove
    <2>6. branch[h + 1] = IF index % 2 = 0 THEN HashPair(branch[h], proof[h + 1])
                                           ELSE HashPair(proof[h + 1], branch[h])
      <3> HIDE DEF height, G
      <3>1. Len(proof) = height
        BY DEF height
      <3>2. branch[h + 1] = IF IndexesOf(i, height)[h] % 2 = 0
                            THEN HashPair(branch[h], proof[h + 1])
                            ELSE HashPair(proof[h + 1], branch[h])
        BY <1>1, <2>2, <3>1, BranchAbove
      <3> QED
        BY <2>4, <3>2
    <2>7. branch[h] = NodeOf(ls, i, h)
      <3> HIDE DEF branch, height
      <3> QED
        BY <2>3, <2>5, <2>6 DEF HashPair
    <2> QED
      BY <2>2, <2>7
  <1>4. Nat \subseteq G
    <2> HIDE DEF G
    <2> QED
      BY <1>2, <1>3, NaturalsOneByOne
  <1>5. branch[0] = NodeOf(ls, i, 0)
    <2>1. height \in G /\ height - height = 0 /\ height <= height
      BY <1>1, <1>4
    <2> QED
      BY <2>1
  <1>6. branch[0] = leaf
    BY <1>1, BranchUnfold
  <1> QED
    BY <1>5, <1>6, NodesFromLeafToRoot

\* The proof the sequencer serves leads from the leaf to the root.
LEMMA ServedProofVerifies ==
    ASSUME NEW ls, Listed(ls), Len(ls) >= 1, NEW i \in 0..(Len(ls) - 1)
    PROVE  /\ Len(BuildMerkleProof(ls, i)) = Height(ls)
           /\ VerifyMerkleProof(ls[i + 1], i, BuildMerkleProof(ls, i),
                                BuildMerkleRoot(ls))
  <1> DEFINE height == Height(ls)
             index == IndexesOf(i, height)
  <1>1. PICK proof : proof = BuildMerkleProof(ls, i)
    OBVIOUS
  <1>2. height \in Nat
    BY HeightIs
  <1>3. proof = [h \in 1..height |-> SiblingIn(LevelsOf(ls)[h - 1], index[h - 1])]
    BY <1>1 DEF BuildMerkleProof
  <1>4. Len(proof) = height
    <2>1. proof = [h \in 1..height |-> proof[h]]
      BY <1>3
    <2> QED
      BY <1>2, <2>1, ListIs
  <1> DEFINE branch == BranchOf(ls[i + 1], i, proof)
             G == {h \in Nat : h <= height => branch[h] = NodeOf(ls, i, h)}
  <1>5. 0 \in G
    <2>1. branch[0] = ls[i + 1]
      BY <1>2, <1>4, BranchUnfold
    <2> QED
      BY <2>1, NodesFromLeafToRoot
  <1>6. ASSUME NEW h \in Nat, h \in G PROVE h + 1 \in G
    <2>1. SUFFICES ASSUME h + 1 <= height PROVE branch[h + 1] = NodeOf(ls, i, h + 1)
      OBVIOUS
    <2>2. branch[h] = NodeOf(ls, i, h)
      BY <1>2, <1>6, <2>1
    <2>3. proof[h + 1] = SiblingIn(LevelsOf(ls)[h], index[h])
      <3>1. h + 1 \in 1..height /\ (h + 1) - 1 = h
        BY <1>2, <2>1
      <3> QED
        BY <1>3, <3>1
    <2>4. branch[h + 1] = IF index[h] % 2 = 0 THEN HashPair(branch[h], proof[h + 1])
                                              ELSE HashPair(proof[h + 1], branch[h])
      BY <1>2, <1>4, <2>1, BranchAbove
    <2>5. NodeOf(ls, i, h + 1) = IF index[h] % 2 = 0
                                 THEN HashPair(NodeOf(ls, i, h), proof[h + 1])
                                 ELSE HashPair(proof[h + 1], NodeOf(ls, i, h))
      BY <2>1, <2>3, NodeAbove
    <2> QED
      BY <2>2, <2>4, <2>5
  <1>7. Nat \subseteq G
    <2> HIDE DEF G
    <2> QED
      BY <1>5, <1>6, NaturalsOneByOne
  <1>8. branch[height] = BuildMerkleRoot(ls)
    BY <1>2, <1>7, NodesFromLeafToRoot
  <1> QED
    BY <1>1, <1>4, <1>8 DEF VerifyMerkleProof

\* Lists of one length have levels of the same lengths.
LEMMA SameWidths ==
    ASSUME NEW ls, Listed(ls), NEW ms, Listed(ms),
           Len(ls) >= 1, Len(ms) = Len(ls)
    PROVE  /\ \A h \in 0..Len(ls) : Len(LevelsOf(ms)[h]) = Len(LevelsOf(ls)[h])
           /\ Height(ms) = Height(ls)
  <1> DEFINE Same(h) == Len(LevelsOf(ms)[h]) = Len(LevelsOf(ls)[h])
             G == {h \in Nat : h <= Len(ls) => Same(h)}
  <1>1. Len(ls) \in Nat
    BY DEF Listed
  <1>2. 0 \in G
    <2>1. LevelsOf(ls)[0] = ls /\ LevelsOf(ms)[0] = ms
      BY <1>1, LevelsUnfold
    <2> QED
      BY <2>1
  <1>3. ASSUME NEW h \in Nat, h \in G PROVE h + 1 \in G
    <2>1. SUFFICES ASSUME h + 1 <= Len(ls) PROVE Same(h + 1)
      OBVIOUS
    <2>2. h \in 0..Len(ls) /\ h \in 0..Len(ms) /\ h + 1 <= Len(ms) /\ Same(h)
      BY <1>1, <1>3, <2>1
    <2>3. PICK low : low = LevelsOf(ls)[h] /\ Listed(low)
      BY <2>2, LevelsAreLists DEF LevelIs
    <2>4. PICK other : other = LevelsOf(ms)[h] /\ Listed(other)
      BY <2>2, LevelsAreLists DEF LevelIs
    <2>5. Len(Parents(low)) = Len(Parents(other))
      <3>1. Len(low) = Len(other)
        BY <2>2, <2>3, <2>4
      <3>2. Len(Parents(low)) = (Len(low) + 1) \div 2
        BY <2>3, ParentsAre
      <3>3. Len(Parents(other)) = (Len(other) + 1) \div 2
        BY <2>4, ParentsAre
      <3> QED
        BY <3>1, <3>2, <3>3
    <2> QED
      BY <2>1, <2>2, <2>3, <2>4, <2>5, LevelAbove
  <1> HIDE DEF G
  <1>4. Nat \subseteq G
    BY <1>2, <1>3, NaturalsOneByOne
  <1>5. \A h \in 0..Len(ls) : Same(h)
    BY <1>1, <1>4 DEF G
  <1> HIDE DEF Same
  <1>6. Height(ms) = Height(ls)
    <2>1. PICK p \in Nat : p = Height(ls)
      BY HeightIs
    <2>2. PICK q \in Nat : q = Height(ms)
      BY HeightIs
    <2>3. /\ p \in 0..Len(ls) /\ Len(LevelsOf(ls)[p]) = 1
          /\ \A g \in 0..(p - 1) : Len(LevelsOf(ls)[g]) > 1
      BY <2>1, HeightIs
    <2>4. /\ q \in 0..Len(ls) /\ Len(LevelsOf(ms)[q]) = 1
          /\ \A g \in 0..(q - 1) : Len(LevelsOf(ms)[g]) > 1
      BY <2>2, HeightIs
    <2>5. Len(LevelsOf(ms)[p]) = 1 /\ Len(LevelsOf(ls)[q]) = 1
      BY <1>5, <2>3, <2>4 DEF Same
    <2>6. p \notin 0..(q - 1)
      <3>1. p \in 0..(q - 1) => 1 > 1
        BY <2>4, <2>5, Zenon
      <3> QED
        BY <3>1
    <2>7. q \notin 0..(p - 1)
      <3>1. q \in 0..(p - 1) => 1 > 1
        BY <2>3, <2>5, Zenon
      <3> QED
        BY <3>1
    <2>8. p = q
      BY <2>6, <2>7
    <2> QED
      BY <2>1, <2>2, <2>8
  <1> QED
    BY <1>5, <1>6 DEF Same

\* Two levels of a length that have the same parents are the same.
LEMMA ParentsTellChildren ==
    ASSUME NEW low, Listed(low), NEW other, Listed(other),
           Len(other) = Len(low), Parents(other) = Parents(low)
    PROVE  other = low
  <1>1. Len(low) \in Nat
    BY DEF Listed
  <1>2. ASSUME NEW k \in 1..Len(low) PROVE other[k] = low[k]
    <2>1. PICK i \in Nat : i = k - 1 /\ i + 1 = k /\ i \in 0..(Len(low) - 1)
      BY <1>1
    <2>2. PICK a, b : a = SiblingIn(low, i) /\ b = SiblingIn(other, i)
      OBVIOUS
    <2>3. PICK node : node = Parents(low)[i \div 2 + 1]
      OBVIOUS
    <2>4. node = IF i % 2 = 0 THEN HashPair(low[k], a) ELSE HashPair(a, low[k])
      BY <2>1, <2>2, <2>3, Branching
    <2>5. node = IF i % 2 = 0 THEN HashPair(other[k], b) ELSE HashPair(b, other[k])
      BY <2>1, <2>2, <2>3, Branching
    <2> QED
      BY <2>4, <2>5 DEF HashPair
  <1> QED
    BY <1>1, <1>2 DEF Listed

\* The root and the number of leaves name the epoch.
LEMMA RootIsOfOneEpoch ==
    ASSUME NEW ls, Listed(ls), NEW ms, Listed(ms),
           Len(ls) >= 1, Len(ms) = Len(ls),
           BuildMerkleRoot(ms) = BuildMerkleRoot(ls)
    PROVE  ms = ls
  <1> DEFINE height == Height(ls)
             Same(h) == LevelsOf(ms)[h] = LevelsOf(ls)[h]
             G == {d \in Nat : d <= height => Same(height - d)}
  <1>1. /\ Len(ls) \in Nat /\ height \in Nat /\ height <= Len(ls)
        /\ Height(ms) = height
    BY HeightIs, SameWidths DEF Listed
  <1>2. 0 \in G
    <2>1. PICK top : top = LevelsOf(ls)[height] /\ Listed(top) /\ Len(top) = 1
      <3>1. Listed(LevelsOf(ls)[height])
        <4>1. height \in 0..Len(ls)
          BY <1>1
        <4> QED
          BY <4>1, LevelsAreLists DEF LevelIs
      <3> QED
        BY <3>1, HeightIs
    <2>2. PICK other : other = LevelsOf(ms)[height] /\ Listed(other) /\ Len(other) = 1
      <3>1. Listed(LevelsOf(ms)[height])
        <4>1. height \in 0..Len(ms)
          BY <1>1
        <4> QED
          BY <4>1, LevelsAreLists DEF LevelIs
      <3> QED
        BY <1>1, <3>1, HeightIs
    <2>3. top[1] = BuildMerkleRoot(ls) /\ other[1] = BuildMerkleRoot(ms)
      <3>1. Len(<< >>) = 0
        BY EmptySeq
      <3>2. ls # << >> /\ ms # << >>
        BY <3>1
      <3> QED
        BY <1>1, <2>1, <2>2, <3>2 DEF BuildMerkleRoot
    <2>4. top = other
      <3>1. \A k \in 1..1 : top[k] = other[k]
        BY <2>3
      <3> QED
        BY <2>1, <2>2, <3>1 DEF Listed
    <2>5. height - 0 = height
      BY <1>1
    <2> QED
      BY <2>1, <2>2, <2>4, <2>5
  <1>3. ASSUME NEW d \in Nat, d \in G PROVE d + 1 \in G
    <2>1. SUFFICES ASSUME d + 1 <= height PROVE Same(height - (d + 1))
      OBVIOUS
    <2>2. PICK h \in Nat : h = height - (d + 1) /\ h + 1 = height - d /\ h + 1 <= height
      BY <1>1, <2>1
    <2>3. h \in 0..Len(ls) /\ h \in 0..Len(ms) /\ h + 1 <= Len(ls) /\ h + 1 <= Len(ms)
      BY <1>1, <2>2
    <2>4. LevelsOf(ms)[h + 1] = LevelsOf(ls)[h + 1]
      BY <1>1, <1>3, <2>1, <2>2
    <2>5. PICK low : low = LevelsOf(ls)[h] /\ Listed(low)
      BY <2>3, LevelsAreLists DEF LevelIs
    <2>6. PICK other : other = LevelsOf(ms)[h] /\ Listed(other)
      BY <2>3, LevelsAreLists DEF LevelIs
    <2>7. Parents(other) = Parents(low)
      BY <2>3, <2>4, <2>5, <2>6, LevelAbove
    <2>8. Len(other) = Len(low)
      BY <2>3, <2>5, <2>6, SameWidths
    <2>9. other = low
      BY <2>5, <2>6, <2>7, <2>8, ParentsTellChildren
    <2> QED
      BY <2>2, <2>5, <2>6, <2>9
  <1>4. Nat \subseteq G
    <2> HIDE DEF G
    <2> QED
      BY <1>2, <1>3, NaturalsOneByOne
  <1>5. LevelsOf(ms)[0] = LevelsOf(ls)[0]
    <2>1. height \in G /\ height - height = 0 /\ height <= height
      BY <1>1, <1>4
    <2> QED
      BY <2>1
  <1> QED
    BY <1>1, <1>5, LevelsUnfold

\* ProofsExact for epochs of every size: a served proof verifies its leaf at its
\* index, a proof never verifies another leaf, and the root names the epoch.
\* (getInclusionProof, buildMerkleRoot, buildMerkleProof, verifyMerkleProof.)
THEOREM InclusionProofsAreExact == EpochSpec => []ProofsExact
  <1> DEFINE Inv == leaves \in Seq(Leaves)
  <1>1. NoLeaves => Inv
    BY DEF NoLeaves
  <1>2. Inv /\ [Growing]_leaves => Inv'
    BY DEF Growing, NextLeaf
  <1>3. Inv => ProofsExact
    <2>1. SUFFICES ASSUME Inv PROVE ProofsExact
      OBVIOUS
    <2>2. Listed(leaves) /\ Len(leaves) \in Nat
      BY <2>1, SeqIsListed DEF Listed
    <2>3. ASSUME NEW others \in [1..Len(leaves) -> Leaves]
          PROVE  Listed(others) /\ Len(others) = Len(leaves)
      <3>1. others = [k \in 1..Len(leaves) |-> others[k]]
        OBVIOUS
      <3> QED
        BY <2>2, <3>1, ListIs
    <2>4. CASE leaves = << >>
      <3>1. Len(leaves) = 0
        BY <2>4, EmptySeq
      <3>2. Indexes = {}
        BY <3>1 DEF Indexes
      <3>3. ASSUME NEW others \in [1..Len(leaves) -> Leaves] PROVE others = leaves
        BY <2>2, <2>3, <3>1 DEF Listed
      <3> QED
        BY <3>2, <3>3 DEF ProofsExact
    <2>5. CASE leaves # << >>
      <3>1. Len(leaves) >= 1
        <4>1. Len(leaves) \in Nat \ {0}
          BY <2>1, <2>5, EmptySeq
        <4> QED
          BY <4>1
      <3>2. Indexes = 0..(Len(leaves) - 1)
        BY DEF Indexes
      <3>3. ASSUME NEW j \in Indexes
            PROVE  VerifyMerkleProof(leaves[j + 1], j, BuildMerkleProof(leaves, j),
                                     BuildMerkleRoot(leaves))
        BY <2>2, <3>1, <3>2, ServedProofVerifies
      <3>4. ASSUME NEW j \in Indexes, NEW i \in Indexes, NEW leaf \in Leaves,
                   VerifyMerkleProof(leaf, i, BuildMerkleProof(leaves, j),
                                     BuildMerkleRoot(leaves))
            PROVE  leaf = leaves[i + 1]
        <4>1. PICK proof : proof = BuildMerkleProof(leaves, j) /\ Len(proof) = Height(leaves)
          BY <2>2, <3>1, <3>2, ServedProofVerifies
        <4> QED
          BY <2>2, <3>1, <3>2, <3>4, <4>1, OnlyItsLeafVerifies
      <3>5. ASSUME NEW others \in [1..Len(leaves) -> Leaves],
                   BuildMerkleRoot(others) = BuildMerkleRoot(leaves)
            PROVE  others = leaves
        BY <2>2, <2>3, <3>1, <3>5, RootIsOfOneEpoch
      <3> QED
        BY <3>3, <3>4, <3>5 DEF ProofsExact
    <2> QED
      BY <2>4, <2>5
  <1> QED
    BY <1>1, <1>2, <1>3, PTL DEF EpochSpec

-----------------------------------------------------------------------------
(* Numbers as digits *)

LEMMA BaseFacts ==
    /\ Base \in Nat /\ Base > 3
    /\ HashWidth \in Nat /\ Uint64Width \in Nat /\ Uint16Width \in Nat
    /\ HashWidth > 0 /\ Uint64Width > 0 /\ Uint16Width > 0
  BY WidthAssumption

LEMMA Division ==
    ASSUME NEW n \in Nat
    PROVE  \E q \in Nat, r \in 0..(Base - 1) :
              n = Base * q + r /\ n \div Base = q /\ n % Base = r
  <1> PICK b : b = Base
    OBVIOUS
  <1>1. b \in Nat /\ b > 0
    BY BaseFacts
  <1>2. PICK q, r : q = n \div b /\ r = n % b
    OBVIOUS
  <1>3. q \in Int /\ r \in 0..(b - 1)
    BY <1>1, <1>2
  <1>4. n = b * q + r
    BY <1>1, <1>2
  <1>5. q \in Nat
    <2>1. SUFFICES ASSUME q < 0 PROVE FALSE
      BY <1>3
    <2>2. PICK d \in Nat : q = -1 - d
      <3>1. -1 - q \in Nat /\ q = -1 - (-1 - q)
        BY <1>3, <2>1
      <3> QED
        BY <3>1
    <2>3. b * q = (-b) - b * d /\ b * d \in Nat
      BY <1>1, <2>2
    <2> QED
      BY <1>1, <1>3, <1>4, <2>3
  <1> QED
    BY <1>2, <1>3, <1>4, <1>5

LEMMA Quotients ==
    ASSUME NEW q \in Nat, NEW r \in Nat, NEW b \in Nat, NEW k \in Nat,
           b * q + r < b * k
    PROVE  q < k
  <1> SUFFICES ASSUME q >= k PROVE FALSE
    OBVIOUS
  <1>1. PICK d \in Nat : q = k + d
    <2>1. q - k \in Nat /\ q = k + (q - k)
      OBVIOUS
    <2> QED
      BY <2>1
  <1>2. b * q = b * k + b * d /\ b * d \in Nat /\ b * k \in Nat
    BY <1>1
  <1> QED
    BY <1>2

\* What was appended can be taken off again.
LEMMA AppendParts ==
    ASSUME NEW x \in Seq(Nat), NEW y \in Seq(Nat), NEW s \in Nat, NEW r \in Nat,
           Append(x, s) = Append(y, r)
    PROVE  x = y /\ s = r
  <1>1. Len(x) = Len(y)
    <2>1. Len(Append(x, s)) = Len(x) + 1 /\ Len(Append(y, r)) = Len(y) + 1
      OBVIOUS
    <2>2. Len(x) \in Nat /\ Len(y) \in Nat
      OBVIOUS
    <2> QED
      BY <2>1, <2>2
  <1>2. s = r
    <2>1. Append(x, s)[Len(x) + 1] = s
      BY AppendProperties, SMTT(30)
    <2>2. Append(y, r)[Len(y) + 1] = r
      BY AppendProperties, SMTT(30)
    <2> QED
      BY <1>1, <2>1, <2>2
  <1>3. ASSUME NEW i \in 1..Len(x) PROVE x[i] = y[i]
    <2>1. Append(x, s)[i] = x[i]
      BY AppendProperties, SMTT(30)
    <2>2. i \in 1..Len(y)
      BY <1>1
    <2>3. Append(y, r)[i] = y[i]
      BY <2>2, AppendProperties, SMTT(30)
    <2> QED
      BY <2>1, <2>3
  <1> QED
    BY <1>1, <1>2, <1>3, SeqEqual

LEMMA SpansUnfold ==
    ASSUME NEW width \in Nat
    PROVE  \A w \in 0..width :
              Spans(width)[w] = IF w = 0 THEN 1 ELSE Base * Spans(width)[w - 1]
  <1> DEFINE To(g, n) ==
                g = [w \in 0..n |-> IF w = 0 THEN 1 ELSE Base * g[w - 1]]
             G == {n \in Nat : \E g : To(g, n)}
  <1>1. 0 \in G
    <2>1. To([w \in 0..0 |-> 1], 0)
      OBVIOUS
    <2> QED
      BY <2>1
  <1>2. ASSUME NEW n \in Nat, n \in G PROVE n + 1 \in G
    <2>1. PICK g : To(g, n)
      BY <1>2
    <2>2. PICK f : OneStepMore(f, g, n, Base * g[n])
      BY OneStepMoreExists
    <2>3. ASSUME NEW w \in 0..(n + 1)
          PROVE  f[w] = IF w = 0 THEN 1 ELSE Base * f[w - 1]
      <3>1. CASE w = n + 1
        BY <2>2, <3>1 DEF OneStepMore
      <3>2. CASE w # n + 1
        <4>1. f[w] = g[w] /\ w \in 0..n /\ (w # 0 => f[w - 1] = g[w - 1])
          BY <2>2, <3>2 DEF OneStepMore
        <4> QED
          BY <2>1, <4>1
      <3> QED
        BY <3>1, <3>2
    <2>4. To(f, n + 1)
      BY <2>2, <2>3 DEF OneStepMore
    <2> HIDE DEF To
    <2> QED
      BY <2>4
  <1>3. width \in G
    <2> HIDE DEF G
    <2> QED
      BY <1>1, <1>2, NaturalsOneByOne
  <1>4. PICK u : u = CHOOSE g : To(g, width)
    OBVIOUS
  <1>5. u = Spans(width)
    BY <1>4 DEF Spans
  <1>6. To(u, width)
    BY <1>3, <1>4
  <1> QED
    BY <1>5, <1>6

LEMMA DigitsUnfold ==
    ASSUME NEW width \in Nat
    PROVE  \A w \in 0..width, n \in Nat :
              Digits(width)[w][n] =
                 IF w = 0 THEN << >>
                 ELSE Append(Digits(width)[w - 1][n \div Base], n % Base)
  <1> DEFINE Longer(d, w) ==
                [n \in Nat |-> IF w = 0 THEN << >>
                               ELSE Append(d[n \div Base], n % Base)]
             To(g, k) == g = [w \in 0..k |-> Longer(g[w - 1], w)]
             G == {k \in Nat : \E g : To(g, k)}
  <1>0. \A d, e : Longer(d, 0) = Longer(e, 0)
    OBVIOUS
  <1> HIDE DEF Longer
  <1>1. 0 \in G
    <2>1. PICK g : g = [w \in 0..0 |-> Longer(<< >>, 0)]
      OBVIOUS
    <2>2. g = [w \in 0..0 |-> Longer(g[w - 1], w)]
      BY <1>0, <2>1
    <2> QED
      BY <2>2
  <1>2. ASSUME NEW k \in Nat, k \in G PROVE k + 1 \in G
    <2>1. PICK g : To(g, k)
      BY <1>2
    <2>2. PICK f : OneStepMore(f, g, k, Longer(g[k], k + 1))
      BY OneStepMoreExists
    <2>3. ASSUME NEW w \in 0..(k + 1)
          PROVE  f[w] = Longer(f[w - 1], w)
      <3>1. CASE w = k + 1
        BY <2>2, <3>1 DEF OneStepMore
      <3>2. CASE w # k + 1
        <4>1. f[w] = g[w] /\ w \in 0..k /\ (w # 0 => f[w - 1] = g[w - 1])
          BY <2>2, <3>2 DEF OneStepMore
        <4>2. g[w] = Longer(g[w - 1], w)
          BY <2>1, <4>1
        <4> QED
          BY <1>0, <4>1, <4>2
      <3> QED
        BY <3>1, <3>2
    <2>4. To(f, k + 1)
      BY <2>2, <2>3 DEF OneStepMore
    <2> HIDE DEF To
    <2> QED
      BY <2>4
  <1>3. width \in G
    <2> HIDE DEF G
    <2> QED
      BY <1>1, <1>2, NaturalsOneByOne
  <1>4. PICK u : u = CHOOSE g : To(g, width)
    OBVIOUS
  <1>5. u = Digits(width)
    BY <1>4 DEF Digits, Longer
  <1>6. To(u, width)
    BY <1>3, <1>4
  <1>7. ASSUME NEW w \in 0..width PROVE u[w] = Longer(u[w - 1], w)
    BY <1>6
  <1>8. ASSUME NEW w \in 0..width, NEW n \in Nat
        PROVE  u[w][n] = IF w = 0 THEN << >>
                         ELSE Append(u[w - 1][n \div Base], n % Base)
    BY <1>7 DEF Longer
  <1> QED
    BY <1>5, <1>8

\* width digits stand for one number below the span.
LEMMA DigitsFacts ==
    ASSUME NEW width \in Nat
    PROVE  /\ \A n \in Nat : /\ BigEndian(n, width) \in Seq(Nat)
                             /\ Len(BigEndian(n, width)) = width
           /\ \A m, n \in Nat :
                 /\ m < Spans(width)[width] /\ n < Spans(width)[width]
                 /\ BigEndian(m, width) = BigEndian(n, width)
                 => m = n
  <1> PICK d, k, b : d = Digits(width) /\ k = Spans(width) /\ b = Base
    OBVIOUS
  <1>0. b \in Nat /\ b > 0
    BY BaseFacts
  <1> DEFINE Good(w) ==
                /\ k[w] \in Nat
                /\ \A n \in Nat : d[w][n] \in Seq(Nat) /\ Len(d[w][n]) = w
                /\ \A m, n \in Nat :
                      m < k[w] /\ n < k[w] /\ d[w][m] = d[w][n] => m = n
             G == {w \in Nat : w \in 0..width => Good(w)}
  <1>1. 0 \in G
    <2>1. k[0] = 1 /\ \A n \in Nat : d[0][n] = << >>
      BY SpansUnfold, DigitsUnfold
    <2>2. \A m, n \in Nat : m < 1 /\ n < 1 => m = n
      OBVIOUS
    <2>3. \A n \in Nat : d[0][n] \in Seq(Nat) /\ Len(d[0][n]) = 0
      BY <2>1, EmptySeq
    <2>4. \A m, n \in Nat : m < k[0] /\ n < k[0] => m = n
      BY <2>1, <2>2
    <2>5. Good(0)
      BY <2>1, <2>3, <2>4
    <2> HIDE DEF Good
    <2> QED
      BY <2>5
  <1>2. ASSUME NEW w \in Nat, w \in G PROVE w + 1 \in G
    <2>1. SUFFICES ASSUME w + 1 \in 0..width PROVE Good(w + 1)
      OBVIOUS
    <2>2. w \in 0..width /\ w + 1 # 0 /\ (w + 1) - 1 = w
      BY <2>1
    <2>3. Good(w)
      BY <1>2, <2>2
    <2>4. k[w + 1] = b * k[w]
      BY <2>1, <2>2, SpansUnfold
    <2>5. ASSUME NEW n \in Nat
          PROVE  \E q \in Nat, r \in 0..(b - 1) :
                    /\ n = b * q + r /\ d[w + 1][n] = Append(d[w][q], r)
                    /\ n < k[w + 1] => q < k[w]
      <3>1. PICK q \in Nat, r \in 0..(b - 1) :
               n = b * q + r /\ n \div Base = q /\ n % Base = r
        BY Division
      <3>2. d[w + 1][n] = Append(d[w][n \div Base], n % Base)
        <4>1. PICK v : v = w + 1
          OBVIOUS
        <4>2. v \in 0..width /\ v # 0 /\ v - 1 = w
          BY <2>1, <2>2, <4>1
        <4>3. d[v][n] = Append(d[v - 1][n \div Base], n % Base)
          BY <4>2, DigitsUnfold
        <4> QED
          BY <4>1, <4>2, <4>3
      <3>3. ASSUME n < k[w + 1] PROVE q < k[w]
        <4>1. PICK c : c = k[w] /\ c \in Nat
          BY <2>3
        <4>2. r \in Nat /\ b * q + r < b * c
          BY <1>0, <2>4, <3>1, <3>3, <4>1
        <4>3. q < c
          BY <1>0, <4>1, <4>2, Quotients
        <4> QED
          BY <4>1, <4>3
      <3> QED
        BY <3>1, <3>2, <3>3
    <2>6. k[w + 1] \in Nat
      BY <1>0, <2>3, <2>4
    <2>7. ASSUME NEW n \in Nat
          PROVE  d[w + 1][n] \in Seq(Nat) /\ Len(d[w + 1][n]) = w + 1
      <3>1. PICK q \in Nat, r \in 0..(b - 1) : d[w + 1][n] = Append(d[w][q], r)
        BY <2>5
      <3>2. d[w][q] \in Seq(Nat) /\ Len(d[w][q]) = w /\ r \in Nat
        BY <1>0, <2>3
      <3> QED
        BY <3>1, <3>2
    <2>8. ASSUME NEW m \in Nat, NEW n \in Nat, m < k[w + 1], n < k[w + 1],
                 d[w + 1][m] = d[w + 1][n]
          PROVE  m = n
      <3>1. PICK p \in Nat, s \in 0..(b - 1) :
               /\ m = b * p + s /\ d[w + 1][m] = Append(d[w][p], s)
               /\ p < k[w]
        BY <2>5, <2>8
      <3>2. PICK q \in Nat, r \in 0..(b - 1) :
               /\ n = b * q + r /\ d[w + 1][n] = Append(d[w][q], r)
               /\ q < k[w]
        BY <2>5, <2>8
      <3>3. d[w][p] \in Seq(Nat) /\ d[w][q] \in Seq(Nat) /\ s \in Nat /\ r \in Nat
        BY <1>0, <2>3
      <3>4. PICK x, y : x = d[w][p] /\ y = d[w][q]
        OBVIOUS
      <3>5. x = y /\ s = r
        <4>1. Append(x, s) = Append(y, r)
          BY <2>8, <3>1, <3>2, <3>4
        <4>2. x \in Seq(Nat) /\ y \in Seq(Nat)
          BY <3>3, <3>4
        <4> QED
          BY <3>3, <4>1, <4>2, AppendParts
      <3>6. p = q
        BY <2>3, <3>1, <3>2, <3>4, <3>5
      <3> QED
        BY <3>1, <3>2, <3>5, <3>6
    <2> HIDE DEF Good
    <2>9. k[w + 1] \in Nat /\ w + 1 \in Nat
      BY <2>6
    <2> QED
      BY <2>6, <2>7, <2>8 DEF Good
  <1>3. Good(width)
    <2> HIDE DEF Good
    <2>1. \A w \in Nat : w \in G => w + 1 \in G
      BY <1>2
    <2>2. width \in G
      <3> HIDE DEF G
      <3> QED
        BY <1>1, <2>1, NaturalsOneByOne
    <2> QED
      BY <2>2
  <1> QED
    BY <1>3 DEF BigEndian

-----------------------------------------------------------------------------
(* Fields one after the other *)

Bytes == Seq(Nat)

LEMMA Concat ==
    ASSUME NEW f \in Bytes, NEW g \in Bytes
    PROVE  f \o g \in Bytes /\ Len(f \o g) = Len(f) + Len(g)
  BY ConcatProperties DEF Bytes

LEMMA Regroup ==
    ASSUME NEW f \in Bytes, NEW g \in Bytes, NEW h \in Bytes
    PROVE  (f \o g) \o h = f \o (g \o h)
  BY ConcatAssociative, SMTT(30) DEF Bytes

\* Concatenation, for the provers to leave alone.
Then(f, g) == f \o g

LEMMA ThenFacts ==
    /\ \A f, g \in Bytes : Then(f, g) \in Bytes /\ Len(Then(f, g)) = Len(f) + Len(g)
    /\ \A f, g, h \in Bytes : Then(Then(f, g), h) = Then(f, Then(g, h))
  BY Concat, Regroup DEF Then

\* What is at a place of two parts.
LEMMA Place ==
    ASSUME NEW f \in Bytes, NEW x \in Bytes, NEW k \in Nat \ {0}
    PROVE  /\ Len(f) \in Nat /\ Len(x) \in Nat
           /\ k <= Len(f) => Then(f, x)[k] = f[k]
           /\ Len(f) < k /\ k <= Len(f) + Len(x) => Then(f, x)[k] = x[k - Len(f)]
  <1>1. /\ Len(f) \in Nat /\ Len(x) \in Nat /\ f \in Seq(Nat) /\ x \in Seq(Nat)
    BY LenProperties DEF Bytes
  <1>2. ASSUME k <= Len(f) PROVE Then(f, x)[k] = f[k]
    <2>1. k \in 1..(Len(f) + Len(x))
      BY <1>1, <1>2
    <2> QED
      BY <1>1, <1>2, <2>1, ConcatProperties DEF Then
  <1>3. ASSUME Len(f) < k, k <= Len(f) + Len(x)
        PROVE  Then(f, x)[k] = x[k - Len(f)]
    <2>1. k \in 1..(Len(f) + Len(x)) /\ ~(k <= Len(f))
      BY <1>1, <1>3
    <2> QED
      BY <1>1, <2>1, ConcatProperties DEF Then
  <1> QED
    BY <1>1, <1>2, <1>3

\* A first field of known length can be told from the rest.
LEMMA Split ==
    ASSUME NEW f \in Bytes, NEW g \in Bytes, NEW x \in Bytes, NEW y \in Bytes,
           Len(f) = Len(g), f \o x = g \o y
    PROVE  f = g /\ x = y
  <1>0. Then(f, x) = Then(g, y)
    BY DEF Then
  <1>1. /\ Len(f) \in Nat /\ Len(x) \in Nat /\ Len(y) \in Nat
        /\ f \in Seq(Nat) /\ g \in Seq(Nat) /\ x \in Seq(Nat) /\ y \in Seq(Nat)
    BY LenProperties DEF Bytes
  <1>2. Len(x) = Len(y)
    <2>1. Len(f \o x) = Len(f) + Len(x) /\ Len(g \o y) = Len(g) + Len(y)
      BY Concat
    <2> QED
      BY <1>1, <2>1
  <1>3. ASSUME NEW i \in 1..Len(f) PROVE f[i] = g[i]
    <2>1. i \in Nat \ {0} /\ i <= Len(f) /\ i <= Len(g)
      BY <1>1
    <2>2. Then(f, x)[i] = f[i]
      BY <2>1, Place
    <2>3. Then(g, y)[i] = g[i]
      BY <2>1, Place
    <2> QED
      BY <1>0, <2>2, <2>3
  <1>4. ASSUME NEW i \in 1..Len(x) PROVE x[i] = y[i]
    <2>1. PICK k \in Nat \ {0} : k = Len(f) + i
      BY <1>1
    <2>2. k - Len(f) = i /\ Len(f) < k /\ k <= Len(f) + Len(x)
      BY <1>1, <2>1
    <2>3. k - Len(g) = i /\ Len(g) < k /\ k <= Len(g) + Len(y)
      BY <1>2, <2>2
    <2>4. Then(f, x)[k] = x[k - Len(f)]
      BY <2>2, Place
    <2>5. Then(g, y)[k] = y[k - Len(g)]
      BY <2>3, Place
    <2> QED
      BY <1>0, <2>2, <2>3, <2>4, <2>5
  <1>5. f = g
    BY <1>1, <1>3, SeqEqual
  <1>6. x = y
    BY <1>1, <1>2, <1>4, SeqEqual
  <1> QED
    BY <1>5, <1>6

\* A message is a row of fields, the last ones of which may be empty.
Row(F) ==
    Then(Then(Then(Then(Then(Then(
       Then(Then(Then(Then(Then(Then(F[1], F[2]), F[3]), F[4]), F[5]), F[6]), F[7]),
       F[8]), F[9]), F[10]), F[11]), F[12]), F[13])
IsRow(F) == \A k \in 1..13 : F[k] \in Bytes

LEMMA RowFacts ==
    ASSUME NEW F, IsRow(F)
    PROVE  /\ Row(F) \in Bytes
           /\ Len(Row(F)) = Len(F[1]) + Len(F[2]) + Len(F[3]) + Len(F[4]) + Len(F[5])
                             + Len(F[6]) + Len(F[7]) + Len(F[8]) + Len(F[9])
                             + Len(F[10]) + Len(F[11]) + Len(F[12]) + Len(F[13])
  <1>1. PICK p1 \in Bytes : p1 = F[1]
    BY DEF IsRow
  <1>2. PICK p2 \in Bytes : p2 = Then(p1, F[2]) /\ Len(p2) = Len(p1) + Len(F[2])
    <2>1. F[2] \in Bytes
      BY DEF IsRow
    <2> QED
      BY <2>1, ThenFacts
  <1>3. PICK p3 \in Bytes : p3 = Then(p2, F[3]) /\ Len(p3) = Len(p2) + Len(F[3])
    <2>1. F[3] \in Bytes
      BY DEF IsRow
    <2> QED
      BY <2>1, ThenFacts
  <1>4. PICK p4 \in Bytes : p4 = Then(p3, F[4]) /\ Len(p4) = Len(p3) + Len(F[4])
    <2>1. F[4] \in Bytes
      BY DEF IsRow
    <2> QED
      BY <2>1, ThenFacts
  <1>5. PICK p5 \in Bytes : p5 = Then(p4, F[5]) /\ Len(p5) = Len(p4) + Len(F[5])
    <2>1. F[5] \in Bytes
      BY DEF IsRow
    <2> QED
      BY <2>1, ThenFacts
  <1>6. PICK p6 \in Bytes : p6 = Then(p5, F[6]) /\ Len(p6) = Len(p5) + Len(F[6])
    <2>1. F[6] \in Bytes
      BY DEF IsRow
    <2> QED
      BY <2>1, ThenFacts
  <1>7. PICK p7 \in Bytes : p7 = Then(p6, F[7]) /\ Len(p7) = Len(p6) + Len(F[7])
    <2>1. F[7] \in Bytes
      BY DEF IsRow
    <2> QED
      BY <2>1, ThenFacts
  <1>8. PICK p8 \in Bytes : p8 = Then(p7, F[8]) /\ Len(p8) = Len(p7) + Len(F[8])
    <2>1. F[8] \in Bytes
      BY DEF IsRow
    <2> QED
      BY <2>1, ThenFacts
  <1>9. PICK p9 \in Bytes : p9 = Then(p8, F[9]) /\ Len(p9) = Len(p8) + Len(F[9])
    <2>1. F[9] \in Bytes
      BY DEF IsRow
    <2> QED
      BY <2>1, ThenFacts
  <1>10. PICK p10 \in Bytes : p10 = Then(p9, F[10]) /\ Len(p10) = Len(p9) + Len(F[10])
    <2>1. F[10] \in Bytes
      BY DEF IsRow
    <2> QED
      BY <2>1, ThenFacts
  <1>11. PICK p11 \in Bytes : p11 = Then(p10, F[11]) /\ Len(p11) = Len(p10) + Len(F[11])
    <2>1. F[11] \in Bytes
      BY DEF IsRow
    <2> QED
      BY <2>1, ThenFacts
  <1>12. PICK p12 \in Bytes : p12 = Then(p11, F[12]) /\ Len(p12) = Len(p11) + Len(F[12])
    <2>1. F[12] \in Bytes
      BY DEF IsRow
    <2> QED
      BY <2>1, ThenFacts
  <1>13. PICK p13 \in Bytes : p13 = Then(p12, F[13]) /\ Len(p13) = Len(p12) + Len(F[13])
    <2>1. F[13] \in Bytes
      BY DEF IsRow
    <2> QED
      BY <2>1, ThenFacts
  <1>14. Row(F) = p13
    BY <1>1, <1>2, <1>3, <1>4, <1>5, <1>6, <1>7, <1>8, <1>9, <1>10, <1>11,
       <1>12, <1>13 DEF Row
  <1>15. Len(p13) = Len(F[1]) + Len(F[2]) + Len(F[3]) + Len(F[4]) + Len(F[5])
                    + Len(F[6]) + Len(F[7]) + Len(F[8]) + Len(F[9])
                    + Len(F[10]) + Len(F[11]) + Len(F[12]) + Len(F[13])
    BY <1>1, <1>2, <1>3, <1>4, <1>5, <1>6, <1>7, <1>8, <1>9, <1>10, <1>11, <1>12, <1>13
  <1> QED
    BY <1>14, <1>15

LEMMA Shift ==
    ASSUME NEW p \in Bytes, NEW f \in Bytes, NEW t \in Bytes, NEW row,
           row = Then(Then(p, f), t)
    PROVE  \E u \in Bytes : u = Then(f, t) /\ row = Then(p, u)
  <1>1. PICK u : u = Then(f, t)
    OBVIOUS
  <1>2. u \in Bytes
    BY <1>1, ThenFacts
  <1>3. row = Then(p, u)
    BY <1>1, ThenFacts
  <1> QED
    BY <1>1, <1>2, <1>3

LEMMA RowFromLeft ==
    ASSUME NEW F, IsRow(F)
    PROVE  \E t2, t3, t4, t5, t6, t7, t8, t9, t10, t11, t12 \in Bytes :
              /\ Row(F) = Then(F[1], t2)
              /\ t2 = Then(F[2], t3) /\ t3 = Then(F[3], t4)
              /\ t4 = Then(F[4], t5) /\ t5 = Then(F[5], t6)
              /\ t6 = Then(F[6], t7) /\ t7 = Then(F[7], t8)
              /\ t8 = Then(F[8], t9) /\ t9 = Then(F[9], t10)
              /\ t10 = Then(F[10], t11) /\ t11 = Then(F[11], t12)
              /\ t12 = Then(F[12], F[13])
  <1>0. /\ F[1] \in Bytes /\ F[2] \in Bytes /\ F[3] \in Bytes /\ F[4] \in Bytes
        /\ F[5] \in Bytes /\ F[6] \in Bytes /\ F[7] \in Bytes /\ F[8] \in Bytes
        /\ F[9] \in Bytes /\ F[10] \in Bytes /\ F[11] \in Bytes /\ F[12] \in Bytes
        /\ F[13] \in Bytes
    BY DEF IsRow
  <1>1. PICK p1 \in Bytes : p1 = F[1]
    BY <1>0
  <1>2. PICK p2 \in Bytes : p2 = Then(p1, F[2])
    BY <1>0, ThenFacts
  <1>3. PICK p3 \in Bytes : p3 = Then(p2, F[3])
    BY <1>0, ThenFacts
  <1>4. PICK p4 \in Bytes : p4 = Then(p3, F[4])
    BY <1>0, ThenFacts
  <1>5. PICK p5 \in Bytes : p5 = Then(p4, F[5])
    BY <1>0, ThenFacts
  <1>6. PICK p6 \in Bytes : p6 = Then(p5, F[6])
    BY <1>0, ThenFacts
  <1>7. PICK p7 \in Bytes : p7 = Then(p6, F[7])
    BY <1>0, ThenFacts
  <1>8. PICK p8 \in Bytes : p8 = Then(p7, F[8])
    BY <1>0, ThenFacts
  <1>9. PICK p9 \in Bytes : p9 = Then(p8, F[9])
    BY <1>0, ThenFacts
  <1>10. PICK p10 \in Bytes : p10 = Then(p9, F[10])
    BY <1>0, ThenFacts
  <1>11. PICK p11 \in Bytes : p11 = Then(p10, F[11])
    BY <1>0, ThenFacts
  <1>12. PICK p12 \in Bytes : p12 = Then(p11, F[12])
    BY <1>0, ThenFacts
  <1>13. Row(F) = Then(p12, F[13])
    BY <1>1, <1>2, <1>3, <1>4, <1>5, <1>6, <1>7, <1>8, <1>9, <1>10, <1>11, <1>12 DEF Row
  <1>14. PICK t12 \in Bytes : t12 = Then(F[12], F[13]) /\ Row(F) = Then(p11, t12)
    <2>1. Row(F) = Then(Then(p11, F[12]), F[13])
      BY <1>12, <1>13
    <2>2. PICK f \in Bytes, g \in Bytes : f = F[12] /\ g = F[13]
      BY <1>0
    <2>3. Row(F) = Then(Then(p11, f), g)
      BY <2>1, <2>2
    <2>4. PICK t \in Bytes : t = Then(f, g) /\ Row(F) = Then(p11, t)
      BY <2>3, Shift
    <2> QED
      BY <2>2, <2>4
  <1>15. PICK t11 \in Bytes : t11 = Then(F[11], t12) /\ Row(F) = Then(p10, t11)
    <2>1. Row(F) = Then(Then(p10, F[11]), t12)
      BY <1>11, <1>14
    <2> QED
      BY <1>0, <2>1, Shift
  <1>16. PICK t10 \in Bytes : t10 = Then(F[10], t11) /\ Row(F) = Then(p9, t10)
    <2>1. Row(F) = Then(Then(p9, F[10]), t11)
      BY <1>10, <1>15
    <2> QED
      BY <1>0, <2>1, Shift
  <1>17. PICK t9 \in Bytes : t9 = Then(F[9], t10) /\ Row(F) = Then(p8, t9)
    <2>1. Row(F) = Then(Then(p8, F[9]), t10)
      BY <1>9, <1>16
    <2> QED
      BY <1>0, <2>1, Shift
  <1>18. PICK t8 \in Bytes : t8 = Then(F[8], t9) /\ Row(F) = Then(p7, t8)
    <2>1. Row(F) = Then(Then(p7, F[8]), t9)
      BY <1>8, <1>17
    <2> QED
      BY <1>0, <2>1, Shift
  <1>19. PICK t7 \in Bytes : t7 = Then(F[7], t8) /\ Row(F) = Then(p6, t7)
    <2>1. Row(F) = Then(Then(p6, F[7]), t8)
      BY <1>7, <1>18
    <2> QED
      BY <1>0, <2>1, Shift
  <1>20. PICK t6 \in Bytes : t6 = Then(F[6], t7) /\ Row(F) = Then(p5, t6)
    <2>1. Row(F) = Then(Then(p5, F[6]), t7)
      BY <1>6, <1>19
    <2> QED
      BY <1>0, <2>1, Shift
  <1>21. PICK t5 \in Bytes : t5 = Then(F[5], t6) /\ Row(F) = Then(p4, t5)
    <2>1. Row(F) = Then(Then(p4, F[5]), t6)
      BY <1>5, <1>20
    <2> QED
      BY <1>0, <2>1, Shift
  <1>22. PICK t4 \in Bytes : t4 = Then(F[4], t5) /\ Row(F) = Then(p3, t4)
    <2>1. Row(F) = Then(Then(p3, F[4]), t5)
      BY <1>4, <1>21
    <2> QED
      BY <1>0, <2>1, Shift
  <1>23. PICK t3 \in Bytes : t3 = Then(F[3], t4) /\ Row(F) = Then(p2, t3)
    <2>1. Row(F) = Then(Then(p2, F[3]), t4)
      BY <1>3, <1>22
    <2> QED
      BY <1>0, <2>1, Shift
  <1>24. PICK t2 \in Bytes : t2 = Then(F[2], t3) /\ Row(F) = Then(p1, t2)
    <2>1. Row(F) = Then(Then(p1, F[2]), t3)
      BY <1>2, <1>23
    <2> QED
      BY <1>0, <2>1, Shift
  <1> QED
    BY <1>1, <1>14, <1>15, <1>16, <1>17, <1>18, <1>19, <1>20, <1>21, <1>22, <1>23, <1>24

\* Two fields that whatever follows them does not make equal.
Apart(f, g) == \A x, y \in Bytes : Then(f, x) = Then(g, y) => f = g /\ x = y

LEMMA RowsApart ==
    ASSUME NEW F, NEW G, IsRow(F), IsRow(G), Row(F) = Row(G),
           \A k \in 1..11 : Apart(F[k], G[k]),
           F[11] = G[11] => Apart(F[12], G[12])
    PROVE  \A k \in 1..13 : F[k] = G[k]
  <1>1. PICK t2, t3, t4, t5, t6, t7, t8, t9, t10, t11, t12 \in Bytes :
           /\ Row(F) = Then(F[1], t2)
           /\ t2 = Then(F[2], t3) /\ t3 = Then(F[3], t4)
           /\ t4 = Then(F[4], t5) /\ t5 = Then(F[5], t6)
           /\ t6 = Then(F[6], t7) /\ t7 = Then(F[7], t8)
           /\ t8 = Then(F[8], t9) /\ t9 = Then(F[9], t10)
           /\ t10 = Then(F[10], t11) /\ t11 = Then(F[11], t12)
           /\ t12 = Then(F[12], F[13])
    BY RowFromLeft
  <1>2. PICK u2, u3, u4, u5, u6, u7, u8, u9, u10, u11, u12 \in Bytes :
           /\ Row(G) = Then(G[1], u2)
           /\ u2 = Then(G[2], u3) /\ u3 = Then(G[3], u4)
           /\ u4 = Then(G[4], u5) /\ u5 = Then(G[5], u6)
           /\ u6 = Then(G[6], u7) /\ u7 = Then(G[7], u8)
           /\ u8 = Then(G[8], u9) /\ u9 = Then(G[9], u10)
           /\ u10 = Then(G[10], u11) /\ u11 = Then(G[11], u12)
           /\ u12 = Then(G[12], G[13])
    BY RowFromLeft
  <1>3. F[1] = G[1] /\ t2 = u2
    <2>1. Then(F[1], t2) = Row(F) /\ Then(G[1], u2) = Row(G)
      BY <1>1, <1>2
    <2>2. Apart(F[1], G[1])
      OBVIOUS
    <2> QED
      BY <2>1, <2>2 DEF Apart
  <1>4. F[2] = G[2] /\ t3 = u3
    <2>1. Apart(F[2], G[2]) /\ Then(F[2], t3) = Then(G[2], u3)
      BY <1>1, <1>2, <1>3
    <2> QED
      BY <2>1 DEF Apart
  <1>5. F[3] = G[3] /\ t4 = u4
    <2>1. Apart(F[3], G[3]) /\ Then(F[3], t4) = Then(G[3], u4)
      BY <1>1, <1>2, <1>4
    <2> QED
      BY <2>1 DEF Apart
  <1>6. F[4] = G[4] /\ t5 = u5
    <2>1. Apart(F[4], G[4]) /\ Then(F[4], t5) = Then(G[4], u5)
      BY <1>1, <1>2, <1>5
    <2> QED
      BY <2>1 DEF Apart
  <1>7. F[5] = G[5] /\ t6 = u6
    <2>1. Apart(F[5], G[5]) /\ Then(F[5], t6) = Then(G[5], u6)
      BY <1>1, <1>2, <1>6
    <2> QED
      BY <2>1 DEF Apart
  <1>8. F[6] = G[6] /\ t7 = u7
    <2>1. Apart(F[6], G[6]) /\ Then(F[6], t7) = Then(G[6], u7)
      BY <1>1, <1>2, <1>7
    <2> QED
      BY <2>1 DEF Apart
  <1>9. F[7] = G[7] /\ t8 = u8
    <2>1. Apart(F[7], G[7]) /\ Then(F[7], t8) = Then(G[7], u8)
      BY <1>1, <1>2, <1>8
    <2> QED
      BY <2>1 DEF Apart
  <1>10. F[8] = G[8] /\ t9 = u9
    <2>1. Apart(F[8], G[8]) /\ Then(F[8], t9) = Then(G[8], u9)
      BY <1>1, <1>2, <1>9
    <2> QED
      BY <2>1 DEF Apart
  <1>11. F[9] = G[9] /\ t10 = u10
    <2>1. Apart(F[9], G[9]) /\ Then(F[9], t10) = Then(G[9], u10)
      BY <1>1, <1>2, <1>10
    <2> QED
      BY <2>1 DEF Apart
  <1>12. F[10] = G[10] /\ t11 = u11
    <2>1. Apart(F[10], G[10]) /\ Then(F[10], t11) = Then(G[10], u11)
      BY <1>1, <1>2, <1>11
    <2> QED
      BY <2>1 DEF Apart
  <1>13. F[11] = G[11] /\ t12 = u12
    <2>1. Apart(F[11], G[11]) /\ Then(F[11], t12) = Then(G[11], u12)
      BY <1>1, <1>2, <1>12
    <2> QED
      BY <2>1 DEF Apart
  <1>14. F[12] = G[12] /\ F[13] = G[13]
    <2>1. Apart(F[12], G[12]) /\ Then(F[12], F[13]) = Then(G[12], G[13])
      BY <1>1, <1>2, <1>13
    <2>2. F[13] \in Bytes /\ G[13] \in Bytes
      BY DEF IsRow
    <2> QED
      BY <2>1, <2>2 DEF Apart
  <1> QED
    BY <1>3, <1>4, <1>5, <1>6, <1>7, <1>8, <1>9, <1>10, <1>11, <1>12, <1>13, <1>14

-----------------------------------------------------------------------------
(* The fields of the messages *)

LEMMA FixedApart ==
    ASSUME NEW f \in Bytes, NEW g \in Bytes, Len(f) = Len(g)
    PROVE  Apart(f, g)
  BY Split DEF Apart, Then

LEMMA U8Apart ==
    ASSUME NEW m \in Nat, NEW n \in Nat
    PROVE  /\ EncodeU8(m) \in Bytes /\ Len(EncodeU8(m)) = 1
           /\ Apart(EncodeU8(m), EncodeU8(n))
           /\ EncodeU8(m) = EncodeU8(n) => m = n
  <1>1. /\ EncodeU8(m) \in Bytes /\ EncodeU8(n) \in Bytes
        /\ Len(EncodeU8(m)) = 1 /\ Len(EncodeU8(n)) = 1
        /\ EncodeU8(m)[1] = m /\ EncodeU8(n)[1] = n
    BY DEF EncodeU8, Bytes
  <1> QED
    BY <1>1, FixedApart

LEMMA HexApart ==
    ASSUME NEW h \in Hex32, NEW k \in Hex32
    PROVE  /\ EncodeHex32(h) \in Bytes /\ Len(EncodeHex32(h)) = HashWidth
           /\ Apart(EncodeHex32(h), EncodeHex32(k))
           /\ EncodeHex32(h) = h /\ EncodeHex32(k) = k
  <1>1. Byte \subseteq Nat /\ HashWidth \in Nat
    BY BaseFacts DEF Byte
  <1>2. ASSUME NEW x \in Hex32 PROVE x \in Bytes /\ Len(x) = HashWidth
    <2>1. PICK n \in Nat : n = HashWidth
      BY <1>1
    <2>2. x \in [1..n -> Nat]
      BY <1>1, <2>1 DEF Hex32
    <2>3. x \in Seq(Nat)
      BY <2>2
    <2>4. DOMAIN x = 1..n
      BY <2>2
    <2>5. Len(x) = n
      BY <2>3, <2>4
    <2> QED
      BY <2>1, <2>3, <2>5 DEF Bytes
  <1> QED
    BY <1>2, FixedApart DEF EncodeHex32

LEMMA U64Apart ==
    ASSUME NEW m \in Uint64, NEW n \in Uint64
    PROVE  /\ EncodeU64(m) \in Bytes /\ Len(EncodeU64(m)) = Uint64Width
           /\ Apart(EncodeU64(m), EncodeU64(n))
           /\ EncodeU64(m) = EncodeU64(n) => m = n
  <1>1. \A x \in Uint64 : EncodeU64(x) \in Bytes /\ Len(EncodeU64(x)) = Uint64Width
    BY DigitsFacts, BaseFacts DEF Uint64, EncodeU64, Bytes
  <1>2. EncodeU64(m) = EncodeU64(n) => m = n
    BY DigitsFacts, BaseFacts DEF Uint64, EncodeU64
  <1> QED
    BY <1>1, <1>2, FixedApart

LEMMA U16Apart ==
    ASSUME NEW m \in Nat, NEW n \in Nat
    PROVE  /\ EncodeU16(m) \in Bytes /\ Len(EncodeU16(m)) = Uint16Width
           /\ Apart(EncodeU16(m), EncodeU16(n))
           /\ /\ m < Spans(Uint16Width)[Uint16Width]
              /\ n < Spans(Uint16Width)[Uint16Width]
              /\ EncodeU16(m) = EncodeU16(n)
              => m = n
  <1>1. \A x \in Nat : EncodeU16(x) \in Bytes /\ Len(EncodeU16(x)) = Uint16Width
    BY DigitsFacts, BaseFacts DEF EncodeU16, Bytes
  <1>2. /\ m < Spans(Uint16Width)[Uint16Width]
        /\ n < Spans(Uint16Width)[Uint16Width]
        /\ EncodeU16(m) = EncodeU16(n)
        => m = n
    BY DigitsFacts, BaseFacts DEF EncodeU16
  <1> QED
    BY <1>1, <1>2, FixedApart

\* A text says how long it is before it begins.
LEMMA TextApart ==
    ASSUME NEW t \in Text, NEW u \in Text
    PROVE  /\ EncodeUtf8WithU16Length(t) \in Bytes
           /\ Len(EncodeUtf8WithU16Length(t)) = Uint16Width + Len(t)
           /\ Apart(EncodeUtf8WithU16Length(t), EncodeUtf8WithU16Length(u))
           /\ EncodeUtf8WithU16Length(t) = EncodeUtf8WithU16Length(u) => t = u
           /\ EncodeBytes(t) = EncodeUtf8WithU16Length(t)
           /\ EncodeBytes(u) = EncodeUtf8WithU16Length(u)
  <1>1. ASSUME NEW x \in Text
        PROVE  /\ x \in Bytes /\ Len(x) \in Nat
               /\ Len(x) < Spans(Uint16Width)[Uint16Width]
    <2>1. x \in Seq(Byte) /\ Len(x) < Spans(Uint16Width)[Uint16Width]
      BY <1>1 DEF Text
    <2>2. Byte \subseteq Nat
      BY BaseFacts DEF Byte
    <2> QED
      BY <2>1, <2>2, SeqMonotonic, LenProperties DEF Bytes
  <1>2. PICK a, b : a = EncodeU16(Len(t)) /\ b = EncodeU16(Len(u))
    OBVIOUS
  <1>3. /\ a \in Bytes /\ b \in Bytes /\ Len(a) = Uint16Width
        /\ Apart(a, b) /\ (a = b => Len(t) = Len(u))
    BY <1>1, <1>2, U16Apart
  <1>4. /\ EncodeUtf8WithU16Length(t) = Then(a, t)
        /\ EncodeUtf8WithU16Length(u) = Then(b, u)
    BY <1>2 DEF EncodeUtf8WithU16Length, Then
  <1>5. t \in Bytes /\ u \in Bytes
    BY <1>1
  <1>6. ASSUME NEW x \in Bytes, NEW y \in Bytes,
               Then(Then(a, t), x) = Then(Then(b, u), y)
        PROVE  t = u /\ a = b /\ x = y
    <2>1. Then(a, Then(t, x)) = Then(b, Then(u, y))
      BY <1>3, <1>5, <1>6, ThenFacts
    <2>2. PICK v \in Bytes, w \in Bytes : v = Then(t, x) /\ w = Then(u, y)
      BY <1>5, ThenFacts
    <2>3. a = b /\ v = w
      BY <1>3, <2>1, <2>2 DEF Apart
    <2>4. Apart(t, u)
      BY <1>3, <1>5, <2>3, FixedApart
    <2> QED
      BY <2>2, <2>3, <2>4 DEF Apart
  <1>7. ASSUME Then(a, t) = Then(b, u) PROVE t = u
    BY <1>3, <1>5, <1>7 DEF Apart
  <1>8. Apart(Then(a, t), Then(b, u))
    BY <1>6 DEF Apart
  <1>9. Then(a, t) \in Bytes /\ Len(Then(a, t)) = Len(a) + Len(t)
    BY <1>3, <1>5, ThenFacts
  <1>10. /\ EncodeBytes(t) = EncodeUtf8WithU16Length(t)
         /\ EncodeBytes(u) = EncodeUtf8WithU16Length(u)
    BY DEF EncodeBytes, EncodeUtf8WithU16Length
  <1> QED
    BY <1>3, <1>4, <1>7, <1>8, <1>9, <1>10

LEMMA OptionalApart ==
    ASSUME NEW h \in Hex32 \cup {NULL}, NEW k \in Hex32 \cup {NULL}
    PROVE  /\ Optional(h) \in Bytes /\ Len(Optional(h)) \in Nat
           /\ (h = NULL <=> k = NULL) =>
                 /\ Apart(Optional(h), Optional(k))
                 /\ Optional(h) = Optional(k) => h = k
  <1>1. << >> \in Bytes /\ Len(<< >>) = 0
    BY EmptySeq DEF Bytes
  <1>2. CASE h = NULL
    BY <1>1, <1>2, FixedApart DEF Optional
  <1>3. CASE h # NULL
    <2>1. ASSUME k # NULL
          PROVE  /\ Apart(Optional(h), Optional(k))
                 /\ Optional(h) = Optional(k) => h = k
      BY <1>3, <2>1, HexApart DEF Optional
    <2>2. Optional(h) \in Bytes /\ Len(Optional(h)) \in Nat
      BY <1>3, HexApart, BaseFacts DEF Optional
    <2> QED
      BY <1>3, <2>1, <2>2
  <1> QED
    BY <1>2, <1>3

-----------------------------------------------------------------------------
(* Canonical bytes stand for one message *)

IntentRow(i) ==
    <<EncodeU8(1), EncodeHex32(i.agentId), EncodeU8(SchemeCode(i.signatureScheme)),
      EncodeBytes(i.agentPubKey), EncodeU64(i.agentNonce), EncodeU64(i.amountMicros),
      EncodeHex32(i.merchantId), EncodeUtf8WithU16Length(i.requiredChainRef),
      EncodeU64(i.expiresAt), EncodeHex32(i.requestId), EncodeU8(OptionalBitmap(i)),
      Optional(i.serviceHash), Optional(i.memoHash)>>

AuthorizationRow(a) ==
    <<EncodeU8(1), EncodeHex32(a.intentId), EncodeHex32(a.authId),
      EncodeU64(a.authorizedAmountMicros), EncodeHex32(a.agentId),
      EncodeU64(a.agentNonce), EncodeHex32(a.merchantId),
      EncodeUtf8WithU16Length(a.chainRef), EncodeU64(a.issuedAt),
      EncodeU64(a.expiresAt), EncodeU64(a.sequencerEpochHint),
      EncodeU64(a.logSeqNo), EncodeUtf8WithU16Length(a.sequencerKeyId)>>

ReportRow(r) ==
    <<EncodeHex32(r.authId), EncodeUtf8WithU16Length(r.chainRef),
      EncodeUtf8WithU16Length(r.executionTxHash), EncodeU8(StatusCode(r.status)),
      EncodeHex32(r.reportId), EncodeU64(r.reportedAt),
      EncodeUtf8WithU16Length(r.relayerKeyId),
      << >>, << >>, << >>, << >>, << >>, << >> >>

ReclaimRow(q) ==
    <<EncodeHex32(q.authId), EncodeU8(CallerTypeCode(q.callerType)),
      EncodeU16(HashWidth), EncodeHex32(q.agentId), EncodeU64(q.requestedAt),
      << >>, << >>, << >>, << >>, << >>, << >>, << >>, << >> >>

LEMMA NoMore ==
    /\ << >> \in Bytes /\ Len(<< >>) = 0 /\ Apart(<< >>, << >>)
    /\ \A f \in Bytes : Then(f, << >>) = f
  <1>1. << >> \in Bytes /\ Len(<< >>) = 0
    BY EmptySeq DEF Bytes
  <1>2. Apart(<< >>, << >>)
    BY <1>1, FixedApart
  <1>3. \A f \in Bytes : Then(f, << >>) = f
    BY ConcatEmptySeq DEF Bytes, Then
  <1> QED
    BY <1>1, <1>2, <1>3

LEMMA IntentIsRow ==
    ASSUME NEW i \in IntentV1
    PROVE  IsRow(IntentRow(i)) /\ CanonicalIntentBytes(i) = Row(IntentRow(i))
  <1>1. /\ i.agentId \in Hex32 /\ i.agentPubKey \in Text /\ i.agentNonce \in Uint64
        /\ i.amountMicros \in Uint64 /\ i.merchantId \in Hex32
        /\ i.requiredChainRef \in Text /\ i.expiresAt \in Uint64
        /\ i.requestId \in Hex32 /\ i.serviceHash \in Hex32 \cup {NULL}
        /\ i.memoHash \in Hex32 \cup {NULL}
    BY DEF IntentV1
  <1>2. SchemeCode(i.signatureScheme) \in Nat /\ OptionalBitmap(i) \in Nat
    BY DEF SchemeCode, OptionalBitmap
  <1>3. IsRow(IntentRow(i))
    <2>1. EncodeU8(1) \in Bytes /\ EncodeU8(SchemeCode(i.signatureScheme)) \in Bytes
          /\ EncodeU8(OptionalBitmap(i)) \in Bytes
      BY <1>2, U8Apart
    <2>2. /\ EncodeHex32(i.agentId) \in Bytes /\ EncodeHex32(i.merchantId) \in Bytes
          /\ EncodeHex32(i.requestId) \in Bytes
      BY <1>1, HexApart
    <2>3. /\ EncodeU64(i.agentNonce) \in Bytes /\ EncodeU64(i.amountMicros) \in Bytes
          /\ EncodeU64(i.expiresAt) \in Bytes
      BY <1>1, U64Apart
    <2>4. /\ EncodeBytes(i.agentPubKey) \in Bytes
          /\ EncodeUtf8WithU16Length(i.requiredChainRef) \in Bytes
      BY <1>1, TextApart
    <2>5. Optional(i.serviceHash) \in Bytes /\ Optional(i.memoHash) \in Bytes
      BY <1>1, OptionalApart
    <2> QED
      BY <2>1, <2>2, <2>3, <2>4, <2>5 DEF IsRow, IntentRow
  <1>4. CanonicalIntentBytes(i) = Row(IntentRow(i))
    BY DEF CanonicalIntentBytes, Row, Then, IntentRow
  <1> QED
    BY <1>3, <1>4

LEMMA IntentBytesTell ==
    ASSUME NEW i \in IntentV1, NEW j \in IntentV1,
           CanonicalIntentBytes(i) = CanonicalIntentBytes(j)
    PROVE  i = j
  <1>1. /\ i.agentId \in Hex32 /\ j.agentId \in Hex32
        /\ i.agentPubKey \in Text /\ j.agentPubKey \in Text
        /\ i.agentNonce \in Uint64 /\ j.agentNonce \in Uint64
        /\ i.amountMicros \in Uint64 /\ j.amountMicros \in Uint64
        /\ i.merchantId \in Hex32 /\ j.merchantId \in Hex32
        /\ i.requiredChainRef \in Text /\ j.requiredChainRef \in Text
        /\ i.expiresAt \in Uint64 /\ j.expiresAt \in Uint64
        /\ i.requestId \in Hex32 /\ j.requestId \in Hex32
        /\ i.serviceHash \in Hex32 \cup {NULL} /\ j.serviceHash \in Hex32 \cup {NULL}
        /\ i.memoHash \in Hex32 \cup {NULL} /\ j.memoHash \in Hex32 \cup {NULL}
        /\ i.signatureScheme \in SignatureScheme /\ j.signatureScheme \in SignatureScheme
    BY DEF IntentV1
  <1>2. /\ SchemeCode(i.signatureScheme) \in Nat /\ SchemeCode(j.signatureScheme) \in Nat
        /\ OptionalBitmap(i) \in Nat /\ OptionalBitmap(j) \in Nat
    BY DEF SchemeCode, OptionalBitmap
  <1>3. PICK F, G : F = IntentRow(i) /\ G = IntentRow(j)
    OBVIOUS
  <1>4. IsRow(F) /\ IsRow(G) /\ Row(F) = Row(G)
    BY <1>3, IntentIsRow
  <1>5. /\ F[1] = EncodeU8(1) /\ G[1] = EncodeU8(1)
        /\ F[2] = EncodeHex32(i.agentId) /\ G[2] = EncodeHex32(j.agentId)
        /\ F[3] = EncodeU8(SchemeCode(i.signatureScheme))
        /\ G[3] = EncodeU8(SchemeCode(j.signatureScheme))
        /\ F[4] = EncodeBytes(i.agentPubKey) /\ G[4] = EncodeBytes(j.agentPubKey)
        /\ F[5] = EncodeU64(i.agentNonce) /\ G[5] = EncodeU64(j.agentNonce)
        /\ F[6] = EncodeU64(i.amountMicros) /\ G[6] = EncodeU64(j.amountMicros)
        /\ F[7] = EncodeHex32(i.merchantId) /\ G[7] = EncodeHex32(j.merchantId)
        /\ F[8] = EncodeUtf8WithU16Length(i.requiredChainRef)
        /\ G[8] = EncodeUtf8WithU16Length(j.requiredChainRef)
        /\ F[9] = EncodeU64(i.expiresAt) /\ G[9] = EncodeU64(j.expiresAt)
        /\ F[10] = EncodeHex32(i.requestId) /\ G[10] = EncodeHex32(j.requestId)
        /\ F[11] = EncodeU8(OptionalBitmap(i)) /\ G[11] = EncodeU8(OptionalBitmap(j))
        /\ F[12] = Optional(i.serviceHash) /\ G[12] = Optional(j.serviceHash)
        /\ F[13] = Optional(i.memoHash) /\ G[13] = Optional(j.memoHash)
    BY <1>3 DEF IntentRow
  <1>6. /\ Apart(F[1], G[1]) /\ Apart(F[3], G[3]) /\ Apart(F[11], G[11])
        /\ F[3] = G[3] => SchemeCode(i.signatureScheme) = SchemeCode(j.signatureScheme)
        /\ F[11] = G[11] => OptionalBitmap(i) = OptionalBitmap(j)
    BY <1>2, <1>5, U8Apart
  <1>7. /\ Apart(F[2], G[2]) /\ Apart(F[7], G[7]) /\ Apart(F[10], G[10])
        /\ F[2] = G[2] => i.agentId = j.agentId
        /\ F[7] = G[7] => i.merchantId = j.merchantId
        /\ F[10] = G[10] => i.requestId = j.requestId
    BY <1>1, <1>5, HexApart
  <1>8. /\ Apart(F[5], G[5]) /\ Apart(F[6], G[6]) /\ Apart(F[9], G[9])
        /\ F[5] = G[5] => i.agentNonce = j.agentNonce
        /\ F[6] = G[6] => i.amountMicros = j.amountMicros
        /\ F[9] = G[9] => i.expiresAt = j.expiresAt
    BY <1>1, <1>5, U64Apart
  <1>9. /\ Apart(F[4], G[4]) /\ Apart(F[8], G[8])
        /\ F[4] = G[4] => i.agentPubKey = j.agentPubKey
        /\ F[8] = G[8] => i.requiredChainRef = j.requiredChainRef
    <2>1. Apart(F[4], G[4]) /\ (F[4] = G[4] => i.agentPubKey = j.agentPubKey)
      <3>1. PICK t \in Text, u \in Text : t = i.agentPubKey /\ u = j.agentPubKey
        BY <1>1
      <3>2. F[4] = EncodeUtf8WithU16Length(t) /\ G[4] = EncodeUtf8WithU16Length(u)
        BY <1>5, <3>1, TextApart
      <3> QED
        BY <3>1, <3>2, TextApart
    <2>2. Apart(F[8], G[8]) /\ (F[8] = G[8] => i.requiredChainRef = j.requiredChainRef)
      <3>1. PICK t \in Text, u \in Text :
               t = i.requiredChainRef /\ u = j.requiredChainRef
        BY <1>1
      <3>2. F[8] = EncodeUtf8WithU16Length(t) /\ G[8] = EncodeUtf8WithU16Length(u)
        BY <1>5, <3>1
      <3> QED
        BY <3>1, <3>2, TextApart
    <2> QED
      BY <2>1, <2>2
  <1>10. F[11] = G[11] => /\ (i.serviceHash = NULL <=> j.serviceHash = NULL)
                          /\ (i.memoHash = NULL <=> j.memoHash = NULL)
    BY <1>6 DEF OptionalBitmap
  <1>11. /\ F[11] = G[11] => Apart(F[12], G[12])
         /\ F[11] = G[11] /\ F[12] = G[12] => i.serviceHash = j.serviceHash
         /\ F[11] = G[11] /\ F[13] = G[13] => i.memoHash = j.memoHash
    <2>1. ASSUME F[11] = G[11]
          PROVE  /\ Apart(F[12], G[12])
                 /\ F[12] = G[12] => i.serviceHash = j.serviceHash
      <3>1. PICK h, k \in Hex32 \cup {NULL} : h = i.serviceHash /\ k = j.serviceHash
        BY <1>1
      <3>2. h = NULL <=> k = NULL
        BY <1>10, <2>1, <3>1
      <3>3. Apart(Optional(h), Optional(k)) /\ (Optional(h) = Optional(k) => h = k)
        BY <3>2, OptionalApart
      <3> QED
        BY <1>5, <3>1, <3>3
    <2>2. ASSUME F[11] = G[11], F[13] = G[13] PROVE i.memoHash = j.memoHash
      <3>1. PICK h, k \in Hex32 \cup {NULL} : h = i.memoHash /\ k = j.memoHash
        BY <1>1
      <3>2. h = NULL <=> k = NULL
        BY <1>10, <2>2, <3>1
      <3>3. Optional(h) = Optional(k) => h = k
        BY <3>2, OptionalApart
      <3> QED
        BY <1>5, <2>2, <3>1, <3>3
    <2> QED
      BY <2>1, <2>2
  <1>12. \A k \in 1..11 : Apart(F[k], G[k])
    BY <1>6, <1>7, <1>8, <1>9
  <1>13. \A k \in 1..13 : F[k] = G[k]
    BY <1>4, <1>11, <1>12, RowsApart
  <1>14. SchemeCode(i.signatureScheme) = SchemeCode(j.signatureScheme)
    BY <1>6, <1>13
  <1>15. i.signatureScheme = j.signatureScheme
    BY <1>1, <1>14 DEF SchemeCode, SignatureScheme
  <1>16. /\ i.agentId = j.agentId /\ i.agentPubKey = j.agentPubKey
         /\ i.agentNonce = j.agentNonce /\ i.amountMicros = j.amountMicros
         /\ i.merchantId = j.merchantId /\ i.requiredChainRef = j.requiredChainRef
         /\ i.expiresAt = j.expiresAt /\ i.requestId = j.requestId
         /\ i.serviceHash = j.serviceHash /\ i.memoHash = j.memoHash
    BY <1>7, <1>8, <1>9, <1>11, <1>13
  <1> QED
    BY <1>15, <1>16 DEF IntentV1

LEMMA AuthorizationIsRow ==
    ASSUME NEW a \in AuthorizationV1
    PROVE  /\ IsRow(AuthorizationRow(a))
           /\ CanonicalAuthorizationBytes(a) = Row(AuthorizationRow(a))
  <1>1. /\ a.intentId \in Hex32 /\ a.authId \in Hex32
        /\ a.authorizedAmountMicros \in Uint64 /\ a.agentId \in Hex32
        /\ a.agentNonce \in Uint64 /\ a.merchantId \in Hex32 /\ a.chainRef \in Text
        /\ a.issuedAt \in Uint64 /\ a.expiresAt \in Uint64
        /\ a.sequencerEpochHint \in Uint64 /\ a.logSeqNo \in Uint64
        /\ a.sequencerKeyId \in Text
    BY DEF AuthorizationV1
  <1>2. EncodeU8(1) \in Bytes
    BY U8Apart
  <1>3. /\ EncodeHex32(a.intentId) \in Bytes /\ EncodeHex32(a.authId) \in Bytes
        /\ EncodeHex32(a.agentId) \in Bytes /\ EncodeHex32(a.merchantId) \in Bytes
    BY <1>1, HexApart
  <1>4. /\ EncodeU64(a.authorizedAmountMicros) \in Bytes
        /\ EncodeU64(a.agentNonce) \in Bytes /\ EncodeU64(a.issuedAt) \in Bytes
        /\ EncodeU64(a.expiresAt) \in Bytes
        /\ EncodeU64(a.sequencerEpochHint) \in Bytes
        /\ EncodeU64(a.logSeqNo) \in Bytes
    BY <1>1, U64Apart
  <1>5. /\ EncodeUtf8WithU16Length(a.chainRef) \in Bytes
        /\ EncodeUtf8WithU16Length(a.sequencerKeyId) \in Bytes
    BY <1>1, TextApart
  <1>6. IsRow(AuthorizationRow(a))
    BY <1>2, <1>3, <1>4, <1>5 DEF IsRow, AuthorizationRow
  <1>7. CanonicalAuthorizationBytes(a) = Row(AuthorizationRow(a))
    BY DEF CanonicalAuthorizationBytes, Row, Then, AuthorizationRow
  <1> QED
    BY <1>6, <1>7

LEMMA AuthorizationBytesTell ==
    ASSUME NEW a \in AuthorizationV1, NEW b \in AuthorizationV1,
           CanonicalAuthorizationBytes(a) = CanonicalAuthorizationBytes(b)
    PROVE  a = b
  <1>1. /\ a.intentId \in Hex32 /\ b.intentId \in Hex32 /\ a.authId \in Hex32
        /\ b.authId \in Hex32 /\ a.authorizedAmountMicros \in Uint64
        /\ b.authorizedAmountMicros \in Uint64 /\ a.agentId \in Hex32
        /\ b.agentId \in Hex32 /\ a.agentNonce \in Uint64
        /\ b.agentNonce \in Uint64 /\ a.merchantId \in Hex32
        /\ b.merchantId \in Hex32 /\ a.chainRef \in Text /\ b.chainRef \in Text
        /\ a.issuedAt \in Uint64 /\ b.issuedAt \in Uint64 /\ a.expiresAt \in Uint64
        /\ b.expiresAt \in Uint64 /\ a.sequencerEpochHint \in Uint64
        /\ b.sequencerEpochHint \in Uint64 /\ a.logSeqNo \in Uint64
        /\ b.logSeqNo \in Uint64 /\ a.sequencerKeyId \in Text
        /\ b.sequencerKeyId \in Text
    BY DEF AuthorizationV1
  <1>2. PICK F, G : F = AuthorizationRow(a) /\ G = AuthorizationRow(b)
    OBVIOUS
  <1>3. IsRow(F) /\ IsRow(G) /\ Row(F) = Row(G)
    BY <1>2, AuthorizationIsRow
  <1>4. /\ F[1] = EncodeU8(1) /\ G[1] = EncodeU8(1)
        /\ F[2] = EncodeHex32(a.intentId) /\ G[2] = EncodeHex32(b.intentId)
        /\ F[3] = EncodeHex32(a.authId) /\ G[3] = EncodeHex32(b.authId)
        /\ F[4] = EncodeU64(a.authorizedAmountMicros)
        /\ G[4] = EncodeU64(b.authorizedAmountMicros)
        /\ F[5] = EncodeHex32(a.agentId) /\ G[5] = EncodeHex32(b.agentId)
        /\ F[6] = EncodeU64(a.agentNonce) /\ G[6] = EncodeU64(b.agentNonce)
        /\ F[7] = EncodeHex32(a.merchantId) /\ G[7] = EncodeHex32(b.merchantId)
        /\ F[8] = EncodeUtf8WithU16Length(a.chainRef)
        /\ G[8] = EncodeUtf8WithU16Length(b.chainRef)
        /\ F[9] = EncodeU64(a.issuedAt) /\ G[9] = EncodeU64(b.issuedAt)
        /\ F[10] = EncodeU64(a.expiresAt) /\ G[10] = EncodeU64(b.expiresAt)
        /\ F[11] = EncodeU64(a.sequencerEpochHint)
        /\ G[11] = EncodeU64(b.sequencerEpochHint) /\ F[12] = EncodeU64(a.logSeqNo)
        /\ G[12] = EncodeU64(b.logSeqNo)
        /\ F[13] = EncodeUtf8WithU16Length(a.sequencerKeyId)
        /\ G[13] = EncodeUtf8WithU16Length(b.sequencerKeyId)
    BY <1>2 DEF AuthorizationRow
  <1>5. Apart(F[1], G[1])
    BY <1>4, U8Apart
  <1>6. /\ Apart(F[2], G[2]) /\ Apart(F[3], G[3]) /\ Apart(F[5], G[5])
        /\ Apart(F[7], G[7])
        /\ F[2] = G[2] => a.intentId = b.intentId
        /\ F[3] = G[3] => a.authId = b.authId
        /\ F[5] = G[5] => a.agentId = b.agentId
        /\ F[7] = G[7] => a.merchantId = b.merchantId
    BY <1>1, <1>4, HexApart
  <1>7. /\ Apart(F[4], G[4]) /\ Apart(F[6], G[6]) /\ Apart(F[9], G[9])
        /\ Apart(F[10], G[10]) /\ Apart(F[11], G[11]) /\ Apart(F[12], G[12])
        /\ F[4] = G[4] => a.authorizedAmountMicros = b.authorizedAmountMicros
        /\ F[6] = G[6] => a.agentNonce = b.agentNonce
        /\ F[9] = G[9] => a.issuedAt = b.issuedAt
        /\ F[10] = G[10] => a.expiresAt = b.expiresAt
        /\ F[11] = G[11] => a.sequencerEpochHint = b.sequencerEpochHint
        /\ F[12] = G[12] => a.logSeqNo = b.logSeqNo
    BY <1>1, <1>4, U64Apart
  <1>8. /\ Apart(F[8], G[8])
        /\ F[8] = G[8] => a.chainRef = b.chainRef
    <2>1. PICK t \in Text, u \in Text : t = a.chainRef /\ u = b.chainRef
      BY <1>1
    <2>2. F[8] = EncodeUtf8WithU16Length(t) /\ G[8] = EncodeUtf8WithU16Length(u)
      BY <1>4, <2>1
    <2> QED
      BY <2>1, <2>2, TextApart
  <1>9. /\ Apart(F[13], G[13])
        /\ F[13] = G[13] => a.sequencerKeyId = b.sequencerKeyId
    <2>1. PICK t \in Text, u \in Text : t = a.sequencerKeyId /\ u = b.sequencerKeyId
      BY <1>1
    <2>2. F[13] = EncodeUtf8WithU16Length(t) /\ G[13] = EncodeUtf8WithU16Length(u)
      BY <1>4, <2>1
    <2> QED
      BY <2>1, <2>2, TextApart
  <1>10. \A k \in 1..12 : Apart(F[k], G[k])
    BY <1>5, <1>6, <1>7, <1>8, <1>9
  <1>11. \A k \in 1..13 : F[k] = G[k]
    BY <1>3, <1>10, RowsApart
  <1>12. /\ a.intentId = b.intentId /\ a.authId = b.authId
         /\ a.authorizedAmountMicros = b.authorizedAmountMicros
         /\ a.agentId = b.agentId /\ a.agentNonce = b.agentNonce
         /\ a.merchantId = b.merchantId /\ a.chainRef = b.chainRef
         /\ a.issuedAt = b.issuedAt /\ a.expiresAt = b.expiresAt
         /\ a.sequencerEpochHint = b.sequencerEpochHint /\ a.logSeqNo = b.logSeqNo
         /\ a.sequencerKeyId = b.sequencerKeyId
    BY <1>5, <1>6, <1>7, <1>8, <1>9, <1>11
  <1> QED
    BY <1>12 DEF AuthorizationV1

LEMMA ReportIsRow ==
    ASSUME NEW r \in ExecutionReportV1
    PROVE  IsRow(ReportRow(r)) /\ CanonicalExecutionReportBytes(r) = Row(ReportRow(r))
  <1>1. /\ r.authId \in Hex32 /\ r.chainRef \in Text /\ r.executionTxHash \in Text
        /\ r.reportId \in Hex32 /\ r.reportedAt \in Uint64
        /\ r.relayerKeyId \in Text
    BY DEF ExecutionReportV1
  <1>2. StatusCode(r.status) \in Nat
    BY DEF StatusCode
  <1>3. EncodeU8(StatusCode(r.status)) \in Bytes
    BY <1>2, U8Apart
  <1>4. /\ EncodeHex32(r.authId) \in Bytes /\ EncodeHex32(r.reportId) \in Bytes
    BY <1>1, HexApart
  <1>5. EncodeU64(r.reportedAt) \in Bytes
    BY <1>1, U64Apart
  <1>6. /\ EncodeUtf8WithU16Length(r.chainRef) \in Bytes
        /\ EncodeUtf8WithU16Length(r.executionTxHash) \in Bytes
        /\ EncodeUtf8WithU16Length(r.relayerKeyId) \in Bytes
    BY <1>1, TextApart
  <1>7. IsRow(ReportRow(r))
    BY <1>3, <1>4, <1>5, <1>6, NoMore DEF IsRow, ReportRow
  <1>8. CanonicalExecutionReportBytes(r) = Row(ReportRow(r))
    <2>1. PICK p : p = CanonicalExecutionReportBytes(r)
      OBVIOUS
    <2>2. p \in Bytes
      BY <1>3, <1>4, <1>5, <1>6, NoMore, <2>1, Concat DEF CanonicalExecutionReportBytes
    <2>3. Row(ReportRow(r)) = Then(Then(Then(Then(Then(Then(p, << >>), << >>),
                                 << >>), << >>), << >>), << >>)
      BY <2>1 DEF CanonicalExecutionReportBytes, Row, Then, ReportRow
    <2>4. Then(p, << >>) = p
      BY <2>2, NoMore
    <2> QED
      BY <2>1, <2>3, <2>4
  <1> QED
    BY <1>7, <1>8

LEMMA ReportBytesTell ==
    ASSUME NEW r \in ExecutionReportV1, NEW s \in ExecutionReportV1,
           CanonicalExecutionReportBytes(r) = CanonicalExecutionReportBytes(s)
    PROVE  r = s
  <1>1. /\ r.authId \in Hex32 /\ s.authId \in Hex32 /\ r.chainRef \in Text
        /\ s.chainRef \in Text /\ r.executionTxHash \in Text
        /\ s.executionTxHash \in Text /\ r.reportId \in Hex32
        /\ s.reportId \in Hex32 /\ r.reportedAt \in Uint64
        /\ s.reportedAt \in Uint64 /\ r.relayerKeyId \in Text
        /\ s.relayerKeyId \in Text /\ r.status \in {"SUCCESS", "FAILED"}
        /\ s.status \in {"SUCCESS", "FAILED"}
    BY DEF ExecutionReportV1
  <1>2. PICK F, G : F = ReportRow(r) /\ G = ReportRow(s)
    OBVIOUS
  <1>3. IsRow(F) /\ IsRow(G) /\ Row(F) = Row(G)
    BY <1>2, ReportIsRow
  <1>4. /\ F[1] = EncodeHex32(r.authId) /\ G[1] = EncodeHex32(s.authId)
        /\ F[2] = EncodeUtf8WithU16Length(r.chainRef)
        /\ G[2] = EncodeUtf8WithU16Length(s.chainRef)
        /\ F[3] = EncodeUtf8WithU16Length(r.executionTxHash)
        /\ G[3] = EncodeUtf8WithU16Length(s.executionTxHash)
        /\ F[4] = EncodeU8(StatusCode(r.status))
        /\ G[4] = EncodeU8(StatusCode(s.status)) /\ F[5] = EncodeHex32(r.reportId)
        /\ G[5] = EncodeHex32(s.reportId) /\ F[6] = EncodeU64(r.reportedAt)
        /\ G[6] = EncodeU64(s.reportedAt)
        /\ F[7] = EncodeUtf8WithU16Length(r.relayerKeyId)
        /\ G[7] = EncodeUtf8WithU16Length(s.relayerKeyId) /\ F[8] = << >>
        /\ G[8] = << >> /\ F[9] = << >> /\ G[9] = << >> /\ F[10] = << >>
        /\ G[10] = << >> /\ F[11] = << >> /\ G[11] = << >> /\ F[12] = << >>
        /\ G[12] = << >> /\ F[13] = << >> /\ G[13] = << >>
    BY <1>2 DEF ReportRow
  <1>5. /\ StatusCode(r.status) \in Nat /\ StatusCode(s.status) \in Nat
    BY DEF StatusCode
  <1>6. /\ Apart(F[4], G[4])
        /\ F[4] = G[4] => StatusCode(r.status) = StatusCode(s.status)
    BY <1>5, <1>4, U8Apart
  <1>7. F[4] = G[4] => r.status = s.status
    BY <1>1, <1>6 DEF StatusCode
  <1>8. /\ Apart(F[1], G[1]) /\ Apart(F[5], G[5])
        /\ F[1] = G[1] => r.authId = s.authId
        /\ F[5] = G[5] => r.reportId = s.reportId
    BY <1>1, <1>4, HexApart
  <1>9. /\ Apart(F[6], G[6])
        /\ F[6] = G[6] => r.reportedAt = s.reportedAt
    BY <1>1, <1>4, U64Apart
  <1>10. /\ Apart(F[2], G[2])
         /\ F[2] = G[2] => r.chainRef = s.chainRef
    <2>1. PICK t \in Text, u \in Text : t = r.chainRef /\ u = s.chainRef
      BY <1>1
    <2>2. F[2] = EncodeUtf8WithU16Length(t) /\ G[2] = EncodeUtf8WithU16Length(u)
      BY <1>4, <2>1
    <2> QED
      BY <2>1, <2>2, TextApart
  <1>11. /\ Apart(F[3], G[3])
         /\ F[3] = G[3] => r.executionTxHash = s.executionTxHash
    <2>1. PICK t \in Text, u \in Text : t = r.executionTxHash /\ u = s.executionTxHash
      BY <1>1
    <2>2. F[3] = EncodeUtf8WithU16Length(t) /\ G[3] = EncodeUtf8WithU16Length(u)
      BY <1>4, <2>1
    <2> QED
      BY <2>1, <2>2, TextApart
  <1>12. /\ Apart(F[7], G[7])
         /\ F[7] = G[7] => r.relayerKeyId = s.relayerKeyId
    <2>1. PICK t \in Text, u \in Text : t = r.relayerKeyId /\ u = s.relayerKeyId
      BY <1>1
    <2>2. F[7] = EncodeUtf8WithU16Length(t) /\ G[7] = EncodeUtf8WithU16Length(u)
      BY <1>4, <2>1
    <2> QED
      BY <2>1, <2>2, TextApart
  <1>13. \A k \in 8..13 : Apart(F[k], G[k])
    BY <1>4, NoMore
  <1>14. \A k \in 1..12 : Apart(F[k], G[k])
    BY <1>6, <1>7, <1>8, <1>9, <1>10, <1>11, <1>12, <1>13
  <1>15. \A k \in 1..13 : F[k] = G[k]
    BY <1>3, <1>14, RowsApart
  <1>16. /\ r.authId = s.authId /\ r.chainRef = s.chainRef
         /\ r.executionTxHash = s.executionTxHash /\ r.status = s.status
         /\ r.reportId = s.reportId /\ r.reportedAt = s.reportedAt
         /\ r.relayerKeyId = s.relayerKeyId
    BY <1>6, <1>7, <1>8, <1>9, <1>10, <1>11, <1>12, <1>13, <1>15
  <1> QED
    BY <1>16 DEF ExecutionReportV1

LEMMA ReclaimIsRow ==
    ASSUME NEW q \in ReclaimRequestV1, q.agentId # NULL
    PROVE  IsRow(ReclaimRow(q)) /\ CanonicalReclaimRequestBytes(q) = Row(ReclaimRow(q))
  <1>1. /\ q.authId \in Hex32 /\ q.agentId \in Hex32 /\ q.requestedAt \in Uint64
    BY DEF ReclaimRequestV1
  <1>2. CallerTypeCode(q.callerType) \in Nat
    BY DEF CallerTypeCode
  <1>3. EncodeU8(CallerTypeCode(q.callerType)) \in Bytes
    BY <1>2, U8Apart
  <1>4. /\ EncodeHex32(q.authId) \in Bytes /\ EncodeHex32(q.agentId) \in Bytes
    BY <1>1, HexApart
  <1>5. EncodeU64(q.requestedAt) \in Bytes
    BY <1>1, U64Apart
  <1>6. EncodeU16(HashWidth) \in Bytes
    BY BaseFacts, U16Apart
  <1>7. IsRow(ReclaimRow(q))
    BY <1>3, <1>4, <1>5, <1>6, NoMore DEF IsRow, ReclaimRow
  <1>8. CanonicalReclaimRequestBytes(q) = Row(ReclaimRow(q))
    <2>1. PICK F : F = ReclaimRow(q)
      OBVIOUS
    <2>2. IsRow(F)
      BY <1>7, <2>1
    <2>3. /\ F[1] = EncodeHex32(q.authId) /\ F[2] = EncodeU8(CallerTypeCode(q.callerType))
          /\ F[3] = EncodeU16(HashWidth) /\ F[4] = EncodeHex32(q.agentId)
          /\ F[5] = EncodeU64(q.requestedAt) /\ \A k \in 6..13 : F[k] = << >>
      BY <2>1 DEF ReclaimRow
    <2>4. /\ F[1] \in Bytes /\ F[2] \in Bytes /\ F[3] \in Bytes
          /\ F[4] \in Bytes /\ F[5] \in Bytes
      BY <2>2 DEF IsRow
    <2>5. PICK p : p = Then(Then(Then(Then(F[1], F[2]), F[3]), F[4]), F[5])
      OBVIOUS
    <2>6. PICK l \in Bytes : l = Then(F[1], F[2])
      BY <2>4, ThenFacts
    <2>7. Then(Then(l, F[3]), F[4]) = Then(l, Then(F[3], F[4]))
      <3>1. PICK f \in Bytes, g \in Bytes : f = F[3] /\ g = F[4]
        BY <2>4
      <3>2. Then(Then(l, f), g) = Then(l, Then(f, g))
        BY ThenFacts
      <3> QED
        BY <3>1, <3>2
    <2>8. CanonicalReclaimRequestBytes(q) = Then(Then(l, Then(F[3], F[4])), F[5])
      BY <2>3, <2>6 DEF CanonicalReclaimRequestBytes, Then
    <2>9. CanonicalReclaimRequestBytes(q) = p
      BY <2>5, <2>6, <2>7, <2>8
    <2>10. p \in Bytes
      <3>1. PICK m \in Bytes : m = Then(l, F[3])
        BY <2>4, ThenFacts
      <3>2. PICK n \in Bytes : n = Then(m, F[4])
        BY <2>4, ThenFacts
      <3>3. p = Then(n, F[5])
        BY <2>5, <2>6, <3>1, <3>2
      <3> QED
        BY <2>4, <3>3, ThenFacts
    <2>11. Then(p, << >>) = p
      BY <2>10, NoMore
    <2>12. Row(F) = Then(Then(Then(Then(Then(Then(Then(Then(p, << >>), << >>),
                       << >>), << >>), << >>), << >>), << >>), << >>)
      BY <2>3, <2>5 DEF Row
    <2> QED
      BY <2>1, <2>9, <2>11, <2>12
  <1> QED
    BY <1>7, <1>8

LEMMA ReclaimBytesTell ==
    ASSUME NEW q \in ReclaimRequestV1, NEW s \in ReclaimRequestV1,
           q.agentId # NULL, s.agentId # NULL,
           CanonicalReclaimRequestBytes(q) = CanonicalReclaimRequestBytes(s)
    PROVE  q = s
  <1>1. /\ q.authId \in Hex32 /\ s.authId \in Hex32 /\ q.agentId \in Hex32
        /\ s.agentId \in Hex32 /\ q.requestedAt \in Uint64
        /\ s.requestedAt \in Uint64 /\ q.callerType \in {"agent", "sequencer"}
        /\ s.callerType \in {"agent", "sequencer"}
    BY DEF ReclaimRequestV1
  <1>2. PICK F, G : F = ReclaimRow(q) /\ G = ReclaimRow(s)
    OBVIOUS
  <1>3. IsRow(F) /\ IsRow(G) /\ Row(F) = Row(G)
    BY <1>2, ReclaimIsRow
  <1>4. /\ F[1] = EncodeHex32(q.authId) /\ G[1] = EncodeHex32(s.authId)
        /\ F[2] = EncodeU8(CallerTypeCode(q.callerType))
        /\ G[2] = EncodeU8(CallerTypeCode(s.callerType))
        /\ F[3] = EncodeU16(HashWidth) /\ G[3] = EncodeU16(HashWidth)
        /\ F[4] = EncodeHex32(q.agentId) /\ G[4] = EncodeHex32(s.agentId)
        /\ F[5] = EncodeU64(q.requestedAt) /\ G[5] = EncodeU64(s.requestedAt)
        /\ F[6] = << >> /\ G[6] = << >> /\ F[7] = << >> /\ G[7] = << >>
        /\ F[8] = << >> /\ G[8] = << >> /\ F[9] = << >> /\ G[9] = << >>
        /\ F[10] = << >> /\ G[10] = << >> /\ F[11] = << >> /\ G[11] = << >>
        /\ F[12] = << >> /\ G[12] = << >> /\ F[13] = << >> /\ G[13] = << >>
    BY <1>2 DEF ReclaimRow
  <1>5. /\ CallerTypeCode(q.callerType) \in Nat
        /\ CallerTypeCode(s.callerType) \in Nat
    BY DEF CallerTypeCode
  <1>6. /\ Apart(F[2], G[2])
        /\ F[2] = G[2] => CallerTypeCode(q.callerType) = CallerTypeCode(s.callerType)
    BY <1>5, <1>4, U8Apart
  <1>7. F[2] = G[2] => q.callerType = s.callerType
    BY <1>1, <1>6 DEF CallerTypeCode
  <1>8. /\ Apart(F[1], G[1]) /\ Apart(F[4], G[4])
        /\ F[1] = G[1] => q.authId = s.authId
        /\ F[4] = G[4] => q.agentId = s.agentId
    BY <1>1, <1>4, HexApart
  <1>9. /\ Apart(F[5], G[5])
        /\ F[5] = G[5] => q.requestedAt = s.requestedAt
    BY <1>1, <1>4, U64Apart
  <1>10. Apart(F[3], G[3])
    BY <1>4, BaseFacts, U16Apart
  <1>11. \A k \in 6..13 : Apart(F[k], G[k])
    BY <1>4, NoMore
  <1>12. \A k \in 1..12 : Apart(F[k], G[k])
    BY <1>6, <1>7, <1>8, <1>9, <1>10, <1>11
  <1>13. \A k \in 1..13 : F[k] = G[k]
    BY <1>3, <1>12, RowsApart
  <1>14. /\ q.authId = s.authId /\ q.callerType = s.callerType
         /\ q.agentId = s.agentId /\ q.requestedAt = s.requestedAt
    BY <1>6, <1>7, <1>8, <1>9, <1>10, <1>11, <1>13
  <1> QED
    BY <1>14 DEF ReclaimRequestV1

-----------------------------------------------------------------------------
(* Marks: a byte that shows where a part ends *)

LEMMA One ==
    ASSUME NEW z \in Nat
    PROVE  <<z>> \in Bytes /\ Len(<<z>>) = 1 /\ <<z>>[1] = z
  BY DEF Bytes

LEMMA ThenOne ==
    ASSUME NEW f \in Bytes, NEW z \in Nat
    PROVE  /\ Then(f, <<z>>) \in Bytes /\ Len(Then(f, <<z>>)) = Len(f) + 1
           /\ Then(f, <<z>>)[Len(f) + 1] = z
           /\ \A k \in 1..Len(f) : Then(f, <<z>>)[k] = f[k]
  <1>1. PICK x \in Bytes : x = <<z>> /\ Len(x) = 1 /\ x[1] = z
    BY One
  <1>2. Len(f) \in Nat
    BY LenProperties DEF Bytes
  <1>3. PICK k \in Nat : k = Len(f) + 1
    BY <1>2
  <1>4. Then(f, x)[k] = x[k - Len(f)]
    <2>1. Len(f) < k /\ k <= Len(f) + Len(x) /\ k \in Nat \ {0}
      BY <1>1, <1>2, <1>3
    <2> QED
      BY <2>1, Place
  <1>5. k - Len(f) = 1
    BY <1>2, <1>3
  <1>6. ASSUME NEW j \in 1..Len(f) PROVE Then(f, x)[j] = f[j]
    <2>1. j \in Nat \ {0} /\ j <= Len(f)
      BY <1>2
    <2> QED
      BY <2>1, Place
  <1>7. Then(f, x) \in Bytes /\ Len(Then(f, x)) = Len(f) + Len(x)
    BY ThenFacts
  <1> QED
    BY <1>1, <1>3, <1>4, <1>5, <1>6, <1>7

\* The last mark: none follows it in x or y.
LEMMA LastMark ==
    ASSUME NEW F, F.f \in Bytes, F.x \in Bytes, NEW G, G.f \in Bytes, G.x \in Bytes,
           NEW z \in Nat,
           \A k \in 1..Len(F.x) : F.x[k] # z, \A k \in 1..Len(G.x) : G.x[k] # z,
           Then(Then(F.f, <<z>>), F.x) = Then(Then(G.f, <<z>>), G.x)
    PROVE  F.f = G.f /\ F.x = G.x
  <1>1. ASSUME NEW A, A.f \in Bytes, A.x \in Bytes, NEW B, B.f \in Bytes, B.x \in Bytes,
               \A k \in 1..Len(A.x) : A.x[k] # z,
               Then(Then(A.f, <<z>>), A.x) = Then(Then(B.f, <<z>>), B.x),
               Len(A.f) < Len(B.f)
        PROVE  FALSE
    <2>1. PICK f \in Bytes, x \in Bytes, g \in Bytes, y \in Bytes :
             f = A.f /\ x = A.x /\ g = B.f /\ y = B.x
      BY <1>1
    <2>2. PICK fz \in Bytes, gz \in Bytes :
             /\ fz = Then(f, <<z>>) /\ gz = Then(g, <<z>>)
             /\ Len(fz) = Len(f) + 1 /\ Len(gz) = Len(g) + 1 /\ gz[Len(g) + 1] = z
      BY ThenOne
    <2>3. Then(fz, x) = Then(gz, y) /\ Len(f) < Len(g)
      BY <1>1, <2>1, <2>2
    <2>4. /\ Len(f) \in Nat /\ Len(g) \in Nat /\ Len(x) \in Nat /\ Len(y) \in Nat
      BY LenProperties DEF Bytes
    <2>5. Len(fz) + Len(x) = Len(gz) + Len(y)
      <3>1. Len(Then(fz, x)) = Len(fz) + Len(x) /\ Len(Then(gz, y)) = Len(gz) + Len(y)
        BY ThenFacts
      <3> QED
        BY <2>3, <3>1
    <2>6. PICK k \in Nat \ {0} : k = Len(gz)
      BY <2>2, <2>4
    <2>7. Then(gz, y)[k] = z
      <3>1. k <= Len(gz)
        BY <2>6
      <3>2. Then(gz, y)[k] = gz[k]
        BY <3>1, Place
      <3> QED
        BY <2>2, <2>6, <3>2
    <2>8. Len(fz) < k /\ k <= Len(fz) + Len(x)
      BY <2>2, <2>3, <2>4, <2>5, <2>6
    <2>9. Then(fz, x)[k] = x[k - Len(fz)]
      BY <2>8, Place
    <2>10. k - Len(fz) \in 1..Len(x)
      BY <2>2, <2>4, <2>6, <2>8
    <2>11. x[k - Len(fz)] # z
      BY <1>1, <2>1, <2>10
    <2> QED
      BY <2>3, <2>7, <2>9, <2>11
  <1>2. ~(Len(F.f) < Len(G.f)) /\ ~(Len(G.f) < Len(F.f))
    BY <1>1
  <1>3. PICK f \in Bytes, x \in Bytes, g \in Bytes, y \in Bytes :
           f = F.f /\ x = F.x /\ g = G.f /\ y = G.x
    OBVIOUS
  <1>4. Len(f) \in Nat /\ Len(g) \in Nat
    BY LenProperties DEF Bytes
  <1>5. Len(f) = Len(g)
    BY <1>2, <1>3, <1>4
  <1>6. PICK fz \in Bytes, gz \in Bytes :
           /\ fz = Then(f, <<z>>) /\ gz = Then(g, <<z>>)
           /\ Len(fz) = Len(f) + 1 /\ Len(gz) = Len(g) + 1
    BY ThenOne
  <1>7. Then(fz, x) = Then(gz, y)
    BY <1>3, <1>6
  <1>8. fz = gz /\ x = y
    <2>1. Len(fz) = Len(gz) /\ fz \o x = gz \o y
      BY <1>5, <1>6, <1>7 DEF Then
    <2> QED
      BY <2>1, Split
  <1>9. f = g
    <2>1. PICK o \in Bytes : o = <<z>>
      BY One
    <2>2. f \o o = g \o o
      BY <1>6, <1>8, <2>1 DEF Then
    <2> QED
      BY <1>5, <2>2, Split
  <1> QED
    BY <1>3, <1>8, <1>9

\* The first mark, with which x and y begin.
LEMMA FirstMark ==
    ASSUME NEW F, F.f \in Bytes, F.x \in Bytes, NEW G, G.f \in Bytes, G.x \in Bytes,
           NEW z \in Nat,
           \A k \in 1..Len(F.f) : F.f[k] # z, \A k \in 1..Len(G.f) : G.f[k] # z,
           Len(F.x) > 0, F.x[1] = z, Len(G.x) > 0, G.x[1] = z,
           Then(F.f, F.x) = Then(G.f, G.x)
    PROVE  F.f = G.f /\ F.x = G.x
  <1>1. ASSUME NEW A, A.f \in Bytes, A.x \in Bytes, NEW B, B.f \in Bytes, B.x \in Bytes,
               \A k \in 1..Len(B.f) : B.f[k] # z, Len(A.x) > 0, A.x[1] = z,
               Then(A.f, A.x) = Then(B.f, B.x),
               Len(A.f) < Len(B.f)
        PROVE  FALSE
    <2>1. PICK f \in Bytes, x \in Bytes, g \in Bytes, y \in Bytes :
             f = A.f /\ x = A.x /\ g = B.f /\ y = B.x
      BY <1>1
    <2>2. Then(f, x) = Then(g, y) /\ Len(f) < Len(g) /\ Len(x) > 0 /\ x[1] = z
      BY <1>1, <2>1
    <2>3. Len(f) \in Nat /\ Len(g) \in Nat /\ Len(x) \in Nat
      BY LenProperties DEF Bytes
    <2>4. PICK k \in Nat \ {0} : k = Len(f) + 1
      BY <2>3
    <2>5. k <= Len(g) /\ k \in 1..Len(g) /\ k - Len(f) = 1
          /\ Len(f) < k /\ k <= Len(f) + Len(x)
      BY <2>2, <2>3, <2>4
    <2>6. Then(f, x)[k] = x[k - Len(f)]
      BY <2>5, Place, SMTT(30)
    <2>7. Then(g, y)[k] = g[k]
      BY <2>5, Place
    <2>8. g[k] # z
      BY <1>1, <2>1, <2>5
    <2> QED
      BY <2>2, <2>5, <2>6, <2>7, <2>8
  <1>2. ~(Len(F.f) < Len(G.f)) /\ ~(Len(G.f) < Len(F.f))
    BY <1>1
  <1>3. PICK f \in Bytes, x \in Bytes, g \in Bytes, y \in Bytes :
           f = F.f /\ x = F.x /\ g = G.f /\ y = G.x
    OBVIOUS
  <1>4. Len(f) \in Nat /\ Len(g) \in Nat
    BY LenProperties DEF Bytes
  <1>5. Len(f) = Len(g)
    BY <1>2, <1>3, <1>4
  <1>6. f \o x = g \o y
    BY <1>3 DEF Then
  <1>7. f = g /\ x = y
    BY <1>5, <1>6, Split
  <1> QED
    BY <1>3, <1>7

\* And the last part tells the first when its length is known.
LEMMA SplitAtEnd ==
    ASSUME NEW f \in Bytes, NEW g \in Bytes, NEW x \in Bytes, NEW y \in Bytes,
           Len(x) = Len(y), Then(f, x) = Then(g, y)
    PROVE  f = g /\ x = y
  <1>1. Len(f) + Len(x) = Len(g) + Len(y)
    <2>1. Len(Then(f, x)) = Len(f) + Len(x) /\ Len(Then(g, y)) = Len(g) + Len(y)
      BY ThenFacts
    <2> QED
      BY <2>1
  <1>2. Len(f) \in Nat /\ Len(g) \in Nat /\ Len(x) \in Nat
    BY LenProperties DEF Bytes
  <1>3. Len(f) = Len(g)
    BY <1>1, <1>2
  <1>4. f \o x = g \o y
    BY DEF Then
  <1> QED
    BY <1>3, <1>4, Split

-----------------------------------------------------------------------------
(* Merchants *)

Without(z, f) == \A k \in 1..Len(f) : f[k] # z

LEMMA WithoutBoth ==
    ASSUME NEW z \in Nat, NEW f \in Bytes, NEW x \in Bytes,
           Without(z, f), Without(z, x)
    PROVE  Without(z, Then(f, x))
  <1>1. Len(f) \in Nat /\ Len(x) \in Nat /\ Len(Then(f, x)) = Len(f) + Len(x)
    BY ThenFacts, LenProperties DEF Bytes
  <1>2. ASSUME NEW k \in 1..(Len(f) + Len(x)) PROVE Then(f, x)[k] # z
    <2>1. k \in Nat \ {0}
      BY <1>1
    <2>2. CASE k <= Len(f)
      <3>1. Then(f, x)[k] = f[k]
        BY <2>1, <2>2, Place
      <3>2. k \in 1..Len(f)
        BY <1>1, <2>1, <2>2
      <3> QED
        BY <3>1, <3>2 DEF Without
    <2>3. CASE Len(f) < k
      <3>1. Len(f) < k /\ k <= Len(f) + Len(x)
        BY <2>3
      <3>2. Then(f, x)[k] = x[k - Len(f)]
        BY <2>1, <3>1, Place
      <3>3. k - Len(f) \in 1..Len(x)
        BY <1>1, <2>1, <3>1
      <3> QED
        BY <3>2, <3>3 DEF Without
    <2> QED
      BY <1>1, <2>1, <2>2, <2>3
  <1> QED
    BY <1>1, <1>2 DEF Without

\* A text that spares some bytes.
LEMMA Spares ==
    ASSUME NEW S, NEW f \in Seq(Nat \ S)
    PROVE  f \in Bytes /\ \A z \in S : Without(z, f)
  <1>1. f \in Bytes
    BY SeqMonotonic DEF Bytes
  <1>2. \A k \in 1..Len(f) : f[k] \in Nat \ S
    BY ElementOfSeq
  <1> QED
    BY <1>1, <1>2 DEF Without

LEMMA PortFacts ==
    ASSUME NEW port \in (Nat \ {0, Slash}) \cup {NULL}
    PROVE  /\ NormalizedPort(port) \in Bytes
           /\ Without(0, NormalizedPort(port)) /\ Without(Slash, NormalizedPort(port))
           /\ port \in {NULL, 443} =>
                 NormalizedPort(port) = << >> /\ Len(NormalizedPort(port)) = 0
           /\ port \notin {NULL, 443} =>
                 /\ port \in Nat /\ NormalizedPort(port) = <<Colon, port>>
                 /\ Len(NormalizedPort(port)) = 2
                 /\ NormalizedPort(port)[1] = Colon /\ NormalizedPort(port)[2] = port
  <1>1. CASE port \in {NULL, 443}
    <2>1. NormalizedPort(port) = << >> /\ Len(<< >>) = 0
      BY <1>1 DEF NormalizedPort
    <2> QED
      BY <1>1, <2>1, NoMore DEF Without
  <1>2. CASE port \notin {NULL, 443}
    <2>1. NormalizedPort(port) = <<Colon, port>>
      BY <1>2 DEF NormalizedPort
    <2>2. PICK x : x = <<Colon, port>>
      OBVIOUS
    <2>3. x \in Seq(Nat) /\ Len(x) = 2 /\ x[1] = Colon /\ x[2] = port
      BY <1>2, <2>2 DEF Colon
    <2>4. \A k \in 1..2 : x[k] # 0 /\ x[k] # Slash
      <3>1. Colon # 0 /\ Colon # Slash /\ port # 0 /\ port # Slash
        BY <1>2 DEF Colon, Slash
      <3>2. \A k \in 1..2 : k = 1 \/ k = 2
        OBVIOUS
      <3> QED
        BY <2>3, <3>1, <3>2
    <2> QED
      BY <1>2, <2>1, <2>2, <2>3, <2>4 DEF Without, Bytes
  <1> QED
    BY <1>1, <1>2

LEMMA PathFacts ==
    ASSUME NEW path \in Seq(Nat \ {0}), Len(path) > 0, path[1] = Slash
    PROVE  /\ NormalizedPath(path) \in Bytes /\ Without(0, NormalizedPath(path))
           /\ Len(NormalizedPath(path)) > 0 /\ NormalizedPath(path)[1] = Slash
           /\ path = NormalizedPath(path) \/ path = Append(NormalizedPath(path), Slash)
  <1>1. path \in Bytes /\ Without(0, path)
    BY Spares
  <1>2. Len(path) \in Nat
    BY LenProperties
  <1>3. CASE ~(Len(path) > 1 /\ path[Len(path)] = Slash)
    BY <1>1, <1>3 DEF NormalizedPath
  <1>4. CASE Len(path) > 1 /\ path[Len(path)] = Slash
    <2>1. PICK n \in Nat : n + 1 = Len(path) /\ n > 0
      BY <1>2, <1>4
    <2>2. PICK p : p = SubSeq(path, 1, n)
      OBVIOUS
    <2>3. NormalizedPath(path) = p
      <3>1. n = Len(path) - 1
        BY <1>2, <2>1
      <3> QED
        BY <1>4, <2>2, <3>1 DEF NormalizedPath
    <2>4. \A k \in 1..n : path[k] \in Nat \ {0}
      BY <1>2, <2>1, ElementOfSeq
    <2>5. /\ p \in Seq(Nat \ {0}) /\ Len(p) = n /\ \A k \in 1..n : p[k] = path[k]
      <3>1. /\ p \in Seq(Nat \ {0})
            /\ Len(p) = IF 1 <= n THEN n - 1 + 1 ELSE 0
            /\ \A k \in 1..(n - 1 + 1) : p[k] = path[1 + k - 1]
        BY <2>2, <2>4, SubSeqProperties
      <3>2. n - 1 + 1 = n /\ \A k \in 1..n : 1 + k - 1 = k
        OBVIOUS
      <3> QED
        BY <2>1, <3>1, <3>2
    <2>6. p \in Bytes /\ Without(0, p)
      BY <2>5, Spares
    <2>7. p[1] = Slash /\ Len(p) > 0
      BY <2>1, <2>5
    <2>8. path = Append(p, Slash)
      <3>1. PICK q : q = Append(p, Slash)
        OBVIOUS
      <3>2. /\ q \in Seq(Nat) /\ Len(q) = n + 1
            /\ \A k \in 1..(n + 1) : q[k] = IF k = n + 1 THEN Slash ELSE p[k]
        <4>1. p \in Seq(Nat) /\ Slash \in Nat
          BY <2>6 DEF Bytes, Slash
        <4> QED
          BY <2>5, <3>1, <4>1, AppendProperties
      <3>3. \A k \in 1..(n + 1) : q[k] = path[k]
        <4>1. \A k \in 1..(n + 1) : k = n + 1 \/ k \in 1..n
          OBVIOUS
        <4> QED
          BY <1>4, <2>1, <2>5, <3>2, <4>1
      <3>4. path \in Seq(Nat)
        BY <1>1 DEF Bytes
      <3>5. q = path
        BY <2>1, <3>2, <3>3, <3>4, SeqEqual
      <3> QED
        BY <3>1, <3>5
    <2> QED
      BY <2>3, <2>6, <2>7, <2>8
  <1> QED
    BY <1>3, <1>4

LEMMA UrlFacts ==
    ASSUME NEW url \in Url
    PROVE  /\ url.host \in Bytes /\ NormalizedPort(url.port) \in Bytes
           /\ NormalizedPath(url.path) \in Bytes
           /\ Without(Slash, Then(url.host, NormalizedPort(url.port)))
           /\ Without(0, NormalizeMerchantEndpointUrl(url))
           /\ NormalizeMerchantEndpointUrl(url) =
                 Then(Then(url.host, NormalizedPort(url.port)), NormalizedPath(url.path))
           /\ NormalizeMerchantEndpointUrl(url) \in Bytes
  <1>1. PICK h, p, t : /\ h = url.host /\ p = NormalizedPort(url.port)
                       /\ t = NormalizedPath(url.path)
    OBVIOUS
  <1>2. /\ url.host \in Seq(Nat \ {0, Slash})
        /\ url.port \in (Nat \ {0, Slash}) \cup {NULL}
        /\ url.path \in Seq(Nat \ {0}) /\ Len(url.path) > 0 /\ url.path[1] = Slash
    BY DEF Url
  <1>3. h \in Bytes /\ Without(0, h) /\ Without(Slash, h)
    BY <1>1, <1>2, Spares
  <1>4. p \in Bytes /\ Without(0, p) /\ Without(Slash, p)
    BY <1>1, <1>2, PortFacts
  <1>5. t \in Bytes /\ Without(0, t)
    BY <1>1, <1>2, PathFacts
  <1>6. PICK hp \in Bytes : hp = Then(h, p)
    BY <1>3, <1>4, ThenFacts
  <1>7. Without(0, hp) /\ Without(Slash, hp)
    <2>1. 0 \in Nat /\ Slash \in Nat
      BY DEF Slash
    <2> QED
      BY <1>3, <1>4, <1>6, <2>1, WithoutBoth
  <1>8. Then(hp, t) \in Bytes /\ Without(0, Then(hp, t))
    BY <1>5, <1>7, ThenFacts, WithoutBoth
  <1>9. NormalizeMerchantEndpointUrl(url) = Then(hp, t)
    BY <1>1, <1>6 DEF NormalizeMerchantEndpointUrl, Then
  <1> QED
    BY <1>1, <1>3, <1>4, <1>5, <1>6, <1>7, <1>8, <1>9

\* The port that ends one host is not the port of another endpoint.
LEMMA PortsTell ==
    ASSUME NEW F, F.host \in Bytes, F.port \in (Nat \ {0, Slash}) \cup {NULL},
           NEW G, G.host \in Bytes, G.port \in (Nat \ {0, Slash}) \cup {NULL},
           Len(F.host) > 1 /\ F.host[Len(F.host) - 1] = Colon =>
              F.host[Len(F.host)] # G.port,
           Len(G.host) > 1 /\ G.host[Len(G.host) - 1] = Colon =>
              G.host[Len(G.host)] # F.port,
           Then(F.host, NormalizedPort(F.port)) = Then(G.host, NormalizedPort(G.port))
    PROVE  F.host = G.host /\ SamePort(F.port, G.port)
  <1>1. ASSUME NEW A, A.host \in Bytes, A.port \in (Nat \ {0, Slash}) \cup {NULL},
               NEW B, B.host \in Bytes, B.port \in (Nat \ {0, Slash}) \cup {NULL},
               Len(A.host) > 1 /\ A.host[Len(A.host) - 1] = Colon =>
                  A.host[Len(A.host)] # B.port,
               Then(A.host, NormalizedPort(A.port)) = Then(B.host, NormalizedPort(B.port)),
               A.port \in {NULL, 443}, B.port \notin {NULL, 443}
        PROVE  FALSE
    <2>1. PICK g \in Bytes, x \in Bytes : g = B.host /\ x = NormalizedPort(B.port)
      BY <1>1, PortFacts
    <2>2. /\ Len(x) = 2 /\ x[1] = Colon /\ x[2] = B.port
      BY <1>1, <2>1, PortFacts
    <2>3. A.host = Then(g, x)
      <3>1. NormalizedPort(A.port) = << >>
        BY <1>1, PortFacts
      <3>2. Then(A.host, << >>) = A.host
        BY <1>1, NoMore
      <3> QED
        BY <1>1, <2>1, <3>1, <3>2
    <2>4. PICK n \in Nat : n = Len(g)
      BY LenProperties DEF Bytes
    <2>5. Len(Then(g, x)) = n + 2
      BY <2>2, <2>4, ThenFacts
    <2>6. Then(g, x)[n + 1] = x[1]
      <3>1. PICK k \in Nat \ {0} : k = n + 1
        OBVIOUS
      <3>2. Len(g) < k /\ k <= Len(g) + Len(x) /\ k - Len(g) = 1
        BY <2>2, <2>4, <3>1
      <3> QED
        BY <3>1, <3>2, Place
    <2>7. Then(g, x)[n + 2] = x[2]
      <3>1. PICK k \in Nat \ {0} : k = n + 2
        OBVIOUS
      <3>2. Len(g) < k /\ k <= Len(g) + Len(x) /\ k - Len(g) = 2
        BY <2>2, <2>4, <3>1
      <3> QED
        BY <3>1, <3>2, Place
    <2>8. (n + 2) - 1 = n + 1 /\ n + 2 > 1
      OBVIOUS
    <2> QED
      BY <1>1, <2>2, <2>3, <2>5, <2>6, <2>7, <2>8
  <1>2. ~(F.port \in {NULL, 443} /\ G.port \notin {NULL, 443})
    BY <1>1
  <1>3. ~(G.port \in {NULL, 443} /\ F.port \notin {NULL, 443})
    BY <1>1
  <1>4. PICK f \in Bytes, g \in Bytes, x \in Bytes, y \in Bytes :
           /\ f = F.host /\ g = G.host
           /\ x = NormalizedPort(F.port) /\ y = NormalizedPort(G.port)
    BY PortFacts
  <1>5. Then(f, x) = Then(g, y)
    BY <1>4
  <1>6. Len(x) = Len(y)
    <2>1. CASE F.port \in {NULL, 443}
      <3>1. Len(x) = 0
        BY <1>4, <2>1, PortFacts
      <3>2. Len(y) = 0
        BY <1>2, <1>4, <2>1, PortFacts
      <3> QED
        BY <3>1, <3>2
    <2>2. CASE F.port \notin {NULL, 443}
      <3>1. Len(x) = 2
        BY <1>4, <2>2, PortFacts
      <3>2. Len(y) = 2
        BY <1>3, <1>4, <2>2, PortFacts
      <3> QED
        BY <3>1, <3>2
    <2> QED
      BY <2>1, <2>2
  <1>7. f = g /\ x = y
    <2>1. \A r, s, t, u \in Bytes : Len(t) = Len(u) /\ Then(r, t) = Then(s, u) => r = s /\ t = u
      BY SplitAtEnd
    <2> QED
      BY <1>5, <1>6, <2>1
  <1>8. SamePort(F.port, G.port)
    <2>1. CASE F.port \in {NULL, 443}
      <3>1. PICK p, q : p = F.port /\ q = G.port
        OBVIOUS
      <3>2. p \in {NULL, 443} /\ q \in {NULL, 443}
        BY <1>2, <2>1, <3>1
      <3>3. SamePort(p, q)
        BY <3>2 DEF SamePort
      <3> QED
        BY <3>1, <3>3
    <2>2. CASE F.port \notin {NULL, 443}
      <3>1. x[2] = F.port /\ y[2] = G.port
        BY <1>2, <1>3, <1>4, <2>2, PortFacts
      <3> QED
        BY <1>7, <3>1 DEF SamePort
    <2> QED
      BY <2>1, <2>2
  <1> QED
    BY <1>4, <1>7, <1>8

LEMMA MerchantIdTells ==
    ASSUME NEW a \in Merchants, NEW b \in Merchants,
           DeriveMerchantId(a) = DeriveMerchantId(b)
    PROVE  SameMerchant(a, b)
  <1>1. /\ a.serviceRegistryId \in Bytes /\ b.serviceRegistryId \in Bytes
        /\ a.url \in Url /\ b.url \in Url
    BY MerchantAssumption DEF Bytes
  <1>2. PICK u \in Bytes, v \in Bytes :
           u = NormalizeMerchantEndpointUrl(a.url) /\ v = NormalizeMerchantEndpointUrl(b.url)
    BY <1>1, UrlFacts
  <1>3. PICK F, G : /\ F = [f |-> a.serviceRegistryId, x |-> u]
                    /\ G = [f |-> b.serviceRegistryId, x |-> v]
    OBVIOUS
  <1>4. /\ F.f = a.serviceRegistryId /\ F.x = u
        /\ G.f = b.serviceRegistryId /\ G.x = v
    BY <1>3
  <1>5. Then(Then(F.f, <<0>>), F.x) = Then(Then(G.f, <<0>>), G.x)
    BY <1>2, <1>4 DEF DeriveMerchantId, Then
  <1>6. /\ \A k \in 1..Len(F.x) : F.x[k] # 0
        /\ \A k \in 1..Len(G.x) : G.x[k] # 0
    BY <1>1, <1>2, <1>4, UrlFacts DEF Without
  <1>7. F.f = G.f /\ F.x = G.x
    <2>1. F.f \in Bytes /\ F.x \in Bytes /\ G.f \in Bytes /\ G.x \in Bytes /\ 0 \in Nat
      BY <1>1, <1>4
    <2> QED
      BY <1>5, <1>6, <2>1, LastMark
  <1>8. PICK H, K : /\ H = [f |-> Then(a.url.host, NormalizedPort(a.url.port)),
                            x |-> NormalizedPath(a.url.path)]
                    /\ K = [f |-> Then(b.url.host, NormalizedPort(b.url.port)),
                            x |-> NormalizedPath(b.url.path)]
    OBVIOUS
  <1>9. /\ H.f = Then(a.url.host, NormalizedPort(a.url.port))
        /\ K.f = Then(b.url.host, NormalizedPort(b.url.port))
        /\ H.x = NormalizedPath(a.url.path) /\ K.x = NormalizedPath(b.url.path)
    BY <1>8
  <1>10. H.f \in Bytes /\ K.f \in Bytes /\ H.x \in Bytes /\ K.x \in Bytes
    <2>1. ASSUME NEW url \in Url
          PROVE  /\ Then(url.host, NormalizedPort(url.port)) \in Bytes
                 /\ NormalizedPath(url.path) \in Bytes
      <3>1. PICK h \in Bytes, p \in Bytes :
               h = url.host /\ p = NormalizedPort(url.port)
        BY UrlFacts
      <3>2. Then(h, p) \in Bytes
        BY ThenFacts
      <3> QED
        BY <3>1, <3>2, UrlFacts
    <2> QED
      BY <1>1, <1>9, <2>1
  <1>11. /\ a.url.path \in Seq(Nat \ {0}) /\ Len(a.url.path) > 0 /\ a.url.path[1] = Slash
         /\ b.url.path \in Seq(Nat \ {0}) /\ Len(b.url.path) > 0 /\ b.url.path[1] = Slash
         /\ a.url.port \in (Nat \ {0, Slash}) \cup {NULL}
         /\ b.url.port \in (Nat \ {0, Slash}) \cup {NULL}
    BY <1>1 DEF Url
  <1>12. Len(H.x) > 0 /\ H.x[1] = Slash /\ Len(K.x) > 0 /\ K.x[1] = Slash
    BY <1>9, <1>11, PathFacts
  <1>13. Then(H.f, H.x) = Then(K.f, K.x)
    BY <1>1, <1>2, <1>4, <1>7, <1>9, UrlFacts
  <1>14. H.f = K.f /\ H.x = K.x
    <2>1. /\ \A k \in 1..Len(H.f) : H.f[k] # Slash
          /\ \A k \in 1..Len(K.f) : K.f[k] # Slash
      BY <1>1, <1>9, UrlFacts DEF Without
    <2>2. Slash \in Nat
      BY DEF Slash
    <2> QED
      BY <1>10, <1>12, <1>13, <2>1, <2>2, FirstMark
  <1>15. a.url.host = b.url.host /\ SamePort(a.url.port, b.url.port)
    <2>1. PICK A, B : A = a.url /\ B = b.url
      OBVIOUS
    <2>2. A.host \in Bytes /\ B.host \in Bytes
      BY <1>1, <2>1, UrlFacts
    <2>3. /\ Len(A.host) > 1 /\ A.host[Len(A.host) - 1] = Colon =>
                A.host[Len(A.host)] # B.port
          /\ Len(B.host) > 1 /\ B.host[Len(B.host) - 1] = Colon =>
                B.host[Len(B.host)] # A.port
      BY <2>1, MerchantAssumption
    <2>4. Then(A.host, NormalizedPort(A.port)) = Then(B.host, NormalizedPort(B.port))
      BY <1>9, <1>14, <2>1
    <2>5. /\ A.port \in (Nat \ {0, Slash}) \cup {NULL}
          /\ B.port \in (Nat \ {0, Slash}) \cup {NULL}
      BY <1>11, <2>1
    <2>6. A.host = B.host /\ SamePort(A.port, B.port)
      BY <2>2, <2>3, <2>4, <2>5, PortsTell
    <2> QED
      BY <2>1, <2>6
  <1>16. SamePath(a.url.path, b.url.path)
    <2>1. PICK p, q : p = NormalizedPath(a.url.path) /\ q = NormalizedPath(b.url.path)
      OBVIOUS
    <2>2. /\ a.url.path = p \/ a.url.path = Append(p, Slash)
          /\ b.url.path = q \/ b.url.path = Append(q, Slash)
      BY <1>11, <2>1, PathFacts
    <2>3. p = q
      BY <1>9, <1>14, <2>1
    <2> QED
      BY <2>2, <2>3 DEF SamePath
  <1> QED
    BY <1>4, <1>7, <1>15, <1>16 DEF SameMerchant

-----------------------------------------------------------------------------
(* What ids and leaves are the hashes of *)

AuthorizationIdBytes(a) ==
    IdText \o EncodeHex32(a.intentId) \o EncodeU64(a.sequencerEpoch)
    \o EncodeU64(a.seqNo)
AuthorizationIdRow(a) ==
    <<IdText, EncodeHex32(a.intentId), EncodeU64(a.sequencerEpoch), EncodeU64(a.seqNo),
      << >>, << >>, << >>, << >>, << >>, << >>, << >>, << >>, << >> >>

LeafBytes(a) ==
    EncodeU64(a.logSeqNo) \o EncodeHex32(a.prevLeafHash)
    \o EncodeHex32(a.authHash) \o EncodeHex32(a.salt)
LeafRow(a) ==
    <<EncodeU64(a.logSeqNo), EncodeHex32(a.prevLeafHash), EncodeHex32(a.authHash),
      EncodeHex32(a.salt),
      << >>, << >>, << >>, << >>, << >>, << >>, << >>, << >>, << >> >>

LEMMA AuthorizationIdIsRow ==
    ASSUME NEW a \in AuthorizationIdInput
    PROVE  /\ IsRow(AuthorizationIdRow(a))
           /\ AuthorizationIdBytes(a) = Row(AuthorizationIdRow(a))
  <1>1. /\ a.intentId \in Hex32 /\ a.sequencerEpoch \in Uint64
        /\ a.seqNo \in Uint64
    BY DEF AuthorizationIdInput
  <1>2. EncodeHex32(a.intentId) \in Bytes
    BY <1>1, HexApart
  <1>3. /\ EncodeU64(a.sequencerEpoch) \in Bytes /\ EncodeU64(a.seqNo) \in Bytes
    BY <1>1, U64Apart
  <1>4. IdText \in Bytes
    BY DEF IdText, Bytes
  <1>5. IsRow(AuthorizationIdRow(a))
    BY <1>2, <1>3, <1>4, NoMore DEF IsRow, AuthorizationIdRow
  <1>6. AuthorizationIdBytes(a) = Row(AuthorizationIdRow(a))
    <2>1. PICK p : p = AuthorizationIdBytes(a)
      OBVIOUS
    <2>2. p \in Bytes
      BY <1>2, <1>3, <1>4, NoMore, <2>1, Concat DEF AuthorizationIdBytes
    <2>3. Row(AuthorizationIdRow(a)) =
             Then(Then(Then(Then(Then(Then(Then(Then(Then(p, << >>), << >>), << >>),
                << >>), << >>), << >>), << >>), << >>), << >>)
      BY <2>1 DEF AuthorizationIdBytes, Row, Then, AuthorizationIdRow
    <2>4. Then(p, << >>) = p
      BY <2>2, NoMore
    <2> QED
      BY <2>1, <2>3, <2>4
  <1> QED
    BY <1>5, <1>6

LEMMA AuthorizationIdBytesTell ==
    ASSUME NEW a \in AuthorizationIdInput, NEW b \in AuthorizationIdInput,
           AuthorizationIdBytes(a) = AuthorizationIdBytes(b)
    PROVE  a = b
  <1>1. /\ a.intentId \in Hex32 /\ b.intentId \in Hex32
        /\ a.sequencerEpoch \in Uint64 /\ b.sequencerEpoch \in Uint64
        /\ a.seqNo \in Uint64 /\ b.seqNo \in Uint64
    BY DEF AuthorizationIdInput
  <1>2. PICK F, G : F = AuthorizationIdRow(a) /\ G = AuthorizationIdRow(b)
    OBVIOUS
  <1>3. IsRow(F) /\ IsRow(G) /\ Row(F) = Row(G)
    BY <1>2, AuthorizationIdIsRow
  <1>4. /\ F[1] = IdText /\ G[1] = IdText /\ F[2] = EncodeHex32(a.intentId)
        /\ G[2] = EncodeHex32(b.intentId) /\ F[3] = EncodeU64(a.sequencerEpoch)
        /\ G[3] = EncodeU64(b.sequencerEpoch) /\ F[4] = EncodeU64(a.seqNo)
        /\ G[4] = EncodeU64(b.seqNo) /\ F[5] = << >> /\ G[5] = << >>
        /\ F[6] = << >> /\ G[6] = << >> /\ F[7] = << >> /\ G[7] = << >>
        /\ F[8] = << >> /\ G[8] = << >> /\ F[9] = << >> /\ G[9] = << >>
        /\ F[10] = << >> /\ G[10] = << >> /\ F[11] = << >> /\ G[11] = << >>
        /\ F[12] = << >> /\ G[12] = << >> /\ F[13] = << >> /\ G[13] = << >>
    BY <1>2 DEF AuthorizationIdRow
  <1>5. /\ Apart(F[2], G[2])
        /\ F[2] = G[2] => a.intentId = b.intentId
    BY <1>1, <1>4, HexApart
  <1>6. /\ Apart(F[3], G[3]) /\ Apart(F[4], G[4])
        /\ F[3] = G[3] => a.sequencerEpoch = b.sequencerEpoch
        /\ F[4] = G[4] => a.seqNo = b.seqNo
    BY <1>1, <1>4, U64Apart
  <1>7. Apart(F[1], G[1])
    <2>1. IdText \in Bytes
      BY DEF IdText, Bytes
    <2> QED
      BY <1>4, <2>1, FixedApart
  <1>8. \A k \in 5..13 : Apart(F[k], G[k])
    BY <1>4, NoMore
  <1>9. \A k \in 1..12 : Apart(F[k], G[k])
    BY <1>5, <1>6, <1>7, <1>8
  <1>10. \A k \in 1..13 : F[k] = G[k]
    BY <1>3, <1>9, RowsApart
  <1>11. /\ a.intentId = b.intentId /\ a.sequencerEpoch = b.sequencerEpoch
         /\ a.seqNo = b.seqNo
    BY <1>5, <1>6, <1>7, <1>8, <1>10
  <1> QED
    BY <1>11 DEF AuthorizationIdInput

LEMMA LeafIsRow ==
    ASSUME NEW a \in AuthorizationLeafInput
    PROVE  IsRow(LeafRow(a)) /\ LeafBytes(a) = Row(LeafRow(a))
  <1>1. /\ a.logSeqNo \in Uint64 /\ a.prevLeafHash \in Hex32
        /\ a.authHash \in Hex32 /\ a.salt \in Hex32
    BY DEF AuthorizationLeafInput
  <1>2. /\ EncodeHex32(a.prevLeafHash) \in Bytes
        /\ EncodeHex32(a.authHash) \in Bytes /\ EncodeHex32(a.salt) \in Bytes
    BY <1>1, HexApart
  <1>3. EncodeU64(a.logSeqNo) \in Bytes
    BY <1>1, U64Apart
  <1>4. IsRow(LeafRow(a))
    BY <1>2, <1>3, NoMore DEF IsRow, LeafRow
  <1>5. LeafBytes(a) = Row(LeafRow(a))
    <2>1. PICK p : p = LeafBytes(a)
      OBVIOUS
    <2>2. p \in Bytes
      BY <1>2, <1>3, NoMore, <2>1, Concat DEF LeafBytes
    <2>3. Row(LeafRow(a)) =
             Then(Then(Then(Then(Then(Then(Then(Then(Then(p, << >>), << >>), << >>),
                << >>), << >>), << >>), << >>), << >>), << >>)
      BY <2>1 DEF LeafBytes, Row, Then, LeafRow
    <2>4. Then(p, << >>) = p
      BY <2>2, NoMore
    <2> QED
      BY <2>1, <2>3, <2>4
  <1> QED
    BY <1>4, <1>5

LEMMA LeafBytesTell ==
    ASSUME NEW a \in AuthorizationLeafInput, NEW b \in AuthorizationLeafInput,
           LeafBytes(a) = LeafBytes(b)
    PROVE  a = b
  <1>1. /\ a.logSeqNo \in Uint64 /\ b.logSeqNo \in Uint64
        /\ a.prevLeafHash \in Hex32 /\ b.prevLeafHash \in Hex32
        /\ a.authHash \in Hex32 /\ b.authHash \in Hex32 /\ a.salt \in Hex32
        /\ b.salt \in Hex32
    BY DEF AuthorizationLeafInput
  <1>2. PICK F, G : F = LeafRow(a) /\ G = LeafRow(b)
    OBVIOUS
  <1>3. IsRow(F) /\ IsRow(G) /\ Row(F) = Row(G)
    BY <1>2, LeafIsRow
  <1>4. /\ F[1] = EncodeU64(a.logSeqNo) /\ G[1] = EncodeU64(b.logSeqNo)
        /\ F[2] = EncodeHex32(a.prevLeafHash) /\ G[2] = EncodeHex32(b.prevLeafHash)
        /\ F[3] = EncodeHex32(a.authHash) /\ G[3] = EncodeHex32(b.authHash)
        /\ F[4] = EncodeHex32(a.salt) /\ G[4] = EncodeHex32(b.salt) /\ F[5] = << >>
        /\ G[5] = << >> /\ F[6] = << >> /\ G[6] = << >> /\ F[7] = << >>
        /\ G[7] = << >> /\ F[8] = << >> /\ G[8] = << >> /\ F[9] = << >>
        /\ G[9] = << >> /\ F[10] = << >> /\ G[10] = << >> /\ F[11] = << >>
        /\ G[11] = << >> /\ F[12] = << >> /\ G[12] = << >> /\ F[13] = << >>
        /\ G[13] = << >>
    BY <1>2 DEF LeafRow
  <1>5. /\ Apart(F[2], G[2]) /\ Apart(F[3], G[3]) /\ Apart(F[4], G[4])
        /\ F[2] = G[2] => a.prevLeafHash = b.prevLeafHash
        /\ F[3] = G[3] => a.authHash = b.authHash
        /\ F[4] = G[4] => a.salt = b.salt
    BY <1>1, <1>4, HexApart
  <1>6. /\ Apart(F[1], G[1])
        /\ F[1] = G[1] => a.logSeqNo = b.logSeqNo
    BY <1>1, <1>4, U64Apart
  <1>7. \A k \in 5..13 : Apart(F[k], G[k])
    BY <1>4, NoMore
  <1>8. \A k \in 1..12 : Apart(F[k], G[k])
    BY <1>5, <1>6, <1>7
  <1>9. \A k \in 1..13 : F[k] = G[k]
    BY <1>3, <1>8, RowsApart
  <1>10. /\ a.logSeqNo = b.logSeqNo /\ a.prevLeafHash = b.prevLeafHash
         /\ a.authHash = b.authHash /\ a.salt = b.salt
    BY <1>5, <1>6, <1>7, <1>9
  <1> QED
    BY <1>10 DEF AuthorizationLeafInput

-----------------------------------------------------------------------------
(* Digests *)

\* A hash of the servers: the tag of its kind with its zero byte, then the bytes.
TaggedKinds == {"intent", "authorization", "authId", "report", "leaf"}
TagOf(kind) ==
    CASE kind = "intent" -> <<1, 1, 0>>
      [] kind \in {"authorization", "authId"} -> <<1, 2, 0>>
      [] kind = "leaf" -> <<1, 3, 0>>
      [] kind = "report" -> <<1, 2, 1, 0>>
BytesOf(m) ==
    CASE m.kind = "intent" -> CanonicalIntentBytes(m.body)
      [] m.kind = "authorization" -> CanonicalAuthorizationBytes(m.body)
      [] m.kind = "authId" -> AuthorizationIdBytes(m.body)
      [] m.kind = "leaf" -> LeafBytes(m.body)
      [] m.kind = "report" -> CanonicalExecutionReportBytes(m.body)

LEMMA TagFacts ==
    ASSUME NEW kind \in TaggedKinds
    PROVE  /\ TagOf(kind) \in Bytes
           /\ TagOf(kind)[1] = 1
           /\ kind # "report" => Len(TagOf(kind)) = 3 /\ TagOf(kind)[3] = 0
           /\ kind = "intent" => TagOf(kind)[2] = 1
           /\ kind \in {"authorization", "authId"} => TagOf(kind)[2] = 2
           /\ kind = "leaf" => TagOf(kind)[2] = 3
           /\ kind = "report" => /\ Len(TagOf(kind)) = 4 /\ TagOf(kind)[2] = 2
                                 /\ TagOf(kind)[3] = 1
  <1>1. CASE kind = "intent"
    BY <1>1 DEF TagOf, Bytes
  <1>2. CASE kind \in {"authorization", "authId"}
    BY <1>2 DEF TagOf, Bytes
  <1>3. CASE kind = "leaf"
    BY <1>3 DEF TagOf, Bytes
  <1>4. CASE kind = "report"
    BY <1>4 DEF TagOf, Bytes
  <1> QED
    BY <1>1, <1>2, <1>3, <1>4 DEF TaggedKinds

\* No tag is the beginning of another's digest.
LEMMA TagsTell ==
    ASSUME NEW k \in TaggedKinds, NEW l \in TaggedKinds,
           NEW p \in Bytes, NEW q \in Bytes,
           Then(TagOf(k), p) = Then(TagOf(l), q)
    PROVE  /\ k = l \/ {k, l} = {"authorization", "authId"}
           /\ p = q
  <1>1. PICK t \in Bytes, u \in Bytes : t = TagOf(k) /\ u = TagOf(l)
    BY TagFacts
  <1>2. Len(t) \in {3, 4} /\ Len(u) \in {3, 4}
    BY <1>1, TagFacts
  <1>3. t[2] = u[2] /\ t[3] = u[3]
    <2>1. ASSUME NEW x \in Bytes, NEW y \in Bytes, Len(x) \in {3, 4}
          PROVE  Then(x, y)[2] = x[2] /\ Then(x, y)[3] = x[3]
      <3>1. PICK n \in {3, 4} : n = Len(x)
        BY <2>1
      <3>2. 2 <= n /\ 3 <= n /\ 2 \in Nat \ {0} /\ 3 \in Nat \ {0}
        OBVIOUS
      <3> QED
        BY <3>1, <3>2, Place
    <2>2. Then(t, p) = Then(u, q)
      BY <1>1
    <2>3. Then(t, p)[2] = t[2] /\ Then(t, p)[3] = t[3]
      BY <1>2, <2>1
    <2>4. Then(u, q)[2] = u[2] /\ Then(u, q)[3] = u[3]
      BY <1>2, <2>1
    <2> QED
      BY <2>2, <2>3, <2>4
  <1>4. k = l \/ {k, l} = {"authorization", "authId"}
    <2>1. CASE k = "intent"
      BY <1>1, <1>3, <2>1, TagFacts DEF TaggedKinds
    <2>2. CASE k = "leaf"
      BY <1>1, <1>3, <2>2, TagFacts DEF TaggedKinds
    <2>3. CASE k = "report"
      BY <1>1, <1>3, <2>3, TagFacts DEF TaggedKinds
    <2>4. CASE k \in {"authorization", "authId"}
      <3>1. l \in {"authorization", "authId"}
        BY <1>1, <1>3, <2>4, TagFacts DEF TaggedKinds
      <3> QED
        BY <2>4, <3>1
    <2> QED
      BY <2>1, <2>2, <2>3, <2>4 DEF TaggedKinds
  <1>5. t = u
    BY <1>1, <1>4 DEF TagOf
  <1>6. p = q
    <2>1. Apart(t, u) /\ Then(t, p) = Then(u, q)
      BY <1>1, <1>5, FixedApart
    <2> QED
      BY <2>1 DEF Apart
  <1> QED
    BY <1>4, <1>6

LEMMA KindFacts ==
    ASSUME NEW m \in Messages
    PROVE  /\ m.kind \in TaggedKinds \cup {"reclaim", "merchant"}
           /\ m.kind = "intent" => m.body \in IntentV1
           /\ m.kind = "authorization" => m.body \in AuthorizationV1
           /\ m.kind = "authId" => m.body \in AuthorizationIdInput
           /\ m.kind = "report" => m.body \in ExecutionReportV1
           /\ m.kind = "leaf" => m.body \in AuthorizationLeafInput
           /\ m.kind = "merchant" => m.body \in Merchants
           /\ m.kind = "reclaim" =>
                 /\ m.body \in [signatureScheme: SignatureScheme,
                                request: ReclaimRequestV1]
                 /\ m.body.request.agentId # NULL
  <1>1. CASE m \in Of("intent", Intents)
    BY <1>1, MessageAssumption DEF Of, TaggedKinds
  <1>2. CASE m \in Of("reclaim", Reclaims)
    BY <1>2, MessageAssumption DEF Of, TaggedKinds
  <1>3. CASE m \in Of("authorization", Authorizations)
    BY <1>3, MessageAssumption DEF Of, TaggedKinds
  <1>4. CASE m \in Of("report", Reports)
    BY <1>4, MessageAssumption DEF Of, TaggedKinds
  <1>5. CASE m \in Of("authId", AuthIds)
    BY <1>5, MessageAssumption DEF Of, TaggedKinds
  <1>6. CASE m \in Of("leaf", LeafInputs)
    BY <1>6, MessageAssumption DEF Of, TaggedKinds
  <1>7. CASE m \in Of("merchant", Merchants)
    BY <1>7 DEF Of, TaggedKinds
  <1> QED
    BY <1>1, <1>2, <1>3, <1>4, <1>5, <1>6, <1>7 DEF Messages, Signed

LEMMA TagBytes ==
    /\ Tag.intentV1 \o <<0>> = <<1, 1, 0>>
    /\ Tag.authorizationV1 \o <<0>> = <<1, 2, 0>>
    /\ Tag.authLeafV1 \o <<0>> = <<1, 3, 0>>
    /\ Tag.executionReportV1 \o <<0>> = <<1, 2, 1, 0>>
  <1>1. ASSUME NEW a \in Nat, NEW b \in Nat PROVE <<a, b>> \o <<0>> = <<a, b, 0>>
    <2>1. PICK f : f = <<a, b>>
      OBVIOUS
    <2>2. f \in Bytes /\ Len(f) = 2 /\ f[1] = a /\ f[2] = b
      BY <2>1 DEF Bytes
    <2>3. PICK g : g = Then(f, <<0>>)
      OBVIOUS
    <2>4. g \in Bytes /\ Len(g) = 3 /\ g[3] = 0 /\ g[1] = a /\ g[2] = b
      <3>1. /\ g \in Bytes /\ Len(g) = Len(f) + 1 /\ g[Len(f) + 1] = 0
            /\ \A k \in 1..Len(f) : g[k] = f[k]
        BY <2>2, <2>3, ThenOne
      <3> QED
        BY <2>2, <3>1
    <2>5. PICK h : h = <<a, b, 0>>
      OBVIOUS
    <2>6. h \in Seq(Nat) /\ Len(h) = 3 /\ h[1] = a /\ h[2] = b /\ h[3] = 0
      BY <2>5
    <2>7. \A k \in 1..3 : g[k] = h[k]
      <3>1. \A k \in 1..3 : k = 1 \/ k = 2 \/ k = 3
        OBVIOUS
      <3> QED
        BY <2>4, <2>6, <3>1
    <2>8. g = h
      BY <2>4, <2>6, <2>7, SeqEqual DEF Bytes
    <2> QED
      BY <2>1, <2>3, <2>5, <2>8 DEF Then
  <1>2. <<1, 2, 1>> \o <<0>> = <<1, 2, 1, 0>>
    <2>1. PICK f : f = <<1, 2, 1>>
      OBVIOUS
    <2>2. f \in Bytes /\ Len(f) = 3 /\ f[1] = 1 /\ f[2] = 2 /\ f[3] = 1
      BY <2>1 DEF Bytes
    <2>3. PICK g : g = Then(f, <<0>>)
      OBVIOUS
    <2>4. g \in Bytes /\ Len(g) = 4 /\ g[4] = 0 /\ g[1] = 1 /\ g[2] = 2 /\ g[3] = 1
      <3>1. /\ g \in Bytes /\ Len(g) = Len(f) + 1 /\ g[Len(f) + 1] = 0
            /\ \A k \in 1..Len(f) : g[k] = f[k]
        BY <2>2, <2>3, ThenOne
      <3> QED
        BY <2>2, <3>1
    <2>5. PICK h : h = <<1, 2, 1, 0>>
      OBVIOUS
    <2>6. h \in Seq(Nat) /\ Len(h) = 4 /\ h[1] = 1 /\ h[2] = 2 /\ h[3] = 1 /\ h[4] = 0
      BY <2>5
    <2>7. \A k \in 1..4 : g[k] = h[k]
      <3>1. \A k \in 1..4 : k = 1 \/ k = 2 \/ k = 3 \/ k = 4
        OBVIOUS
      <3> QED
        BY <2>4, <2>6, <3>1
    <2>8. g = h
      BY <2>4, <2>6, <2>7, SeqEqual DEF Bytes
    <2> QED
      BY <2>1, <2>3, <2>5, <2>8 DEF Then
  <1> QED
    BY <1>1, <1>2 DEF Tag

LEMMA TaggedDigest ==
    ASSUME NEW m \in Messages, m.kind \in TaggedKinds
    PROVE  Digests(m) = {Then(TagOf(m.kind), BytesOf(m))} /\ BytesOf(m) \in Bytes
  <1>1. CASE m.kind = "intent"
    <2>1. Digests(m) = {Then(TagOf(m.kind), BytesOf(m))}
      BY <1>1, TagBytes DEF Digests, TagOf, BytesOf, HashIntent, HashWithTag, Then
    <2>2. BytesOf(m) \in Bytes
      BY <1>1, KindFacts, IntentIsRow, RowFacts DEF BytesOf
    <2> QED
      BY <2>1, <2>2
  <1>2. CASE m.kind = "authorization"
    <2>1. Digests(m) = {Then(TagOf(m.kind), BytesOf(m))}
      BY <1>2, TagBytes DEF Digests, TagOf, BytesOf, HashAuthorization, HashWithTag, Then
    <2>2. BytesOf(m) \in Bytes
      BY <1>2, KindFacts, AuthorizationIsRow, RowFacts DEF BytesOf
    <2> QED
      BY <2>1, <2>2
  <1>3. CASE m.kind = "authId"
    <2>1. Digests(m) = {Then(TagOf(m.kind), BytesOf(m))}
      BY <1>3, TagBytes DEF Digests, TagOf, BytesOf, DeriveAuthorizationId,
                            AuthorizationIdBytes, HashWithTag, Then
    <2>2. BytesOf(m) \in Bytes
      BY <1>3, KindFacts, AuthorizationIdIsRow, RowFacts DEF BytesOf
    <2> QED
      BY <2>1, <2>2
  <1>4. CASE m.kind = "leaf"
    <2>1. Digests(m) = {Then(TagOf(m.kind), BytesOf(m))}
      BY <1>4, TagBytes DEF Digests, TagOf, BytesOf, ComputeAuthorizationLeaf,
                            LeafBytes, HashWithTag, Then
    <2>2. BytesOf(m) \in Bytes
      BY <1>4, KindFacts, LeafIsRow, RowFacts DEF BytesOf
    <2> QED
      BY <2>1, <2>2
  <1>5. CASE m.kind = "report"
    <2>1. Digests(m) = {Then(TagOf(m.kind), BytesOf(m))}
      BY <1>5, TagBytes DEF Digests, TagOf, BytesOf, HashExecutionReport, HashWithTag, Then
    <2>2. BytesOf(m) \in Bytes
      BY <1>5, KindFacts, ReportIsRow, RowFacts DEF BytesOf
    <2> QED
      BY <2>1, <2>2
  <1> QED
    BY <1>1, <1>2, <1>3, <1>4, <1>5 DEF TaggedKinds

\* An authorization's bytes begin with a 1, those of an id with the 3 of IdText.
LEMMA AuthorizationIsNoId ==
    ASSUME NEW a \in AuthorizationV1, NEW b \in AuthorizationIdInput
    PROVE  CanonicalAuthorizationBytes(a) # AuthorizationIdBytes(b)
  <1>1. PICK F, G : F = AuthorizationRow(a) /\ G = AuthorizationIdRow(b)
    OBVIOUS
  <1>2. /\ IsRow(F) /\ CanonicalAuthorizationBytes(a) = Row(F)
        /\ IsRow(G) /\ AuthorizationIdBytes(b) = Row(G)
    BY <1>1, AuthorizationIsRow, AuthorizationIdIsRow
  <1>3. F[1] = EncodeU8(1) /\ G[1] = IdText
    BY <1>1 DEF AuthorizationRow, AuthorizationIdRow
  <1>4. PICK x \in Bytes : Row(F) = Then(F[1], x)
    BY <1>2, RowFromLeft
  <1>5. PICK y \in Bytes : Row(G) = Then(G[1], y)
    BY <1>2, RowFromLeft
  <1>6. PICK f \in Bytes, g \in Bytes : f = F[1] /\ g = G[1]
    BY <1>2 DEF IsRow
  <1>7. Len(f) = 1 /\ f[1] = 1 /\ Len(g) = 2 /\ g[1] = 3
    BY <1>3, <1>6 DEF EncodeU8, IdText
  <1>8. 1 <= Len(f) /\ 1 <= Len(g) /\ 1 \in Nat \ {0}
    BY <1>7
  <1>9. Then(f, x)[1] = f[1] /\ Then(g, y)[1] = g[1]
    BY <1>8, Place
  <1> QED
    BY <1>2, <1>4, <1>5, <1>6, <1>7, <1>9

\* No merchant's id is a tagged hash.
LEMMA MerchantIsUntagged ==
    ASSUME NEW merchant \in Merchants, NEW kind \in TaggedKinds, NEW p \in Bytes
    PROVE  DeriveMerchantId(merchant) # Then(TagOf(kind), p)
  <1> SUFFICES ASSUME DeriveMerchantId(merchant) = Then(TagOf(kind), p)
               PROVE  FALSE
    OBVIOUS
  <1>1. PICK tag \in {Tag.intentV1, Tag.authorizationV1, Tag.authLeafV1,
                      Tag.executionReportV1} : TagOf(kind) = tag \o <<0>>
    BY TagBytes DEF TagOf, TaggedKinds
  <1>2. tag \in Bytes /\ \A k \in 1..Len(tag) : tag[k] # 0
    <2>1. tag \in Bytes /\ Without(0, tag)
      <3>1. Tag.intentV1 \in Seq(Nat \ {0}) /\ Tag.authorizationV1 \in Seq(Nat \ {0})
            /\ Tag.authLeafV1 \in Seq(Nat \ {0}) /\ Tag.executionReportV1 \in Seq(Nat \ {0})
        BY DEF Tag
      <3>2. tag \in Seq(Nat \ {0})
        BY <3>1
      <3> QED
        BY <3>2, Spares
    <2> QED
      BY <2>1 DEF Without
  <1>3. PICK r \in Bytes, u \in Bytes :
           /\ r = merchant.serviceRegistryId
           /\ u = NormalizeMerchantEndpointUrl(merchant.url)
    BY MerchantAssumption, UrlFacts DEF Bytes
  <1>4. PICK rz \in Bytes, tz \in Bytes :
           /\ rz = Then(r, <<0>>) /\ tz = Then(tag, <<0>>)
           /\ Len(rz) = Len(r) + 1 /\ Len(tz) = Len(tag) + 1
           /\ rz[Len(r) + 1] = 0 /\ \A k \in 1..Len(tag) : tz[k] = tag[k]
    BY <1>2, ThenOne
  <1>5. Then(rz, u) = Then(tz, p)
    BY <1>1, <1>3, <1>4 DEF DeriveMerchantId, Then
  <1>6. PICK m \in Nat, n \in Nat : m = Len(r) /\ n = Len(tag)
    BY <1>2, LenProperties DEF Bytes
  <1>7. CASE n <= m
    <2>1. PICK s : s = SubSeq(rz, 1, n + 1)
      OBVIOUS
    <2>2. /\ s \in Bytes /\ Len(s) = n + 1 /\ \A k \in 1..(n + 1) : s[k] = rz[k]
      <3>1. \A k \in 1..(n + 1) : k \in 1..Len(rz)
        BY <1>4, <1>6, <1>7
      <3>2. \A k \in 1..(n + 1) : rz[k] \in Nat
        BY <3>1, ElementOfSeq DEF Bytes
      <3>3. /\ s \in Seq(Nat) /\ Len(s) = IF 1 <= n + 1 THEN (n + 1) - 1 + 1 ELSE 0
            /\ \A k \in 1..((n + 1) - 1 + 1) : s[k] = rz[1 + k - 1]
        BY <2>1, <3>2, SubSeqProperties
      <3>4. (n + 1) - 1 + 1 = n + 1 /\ \A k \in 1..(n + 1) : 1 + k - 1 = k
        OBVIOUS
      <3>5. s \in Bytes
        BY <3>3 DEF Bytes
      <3>6. Len(s) = n + 1
        BY <3>3, <3>4
      <3>7. ASSUME NEW k \in 1..(n + 1) PROVE s[k] = rz[k]
        <4>1. k \in 1..((n + 1) - 1 + 1) /\ 1 + k - 1 = k
          BY <3>4
        <4> QED
          BY <3>3, <4>1
      <3> QED
        BY <3>5, <3>6, <3>7
    <2>3. ASSUME NEW k \in 1..(n + 1) PROVE rz[k] = tz[k]
      <3>1. k <= Len(rz) /\ k <= Len(tz) /\ k \in Nat \ {0}
        BY <1>4, <1>6, <1>7
      <3>2. Then(rz, u)[k] = rz[k]
        BY <3>1, Place
      <3>3. Then(tz, p)[k] = tz[k]
        BY <3>1, Place
      <3> QED
        BY <1>5, <3>2, <3>3
    <2>4. s = tz
      <3>1. s \in Seq(Nat) /\ tz \in Seq(Nat) /\ Len(s) = Len(tz)
            /\ \A k \in 1..Len(s) : s[k] = tz[k]
        BY <1>4, <1>6, <2>2, <2>3 DEF Bytes
      <3> QED
        BY <3>1, SeqEqual
    <2>5. SubSeq(merchant.serviceRegistryId \o <<0>>, 1, Len(tag) + 1) = tag \o <<0>>
      BY <1>3, <1>4, <1>6, <2>1, <2>4 DEF Then
    <2>6. Len(tag) <= Len(merchant.serviceRegistryId)
      BY <1>3, <1>6, <1>7
    <2> QED
      BY <2>5, <2>6, MerchantAssumption
  <1>8. CASE m < n
    <2>1. PICK k \in Nat \ {0} : k = m + 1
      OBVIOUS
    <2>2. k \in 1..n /\ k <= Len(rz) /\ k <= Len(tz)
      BY <1>4, <1>6, <1>8, <2>1
    <2>3. Then(rz, u)[k] = rz[k]
      BY <2>2, Place
    <2>4. Then(tz, p)[k] = tz[k]
      BY <2>2, Place
    <2>5. rz[k] = 0
      BY <1>4, <1>6, <2>1
    <2>6. tz[k] # 0
      BY <1>2, <1>4, <1>6, <2>2
    <2> QED
      BY <1>5, <2>3, <2>4, <2>5, <2>6
  <1> QED
    BY <1>6, <1>7, <1>8

LEMMA DigestsTell ==
    ASSUME NEW m \in Messages
    PROVE  DigestStandsFor(m)
  <1> SUFFICES ASSUME NEW n \in Messages, Digests(n) \cap Digests(m) # {}
               PROVE  n.kind = m.kind /\ SameEntry(m.kind, n.body, m.body)
    BY DEF DigestStandsFor
  <1>1. m.kind # "reclaim" /\ n.kind # "reclaim"
    BY DEF Digests
  <1>2. CASE m.kind = "merchant" /\ n.kind = "merchant"
    <2>1. m.body \in Merchants /\ n.body \in Merchants
      BY <1>2, KindFacts
    <2>2. DeriveMerchantId(n.body) = DeriveMerchantId(m.body)
      BY <1>2 DEF Digests
    <2>3. SameMerchant(n.body, m.body)
      BY <2>1, <2>2, MerchantIdTells
    <2> QED
      BY <1>2, <2>3 DEF SameEntry
  <1>3. ASSUME NEW x \in Messages, NEW y \in Messages,
               x.kind = "merchant", y.kind \in TaggedKinds
        PROVE  Digests(x) \cap Digests(y) = {}
    <2>1. PICK k \in TaggedKinds, p \in Bytes : Digests(y) = {Then(TagOf(k), p)}
      BY <1>3, TaggedDigest
    <2>2. Digests(x) = {DeriveMerchantId(x.body)} /\ x.body \in Merchants
      BY <1>3, KindFacts DEF Digests
    <2>3. DeriveMerchantId(x.body) # Then(TagOf(k), p)
      BY <2>2, MerchantIsUntagged
    <2> QED
      BY <2>1, <2>2, <2>3
  <1>4. CASE m.kind \in TaggedKinds /\ n.kind \in TaggedKinds
    <2>1. PICK k \in TaggedKinds, l \in TaggedKinds, p \in Bytes, q \in Bytes :
             /\ k = m.kind /\ l = n.kind /\ p = BytesOf(m) /\ q = BytesOf(n)
      BY <1>4, TaggedDigest
    <2>2. Digests(m) = {Then(TagOf(k), p)} /\ Digests(n) = {Then(TagOf(l), q)}
      BY <1>4, <2>1, TaggedDigest
    <2>3. Then(TagOf(k), p) = Then(TagOf(l), q)
      BY <2>2
    <2>4. (k = l \/ {k, l} = {"authorization", "authId"}) /\ p = q
      BY <2>3, TagsTell
    <2>5. ASSUME NEW x \in Messages, NEW y \in Messages, BytesOf(x) = BytesOf(y)
          PROVE  ~(x.kind = "authorization" /\ y.kind = "authId")
      BY <2>5, KindFacts, AuthorizationIsNoId DEF BytesOf
    <2>6. k = l
      <3>1. ~(k = "authorization" /\ l = "authId") /\ ~(k = "authId" /\ l = "authorization")
        BY <2>1, <2>4, <2>5
      <3> QED
        BY <2>4, <3>1
    <2>7. m.body = n.body
      <3>1. m.kind = n.kind /\ BytesOf(m) = BytesOf(n)
        BY <2>1, <2>4, <2>6
      <3>2. CASE m.kind = "intent"
        BY <3>1, <3>2, KindFacts, IntentBytesTell DEF BytesOf
      <3>3. CASE m.kind = "authorization"
        BY <3>1, <3>3, KindFacts, AuthorizationBytesTell DEF BytesOf
      <3>4. CASE m.kind = "authId"
        BY <3>1, <3>4, KindFacts, AuthorizationIdBytesTell DEF BytesOf
      <3>5. CASE m.kind = "leaf"
        BY <3>1, <3>5, KindFacts, LeafBytesTell DEF BytesOf
      <3>6. CASE m.kind = "report"
        BY <3>1, <3>6, KindFacts, ReportBytesTell DEF BytesOf
      <3> QED
        BY <1>4, <3>2, <3>3, <3>4, <3>5, <3>6 DEF TaggedKinds
    <2> QED
      BY <1>4, <2>1, <2>6, <2>7 DEF SameEntry, TaggedKinds
  <1> QED
    BY <1>1, <1>2, <1>3, <1>4, KindFacts

-----------------------------------------------------------------------------
(* Signatures *)

\* An intent is longer than a reclaim that names its agent.
LEMMA IntentIsNoReclaim ==
    ASSUME NEW i \in IntentV1, NEW q \in ReclaimRequestV1, q.agentId # NULL
    PROVE  CanonicalIntentBytes(i) # CanonicalReclaimRequestBytes(q)
  <1>1. PICK F, G : F = IntentRow(i) /\ G = ReclaimRow(q)
    OBVIOUS
  <1>2. /\ IsRow(F) /\ CanonicalIntentBytes(i) = Row(F)
        /\ IsRow(G) /\ CanonicalReclaimRequestBytes(q) = Row(G)
    BY <1>1, IntentIsRow, ReclaimIsRow
  <1>3. PICK H \in Nat, U \in Nat, S \in Nat :
           /\ H = HashWidth /\ U = Uint64Width /\ S = Uint16Width
           /\ H > 0 /\ U > 0 /\ S > 0
    BY BaseFacts
  <1>4. /\ Len(F[1]) = 1 /\ Len(F[2]) = H /\ Len(F[3]) = 1 /\ Len(F[5]) = U
        /\ Len(F[6]) = U /\ Len(F[7]) = H /\ Len(F[9]) = U /\ Len(F[10]) = H
        /\ Len(F[11]) = 1
    <2>1. /\ i.agentId \in Hex32 /\ i.merchantId \in Hex32 /\ i.requestId \in Hex32
          /\ i.agentNonce \in Uint64 /\ i.amountMicros \in Uint64
          /\ i.expiresAt \in Uint64
      BY DEF IntentV1
    <2>2. SchemeCode(i.signatureScheme) \in Nat /\ OptionalBitmap(i) \in Nat
      BY DEF SchemeCode, OptionalBitmap
    <2>3. /\ F[1] = EncodeU8(1) /\ F[2] = EncodeHex32(i.agentId)
          /\ F[3] = EncodeU8(SchemeCode(i.signatureScheme))
          /\ F[5] = EncodeU64(i.agentNonce) /\ F[6] = EncodeU64(i.amountMicros)
          /\ F[7] = EncodeHex32(i.merchantId) /\ F[9] = EncodeU64(i.expiresAt)
          /\ F[10] = EncodeHex32(i.requestId) /\ F[11] = EncodeU8(OptionalBitmap(i))
      BY <1>1 DEF IntentRow
    <2>4. Len(F[1]) = 1 /\ Len(F[3]) = 1 /\ Len(F[11]) = 1
      BY <2>2, <2>3, U8Apart
    <2>5. Len(F[2]) = H /\ Len(F[7]) = H /\ Len(F[10]) = H
      BY <1>3, <2>1, <2>3, HexApart
    <2>6. Len(F[5]) = U /\ Len(F[6]) = U /\ Len(F[9]) = U
      BY <1>3, <2>1, <2>3, U64Apart
    <2> QED
      BY <2>4, <2>5, <2>6
  <1>5. /\ Len(F[4]) \in Nat /\ Len(F[4]) >= S /\ Len(F[8]) \in Nat
        /\ Len(F[12]) \in Nat /\ Len(F[13]) \in Nat
    <2>1. PICK t \in Text : t = i.agentPubKey
      BY DEF IntentV1
    <2>2. F[4] = EncodeUtf8WithU16Length(t)
      BY <1>1, <2>1, TextApart DEF IntentRow
    <2>3. Len(F[4]) = S + Len(t)
      BY <1>3, <2>2, TextApart
    <2>4. Len(t) \in Nat
      BY LenProperties DEF Text
    <2>5. \A k \in 1..13 : Len(F[k]) \in Nat
      BY <1>2, LenProperties DEF IsRow, Bytes
    <2>6. Len(F[4]) >= S
      BY <2>3, <2>4
    <2>7. 4 \in 1..13 /\ 8 \in 1..13 /\ 12 \in 1..13 /\ 13 \in 1..13
      OBVIOUS
    <2> QED
      BY <2>5, <2>6, <2>7
  <1>6. /\ Len(G[1]) = H /\ Len(G[2]) = 1 /\ Len(G[3]) = S /\ Len(G[4]) = H
        /\ Len(G[5]) = U /\ \A k \in 6..13 : Len(G[k]) = 0
    <2>1. q.authId \in Hex32 /\ q.agentId \in Hex32 /\ q.requestedAt \in Uint64
      BY DEF ReclaimRequestV1
    <2>2. CallerTypeCode(q.callerType) \in Nat
      BY DEF CallerTypeCode
    <2>3. /\ G[1] = EncodeHex32(q.authId) /\ G[2] = EncodeU8(CallerTypeCode(q.callerType))
          /\ G[3] = EncodeU16(HashWidth) /\ G[4] = EncodeHex32(q.agentId)
          /\ G[5] = EncodeU64(q.requestedAt) /\ \A k \in 6..13 : G[k] = << >>
      BY <1>1 DEF ReclaimRow
    <2>4. Len(G[1]) = H /\ Len(G[4]) = H
      BY <1>3, <2>1, <2>3, HexApart
    <2>5. Len(G[2]) = 1
      BY <2>2, <2>3, U8Apart
    <2>6. Len(G[3]) = S
      BY <1>3, <2>3, U16Apart
    <2>7. Len(G[5]) = U
      BY <1>3, <2>1, <2>3, U64Apart
    <2>8. \A k \in 6..13 : Len(G[k]) = 0
      BY <2>3, NoMore
    <2> QED
      BY <2>4, <2>5, <2>6, <2>7, <2>8
  <1>7. Len(Row(F)) >= 3 + H + H + H + U + U + U + S
    <2>1. Len(Row(F)) = Len(F[1]) + Len(F[2]) + Len(F[3]) + Len(F[4]) + Len(F[5])
                        + Len(F[6]) + Len(F[7]) + Len(F[8]) + Len(F[9])
                        + Len(F[10]) + Len(F[11]) + Len(F[12]) + Len(F[13])
      BY <1>2, RowFacts
    <2>2. Len(Row(F)) = 1 + H + 1 + Len(F[4]) + U + U + H + Len(F[8]) + U + H + 1
                        + Len(F[12]) + Len(F[13])
      BY <1>4, <2>1
    <2>3. PICK b \in Nat, d \in Nat, e \in Nat, f \in Nat :
             b = Len(F[4]) /\ d = Len(F[8]) /\ e = Len(F[12]) /\ f = Len(F[13]) /\ b >= S
      BY <1>5
    <2>4. Len(Row(F)) = 1 + H + 1 + b + U + U + H + d + U + H + 1 + e + f
      BY <2>2, <2>3
    <2>5. 1 + H + 1 + b + U + U + H + d + U + H + 1 + e + f >= 3 + H + H + H + U + U + U + S
      <3>1. b >= S
        BY <2>3
      <3> QED
        BY <3>1
    <2> QED
      BY <2>4, <2>5
  <1>8. Len(Row(G)) = 1 + H + H + S + U
    <2>1. /\ Len(G[6]) = 0 /\ Len(G[7]) = 0 /\ Len(G[8]) = 0 /\ Len(G[9]) = 0
          /\ Len(G[10]) = 0 /\ Len(G[11]) = 0 /\ Len(G[12]) = 0 /\ Len(G[13]) = 0
      BY <1>6
    <2> QED
      <3>1. Len(Row(G)) = Len(G[1]) + Len(G[2]) + Len(G[3]) + Len(G[4]) + Len(G[5])
                          + Len(G[6]) + Len(G[7]) + Len(G[8]) + Len(G[9])
                          + Len(G[10]) + Len(G[11]) + Len(G[12]) + Len(G[13])
        BY <1>2, RowFacts
      <3>2. Len(Row(G)) = H + 1 + S + H + U + 0 + 0 + 0 + 0 + 0 + 0 + 0 + 0
        BY <1>6, <2>1, <3>1
      <3> QED
        BY <3>2
  <1>9. Len(Row(F)) # Len(Row(G))
    BY <1>7, <1>8
  <1> QED
    BY <1>2, <1>9

LEMMA SignaturesTell ==
    ASSUME NEW m \in Signed
    PROVE  SignatureStandsFor(m)
  <1> SUFFICES ASSUME NEW n \in Signed, SignerOf(n) = SignerOf(m), Payload(n) = Payload(m)
               PROVE  n.kind = m.kind /\ SameBody(m.kind, n.body, m.body)
    BY DEF SignatureStandsFor
  <1>1. /\ m \in Messages /\ m.kind \in {"intent", "reclaim", "authorization", "report"}
        /\ n \in Messages /\ n.kind \in {"intent", "reclaim", "authorization", "report"}
    BY DEF Signed, Messages, Of
  <1>2. /\ n.kind = "authorization" <=> m.kind = "authorization"
        /\ n.kind = "report" <=> m.kind = "report"
    <2>1. \A x \in {m, n} :
             /\ x.kind \in {"intent", "reclaim"} =>
                   SignerOf(x) = <<x.body.signatureScheme, AgentOf(x)>>
             /\ x.kind = "authorization" => SignerOf(x) = <<"sequencer">>
             /\ x.kind = "report" => SignerOf(x) = <<"relayer">>
      BY DEF SignerOf
    <2>2. \A a, b : <<a, b>> # <<"sequencer">> /\ <<a, b>> # <<"relayer">>
      OBVIOUS
    <2>3. <<"sequencer">> # <<"relayer">>
      OBVIOUS
    <2> QED
      BY <1>1, <2>1, <2>2, <2>3
  <1>3. CASE m.kind = "authorization"
    <2>1. m.body \in AuthorizationV1 /\ n.body \in AuthorizationV1
      BY <1>1, <1>2, <1>3, KindFacts
    <2>2. CanonicalAuthorizationBytes(n.body) = CanonicalAuthorizationBytes(m.body)
      BY <1>2, <1>3 DEF Payload, AuthorizationPayload
    <2> QED
      BY <1>2, <1>3, <2>1, <2>2, AuthorizationBytesTell DEF SameBody
  <1>4. CASE m.kind = "report"
    <2>1. m.body \in ExecutionReportV1 /\ n.body \in ExecutionReportV1
      BY <1>1, <1>2, <1>4, KindFacts
    <2>2. CanonicalExecutionReportBytes(n.body) = CanonicalExecutionReportBytes(m.body)
      BY <1>2, <1>4 DEF Payload, ReportPayload
    <2> QED
      BY <1>2, <1>4, <2>1, <2>2, ReportBytesTell DEF SameBody
  <1>5. CASE m.kind \in {"intent", "reclaim"}
    <2>1. n.kind \in {"intent", "reclaim"}
      BY <1>1, <1>2, <1>5
    <2>2. n.body.signatureScheme = m.body.signatureScheme
      BY <1>5, <2>1 DEF SignerOf
    <2>3. ASSUME NEW x \in Messages, NEW y \in Messages,
                 x.kind = "intent", y.kind = "reclaim",
                 x.body.signatureScheme = y.body.signatureScheme
          PROVE  Payload(x) # Payload(y)
      <3>1. Payload(x) = IntentPayload(x.body)
        BY <2>3 DEF Payload
      <3>2. Payload(y) = ReclaimPayload(y.body.signatureScheme, y.body.request)
        BY <2>3 DEF Payload
      <3>3. CASE x.body.signatureScheme = "eip712-secp256k1"
        <4>1. Payload(x).primaryType = "IntentV1"
          BY <3>1, <3>3 DEF IntentPayload, IntentTypedData
        <4>2. Payload(y).primaryType = "ReclaimV1"
          BY <2>3, <3>2, <3>3 DEF ReclaimPayload, ReclaimTypedData
        <4> QED
          BY <4>1, <4>2
      <3>4. CASE x.body.signatureScheme # "eip712-secp256k1"
        <4>1. Payload(x) = CanonicalIntentBytes(x.body)
          BY <3>1, <3>4 DEF IntentPayload
        <4>2. Payload(y) = CanonicalReclaimRequestBytes(y.body.request)
          BY <2>3, <3>2, <3>4 DEF ReclaimPayload
        <4>3. x.body \in IntentV1
          BY <2>3, KindFacts
        <4>4. y.body.request \in ReclaimRequestV1 /\ y.body.request.agentId # NULL
          BY <2>3, KindFacts
        <4> QED
          BY <4>1, <4>2, <4>3, <4>4, IntentIsNoReclaim
      <3> QED
        BY <3>3, <3>4
    <2>4. n.kind = m.kind
      BY <1>1, <1>5, <2>1, <2>2, <2>3
    <2>5. CASE m.kind = "intent"
      <3>1. IntentPayload(n.body) = IntentPayload(m.body)
        BY <2>4, <2>5 DEF Payload
      <3>2. m.body \in IntentV1 /\ n.body \in IntentV1
        BY <1>1, <2>4, <2>5, KindFacts
      <3>3. CASE n.body.signatureScheme = "eip712-secp256k1"
        <4>1. IntentTypedData(n.body) = IntentTypedData(m.body)
          BY <2>2, <3>1, <3>3 DEF IntentPayload
        <4>2. IntentTypedData(n.body).message = IntentTypedData(m.body).message
          BY <4>1
        <4>3. SameIntent(n.body, m.body)
          BY <3>3, <4>2 DEF IntentTypedData, SameIntent
        <4> QED
          BY <2>4, <2>5, <4>3 DEF SameBody
      <3>4. CASE n.body.signatureScheme # "eip712-secp256k1"
        <4>1. CanonicalIntentBytes(n.body) = CanonicalIntentBytes(m.body)
          BY <2>2, <3>1, <3>4 DEF IntentPayload
        <4>2. n.body = m.body
          BY <3>2, <4>1, IntentBytesTell
        <4> QED
          BY <2>4, <2>5, <3>4, <4>2 DEF SameBody, SameIntent
      <3> QED
        BY <3>3, <3>4
    <2>6. CASE m.kind = "reclaim"
      <3>1. PICK q \in ReclaimRequestV1, r \in ReclaimRequestV1 :
               /\ q = n.body.request /\ r = m.body.request
               /\ q.agentId # NULL /\ r.agentId # NULL
        BY <1>1, <2>4, <2>6, KindFacts
      <3>2. PICK s : s = n.body.signatureScheme /\ s = m.body.signatureScheme
        BY <2>2
      <3>3. ReclaimPayload(s, q) = ReclaimPayload(s, r)
        BY <2>4, <2>6, <3>1, <3>2 DEF Payload
      <3>4. q = r
        <4>1. CASE s = "eip712-secp256k1"
          <5>1. ReclaimTypedData(q) = ReclaimTypedData(r)
            BY <3>3, <4>1 DEF ReclaimPayload
          <5>2. ReclaimTypedData(q).message = ReclaimTypedData(r).message
            BY <5>1
          <5>3. ASSUME NEW x \in ReclaimRequestV1, x.agentId # NULL
                PROVE  ReclaimTypedData(x).message = x
            BY <5>3 DEF ReclaimTypedData, OrZero, ReclaimRequestV1
          <5> QED
            BY <3>1, <5>2, <5>3
        <4>2. CASE s # "eip712-secp256k1"
          <5>1. CanonicalReclaimRequestBytes(q) = CanonicalReclaimRequestBytes(r)
            BY <3>3, <4>2 DEF ReclaimPayload
          <5> QED
            BY <3>1, <5>1, ReclaimBytesTell
        <4> QED
          BY <4>1, <4>2
      <3>5. n.body = m.body
        <4>1. ASSUME NEW x \in Messages, x.kind = "reclaim"
              PROVE  x.body = [signatureScheme |-> x.body.signatureScheme,
                               request |-> x.body.request]
          BY <4>1, KindFacts
        <4> QED
          BY <1>1, <2>4, <2>6, <3>1, <3>2, <3>4, <4>1
      <3> QED
        BY <2>4, <2>6, <3>5 DEF SameBody
    <2> QED
      BY <1>5, <2>5, <2>6
  <1> QED
    BY <1>1, <1>3, <1>4, <1>5

-----------------------------------------------------------------------------

FormatsTypeOK == message \in Messages \cup {NULL}

\* What is verified or looked up is what was signed or stored: every signature of
\* a key shows one message and every filed hash one entry, at every width of the
\* fields and for any messages the encoders take.
THEOREM OneMessageEach == FormatsSpec => []BytesStandForOneMessage
  <1>1. FormatsInit => FormatsTypeOK
    BY DEF FormatsInit, FormatsTypeOK
  <1>2. FormatsTypeOK /\ [FormatsNext]_wireVars => FormatsTypeOK'
    <2> SUFFICES ASSUME FormatsTypeOK, [FormatsNext]_wireVars
                 PROVE  FormatsTypeOK'
      OBVIOUS
    <2>1. CASE GrowEpoch
      BY <2>1 DEF GrowEpoch, FormatsTypeOK
    <2>2. ASSUME NEW m \in Messages, Make(m) PROVE FormatsTypeOK'
      BY <2>2 DEF Make, FormatsTypeOK
    <2>3. CASE UNCHANGED wireVars
      BY <2>3 DEF wireVars, FormatsTypeOK
    <2> QED
      BY <2>1, <2>2, <2>3 DEF FormatsNext
  <1>3. FormatsTypeOK => BytesStandForOneMessage
    <2> SUFFICES ASSUME FormatsTypeOK, message # NULL
                 PROVE  /\ message \in Signed => SignatureStandsFor(message)
                        /\ DigestStandsFor(message)
      BY DEF BytesStandForOneMessage
    <2>1. message \in Messages
      BY DEF FormatsTypeOK
    <2> QED
      BY <2>1, SignaturesTell, DigestsTell
  <1> QED
    BY <1>1, <1>2, <1>3, PTL DEF FormatsSpec
=============================================================================
