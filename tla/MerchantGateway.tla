--------------------------- MODULE MerchantGateway ---------------------------
(***************************************************************************)
(* The merchant's side of a shielded payment: the gateway's middleware     *)
(* (services/merchant-gateway), the SDK that issues and checks challenges  *)
(* (sdk/merchant) and the adapters that read the pool and settle on it.    *)
(* The middleware handles requests concurrently and other requests run at  *)
(* each of its awaits: one action is what it does from one await to the    *)
(* next.                                                                   *)
(*                                                                         *)
(* The pool is reduced to what submitSpend does for a payment whose proof  *)
(* is good: it succeeds exactly when the nullifier is unused, and leaves a *)
(* spend record for the challenge.  Payments come from honest wallets, so  *)
(* their proofs and signatures are good; wallets send a payment as often   *)
(* as they like, against any challenge they were given, and may submit it  *)
(* to the pool themselves.  The adapters are those of the safe mode, which *)
(* read and settle on chain.                                               *)
(***************************************************************************)
EXTENDS Integers, FiniteSets

CONSTANTS
    Nullifiers, Nonces, Requests,
    Price, Amounts,       \* the merchant's price, the amounts wallets pay
    ChallengeTtl,         \* challengeTtlMs
    MaxTime, MaxFailures  \* bounds of the model

ASSUME GatewayConstants ==
    /\ Price \in Amounts /\ Amounts \subseteq Nat \ {0}
    /\ {ChallengeTtl, MaxTime, MaxFailures} \subseteq Nat

VARIABLES
    clock, failures,
    issued,           \* the challenge nonces handed out
    activeChallenges, \* nonce -> when its challenge expires
    accepted,         \* nullifier -> has its record a txHash
    at, paying,       \* for each request: where it is, the payment it carries
    mempool,          \* requests whose submitSpend waits to be included
    receipts,         \* request -> status of its included transaction
    spendRecords      \* the pool's spend records, by nullifier, and by whom

sdkVars == <<activeChallenges, accepted>>
requestVars == <<at, paying>>
chainVars == <<mempool, receipts, spendRecords>>
vars == <<clock, failures, issued, sdkVars, requestVars, chainVars>>

Payment == [nullifier: Nullifiers, nonce: Nonces, amount: Amounts]
Wallet == "wallet"          \* who submitted a spend that no request did
ChallengeHash(nonce, amount) == <<nonce, amount>>

\* Where a request can be: the await it is in, and how it was answered.
Awaits == {"isNullifierUsed", "verifyProof", "recoverAddress", "settleOnchain",
           "writeContract", "receipt"}
Answers == {"served", "402", "409", "500", "502", "lost"}

Init ==
    /\ clock = 0 /\ failures = 0
    /\ issued = {}
    /\ activeChallenges = << >> /\ accepted = << >>
    /\ at = << >> /\ paying = << >>
    /\ mempool = {} /\ receipts = << >> /\ spendRecords = << >>

Put(f, x, v) == [y \in DOMAIN f \cup {x} |-> IF y = x THEN v ELSE f[y]]
Remove(f, x) == [y \in DOMAIN f \ {x} |-> f[y]]

IsNullifierUsed(nullifier) == nullifier \in DOMAIN spendRecords

GoTo(r, place) ==
    at' = [at EXCEPT ![r] = place] /\ UNCHANGED <<clock, issued, paying>>

-----------------------------------------------------------------------------
(* ShieldedMerchantSDK *)

\* issue402 draws a nonce nobody had before.
Issue402(nonce) ==
    /\ nonce \notin issued
    /\ issued' = issued \cup {nonce}
    /\ activeChallenges' = Put(activeChallenges, nonce, clock + ChallengeTtl)
    /\ UNCHANGED <<clock, failures, accepted, requestVars, chainVars>>

\* verifyShieldedPayment up to its first await.
ChallengeActive(nonce) ==
    nonce \in DOMAIN activeChallenges /\ clock <= activeChallenges[nonce]
PaysTheChallenge(p) == ChallengeHash(p.nonce, p.amount) = ChallengeHash(p.nonce, Price)

Request(r, p) ==
    /\ r \notin DOMAIN at
    /\ p.nonce \in issued
    /\ paying' = Put(paying, r, p)
    /\ at' = Put(at, r, IF ChallengeActive(p.nonce) /\ PaysTheChallenge(p)
                        THEN "isNullifierUsed" ELSE "402")
    /\ UNCHANGED <<clock, failures, issued, sdkVars, chainVars>>

CheckNullifier(r) ==
    /\ at[r] = "isNullifierUsed"
    /\ GoTo(r, IF IsNullifierUsed(paying[r].nullifier) THEN "402" ELSE "verifyProof")
    /\ UNCHANGED <<failures, sdkVars, chainVars>>

VerifyProof(r) ==
    /\ at[r] = "verifyProof"
    /\ GoTo(r, "recoverAddress")
    /\ UNCHANGED <<failures, sdkVars, chainVars>>

\* The rest of verifyShieldedPayment; markNullifierUsed does nothing on chain.
AcceptPayment(r) ==
    LET p == paying[r]
    IN  /\ at[r] = "recoverAddress"
        /\ activeChallenges' = Remove(activeChallenges, p.nonce)
        /\ accepted' = Put(accepted, p.nullifier, FALSE)
        /\ GoTo(r, "settleOnchain")
        /\ UNCHANGED <<failures, chainVars>>

ConfirmSettlement(nullifier) ==
    accepted' = IF nullifier \in DOMAIN accepted
                THEN [accepted EXCEPT ![nullifier] = TRUE] ELSE accepted

-----------------------------------------------------------------------------
(* settleOnchain *)

ReadSettled(r) ==
    /\ at[r] = "settleOnchain"
    /\ GoTo(r, IF IsNullifierUsed(paying[r].nullifier) THEN "409" ELSE "writeContract")
    /\ UNCHANGED <<failures, sdkVars, chainVars>>

\* writeContract estimates the gas, which fails for a call that would revert.
WriteContract(r) ==
    /\ at[r] = "writeContract"
    /\ IF IsNullifierUsed(paying[r].nullifier)
       THEN GoTo(r, "502") /\ UNCHANGED mempool
       ELSE GoTo(r, "receipt") /\ mempool' = mempool \cup {r}
    /\ UNCHANGED <<failures, sdkVars, receipts, spendRecords>>

\* The middleware goes on with the receipt; a transaction that reverted is an
\* error.
ReceiptUnchecked(r) == "served"
ReadTooLate(r) ==
    IF IsNullifierUsed(paying[r].nullifier) THEN "409" ELSE "502"
OnReceipt(r) == IF receipts[r] = "success" THEN "served" ELSE "502"

WaitsForSuccess(r) == r \in DOMAIN receipts /\ receipts[r] = "success"
HasReceipt(r) == r \in DOMAIN receipts

FinishSettlement(r) ==
    /\ at[r] = "receipt"
    /\ HasReceipt(r)
    /\ GoTo(r, OnReceipt(r))
    /\ IF OnReceipt(r) = "served"
       THEN ConfirmSettlement(paying[r].nullifier) ELSE UNCHANGED accepted
    /\ UNCHANGED <<failures, activeChallenges, chainVars>>

-----------------------------------------------------------------------------
(* What goes wrong: a call to the RPC node fails or times out, with or      *)
(* without effect, or the gateway is restarted.                             *)

Fail == failures < MaxFailures /\ failures' = failures + 1

\* An error in a hook rejects the middleware, which express answers with 500;
\* one in settleOnchain is caught.  A transaction may have been sent.
CallFails(r) ==
    /\ Fail
    /\ \/ /\ at[r] \in {"isNullifierUsed", "verifyProof"}
          /\ GoTo(r, "500") /\ UNCHANGED mempool
       \/ /\ at[r] \in {"settleOnchain", "writeContract", "receipt"}
          /\ GoTo(r, "502") /\ UNCHANGED mempool
       \/ /\ at[r] = "writeContract"
          /\ GoTo(r, "502") /\ mempool' = mempool \cup {r}
    /\ UNCHANGED <<sdkVars, receipts, spendRecords>>

Restart ==
    /\ Fail
    /\ activeChallenges' = << >> /\ accepted' = << >>
    /\ at' = [r \in DOMAIN at |-> IF at[r] \in Awaits THEN "lost" ELSE at[r]]
    /\ UNCHANGED <<clock, issued, paying, chainVars>>

-----------------------------------------------------------------------------
(* The chain: ShieldedPool.submitSpend for a request's transaction or for a *)
(* wallet that submits its payment itself.                                  *)

SpendGoesThrough(nullifier) == ~IsNullifierUsed(nullifier)

Spend(p, by) ==
    spendRecords' = Put(spendRecords, p.nullifier,
                        [amount |-> p.amount, by |-> by,
                         challengeHash |-> ChallengeHash(p.nonce, p.amount)])

Include(r) ==
    /\ r \in mempool
    /\ mempool' = mempool \ {r}
    /\ IF SpendGoesThrough(paying[r].nullifier)
       THEN receipts' = Put(receipts, r, "success") /\ Spend(paying[r], r)
       ELSE receipts' = Put(receipts, r, "reverted") /\ UNCHANGED spendRecords
    /\ UNCHANGED <<clock, failures, issued, sdkVars, requestVars>>

WalletSubmits(p) ==
    /\ p.nonce \in issued
    /\ SpendGoesThrough(p.nullifier)
    /\ Spend(p, Wallet)
    /\ UNCHANGED <<clock, failures, issued, sdkVars, requestVars, mempool, receipts>>

Tick ==
    /\ clock < MaxTime
    /\ clock' = clock + 1
    /\ UNCHANGED <<failures, issued, sdkVars, requestVars, chainVars>>

Handle(r) ==
    \/ CheckNullifier(r) \/ VerifyProof(r) \/ AcceptPayment(r)
    \/ ReadSettled(r) \/ WriteContract(r) \/ FinishSettlement(r)

Next ==
    \/ \E nonce \in Nonces : Issue402(nonce)
    \/ \E r \in Requests, p \in Payment : Request(r, p)
    \/ \E r \in DOMAIN at : Handle(r) \/ CallFails(r)
    \/ Restart
    \/ \E r \in mempool : Include(r)
    \/ \E p \in Payment : WalletSubmits(p)
    \/ Tick

Spec == Init /\ [][Next]_vars

\* The event loop runs every continuation, calls answer or time out, and the
\* chain includes what was sent.
FairSpec ==
    /\ Spec
    /\ \A r \in Requests :
          /\ WF_vars(r \in DOMAIN at /\ Handle(r))
          /\ WF_vars(Include(r))

-----------------------------------------------------------------------------
TypeOK ==
    /\ clock \in 0..MaxTime /\ failures \in 0..MaxFailures
    /\ issued \subseteq Nonces
    /\ DOMAIN activeChallenges \subseteq issued
    /\ \A n \in DOMAIN activeChallenges :
          activeChallenges[n] \in ChallengeTtl..(clock + ChallengeTtl)
    /\ DOMAIN accepted \subseteq Nullifiers
    /\ \A n \in DOMAIN accepted : accepted[n] \in BOOLEAN
    /\ DOMAIN at \subseteq Requests /\ DOMAIN paying = DOMAIN at
    /\ \A r \in DOMAIN at : at[r] \in Awaits \cup Answers /\ paying[r] \in Payment
    /\ mempool \subseteq DOMAIN at /\ DOMAIN receipts \subseteq DOMAIN at
    /\ mempool \cap DOMAIN receipts = {}
    /\ \A r \in DOMAIN receipts : receipts[r] \in {"success", "reverted"}
    /\ DOMAIN spendRecords \subseteq Nullifiers
    /\ {r \in DOMAIN receipts : receipts[r] = "success"} =
          {spendRecords[n].by : n \in DOMAIN spendRecords} \ {Wallet}

\* A payment is served at most once: however its wallet repeats the request,
\* whatever order the awaits of the handlers end in, and over restarts, no two
\* requests with one nullifier both reach the handler behind the middleware.
ServedOnce ==
    \A r, s \in DOMAIN at :
        /\ at[r] = "served" /\ at[s] = "served"
        /\ paying[r].nullifier = paying[s].nullifier
        => r = s

\* What is served is paid for: the request's own submitSpend went through, and
\* the pool's record lets the merchant withdraw its price with a challenge it
\* issued.
ServedIsPaid ==
    \A r \in DOMAIN at : at[r] = "served" =>
        /\ paying[r].nonce \in issued
        /\ IsNullifierUsed(paying[r].nullifier)
        /\ spendRecords[paying[r].nullifier] =
              [amount |-> Price, by |-> r,
               challengeHash |-> ChallengeHash(paying[r].nonce, Price)]

\* Every request is answered, also when its transaction reverts because another
\* request or the wallet was faster, and when calls fail on the way.
RequestsAnswered ==
    \A r \in Requests :
        r \in DOMAIN at /\ at[r] \in Awaits
           ~> r \in DOMAIN at /\ at[r] \in Answers

\* A wallet that was charged for a request gets what it paid for, as long as no
\* call fails and the gateway is not restarted.
PaidIsServed ==
    \A r \in Requests :
        r \in DOMAIN receipts /\ receipts[r] = "success" /\ failures = 0
           ~> r \in DOMAIN at /\ (at[r] = "served" \/ failures > 0)
=============================================================================
