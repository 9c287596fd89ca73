SPECIFICATION FairSpec
CONSTANTS
    Nullifiers = {note1, note2}
    Nonces = {nonce1, nonce2}
    Requests = {r1, r2}
    Price = 2
    Amounts = {1, 2}
    ChallengeTtl = 0
    MaxTime = 1
    MaxFailures = 1
INVARIANTS
    ServedIsPaid
PROPERTIES
    RequestsAnswered
    PaidIsServed
CHECK_DEADLOCK FALSE
