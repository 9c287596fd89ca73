SPECIFICATION TxFairSpec
CONSTANTS
    alice = alice  bob = bob  keyA = keyA  keyB = keyB
    req1 = req1  base = base  relayer1 = relayer1
    NULL = NULL
    Sessions = {s1, s2}
    Agents = {alice, bob}
    PubKeys = {keyA, keyB}
    RequestIds = {req1}
    ChainRefs = {base}
    SupportedChainRefs = {base}
    Intents <- MCIntents
    RelayerKeyIds = {relayer1}
    ActiveRelayerKeys <- MCRelayerKeys
    ReportIds = {rep1}
    TxHashes = {tx1}
    GraceSeconds = 1
    SweepLimit = 1
    CreditAmounts = {1}
    MaxCredit = 2
    MaxClock = 1
INVARIANTS
    AnswersAgree
    OnlyReplayAndReclaimDeadlock
PROPERTY
    ImplementsLedger
    RequestsEnd
CHECK_DEADLOCK FALSE
