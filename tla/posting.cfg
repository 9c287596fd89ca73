SPECIFICATION PostingFairSpec
CONSTANTS
    alice = alice  keyA = keyA  base = base
    req1 = req1  req2 = req2  req3 = req3
    NULL = NULL
    Agents = {alice}
    PubKeys = {keyA}
    RequestIds = {req1, req2, req3}
    ChainRefs = {base}
    SupportedChainRefs = {base}
    Intents <- MCIntents
    RelayerKeyIds = {}
    ActiveRelayerKeys = {}
    ReportIds = {}
    TxHashes = {}
    GraceSeconds = 0
    SweepLimit = 1
    CreditAmounts = {3}
    MaxCredit = 3
    MaxClock = 0
    OverlappingRuns = TRUE
    EstimateBlocks = {"latest", "pending"}
    MaxFailures = 2
    Configurations = {TRUE, FALSE}
INVARIANTS
    RegistryFollowsLedger
PROPERTY
    UndisturbedEpochsPosted
CHECK_DEADLOCK FALSE
