SPECIFICATION Spec
CONSTANTS
    alice = alice  bob = bob  keyA = keyA  keyB = keyB
    req1 = req1  req2 = req2  req3 = req3
    base = base  solana = solana  other = other  relayer1 = relayer1
    NULL = NULL
    Agents = {alice, bob}
    PubKeys = {keyA, keyB}
    RequestIds = {req1, req2, req3}
    ChainRefs = {base, solana, other}
    SupportedChainRefs = {base, solana}
    Intents <- MCIntents
    RelayerKeyIds = {relayer1}
    ActiveRelayerKeys <- MCRelayerKeys
    ReportIds = {rep1, rep2}
    TxHashes = {tx1, tx2}
    GraceSeconds = 1
    SweepLimit = 1
    CreditAmounts = {2}
    MaxCredit = 2
    MaxClock = 2
SYMMETRY ReportSymmetry
INVARIANTS
    TypeOK
    CreditConserved
    SettledOnce
    IdempotencyExact
    LogHashChain
    CommitmentsProvable
    CountersMatchTable
PROPERTIES
    SettlementIsFinal
    LogIsAppendOnly
CHECK_DEADLOCK FALSE
