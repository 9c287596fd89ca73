SPECIFICATION FairSpec
CONSTANTS
    alice = alice  bob = bob  keyA = keyA  keyB = keyB
    req1 = req1  req2 = req2  req3 = req3
    base = base  solana = solana  other = other  relayer1 = relayer1
    NULL = NULL
    Agents = {alice, bob}
    PubKeys = {keyA, keyB}
    RequestIds = {req1, req2, req3}
    ChainRefs = {base, solana, other}
    SupportedChainRefs = {base, solana}
    Intents <- MCIntents
    RelayerKeyIds = {relayer1}
    ActiveRelayerKeys <- MCRelayerKeys
    ReportIds = {rep1}
    TxHashes = {tx1}
    GraceSeconds = 1
    SweepLimit = 1
    CreditAmounts = {2}
    MaxCredit = 2
    MaxClock = 2
PROPERTIES
    EveryAuthorizationSettles
    EveryLeafCommitted
    ImplementsEscrow
CHECK_DEADLOCK FALSE
