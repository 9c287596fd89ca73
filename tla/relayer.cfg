SPECIFICATION SystemFairSpec
CONSTANTS
    alice = alice  keyA = keyA  req1 = req1
    base = base  solana = solana  relayer1 = relayer1
    call1 = call1  call2 = call2  rep1 = rep1  rep2 = rep2
    tx1 = tx1  tx2 = tx2
    NULL = NULL
    Agents = {alice}
    PubKeys = {keyA}
    RequestIds = {req1}
    ChainRefs = {base, solana}
    SupportedChainRefs = {base, solana}
    Intents <- MCIntents
    RelayerKeyIds = {relayer1}
    ActiveRelayerKeys <- MCRelayerKeys
    ReportIds = {rep1, rep2}
    TxHashes = {tx1, tx2}
    GraceSeconds = 0
    SweepLimit = 2
    CreditAmounts = {1}
    MaxCredit = 1
    MaxClock = 3
    Relayers <- MCRelayers
    Calls = {call1, call2}
    MerchantRequestOf <- MCMerchantRequestOf
    ReportIdOf <- MCReportIdOf
    TxHashesOf <- MCTxHashesOf
    RequestOf <- MCRequestOf
    ExpiresIn = 1
    Configurations <- MCConfigurations
INVARIANTS
    ExecutionsPaid
    DoneIsRecorded
PROPERTIES
    RefundedIsNotAccepted
    PaysSettle
CHECK_DEADLOCK FALSE
