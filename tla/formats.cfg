SPECIFICATION FormatsSpec
CONSTANTS
    Leaves = {leaf1, leaf2, leaf3}
    EmptyRoot = emptyRoot
    MaxLeaves = 6
    NULL = NULL
    Base = 4
    HashWidth = 2
    Uint64Width = 2
    Uint16Width = 1
    Intents <- MCIntents
    Reclaims <- MCReclaims
    Authorizations <- MCAuthorizations
    Reports <- MCReports
    AuthIds <- MCAuthIds
    LeafInputs <- MCLeafInputs
    Merchants <- MCMerchants
INVARIANTS
    ProofsExact
    BytesStandForOneMessage
CHECK_DEADLOCK FALSE
