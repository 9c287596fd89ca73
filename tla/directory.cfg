SPECIFICATION Spec
CONSTANTS
    NULL = NULL
    o1 = o1
    o2 = o2
    zero = zero
    UNAVAILABLE = UNAVAILABLE
    Accounts <- MCAccounts
    Names <- MCNames
    Addresses <- MCAddresses
    Uris <- MCUris
    InlineUris <- MCInlineUris
    DocumentAt <- MCDocumentAt
    HttpsAddresses <- MCHttps
    UrlObjects <- MCUrlObjects
    BlankAccounts = {zero}
    Agents = {g}
    Owners <- MCOwners
    Metadata <- MCMetadata
    Scores <- MCScores
    Configurations <- MCConfigurations
    Policies <- MCPolicies
    Filters <- MCFilters
    DefaultFilter <- MCNoFilter
    Calls = {c1, c2}
    CacheTtl = 1
    MaxCall = 1
    MaxEvents = 5
    MaxClock = 2
INVARIANTS
    AnswersAreRecent
    AbsenceIsReported
    PayeesAreCurrent
PROPERTIES
    IndexFollowsLog
SYMMETRY MCSymmetry
CONSTRAINT Small
CHECK_DEADLOCK FALSE
