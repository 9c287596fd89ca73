SPECIFICATION Spec
CONSTANTS
    wallet = wallet  merchant = merchant  shop = shop  stranger = stranger
    TreeDepth = 3
    ZeroLeaf <- MCZeroLeaf
    Owner = wallet
    MerchantPubKey = merchant
    Nonces = {nonce1}
    Secrets = {secret1, secret2}
    secret1 = secret1  secret2 = secret2
    Recipients = {shop, stranger}
    Merchant = shop
    NoteAmounts = {2}
    DepositAmounts = {1, 2}
    PayAmounts = {1}
    MaxDeposits = 2
    MaxPayments = 3
INVARIANTS
    TreesAgree
    PaymentsStayGood
    PoolBacked
PROPERTY
    SpendsAreFinal
SYMMETRY MCSymmetry
CHECK_DEADLOCK FALSE
