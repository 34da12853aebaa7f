CONSTANTS
    buyer = buyer
    d1 = d1
    d2 = d2
    Tenants = {buyer, s1}
    Bids = {x1}
    BuyerOf <- MCBuyerOf
    Prices = {2}
    FeeOf <- MCFeeOf
    Deposits = {d1, d2}
    DepositOf <- MCDepositOf
    MaxDeliveries = 1
    MaxSpent = 2
    MaxMoved = 1
    Workers = {w1, w2}
    Overlap = TRUE
    MaxFailures = 1
SPECIFICATION FairWalletSpec
INVARIANTS
    BalancesMatchLedger
    OverdraftOnlyByDebit
PROPERTY
    OpenBidDecided
CHECK_DEADLOCK FALSE
