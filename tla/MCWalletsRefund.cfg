CONSTANTS
    buyer = buyer
    d1 = d1
    d2 = d2
    Tenants = {buyer, s1}
    Bids = {x1}
    BuyerOf <- MCBuyerOf
    Prices = {2}
    FeeOf <- MCFeeOf
    Deposits = {d1, d2}
    DepositOf <- MCDepositOf
    MaxDeliveries = 1
    MaxSpent = 2
    MaxMoved = 4
    Workers = {w1, w2}
    Overlap = FALSE
    MaxFailures = 0
SPECIFICATION WalletSpec
INVARIANT
    RefundedOrPaid
CHECK_DEADLOCK FALSE
