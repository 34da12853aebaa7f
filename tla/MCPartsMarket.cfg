CONSTANTS
    o1 = o1
    l1 = l1
    t1 = t1
    t2 = t2
    Orders = {o1}
    Listings = {l1}
    ListingOf <- MCListingOf
    AmountPaid <- MCAmountPaid
    CommissionAmount <- MCCommissionAmount
    Web = {w1}
    Celery = {c1}
    Desk = {d1, d2}
    Tickets = {t1, t2}
    Traffic <- PaidTraffic
    Overlap = TRUE
    Alone = {}
    MaxCrashes = 1
SPECIFICATION MarketSpec
SYMMETRY Symmetry
INVARIANTS
    Conservation
    RefundedMeansMoneyBack
    StrandedOnlyByCrash
    TicketsDecide
    WalletNeverCountsTwice
PROPERTIES
    ImplementsCustody
    FrozenUntilDecided
    ShippedRefundHasCause
CHECK_DEADLOCK FALSE
