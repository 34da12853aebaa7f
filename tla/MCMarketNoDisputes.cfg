CONSTANTS
    o1 = o1
    l1 = l1
    t1 = t1
    t2 = t2
    Orders = {o1}
    Listings = {l1}
    ListingOf <- MCListingOf
    AmountPaid <- MCAmountPaid
    CommissionAmount <- MCCommissionAmount
    Web = {w1}
    Celery = {c1}
    Desk = {d1, d2, d3}
    Tickets = {t1, t2}
    Traffic <- NoDisputes
    Overlap = TRUE
    Alone = {}
    MaxCrashes = 0
SPECIFICATION FairMarketSpec
INVARIANTS
    LedgerAgrees
PROPERTIES
    RefundRequestWins
    MoneyMovesOn
CHECK_DEADLOCK FALSE
