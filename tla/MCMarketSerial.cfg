CONSTANTS
    o1 = o1
    l1 = l1
    t1 = t1
    t2 = t2
    Orders = {o1}
    Listings = {l1}
    ListingOf <- MCListingOf
    AmountPaid <- SplitAmountPaid
    CommissionAmount <- SplitCommissionAmount
    Web = {w1}
    Celery = {c1}
    Desk = {d1}
    Tickets = {t1, t2}
    Traffic <- FullTraffic
    Overlap = FALSE
    Alone = {}
    MaxCrashes = 1
SPECIFICATION MarketSpec
SYMMETRY Symmetry
INVARIANTS
    PayoutsMatchSettlement
    SplitNeverBeatsRelease
CHECK_DEADLOCK FALSE
