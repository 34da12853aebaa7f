CONSTANTS
    o1 = o1
    o2 = o2
    l1 = l1
    Orders = {o1}
    Listings = {l1}
    ListingOf <- MCListingOf
    AmountPaid <- MCAmountPaid
    CommissionAmount <- MCCommissionAmount
    Web = {w1}
    Celery = {c1}
    Traffic <- CustomerTraffic
    Overlap = TRUE
    Alone = {}
    MaxCrashes = 0
SPECIFICATION CheckoutSpec
INVARIANT
    MoneyAccountedFor
CHECK_DEADLOCK FALSE
