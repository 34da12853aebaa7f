CONSTANTS
    o1 = o1
    o2 = o2
    l1 = l1
    Orders = {o1, o2}
    Listings = {l1}
    ListingOf <- MCListingOf
    AmountPaid <- MCAmountPaid
    CommissionAmount <- MCCommissionAmount
    Web = {w1, w2}
    Celery = {c1}
    Traffic <- AllTraffic
    Overlap = TRUE
    Alone = {"approve", "admin_edit"}
    MaxCrashes = 0
SPECIFICATION CheckoutSpec
SYMMETRY Symmetry
INVARIANTS
    OneLiveOrder
    ReservationHasCheckout
    PaidPartStaysSold
    PaidOrderNeverDropped
    ManualReturnNotInEscrow
PROPERTIES
    ImplementsPartSale
    CaptureLostOnlyToCancellation
    ReceiptsFailOnlyByRaces
CHECK_DEADLOCK FALSE
