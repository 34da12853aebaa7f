CONSTANTS
    r1 = r1
    f1 = f1
    f2 = f2
    o1 = o1
    o2 = o2
    Requests = {r1}
    Offers = {f1, f2}
    RequestOf <- MCRequestOf
    Orders = {o1, o2}
    OfferOf <- MCOfferOf
    Workers = {w1, w2, w3}
    MaxPrice = 1
    EditRaces = FALSE
SPECIFICATION FairWantedSpec
INVARIANTS
    OneDealPerRequest
    FulfilledMeansPaid
    CancelledDealOffSale
PROPERTIES
    PaidDealNotCancelled
    TransactionsEnd
    WantedRequestEnds
CHECK_DEADLOCK FALSE
