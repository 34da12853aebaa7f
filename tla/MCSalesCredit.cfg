CONSTANTS
    Invoices = {1}
    Returns = {r1, r2}
    Clerks = {c1}
    Price = 2
    Quantities = {2}
    Discounts = {0, 2}
    Tenders = {0}
    OpeningStock = 2
    OpeningBalance = 0
    OpeningTill = 0
    SmallDebt = 0
    PayNothing = FALSE
    Traffic <- CounterTraffic
    Overlap = FALSE
SPECIFICATION SalesSpec
INVARIANTS
    BalanceIsOpenDue
CHECK_DEADLOCK FALSE
