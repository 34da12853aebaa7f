CONSTANTS
    Invoices = {1, 2}
    Returns = {r1, r2}
    Clerks = {c1, c2}
    Price = 1
    Quantities = {2}
    Discounts = {0, 1}
    Tenders = {0, 2}
    OpeningStock = 3
    OpeningBalance = 1
    OpeningTill = 0
    SmallDebt = 1
    PayNothing = FALSE
    Traffic <- AllTraffic
    Overlap = FALSE
SPECIFICATION SalesSpec
SYMMETRY Symmetry
INVARIANTS
    StockMatchesInvoices
    BalanceMatchesInvoices
    MoneyMatchesReceipts
    ReturnedWithinSold
PROPERTIES
    RefundsWithinPaid
CHECK_DEADLOCK FALSE
