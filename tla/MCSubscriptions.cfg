CONSTANTS
    Invoices = {i1, i2}
    Workers = {w1, w2}
    PeriodDays = 2
    RenewDaysBefore = 1
    GraceDays = 1
    MaxFailures = 2
    FirstEnd = 1
    Overlap = FALSE
    MaxDay = 3
    MaxDeliveries = 2
    MaxCrashes = 1
    MaxRequests = 1
    none = none
SPECIFICATION FairSubsSpec
INVARIANTS
    OneChargePerDay
    PaidPeriodsAddUp
    SuspendedMeansLapsed
PROPERTIES
    CaptureExtends
CHECK_DEADLOCK FALSE
