SPECIFICATION Spec
CONSTANTS
    Ids = {m1, m2}
    Names = {e1, e2}
    Secrets = {s1, s2, s3}
    Schedules <- MCSchedules
    Times = {1}
    MaxLog = 1000
    MaxHistory = 4
SYMMETRY Symmetry
VIEW Memory
INVARIANTS
    TypeOK
    PendingHasEndpoint
    DueIffPending
    StatusAgreesWithDue
    OrderMatchesMap
    HistoryHonest
    RetryBudget
PROPERTIES
    HistoryKept
    ImplementsOutbox
CHECK_DEADLOCK FALSE
