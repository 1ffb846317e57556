SPECIFICATION Spec
CONSTANTS
    Ids = {m1, m2}
    Names = {e1}
    Secrets = {s1}
    Schedules <- MCSchedules
    Limits = {0, 1}
    MaxRounds = 4
    MaxTime = 2
    MaxKills = 1
    MaxHistory = 1
INVARIANTS
    TypeOK
    ReceiptsExplained
    Spaced
    MostOverdueFirst
    DrainSettles
PROPERTIES
    EveryMessageSettles
    ImplementsOutbox
