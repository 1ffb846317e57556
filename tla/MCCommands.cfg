SPECIFICATION Spec
CONSTANTS
    m1 = m1
    m2 = m2
    e1 = e1
    s1 = s1
    s2 = s2
    Ids = {m1, m2}
    Names = {e1}
    Secrets = {s1, s2}
    Schedules <- MCSchedules
    Pasts <- MCPasts
    Times = {1}
    MaxNew = 3
    MaxHistory = 3
SYMMETRY Symmetry
VIEW Unended
INVARIANTS
    ToldIsKept
    ReplayReproduces
    ConfiguredFirst
    ExitZeroMeansDone
PROPERTIES
    ImplementsStore
CHECK_DEADLOCK FALSE
