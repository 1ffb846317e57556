SPECIFICATION Spec
CONSTANTS
    Ids = {m1, m2, m3}
    Names = {e1, e2}
    Secrets = {s1}
    Schedules <- MCSchedules
    Times = {1}
    MaxLog = 1000
    MaxHistory = 4
SYMMETRY Symmetry
VIEW Memory
PROPERTIES
    RequeueAllRequeues
CHECK_DEADLOCK FALSE
