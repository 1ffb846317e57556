SPECIFICATION Spec
CONSTANTS
    MaxOps = 4
    MaxRewrites = 2
    FsyncCoversName = TRUE
INVARIANTS
    AckedSurvive
    NeverRefused
    AppendContinues
PROPERTIES
    ImplementsDurableLog
CHECK_DEADLOCK FALSE
