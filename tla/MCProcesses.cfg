SPECIFICATION Spec
CONSTANTS
    Appenders = {a1, a2}
    Compacters = {c1}
    Readers = {r1}
    MaxOps = 4
    MaxRewrites = 2
    Uses <- MCUses
SYMMETRY Symmetry
INVARIANTS
    TypeOK
    NothingStale
    NothingLostSilently
    ReadersAreHarmless
PROPERTIES
    TurnsKeepTheLog
CHECK_DEADLOCK FALSE
