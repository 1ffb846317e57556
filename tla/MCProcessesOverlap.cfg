SPECIFICATION Spec
CONSTANTS
    Appenders = {a1, a2}
    Compacters = {}
    Readers = {r1}
    MaxOps = 4
    MaxRewrites = 0
    Uses <- MCFree
SYMMETRY Symmetry
INVARIANTS
    AlwaysReproducible
CHECK_DEADLOCK FALSE
