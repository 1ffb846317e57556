SPECIFICATION Spec
CONSTANTS
    Requests = {r1, r2, r3, r4, r5}
    Genuine = {r1, r2, r3, r4}
    FailFirst = 2
    MaxOK = 2
    Nobody = Nobody
INVARIANTS
    FirstOnesFail
    ServesUntilMax
PROPERTIES
    ExitsAfterMax
CHECK_DEADLOCK FALSE
