CONSTANTS
    k1 = k1
    k2 = k2
    Keys <- TwoKeys
    Burst = 2
    Token = 3
    Refill = 2
    MaxTime = 6
SPECIFICATION Spec
INVARIANTS
    RateBound
PROPERTIES
    RefusedOnlyOverRate
CHECK_DEADLOCK FALSE
