SPECIFICATION EgressFairSpec
CONSTANTS
    a1 = a1
    s1 = s1
    s2 = s2
    Apps = {a1}
    Samples = {s1, s2}
    AppOf <- OneApp
    Bytes <- Sizes
    MaxTries = 2
    MaxWindows = 3
INVARIANTS CountedOnce NotOverbilled
PROPERTY SamplesAreProcessed
CHECK_DEADLOCK FALSE
