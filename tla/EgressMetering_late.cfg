SPECIFICATION EgressSpec
CONSTANTS
    a1 = a1
    s1 = s1
    s2 = s2
    Apps = {a1}
    Samples = {s1, s2}
    AppOf <- OneApp
    Bytes <- Sizes
    MaxTries = 2
    MaxWindows = 3
INVARIANT AcceptedIsBilled
CHECK_DEADLOCK FALSE
