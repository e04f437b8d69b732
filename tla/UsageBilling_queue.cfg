SPECIFICATION FairSpec
CONSTANTS
    a1 = a1
    a2 = a2
    u1 = u1
    u2 = u2
    m1 = m1
    m2 = m2
    v1 = v1
    v2 = v2
    NoPrice = NoPrice
    Amount <- Cents
    AdjustmentAmounts <- Refill
    Apps = {a1, a2}
    Users = {u1, u2}
    Owner <- OwnOwner
    Meters = {m1, m2}
    MeterApp <- OwnApp
    StorageMeters = {m1, m2}
    Versions = {v2}
    Reserve = 1
    MaxWindows = 2
    MaxGrants = 0
    GrantAmounts = {1}
    MaxAdjustments = 1
PROPERTY AffordableIsCharged
