SPECIFICATION FairSpec
CONSTANTS
    a1 = a1
    a2 = a2
    u1 = u1
    u2 = u2
    m1 = m1
    m2 = m2
    v1 = v1
    v2 = v2
    NoPrice = NoPrice
    Amount <- Cents
    AdjustmentAmounts <- Refill
    Apps = {a1}
    Users = {u1}
    Owner <- OneOwner
    Meters = {m1}
    MeterApp <- OneApp
    StorageMeters = {}
    Versions = {v2}
    Reserve = 1
    MaxWindows = 1
    MaxGrants = 1
    GrantAmounts = {1}
    MaxAdjustments = 2
PROPERTY RecoversOncePaid
CHECK_DEADLOCK FALSE
