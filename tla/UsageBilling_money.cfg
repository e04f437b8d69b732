SPECIFICATION Spec
CONSTANTS
    a1 = a1
    a2 = a2
    u1 = u1
    u2 = u2
    m1 = m1
    m2 = m2
    v1 = v1
    v2 = v2
    NoPrice = NoPrice
    Amount <- Cents
    AdjustmentAmounts <- Refill
    Apps = {a1}
    Users = {u1}
    Owner <- OneOwner
    Meters = {m1, m2}
    MeterApp <- OneApp
    StorageMeters = {m2}
    Versions = {v1, v2}
    Reserve = 1
    MaxWindows = 1
    MaxGrants = 2
    GrantAmounts = {1, 2}
    MaxAdjustments = 2
INVARIANTS CreditConserved ChargedOnce NothingLost SkippedIsUnaffordable
PROPERTIES RecoveredSolvent ImplementsWallet
