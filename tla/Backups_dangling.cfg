SPECIFICATION Spec
CONSTANTS
    a1 = a1
    b1 = b1
    b2 = b2
    NoBackup = NoBackup
    Apps = {a1}
    Backups = {b1, b2}
    AppOf <- OneApp
    Sizes = {2}
    Live = {0, 2}
    Capacity = 3
    MaxAttempts = 2
INVARIANT NoDanglingRestore
