SPECIFICATION Spec
CONSTANTS
    None = None
    Versions = {1, 2, 3, 4}
    PlanOf <- MCPlanOf
    Price <- MCPrice
    Credit <- MCCredit
    FreeVersion = 1
    Listed = {1, 2, 3}
    Keys = {k1, k2, k3}
    Cycle = 2
    MaxTime = 3
    MaxBalance = 2
    MaxChanges = 1
SYMMETRY Symmetry
INVARIANTS NotOvercharged PrepaidKept MonthlyCredit
