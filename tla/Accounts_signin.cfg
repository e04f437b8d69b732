SPECIFICATION AccountsSpec
CONSTANTS
  a = a
  b = b
  i = i
  f = f
  Emails <- EmailsBoth
  Identities <- IdentityOne
  Reported <- ReportedOne
  Flows <- FlowsOne
  Bounds <- BoundsThree
  MaxCode = 2
  MaxSession = 3
  MaxAttempts = 2
INVARIANTS
  OneLiveCode
  FlowSignsInOnce
CHECK_DEADLOCK FALSE
