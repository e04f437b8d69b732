CONSTANTS
  MaxTest = 2
  VersionOf <- OneVersion
  Probed = {1}
  MaxHealthAttempts = 2
  Executors = {TRUE, FALSE}
  MaxFaults = 1
SPECIFICATION LiveSpec
INVARIANTS CleanupIsExclusive
PROPERTIES NoResurrection TestsEnd CancellationsEnd RuntimeIsRemoved
CHECK_DEADLOCK FALSE
