SPECIFICATION Spec
CONSTANTS
  NAssets = 2
  NPolicies = 2
  NONE = NONE
  Bad = Bad
  Cap = 1
  Reload = 6
  MaxWindow = 3
  MaxRuns = 2
  MaxScans = 3
  MaxFaults = 1
INVARIANTS
  CompletionsTellTheTruth
  ExpiredAreCompleted
CHECK_DEADLOCK FALSE
