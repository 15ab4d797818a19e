SPECIFICATION FairSpec
CONSTANTS
  NONE = NONE
  FAILED = FAILED
  Bootstrap = 2
  Refresh = 1
  MinCandles = 2
  MaxRows = 2
  Cooldown = 1
  Tolerance = 1
  Paths <- MCPaths
  Records <- MCRecords
  Width = 2
  Grace = 1
  MaxAttempts = 2
  Horizon = 5
  MaxEdits = 1
  MaxFaults = 1
INVARIANTS
  OneSpecification
  LabelsTellTheTruth
  MirrorAgrees
PROPERTIES
  LifecycleSpec
  NothingIsForgotten
CHECK_DEADLOCK FALSE
