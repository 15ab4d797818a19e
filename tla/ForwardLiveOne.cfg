SPECIFICATION Spec
CONSTANTS
  btc = btc
  eth = eth
  NONE = NONE
  Bad = Bad
  AssetSeq <- OneAsset
  Sides = {"YES", "NO"}
  MaxWindow = 2
  MaxCycles = 3
  MaxRuns = 2
  MaxFaults = 1
INVARIANTS
  OneEntryPerContract
  ResolutionsTellTheTruth
  MemoryAgreesWithDisk
PROPERTIES
  LedgerSpec
CHECK_DEADLOCK FALSE
