SPECIFICATION FairSpec
CONSTANTS
  btc = btc
  eth = eth
  NONE = NONE
  Bad = Bad
  AssetSeq <- TwoAssets
  Sides = {"YES"}
  MaxWindow = 1
  MaxCycles = 2
  MaxRuns = 2
  MaxFaults = 1
INVARIANTS
  AnnouncedOncePerWindow
  PersistedDisplayIsOnDisk
PROPERTIES
  ErrorStopsTheRun
CHECK_DEADLOCK FALSE
