SPECIFICATION FairSpec
CONSTANTS
  btc = btc
  eth = eth
  NONE = NONE
  Bad = Bad
  Assets <- MCAssets
  Sides = {"YES"}
  Cap = 1
  MaxWindow = 3
  MaxRuns = 3
  MaxFaults = 1
INVARIANTS
  SpokenOnceAndSaved
  FrequencyMatchesLedger
PROPERTIES
  SavedIsSpoken
CHECK_DEADLOCK FALSE
