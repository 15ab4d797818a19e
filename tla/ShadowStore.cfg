SPECIFICATION ContractsSpec
CONSTANTS
  btc = btc
  NONE = NONE
  Torn = Torn
  Bad = Bad
  AssetSeq <- MCAssets
  Limit = 2
  Second = 2
  MaxTime = 5
  MaxRuns = 2
  MaxFaults = 1
  StudyAssets <- MCStudyAssets
  ChunkOf <- MCChunks
  Cuts <- MCCuts
  Listings <- MCListings
  Least = 5
  MinBars = 3
  MinComplete = 80
  MinBounds = 2
  Entering <- MCEntering
  Entries = 2
  Eligible = 4
  Candidates <- MCCandidates
  Frozen <- MCFrozen
  Runs = 3
INVARIANTS
  AuditPasses
  CandidatesHaveObservations
  HoldoutStaysSealed
CHECK_DEADLOCK FALSE
