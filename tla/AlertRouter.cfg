SPECIFICATION RouterSpec
CONSTANTS
  btc = btc
  r1 = r1
  r2 = r2
  Nothing = Nothing
  AssetSeq <- MCAssets
  Requests <- MCRequests
  Gate = 2
  Boot = 1
  Interval = 1
  Slots = 2
  MaxTime = 4
  MaxRuns = 2
SYMMETRY Symmetry
INVARIANTS
  PrimarySpokenOnceInTime
  LivePrimaryIsSpoken
CHECK_DEADLOCK FALSE
