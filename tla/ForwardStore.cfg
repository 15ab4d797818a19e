SPECIFICATION AllSpec
CONSTANTS
  i1 = i1
  i2 = i2
  i3 = i3
  k1 = k1
  k2 = k2
  Bad = Bad
  Ids <- MCIds
  Keys <- MCKeys
  MaxLines = 4
  btc = btc
  eth = eth
  sol = sol
  NONE = NONE
  Scanned <- MCScanned
  Passes <- MCPasses
  Judged <- MCJudged
  Cases <- MCCases
  Window = 2
  MaxTime = 2
  MaxRuns = 2
  MaxScans = 4
  MaxFaults = 1
  MinimumSample = 4
  MinimumAssets = 3
  MaxCases = 6
SYMMETRY MCSymmetry
INVARIANTS
  AckedReadable
  ReportIsCurrent
  EvidencePasses
  NoCaseDecides
CHECK_DEADLOCK FALSE
