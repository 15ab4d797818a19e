SPECIFICATION ResearchSpec
CONSTANTS
  None = None
  AssetSeq <- MCAssets
  Leader = "BTC"
  WindowBars = 2
  Warmup = 2
  MinBars = 2
  Tolerance = 1
  MinElapsed = 1
  NoNewEntry = 1
  Steady = 2
  Folds = 2
  MinTrain = 1
  Embargo = 1
  HoldoutEvery = 4
  CalEvery = 4
  MinCalGroups = 2
  Percent = 20
  Horizon = 20
  MaxMoves = 2
  MaxGaps = 1
  PhaseFolds = 3
  Tables <- MCTables
  Challengers <- MCChallengers
  FeatureSets = {"geometry"}
  Families = {"F", "H"}
  Steadfast = {"F"}
  Unquoted = {"F"}
  Thresholds = {1, 2}
  MinCal = 2
  MinPool = 2
  MinReported = 4
  MinTrades = 2
  Sample = 8
  Runs = 2
INVARIANTS
  AsLived
  TrainsOnThePast
  JudgedByTheFuture
  ReportedIsSaved
CHECK_DEADLOCK FALSE
