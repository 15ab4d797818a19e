SPECIFICATION BothSpec
CONSTANTS
  None = None
  btc = btc
  eth = eth
  Assets <- MCAssets
  Policies <- MCPolicies
  Scans <- MCScans
  OtherScans <- MCOtherScans
  Quotes <- MCQuotes
  OtherQuotes <- MCOtherQuotes
  MaxScans = 2
  TickerSeq <- MCAssets
  Readings <- MCReadings
  Ticks = 6
  MinElapsed = 1
  NoNewEntry = 1
  ForceExit = 1
  CoolTicks = 1
  EntryDelay = 2
  MaxAge = 1
  Pause = 1
  Lag = 1
INVARIANTS
  ReplayAgreesWithEngine
  SelectedIsSound
  TradeIsWatched
PROPERTIES
  LocksEnd
CHECK_DEADLOCK FALSE
