SPECIFICATION FairScanSpec
CONSTANTS
  btc = btc
  eth = eth
  None = None
  EventAssets <- MCAssets
  Moody <- MCMoody
  AssetSeq <- MCAssetSeq
  Snaps <- MCSnaps
  Books <- MCBooks
  Slots = 2
  MaxAge = 1
  InitAttempts = 2
  MaxTime = 2
  MaxFailures = 1
INVARIANTS
  QuoteIsOfAnOpenMarket
PROPERTY
  RecoversFromOutage
CHECK_DEADLOCK FALSE
