SPECIFICATION FrontEndSpec
CONSTANTS
  Conns = {c1, c2}
  NONE = NONE
  STOP = STOP
  Cap = 2
  MaxFailures = 2
  MaxLines = 5
  Backlog = 1
  MaxClients = 1
  MaxVersion = 1
  MaxSequence = 4
INVARIANTS
  NewestFrameIsShown
PROPERTIES
  StopEndsTheWorker
  QueuedIsServed
  PageReconnects
CHECK_DEADLOCK FALSE
