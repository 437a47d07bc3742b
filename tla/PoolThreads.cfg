SPECIFICATION FairSpec
CONSTANTS
  Threads = {t1, t2}
  NoThread = NoThread
  Ids = {a, b}
  Requests <- RoutedRequests
  PageSize = 8
  NPages = 2
  MaxChunks = 1
  DirectThreshold = 7
  SweepAt = 1
  MaxHops = 2
  SlotsPerPage = 2
  FreeModes = {TRUE, FALSE}
  PoolingModes = {TRUE, FALSE}
  PassThrough = "quiescent"
  LazyMadvise = FALSE
INVARIANTS LockOwner DataIntact NoFault
PROPERTY LockReleased
