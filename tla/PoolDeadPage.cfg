SPECIFICATION Spec
CONSTANTS
  Threads = {t1}
  NoThread = NoThread
  Ids = {a, b, c}
  Requests <- MixedRequests
  PageSize = 8
  NPages = 5
  MaxChunks = 1
  DirectThreshold = 9
  SweepAt = 3
  MaxHops = 2
  SlotsPerPage = 2
  FreeModes = {TRUE}
  PoolingModes = {}
  PassThrough = "never"
  LazyMadvise = FALSE
INVARIANT DataIntact
