SPECIFICATION Spec
CONSTANTS
  Threads = {t1}
  NoThread = NoThread
  Ids = {a, b, c}
  Requests <- SmallRequests
  PageSize = 8
  NPages = 2
  MaxChunks = 1
  DirectThreshold = 5
  SweepAt = 1
  MaxHops = 2
  SlotsPerPage = 2
  FreeModes = {TRUE}
  PoolingModes = {}
  PassThrough = "never"
  LazyMadvise = TRUE
SYMMETRY Symmetry
INVARIANTS NoDoubleServe PageNodesExact ChunkAccounting DataIntact NoFault
