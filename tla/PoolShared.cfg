SPECIFICATION Spec
CONSTANTS
  Threads = {t1}
  NoThread = NoThread
  Ids = {a, b, c}
  Requests <- SharedRequests
  PageSize = 8
  NPages = 3
  MaxChunks = 1
  DirectThreshold = 15
  SweepAt = 4
  MaxHops = 2
  SlotsPerPage = 2
  FreeModes = {TRUE, FALSE}
  PoolingModes = {}
  PassThrough = "never"
  LazyMadvise = TRUE
SYMMETRY Symmetry
PROPERTY DeadPagesAreFree
