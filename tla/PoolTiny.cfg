SPECIFICATION Spec
CONSTANTS
  Threads = {t1}
  NoThread = NoThread
  Ids = {a, b, c, d}
  Requests <- TinyRequests
  PageSize = 16
  NPages = 2
  MaxChunks = 1
  DirectThreshold = 7
  SweepAt = 1
  MaxHops = 2
  SlotsPerPage = 2
  FreeModes = {FALSE}
  PoolingModes = {}
  PassThrough = "never"
  LazyMadvise = FALSE
PROPERTY DeadPagesAreFree
