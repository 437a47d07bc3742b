SPECIFICATION Spec
CONSTANTS
  Threads = {t1}
  NoThread = NoThread
  Ids = {a, b}
  Requests <- RoutedRequests
  PageSize = 8
  NPages = 2
  MaxChunks = 1
  DirectThreshold = 7
  SweepAt = 1
  MaxHops = 2
  SlotsPerPage = 2
  FreeModes = {TRUE}
  PoolingModes = {FALSE}
  PassThrough = "never"
  LazyMadvise = FALSE
INVARIANT LayoutReturned
