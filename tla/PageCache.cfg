SPECIFICATION Spec
CONSTANTS
  e1 = e1
  e2 = e2
  e3 = e3
  e4 = e4
  t1 = t1
  t2 = t2
  None = None
  Tensors <- MCTensors
  FileSize <- MCFileSize
  Threads <- MCThreads
  Prefetches <- MCPrefetches
  Workers = 1
  Capacity = 6
  MaxCalls = 3
INVARIANTS
  SingleFlight
  ResidentExact
  PayloadIsPage
  QuietAfterClose
  InflightIsLive
PROPERTIES
  CallReturns
CHECK_DEADLOCK FALSE
