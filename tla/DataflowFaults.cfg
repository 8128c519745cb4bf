SPECIFICATION FaultSpec
CONSTANTS
  main = main
  w1 = w1
  NoThread = NoThread
  Threads <- MCThreads
  Workers <- MCWorkers
  Main = main
  PoolSize = 2
  Ceilings = {2}
  Requests <- MCRequests
  Width <- MCWidth
  MaxRank = 3
  Rank <- MCRank
  Tiebreak <- MCTiebreak
  NumNodes = 4
  Preds <- MCPreds
  Kind <- MCKind
  Bytes <- MCZeroes
  MemoryBudget = 0
  WordSize = 16
  ThreadWidth <- MCZeroes
  PlannedRank <- MCZeroes
  PlannedCount = 0
  MayThrow = {}
PROPERTIES
  CallerReturns
\* A run that has lost a node or deferred one for good stops.
CHECK_DEADLOCK FALSE
