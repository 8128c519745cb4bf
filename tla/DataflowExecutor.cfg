SPECIFICATION ExecSpec
CONSTANTS
  main = main
  w1 = w1
  w2 = w2
  NoThread = NoThread
  Threads <- MCThreads
  Workers <- MCWorkers
  Main = main
  PoolSize = 2
  Ceilings = {2, 3}
  Requests <- MCRequests
  Width <- MCWidth
  MaxRank = 3
  Rank <- MCRank
  Tiebreak <- MCTiebreak
  NumNodes = 8
  Preds <- MCPreds
  Kind <- MCKind
  Bytes <- MCBytes
  MemoryBudget = 4
  WordSize = 16
  ThreadWidth <- MCThreadWidth
  PlannedRank <- MCPlannedRank
  PlannedCount = 2
  MayThrow <- MCMayThrow
INVARIANTS
  ExecTypeOK
  AllocatedWithinBudget
  NoLostDeferred
  ScaffoldUnused
  WidthReturned
PROPERTIES
  ImplementsDagRun
