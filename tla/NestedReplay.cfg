SPECIFICATION NestSpec
CONSTANTS
  m1 = m1
  m2 = m2
  w1 = w1
  outer = outer
  body1 = body1
  body2 = body2
  other = other
  NoThread = NoThread
  NoNode = NoNode
  Threads <- MCThreads
  Workers <- MCWorkers
  PoolSize = 2
  Ceilings = {1, 2}
  Requests <- MCRequests
  Width <- MCWidth
  MaxRank = 1
  Rank <- MCRank
  Tiebreak <- MCTiebreak
  Runs <- MCRuns
  NodesOf <- MCNodesOf
  TopRuns <- MCTopRuns
  BodyRuns <- MCBodyRuns
  ThreadWidth <- MCThreadWidth
  PlannedFor <- MCPlannedFor
  Ceiling <- MCCeiling
  MayThrow <- MCMayThrow
INVARIANTS
  NestTypeOK
  HoldMatches
  LeftAsFound
PROPERTIES
  EveryRunReturns
