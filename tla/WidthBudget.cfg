SPECIFICATION FairSpec
CONSTANTS
  w1 = w1
  m1 = m1
  narrow = narrow
  mid = mid
  wide = wide
  NoThread = NoThread
  Threads <- MCThreads
  Workers <- MCWorkers
  PoolSize = 3
  Ceilings = {2, 3}
  Requests <- MCRequests
  Width <- MCWidth
  MaxRank = 1
  Rank <- MCRank
  Tiebreak <- MCTiebreak
INVARIANTS
  TypeOK
  Conservation
  OvershootBound
  HeadBlocked
  ParkedFits
  NoStranding
PROPERTIES
  NoOvertaking
  AdmissionWithinTotal
  EveryParkedResumed
