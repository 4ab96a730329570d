SPECIFICATION CombinedSpec
CONSTANTS
  t1 = t1
  t2 = t2
  t3 = t3
  Threads <- ThreeThreads
  MAX_COLLECTED_THREADS = 4
  CounterMod = 3
  MaxNest = 2
CONSTRAINT StillCounting
INVARIANTS CombinedCounts MainInStep
PROPERTY CollectionCompletes
