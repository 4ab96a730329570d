SPECIFICATION FairSpec
CONSTANTS
  t1 = t1
  t2 = t2
  t3 = t3
  Threads <- ThreeThreads
  MAX_COLLECTED_THREADS = 3
  CounterMod = 4
  MaxNest = 2
CONSTRAINTS StillCounting OneNests
INVARIANTS TypeOK CountersMatch RunningAgree BorderQuiet WorkInStep
PROPERTIES ImplementsHandshake CollectionCompletes ParkedResumes QuietShutdownCompletes
CHECK_DEADLOCK FALSE
