SPECIFICATION FairSpec
CONSTANTS
  t1 = t1
  t2 = t2
  t3 = t3
  Threads <- TwoThreads
  MAX_COLLECTED_THREADS = 2
  CounterMod = 4
  MaxNest = 1
PROPERTY OptingOutHoldsUpNobody
CHECK_DEADLOCK FALSE
