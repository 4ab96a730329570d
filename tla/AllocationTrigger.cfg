SPECIFICATION FairSpec
CONSTANTS
  Threads = {t1, t2}
  TriggerPoint = 5
  LogEvery = 2
  ArrayLogEvery = 2
  Sizes = {1, 2}
  Arrays <- SmallArrays
INVARIANT TypeOK TriggerDuty RequestedInTime
PROPERTY RequestServed
