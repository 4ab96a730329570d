SPECIFICATION Spec
CONSTANTS
  a = a
  b = b
  c = c
  d = d
  e1 = e1
  e2 = e2
  m = m
  w1 = w1
  w2 = w2
  Threads = {a, b, c, d}
  Events = {e1, e2, m}
  AutoReset = {e1, e2}
  Wfmos = {w1, w2}
  Calls <- Calling
  NULL = NULL
SYMMETRY Storage
INVARIANT TypeOK RefsBalanced LeftCounted NoLostWakeup NoCircularWait
PROPERTY HandedOnce
CHECK_DEADLOCK FALSE
