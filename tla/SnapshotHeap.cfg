SPECIFICATION Spec
CONSTANTS
  t1 = t1
  o1 = o1
  o2 = o2
  r1 = r1
  r2 = r2
  p1 = p1
  p2 = p2
  NULL = NULL
  Threads <- OneThread
  Objects <- TwoObjects
  Letters <- TwoLetters
  NumFields = 1
  Ptrs <- TwoPtrs
  Users <- AllOfT1
  Home <- HomeT1
  Spare = 2
  HeapUsage = {"opt_out"}
SYMMETRY Symmetry
VIEW Relative
CONSTRAINT OptsOutWithFew
INVARIANTS TypeOK NoDangling SnapshotCovers SnapshotRestored NoStaleMark
