SPECIFICATION Spec
CONSTANTS
  a1 = a1
  a2 = a2
  e1 = e1
  e2 = e2
  h1 = h1
  NULL = NULL
  Mutator = Mutator
  Threads <- OneThread
  Arrays <- TwoArrays
  Elements <- TwoElements
  Letters <- OneLetter
  InitReserve = 1
  MaxSize = 2
  SafeEvery = 2
  VectorUsage = {}
SYMMETRY Symmetry
VIEW Relative
INVARIANTS TypeOK NothingLost VectorRestored
PROPERTY ImplementsSequence
