SPECIFICATION Spec
CONSTANTS
  N = 2
  Nodes = {n1, n2, n3, n4}
  NULL = NULL
SYMMETRY Memory
INVARIANT AssertHolds
