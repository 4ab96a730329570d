SPECIFICATION Spec
CONSTANTS
  k1 = k1
  k2 = k2
  k3 = k3
  v1 = v1
  v2 = v2
  NULL = NULL
  Keys <- ThreeKeys
  Values <- TwoValues
  InitialSize = 2
  Hashes <- EightHashes
SYMMETRY Symmetry
INVARIANTS KeysFindable SparseEnough NoGrowthWhileGrowing
PROPERTIES ImplementsMap
