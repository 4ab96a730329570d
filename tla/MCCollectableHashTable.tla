------------------------ MODULE MCCollectableHashTable ------------------------
(* Instances of CollectableHashTable for TLC.                              *)
EXTENDS CollectableHashTable, TLC

CONSTANTS k1, k2, k3, v1, v2

ThreeKeys   == {k1, k2, k3}
TwoValues   == {v1, v2}
EightHashes == 0 .. 7

Symmetry == Permutations(Keys) \cup Permutations(Values)
=============================================================================
