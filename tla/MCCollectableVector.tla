------------------------- MODULE MCCollectableVector -------------------------
(* Instances of CollectableVector for TLC.                                 *)
EXTENDS CollectableVector, TLC

CONSTANTS a1, a2, e1, e2, h1

OneThread   == {Mutator}
TwoArrays   == {a1, a2}
TwoElements == {e1, e2}
OneLetter   == {h1}

Symmetry == Permutations(Arrays) \cup Permutations(Elements)

(* Which list a thread calls 0 never matters, only which is the active one.*)
ListName == [n \in Nodes |-> IF list[n] = NULL THEN "none"
                            ELSE IF list[n] = index THEN "active" ELSE "snapshot"]
Relative == <<phase, gate, regime, parked, live, snap, ListName, arrayVars, held,
              was_owned, op, collectorVars>>
=============================================================================
