---------------------------- MODULE MCSnapshotHeap ----------------------------
(* Instances of SnapshotHeap for TLC.                                      *)
EXTENDS SnapshotHeap, TLC

CONSTANTS t1, o1, o2, r1, r2, p1, p2

OneThread  == {t1}
OneObject  == {o1}
TwoObjects == {o1, o2}
TwoLetters == {r1, r2}
TwoPtrs    == {p1, p2}
AllOfT1    == p1 :> {t1} @@ p2 :> {t1}
HomeT1     == [n \in Objects \cup Letters |-> t1]

(* A bound: a thread stays opted out only while the pointers it uses and   *)
(* the objects there are make two together.  The theorems do without it.   *)
OptsOutWithFew ==
  \A t \in Threads : regime[t] = NOT_MUTATING =>
    Cardinality(Mine(t)) + Cardinality({o \in Objects : list[o] # NULL}) =< 2

Symmetry == Permutations(Objects) \cup Permutations(Letters) \cup Permutations(Ptrs)

(* Which of its two lists a thread calls 0 never matters, only which is    *)
(* the active one: states that differ in nothing else are counted once.    *)
ListName == [n \in Nodes |-> IF list[n] = NULL THEN "none"
                            ELSE IF list[n] = index THEN "active" ELSE "snapshot"]
Relative == <<phase, gate, regime, parked, live, snap, ListName, owned, was_owned,
              var, collectorVars>>
=============================================================================
