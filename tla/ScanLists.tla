------------------------------ MODULE ScanLists ------------------------------
(***************************************************************************)
(* The lists the collector goes through (CircularDoubleList and ScanLists  *)
(* of Collectable.h, merge_collected and the loops of GCState.cpp).  A     *)
(* list is a ring of cells linked both ways through a sentinel.  Each      *)
(* thread slot has two of them, which ActiveIndex tells apart, and a third *)
(* entry, the cell where a walk of the restored snapshot starts.  Threads  *)
(* put new nodes into one ring while the collector walks the other, and,   *)
(* when the snapshot is being restored, into the same one.  Collectables   *)
(* and roots have such lists; the module follows one kind.                 *)
(***************************************************************************)
EXTENDS Integers, FiniteSets

CONSTANTS
  N,          \* MAX_COLLECTED_THREADS
  Nodes,      \* memory for nodes
  NULL        \* also: what an entry holds that was never assigned

Slots == 0 .. N - 1
Sentinels == Slots \X {0, 1}
Cells == Sentinels \cup Nodes

ASSUME ListsAssumption ==
  /\ N \in Nat \ {0}
  /\ IsFiniteSet(Nodes)
  /\ Nodes \cap Sentinels = {} /\ NULL \notin Cells

VARIABLES
  next, prev,      \* the links of every cell; NULL in memory that is free
  registered,      \* the slots with ScanLists
  third,           \* collectables[2], roots[2] of every slot
  ActiveIndex,
  inserting,       \* of every slot: the node its thread is constructing
  cpc,             \* what the collector is doing
  slot,            \* the variable i of its loops
  center, itNext,  \* its iterator; center = NULL before iterate()
  met,             \* nodes it came to in this loop; no variable of the code
  fresh,           \* nodes created since merge_collected; nor this
  late             \* slots that registered too late for it; nor this

listVars == <<next, prev>>
iterator == <<center, itNext>>
vars == <<listVars, registered, third, ActiveIndex, inserting, cpc, slot, iterator,
          met, fresh, late>>

Sentinel(i, which) == <<i, which>>
Active(i) == Sentinel(i, ActiveIndex)
Snapshot(i) == Sentinel(i, 1 - ActiveIndex)

Init ==
  /\ next = [c \in Cells |-> IF c \in Nodes THEN NULL ELSE c]
  /\ prev = next
  /\ registered = {}
  /\ third = [i \in Slots |-> NULL]
  /\ ActiveIndex = 0
  /\ inserting = [i \in Slots |-> NULL]
  /\ cpc = "idle"
  /\ slot = 0
  /\ center = NULL /\ itNext = NULL
  /\ met = {} /\ fresh = {} /\ late = {}

-----------------------------------------------------------------------------
(* Threads.                                                                *)

(* merge_collected has come to the slot, and the loops that start where it *)
(* said have not.                                                          *)
Late(i) == \/ cpc = "merge" /\ i < slot
           \/ cpc = "restore"
           \/ cpc = "finalize" /\ slot =< i

(* init_thread makes the lists of a slot, without waiting for a border.    *)
(* Their third entry is not assigned.                                      *)
Register(i) ==
  /\ i \notin registered /\ cpc # "crashed"
  /\ registered' = registered \cup {i}
  /\ late' = IF Late(i) THEN late \cup {i} ELSE late
  /\ UNCHANGED <<listVars, third, ActiveIndex, inserting, cpc, slot, iterator, met, fresh>>

(* Nobody runs while the lists are merged.  The new node has its links     *)
(* before the sentinel leads to it, and the old first node still leads back*)
(* to the sentinel.                                                        *)
Insert(i) ==
  /\ i \in registered /\ inserting[i] = NULL /\ cpc \notin {"merge", "crashed"}
  /\ \E n \in Nodes :
       /\ next[n] = NULL
       /\ next' = [next EXCEPT ![n] = next[Active(i)], ![Active(i)] = n]
       /\ prev' = [prev EXCEPT ![n] = Active(i)]
       /\ inserting' = [inserting EXCEPT ![i] = n]
       /\ fresh' = fresh \cup {n}
  /\ UNCHANGED <<registered, third, ActiveIndex, cpc, slot, iterator, met, late>>

(* Mutant: the link back to the new node is forgotten.                     *)
LinkedBack_Not(n) == prev
LinkedBack(n) == [prev EXCEPT ![next[n]] = n]

Inserted(i) ==
  /\ inserting[i] # NULL /\ cpc # "crashed"
  /\ prev' = LinkedBack(inserting[i])
  /\ inserting' = [inserting EXCEPT ![i] = NULL]
  /\ UNCHANGED <<next, registered, third, ActiveIndex, cpc, slot, iterator, met, fresh,
                 late>>

-----------------------------------------------------------------------------
(* The collector.  Its loops go through the slots, pass over those without *)
(* lists, and through the cells of one list each.                          *)
Quiet == \A i \in Slots : inserting[i] = NULL

Loop(place) ==
  /\ cpc' = place /\ slot' = 0
  /\ center' = NULL /\ itNext' = NULL
  /\ met' = {}
NextSlot ==
  /\ slot' = slot + 1
  /\ center' = NULL /\ itNext' = NULL
  /\ UNCHANGED met

(* iterate() and operator ++: the iterator knows the cell after its own.   *)
Iterate(c) == center' = c /\ itNext' = next[c]
(* Mutant: it looks for that cell when its own may have been deleted.      *)
Forward_Deleted == center' = itNext /\ itNext' = next'[itNext]
Forward == center' = itNext /\ itNext' = next[itNext]

(* _start_collection.                                                      *)
TurnLists ==
  /\ cpc = "idle" /\ Quiet
  /\ ActiveIndex' = 1 - ActiveIndex
  /\ Loop("sweep")
  /\ UNCHANGED <<listVars, registered, third, inserting, fresh, late>>

(* ~CircularDoubleList                                                     *)
Deleted(c) ==
  /\ next' = [next EXCEPT ![prev[c]] = next[c], ![c] = NULL]
  /\ prev' = [prev EXCEPT ![next[c]] = prev[c], ![c] = NULL]

SweepStart(i) == Snapshot(i)

(* The iterator goes on before each look.  A node it comes to is kept, or  *)
(* deleted under it.                                                       *)
Sweep ==
  /\ cpc = "sweep" /\ slot < N
  /\ IF slot \notin registered THEN NextSlot /\ UNCHANGED listVars
     ELSE \/ /\ center = NULL
             /\ Iterate(SweepStart(slot))
             /\ UNCHANGED <<listVars, slot, met>>
          \/ /\ center # NULL /\ itNext \in Sentinels
             /\ NextSlot
             /\ UNCHANGED listVars
          \/ /\ center # NULL /\ itNext \in Nodes
             /\ UNCHANGED listVars \/ Deleted(itNext)
             /\ Forward
             /\ met' = met \cup {itNext}
             /\ UNCHANGED slot
  /\ UNCHANGED <<registered, third, ActiveIndex, inserting, cpc, fresh, late>>

(* _end_collection_start_restore_snapshot.                                 *)
StartMerge ==
  /\ cpc = "sweep" /\ slot = N /\ Quiet
  /\ Loop("merge")
  /\ fresh' = {}
  /\ UNCHANGED <<listVars, registered, third, ActiveIndex, inserting, late>>

(* A list of one node counts as empty.                                     *)
empty(s) == next[s] = prev[s]

(* Mutant: the first of the nodes that were active is taken for the first. *)
First_Before(dest) == next[dest]
First(dest) == next'[dest]

(* Mutant: the source still leads to what it gave away.                    *)
merge_from_to_Keeping(source, dest) ==
  IF empty(source) THEN UNCHANGED listVars
  ELSE /\ next' = [next EXCEPT ![prev[source]] = next[dest], ![dest] = next[source]]
       /\ prev' = [prev EXCEPT ![next[source]] = dest, ![next[dest]] = prev[source]]

merge_from_to(source, dest) ==
  IF empty(source) THEN UNCHANGED listVars
  ELSE /\ next' = [next EXCEPT ![prev[source]] = next[dest], ![dest] = next[source],
                               ![source] = source]
       /\ prev' = [prev EXCEPT ![next[source]] = dest, ![next[dest]] = prev[source],
                               ![source] = source]

merge_collected ==
  /\ cpc = "merge" /\ slot < N
  /\ IF slot \in registered
     THEN /\ merge_from_to(Snapshot(slot), Active(slot))
          /\ third' = [third EXCEPT ![slot] = First(Active(slot))]
          /\ late' = late \ {slot}
     ELSE UNCHANGED <<listVars, third, late>>
  /\ NextSlot
  /\ UNCHANGED <<registered, ActiveIndex, inserting, cpc, fresh>>

StartRestore ==
  /\ cpc = "merge" /\ slot = N
  /\ Loop("restore")
  /\ UNCHANGED <<listVars, registered, third, ActiveIndex, inserting, fresh, late>>

(* The entry of an empty list leads to the sentinel, which fails assert(t):*)
(* a debug build stops, a release build goes on.  One that was never       *)
(* assigned leads anywhere; here, too, the program stops.                  *)
MayCrash(entry) == entry \notin Nodes

(* _do_restore_snapshot and _do_finalize_snapshot: from the third entry to *)
(* the sentinel.                                                           *)
WalkRestored ==
  /\ cpc \in {"restore", "finalize"} /\ slot < N
  /\ IF slot \notin registered THEN NextSlot /\ UNCHANGED cpc
     ELSE \/ /\ center = NULL
             /\ third[slot] \in Cells
             /\ Iterate(third[slot])
             /\ UNCHANGED <<slot, met, cpc>>
          \/ /\ center = NULL
             /\ MayCrash(third[slot])
             /\ cpc' = "crashed"
             /\ UNCHANGED <<slot, iterator, met>>
          \/ /\ center \in Sentinels
             /\ NextSlot
             /\ UNCHANGED cpc
          \/ /\ center \in Nodes
             /\ Forward
             /\ met' = met \cup {center}
             /\ UNCHANGED <<slot, cpc>>
  /\ UNCHANGED <<listVars, registered, third, ActiveIndex, inserting, fresh, late>>

(* _end_sweep.                                                             *)
StartFinalize ==
  /\ cpc = "restore" /\ slot = N /\ Quiet
  /\ Loop("finalize")
  /\ UNCHANGED <<listVars, registered, third, ActiveIndex, inserting, fresh, late>>

Collected ==
  /\ cpc = "finalize" /\ slot = N
  /\ Loop("idle")
  /\ UNCHANGED <<listVars, registered, third, ActiveIndex, inserting, fresh, late>>

Crashed == cpc = "crashed" /\ UNCHANGED vars

ThreadNext(i) == Register(i) \/ Insert(i) \/ Inserted(i)
CollectorNext ==
  \/ TurnLists \/ Sweep \/ StartMerge \/ merge_collected
  \/ StartRestore \/ WalkRestored \/ StartFinalize \/ Collected
  \/ Crashed
Next == CollectorNext \/ \E i \in Slots : ThreadNext(i)

Spec == Init /\ [][Next]_vars

-----------------------------------------------------------------------------
(* Properties.                                                             *)

(* The cells of a ring, in the order of the links.                         *)
From(c) ==
  LET after[k \in 0 .. Cardinality(Nodes)] == IF k = 0 THEN c ELSE next[after[k - 1]]
  IN  after
Ring(s) == {From(s)[k] : k \in 0 .. Cardinality(Nodes)} \ Sentinels

(* Threads that insert, the sweep that deletes and the merge leave rings:  *)
(* every node that is not free is in one of them, in one only, and the     *)
(* links of both directions agree but for a node that is being inserted.   *)
Linked ==
  /\ \A n \in Nodes : next[n] # NULL =>
       Cardinality({s \in Sentinels : n \in Ring(s)}) = 1
  /\ \A c \in Cells : next[c] # NULL /\ (\A i \in Slots : c # inserting[i]) =>
       prev[next[c]] = c

(* The sweep comes to every node of a snapshot list though it deletes      *)
(* under its iterator, and the walks that restore the snapshot come to     *)
(* every node that was in the list when it was merged though threads       *)
(* insert into it meanwhile: an unswept node would keep its mark, an       *)
(* unvisited one its false snapshot.                                       *)
WalksMeetAll ==
  \A i \in registered :
    i < slot =>
      /\ cpc = "sweep" => Ring(Snapshot(i)) \subseteq met
      /\ cpc \in {"restore", "finalize"} => Ring(Active(i)) \ fresh \subseteq met

(* The collector's iterator never leads to memory that is free or to a     *)
(* cell of another list, and a walk has somewhere to start: in every slot  *)
(* that had its lists when merge_collected came by.  (It has not in one    *)
(* that init_thread makes between that and the walk.)                      *)
WalkSafe ==
  /\ cpc = "sweep" /\ center # NULL =>
       itNext \in Ring(Snapshot(slot)) \cup {Snapshot(slot)}
  /\ cpc \in {"restore", "finalize"} /\ slot \in registered \ late =>
       {third[slot]} \cup (IF center = NULL THEN {} ELSE {center, itNext})
         \subseteq Ring(Active(slot)) \cup {Active(slot)}

(* _do_restore_snapshot and _do_finalize_snapshot begin every walk with    *)
(* assert(t): the list begins with a node and not with the sentinel.  The  *)
(* lists of a thread that has created nothing make that false.             *)
AssertHolds ==
  cpc \in {"restore", "finalize"} /\ slot \in registered /\ center = NULL =>
    third[slot] \notin Sentinels

(* The rings are the sets of NodeLists: each write of the code is a step   *)
(* on these sets or none.                                                  *)
Lists == INSTANCE NodeLists WITH
  active <- [i \in Slots |-> Ring(Active(i))],
  snapshot <- [i \in Slots |-> Ring(Snapshot(i))]
ImplementsNodeLists == Lists!NodeSpec
=============================================================================
