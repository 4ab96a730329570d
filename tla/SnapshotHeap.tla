----------------------------- MODULE SnapshotHeap -----------------------------
(***************************************************************************)
(* The heap of pauselessgc: every pointer is a pair (live, snap), and      *)
(* while a collection marks from the snapshot half the mutators store to   *)
(* the live half only.  The phases are those of Handshake, which GCPhases  *)
(* implements; here each phase has the collector's work in it              *)
(* (_do_collection, merge_collected, _do_restore_snapshot,                 *)
(* _do_finalize_snapshot), interleaved with what running mutators do       *)
(* through RootPtr, InstancePtr and cnew.                                  *)
(*                                                                         *)
(* Each thread has two lists of Collectables and two of RootLetters, of    *)
(* which index says which takes new ones (active); the others hold what    *)
(* was there when the collection began (snapshot).                         *)
(***************************************************************************)
EXTENDS Handshake, Sequences, FiniteSets

CONSTANTS
  Objects,    \* storage for Collectables
  Letters,    \* storage for RootLetters
  NumFields,  \* InstancePtrs of every object: total_instance_vars()
  Ptrs,       \* RootPtr variables
  Users,      \* the threads that use each RootPtr variable
  Home,       \* the thread whose lists a piece of storage can be in
  Spare,      \* how many more objects and letters, not modelled one by one,
              \* every thread keeps in its lists all the time
  NULL,
  HeapUsage   \* the ways the program uses the pointers, see below

(***************************************************************************)
(* "opt_out": threads leave and re-enter mutation.  The others are about   *)
(* assignments between two pointers of the SAME type.  C++ does not take   *)
(* their template operator= for these (a template is never a copy          *)
(* assignment) but the implicit copy assignment of the class:              *)
(*   copy_pairs   InstancePtr<T> = InstancePtr<T> copies both halves       *)
(*   share_roots  RootPtr<T> = RootPtr<T> copies the address of the letter *)
(* Without them such an assignment goes through store, like those of a raw *)
(* pointer or of another kind of pointer (p = q.get()).                    *)
(***************************************************************************)
HeapUsages == {"opt_out", "copy_pairs", "share_roots"}

ASSUME HeapAssumption ==
  /\ NULL \notin Objects \cup Letters \cup {0, 1}
  /\ IsFiniteSet(Objects) /\ IsFiniteSet(Letters)
  /\ Objects \cap Letters = {} /\ (Objects \X Nat) \cap Letters = {}
  /\ Users \in [Ptrs -> SUBSET Threads]
  /\ Home \in [Objects \cup Letters -> Threads]
  /\ Spare \in Nat \ {1}
  /\ NumFields \in Nat
  /\ HeapUsage \subseteq HeapUsages

Fields == 1 .. NumFields
Cells  == (Objects \X Fields) \cup Letters

VARIABLES
  live, snap,   \* the two halves of each pointer
  list,         \* the list each object and letter is in; NULL: freed memory
  owned, was_owned,  \* of the letters
  var,          \* RootPtr::var: the letter of each RootPtr variable
  work,         \* what the collector is doing in this phase, see Work
  todo,         \* what is left of the list or lists it iterates over
  stack,        \* collectable_mark: the path to the current object, with the
                \* number of instance vars left to follow in each, if any
  marked,       \* the objects with collectable_marked set
  kept,         \* collectables[2] and roots[2]: what merge_collected found
  fetched       \* fast_restore: the cell it has read, and what it read

mutatorVars   == <<live, list, owned, was_owned, var>>
collectorVars == <<work, todo, stack, marked, kept, fetched>>
heapVars      == <<mutatorVars, snap, collectorVars>>
vars          == <<handshakeVars, heapVars>>

(***************************************************************************)
(* roots     _do_collection, between two letters                           *)
(* mark      _do_collection, in mark() of the letter it is at              *)
(* restore   _do_restore_snapshot                                          *)
(* finalize  _do_finalize_snapshot                                         *)
(* done      the phase has no work left                                    *)
(***************************************************************************)
Work == {"roots", "mark", "restore", "finalize", "done"}

Nodes == Objects \cup Letters
InList(i) == {n \in Nodes : list[n] = i}
Free(t) == {n \in Nodes : list[n] = NULL /\ Home[n] = t}
CellsOf(S) == {<<o, f>> : o \in S \cap Objects, f \in Fields} \cup (S \cap Letters)

Init ==
  /\ HandshakeInit
  /\ live = [c \in Cells |-> NULL]
  /\ snap = [c \in Cells |-> NULL]
  /\ list = [n \in Nodes |-> NULL]
  /\ owned = [r \in Letters |-> FALSE]
  /\ was_owned = [r \in Letters |-> FALSE]
  /\ var = [p \in Ptrs |-> NULL]
  /\ work = "done"
  /\ todo = {}
  /\ stack = <<>>
  /\ marked = {}
  /\ kept = {}
  /\ fetched = NULL

-----------------------------------------------------------------------------
(* Mutators.                                                               *)

(* The RootPtrs thread t may use, what they point to, and what it can load *)
(* through them.                                                           *)
Mine(t) == {p \in Ptrs : t \in Users[p] /\ var[p] # NULL}
Held(t) == {live[var[p]] : p \in Mine(t)} \ {NULL}
Fetch(t) == {live[<<o, f>>] : o \in Held(t), f \in Fields}

(* double_ptr_store, by which every pointer is constructed.                *)
ConstructPair(c, v) ==
  /\ live' = [live EXCEPT ![c] = v]
  /\ snap' = [snap EXCEPT ![c] = v]

(* Mutant: one write barrier for all phases.                               *)
WriteBarrier_AlwaysDouble(t, c, v) ==
  /\ live' = [live EXCEPT ![c] = v]
  /\ snap' = [snap EXCEPT ![c] = v]

(* write_barrier: collecting_write_barrier while t is COLLECTING, else     *)
(* regular_write_barrier.                                                  *)
WriteBarrier(t, c, v) ==
  /\ live' = [live EXCEPT ![c] = v]
  /\ snap' = IF regime[t] = COLLECTING THEN snap ELSE [snap EXCEPT ![c] = v]

(* RootPtr p(v): a new letter in the active list.                          *)
NewRootPtr(t, p) ==
  /\ Active(t) /\ t \in Users[p] /\ var[p] = NULL
  /\ \E v \in {NULL} \cup Held(t) \cup Fetch(t), r \in Free(t) \cap Letters :
       /\ var' = [var EXCEPT ![p] = r]
       /\ list' = [list EXCEPT ![r] = index]
       /\ owned' = [owned EXCEPT ![r] = TRUE]
       /\ was_owned' = [was_owned EXCEPT ![r] = TRUE]
       /\ ConstructPair(r, v)
  /\ UNCHANGED <<handshakeVars, collectorVars>>

(* p = cnew(...): a new object in the active list, its pointers null.      *)
NewObject(t, p) ==
  /\ Active(t) /\ p \in Mine(t)
  /\ \E o \in Free(t) \cap Objects :
       /\ list' = [list EXCEPT ![o] = index]
       /\ WriteBarrier(t, var[p], o)
  /\ UNCHANGED <<handshakeVars, collectorVars, owned, was_owned, var>>

(* p = nullptr, p = q->f and p->f = nullptr, p->f = q.                     *)
Store(t, p) ==
  /\ Active(t) /\ p \in Mine(t)
  /\ \/ \E v \in {NULL} \cup Fetch(t) : WriteBarrier(t, var[p], v)
     \/ /\ live[var[p]] # NULL
        /\ \E v \in {NULL} \cup Held(t), f \in Fields :
             WriteBarrier(t, <<live[var[p]], f>>, v)
  /\ UNCHANGED <<handshakeVars, collectorVars, list, owned, was_owned, var>>

(* p->f = q->g, of the same type.                                          *)
AssignField(t, p, q) ==
  /\ Active(t) /\ {p, q} \subseteq Mine(t)
  /\ live[var[p]] # NULL /\ live[var[q]] # NULL
  /\ \E f, g \in Fields :
       LET d == <<live[var[p]], f>>
           s == <<live[var[q]], g>>
       IN  IF "copy_pairs" \in HeapUsage
           THEN /\ live' = [live EXCEPT ![d] = live[s]]
                /\ snap' = [snap EXCEPT ![d] = snap[s]]
           ELSE WriteBarrier(t, d, live[s])
  /\ UNCHANGED <<handshakeVars, collectorVars, list, owned, was_owned, var>>

(* p = q, of the same type.                                                *)
AssignRoot(t, p, q) ==
  /\ Active(t) /\ {p, q} \subseteq Mine(t)
  /\ IF "share_roots" \in HeapUsage
     THEN var' = [var EXCEPT ![p] = var[q]] /\ UNCHANGED <<live, snap>>
     ELSE WriteBarrier(t, var[p], live[var[q]]) /\ UNCHANGED var
  /\ UNCHANGED <<handshakeVars, collectorVars, list, owned, was_owned>>

(* Mutant: ~RootPtr does not keep the letter in the snapshot.              *)
StaysInSnapshot_Never(t) == FALSE

(* A root that goes while its thread is COLLECTING was still there when    *)
(* the snapshot was taken.                                                 *)
StaysInSnapshot(t) == regime[t] = COLLECTING

(* ~RootPtr.                                                               *)
DropRootPtr(t, p) ==
  /\ Active(t) /\ p \in Mine(t)
  /\ owned' = [owned EXCEPT ![var[p]] = FALSE]
  /\ was_owned' = IF StaysInSnapshot(t) THEN was_owned
                  ELSE [was_owned EXCEPT ![var[p]] = FALSE]
  /\ var' = [var EXCEPT ![p] = NULL]
  /\ UNCHANGED <<handshakeVars, collectorVars, live, snap, list>>

-----------------------------------------------------------------------------
(* The collector at the borders.                                           *)

BeginPhase ==
  /\ work = "done"
  /\ Announce
  /\ UNCHANGED heapVars

(* The snapshot list that n is in.                                         *)
SnapshotList(n) ==
  {m \in InList(1 - index) : Home[m] = Home[n] /\ (m \in Objects <=> n \in Objects)}

(* What merge_from_to moves out of the snapshot lists.  It asks whether a  *)
(* list is empty(), and a list of one element is, too: its two neighbours  *)
(* in the ring are both the sentinel.                                      *)
Moved == {n \in InList(1 - index) : Cardinality(SnapshotList(n)) + Spare # 1}

(* Leaving COLLECTING the snapshot lists go to the active lists, and where *)
(* these start is remembered (merge_collected).                            *)
Gather ==
  /\ Turn
  /\ IF phase = RESTORING_SNAPSHOT
     THEN /\ list' = [n \in Nodes |-> IF n \in Moved THEN index ELSE list[n]]
          /\ kept' = Moved \cup InList(index)
     ELSE UNCHANGED <<list, kept>>
  /\ UNCHANGED <<live, snap, owned, was_owned, var, work, todo, stack, marked, fetched>>

(* Mutant (first definition): the walks go over collectables[2] only.      *)
(*                                                                         *)
(* The restoring walks leave a pointer whose halves agree as it is.  Since *)
(* the mutators of these phases store to both halves it goes on agreeing,  *)
(* so those that agree at the start are passed at once.                    *)
Disagreeing_NoRoots(S) == {c \in CellsOf(S \cap Objects) : live[c] # snap[c]}
Disagreeing(S) == {c \in CellsOf(S) : live[c] # snap[c]}

StartWork ==
  /\ Open
  /\ work' = CASE phase = COLLECTING         -> "roots"
               [] phase = RESTORING_SNAPSHOT -> "restore"
               [] phase = NOT_COLLECTING     -> "finalize"
  /\ todo' = IF phase = COLLECTING THEN InList(1 - index) \cap Letters
             ELSE Disagreeing(kept)
  /\ UNCHANGED <<mutatorVars, snap, stack, marked, kept, fetched>>

-----------------------------------------------------------------------------
(* _do_collection.                                                         *)

(* Mutant (first definition): no test for a null pointer.                  *)
Unmarked_OrNull(v) == v \notin marked
Unmarked(v) == v # NULL /\ v \notin marked

(* The path to an object with k instance vars left to follow.              *)
Onto(path, o, k) == IF k = 0 THEN path ELSE Append(path, <<o, k>>)
Rest(path) == SubSeq(path, 1, Len(path) - 1)

(* The next letter of the snapshot lists; mark() starts if it was owned    *)
(* when the snapshot was taken.                                            *)
ScanRoot ==
  /\ work = "roots"
  /\ \E r \in todo :
       /\ fetched' = r
       /\ IF was_owned[r] /\ Unmarked(snap[r])
          THEN /\ marked' = marked \cup {snap[r]}
               /\ stack' = Onto(<<>>, snap[r], NumFields)
          ELSE UNCHANGED <<marked, stack>>
  /\ work' = "mark"
  /\ UNCHANGED <<handshakeVars, mutatorVars, snap, todo, kept>>

(* The loop of collectable_mark up to the next object it enters or instance*)
(* var it passes.  Going back to an object that has none left reads and    *)
(* writes nothing else, so such objects are not on the stack at all.       *)
MarkStep ==
  /\ work = "mark"
  /\ stack # <<>>
  /\ LET o == stack[Len(stack)][1]
         k == stack[Len(stack)][2]
         n == snap[<<o, k>>]
         path == Onto(Rest(stack), o, k - 1)
     IN  IF Unmarked(n)
         THEN marked' = marked \cup {n} /\ stack' = Onto(path, n, NumFields)
         ELSE stack' = path /\ UNCHANGED marked
  /\ UNCHANGED <<handshakeVars, mutatorVars, snap, work, todo, kept, fetched>>

(* After mark(): a letter that is not owned any more is deleted.           *)
RootDone ==
  /\ work = "mark"
  /\ stack = <<>>
  /\ LET r == fetched IN
       /\ was_owned' = [was_owned EXCEPT ![r] = owned[r]]
       /\ IF owned[r] THEN UNCHANGED <<list, live, snap>>
          ELSE /\ list' = [list EXCEPT ![r] = NULL]
               /\ ConstructPair(r, NULL)
       /\ todo' = todo \ {r}
  /\ fetched' = NULL
  /\ work' = "roots"
  /\ UNCHANGED <<handshakeVars, owned, var, stack, marked, kept>>

(* The sweep over the snapshot lists: nobody else reads or writes a mark,  *)
(* so when an object's turn comes makes no difference.                     *)
Sweep ==
  /\ work = "roots"
  /\ todo = {}
  /\ LET swept == InList(1 - index) \cap Objects
         freed == swept \ marked
     IN  /\ list' = [n \in Nodes |-> IF n \in freed THEN NULL ELSE list[n]]
         /\ live' = [c \in Cells |-> IF c \in CellsOf(freed) THEN NULL ELSE live[c]]
         /\ snap' = [c \in Cells |-> IF c \in CellsOf(freed) THEN NULL ELSE snap[c]]
         /\ marked' = marked \ swept
  /\ work' = "done"
  /\ UNCHANGED <<handshakeVars, owned, was_owned, var, todo, stack, kept, fetched>>

-----------------------------------------------------------------------------
(* _do_restore_snapshot: fast_restore reads the pair, and in a second step *)
(* writes what it found in the live half to the snapshot half.  A mutator  *)
(* that stores in between is undone in one half.                           *)
FastRead ==
  /\ work = "restore"
  /\ fetched = NULL
  /\ \E c \in todo :
       IF live[c] = snap[c] THEN todo' = todo \ {c} /\ UNCHANGED fetched
       ELSE fetched' = <<c, live[c]>> /\ UNCHANGED todo
  /\ UNCHANGED <<handshakeVars, mutatorVars, snap, work, stack, marked, kept>>

FastWrite ==
  /\ work = "restore"
  /\ fetched # NULL
  /\ snap' = [snap EXCEPT ![fetched[1]] = fetched[2]]
  /\ todo' = todo \ {fetched[1]}
  /\ fetched' = NULL
  /\ UNCHANGED <<handshakeVars, mutatorVars, work, stack, marked, kept>>

(* _do_finalize_snapshot: restore does it with a compare-and-swap of both  *)
(* halves, again and again until it succeeds.                              *)
Restore ==
  /\ work = "finalize"
  /\ \E c \in todo :
       /\ snap' = [snap EXCEPT ![c] = live[c]]
       /\ todo' = todo \ {c}
  /\ UNCHANGED <<handshakeVars, mutatorVars, work, stack, marked, kept, fetched>>

(* Nobody reads where the lists started once they are finalized.           *)
WorkDone ==
  /\ work \in {"restore", "finalize"}
  /\ todo = {}
  /\ work' = "done"
  /\ kept' = IF work = "finalize" THEN {} ELSE kept
  /\ UNCHANGED <<handshakeVars, mutatorVars, snap, todo, stack, marked, fetched>>

-----------------------------------------------------------------------------
CollectorNext ==
  \/ BeginPhase \/ Gather \/ StartWork
  \/ ScanRoot \/ MarkStep \/ RootDone \/ Sweep
  \/ FastRead \/ FastWrite \/ Restore \/ WorkDone

MutatorNext(t) ==
  \/ (Join(t) \/ Adopt(t) \/ Resume(t)) /\ UNCHANGED heapVars
  \/ "opt_out" \in HeapUsage /\ Part(t) /\ UNCHANGED heapVars
  \/ \E p \in Ptrs : NewRootPtr(t, p) \/ NewObject(t, p) \/ Store(t, p) \/ DropRootPtr(t, p)
  \/ \E p, q \in Ptrs : AssignField(t, p, q) \/ AssignRoot(t, p, q)

Next == CollectorNext \/ \E t \in Threads : MutatorNext(t)

Spec == Init /\ [][Next]_vars

-----------------------------------------------------------------------------
(* Properties.                                                             *)

(* Every variable has its type.                                            *)
TypeOK ==
  /\ phase \in Phase /\ gate \in Gate /\ index \in {0, 1}
  /\ regime \in [Threads -> Regime] /\ parked \subseteq Threads
  /\ live \in [Cells -> Objects \cup {NULL}]
  /\ snap \in [Cells -> Objects \cup {NULL}]
  /\ list \in [Nodes -> {0, 1, NULL}]
  /\ owned \in [Letters -> BOOLEAN] /\ was_owned \in [Letters -> BOOLEAN]
  /\ var \in [Ptrs -> Letters \cup {NULL}]
  /\ work \in Work
  /\ todo \subseteq Cells /\ kept \subseteq Nodes /\ marked \subseteq Objects
  /\ stack \in Seq(Objects \X Fields)
  /\ \/ fetched \in Letters \cup {NULL}
     \/ fetched \in Cells \X (Objects \cup {NULL})

(* What can be reached from a set of objects through one half of the pairs:*)
(* what is in every set that has these and is closed under following it.   *)
Closed(half, S) == \A o \in S, f \in Fields : half[<<o, f>>] \in S \cup {NULL}
Reach(half, S) ==
  {o \in Objects :
     \A T \in SUBSET Objects : S \subseteq T \cup {NULL} /\ Closed(half, T) => o \in T}

LiveObjects == Reach(live, UNION {Held(t) : t \in Threads})

(* No thread ever holds a pointer to freed memory, nor can it load one:    *)
(* the letter of every RootPtr and every object reachable from it through  *)
(* live pointers is still allocated ("the other pointer is considered part *)
(* of a snapshot that the collector follows", README.md).                  *)
NoDangling ==
  /\ \A p \in Ptrs : var[p] # NULL => list[var[p]] # NULL
  /\ \A o \in LiveObjects : list[o] # NULL

(* While the collector marks, whatever the mutators can reach in the       *)
(* snapshot lists is marked already or still ahead of the marker: a store  *)
(* to the live half, a root that comes or goes never hides an object.      *)
Pending(path) == UNION {{path[i][1]} \X (1 .. path[i][2]) : i \in 1 .. Len(path)}
Ahead == {snap[r] : r \in {l \in todo : was_owned[l]}} \cup {snap[c] : c \in Pending(stack)}
SnapshotCovers ==
  work \in {"roots", "mark"} /\ phase = COLLECTING =>
    \A o \in LiveObjects :
      list[o] = 1 - index => o \in marked \cup Reach(snap, Ahead)

(* Between collections the two halves of every pointer agree again, in     *)
(* spite of fast_restore racing with the mutators' stores: the next        *)
(* collection starts from a true snapshot.                                 *)
SnapshotRestored ==
  phase = NOT_COLLECTING /\ gate = "open" /\ work = "done" =>
    \A n \in Nodes : list[n] # NULL =>
      \A c \in CellsOf({n}) : live[c] = snap[c]

(* Only objects of the snapshot lists are ever marked, and outside         *)
(* _do_collection none is: a mark left behind would hide from the next     *)
(* collection what that object refers to.                                  *)
NoStaleMark == marked \subseteq InList(1 - index) /\ (work \notin {"roots", "mark"} => marked = {})
=============================================================================
