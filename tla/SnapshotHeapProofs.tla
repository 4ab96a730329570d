------------------------- MODULE SnapshotHeapProofs -------------------------
(***************************************************************************)
(* Proofs about SnapshotHeap, for any threads, objects, letters, pointers  *)
(* and fields: no thread ever holds or loads a pointer to freed memory, a  *)
(* collection's snapshot covers what the mutators can reach, and between   *)
(* collections the two halves of every pointer agree.                      *)
(*                                                                         *)
(* They are about programs that make no use of the two implicit copy       *)
(* assignments, and of lists that never have just one element: TLC shows   *)
(* what the others cost.                                                   *)
(***************************************************************************)
EXTENDS SnapshotHeap, FiniteSetTheorems, SequenceTheorems, TLAPS

Careful == HeapUsage \cap {"copy_pairs", "share_roots"} = {} /\ Spare # 0

-----------------------------------------------------------------------------
(* The inductive invariant, part by part.                                  *)

(* The phase under which whoever is running runs.                          *)
Era == IF gate = "closed" THEN Pred(phase) ELSE phase

InStep ==
  \A t \in Threads : regime[t] # NOT_MUTATING =>
    /\ regime[t] \in {phase, Pred(phase)}
    /\ gate # "closed" => regime[t] = phase
    /\ gate # "open" /\ regime[t] = phase => t \in parked

Marking == work \in {"roots", "mark"}

WorkFits ==
  /\ gate # "open" => work = "done"
  /\ Marking => phase = COLLECTING
  /\ work = "restore" => phase = RESTORING_SNAPSHOT
  /\ work = "finalize" => phase = NOT_COLLECTING
  /\ work # "mark" => stack = <<>>
  /\ work \in {"roots", "finalize", "done"} => fetched = NULL
  /\ ~Marking => marked = {}

(* When the lists that are not the active ones are empty, and when the     *)
(* active ones are.                                                        *)
ListsFit ==
  /\ \/ phase = NOT_COLLECTING
     \/ phase = COLLECTING /\ gate = "closed"
     \/ phase = RESTORING_SNAPSHOT /\ gate # "closed"
     => \A n \in Nodes : list[n] # 1 - index
  /\ phase = COLLECTING /\ gate = "turned" => \A n \in Nodes : list[n] # index

LettersFit ==
  /\ \A p \in Ptrs : var[p] # NULL => owned[var[p]]
  /\ \A p, q \in Ptrs : var[p] # NULL /\ var[p] = var[q] => p = q
  /\ \A r \in Letters : owned[r] => was_owned[r]
  /\ \A r \in Letters : was_owned[r] => list[r] # NULL

Allocated == {n \in Nodes : list[n] # NULL}

FreeIsBlank ==
  /\ \A r \in Letters : list[r] = NULL => live[r] = NULL /\ snap[r] = NULL
  /\ \A o \in Objects, f \in Fields :
       list[o] = NULL => live[<<o, f>>] = NULL /\ snap[<<o, f>>] = NULL

KeptFits ==
  /\ kept \subseteq Allocated
  /\ \/ phase = COLLECTING
     \/ phase = RESTORING_SNAPSHOT /\ gate = "closed"
     \/ phase = NOT_COLLECTING /\ gate = "open" /\ work = "done"
     => kept = {}
  /\ phase = RESTORING_SNAPSHOT /\ gate = "turned" => kept = Allocated
  /\ work \in {"restore", "finalize"} => todo \subseteq CellsOf(kept)
  /\ work = "restore" /\ fetched # NULL =>
       fetched \in todo \X (Objects \cup {NULL})

(* Where the halves of a pointer may differ.                               *)
Differ == {c \in Cells : live[c] # snap[c]}

HalvesFit ==
  /\ \/ phase = NOT_COLLECTING /\ gate = "open" /\ work = "done"
     \/ phase = COLLECTING /\ gate # "open"
     => Differ = {}
  /\ work = "finalize" => Differ \subseteq todo
  /\ \/ phase = RESTORING_SNAPSHOT /\ gate = "open"
     \/ phase = NOT_COLLECTING /\ gate # "open"
     => Differ \subseteq CellsOf(kept)

(* What is allocated refers to nothing that is not, in the live halves.    *)
LiveClosed ==
  /\ \A o \in Objects, f \in Fields :
       list[o] # NULL /\ live[<<o, f>>] # NULL => list[live[<<o, f>>]] # NULL
  /\ \A r \in Letters :
       was_owned[r] /\ live[r] # NULL => list[live[r]] # NULL

(* The objects that the marker will have marked when it is through.        *)
Covers(C) ==
  /\ marked \subseteq C
  /\ Ahead \subseteq C \cup {NULL}
  /\ \A o \in C \ marked, f \in Fields : snap[<<o, f>>] \in C \cup {NULL}
Covered == {o \in Objects : \A C \in SUBSET Objects : Covers(C) => o \in C}

(* What the sweep is not going to delete.                                  *)
Safe == {o \in Objects : list[o] = index \/ o \in Covered}

(* While the collector marks: the snapshot is closed, the marker stays     *)
(* inside it, the mutators get at nothing that is not safe, and the letter *)
(* it is at has been taken care of.                                        *)
SnapshotClosed ==
  /\ \A o \in Objects, f \in Fields :
       list[o] = 1 - index /\ snap[<<o, f>>] # NULL => list[snap[<<o, f>>]] = 1 - index
  /\ \A r \in Letters :
       list[r] = 1 - index /\ was_owned[r] /\ snap[r] # NULL => list[snap[r]] = 1 - index

MarkerInside ==
  /\ \A o \in marked : list[o] = 1 - index
  /\ todo \subseteq Letters /\ \A r \in todo : list[r] = 1 - index
  /\ \A i \in 1 .. Len(stack) : stack[i][1] \in marked

SafeClosed ==
  /\ \A o \in Safe, f \in Fields : live[<<o, f>>] \in Safe \cup {NULL}
  /\ \A r \in Letters : was_owned[r] => live[r] \in Safe \cup {NULL}

RootSeen ==
  work = "mark" =>
    /\ fetched \in todo
    /\ was_owned[fetched] => snap[fetched] \in marked \cup {NULL}

IInv ==
  /\ TypeOK /\ InStep /\ WorkFits /\ ListsFit /\ LettersFit /\ FreeIsBlank
  /\ KeptFits /\ HalvesFit /\ LiveClosed
  /\ Marking => SnapshotClosed /\ MarkerInside /\ SafeClosed /\ RootSeen

-----------------------------------------------------------------------------
(* Cells and nodes.                                                        *)

LEMMA Addresses ==
  /\ \A o \in Objects, f \in Fields : <<o, f>> \in Cells /\ <<o, f>> \notin Letters
  /\ \A r \in Letters : r \in Cells
  /\ \A c \in Cells : c \in Letters \/ \E o \in Objects, f \in Fields : c = <<o, f>>
  /\ \A o, f, q, g : <<o, f>> = <<q, g>> => o = q /\ f = g
  /\ Objects \cap Letters = {} /\ NULL \notin Nodes /\ NULL \notin {0, 1}
<1>1. \A f \in Fields : f \in Nat
  BY HeapAssumption DEF Fields
<1>2. \A o \in Objects, f \in Fields : <<o, f>> \in Objects \X Nat
  BY <1>1
<1> QED
  BY <1>2, HeapAssumption DEF Cells, Nodes

LEMMA CellsOfMember ==
  /\ \A S : \A o \in Objects, f \in Fields : <<o, f>> \in CellsOf(S) <=> o \in S
  /\ \A S : \A r \in Letters : r \in CellsOf(S) <=> r \in S
  /\ \A S : CellsOf(S) \subseteq Cells
<1>1. ASSUME NEW S
      PROVE  CellsOf(S) = {c \in Cells :
               \/ c \in S \cap Letters
               \/ \E o \in S \cap Objects, f \in Fields : c = <<o, f>>}
  BY Addresses DEF CellsOf, Cells
<1> QED
  BY <1>1, Addresses

LEMMA PendingMember ==
  ASSUME NEW path \in Seq(Objects \X Fields)
  PROVE  /\ \A c : c \in Pending(path) <=>
                     \E i \in 1 .. Len(path) : \E k \in 1 .. path[i][2] : c = <<path[i][1], k>>
         /\ Pending(path) \subseteq Objects \X Fields
<1>1. \A i \in 1 .. Len(path) : path[i] \in Objects \X Fields
  OBVIOUS
<1>2. \A i \in 1 .. Len(path) : path[i][1] \in Objects /\ path[i][2] \in Fields
  BY <1>1
<1>3. \A k \in Fields : 1 .. k \subseteq Fields
  BY HeapAssumption DEF Fields
<1>4. \A c : c \in Pending(path) <=>
               \E i \in 1 .. Len(path) : \E k \in 1 .. path[i][2] : c = <<path[i][1], k>>
  BY DEF Pending
<1> QED
  BY <1>2, <1>3, <1>4

LEMMA AheadMember ==
  \A x : x \in Ahead <=> \/ \E r \in todo : was_owned[r] /\ x = snap[r]
                         \/ \E c \in Pending(stack) : x = snap[c]
BY DEF Ahead

(* Whoever runs does so under the phase of the era, and nobody does while  *)
(* the gate is turned.                                                     *)
LEMMA ActiveEra ==
  ASSUME IInv, NEW t \in Threads, Active(t)
  PROVE  regime[t] = Era /\ gate # "turned"
<1> USE DEF IInv
<1>1. regime[t] \in {phase, Pred(phase)} /\ t \notin parked
  BY DEF InStep, Active
<1>2. gate \in Gate
  BY DEF TypeOK
<1>3. gate # "turned"
  BY <1>1 DEF InStep, Active
<1>4. CASE gate = "open"
  BY <1>4 DEF InStep, Active, Era
<1>5. CASE gate = "closed"
  BY <1>1, <1>5 DEF InStep, Active, Era
<1> QED
  BY <1>2, <1>3, <1>4, <1>5 DEF Gate

-----------------------------------------------------------------------------
(* What the mutators get at.                                               *)

Handy(v) ==
  v # NULL => v \in Objects /\ list[v] # NULL /\ (Marking => v \in Safe)

LEMMA HandyRoots ==
  ASSUME IInv, NEW p \in Ptrs, var[p] # NULL
  PROVE  /\ var[p] \in Letters /\ owned[var[p]] /\ was_owned[var[p]]
         /\ list[var[p]] # NULL /\ Handy(live[var[p]])
<1> USE DEF IInv
<1>1. var[p] \in Letters /\ owned[var[p]] /\ was_owned[var[p]] /\ list[var[p]] # NULL
  BY DEF LettersFit, TypeOK
<1>2. live[var[p]] \in Objects \cup {NULL}
  BY <1>1, Addresses DEF TypeOK
<1> QED
  BY <1>1, <1>2 DEF Handy, LiveClosed, SafeClosed

LEMMA HandyFields ==
  ASSUME IInv, NEW o \in Objects, Handy(o), NEW f \in Fields
  PROVE  Handy(live[<<o, f>>])
<1> USE DEF IInv
<1>1. o # NULL
  BY Addresses DEF Nodes
<1>2. live[<<o, f>>] \in Objects \cup {NULL}
  BY Addresses DEF TypeOK
<1> QED
  BY <1>1, <1>2 DEF Handy, LiveClosed, SafeClosed

LEMMA HandyLoads ==
  ASSUME IInv, NEW t \in Threads
  PROVE  \A v \in {NULL} \cup Held(t) \cup Fetch(t) : v \in Objects \cup {NULL} /\ Handy(v)
<1>1. \A v \in Held(t) : v \in Objects /\ Handy(v)
  <2> SUFFICES ASSUME NEW v \in Held(t)
               PROVE  v \in Objects /\ Handy(v)
    OBVIOUS
  <2>1. PICK p \in Mine(t) : v = live[var[p]]
    BY DEF Held
  <2>2. p \in Ptrs /\ var[p] # NULL /\ v # NULL
    BY DEF Held, Mine
  <2> QED
    BY <2>1, <2>2, HandyRoots DEF Handy
<1>2. \A v \in Fetch(t) : Handy(v)
  <2> SUFFICES ASSUME NEW v \in Fetch(t)
               PROVE  Handy(v)
    OBVIOUS
  <2>1. PICK o \in Held(t), f \in Fields : v = live[<<o, f>>]
    BY DEF Fetch
  <2> QED
    BY <1>1, <2>1, HandyFields
<1> QED
  BY <1>1, <1>2 DEF Handy

(* What is safe is so in the same sets as long as the marker, what it      *)
(* still has ahead and the snapshot halves of the objects stay the same.   *)
LEMMA SameCover ==
  ASSUME \A C \in SUBSET Objects : Covers(C)' <=> Covers(C)
  PROVE  Covered' = Covered
BY DEF Covered

-----------------------------------------------------------------------------
(* The mutators' steps, as far as the invariant can tell them apart: they  *)
(* put the nodes of F into the active lists and write v to one cell of an  *)
(* allocated node, to both halves unless they run as COLLECTING.           *)

MutatorStep(F, c, v) ==
  /\ UNCHANGED <<handshakeVars, collectorVars>>
  /\ gate # "turned"
  /\ \A n \in F : list[n] = NULL
  /\ list' = [n \in Nodes |-> IF n \in F THEN index ELSE list[n]]
  /\ live' = [live EXCEPT ![c] = v]
  /\ \/ snap' = [snap EXCEPT ![c] = v] /\ (Era = COLLECTING => c \in F \cap Letters)
     \/ snap' = snap /\ Era = COLLECTING
  /\ \A r \in Letters : c = r => r \in Allocated \cup F
  /\ \A o \in Objects, f \in Fields : c = <<o, f>> => o \in Allocated \cup F
  /\ Handy(v) \/ v \in F
  /\ owned' \in [Letters -> BOOLEAN]
  /\ was_owned' \in [Letters -> BOOLEAN]
  /\ var' \in [Ptrs -> Letters \cup {NULL}]
  /\ \A r \in Letters : r \notin F => was_owned'[r] = was_owned[r]
  /\ LettersFit'

LEMMA MutatorTypes ==
  ASSUME IInv, NEW F \in SUBSET Nodes, NEW c \in Cells, NEW v \in Objects \cup {NULL},
         MutatorStep(F, c, v)
  PROVE  TypeOK'
<1> USE DEF IInv, MutatorStep
<1>1. live' \in [Cells -> Objects \cup {NULL}] /\ snap' \in [Cells -> Objects \cup {NULL}]
  BY DEF TypeOK
<1>2. list' \in [Nodes -> {0, 1, NULL}]
  BY DEF TypeOK
<1> QED
  BY <1>1, <1>2 DEF TypeOK, handshakeVars, collectorVars

(* Which of the cells and lists are still as they were.                    *)
LEMMA MutatorFrame ==
  ASSUME IInv, NEW F \in SUBSET Nodes, NEW c \in Cells, NEW v \in Objects \cup {NULL},
         MutatorStep(F, c, v)
  PROVE  /\ index' = index /\ index \in {0, 1} /\ phase' = phase /\ gate' = gate
         /\ work' = work /\ todo' = todo /\ stack' = stack /\ marked' = marked
         /\ kept' = kept /\ fetched' = fetched /\ regime' = regime /\ parked' = parked
         /\ \A n \in Nodes : list'[n] = IF n \in F THEN index ELSE list[n]
         /\ \A n \in Nodes : list[n] # NULL => list'[n] = list[n]
         /\ v # NULL => list'[v] # NULL
<1> USE DEF IInv, MutatorStep
<1>1. /\ index' = index /\ phase' = phase /\ gate' = gate
      /\ work' = work /\ todo' = todo /\ stack' = stack /\ marked' = marked
      /\ kept' = kept /\ fetched' = fetched /\ regime' = regime /\ parked' = parked
  BY DEF handshakeVars, collectorVars
<1>2. index \in {0, 1} /\ live \in [Cells -> Objects \cup {NULL}]
      /\ snap \in [Cells -> Objects \cup {NULL}]
  BY DEF TypeOK
<1>3. \A n \in Nodes : list'[n] = IF n \in F THEN index ELSE list[n]
  OBVIOUS
<1>4. \A n \in Nodes : list[n] # NULL => list'[n] = list[n]
  BY <1>3
<1>5. v # NULL => list'[v] # NULL
  BY <1>2, <1>3, <1>4, Addresses DEF Handy, Nodes
<1> QED
  BY <1>1, <1>2, <1>3, <1>4, <1>5

LEMMA MutatorHeap ==
  ASSUME IInv, NEW F \in SUBSET Nodes, NEW c \in Cells, NEW v \in Objects \cup {NULL},
         MutatorStep(F, c, v)
  PROVE  /\ InStep' /\ WorkFits' /\ ListsFit' /\ FreeIsBlank'
         /\ KeptFits' /\ HalvesFit' /\ LiveClosed'
<1>b. /\ index' = index /\ index \in {0, 1} /\ phase' = phase /\ gate' = gate
      /\ work' = work /\ todo' = todo /\ stack' = stack /\ marked' = marked
      /\ kept' = kept /\ fetched' = fetched /\ regime' = regime /\ parked' = parked
  BY MutatorFrame
<1>c. /\ live'[c] = v
      /\ \A d \in Cells : d # c => live'[d] = live[d] /\ snap'[d] = snap[d]
  BY DEF IInv, TypeOK, MutatorStep
<1>d. /\ \A n \in Nodes : list'[n] = IF n \in F THEN index ELSE list[n]
      /\ \A n \in Nodes : list[n] # NULL => list'[n] = list[n]
      /\ v # NULL => list'[v] # NULL
  BY MutatorFrame
<1> USE DEF IInv
<1>a. TypeOK
  OBVIOUS
<1>1. InStep'
  BY <1>b DEF InStep
<1>2. WorkFits'
  BY <1>b DEF WorkFits, Marking
<1>3. ListsFit'
  <2>1. index # 1 - index
    BY <1>b
  <2> QED
    BY <1>b, <1>c, <1>d, <2>1 DEF ListsFit, MutatorStep
<1>4. FreeIsBlank'
  <2>1. index # NULL /\ Allocated \cup F \subseteq Nodes
    BY <1>b, Addresses DEF Allocated
  <2>2. \A n \in Nodes : list'[n] = NULL => list[n] = NULL /\ n \notin F
    BY <1>c, <1>d, <2>1
  <2>3. \A n \in Allocated \cup F : list'[n] # NULL
    BY <2>1, <2>2 DEF Allocated
  <2>4. \A r \in Letters : list'[r] = NULL => r # c
    BY <2>3 DEF MutatorStep
  <2>5. \A o \in Objects, f \in Fields : list'[o] = NULL => <<o, f>> # c
    BY <2>3 DEF MutatorStep
  <2>6. \A r \in Letters : list'[r] = NULL => live'[r] = NULL /\ snap'[r] = NULL
    BY <1>c, <1>d, <2>2, <2>4, Addresses DEF FreeIsBlank, Nodes
  <2>7. \A o \in Objects, f \in Fields :
          list'[o] = NULL => live'[<<o, f>>] = NULL /\ snap'[<<o, f>>] = NULL
    BY <1>c, <1>d, <2>2, <2>5, Addresses DEF FreeIsBlank, Nodes
  <2> QED
    BY <2>6, <2>7 DEF FreeIsBlank
<1>5. KeptFits'
  <2>1. gate # "turned"
    BY DEF MutatorStep
  <2>2. Allocated \subseteq Allocated'
    BY <1>c, <1>d DEF Allocated
  <2>3. CellsOf(kept)' = CellsOf(kept)
    BY <1>b DEF CellsOf
  <2> QED
    BY <1>b, <2>1, <2>2, <2>3 DEF KeptFits
<1>6. HalvesFit'
  <2>1. gate # "turned" /\ CellsOf(kept)' = CellsOf(kept)
    BY <1>b DEF MutatorStep, CellsOf
  <2>2. CASE snap' = snap /\ Era = COLLECTING
    <3>1. \/ phase = COLLECTING /\ gate = "open"
          \/ phase = RESTORING_SNAPSHOT /\ gate = "closed"
      BY <1>a, <2>1, <2>2
      DEF Era, TypeOK, Gate, Phase, Pred, Succ, COLLECTING, NOT_COLLECTING, RESTORING_SNAPSHOT
    <3> QED
      BY <1>b, <3>1
      DEF HalvesFit, WorkFits, COLLECTING, NOT_COLLECTING, RESTORING_SNAPSHOT
  <2>3. CASE snap' = [snap EXCEPT ![c] = v]
    <3>1. snap'[c] = v
      BY <1>a, <2>3 DEF TypeOK
    <3>2. Differ' \subseteq Differ
      BY <1>c, <1>d, <3>1 DEF Differ
    <3> QED
      BY <1>b, <2>1, <3>2 DEF HalvesFit
  <2> QED
    BY <2>2, <2>3 DEF MutatorStep
<1>7. LiveClosed'
  <2>1. \A d \in Cells : live[d] \in Objects \cup {NULL}
    BY <1>a DEF TypeOK
  <2>2. \A x : x \in Objects /\ list[x] # NULL => list'[x] # NULL
    BY <1>c, <1>d DEF Nodes
  <2>3. ASSUME NEW o \in Objects, NEW f \in Fields,
               list'[o] # NULL, live'[<<o, f>>] # NULL
        PROVE  list'[live'[<<o, f>>]] # NULL
    <3>1. CASE <<o, f>> = c
      BY <1>c, <1>d, <2>3, <3>1
    <3>2. CASE <<o, f>> # c
      <4>1. live'[<<o, f>>] = live[<<o, f>>]
        BY <1>c, <1>d, <3>2, Addresses
      <4>2. list[o] # NULL
        BY <2>3, <4>1 DEF FreeIsBlank
      <4> QED
        BY <2>1, <2>2, <2>3, <4>1, <4>2, Addresses DEF LiveClosed
    <3> QED
      BY <3>1, <3>2
  <2>4. ASSUME NEW r \in Letters, was_owned'[r], live'[r] # NULL
        PROVE  list'[live'[r]] # NULL
    <3>1. CASE r = c
      BY <1>c, <1>d, <2>4, <3>1
    <3>2. CASE r # c
      <4>1. live'[r] = live[r]
        BY <1>c, <1>d, <3>2, Addresses
      <4>2. r \notin F
        BY <2>4, <4>1 DEF FreeIsBlank, MutatorStep
      <4>3. was_owned[r]
        BY <2>4, <4>2 DEF MutatorStep
      <4> QED
        BY <2>1, <2>2, <2>4, <4>1, <4>3, Addresses DEF LiveClosed
    <3> QED
      BY <3>1, <3>2
  <2> QED
    BY <2>3, <2>4 DEF LiveClosed
<1> QED
  BY <1>1, <1>2, <1>3, <1>4, <1>5, <1>6, <1>7

LEMMA MutatorMarks ==
  ASSUME IInv, NEW F \in SUBSET Nodes, NEW c \in Cells, NEW v \in Objects \cup {NULL},
         MutatorStep(F, c, v), Marking
  PROVE  SnapshotClosed' /\ MarkerInside' /\ SafeClosed' /\ RootSeen'
<1>b. /\ index' = index /\ index \in {0, 1} /\ work' = work /\ todo' = todo
      /\ stack' = stack /\ marked' = marked /\ fetched' = fetched
  BY MutatorFrame
<1>d. /\ \A n \in Nodes : list'[n] = IF n \in F THEN index ELSE list[n]
      /\ \A n \in Nodes : list[n] # NULL => list'[n] = list[n]
  BY MutatorFrame
<1> USE DEF IInv
<1>a. TypeOK /\ SnapshotClosed /\ MarkerInside /\ SafeClosed /\ RootSeen
  OBVIOUS
<1>c. /\ live'[c] = v
      /\ \A d \in Cells : d # c => live'[d] = live[d] /\ snap'[d] = snap[d]
  BY <1>a DEF TypeOK, MutatorStep
<1>e. index # 1 - index /\ index # NULL /\ 1 - index # NULL
  BY <1>b, Addresses
<1>1. Era = COLLECTING
  BY DEF WorkFits, Marking, Era
<1>2. snap' = snap \/ c \in F \cap Letters
  BY <1>1 DEF MutatorStep
<1>3. \A o \in Objects, f \in Fields : snap'[<<o, f>>] = snap[<<o, f>>]
  <2> SUFFICES ASSUME NEW o \in Objects, NEW f \in Fields
               PROVE  snap'[<<o, f>>] = snap[<<o, f>>]
    OBVIOUS
  <2>1. <<o, f>> \in Cells /\ <<o, f>> \notin Letters
    BY Addresses
  <2>2. CASE snap' = snap
    BY <2>2
  <2>3. CASE c \in F \cap Letters
    BY <1>c, <2>1, <2>3
  <2> QED
    BY <1>2, <2>2, <2>3
<1>4. \A r \in Letters : r \notin F => snap'[r] = snap[r] /\ was_owned'[r] = was_owned[r]
  BY <1>c, <1>2, Addresses DEF MutatorStep
<1>5. \A n \in Nodes : list'[n] = 1 - index <=> list[n] = 1 - index
  BY <1>d, <1>e DEF MutatorStep
<1>6. \A r \in todo : r \in Letters /\ r \notin F
  BY <1>a, <1>e DEF MarkerInside, MutatorStep
<1>7. Covered' = Covered
  <2>1. Pending(stack) \subseteq Objects \X Fields
    BY <1>a, PendingMember DEF TypeOK
  <2>2. \A d \in Pending(stack) : snap'[d] = snap[d]
    BY <1>3, <2>1
  <2>3. \A r \in todo : snap'[r] = snap[r] /\ was_owned'[r] = was_owned[r]
    BY <1>4, <1>6
  <2>4. Ahead' = {snap'[r] : r \in {l \in todo : was_owned'[l]}} \cup {snap'[d] : d \in Pending(stack)}
    BY <1>b DEF Ahead, Pending
  <2>5. Ahead' = Ahead
    BY <2>2, <2>3, <2>4 DEF Ahead
  <2>6. \A C \in SUBSET Objects : Covers(C)' <=> Covers(C)
    BY <1>b, <1>3, <2>5 DEF Covers
  <2> QED
    BY <2>6, SameCover
<1>8. SnapshotClosed'
  <2>1. \A n \in Objects : list'[n] = 1 - index <=> list[n] = 1 - index
    BY <1>5 DEF Nodes
  <2>2. \A r \in Letters : list'[r] = 1 - index => list[r] = 1 - index /\ r \notin F
    BY <1>5, <1>e DEF Nodes, MutatorStep
  <2>3. \A d \in Cells : snap[d] \in Objects \cup {NULL}
    BY <1>a DEF TypeOK
  <2>4. ASSUME NEW o \in Objects, NEW f \in Fields,
               list'[o] = 1 - index, snap'[<<o, f>>] # NULL
        PROVE  list'[snap'[<<o, f>>]] = 1 - index
    BY <1>a, <1>3, <2>1, <2>3, <2>4, Addresses DEF SnapshotClosed
  <2>5. ASSUME NEW r \in Letters, list'[r] = 1 - index, was_owned'[r], snap'[r] # NULL
        PROVE  list'[snap'[r]] = 1 - index
    BY <1>a, <1>4, <2>1, <2>2, <2>3, <2>5, Addresses DEF SnapshotClosed
  <2> QED
    BY <1>b, <2>4, <2>5 DEF SnapshotClosed
<1>9. MarkerInside'
  <2>1. marked \subseteq Nodes
    BY <1>a DEF TypeOK, Nodes
  <2> QED
    BY <1>a, <1>b, <1>5, <2>1 DEF MarkerInside, Nodes
<1>10. SafeClosed'
  <2>1. Safe' = {o \in Objects : list'[o] = index \/ o \in Covered}
    BY <1>b, <1>7 DEF Safe
  <2>2. \A o \in Safe : o \in Safe'
    BY <2>1, <1>d, <1>e DEF Safe, Nodes
  <2>3. \A o \in Objects : o \in F => o \in Safe'
    BY <2>1, <1>d DEF Nodes
  <2>4. \A o \in Safe' : o \notin F => o \in Safe
    BY <2>1, <1>d DEF Safe, Nodes
  <2>5. v \in Safe' \cup {NULL}
    BY <2>2, <2>3, Addresses DEF MutatorStep, Handy, Nodes
  <2>6. \A n \in F : list[n] = NULL
    BY DEF MutatorStep
  <2>7. ASSUME NEW o \in Safe', NEW f \in Fields
        PROVE  live'[<<o, f>>] \in Safe' \cup {NULL}
    <3>1. o \in Objects
      BY <2>1
    <3>2. live[<<o, f>>] \in Safe \cup {NULL}
      BY <1>a, <2>4, <2>6, <3>1 DEF SafeClosed, FreeIsBlank
    <3> QED
      BY <1>c, <2>2, <2>5, <3>1, <3>2, Addresses
  <2>8. ASSUME NEW r \in Letters, was_owned'[r]
        PROVE  live'[r] \in Safe' \cup {NULL}
    <3>1. live[r] \in Safe \cup {NULL}
      BY <1>a, <1>4, <2>6, <2>8 DEF SafeClosed, FreeIsBlank
    <3> QED
      BY <1>c, <2>2, <2>5, <3>1, Addresses
  <2> QED
    BY <2>7, <2>8 DEF SafeClosed
<1>11. RootSeen'
  BY <1>a, <1>b, <1>4, <1>6 DEF RootSeen
<1> QED
  BY <1>8, <1>9, <1>10, <1>11

LEMMA MutatorKeeps ==
  ASSUME IInv, NEW F \in SUBSET Nodes, NEW c \in Cells, NEW v \in Objects \cup {NULL},
         MutatorStep(F, c, v)
  PROVE  IInv'
<1>1. TypeOK'
  BY MutatorTypes
<1>2. /\ InStep' /\ WorkFits' /\ ListsFit' /\ FreeIsBlank'
      /\ KeptFits' /\ HalvesFit' /\ LiveClosed'
  BY MutatorHeap
<1>3. LettersFit'
  BY DEF MutatorStep
<1>4. Marking' => SnapshotClosed' /\ MarkerInside' /\ SafeClosed' /\ RootSeen'
  <2>1. Marking' => Marking
    BY DEF MutatorStep, collectorVars, Marking
  <2> QED
    BY <2>1, MutatorMarks
<1> QED
  BY <1>1, <1>2, <1>3, <1>4 DEF IInv

(* A store through the write barrier, all of the lists being as they were. *)
LEMMA WriteKeeps ==
  ASSUME IInv, NEW t \in Threads, Active(t),
         NEW c \in Cells, NEW v \in Objects \cup {NULL}, Handy(v),
         \A r \in Letters : c = r => list[r] # NULL,
         \A o \in Objects, f \in Fields : c = <<o, f>> => list[o] # NULL,
         WriteBarrier(t, c, v),
         UNCHANGED <<handshakeVars, collectorVars, list, owned, was_owned, var>>
  PROVE  IInv'
<1>1. regime[t] = Era /\ gate # "turned"
  BY ActiveEra
<1>2. list' = [n \in Nodes |-> IF n \in {} THEN index ELSE list[n]]
  BY DEF IInv, TypeOK
<1>3. UNCHANGED <<handshakeVars, collectorVars>> /\ UNCHANGED <<list, owned, was_owned, var>>
  OBVIOUS
<1>4. LettersFit'
  BY <1>3 DEF IInv, LettersFit
<1>5. MutatorStep({}, c, v)
  <2>1. \/ snap' = [snap EXCEPT ![c] = v] /\ (Era = COLLECTING => c \in {} \cap Letters)
        \/ snap' = snap /\ Era = COLLECTING
    BY <1>1 DEF WriteBarrier
  <2>2. /\ \A r \in Letters : c = r => r \in Allocated \cup {}
        /\ \A o \in Objects, f \in Fields : c = <<o, f>> => o \in Allocated \cup {}
    BY DEF Allocated, Nodes
  <2>3. /\ owned' \in [Letters -> BOOLEAN]
        /\ was_owned' \in [Letters -> BOOLEAN]
        /\ var' \in [Ptrs -> Letters \cup {NULL}]
        /\ \A r \in Letters : r \notin {} => was_owned'[r] = was_owned[r]
    BY <1>3 DEF IInv, TypeOK
  <2>4. live' = [live EXCEPT ![c] = v]
    BY DEF WriteBarrier
  <2> QED
    BY <1>1, <1>2, <1>3, <1>4, <2>1, <2>2, <2>3, <2>4 DEF MutatorStep
<1> QED
  BY <1>5, MutatorKeeps

(* A RootPtr in use is one of the cells that may be written to, and so is  *)
(* every field of an object one holds.                                     *)
LEMMA MineWritable ==
  ASSUME IInv, NEW t \in Threads, NEW p \in Mine(t)
  PROVE  /\ p \in Ptrs /\ var[p] # NULL /\ var[p] \in Letters /\ var[p] \in Cells
         /\ \A r \in Letters : var[p] = r => list[r] # NULL
         /\ \A o \in Objects, f \in Fields : var[p] = <<o, f>> => list[o] # NULL
         /\ live[var[p]] \in Objects \cup {NULL} /\ Handy(live[var[p]])
         /\ live[var[p]] # NULL =>
              live[var[p]] \in Objects /\ live[var[p]] \in Held(t) /\ list[live[var[p]]] # NULL
<1>1. p \in Ptrs /\ var[p] # NULL
  BY DEF Mine
<1>2. var[p] \in Letters /\ list[var[p]] # NULL /\ Handy(live[var[p]])
  BY <1>1, HandyRoots
<1>3. live[var[p]] \in Objects \cup {NULL}
  BY <1>2, Addresses DEF IInv, TypeOK
<1>4. \A o \in Objects, f \in Fields : var[p] # <<o, f>>
  BY <1>2, Addresses
<1> QED
  BY <1>1, <1>2, <1>3, <1>4, Addresses DEF Handy, Held

LEMMA FieldWritable ==
  ASSUME NEW o \in Objects, list[o] # NULL, NEW f \in Fields
  PROVE  /\ <<o, f>> \in Cells
         /\ \A r \in Letters : <<o, f>> = r => list[r] # NULL
         /\ \A q \in Objects, g \in Fields : <<o, f>> = <<q, g>> => list[q] # NULL
BY Addresses

LEMMA StoreKeeps ==
  ASSUME IInv, NEW t \in Threads, NEW p \in Ptrs, Store(t, p)
  PROVE  IInv'
<1>1. Active(t) /\ p \in Mine(t)
      /\ UNCHANGED <<handshakeVars, collectorVars, list, owned, was_owned, var>>
  BY DEF Store
<1>2. CASE \E v \in {NULL} \cup Fetch(t) : WriteBarrier(t, var[p], v)
  <2>1. PICK v \in {NULL} \cup Fetch(t) : WriteBarrier(t, var[p], v)
    BY <1>2
  <2>2. v \in Objects \cup {NULL} /\ Handy(v)
    BY HandyLoads
  <2> QED
    BY <1>1, <2>1, <2>2, MineWritable, WriteKeeps
<1>3. CASE /\ live[var[p]] # NULL
           /\ \E v \in {NULL} \cup Held(t), f \in Fields :
                WriteBarrier(t, <<live[var[p]], f>>, v)
  <2>1. PICK v \in {NULL} \cup Held(t), f \in Fields : WriteBarrier(t, <<live[var[p]], f>>, v)
    BY <1>3
  <2>2. v \in Objects \cup {NULL} /\ Handy(v)
    BY HandyLoads
  <2>3. live[var[p]] \in Objects /\ list[live[var[p]]] # NULL
    BY <1>1, <1>3, MineWritable
  <2> DEFINE o == live[var[p]]
  <2>4. o \in Objects /\ list[o] # NULL /\ WriteBarrier(t, <<o, f>>, v)
    BY <2>1, <2>3
  <2> HIDE DEF o
  <2> QED
    BY <1>1, <2>2, <2>4, FieldWritable, WriteKeeps
<1> QED
  BY <1>2, <1>3 DEF Store

LEMMA AssignFieldKeeps ==
  ASSUME IInv, Careful, NEW t \in Threads, NEW p \in Ptrs, NEW q \in Ptrs, AssignField(t, p, q)
  PROVE  IInv'
<1>1. /\ Active(t) /\ p \in Mine(t) /\ q \in Mine(t)
      /\ live[var[p]] # NULL /\ live[var[q]] # NULL
      /\ UNCHANGED <<handshakeVars, collectorVars, list, owned, was_owned, var>>
  BY DEF AssignField
<1>2. PICK f \in Fields, g \in Fields :
        WriteBarrier(t, <<live[var[p]], f>>, live[<<live[var[q]], g>>])
  BY DEF AssignField, Careful
<1>3. live[<<live[var[q]], g>>] \in Fetch(t)
  BY <1>1, MineWritable DEF Fetch
<1>4. live[var[p]] \in Objects /\ list[live[var[p]]] # NULL
  BY <1>1, MineWritable
<1> DEFINE o == live[var[p]]
           v == live[<<live[var[q]], g>>]
<1>5. /\ o \in Objects /\ list[o] # NULL /\ WriteBarrier(t, <<o, f>>, v)
      /\ v \in Objects \cup {NULL} /\ Handy(v)
  BY <1>2, <1>3, <1>4, HandyLoads
<1> HIDE DEF o, v
<1> QED
  BY <1>1, <1>5, FieldWritable, WriteKeeps

LEMMA AssignRootKeeps ==
  ASSUME IInv, Careful, NEW t \in Threads, NEW p \in Ptrs, NEW q \in Ptrs, AssignRoot(t, p, q)
  PROVE  IInv'
<1>1. /\ Active(t) /\ p \in Mine(t) /\ q \in Mine(t)
      /\ UNCHANGED <<handshakeVars, collectorVars, list, owned, was_owned>>
  BY DEF AssignRoot
<1>2. WriteBarrier(t, var[p], live[var[q]]) /\ var' = var
  BY DEF AssignRoot, Careful
<1>3. live[var[q]] \in Objects \cup {NULL} /\ Handy(live[var[q]])
  BY <1>1, MineWritable
<1>4. UNCHANGED <<handshakeVars, collectorVars, list, owned, was_owned, var>>
  BY <1>1, <1>2
<1> QED
  BY <1>1, <1>2, <1>3, <1>4, MineWritable, WriteKeeps

LEMMA NewObjectKeeps ==
  ASSUME IInv, NEW t \in Threads, NEW p \in Ptrs, NewObject(t, p)
  PROVE  IInv'
<1>1. /\ Active(t) /\ p \in Mine(t)
      /\ UNCHANGED <<handshakeVars, collectorVars>> /\ UNCHANGED <<owned, was_owned, var>>
  BY DEF NewObject
<1>2. PICK o \in Free(t) \cap Objects :
        list' = [list EXCEPT ![o] = index] /\ WriteBarrier(t, var[p], o)
  BY DEF NewObject
<1> DEFINE c == var[p]
<1>3. /\ c \in Letters /\ c \in Cells /\ list[c] # NULL /\ c # o
      /\ WriteBarrier(t, c, o) /\ list[o] = NULL /\ o \in Nodes
  BY <1>1, <1>2, MineWritable DEF Free
<1> HIDE DEF c
<1>4. regime[t] = Era /\ gate # "turned"
  BY <1>1, ActiveEra
<1>5. list' = [n \in Nodes |-> IF n \in {o} THEN index ELSE list[n]]
  BY <1>2, <1>3 DEF IInv, TypeOK
<1>6. LettersFit'
  <2>1. \A r \in Letters : list[r] # NULL => list'[r] # NULL
    <3>1. index \in {0, 1} /\ Letters \subseteq Nodes
      BY DEF IInv, TypeOK, Nodes
    <3> QED
      BY <1>5, <3>1, Addresses
  <2> QED
    BY <1>1, <2>1 DEF IInv, LettersFit
<1>7. MutatorStep({o}, c, o)
  <2>1. \/ snap' = [snap EXCEPT ![c] = o] /\ (Era = COLLECTING => c \in {o} \cap Letters)
        \/ snap' = snap /\ Era = COLLECTING
    BY <1>3, <1>4 DEF WriteBarrier
  <2>2. /\ \A r \in Letters : c = r => r \in Allocated \cup {o}
        /\ \A q \in Objects, f \in Fields : c = <<q, f>> => q \in Allocated \cup {o}
    BY <1>3, Addresses DEF Allocated, Nodes
  <2>3. /\ owned' \in [Letters -> BOOLEAN]
        /\ was_owned' \in [Letters -> BOOLEAN]
        /\ var' \in [Ptrs -> Letters \cup {NULL}]
        /\ \A r \in Letters : r \notin {o} => was_owned'[r] = was_owned[r]
    BY <1>1 DEF IInv, TypeOK
  <2>4. live' = [live EXCEPT ![c] = o] /\ \A n \in {o} : list[n] = NULL
    BY <1>3 DEF WriteBarrier
  <2> QED
    BY <1>1, <1>4, <1>5, <1>6, <2>1, <2>2, <2>3, <2>4 DEF MutatorStep
<1> QED
  BY <1>2, <1>3, <1>7, MutatorKeeps

LEMMA NewRootPtrKeeps ==
  ASSUME IInv, NEW t \in Threads, NEW p \in Ptrs, NewRootPtr(t, p)
  PROVE  IInv'
<1>1. /\ Active(t) /\ var[p] = NULL
      /\ UNCHANGED <<handshakeVars, collectorVars>>
  BY DEF NewRootPtr
<1>2. PICK v \in {NULL} \cup Held(t) \cup Fetch(t), r \in Free(t) \cap Letters :
        /\ var' = [var EXCEPT ![p] = r]
        /\ list' = [list EXCEPT ![r] = index]
        /\ owned' = [owned EXCEPT ![r] = TRUE]
        /\ was_owned' = [was_owned EXCEPT ![r] = TRUE]
        /\ ConstructPair(r, v)
  BY DEF NewRootPtr
<1>3. /\ r \in Letters /\ r \in Cells /\ r \in Nodes /\ list[r] = NULL
      /\ v \in Objects \cup {NULL} /\ Handy(v) /\ r # NULL
  BY HandyLoads, Addresses DEF Free, Nodes
<1>4. gate # "turned"
  BY <1>1, ActiveEra
<1>5. list' = [n \in Nodes |-> IF n \in {r} THEN index ELSE list[n]]
  BY <1>2, <1>3 DEF IInv, TypeOK
<1>6. ~owned[r] /\ ~was_owned[r]
  BY <1>3 DEF IInv, LettersFit
<1>7. /\ owned' \in [Letters -> BOOLEAN]
      /\ was_owned' \in [Letters -> BOOLEAN]
      /\ var' \in [Ptrs -> Letters \cup {NULL}]
      /\ \A l \in Letters : l # r => was_owned'[l] = was_owned[l] /\ owned'[l] = owned[l]
      /\ \A q \in Ptrs : q # p => var'[q] = var[q]
      /\ var'[p] = r /\ owned'[r] /\ was_owned'[r]
  BY <1>2, <1>3 DEF IInv, TypeOK
<1>8. LettersFit'
  <2>1. \A q \in Ptrs : var[q] # r
    BY <1>3, <1>6 DEF IInv, LettersFit
  <2>2. \A q \in Ptrs : var[q] \in Letters \cup {NULL}
    BY DEF IInv, TypeOK
  <2>3. list'[r] # NULL /\ \A l \in Letters : l # r => list'[l] = list[l]
    <3>1. index \in {0, 1} /\ Letters \subseteq Nodes
      BY DEF IInv, TypeOK, Nodes
    <3> QED
      BY <1>3, <1>5, <3>1, Addresses
  <2>4. \A q \in Ptrs : var'[q] # NULL => owned'[var'[q]]
    BY <1>7, <2>1, <2>2 DEF IInv, LettersFit
  <2>5. \A q, s \in Ptrs : var'[q] # NULL /\ var'[q] = var'[s] => q = s
    BY <1>7, <2>1 DEF IInv, LettersFit
  <2>6. \A l \in Letters : owned'[l] => was_owned'[l]
    BY <1>7 DEF IInv, LettersFit
  <2>7. \A l \in Letters : was_owned'[l] => list'[l] # NULL
    BY <1>7, <2>3 DEF IInv, LettersFit
  <2> QED
    BY <2>4, <2>5, <2>6, <2>7 DEF LettersFit
<1>9. MutatorStep({r}, r, v)
  <2>1. snap' = [snap EXCEPT ![r] = v] /\ (Era = COLLECTING => r \in {r} \cap Letters)
    BY <1>2, <1>3 DEF ConstructPair
  <2>2. /\ \A l \in Letters : r = l => l \in Allocated \cup {r}
        /\ \A q \in Objects, f \in Fields : r = <<q, f>> => q \in Allocated \cup {r}
    BY <1>3, Addresses
  <2>3. \A l \in Letters : l \notin {r} => was_owned'[l] = was_owned[l]
    BY <1>7
  <2>4. live' = [live EXCEPT ![r] = v] /\ \A n \in {r} : list[n] = NULL
    BY <1>2, <1>3 DEF ConstructPair
  <2> QED
    BY <1>1, <1>3, <1>4, <1>5, <1>7, <1>8, <2>1, <2>2, <2>3, <2>4 DEF MutatorStep
<1> QED
  BY <1>3, <1>9, MutatorKeeps

LEMMA DropRootPtrKeeps ==
  ASSUME IInv, NEW t \in Threads, NEW p \in Ptrs, DropRootPtr(t, p)
  PROVE  IInv'
<1>1. /\ Active(t) /\ p \in Mine(t)
      /\ owned' = [owned EXCEPT ![var[p]] = FALSE]
      /\ was_owned' = IF StaysInSnapshot(t) THEN was_owned
                      ELSE [was_owned EXCEPT ![var[p]] = FALSE]
      /\ var' = [var EXCEPT ![p] = NULL]
  BY DEF DropRootPtr
<1>2. /\ UNCHANGED <<live, snap, list>>
      /\ phase' = phase /\ gate' = gate /\ index' = index /\ regime' = regime /\ parked' = parked
      /\ work' = work /\ todo' = todo /\ stack' = stack /\ marked' = marked /\ kept' = kept
      /\ fetched' = fetched
  BY DEF DropRootPtr, handshakeVars, collectorVars
<1>3. regime[t] = Era /\ p \in Ptrs /\ var[p] \in Letters /\ var[p] # NULL
  BY <1>1, ActiveEra, MineWritable
<1> USE DEF IInv
<1>4. /\ owned' \in [Letters -> BOOLEAN]
      /\ was_owned' \in [Letters -> BOOLEAN]
      /\ var' \in [Ptrs -> Letters \cup {NULL}]
      /\ \A l \in Letters : l # var[p] => was_owned'[l] = was_owned[l] /\ owned'[l] = owned[l]
      /\ \A q \in Ptrs : q # p => var'[q] = var[q]
      /\ var'[p] = NULL /\ ~owned'[var[p]]
      /\ \A l \in Letters : was_owned'[l] => was_owned[l]
  BY <1>1, <1>3 DEF TypeOK
<1>5. TypeOK'
  BY <1>2, <1>4 DEF TypeOK
<1>6. InStep' /\ WorkFits' /\ ListsFit' /\ FreeIsBlank' /\ HalvesFit'
  <2>1. InStep'
    BY <1>2 DEF InStep
  <2>2. WorkFits'
    BY <1>2 DEF WorkFits, Marking
  <2>3. ListsFit' /\ FreeIsBlank'
    BY <1>2 DEF ListsFit, FreeIsBlank
  <2>4. CellsOf(kept)' = CellsOf(kept) /\ Differ' = Differ
    BY <1>2 DEF CellsOf, Differ
  <2> QED
    BY <1>2, <2>1, <2>2, <2>3, <2>4 DEF HalvesFit
<1>7. KeptFits'
  <2>1. CellsOf(kept)' = CellsOf(kept) /\ Allocated' = Allocated
    BY <1>2 DEF CellsOf, Allocated
  <2> QED
    BY <1>2, <2>1 DEF KeptFits
<1>8. LettersFit'
  <2>1. \A q \in Ptrs : q # p /\ var[q] # NULL => var[q] # var[p]
    BY <1>3 DEF LettersFit
  <2>2. \A q \in Ptrs : var[q] \in Letters \cup {NULL}
    BY DEF TypeOK
  <2>3. \A q \in Ptrs : var'[q] # NULL => owned'[var'[q]]
    BY <1>4, <2>1, <2>2 DEF LettersFit
  <2>4. \A q, s \in Ptrs : var'[q] # NULL /\ var'[q] = var'[s] => q = s
    BY <1>4 DEF LettersFit
  <2>5. \A l \in Letters : owned'[l] => was_owned'[l]
    BY <1>4 DEF LettersFit
  <2>6. \A l \in Letters : was_owned'[l] => list'[l] # NULL
    BY <1>2, <1>4 DEF LettersFit
  <2> QED
    BY <2>3, <2>4, <2>5, <2>6 DEF LettersFit
<1>9. LiveClosed'
  BY <1>2, <1>4 DEF LiveClosed
<1>10. ASSUME Marking
       PROVE  SnapshotClosed' /\ MarkerInside' /\ SafeClosed' /\ RootSeen'
  <2>1. was_owned' = was_owned
    BY <1>1, <1>3, <1>10 DEF WorkFits, Marking, Era, StaysInSnapshot
  <2>2. Pending(stack)' = Pending(stack)
    BY <1>2 DEF Pending
  <2>3. Ahead' = Ahead
    BY <1>2, <2>1, <2>2 DEF Ahead
  <2>4. Covered' = Covered
    <3>1. \A C \in SUBSET Objects : Covers(C)' <=> Covers(C)
      BY <1>2, <2>3 DEF Covers
    <3> QED
      BY <3>1, SameCover
  <2>5. Safe' = Safe
    BY <1>2, <2>4 DEF Safe
  <2>6. SnapshotClosed' /\ MarkerInside'
    BY <1>2, <1>10, <2>1 DEF SnapshotClosed, MarkerInside
  <2>7. SafeClosed' /\ RootSeen'
    BY <1>2, <1>10, <2>1, <2>5 DEF SafeClosed, RootSeen
  <2> QED
    BY <2>6, <2>7
<1>11. Marking' => Marking
  BY <1>2 DEF Marking
<1> QED
  BY <1>5, <1>6, <1>7, <1>8, <1>9, <1>10, <1>11

-----------------------------------------------------------------------------
(* The handshake.  Nothing but the first two parts is about who takes part.*)

LEMMA HeapSame ==
  ASSUME IInv, UNCHANGED <<phase, gate, index>>, UNCHANGED heapVars, TypeOK', InStep'
  PROVE  IInv'
<1>1. /\ phase' = phase /\ gate' = gate /\ index' = index
      /\ live' = live /\ snap' = snap /\ list' = list /\ owned' = owned
      /\ was_owned' = was_owned /\ var' = var
      /\ work' = work /\ todo' = todo /\ stack' = stack /\ marked' = marked /\ kept' = kept
      /\ fetched' = fetched
  BY DEF heapVars, mutatorVars, collectorVars
<1> USE DEF IInv
<1>2. WorkFits' /\ ListsFit' /\ LettersFit' /\ FreeIsBlank' /\ LiveClosed'
  <2>1. WorkFits'
    BY <1>1 DEF WorkFits, Marking
  <2>2. ListsFit' /\ LettersFit'
    BY <1>1 DEF ListsFit, LettersFit
  <2>3. FreeIsBlank' /\ LiveClosed'
    BY <1>1 DEF FreeIsBlank, LiveClosed
  <2> QED
    BY <2>1, <2>2, <2>3
<1>3. KeptFits' /\ HalvesFit'
  <2>1. CellsOf(kept)' = CellsOf(kept) /\ Differ' = Differ /\ Allocated' = Allocated
    BY <1>1 DEF CellsOf, Differ, Allocated
  <2> QED
    BY <1>1, <2>1 DEF KeptFits, HalvesFit
<1>4. ASSUME Marking
      PROVE  SnapshotClosed' /\ MarkerInside' /\ SafeClosed' /\ RootSeen'
  <2>1. Pending(stack)' = Pending(stack)
    BY <1>1 DEF Pending
  <2>2. Ahead' = Ahead
    BY <1>1, <2>1 DEF Ahead
  <2>3. Covered' = Covered
    <3>1. \A C \in SUBSET Objects : Covers(C)' <=> Covers(C)
      BY <1>1, <2>2 DEF Covers
    <3> QED
      BY <3>1, SameCover
  <2>4. Safe' = Safe
    BY <1>1, <2>3 DEF Safe
  <2>5. SnapshotClosed' /\ MarkerInside'
    BY <1>1, <1>4 DEF SnapshotClosed, MarkerInside
  <2>6. SafeClosed' /\ RootSeen'
    BY <1>1, <1>4, <2>4 DEF SafeClosed, RootSeen
  <2> QED
    BY <2>5, <2>6
<1>5. Marking' => Marking
  BY <1>1 DEF Marking
<1> QED
  BY <1>2, <1>3, <1>4, <1>5

LEMMA JoinKeeps ==
  ASSUME IInv, NEW t \in Threads, Join(t) \/ Adopt(t), UNCHANGED heapVars
  PROVE  IInv'
<1>1. /\ regime' = [regime EXCEPT ![t] = phase] /\ parked' = parked \cup {t}
      /\ phase' = phase /\ gate' = gate /\ index' = index
  BY DEF Join, Adopt
<1>2. TypeOK /\ InStep
  BY DEF IInv
<1>3. TypeOK'
  <2>1. regime' \in [Threads -> Regime] /\ parked' \subseteq Threads
    BY <1>1, <1>2 DEF TypeOK, Regime
  <2> QED
    BY <1>1, <1>2, <2>1 DEF TypeOK, heapVars, mutatorVars, collectorVars
<1>4. InStep'
  <2>1. regime'[t] = phase /\ \A u \in Threads : u # t => regime'[u] = regime[u]
    BY <1>1, <1>2 DEF TypeOK
  <2> QED
    BY <1>1, <1>2, <2>1 DEF InStep
<1> QED
  BY <1>1, <1>3, <1>4, HeapSame

LEMMA ResumeKeeps ==
  ASSUME IInv, NEW t \in Threads, Resume(t), UNCHANGED heapVars
  PROVE  IInv'
<1>1. /\ parked' = parked \ {t} /\ (regime[t] = phase => gate = "open")
      /\ phase' = phase /\ gate' = gate /\ index' = index /\ regime' = regime
  BY DEF Resume
<1>2. TypeOK /\ InStep
  BY DEF IInv
<1>3. TypeOK'
  BY <1>1, <1>2 DEF TypeOK, heapVars, mutatorVars, collectorVars
<1>4. InStep'
  BY <1>1, <1>2 DEF InStep
<1> QED
  BY <1>1, <1>3, <1>4, HeapSame

LEMMA PartKeeps ==
  ASSUME IInv, NEW t \in Threads, Part(t), UNCHANGED heapVars
  PROVE  IInv'
<1>1. /\ regime' = [regime EXCEPT ![t] = NOT_MUTATING] /\ parked' = parked
      /\ phase' = phase /\ gate' = gate /\ index' = index
  BY DEF Part
<1>2. TypeOK /\ InStep
  BY DEF IInv
<1>3. TypeOK'
  <2>1. regime' \in [Threads -> Regime]
    BY <1>1, <1>2 DEF TypeOK, Regime
  <2> QED
    BY <1>1, <1>2, <2>1 DEF TypeOK, heapVars, mutatorVars, collectorVars
<1>4. InStep'
  <2>1. regime'[t] = NOT_MUTATING /\ \A u \in Threads : u # t => regime'[u] = regime[u]
    BY <1>1, <1>2 DEF TypeOK
  <2> QED
    BY <1>1, <1>2, <2>1 DEF InStep
<1> QED
  BY <1>1, <1>3, <1>4, HeapSame

LEMMA MutatorNextKeeps ==
  ASSUME IInv, Careful, NEW t \in Threads, MutatorNext(t)
  PROVE  IInv'
<1>1. CASE (Join(t) \/ Adopt(t) \/ Resume(t)) /\ UNCHANGED heapVars
  BY <1>1, JoinKeeps, ResumeKeeps
<1>2. CASE "opt_out" \in HeapUsage /\ Part(t) /\ UNCHANGED heapVars
  BY <1>2, PartKeeps
<1>3. CASE \E p \in Ptrs : NewRootPtr(t, p) \/ NewObject(t, p) \/ Store(t, p) \/ DropRootPtr(t, p)
  BY <1>3, NewRootPtrKeeps, NewObjectKeeps, StoreKeeps, DropRootPtrKeeps
<1>4. CASE \E p, q \in Ptrs : AssignField(t, p, q) \/ AssignRoot(t, p, q)
  BY <1>4, AssignFieldKeeps, AssignRootKeeps
<1> QED
  BY <1>1, <1>2, <1>3, <1>4 DEF MutatorNext

-----------------------------------------------------------------------------
(* The collector at the borders.                                           *)

LEMMA BeginPhaseKeeps ==
  ASSUME IInv, BeginPhase
  PROVE  IInv'
<1>1. /\ phase' = Succ(phase) /\ gate = "open" /\ gate' = "closed" /\ index' = index
      /\ regime' = regime /\ parked' = parked /\ work = "done"
      /\ \A t \in Mutating : regime[t] = phase
      /\ live' = live /\ snap' = snap /\ list' = list /\ owned' = owned
      /\ was_owned' = was_owned /\ var' = var
      /\ work' = work /\ todo' = todo /\ stack' = stack /\ marked' = marked /\ kept' = kept
      /\ fetched' = fetched
  BY DEF BeginPhase, Announce, heapVars, mutatorVars, collectorVars
<1> USE DEF IInv, NOT_COLLECTING, COLLECTING, RESTORING_SNAPSHOT
<1>2. phase \in Phase
  BY DEF TypeOK
<1>3. phase' \in Phase /\ phase = Pred(phase') /\ phase # phase'
  BY <1>1, <1>2 DEF Phase, Succ, Pred
<1>4. TypeOK'
  BY <1>1, <1>3 DEF TypeOK, Gate
<1>5. InStep'
  BY <1>1, <1>3 DEF InStep, Mutating
<1>6. WorkFits' /\ LettersFit' /\ FreeIsBlank' /\ LiveClosed'
  <2>1. WorkFits'
    BY <1>1 DEF WorkFits, Marking
  <2>2. LettersFit' /\ FreeIsBlank' /\ LiveClosed'
    BY <1>1 DEF LettersFit, FreeIsBlank, LiveClosed
  <2> QED
    BY <2>1, <2>2
<1>7. ListsFit'
  BY <1>1, <1>2 DEF ListsFit, Phase, Succ
<1>8. KeptFits' /\ HalvesFit'
  <2>1. CellsOf(kept)' = CellsOf(kept) /\ Differ' = Differ /\ Allocated' = Allocated
    BY <1>1 DEF CellsOf, Differ, Allocated
  <2>2. KeptFits'
    BY <1>1, <1>2, <2>1 DEF KeptFits, Phase, Succ
  <2>3. HalvesFit'
    BY <1>1, <1>2, <2>1 DEF HalvesFit, Phase, Succ
  <2> QED
    BY <2>2, <2>3
<1>9. ~Marking'
  BY <1>1 DEF Marking
<1> QED
  BY <1>4, <1>5, <1>6, <1>7, <1>8, <1>9

(* No list has just one element, so all of it is moved.                    *)
LEMMA AllMoved ==
  ASSUME Careful
  PROVE  Moved = InList(1 - index)
<1> SUFFICES ASSUME NEW n \in InList(1 - index)
             PROVE  Cardinality(SnapshotList(n)) + Spare # 1
  BY DEF Moved
<1>1. IsFiniteSet(Nodes)
  BY HeapAssumption, FS_Union DEF Nodes
<1>2. SnapshotList(n) \subseteq Nodes
  BY DEF SnapshotList, InList
<1>3. Cardinality(SnapshotList(n)) \in Nat
  BY <1>1, <1>2, FS_Subset, FS_CardinalityType
<1>4. Spare \in Nat /\ Spare # 0 /\ Spare # 1
  BY HeapAssumption DEF Careful
<1> QED
  BY <1>3, <1>4

LEMMA GatherKeeps ==
  ASSUME IInv, Careful, Gather
  PROVE  IInv'
<1>1. /\ phase' = phase /\ gate = "closed" /\ gate' = "turned"
      /\ index' = IF phase = COLLECTING THEN 1 - index ELSE index
      /\ regime' = regime /\ parked' = parked
      /\ \A t \in Mutating : regime[t] = phase /\ t \in parked
      /\ live' = live /\ snap' = snap /\ owned' = owned
      /\ was_owned' = was_owned /\ var' = var
      /\ work' = work /\ todo' = todo /\ stack' = stack /\ marked' = marked
      /\ fetched' = fetched
  BY DEF Gather, Turn
<1> USE DEF IInv, NOT_COLLECTING, COLLECTING, RESTORING_SNAPSHOT
<1>2. /\ phase \in Phase /\ index \in {0, 1} /\ work = "done"
      /\ list \in [Nodes -> {0, 1, NULL}] /\ NULL \notin {0, 1}
  BY <1>1, Addresses DEF TypeOK, WorkFits
<1>3. InStep'
  BY <1>1 DEF InStep, Mutating
<1>4. WorkFits' /\ ~Marking'
  BY <1>1, <1>2 DEF WorkFits, Marking
<1>5. /\ \A n \in Nodes : list'[n] # NULL <=> list[n] # NULL
      /\ list' \in [Nodes -> {0, 1, NULL}] /\ kept' \subseteq Nodes
      /\ ListsFit' /\ KeptFits'
  <2>1. CASE phase # RESTORING_SNAPSHOT
    <3>1. list' = list /\ kept' = kept
      BY <2>1 DEF Gather
    <3>2. ListsFit'
      BY <1>1, <1>2, <2>1, <3>1 DEF ListsFit, Phase
    <3>3. Allocated' = Allocated
      BY <3>1 DEF Allocated
    <3>4. KeptFits'
      BY <1>1, <1>2, <2>1, <3>1, <3>3 DEF KeptFits
    <3> QED
      BY <1>2, <3>1, <3>2, <3>4 DEF TypeOK
  <2>2. CASE phase = RESTORING_SNAPSHOT
    <3>1. list' = [n \in Nodes |-> IF n \in Moved THEN index ELSE list[n]]
          /\ kept' = Moved \cup InList(index)
      BY <2>2 DEF Gather
    <3>2. Moved = InList(1 - index)
      BY AllMoved
    <3>3. list' = [n \in Nodes |-> IF list[n] = 1 - index THEN index ELSE list[n]]
      BY <3>1, <3>2 DEF InList
    <3>4. kept' = InList(1 - index) \cup InList(index)
      BY <3>1, <3>2
    <3>5. index' = index /\ 1 - index \in {0, 1} /\ index # 1 - index
      BY <1>1, <1>2, <2>2
    <3>6. list' \in [Nodes -> {0, 1, NULL}]
      BY <1>2, <3>3
    <3>7. \A n \in Nodes : list'[n] # 1 - index /\ (list'[n] # NULL <=> list[n] # NULL)
      BY <1>2, <3>3, <3>5
    <3>8. \A n \in Nodes : list[n] # NULL <=> list[n] = index \/ list[n] = 1 - index
      BY <1>2, <3>5
    <3>9. kept' = Allocated'
      BY <3>4, <3>7, <3>8 DEF Allocated, InList
    <3>10. ListsFit'
      BY <1>1, <2>2, <3>5, <3>7 DEF ListsFit
    <3>11. KeptFits'
      BY <1>1, <1>2, <2>2, <3>9 DEF KeptFits
    <3> QED
      BY <3>6, <3>7, <3>9, <3>10, <3>11 DEF Allocated
  <2> QED
    BY <2>1, <2>2
<1>6. TypeOK'
  <2>1. index' \in {0, 1}
    BY <1>1, <1>2
  <2> QED
    BY <1>1, <1>5, <2>1 DEF TypeOK, Gate
<1>7. LettersFit'
  BY <1>1, <1>5 DEF LettersFit, Nodes
<1>8. FreeIsBlank'
  BY <1>1, <1>5 DEF FreeIsBlank, Nodes
<1>9. LiveClosed'
  <2>1. \A d \in Cells : live[d] \in Objects \cup {NULL}
    BY DEF TypeOK
  <2>2. \A o \in Objects, f \in Fields : <<o, f>> \in Cells
    BY Addresses
  <2>3. \A r \in Letters : r \in Cells
    BY Addresses
  <2> QED
    BY <1>1, <1>5, <2>1, <2>2, <2>3 DEF LiveClosed, Nodes
<1>10. HalvesFit'
  <2>1. Differ' = Differ
    BY <1>1 DEF Differ
  <2>2. phase # RESTORING_SNAPSHOT => kept' = kept
    BY DEF Gather
  <2>3. phase # RESTORING_SNAPSHOT => CellsOf(kept)' = CellsOf(kept)
    BY <2>2 DEF CellsOf
  <2> QED
    BY <1>1, <1>2, <2>1, <2>3 DEF HalvesFit
<1> QED
  BY <1>3, <1>4, <1>5, <1>6, <1>7, <1>8, <1>9, <1>10

(* The collector opens the gate with its work before it.  When it starts   *)
(* to mark, the two halves agree and everything allocated is in the        *)
(* snapshot lists, so what is safe is what the live pointers of its roots  *)
(* lead to.                                                                *)
LEMMA StartMarking ==
  ASSUME IInv, StartWork, phase = COLLECTING
  PROVE  SnapshotClosed' /\ MarkerInside' /\ SafeClosed' /\ RootSeen'
<1>1. /\ phase' = phase /\ gate = "turned" /\ index' = index
      /\ live' = live /\ snap' = snap /\ list' = list /\ was_owned' = was_owned
      /\ stack' = stack /\ marked' = marked
      /\ work' = "roots" /\ todo' = InList(1 - index) \cap Letters
  BY DEF StartWork, Open, mutatorVars, COLLECTING, NOT_COLLECTING, RESTORING_SNAPSHOT
<1> USE DEF IInv
<1>2. /\ work = "done" /\ stack = <<>> /\ marked = {}
      /\ TypeOK /\ LiveClosed /\ LettersFit
  BY <1>1 DEF WorkFits, Marking
<1>3. \A d \in Cells : live[d] = snap[d] /\ live[d] \in Objects \cup {NULL}
  BY <1>1, <1>2 DEF HalvesFit, Differ, TypeOK
<1>4. \A n \in Nodes : list[n] # index /\ (list[n] # NULL <=> list[n] = 1 - index)
  <2>1. \A n \in Nodes : list[n] # index
    BY <1>1 DEF ListsFit
  <2>2. list \in [Nodes -> {0, 1, NULL}] /\ index \in {0, 1} /\ NULL \notin {0, 1}
    BY <1>2, Addresses DEF TypeOK
  <2> QED
    BY <2>1, <2>2
<1>5. SnapshotClosed'
  <2>1. \A o \in Objects, f \in Fields :
          list[o] = 1 - index /\ snap[<<o, f>>] # NULL => list[snap[<<o, f>>]] = 1 - index
    BY <1>2, <1>3, <1>4, Addresses DEF LiveClosed, Nodes
  <2>2. \A r \in Letters :
          list[r] = 1 - index /\ was_owned[r] /\ snap[r] # NULL => list[snap[r]] = 1 - index
    BY <1>2, <1>3, <1>4, Addresses DEF LiveClosed, Nodes
  <2> QED
    BY <1>1, <2>1, <2>2 DEF SnapshotClosed
<1>6. MarkerInside'
  BY <1>1, <1>2 DEF MarkerInside, InList
<1>7. SafeClosed'
  <2>1. \A C \in SUBSET Objects : Covers(C)' =>
          \A o \in C, f \in Fields : live[<<o, f>>] \in C \cup {NULL}
    BY <1>1, <1>2, <1>3, Addresses DEF Covers
  <2>2. \A o \in Covered', f \in Fields : live[<<o, f>>] \in Covered' \cup {NULL}
    BY <2>1, <1>3, Addresses DEF Covered
  <2>3. ASSUME NEW r \in Letters, was_owned[r], live[r] # NULL
        PROVE  live[r] \in Covered'
    <3>1. r \in todo' /\ was_owned'[r]
      BY <1>1, <1>2, <1>4, <2>3 DEF LettersFit, InList, Nodes
    <3>2. snap'[r] \in Ahead'
      BY <3>1 DEF Ahead
    <3>3. live[r] = snap'[r] /\ live[r] \in Objects
      BY <1>1, <1>3, <2>3, Addresses
    <3>4. \A C \in SUBSET Objects : Covers(C)' => live[r] \in C
      BY <2>3, <3>2, <3>3 DEF Covers
    <3> QED
      BY <3>3, <3>4 DEF Covered
  <2>4. Safe' = Covered'
    BY <1>1, <1>4 DEF Safe, Covered, Nodes
  <2> QED
    BY <1>1, <2>2, <2>3, <2>4 DEF SafeClosed
<1>8. RootSeen'
  BY <1>1 DEF RootSeen
<1> QED
  BY <1>5, <1>6, <1>7, <1>8

LEMMA StartWorkKeeps ==
  ASSUME IInv, StartWork
  PROVE  IInv'
<1>1. /\ phase' = phase /\ gate = "turned" /\ gate' = "open" /\ index' = index
      /\ regime' = regime /\ parked' = parked
      /\ live' = live /\ snap' = snap /\ list' = list /\ owned' = owned
      /\ was_owned' = was_owned /\ var' = var
      /\ stack' = stack /\ marked' = marked /\ kept' = kept /\ fetched' = fetched
  BY DEF StartWork, Open, mutatorVars
<1> USE DEF IInv, NOT_COLLECTING, COLLECTING, RESTORING_SNAPSHOT
<1>2. /\ phase \in Phase /\ work = "done" /\ kept \subseteq Allocated
      /\ stack = <<>> /\ marked = {} /\ fetched = NULL
  BY <1>1 DEF TypeOK, WorkFits, Marking, KeptFits
<1>3. /\ phase = COLLECTING => work' = "roots" /\ todo' = InList(1 - index) \cap Letters
      /\ phase = RESTORING_SNAPSHOT => work' = "restore" /\ todo' = Disagreeing(kept)
      /\ phase = NOT_COLLECTING => work' = "finalize" /\ todo' = Disagreeing(kept)
  BY DEF StartWork
<1>4. Disagreeing(kept) = CellsOf(kept) \cap Differ /\ CellsOf(kept) \subseteq Cells
  BY CellsOfMember DEF Disagreeing, Differ
<1>5. CellsOf(kept)' = CellsOf(kept) /\ Differ' = Differ /\ Allocated' = Allocated
  BY <1>1 DEF CellsOf, Differ, Allocated
<1>6. TypeOK'
  <2>1. work' \in Work
    BY <1>2, <1>3 DEF Work, Phase
  <2>2. todo' \subseteq Cells
    BY <1>2, <1>3, <1>4 DEF Phase, Cells
  <2> QED
    BY <1>1, <2>1, <2>2 DEF TypeOK, Gate
<1>7. InStep'
  BY <1>1 DEF InStep
<1>8. WorkFits'
  BY <1>1, <1>2, <1>3 DEF WorkFits, Marking, Phase
<1>9. ListsFit' /\ LettersFit' /\ FreeIsBlank' /\ LiveClosed'
  <2>1. ListsFit'
    BY <1>1 DEF ListsFit
  <2>2. LettersFit' /\ FreeIsBlank' /\ LiveClosed'
    BY <1>1 DEF LettersFit, FreeIsBlank, LiveClosed
  <2> QED
    BY <2>1, <2>2
<1>10. KeptFits'
  BY <1>1, <1>2, <1>3, <1>4, <1>5 DEF KeptFits, Phase
<1>11. HalvesFit'
  <2>1. CASE phase = COLLECTING
    BY <1>1, <1>3, <2>1 DEF HalvesFit
  <2>2. CASE phase = RESTORING_SNAPSHOT
    <3>1. kept = Allocated
      BY <1>1, <2>2 DEF KeptFits
    <3>2. /\ \A r \in Letters : r \in Differ => r \in kept
          /\ \A o \in Objects, f \in Fields : <<o, f>> \in Differ => o \in kept
      BY <3>1 DEF FreeIsBlank, Differ, Allocated, Nodes
    <3>3. /\ \A r \in Letters : r \in Differ => r \in CellsOf(kept)
          /\ \A o \in Objects, f \in Fields : <<o, f>> \in Differ => <<o, f>> \in CellsOf(kept)
      BY <3>2, CellsOfMember
    <3>4. Differ \subseteq CellsOf(kept)
      BY <3>3, Addresses DEF Differ
    <3> QED
      BY <1>1, <1>3, <1>5, <2>2, <3>4 DEF HalvesFit
  <2>3. CASE phase = NOT_COLLECTING
    <3>1. Differ \subseteq CellsOf(kept)
      BY <1>1, <2>3 DEF HalvesFit
    <3> QED
      BY <1>1, <1>3, <1>4, <1>5, <2>3, <3>1 DEF HalvesFit
  <2> QED
    BY <1>2, <2>1, <2>2, <2>3 DEF Phase
<1>12. Marking' => SnapshotClosed' /\ MarkerInside' /\ SafeClosed' /\ RootSeen'
  <2>1. Marking' => phase = COLLECTING
    BY <1>2, <1>3 DEF Marking, Phase
  <2> QED
    BY <2>1, StartMarking
<1> QED
  BY <1>6, <1>7, <1>8, <1>9, <1>10, <1>11, <1>12

-----------------------------------------------------------------------------
(* The marker.  Its stack, as far as what is pending on it goes.           *)

LEMMA NothingPending == Pending(<<>>) = {}
BY DEF Pending

LEMMA OntoPending ==
  ASSUME NEW path \in Seq(Objects \X Fields), NEW o \in Objects, NEW k \in 0 .. NumFields
  PROVE  /\ Onto(path, o, k) \in Seq(Objects \X Fields)
         /\ \A c : c \in Pending(Onto(path, o, k)) <=>
                     c \in Pending(path) \/ \E j \in 1 .. k : c = <<o, j>>
         /\ \A i \in 1 .. Len(Onto(path, o, k)) :
              \/ Onto(path, o, k)[i][1] = o
              \/ \E j \in 1 .. Len(path) : Onto(path, o, k)[i][1] = path[j][1]
<1>1. CASE k = 0
  BY <1>1 DEF Onto
<1>2. CASE k # 0
  <2> DEFINE e == <<o, k>>
             long == Append(path, e)
  <2>1. Onto(path, o, k) = long
    BY <1>2 DEF Onto
  <2>2. e \in Objects \X Fields
    BY <1>2, HeapAssumption DEF Fields
  <2>3. e[1] = o /\ e[2] = k
    OBVIOUS
  <2> HIDE DEF e
  <2>4. /\ long \in Seq(Objects \X Fields) /\ Len(long) = Len(path) + 1
        /\ long[Len(path) + 1] = e
        /\ \A i \in 1 .. Len(path) : long[i] = path[i]
    BY <2>2
  <2> HIDE DEF long
  <2>5. Len(path) \in Nat
    OBVIOUS
  <2>6. 1 .. Len(long) = (1 .. Len(path)) \cup {Len(path) + 1}
    BY <2>4, <2>5
  <2>7. \A c : c \in Pending(path) <=>
                 \E i \in 1 .. Len(path) : \E j \in 1 .. path[i][2] : c = <<path[i][1], j>>
    BY PendingMember
  <2>8. \A c : c \in Pending(long) <=>
                 \E i \in 1 .. Len(long) : \E j \in 1 .. long[i][2] : c = <<long[i][1], j>>
    BY <2>4, PendingMember
  <2>9. \A c : c \in Pending(long) <=> c \in Pending(path) \/ \E j \in 1 .. k : c = <<o, j>>
    BY <2>3, <2>4, <2>6, <2>7, <2>8
  <2>10. \A i \in 1 .. Len(long) :
           long[i][1] = o \/ \E j \in 1 .. Len(path) : long[i][1] = path[j][1]
    BY <2>3, <2>4, <2>6
  <2> QED
    BY <2>1, <2>4, <2>9, <2>10
<1> QED
  BY <1>1, <1>2

LEMMA RestPending ==
  ASSUME NEW path \in Seq(Objects \X Fields), path # <<>>
  PROVE  /\ path[Len(path)] \in Objects \X Fields
         /\ Rest(path) \in Seq(Objects \X Fields)
         /\ \A c : c \in Pending(path) <=>
                     \/ c \in Pending(Rest(path))
                     \/ \E j \in 1 .. path[Len(path)][2] : c = <<path[Len(path)][1], j>>
         /\ \A i \in 1 .. Len(Rest(path)) : \E j \in 1 .. Len(path) : Rest(path)[i] = path[j]
<1> DEFINE short == Rest(path)
<1>1. Len(path) \in Nat /\ Len(path) # 0
  OBVIOUS
<1>2. /\ short \in Seq(Objects \X Fields) /\ Len(short) = Len(path) - 1
      /\ \A i \in 1 .. Len(path) - 1 : short[i] = path[i]
  <2> DEFINE n == Len(path) - 1
  <2>1. n \in Int /\ \A i \in 1 .. n : path[i] \in Objects \X Fields
    BY <1>1
  <2>2. short = SubSeq(path, 1, n)
    BY DEF Rest
  <2>3. n \in Nat
    BY <1>1
  <2> HIDE DEF n, short
  <2>4. n - 1 + 1 = n /\ (1 <= n \/ n = 0) /\ \A i \in 1 .. n : 1 + i - 1 = i
    BY <2>3
  <2>5. /\ short \in Seq(Objects \X Fields)
        /\ Len(short) = IF 1 <= n THEN n - 1 + 1 ELSE 0
        /\ \A i \in 1 .. n - 1 + 1 : short[i] = path[1 + i - 1]
    BY <2>1, <2>2, SubSeqProperties
  <2>6. Len(short) = n
    BY <2>4, <2>5
  <2>7. \A i \in 1 .. n : short[i] = path[i]
    BY <2>4, <2>5
  <2> QED
    BY <2>5, <2>6, <2>7 DEF n
<1> HIDE DEF short
<1>3. 1 .. Len(path) = (1 .. Len(short)) \cup {Len(path)} /\ Len(path) \in 1 .. Len(path)
  BY <1>1, <1>2
<1>4. \A i \in 1 .. Len(short) : i \in 1 .. Len(path) /\ short[i] = path[i]
  BY <1>1, <1>2
<1>5. path[Len(path)] \in Objects \X Fields
  BY <1>3
<1>6. \A c : c \in Pending(path) <=>
               \E i \in 1 .. Len(path) : \E j \in 1 .. path[i][2] : c = <<path[i][1], j>>
  BY PendingMember
<1>7. \A c : c \in Pending(short) <=>
               \E i \in 1 .. Len(short) : \E j \in 1 .. short[i][2] : c = <<short[i][1], j>>
  BY <1>2, PendingMember
<1>8. \A c : c \in Pending(path) <=>
               \/ c \in Pending(short)
               \/ \E j \in 1 .. path[Len(path)][2] : c = <<path[Len(path)][1], j>>
  <2> DEFINE n == Len(path)
             Of(p, i, c) == \E j \in 1 .. p[i][2] : c = <<p[i][1], j>>
  <2>1. \A c : c \in Pending(path) <=> \E i \in 1 .. n : Of(path, i, c)
    BY <1>6
  <2>2. \A c : c \in Pending(short) <=> \E i \in 1 .. Len(short) : Of(short, i, c)
    BY <1>7
  <2>3. \A c : \A i \in 1 .. Len(short) : Of(short, i, c) <=> Of(path, i, c)
    BY <1>4
  <2> HIDE DEF Of
  <2>4. \A c : c \in Pending(path) <=> c \in Pending(short) \/ Of(path, n, c)
    BY <1>3, <2>1, <2>2, <2>3
  <2> QED
    BY <2>4 DEF Of
<1> QED
  BY <1>2, <1>4, <1>5, <1>8 DEF short

(* The marker marks x and goes into it: what it will have marked in the end*)
(* stays the same.                                                         *)
LEMMA EnterCovers ==
  ASSUME NEW x \in Objects, x \notin marked, x \in Ahead, marked' = marked \cup {x},
         snap' = snap,
         \A a \in Ahead' : a \in Ahead \/ \E f \in Fields : a = snap[<<x, f>>],
         \A a \in Ahead : a \in Ahead' \/ a = x,
         \A f \in Fields : snap[<<x, f>>] \in Ahead'
  PROVE  \A C \in SUBSET Objects : Covers(C)' <=> Covers(C)
<1> SUFFICES ASSUME NEW C \in SUBSET Objects
             PROVE  Covers(C)' <=> Covers(C)
  OBVIOUS
<1>0. x # NULL
  BY Addresses DEF Nodes
<1>1. ASSUME Covers(C)'
      PROVE  Covers(C)
  BY <1>1 DEF Covers
<1>2. ASSUME Covers(C)
      PROVE  Covers(C)'
  BY <1>0, <1>2 DEF Covers
<1> QED
  BY <1>1, <1>2

(* It passes over a null pointer or one to an object that it has marked.   *)
LEMMA SkipCovers ==
  ASSUME marked' = marked,
         \A o \in Objects, f \in Fields : snap'[<<o, f>>] = snap[<<o, f>>],
         Ahead' \subseteq Ahead, Ahead \subseteq Ahead' \cup marked \cup {NULL}
  PROVE  \A C \in SUBSET Objects : Covers(C)' <=> Covers(C)
<1> SUFFICES ASSUME NEW C \in SUBSET Objects
             PROVE  Covers(C)' <=> Covers(C)
  OBVIOUS
<1>1. ASSUME Covers(C)'
      PROVE  Covers(C)
  BY <1>1 DEF Covers
<1>2. ASSUME Covers(C)
      PROVE  Covers(C)'
  BY <1>2 DEF Covers
<1> QED
  BY <1>1, <1>2

(* What the steps of the marker have in common.                            *)
LEMMA MarkerKeeps ==
  ASSUME IInv, Marking, UNCHANGED <<handshakeVars, mutatorVars, snap, todo, kept>>,
         work' = "mark",
         stack' \in Seq(Objects \X Fields), marked' \subseteq Objects, fetched' \in Letters,
         MarkerInside', RootSeen',
         \A C \in SUBSET Objects : Covers(C)' <=> Covers(C)
  PROVE  IInv'
<1>1. /\ phase' = phase /\ gate' = gate /\ index' = index
      /\ regime' = regime /\ parked' = parked
      /\ live' = live /\ snap' = snap /\ list' = list /\ owned' = owned
      /\ was_owned' = was_owned /\ var' = var /\ todo' = todo /\ kept' = kept
  BY DEF handshakeVars, mutatorVars
<1> USE DEF IInv
<1>2. phase = COLLECTING /\ gate = "open"
  BY DEF WorkFits, Marking
<1>3. TypeOK'
  BY <1>1 DEF TypeOK, Work
<1>4. InStep' /\ ListsFit' /\ LettersFit'
  <2>1. InStep'
    BY <1>1 DEF InStep
  <2>2. ListsFit' /\ LettersFit'
    BY <1>1 DEF ListsFit, LettersFit
  <2> QED
    BY <2>1, <2>2
<1>5. FreeIsBlank' /\ LiveClosed'
  BY <1>1 DEF FreeIsBlank, LiveClosed
<1>6. WorkFits'
  BY <1>1, <1>2 DEF WorkFits, Marking
<1>7. KeptFits' /\ HalvesFit'
  <2>1. Allocated' = Allocated
    BY <1>1 DEF Allocated
  <2>2. KeptFits'
    BY <1>1, <1>2, <2>1
    DEF KeptFits, COLLECTING, NOT_COLLECTING, RESTORING_SNAPSHOT
  <2>3. HalvesFit'
    BY <1>1, <1>2 DEF HalvesFit, COLLECTING, NOT_COLLECTING, RESTORING_SNAPSHOT
  <2> QED
    BY <2>2, <2>3
<1>8. SnapshotClosed' /\ SafeClosed'
  <2>1. SnapshotClosed'
    BY <1>1 DEF SnapshotClosed
  <2>2. Safe' = Safe
    <3>1. Covered' = Covered
      BY SameCover
    <3> QED
      BY <1>1, <3>1 DEF Safe
  <2>3. SafeClosed'
    BY <1>1, <2>2 DEF SafeClosed
  <2> QED
    BY <2>1, <2>3
<1> QED
  BY <1>3, <1>4, <1>5, <1>6, <1>7, <1>8

LEMMA ScanRootKeeps ==
  ASSUME IInv, ScanRoot
  PROVE  IInv'
<1>1. PICK r \in todo :
        /\ fetched' = r
        /\ IF was_owned[r] /\ Unmarked(snap[r])
           THEN /\ marked' = marked \cup {snap[r]}
                /\ stack' = Onto(<<>>, snap[r], NumFields)
           ELSE UNCHANGED <<marked, stack>>
  BY DEF ScanRoot
<1>2. /\ work = "roots" /\ work' = "mark"
      /\ UNCHANGED <<handshakeVars, mutatorVars, snap, todo, kept>>
  BY DEF ScanRoot
<1>3. /\ todo' = todo /\ snap' = snap /\ list' = list /\ index' = index
      /\ was_owned' = was_owned
  BY <1>2 DEF handshakeVars, mutatorVars
<1>4. Marking /\ TypeOK /\ SnapshotClosed /\ MarkerInside /\ stack = <<>>
  BY <1>2 DEF IInv, Marking, WorkFits
<1>5. r \in Letters /\ list[r] = 1 - index /\ snap[r] \in Objects \cup {NULL}
  BY <1>4, Addresses DEF MarkerInside, TypeOK
<1>6. CASE was_owned[r] /\ Unmarked(snap[r])
  <2> DEFINE x == snap[r]
  <2>1. /\ x \in Objects /\ x \notin marked /\ x \in Ahead /\ list[x] = 1 - index
        /\ marked' = marked \cup {x} /\ stack' = Onto(<<>>, x, NumFields)
        /\ \A l \in Letters : l = r => snap[l] = x
    BY <1>1, <1>4, <1>5, <1>6 DEF Unmarked, SnapshotClosed, Ahead
  <2> HIDE DEF x
  <2>2. NumFields \in 0 .. NumFields /\ <<>> \in Seq(Objects \X Fields)
    BY HeapAssumption
  <2>3. /\ stack' \in Seq(Objects \X Fields)
        /\ \A c : c \in Pending(stack') <=> \E j \in Fields : c = <<x, j>>
        /\ \A i \in 1 .. Len(stack') : stack'[i][1] = x
    <3> DEFINE none == <<>>
               path == Onto(none, x, NumFields)
    <3>1. Len(none) = 0 /\ Pending(none) = {} /\ none \in Seq(Objects \X Fields)
      BY NothingPending
    <3> HIDE DEF none
    <3>2. /\ path \in Seq(Objects \X Fields)
          /\ \A c : c \in Pending(path) <=>
                      c \in Pending(none) \/ \E j \in 1 .. NumFields : c = <<x, j>>
          /\ \A i \in 1 .. Len(path) :
               path[i][1] = x \/ \E j \in 1 .. Len(none) : path[i][1] = none[j][1]
      <4>1. x \in Objects /\ none \in Seq(Objects \X Fields)
        BY <2>1, <3>1
      <4> QED
        BY <2>2, <4>1, OntoPending
    <3>3. stack' = path
      BY <2>1 DEF none
    <3> HIDE DEF path
    <3>4. \A j \in 1 .. Len(none) : FALSE
      BY <3>1
    <3> QED
      BY <3>1, <3>2, <3>3, <3>4 DEF Fields
  <2>4. MarkerInside'
    BY <1>3, <1>4, <2>1, <2>3 DEF MarkerInside
  <2>5. RootSeen'
    BY <1>1, <1>3, <1>5, <2>1 DEF RootSeen
  <2>6. \A a : a \in Ahead <=> \E l \in todo : was_owned[l] /\ a = snap[l]
    BY <1>4, AheadMember, NothingPending
  <2>7. \A a : a \in Ahead' <=> \/ \E l \in todo : was_owned[l] /\ a = snap[l]
                                \/ \E f \in Fields : a = snap[<<x, f>>]
    <3>1. \A a : a \in Ahead' <=> \/ \E l \in todo' : was_owned'[l] /\ a = snap'[l]
                                  \/ \E c \in Pending(stack') : a = snap'[c]
      BY DEF Ahead, Pending
    <3>2. \A a : (\E c \in Pending(stack') : a = snap[c])
                   <=> \E f \in Fields : a = snap[<<x, f>>]
      BY <2>3
    <3> QED
      BY <1>3, <3>1, <3>2
  <2>8. \A C \in SUBSET Objects : Covers(C)' <=> Covers(C)
    BY <1>3, <2>1, <2>6, <2>7, EnterCovers
  <2>9. marked' \subseteq Objects /\ fetched' \in Letters
    BY <1>1, <1>4, <1>5, <2>1 DEF TypeOK
  <2> QED
    BY <1>2, <1>4, <2>3, <2>4, <2>5, <2>8, <2>9, MarkerKeeps
<1>7. CASE ~(was_owned[r] /\ Unmarked(snap[r]))
  <2>1. marked' = marked /\ stack' = stack
    BY <1>1, <1>7
  <2>2. MarkerInside'
    BY <1>3, <1>4, <2>1 DEF MarkerInside
  <2>3. RootSeen'
    BY <1>1, <1>3, <1>7, <2>1 DEF RootSeen, Unmarked
  <2>4. Pending(stack)' = Pending(stack)
    BY <2>1 DEF Pending
  <2>5. Ahead' = Ahead
    BY <1>3, <2>4 DEF Ahead
  <2>6. \A C \in SUBSET Objects : Covers(C)' <=> Covers(C)
    BY <1>3, <2>1, <2>5 DEF Covers
  <2>7. /\ stack' \in Seq(Objects \X Fields) /\ marked' \subseteq Objects
        /\ fetched' \in Letters
    BY <1>1, <1>4, <1>5, <2>1 DEF TypeOK
  <2> QED
    BY <1>2, <1>4, <2>2, <2>3, <2>6, <2>7, MarkerKeeps
<1> QED
  BY <1>6, <1>7

LEMMA MarkStepKeeps ==
  ASSUME IInv, MarkStep
  PROVE  IInv'
<1> DEFINE o == stack[Len(stack)][1]
           k == stack[Len(stack)][2]
           n == snap[<<o, k>>]
           path == Onto(Rest(stack), o, k - 1)
<1>1. /\ work = "mark" /\ work' = "mark" /\ stack # <<>> /\ fetched' = fetched
      /\ UNCHANGED <<handshakeVars, mutatorVars, snap, todo, kept>>
  BY DEF MarkStep
<1>2. IF Unmarked(n)
      THEN marked' = marked \cup {n} /\ stack' = Onto(path, n, NumFields)
      ELSE stack' = path /\ UNCHANGED marked
  BY DEF MarkStep
<1>3. /\ todo' = todo /\ snap' = snap /\ list' = list /\ index' = index
      /\ was_owned' = was_owned
  BY <1>1 DEF handshakeVars, mutatorVars
<1>4. /\ Marking /\ TypeOK /\ SnapshotClosed /\ MarkerInside /\ RootSeen
      /\ stack \in Seq(Objects \X Fields) /\ fetched \in Letters
  BY <1>1 DEF IInv, Marking, TypeOK, RootSeen, MarkerInside
<1>5. /\ stack[Len(stack)] \in Objects \X Fields
      /\ Rest(stack) \in Seq(Objects \X Fields)
      /\ \A c : c \in Pending(stack) <=>
                  c \in Pending(Rest(stack)) \/ \E j \in 1 .. k : c = <<o, j>>
      /\ \A i \in 1 .. Len(Rest(stack)) : \E j \in 1 .. Len(stack) : Rest(stack)[i] = stack[j]
  BY <1>1, <1>4, RestPending
<1>6. o \in Objects /\ k \in Fields /\ o \in marked /\ list[o] = 1 - index
  <2>1. Len(stack) \in 1 .. Len(stack)
    BY <1>1, <1>4
  <2> QED
    BY <1>4, <1>5, <2>1 DEF MarkerInside
<1>7. k \in Nat /\ NumFields \in Nat /\ k - 1 \in 0 .. NumFields /\ NumFields \in 0 .. NumFields
      /\ 1 .. k = (1 .. k - 1) \cup {k}
  BY <1>6, HeapAssumption DEF Fields
<1>8. /\ path \in Seq(Objects \X Fields)
      /\ \A c : c \in Pending(path) <=>
                  c \in Pending(Rest(stack)) \/ \E j \in 1 .. k - 1 : c = <<o, j>>
      /\ \A i \in 1 .. Len(path) :
           path[i][1] = o \/ \E j \in 1 .. Len(Rest(stack)) : path[i][1] = Rest(stack)[j][1]
  <2> HIDE DEF o, k
  <2> QED
    BY <1>5, <1>6, <1>7, OntoPending
<1>9. n \in Objects \cup {NULL} /\ (n # NULL => list[n] = 1 - index)
  <2>1. <<o, k>> \in Cells
    BY <1>6, Addresses
  <2>2. n \in Objects \cup {NULL}
    BY <1>4, <2>1 DEF TypeOK
  <2> HIDE DEF o, k
  <2> QED
    BY <1>4, <1>6, <2>2 DEF SnapshotClosed
<1>10. \A a : n = a <=> a = snap[<<o, k>>]
  OBVIOUS
<1> HIDE DEF o, k, n, path
<1>11. \A i \in 1 .. Len(path) : path[i][1] \in marked
  <2>1. \A i \in 1 .. Len(Rest(stack)) : Rest(stack)[i][1] \in marked
    BY <1>4, <1>5 DEF MarkerInside
  <2> QED
    BY <1>6, <1>8, <2>1
<1>12. \A c : c \in Pending(stack) <=> c \in Pending(path) \/ c = <<o, k>>
  BY <1>5, <1>7, <1>8
<1>13. \A a : a \in Ahead <=> \/ \E l \in todo : was_owned[l] /\ a = snap[l]
                              \/ \E c \in Pending(path) : a = snap[c]
                              \/ a = n
  BY <1>10, <1>12, AheadMember
<1>14. \A a : a \in Ahead' <=> \/ \E l \in todo : was_owned[l] /\ a = snap[l]
                               \/ \E c \in Pending(stack') : a = snap[c]
  <2>1. \A a : a \in Ahead' <=> \/ \E l \in todo' : was_owned'[l] /\ a = snap'[l]
                                \/ \E c \in Pending(stack') : a = snap'[c]
    BY DEF Ahead, Pending
  <2> QED
    BY <1>3, <2>1
<1>15. CASE Unmarked(n)
  <2>1. /\ marked' = marked \cup {n} /\ stack' = Onto(path, n, NumFields)
        /\ n \in Objects /\ n \notin marked /\ list[n] = 1 - index
    BY <1>2, <1>9, <1>15 DEF Unmarked
  <2>2. /\ stack' \in Seq(Objects \X Fields)
        /\ \A c : c \in Pending(stack') <=>
                    c \in Pending(path) \/ \E j \in Fields : c = <<n, j>>
        /\ \A i \in 1 .. Len(stack') :
             stack'[i][1] = n \/ \E j \in 1 .. Len(path) : stack'[i][1] = path[j][1]
    BY <1>7, <1>8, <2>1, OntoPending DEF Fields
  <2>3. MarkerInside'
    BY <1>3, <1>4, <1>11, <2>1, <2>2 DEF MarkerInside
  <2>4. RootSeen'
    BY <1>1, <1>3, <1>4, <2>1 DEF RootSeen
  <2>5. n \in Ahead
    BY <1>13
  <2>6. \A a \in Ahead' : a \in Ahead \/ \E f \in Fields : a = snap[<<n, f>>]
    BY <1>13, <1>14, <2>2
  <2>7. \A a \in Ahead : a \in Ahead' \/ a = n
    BY <1>13, <1>14, <2>2
  <2>8. \A f \in Fields : snap[<<n, f>>] \in Ahead'
    BY <1>14, <2>2
  <2>9. \A C \in SUBSET Objects : Covers(C)' <=> Covers(C)
    BY <1>3, <2>1, <2>5, <2>6, <2>7, <2>8, EnterCovers
  <2>10. marked' \subseteq Objects /\ fetched' \in Letters
    BY <1>1, <1>4, <2>1 DEF TypeOK
  <2> QED
    BY <1>1, <1>4, <2>2, <2>3, <2>4, <2>9, <2>10, MarkerKeeps
<1>16. CASE ~Unmarked(n)
  <2>1. marked' = marked /\ stack' = path /\ n \in marked \cup {NULL}
    BY <1>2, <1>9, <1>16 DEF Unmarked
  <2>2. MarkerInside'
    BY <1>3, <1>4, <1>11, <2>1 DEF MarkerInside
  <2>3. RootSeen'
    BY <1>1, <1>3, <1>4, <2>1 DEF RootSeen
  <2>4. Ahead' \subseteq Ahead /\ Ahead \subseteq Ahead' \cup marked \cup {NULL}
    BY <1>13, <1>14, <2>1
  <2>5. \A C \in SUBSET Objects : Covers(C)' <=> Covers(C)
    BY <1>3, <2>1, <2>4, SkipCovers
  <2>6. /\ stack' \in Seq(Objects \X Fields) /\ marked' \subseteq Objects
        /\ fetched' \in Letters
    BY <1>1, <1>4, <1>8, <2>1 DEF TypeOK
  <2> QED
    BY <1>1, <1>4, <2>2, <2>3, <2>5, <2>6, MarkerKeeps
<1> QED
  BY <1>15, <1>16

LEMMA RootDoneKeeps ==
  ASSUME IInv, RootDone
  PROVE  IInv'
<1> DEFINE r == fetched
<1>1. /\ work = "mark" /\ work' = "roots" /\ stack = <<>> /\ fetched' = NULL
      /\ phase' = phase /\ gate' = gate /\ index' = index
      /\ regime' = regime /\ parked' = parked
      /\ owned' = owned /\ var' = var /\ stack' = stack /\ marked' = marked /\ kept' = kept
      /\ todo' = todo \ {r} /\ was_owned' = [was_owned EXCEPT ![r] = owned[r]]
  BY DEF RootDone, handshakeVars
<1>2. IF owned[r] THEN UNCHANGED <<list, live, snap>>
      ELSE list' = [list EXCEPT ![r] = NULL] /\ ConstructPair(r, NULL)
  BY DEF RootDone
<1> USE DEF IInv
<1>3. /\ TypeOK /\ Marking /\ SnapshotClosed /\ MarkerInside /\ SafeClosed /\ RootSeen
      /\ phase = COLLECTING /\ gate = "open"
  BY <1>1 DEF Marking, WorkFits
<1>4. r \in todo /\ r \in Letters /\ r \in Cells /\ r \in Nodes /\ list[r] = 1 - index
  BY <1>1, <1>3, Addresses DEF RootSeen, MarkerInside, Nodes
<1> HIDE DEF r
<1>5. /\ was_owned' \in [Letters -> BOOLEAN] /\ was_owned'[r] = owned[r]
      /\ \A l \in Letters : l # r => was_owned'[l] = was_owned[l]
      /\ \A l \in Letters : was_owned'[l] => was_owned[l]
  BY <1>1, <1>3, <1>4 DEF TypeOK, LettersFit
<1>6. /\ list' \in [Nodes -> {0, 1, NULL}]
      /\ live' \in [Cells -> Objects \cup {NULL}] /\ snap' \in [Cells -> Objects \cup {NULL}]
      /\ \A n \in Nodes : n # r => list'[n] = list[n]
      /\ \A c \in Cells : c # r => live'[c] = live[c] /\ snap'[c] = snap[c]
      /\ owned[r] => list'[r] = list[r] /\ live'[r] = live[r] /\ snap'[r] = snap[r]
      /\ ~owned[r] => list'[r] = NULL /\ live'[r] = NULL /\ snap'[r] = NULL
  <2>1. CASE owned[r]
    BY <1>2, <1>3, <2>1 DEF TypeOK
  <2>2. CASE ~owned[r]
    BY <1>2, <1>3, <1>4, <2>2 DEF TypeOK, ConstructPair
  <2> QED
    BY <2>1, <2>2
<1>7. /\ \A o \in Objects : o # r /\ list'[o] = list[o]
      /\ \A o \in Objects, f \in Fields :
           live'[<<o, f>>] = live[<<o, f>>] /\ snap'[<<o, f>>] = snap[<<o, f>>]
  <2>1. \A o \in Objects : o # r /\ o \in Nodes
    BY <1>4, Addresses DEF Nodes
  <2>2. \A o \in Objects, f \in Fields : <<o, f>> # r /\ <<o, f>> \in Cells
    <3>1. \A o \in Objects, f \in Fields : <<o, f>> \in Cells /\ <<o, f>> \notin Letters
      BY Addresses
    <3> QED
      BY <1>4, <3>1
  <2> QED
    BY <1>6, <2>1, <2>2
<1>8. \A l \in Letters : l # r => /\ list'[l] = list[l] /\ live'[l] = live[l]
                                  /\ snap'[l] = snap[l]
  BY <1>6, Addresses DEF Nodes
<1>9. \A c \in Cells : live[c] \in Objects \cup {NULL} /\ snap[c] \in Objects \cup {NULL}
  BY <1>3 DEF TypeOK
<1>10. TypeOK'
  BY <1>1, <1>3, <1>5, <1>6 DEF TypeOK, Work
<1>11. InStep' /\ WorkFits' /\ ListsFit' /\ KeptFits' /\ HalvesFit'
  <2> USE DEF COLLECTING, NOT_COLLECTING, RESTORING_SNAPSHOT
  <2>1. InStep'
    BY <1>1 DEF InStep
  <2>2. WorkFits'
    BY <1>1, <1>3 DEF WorkFits, Marking
  <2>3. ListsFit' /\ HalvesFit'
    BY <1>1, <1>3 DEF ListsFit, HalvesFit
  <2>4. KeptFits'
    BY <1>1, <1>3 DEF KeptFits
  <2> QED
    BY <2>1, <2>2, <2>3, <2>4
<1>12. LettersFit'
  <2>1. \A l \in Letters : owned[l] => was_owned'[l]
    BY <1>5 DEF LettersFit
  <2>2. \A l \in Letters : was_owned'[l] => list'[l] # NULL
    BY <1>5, <1>6, <1>8 DEF LettersFit
  <2> QED
    BY <1>1, <2>1, <2>2 DEF LettersFit
<1>13. FreeIsBlank'
  <2>1. \A l \in Letters : list'[l] = NULL => live'[l] = NULL /\ snap'[l] = NULL
    BY <1>6, <1>8 DEF FreeIsBlank
  <2> QED
    BY <1>7, <2>1 DEF FreeIsBlank
<1>14. LiveClosed'
  <2>1. \A o \in Objects, f \in Fields :
          list'[o] # NULL /\ live'[<<o, f>>] # NULL => list'[live'[<<o, f>>]] # NULL
    BY <1>7, <1>9, Addresses DEF LiveClosed
  <2>2. \A l \in Letters : was_owned'[l] /\ live'[l] # NULL =>
          was_owned[l] /\ live'[l] = live[l]
    BY <1>5, <1>6, <1>8
  <2>3. \A l \in Letters : was_owned'[l] /\ live'[l] # NULL => list'[live'[l]] # NULL
    BY <1>7, <1>9, <2>2, Addresses DEF LiveClosed
  <2> QED
    BY <2>1, <2>3 DEF LiveClosed
<1>15. SnapshotClosed'
  <2>1. \A o \in Objects, f \in Fields :
          list'[o] = 1 - index /\ snap'[<<o, f>>] # NULL => list'[snap'[<<o, f>>]] = 1 - index
    BY <1>3, <1>7, <1>9, Addresses DEF SnapshotClosed
  <2>2. \A l \in Letters : was_owned'[l] /\ list'[l] = 1 - index /\ snap'[l] # NULL =>
          was_owned[l] /\ list[l] = 1 - index /\ snap'[l] = snap[l]
    BY <1>4, <1>5, <1>6, <1>8
  <2>3. \A l \in Letters : list'[l] = 1 - index /\ was_owned'[l] /\ snap'[l] # NULL =>
          list'[snap'[l]] = 1 - index
    BY <1>3, <1>7, <1>9, <2>2, Addresses DEF SnapshotClosed
  <2> QED
    BY <1>1, <2>1, <2>3 DEF SnapshotClosed
<1>16. MarkerInside'
  <2>1. \A o \in marked : list'[o] = 1 - index
    BY <1>3, <1>7 DEF MarkerInside, TypeOK
  <2>2. \A l \in todo' : l \in Letters /\ list'[l] = 1 - index
    BY <1>1, <1>3, <1>8 DEF MarkerInside
  <2> QED
    BY <1>1, <1>3, <2>1, <2>2 DEF MarkerInside
<1>17. Covered' = Covered
  <2>1. \A a : a \in Ahead <=> \E l \in todo : was_owned[l] /\ a = snap[l]
    BY <1>1, AheadMember, NothingPending
  <2>2. \A a : a \in Ahead' <=> \E l \in todo' : was_owned'[l] /\ a = snap'[l]
    <3>1. \A a : a \in Ahead' <=> \/ \E l \in todo' : was_owned'[l] /\ a = snap'[l]
                                  \/ \E c \in Pending(stack') : a = snap'[c]
      BY DEF Ahead, Pending
    <3> QED
      BY <1>1, <3>1, NothingPending
  <2>3. \A l \in todo' : was_owned'[l] = was_owned[l] /\ snap'[l] = snap[l]
    BY <1>1, <1>3, <1>5, <1>8 DEF MarkerInside
  <2>4. was_owned[r] => snap[r] \in marked \cup {NULL}
    BY <1>1, <1>3 DEF RootSeen, r
  <2>5. Ahead' \subseteq Ahead /\ Ahead \subseteq Ahead' \cup marked \cup {NULL}
    BY <1>1, <2>1, <2>2, <2>3, <2>4
  <2>6. \A C \in SUBSET Objects : Covers(C)' <=> Covers(C)
    BY <1>1, <1>7, <2>5, SkipCovers
  <2> QED
    BY <2>6, SameCover
<1>18. SafeClosed'
  <2>1. Safe' = Safe
    BY <1>1, <1>7, <1>17 DEF Safe
  <2>2. \A o \in Safe, f \in Fields : live'[<<o, f>>] \in Safe \cup {NULL}
    BY <1>3, <1>7 DEF SafeClosed, Safe
  <2>3. \A l \in Letters : was_owned'[l] => live'[l] \in Safe \cup {NULL}
    BY <1>3, <1>5, <1>6, <1>8 DEF SafeClosed
  <2> QED
    BY <2>1, <2>2, <2>3 DEF SafeClosed
<1>19. RootSeen'
  BY <1>1 DEF RootSeen
<1> QED
  BY <1>10, <1>11, <1>12, <1>13, <1>14, <1>15, <1>16, <1>18, <1>19

LEMMA SweepKeeps ==
  ASSUME IInv, Sweep
  PROVE  IInv'
<1> DEFINE swept == InList(1 - index) \cap Objects
           freed == swept \ marked
<1>1. /\ work = "roots" /\ work' = "done" /\ todo = {} /\ todo' = todo
      /\ phase' = phase /\ gate' = gate /\ index' = index
      /\ regime' = regime /\ parked' = parked
      /\ owned' = owned /\ was_owned' = was_owned /\ var' = var /\ stack' = stack
      /\ kept' = kept /\ fetched' = fetched
  BY DEF Sweep, handshakeVars
<1>2. /\ list' = [n \in Nodes |-> IF n \in freed THEN NULL ELSE list[n]]
      /\ live' = [c \in Cells |-> IF c \in CellsOf(freed) THEN NULL ELSE live[c]]
      /\ snap' = [c \in Cells |-> IF c \in CellsOf(freed) THEN NULL ELSE snap[c]]
      /\ marked' = marked \ swept
  BY DEF Sweep
<1> USE DEF IInv
<1>3. /\ TypeOK /\ MarkerInside /\ SafeClosed /\ stack = <<>> /\ fetched = NULL
      /\ phase = COLLECTING /\ gate = "open"
  BY <1>1 DEF Marking, WorkFits
<1>4. marked' = {} /\ freed \subseteq Objects
  BY <1>2, <1>3 DEF MarkerInside, InList, Nodes, TypeOK
<1>5. \A o \in Objects : o \in freed <=> list[o] = 1 - index /\ o \notin marked
  BY DEF InList, Nodes
<1> HIDE DEF freed, swept
<1>6. \A o \in Objects : list[o] # NULL /\ o \notin freed <=> o \in Safe
  <2>1. Ahead = {}
    BY <1>1, <1>3, NothingPending DEF Ahead
  <2>2. Covers(marked)
    BY <2>1 DEF Covers
  <2>3. marked \in SUBSET Objects
    BY <1>3 DEF TypeOK
  <2>4. Covered = marked
    BY <2>2, <2>3 DEF Covered, Covers
  <2>5. index \in {0, 1} /\ list \in [Nodes -> {0, 1, NULL}] /\ NULL \notin {0, 1}
    BY <1>3, Addresses DEF TypeOK
  <2>6. \A n \in Nodes : list[n] # NULL <=> list[n] = index \/ list[n] = 1 - index
    BY <2>5
  <2>7. index # 1 - index
    BY <2>5
  <2>8. \A o \in marked : list[o] = 1 - index
    BY <1>3 DEF MarkerInside
  <2> QED
    BY <1>5, <2>4, <2>6, <2>7, <2>8 DEF Safe, Nodes
<1>7. /\ \A r \in Letters : list'[r] = list[r] /\ live'[r] = live[r] /\ snap'[r] = snap[r]
      /\ \A o \in Objects : list'[o] = IF o \in freed THEN NULL ELSE list[o]
      /\ \A o \in Objects, f \in Fields :
           IF o \in freed THEN live'[<<o, f>>] = NULL /\ snap'[<<o, f>>] = NULL
           ELSE live'[<<o, f>>] = live[<<o, f>>] /\ snap'[<<o, f>>] = snap[<<o, f>>]
  <2>1. \A r \in Letters : r \notin freed /\ r \in Nodes /\ r \in Cells
    BY <1>4, Addresses DEF Nodes
  <2>2. \A r \in Letters : r \notin CellsOf(freed)
    BY <2>1, CellsOfMember
  <2>3. \A o \in Objects, f \in Fields :
          <<o, f>> \in Cells /\ (<<o, f>> \in CellsOf(freed) <=> o \in freed)
    BY Addresses, CellsOfMember
  <2>4. \A r \in Letters : list'[r] = list[r] /\ live'[r] = live[r] /\ snap'[r] = snap[r]
    BY <1>2, <2>1, <2>2
  <2>5. \A o \in Objects : list'[o] = IF o \in freed THEN NULL ELSE list[o]
    BY <1>2 DEF Nodes
  <2>6. \A o \in Objects, f \in Fields :
          IF o \in freed THEN live'[<<o, f>>] = NULL /\ snap'[<<o, f>>] = NULL
          ELSE live'[<<o, f>>] = live[<<o, f>>] /\ snap'[<<o, f>>] = snap[<<o, f>>]
    BY <1>2, <2>3
  <2> QED
    BY <2>4, <2>5, <2>6
<1>8. TypeOK'
  <2>1. list' \in [Nodes -> {0, 1, NULL}]
    BY <1>2, <1>3 DEF TypeOK
  <2>2. live' \in [Cells -> Objects \cup {NULL}] /\ snap' \in [Cells -> Objects \cup {NULL}]
    BY <1>2, <1>3 DEF TypeOK
  <2> QED
    BY <1>1, <1>3, <1>4, <2>1, <2>2 DEF TypeOK, Work
<1>9. InStep' /\ WorkFits' /\ ListsFit' /\ KeptFits' /\ HalvesFit' /\ ~Marking'
  <2> USE DEF COLLECTING, NOT_COLLECTING, RESTORING_SNAPSHOT
  <2>1. InStep' /\ ~Marking'
    BY <1>1 DEF InStep, Marking
  <2>2. WorkFits'
    BY <1>1, <1>3, <1>4 DEF WorkFits, Marking
  <2>3. ListsFit' /\ HalvesFit'
    BY <1>1, <1>3 DEF ListsFit, HalvesFit
  <2>4. KeptFits'
    BY <1>1, <1>3 DEF KeptFits
  <2> QED
    BY <2>1, <2>2, <2>3, <2>4
<1>10. LettersFit'
  BY <1>1, <1>7 DEF LettersFit
<1>11. FreeIsBlank'
  BY <1>7 DEF FreeIsBlank
<1>12. LiveClosed'
  <2>1. \A o \in Safe : o \in Objects /\ list'[o] # NULL
    BY <1>6, <1>7 DEF Safe
  <2>2. ASSUME NEW o \in Objects, NEW f \in Fields,
               list'[o] # NULL, live'[<<o, f>>] # NULL
        PROVE  list'[live'[<<o, f>>]] # NULL
    <3>1. o \notin freed /\ o \in Safe
      BY <1>6, <1>7, <2>2
    <3>2. live'[<<o, f>>] \in Safe \cup {NULL}
      BY <1>3, <1>7, <3>1 DEF SafeClosed
    <3> QED
      BY <2>1, <2>2, <3>2
  <2>3. ASSUME NEW r \in Letters, was_owned'[r], live'[r] # NULL
        PROVE  list'[live'[r]] # NULL
    <3>1. live'[r] \in Safe \cup {NULL}
      BY <1>1, <1>3, <1>7, <2>3 DEF SafeClosed
    <3> QED
      BY <2>1, <2>3, <3>1
  <2> QED
    BY <2>2, <2>3 DEF LiveClosed
<1> QED
  BY <1>8, <1>9, <1>10, <1>11, <1>12

-----------------------------------------------------------------------------
(* The two walks that make the halves agree.                               *)

LEMMA WalkKeeps ==
  ASSUME IInv, ~Marking, ~Marking', UNCHANGED <<handshakeVars, mutatorVars, stack, marked>>,
         snap' \in [Cells -> Objects \cup {NULL}],
         \A c \in Cells : snap'[c] = snap[c] \/ c \in CellsOf(Allocated),
         TypeOK', WorkFits', KeptFits', HalvesFit'
  PROVE  IInv'
<1>1. /\ phase' = phase /\ gate' = gate /\ index' = index
      /\ regime' = regime /\ parked' = parked
      /\ live' = live /\ list' = list /\ owned' = owned
      /\ was_owned' = was_owned /\ var' = var
  BY DEF handshakeVars, mutatorVars
<1> USE DEF IInv
<1>2. InStep' /\ ListsFit' /\ LettersFit' /\ LiveClosed'
  <2>1. InStep'
    BY <1>1 DEF InStep
  <2>2. ListsFit' /\ LettersFit' /\ LiveClosed'
    BY <1>1 DEF ListsFit, LettersFit, LiveClosed
  <2> QED
    BY <2>1, <2>2
<1>3. FreeIsBlank'
  <2>1. \A r \in Letters : list[r] = NULL => snap'[r] = snap[r]
    <3>1. \A r \in Letters : r \in Cells /\ (r \in CellsOf(Allocated) <=> r \in Allocated)
      BY Addresses, CellsOfMember
    <3> QED
      BY <3>1 DEF Allocated
  <2>2. \A o \in Objects, f \in Fields : list[o] = NULL => snap'[<<o, f>>] = snap[<<o, f>>]
    <3>1. \A o \in Objects, f \in Fields :
            <<o, f>> \in Cells /\ (<<o, f>> \in CellsOf(Allocated) <=> o \in Allocated)
      BY Addresses, CellsOfMember
    <3> QED
      BY <3>1 DEF Allocated
  <2> QED
    BY <1>1, <2>1, <2>2 DEF FreeIsBlank
<1> QED
  BY <1>2, <1>3

(* The collector only ever writes to what was found at the border.         *)
LEMMA KeptCells ==
  ASSUME IInv
  PROVE  \A c \in CellsOf(kept) : c \in Cells /\ c \in CellsOf(Allocated)
<1>1. kept \subseteq Allocated
  BY DEF IInv, KeptFits
<1>2. \A r \in Letters : r \in CellsOf(kept) => r \in CellsOf(Allocated)
  BY <1>1, CellsOfMember
<1>3. \A o \in Objects, f \in Fields :
        <<o, f>> \in CellsOf(kept) => <<o, f>> \in CellsOf(Allocated)
  BY <1>1, CellsOfMember
<1>4. CellsOf(kept) \subseteq Cells
  BY CellsOfMember
<1> QED
  BY <1>2, <1>3, <1>4, Addresses

LEMMA FastReadKeeps ==
  ASSUME IInv, FastRead
  PROVE  IInv'
<1>1. PICK c \in todo :
        IF live[c] = snap[c] THEN todo' = todo \ {c} /\ UNCHANGED fetched
        ELSE fetched' = <<c, live[c]>> /\ UNCHANGED todo
  BY DEF FastRead
<1>2. /\ work = "restore" /\ work' = work /\ fetched = NULL
      /\ UNCHANGED <<handshakeVars, mutatorVars, stack, marked>>
      /\ snap' = snap /\ stack' = stack /\ marked' = marked /\ kept' = kept
  BY DEF FastRead
<1>3. /\ phase' = phase /\ gate' = gate /\ index' = index
      /\ regime' = regime /\ parked' = parked
      /\ live' = live /\ list' = list /\ owned' = owned
      /\ was_owned' = was_owned /\ var' = var
  BY <1>2 DEF handshakeVars, mutatorVars
<1> USE DEF IInv
<1>4. /\ TypeOK /\ phase = RESTORING_SNAPSHOT /\ gate = "open" /\ ~Marking /\ ~Marking'
      /\ todo \subseteq Cells /\ c \in Cells
  BY <1>2 DEF WorkFits, Marking, TypeOK
<1>5. live[c] \in Objects \cup {NULL}
  BY <1>4 DEF TypeOK
<1>6. /\ todo' \subseteq todo
      /\ \/ fetched' = NULL
         \/ fetched' = <<c, live[c]>> /\ todo' = todo
  BY <1>1, <1>2
<1>7. TypeOK'
  <2>1. fetched' \in Letters \cup {NULL} \/ fetched' \in Cells \X (Objects \cup {NULL})
    BY <1>4, <1>5, <1>6
  <2>2. todo' \subseteq Cells
    BY <1>4, <1>6
  <2> QED
    BY <1>2, <1>3, <1>4, <2>1, <2>2 DEF TypeOK
<1>8. WorkFits'
  BY <1>2, <1>3 DEF WorkFits, Marking
<1>9. CellsOf(kept)' = CellsOf(kept) /\ Allocated' = Allocated /\ Differ' = Differ
  BY <1>2, <1>3 DEF CellsOf, Allocated, Differ
<1>10. KeptFits'
  <2>1. work' = "restore" /\ fetched' # NULL => fetched' \in todo' \X (Objects \cup {NULL})
    BY <1>5, <1>6
  <2> QED
    BY <1>2, <1>3, <1>4, <1>6, <1>9, <2>1 DEF KeptFits
<1>11. HalvesFit'
  BY <1>2, <1>3, <1>9 DEF HalvesFit
<1>12. snap' \in [Cells -> Objects \cup {NULL}]
  BY <1>2, <1>4 DEF TypeOK
<1>13. \A d \in Cells : snap'[d] = snap[d] \/ d \in CellsOf(Allocated)
  BY <1>2
<1> QED
  BY <1>2, <1>4, <1>7, <1>8, <1>10, <1>11, <1>12, <1>13, WalkKeeps

LEMMA FastWriteKeeps ==
  ASSUME IInv, FastWrite
  PROVE  IInv'
<1> DEFINE c == fetched[1]
           v == fetched[2]
<1>1. /\ work = "restore" /\ work' = work /\ fetched # NULL /\ fetched' = NULL
      /\ todo' = todo \ {c} /\ snap' = [snap EXCEPT ![c] = v]
      /\ UNCHANGED <<handshakeVars, mutatorVars, stack, marked>>
      /\ stack' = stack /\ marked' = marked /\ kept' = kept
  BY DEF FastWrite
<1>2. /\ phase' = phase /\ gate' = gate /\ index' = index
      /\ regime' = regime /\ parked' = parked
      /\ live' = live /\ list' = list /\ owned' = owned
      /\ was_owned' = was_owned /\ var' = var
  BY <1>1 DEF handshakeVars, mutatorVars
<1> USE DEF IInv
<1>3. /\ TypeOK /\ phase = RESTORING_SNAPSHOT /\ gate = "open" /\ ~Marking /\ ~Marking'
      /\ todo \subseteq CellsOf(kept)
  BY <1>1 DEF WorkFits, Marking, KeptFits
<1>4. c \in todo /\ v \in Objects \cup {NULL}
  BY <1>1 DEF KeptFits
<1> HIDE DEF c, v
<1>5. c \in CellsOf(kept) /\ c \in Cells /\ c \in CellsOf(Allocated)
  BY <1>3, <1>4, KeptCells
<1>6. /\ snap' \in [Cells -> Objects \cup {NULL}]
      /\ \A d \in Cells : d # c => snap'[d] = snap[d]
  BY <1>1, <1>3, <1>4, <1>5 DEF TypeOK
<1>7. TypeOK'
  BY <1>1, <1>2, <1>3, <1>6 DEF TypeOK
<1>8. WorkFits'
  BY <1>1, <1>2 DEF WorkFits, Marking
<1>9. CellsOf(kept)' = CellsOf(kept) /\ Allocated' = Allocated
  BY <1>1, <1>2 DEF CellsOf, Allocated
<1>10. KeptFits'
  BY <1>1, <1>2, <1>3, <1>9 DEF KeptFits
<1>11. HalvesFit'
  <2>1. Differ \subseteq CellsOf(kept)
    BY <1>3 DEF HalvesFit
  <2>2. Differ' \subseteq Differ \cup {c}
    BY <1>2, <1>6 DEF Differ
  <2> QED
    BY <1>1, <1>2, <1>3, <1>5, <1>9, <2>1, <2>2
    DEF HalvesFit, COLLECTING, NOT_COLLECTING, RESTORING_SNAPSHOT
<1>12. \A d \in Cells : snap'[d] = snap[d] \/ d \in CellsOf(Allocated)
  BY <1>5, <1>6
<1> QED
  BY <1>1, <1>3, <1>6, <1>7, <1>8, <1>10, <1>11, <1>12, WalkKeeps

LEMMA RestoreKeeps ==
  ASSUME IInv, Restore
  PROVE  IInv'
<1>1. PICK c \in todo : snap' = [snap EXCEPT ![c] = live[c]] /\ todo' = todo \ {c}
  BY DEF Restore
<1>2. /\ work = "finalize" /\ work' = work /\ fetched' = fetched
      /\ UNCHANGED <<handshakeVars, mutatorVars, stack, marked>>
      /\ stack' = stack /\ marked' = marked /\ kept' = kept
  BY DEF Restore
<1>3. /\ phase' = phase /\ gate' = gate /\ index' = index
      /\ regime' = regime /\ parked' = parked
      /\ live' = live /\ list' = list /\ owned' = owned
      /\ was_owned' = was_owned /\ var' = var
  BY <1>2 DEF handshakeVars, mutatorVars
<1> USE DEF IInv
<1>4. /\ TypeOK /\ phase = NOT_COLLECTING /\ gate = "open" /\ ~Marking /\ ~Marking'
      /\ todo \subseteq CellsOf(kept)
  BY <1>2 DEF WorkFits, Marking, KeptFits
<1>5. c \in Cells /\ c \in CellsOf(Allocated)
  BY <1>4, KeptCells
<1>6. live[c] \in Objects \cup {NULL}
  BY <1>4, <1>5 DEF TypeOK
<1>7. /\ snap' \in [Cells -> Objects \cup {NULL}] /\ snap'[c] = live[c]
      /\ \A d \in Cells : d # c => snap'[d] = snap[d]
  BY <1>1, <1>4, <1>5, <1>6 DEF TypeOK
<1>8. TypeOK'
  BY <1>1, <1>2, <1>3, <1>4, <1>7 DEF TypeOK
<1>9. WorkFits'
  BY <1>2, <1>3 DEF WorkFits, Marking
<1>10. CellsOf(kept)' = CellsOf(kept) /\ Allocated' = Allocated
  BY <1>2, <1>3 DEF CellsOf, Allocated
<1>11. KeptFits'
  BY <1>1, <1>2, <1>3, <1>4, <1>10 DEF KeptFits
<1>12. HalvesFit'
  <2>1. Differ \subseteq todo
    BY <1>2 DEF HalvesFit
  <2>2. Differ' \subseteq Differ \ {c}
    BY <1>3, <1>7 DEF Differ
  <2> QED
    BY <1>1, <1>2, <1>3, <1>4, <2>1, <2>2
    DEF HalvesFit, COLLECTING, NOT_COLLECTING, RESTORING_SNAPSHOT
<1>13. \A d \in Cells : snap'[d] = snap[d] \/ d \in CellsOf(Allocated)
  BY <1>5, <1>7
<1> QED
  BY <1>2, <1>4, <1>7, <1>8, <1>9, <1>11, <1>12, <1>13, WalkKeeps

LEMMA WorkDoneKeeps ==
  ASSUME IInv, WorkDone
  PROVE  IInv'
<1>1. /\ work \in {"restore", "finalize"} /\ todo = {} /\ work' = "done"
      /\ kept' = IF work = "finalize" THEN {} ELSE kept
      /\ UNCHANGED <<handshakeVars, mutatorVars, stack, marked>>
      /\ snap' = snap /\ todo' = todo /\ stack' = stack /\ marked' = marked
      /\ fetched' = fetched
  BY DEF WorkDone
<1>2. /\ phase' = phase /\ gate' = gate /\ index' = index
      /\ regime' = regime /\ parked' = parked
      /\ live' = live /\ list' = list /\ owned' = owned
      /\ was_owned' = was_owned /\ var' = var
  BY <1>1 DEF handshakeVars, mutatorVars
<1> USE DEF IInv
<1>3. /\ TypeOK /\ gate = "open" /\ ~Marking /\ ~Marking' /\ kept \subseteq Allocated
      /\ work = "restore" => phase = RESTORING_SNAPSHOT
      /\ work = "finalize" => phase = NOT_COLLECTING
      /\ fetched = NULL
  BY <1>1 DEF WorkFits, Marking, KeptFits
<1>4. TypeOK'
  BY <1>1, <1>2, <1>3 DEF TypeOK, Work
<1>5. WorkFits'
  BY <1>1, <1>2, <1>3 DEF WorkFits, Marking
<1>6. Allocated' = Allocated /\ Differ' = Differ
  BY <1>1, <1>2 DEF Allocated, Differ
<1> USE DEF COLLECTING, NOT_COLLECTING, RESTORING_SNAPSHOT
<1>7. KeptFits'
  BY <1>1, <1>2, <1>3, <1>6 DEF KeptFits
<1>8. HalvesFit'
  <2>1. CASE work = "restore"
    <3>1. CellsOf(kept)' = CellsOf(kept)
      BY <1>1, <2>1 DEF CellsOf
    <3> QED
      BY <1>1, <1>2, <1>3, <1>6, <2>1, <3>1 DEF HalvesFit
  <2>2. CASE work = "finalize"
    BY <1>1, <1>2, <1>3, <1>6, <2>2 DEF HalvesFit
  <2> QED
    BY <1>1, <2>1, <2>2
<1>9. snap' \in [Cells -> Objects \cup {NULL}]
  BY <1>1, <1>3 DEF TypeOK
<1>10. \A d \in Cells : snap'[d] = snap[d] \/ d \in CellsOf(Allocated)
  BY <1>1
<1> QED
  BY <1>1, <1>3, <1>4, <1>5, <1>7, <1>8, <1>9, <1>10, WalkKeeps

-----------------------------------------------------------------------------
(* The theorems.                                                           *)

LEMMA InvInit ==
  Init => IInv
<1> SUFFICES ASSUME Init
             PROVE  IInv
  OBVIOUS
<1> USE DEF Init, HandshakeInit, NOT_COLLECTING, COLLECTING, RESTORING_SNAPSHOT
<1>1. TypeOK
  BY DEF TypeOK, Phase, Gate, Regime, Work
<1>2. InStep /\ WorkFits /\ ~Marking
  BY DEF InStep, WorkFits, Marking
<1>3. \A n \in Nodes : list[n] = NULL
  OBVIOUS
<1>4. ListsFit
  <2>1. NULL \notin {0, 1}
    BY Addresses
  <2> QED
    BY <1>3, <2>1 DEF ListsFit
<1>5. LettersFit
  BY DEF LettersFit
<1>6. FreeIsBlank
  BY Addresses DEF FreeIsBlank
<1>7. KeptFits
  BY DEF KeptFits
<1>8. HalvesFit
  BY DEF HalvesFit, Differ
<1>9. LiveClosed
  BY Addresses DEF LiveClosed
<1> QED
  BY <1>1, <1>2, <1>4, <1>5, <1>6, <1>7, <1>8, <1>9 DEF IInv

LEMMA InvStep ==
  ASSUME Careful, IInv, [Next]_vars
  PROVE  IInv'
<1>1. CASE CollectorNext
  <2>1. CASE BeginPhase \/ Gather \/ StartWork
    BY <2>1, BeginPhaseKeeps, GatherKeeps, StartWorkKeeps
  <2>2. CASE ScanRoot \/ MarkStep \/ RootDone \/ Sweep
    BY <2>2, ScanRootKeeps, MarkStepKeeps, RootDoneKeeps, SweepKeeps
  <2>3. CASE FastRead \/ FastWrite \/ Restore \/ WorkDone
    BY <2>3, FastReadKeeps, FastWriteKeeps, RestoreKeeps, WorkDoneKeeps
  <2> QED
    BY <1>1, <2>1, <2>2, <2>3 DEF CollectorNext
<1>2. CASE \E t \in Threads : MutatorNext(t)
  BY <1>2, MutatorNextKeeps
<1>3. CASE UNCHANGED vars
  <2>1. UNCHANGED <<phase, gate, index>> /\ regime' = regime /\ parked' = parked
    BY <1>3 DEF vars, handshakeVars
  <2>2. UNCHANGED heapVars
    BY <1>3 DEF vars
  <2>3. InStep'
    BY <2>1 DEF IInv, InStep
  <2>4. TypeOK'
    BY <2>1, <2>2 DEF IInv, TypeOK, heapVars, mutatorVars, collectorVars
  <2> QED
    BY <2>1, <2>2, <2>3, <2>4, HeapSame
<1> QED
  BY <1>1, <1>2, <1>3 DEF Next

LEMMA Invariance ==
  ASSUME Careful
  PROVE  Spec => []IInv
<1>1. IInv /\ [Next]_vars => IInv'
  BY InvStep
<1> QED
  BY <1>1, InvInit, PTL DEF Spec

(* Whatever threads can reach is in every set of objects that has what they*)
(* hold and is closed under the live pointers.                             *)
LEMMA LiveInside ==
  ASSUME IInv, NEW T \in SUBSET Objects,
         \A r \in Letters : was_owned[r] => live[r] \in T \cup {NULL},
         Closed(live, T)
  PROVE  LiveObjects \subseteq T
<1>1. \A t \in Threads : Held(t) \subseteq T
  <2> SUFFICES ASSUME NEW t \in Threads, NEW v \in Held(t)
               PROVE  v \in T
    OBVIOUS
  <2>1. PICK p \in Mine(t) : v = live[var[p]] /\ v # NULL
    BY DEF Held
  <2>2. var[p] \in Letters /\ was_owned[var[p]]
    BY HandyRoots DEF Mine
  <2> QED
    BY <2>1, <2>2
<1>2. UNION {Held(t) : t \in Threads} \subseteq T \cup {NULL}
  BY <1>1
<1> QED
  BY <1>2 DEF LiveObjects, Reach

(* Every variable keeps its type.                                          *)
THEOREM TypeCorrect ==
  ASSUME Careful
  PROVE  Spec => []TypeOK
<1>1. IInv => TypeOK
  BY DEF IInv
<1> QED
  BY <1>1, Invariance, PTL

(* No thread ever holds or can load a pointer to freed memory.             *)
THEOREM NeverDangling ==
  ASSUME Careful
  PROVE  Spec => []NoDangling
<1>1. ASSUME IInv
      PROVE  NoDangling
  <2> DEFINE T == {o \in Objects : list[o] # NULL}
  <2>1. \A c \in Cells : live[c] \in Objects \cup {NULL}
    BY <1>1 DEF IInv, TypeOK
  <2>2. \A r \in Letters : was_owned[r] => live[r] \in T \cup {NULL}
    BY <1>1, <2>1, Addresses DEF IInv, LiveClosed
  <2>3. Closed(live, T)
    BY <1>1, <2>1, Addresses DEF IInv, LiveClosed, Closed
  <2>4. T \in SUBSET Objects
    OBVIOUS
  <2> HIDE DEF T
  <2>5. LiveObjects \subseteq T
    BY <1>1, <2>2, <2>3, <2>4, LiveInside
  <2>6. \A o \in LiveObjects : list[o] # NULL
    BY <2>5 DEF T
  <2>7. \A p \in Ptrs : var[p] # NULL => list[var[p]] # NULL
    BY <1>1, HandyRoots
  <2> QED
    BY <2>6, <2>7 DEF NoDangling
<1> QED
  BY <1>1, Invariance, PTL

(* Whatever a mutator can still reach of the snapshot lists while they are *)
(* marked is marked or ahead of the marker.                                *)
THEOREM SnapshotAlwaysCovers ==
  ASSUME Careful
  PROVE  Spec => []SnapshotCovers
<1>1. ASSUME IInv
      PROVE  SnapshotCovers
  <2> SUFFICES ASSUME Marking
               PROVE  \A o \in LiveObjects :
                        list[o] = 1 - index => o \in marked \cup Reach(snap, Ahead)
    BY DEF SnapshotCovers, Marking
  <2>1. TypeOK /\ SafeClosed
    BY <1>1 DEF IInv
  <2>2. LiveObjects \subseteq Safe
    <3>1. Safe \in SUBSET Objects
      BY DEF Safe
    <3>2. \A r \in Letters : was_owned[r] => live[r] \in Safe \cup {NULL}
      BY <2>1 DEF SafeClosed
    <3>3. Closed(live, Safe)
      BY <2>1 DEF SafeClosed, Closed
    <3> QED
      BY <1>1, <3>1, <3>2, <3>3, LiveInside
  <2> DEFINE R == Reach(snap, Ahead)
             C == marked \cup R
  <2>3. Covers(C)
    <3>1. Ahead \subseteq Objects \cup {NULL}
      <4>1. Pending(stack) \subseteq Cells /\ todo \subseteq Cells
        BY <2>1, PendingMember DEF TypeOK, Cells
      <4> QED
        BY <2>1, <4>1 DEF Ahead, TypeOK
    <3>2. Ahead \subseteq R \cup {NULL}
      BY <3>1 DEF Reach
    <3>3. \A o \in R, f \in Fields : snap[<<o, f>>] \in R \cup {NULL}
      <4>1. \A o \in Objects, f \in Fields : snap[<<o, f>>] \in Objects \cup {NULL}
        BY <2>1, Addresses DEF TypeOK
      <4> QED
        BY <4>1 DEF Reach, Closed
    <3> HIDE DEF R
    <3> QED
      BY <3>2, <3>3 DEF Covers
  <2>4. C \in SUBSET Objects
    BY <2>1 DEF TypeOK, Reach
  <2>5. Covered \subseteq C
    BY <2>3, <2>4 DEF Covered
  <2>6. index # 1 - index
    BY <2>1 DEF TypeOK
  <2> QED
    BY <2>2, <2>5, <2>6 DEF Safe
<1> QED
  BY <1>1, Invariance, PTL

(* Between collections the halves of every pointer agree.                  *)
THEOREM AlwaysRestored ==
  ASSUME Careful
  PROVE  Spec => []SnapshotRestored
<1>1. ASSUME IInv
      PROVE  SnapshotRestored
  <2> SUFFICES ASSUME phase = NOT_COLLECTING, gate = "open", work = "done"
               PROVE  \A n \in Nodes : \A c \in CellsOf({n}) : live[c] = snap[c]
    BY DEF SnapshotRestored
  <2>1. \A c \in Cells : live[c] = snap[c]
    BY <1>1 DEF IInv, HalvesFit, Differ
  <2> QED
    BY <2>1, CellsOfMember
<1> QED
  BY <1>1, Invariance, PTL

(* No mark is left behind, or set on an object that the sweep does not see.*)
THEOREM NeverStaleMark ==
  ASSUME Careful
  PROVE  Spec => []NoStaleMark
<1>1. ASSUME IInv
      PROVE  NoStaleMark
  <2>1. marked \subseteq Nodes
    BY <1>1 DEF IInv, TypeOK, Nodes
  <2> QED
    BY <1>1, <2>1 DEF IInv, NoStaleMark, WorkFits, MarkerInside, InList, Marking
<1> QED
  BY <1>1, Invariance, PTL
=============================================================================
