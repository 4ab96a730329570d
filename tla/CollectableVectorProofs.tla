----------------------- MODULE CollectableVectorProofs -----------------------
(***************************************************************************)
(* Proofs about CollectableVector, for any arrays, elements, letters and   *)
(* sizes: however the vector grows, whatever its elements are and whatever *)
(* the collector is doing meanwhile, nothing it refers to is freed,        *)
(* between collections the halves of its pointers agree, and every member  *)
(* function changes the contents at one moment, as ElementSequence says.   *)
(*                                                                         *)
(* They are about programs that do not move elements while a collection is *)
(* under way, and do not shrink with resize: TLC shows what these cost.    *)
(***************************************************************************)
EXTENDS CollectableVector, SequenceTheorems, TLAPS

Orderly == VectorUsage = {}

-----------------------------------------------------------------------------
(* The inductive invariant, part by part.                                  *)

(* The phase under which the thread runs when it runs.                     *)
Era == IF gate = "closed" THEN Pred(phase) ELSE phase

InStep ==
  regime[Mutator] # NOT_MUTATING =>
    /\ regime[Mutator] \in {phase, Pred(phase)}
    /\ gate # "closed" => regime[Mutator] = phase
    /\ gate # "open" /\ regime[Mutator] = phase => Mutator \in parked

Marking == work = "mark"

WorkFits ==
  /\ gate # "open" => work = "done"
  /\ Marking => phase = COLLECTING
  /\ work = "restore" => phase = RESTORING_SNAPSHOT
  /\ work = "finalize" => phase = NOT_COLLECTING
  /\ work = "done" => at = NULL
  /\ ~Marking => current = NULL /\ marked = {}
  /\ work # "restore" => fetched = NULL

ListsFit ==
  /\ \/ phase = NOT_COLLECTING
     \/ phase = COLLECTING /\ gate = "closed"
     \/ phase = RESTORING_SNAPSHOT /\ gate # "closed"
     => \A n \in Nodes : list[n] # 1 - index
  /\ phase = COLLECTING /\ gate = "turned" => \A n \in Nodes : list[n] # index

(* What the two halves of each pointer may be; the data pointer and the    *)
(* letters are only written when no collection is under way.               *)
Single == Letters \cup {"data"}
CellsFit ==
  /\ \A c \in Cells : c[1] \notin Single =>
       live[c] \in Elements \cup {NULL} /\ snap[c] \in Elements \cup {NULL}
  /\ \A r \in Single : live[Slot(r)] = snap[Slot(r)] /\ live[Slot(r)] \in Arrays \cup {NULL}

(* The cells the collector visits are those below scan_size.               *)
Scanned(c) == c[1] \in Roots \/ c[2] < scan_size[c[1]]
SizesFit ==
  /\ \A a \in Arrays : size[a] \leq scan_size[a]
  /\ at # NULL => Scanned(at)
  /\ \A c \in Cells : live[c] # snap[c] => Scanned(c)

FreeIsBlank ==
  \A a \in Arrays : list[a] = NULL =>
    /\ size[a] = 0 /\ scan_size[a] = 0
    /\ \A i \in Index : live[<<a, i>>] = NULL /\ snap[<<a, i>>] = NULL

Job == {"push_back", "push_front", "insert", "resize", "reserve"}
Op ==
  [do : {"idle"}]
    \cup [do : {"copy"}, job : Job, i : 0 .. MaxSize, n : 0 .. MaxSize, from : Arrays]
    \cup [do : {"then"}, job : Job, n : 0 .. MaxSize]
    \cup [do : {"shift"}, job : Job, i : 0 .. MaxSize, n : 0 .. MaxSize]

(* No safe point comes before the member function is through with it.      *)
Unbroken == op.do = "shift" \/ (op.do = "copy" /\ op.job = "insert")
Steady ==
  /\ Active(Mutator) /\ regime[Mutator] = NOT_COLLECTING
  /\ \/ phase = NOT_COLLECTING /\ gate = "open" /\ work = "done"
     \/ phase = COLLECTING /\ gate = "closed"

(* While the old array is copied: it is held, nothing else is written, and *)
(* the new one has nothing but what is in the old one.                     *)
CopyFits ==
  /\ op.from # Data /\ op.i \leq size[op.from]
  /\ op.job \in {"push_front", "insert"} => size[op.from] < MaxSize
  /\ op.n \leq size[op.from] \/ op.job # "insert"
  /\ held \in was_owned /\ list[held] # NULL /\ live[Slot(held)] = op.from
  /\ size[Data] = 0 /\ scan_size[Data] = 0
  /\ \A i \in Index :
       /\ live[<<op.from, i>>] = snap[<<op.from, i>>]
       /\ live[<<Data, i>>] = snap[<<Data, i>>]
       /\ i \geq size[op.from] => live[<<op.from, i>>] = NULL
       /\ (IF op.job = "push_front" THEN i > size[op.from] ELSE i \geq size[op.from])
            => live[<<Data, i>>] = NULL
       /\ live[<<Data, i>>] \in {NULL} \cup {live[<<op.from, j>>] : j \in Index}

ShiftFits ==
  /\ op.n \leq op.i /\ op.i \leq Length /\ Length < MaxSize
  /\ \A i \in Index : i > Length => live[<<Data, i>>] = NULL

OpFits ==
  /\ op \in Op
  /\ Unbroken => Steady
  /\ op.do = "copy" => CopyFits
  /\ op.do = "shift" => ShiftFits
  /\ op.do \in {"idle", "then"} => \A i \in Index : i \geq Length => live[<<Data, i>>] = NULL
  /\ op.do # "copy" => held = NULL

(* Where the halves of a pointer may differ.                               *)
Differ == {c \in Cells : live[c] # snap[c]}
(* The cells at and below the collector's place, which it has yet to do.   *)
Yet(c) == at # NULL /\ c[1] = at[1] /\ c[2] \leq at[2]
HalvesFit ==
  /\ \/ phase = NOT_COLLECTING /\ gate = "open" /\ work = "done"
     \/ phase = COLLECTING /\ gate # "open"
     => Differ = {}
  /\ \/ phase = RESTORING_SNAPSHOT /\ gate # "closed"
     \/ phase = NOT_COLLECTING /\ gate # "open"
     => \A c \in Differ : c[1] \in Arrays => c[1] \in kept
  /\ work = "finalize" => \A c \in Differ : c[1] \in todo \/ Yet(c)

WalkFits ==
  /\ work \in {"restore", "finalize"} => todo \subseteq kept \cup {"data", "arg"}
  /\ at # NULL /\ work # "mark" => at[1] \in kept \cup {"data", "arg"}
  /\ fetched # NULL =>
       /\ at # NULL /\ at[1] \notin Single
       /\ fetched[1] \in Elements \cup {NULL}
       /\ op.do = "copy" => at[1] \notin {Data, op.from}

(* The pointers the program can get at.                                    *)
Reachable == {c \in Cells : c[1] \in {Data, Source, "data", "arg", held}}
LiveFits == \A c \in Reachable : live[c] # NULL => list[live[c]] # NULL

(* What the marker will have marked when it is through: what it has, the   *)
(* roots it has yet to come to, and the elements of the arrays it will     *)
(* enter or is in.                                                         *)
RootsLeft == {r \in todo : r \in Letters => r \in was_owned}
ToEnter == {snap[Slot(r)] : r \in RootsLeft} \ marked
Front == {c \in Cells : Scanned(c) /\ (c[1] \in ToEnter \/ Yet(c))}
Covered == marked \cup ToEnter \cup {snap[c] : c \in Front}
Safe(v) == v = NULL \/ list[v] = index \/ v \in Covered

MarkerFits ==
  /\ todo \subseteq Roots
  /\ at # NULL => at[1] \in Arrays
  /\ current # NULL => current \notin todo

IInv ==
  /\ TypeOK /\ InStep /\ WorkFits /\ ListsFit /\ CellsFit /\ SizesFit /\ FreeIsBlank
  /\ OpFits /\ HalvesFit /\ WalkFits /\ LiveFits
  /\ Marking => MarkerFits /\ \A c \in Reachable : Safe(live[c])

-----------------------------------------------------------------------------
(* Cells and nodes.                                                        *)

LEMMA Addresses ==
  /\ \A a \in Arrays, i \in Index : <<a, i>> \in Cells
  /\ \A r \in Roots : Slot(r) \in Cells /\ Slot(r)[1] = r
  /\ \A c \in Cells : \/ c[1] \in Arrays /\ c[2] \in Index /\ c = <<c[1], c[2]>>
                      \/ c[1] \in Roots /\ c[2] = 0 /\ c = Slot(c[1])
  /\ Arrays \cap Elements = {} /\ (Arrays \cup Elements) \cap Roots = {}
  /\ Elements \cap Letters = {} /\ "data" \notin Letters /\ "arg" \notin Letters
  /\ NULL \notin Nodes \cup Roots /\ NULL \notin Cells /\ NULL \notin {0, 1}
  /\ \A i \in Index : i \in Nat /\ i < MaxSize
BY VectorAssumption DEF Cells, Roots, Slot, Nodes, Index

(* The thread runs under the phase of the era, and not while the gate is   *)
(* turned.                                                                 *)
LEMMA ActiveEra ==
  ASSUME IInv, Active(Mutator)
  PROVE  regime[Mutator] = Era /\ gate # "turned" /\ gate \in Gate
<1>1. gate \in Gate /\ regime[Mutator] # NOT_MUTATING /\ Mutator \notin parked
  BY DEF IInv, TypeOK, Active
<1>2. /\ regime[Mutator] \in {phase, Pred(phase)}
      /\ gate # "closed" => regime[Mutator] = phase
      /\ gate # "open" => regime[Mutator] # phase
  BY <1>1 DEF IInv, InStep
<1> QED
  BY <1>1, <1>2 DEF Era, Gate

-----------------------------------------------------------------------------
(* The steps of the vector's user, but for the one that grows it, as far   *)
(* as the invariant can tell them apart: they put the elements of F into   *)
(* the active list and write to the cells of W.                            *)

Handy(v, F) == v = NULL \/ v \in F \/ \E c \in Reachable : v = live[c]

VectorStep(W, F) ==
  /\ UNCHANGED <<handshakeVars, collectorVars>>
  /\ Active(Mutator)
  /\ \A n \in F : list[n] = NULL
  /\ list' = [n \in Nodes |-> IF n \in F THEN index ELSE list[n]]
  /\ live' \in [Cells -> Arrays \cup Elements \cup {NULL}]
  /\ snap' \in [Cells -> Arrays \cup Elements \cup {NULL}]
  /\ \A c \in Cells \ W : live'[c] = live[c] /\ snap'[c] = snap[c]
  /\ \A c \in W :
       /\ c[1] \in {Data, "arg"}
       /\ live'[c] \in Elements \cup {NULL} /\ Handy(live'[c], F)
       /\ \/ snap'[c] = live'[c]
          \/ snap'[c] = snap[c] /\ Era = COLLECTING /\ Scanned(c)'
       /\ Marking => snap'[c] = snap[c] \/ ~Scanned(c)
  /\ size' \in [Arrays -> 0 .. MaxSize] /\ scan_size' \in [Arrays -> 0 .. MaxSize]
  /\ reserved' = reserved
  /\ size'[Data] \leq scan_size'[Data] /\ scan_size[Data] \leq scan_size'[Data]
  /\ \A a \in Arrays \ {Data} : size'[a] = size[a] /\ scan_size'[a] = scan_size[a]
  /\ was_owned' \subseteq was_owned /\ (Marking => was_owned' = was_owned)
  /\ held' \in {held, NULL}
  /\ op'.do = "copy" => op.do = "copy" /\ op'.from = op.from
  /\ OpFits'

(* Which of the cells and lists are still as they were.                    *)
LEMMA StepFrame ==
  ASSUME IInv, NEW W \in SUBSET Cells, NEW F \in SUBSET Elements, VectorStep(W, F)
  PROVE  /\ index' = index /\ index \in {0, 1} /\ phase' = phase /\ gate' = gate
         /\ regime' = regime /\ parked' = parked
         /\ work' = work /\ todo' = todo /\ at' = at /\ current' = current
         /\ marked' = marked /\ kept' = kept /\ fetched' = fetched
         /\ \A n \in Nodes : list'[n] = IF n \in F THEN index ELSE list[n]
         /\ \A n \in Nodes : list[n] # NULL => list'[n] = list[n]
         /\ Data' = Data /\ Data \in Arrays
         /\ \A c \in Cells : Scanned(c) => Scanned(c)'
<1> USE DEF IInv
<1>1. /\ index' = index /\ phase' = phase /\ gate' = gate
      /\ regime' = regime /\ parked' = parked
      /\ work' = work /\ todo' = todo /\ at' = at /\ current' = current
      /\ marked' = marked /\ kept' = kept /\ fetched' = fetched
  BY DEF VectorStep, handshakeVars, collectorVars
<1>2. /\ index \in {0, 1} /\ Data \in Arrays
      /\ scan_size \in [Arrays -> 0 .. MaxSize] /\ scan_size' \in [Arrays -> 0 .. MaxSize]
  BY DEF TypeOK, VectorStep
<1>3. \A n \in Nodes : list'[n] = IF n \in F THEN index ELSE list[n]
  BY DEF VectorStep
<1>4. \A n \in Nodes : list[n] # NULL => list'[n] = list[n]
  BY <1>3 DEF VectorStep
<1>5. Data' = Data
  <2>1. Slot("data") \in Cells /\ Slot("data")[1] = "data" /\ "data" \notin Arrays
    BY Addresses DEF Roots
  <2>2. Slot("data") \notin W
    BY <1>2, <2>1 DEF VectorStep
  <2> QED
    BY <2>1, <2>2 DEF VectorStep, Data
<1>6. \A a \in Arrays : scan_size[a] \leq scan_size'[a]
  BY <1>2 DEF VectorStep
<1>7. \A c \in Cells : Scanned(c) => Scanned(c)'
  <2> SUFFICES ASSUME NEW c \in Cells, Scanned(c), c[1] \notin Roots
               PROVE  c[2] < scan_size'[c[1]]
    BY DEF Scanned
  <2>1. c[1] \in Arrays /\ c[2] \in Nat /\ c[2] < scan_size[c[1]]
    BY Addresses DEF Scanned
  <2> QED
    BY <1>2, <1>6, <2>1, VectorAssumption
<1> QED
  BY <1>1, <1>2, <1>3, <1>4, <1>5, <1>7

LEMMA StepTypes ==
  ASSUME IInv, NEW W \in SUBSET Cells, NEW F \in SUBSET Elements, VectorStep(W, F)
  PROVE  TypeOK' /\ CellsFit' /\ SizesFit' /\ FreeIsBlank' /\ Differ' \subseteq Cells
<1> USE DEF IInv
<1>f. /\ phase' = phase /\ gate' = gate /\ index' = index
      /\ regime' = regime /\ parked' = parked
      /\ work' = work /\ todo' = todo /\ at' = at /\ current' = current
      /\ marked' = marked /\ kept' = kept /\ fetched' = fetched
      /\ \A n \in Nodes : list'[n] = IF n \in F THEN index ELSE list[n]
      /\ Data' = Data /\ Data \in Arrays
      /\ \A c \in Cells : Scanned(c) => Scanned(c)'
  BY StepFrame
<1>w. \A c \in W : c \in Cells /\ c[1] \in {Data, "arg"} /\ c[1] \notin Single
  <2>1. Data \notin Letters \cup {"data"} /\ "arg" \notin Letters
    BY <1>f, Addresses DEF Roots
  <2> QED
    BY <2>1 DEF VectorStep, Single
<1>1. TypeOK'
  <2>1. list' \in [Nodes -> {0, 1, NULL}]
    BY DEF TypeOK, VectorStep
  <2>2. reserved' = reserved /\ was_owned' \subseteq Letters
    BY DEF TypeOK, VectorStep
  <2>3. op'.do \in {"idle", "copy", "then", "shift"}
    BY DEF VectorStep, OpFits, Op
  <2> QED
    BY <1>f, <2>1, <2>2, <2>3 DEF TypeOK, VectorStep
<1>2. CellsFit'
  <2>1. ASSUME NEW c \in Cells, c[1] \notin Single
        PROVE  live'[c] \in Elements \cup {NULL} /\ snap'[c] \in Elements \cup {NULL}
    BY <2>1 DEF CellsFit, VectorStep
  <2>2. ASSUME NEW r \in Single
        PROVE  live'[Slot(r)] = snap'[Slot(r)] /\ live'[Slot(r)] \in Arrays \cup {NULL}
    <3>1. Slot(r) \in Cells /\ Slot(r)[1] = r
      BY Addresses DEF Single, Roots
    <3>2. Slot(r) \notin W
      BY <1>w, <3>1
    <3> QED
      BY <3>1, <3>2 DEF CellsFit, VectorStep
  <2> QED
    BY <2>1, <2>2 DEF CellsFit
<1>3. SizesFit'
  <2>1. \A a \in Arrays : size'[a] \leq scan_size'[a]
    BY DEF SizesFit, VectorStep
  <2>2. at' # NULL => Scanned(at)'
    BY <1>f DEF SizesFit, TypeOK
  <2>3. \A c \in Cells : live'[c] # snap'[c] => Scanned(c)'
    BY <1>f DEF SizesFit, VectorStep
  <2> QED
    BY <2>1, <2>2, <2>3 DEF SizesFit
<1>4. FreeIsBlank'
  <2> SUFFICES ASSUME NEW a \in Arrays, list'[a] = NULL
               PROVE  /\ size'[a] = 0 /\ scan_size'[a] = 0
                      /\ \A i \in Index : live'[<<a, i>>] = NULL /\ snap'[<<a, i>>] = NULL
    BY DEF FreeIsBlank
  <2>1. list[a] = NULL
    BY <1>f, Addresses DEF Nodes
  <2>2. a # Data
    <3>1. Slot("data") \in Cells /\ Slot("data")[1] = "data"
      BY Addresses DEF Roots
    <3>2. list[Data] # NULL
      BY <1>f, <3>1, Addresses DEF LiveFits, Reachable, Data, Nodes
    <3> QED
      BY <2>1, <3>2
  <2>3. \A i \in Index : <<a, i>> \in Cells /\ <<a, i>> \notin W
    <3>1. a # "arg"
      BY Addresses DEF Roots
    <3> QED
      BY <1>w, <2>2, <3>1, Addresses
  <2> QED
    BY <2>1, <2>2, <2>3 DEF FreeIsBlank, VectorStep
<1> QED
  BY <1>1, <1>2, <1>3, <1>4 DEF Differ

LEMMA StepHeap ==
  ASSUME IInv, NEW W \in SUBSET Cells, NEW F \in SUBSET Elements, VectorStep(W, F)
  PROVE  InStep' /\ WorkFits' /\ ListsFit' /\ HalvesFit' /\ WalkFits'
<1> USE DEF IInv
<1>f. /\ phase' = phase /\ gate' = gate /\ index' = index /\ index \in {0, 1}
      /\ regime' = regime /\ parked' = parked
      /\ work' = work /\ todo' = todo /\ at' = at /\ current' = current
      /\ marked' = marked /\ kept' = kept /\ fetched' = fetched
      /\ \A n \in Nodes : list'[n] = IF n \in F THEN index ELSE list[n]
      /\ Data' = Data /\ Data \in Arrays
  BY StepFrame
<1>1. InStep'
  BY <1>f DEF InStep
<1>2. WorkFits'
  BY <1>f DEF WorkFits, Marking
<1>e. gate # "turned" /\ gate \in Gate
  BY ActiveEra DEF VectorStep
<1>3. ListsFit'
  <2>1. index # 1 - index
    BY <1>f
  <2> QED
    BY <1>e, <1>f, <2>1 DEF ListsFit
<1>4. HalvesFit'
  <2>1. \A c \in Cells : live'[c] # snap'[c] => live[c] # snap[c] \/ (Era = COLLECTING)
    BY DEF VectorStep
  <2>2. Era = COLLECTING => \/ phase = COLLECTING /\ gate = "open"
                            \/ phase = RESTORING_SNAPSHOT /\ gate = "closed"
    <3>1. phase \in Phase
      BY DEF TypeOK
    <3> QED
      BY <1>e, <3>1 DEF Era, Gate, Phase, Pred, Succ, COLLECTING, NOT_COLLECTING, RESTORING_SNAPSHOT
  <2>3. Era # COLLECTING => Differ' \subseteq Differ
    BY <2>1 DEF Differ
  <2>4. \A c : Yet(c)' <=> Yet(c)
    BY <1>f DEF Yet
  <2>5. CASE Era = COLLECTING
    <3>1. ~Marking \/ phase = COLLECTING
      BY DEF WorkFits
    <3>2. work = "finalize" => phase = NOT_COLLECTING
      BY DEF WorkFits
    <3> QED
      BY <1>f, <2>2, <2>5, <3>2 DEF HalvesFit, COLLECTING, NOT_COLLECTING, RESTORING_SNAPSHOT
  <2>6. CASE Era # COLLECTING
    BY <1>f, <2>3, <2>4, <2>6 DEF HalvesFit
  <2> QED
    BY <2>5, <2>6
<1>5. WalkFits'
  <2>1. op'.do = "copy" => op.do = "copy" /\ op'.from = op.from
    BY DEF VectorStep
  <2> QED
    BY <1>f, <2>1 DEF WalkFits
<1> QED
  BY <1>1, <1>2, <1>3, <1>4, <1>5

LEMMA StepReach ==
  ASSUME IInv, NEW W \in SUBSET Cells, NEW F \in SUBSET Elements, VectorStep(W, F)
  PROVE  /\ Reachable' \subseteq Reachable
         /\ \A c \in Reachable' : \/ live'[c] = NULL \/ live'[c] \in F
                                  \/ \E d \in Reachable : live'[c] = live[d]
<1>1. Data' = Data
  BY StepFrame
<1>2. Source' \in {Data, Source}
  BY <1>1 DEF VectorStep, Source
<1>h. held' = held \/ held' = NULL
  BY DEF VectorStep
<1>3. Reachable' \subseteq Reachable
  <2> SUFFICES ASSUME NEW c \in Reachable'
               PROVE  c \in Reachable
    OBVIOUS
  <2>1. c \in Cells /\ c[1] \in {Data, Source, "data", "arg", held, NULL}
    BY <1>1, <1>2, <1>h DEF Reachable
  <2>2. c[1] # NULL
    BY <2>1, Addresses DEF Nodes
  <2> QED
    BY <2>1, <2>2 DEF Reachable
<1>4. \A c \in Cells : c \in W => live'[c] = NULL \/ live'[c] \in F \/ \E d \in Reachable : live'[c] = live[d]
  BY DEF VectorStep, Handy
<1>5. \A c \in Cells : c \notin W => live'[c] = live[c]
  BY DEF VectorStep
<1> QED
  BY <1>3, <1>4, <1>5 DEF Reachable

(* A step of the user takes nothing away from what will be marked.         *)
LEMMA StepCovers ==
  ASSUME IInv, NEW W \in SUBSET Cells, NEW F \in SUBSET Elements, VectorStep(W, F), Marking
  PROVE  Covered \subseteq Covered'
<1>f. /\ todo' = todo /\ at' = at /\ marked' = marked
      /\ \A c \in Cells : Scanned(c) => Scanned(c)'
  BY StepFrame
<1>1. was_owned' = was_owned /\ \A c \in Cells : Scanned(c) => snap'[c] = snap[c]
  BY DEF VectorStep
<1>2. \A r \in RootsLeft : snap'[Slot(r)] = snap[Slot(r)]
  <2>1. todo \subseteq Roots
    BY DEF IInv, MarkerFits
  <2>2. \A r \in Roots : Slot(r) \in Cells /\ Scanned(Slot(r))
    BY Addresses DEF Scanned
  <2> QED
    BY <1>1, <2>1, <2>2 DEF RootsLeft
<1>3. ToEnter' = ToEnter
  <2>1. RootsLeft' = RootsLeft
    BY <1>f, <1>1 DEF RootsLeft
  <2> QED
    BY <1>f, <1>2, <2>1 DEF ToEnter
<1>4. \A c \in Front : c \in Front' /\ snap'[c] = snap[c]
  BY <1>f, <1>1, <1>3 DEF Front, Yet
<1> QED
  BY <1>f, <1>3, <1>4 DEF Covered

LEMMA VectorStepKeeps ==
  ASSUME IInv, NEW W \in SUBSET Cells, NEW F \in SUBSET Elements, VectorStep(W, F)
  PROVE  IInv'
<1> USE DEF IInv
<1>f. /\ index' = index /\ index \in {0, 1} /\ work' = work
      /\ todo' = todo /\ at' = at /\ current' = current
      /\ \A n \in Nodes : list'[n] = IF n \in F THEN index ELSE list[n]
      /\ \A n \in Nodes : list[n] # NULL => list'[n] = list[n]
  BY StepFrame
<1>t. TypeOK' /\ CellsFit' /\ SizesFit' /\ FreeIsBlank'
  BY StepTypes
<1>v. F \subseteq Nodes /\ \A c \in Cells : live[c] \in Nodes \cup {NULL}
  BY DEF TypeOK, Nodes
<1>r. Reachable \subseteq Cells
  BY DEF Reachable
<1>1. LiveFits'
  <2> SUFFICES ASSUME NEW c \in Reachable', live'[c] # NULL
               PROVE  list'[live'[c]] # NULL
    BY DEF LiveFits
  <2>1. CASE live'[c] \in F
    BY <1>f, <1>v, <2>1, Addresses
  <2>2. ASSUME NEW d \in Reachable, live'[c] = live[d]
        PROVE  list'[live'[c]] # NULL
    <3>1. list[live[d]] # NULL /\ live[d] \in Nodes
      BY <1>r, <1>v, <2>2 DEF LiveFits
    <3> QED
      BY <1>f, <2>2, <3>1
  <2> QED
    BY <2>1, <2>2, StepReach
<1>2. ASSUME Marking
      PROVE  MarkerFits' /\ \A c \in Reachable' : Safe(live[c])'
  <2>1. MarkerFits'
    BY <1>f, <1>2 DEF MarkerFits
  <2>2. Covered \subseteq Covered'
    BY <1>2, StepCovers
  <2> SUFFICES ASSUME NEW c \in Reachable'
               PROVE  Safe(live[c])'
    BY <2>1
  <2>3. CASE live'[c] = NULL
    BY <2>3 DEF Safe
  <2>4. CASE live'[c] \in F
    BY <1>f, <1>v, <2>4 DEF Safe
  <2>5. ASSUME NEW d \in Reachable, live'[c] = live[d]
        PROVE  Safe(live[c])'
    <3>1. Safe(live[d]) /\ live[d] \in Nodes \cup {NULL}
      BY <1>2, <1>r, <1>v
    <3>2. list[live[d]] = index /\ live[d] \in Nodes => list'[live[d]] = index'
      BY <1>f, Addresses
    <3> QED
      BY <2>2, <2>5, <3>1, <3>2 DEF Safe
  <2> QED
    BY <2>3, <2>4, <2>5, StepReach
<1>3. Marking' => Marking
  BY <1>f DEF Marking
<1>4. OpFits'
  BY DEF VectorStep
<1> QED
  BY <1>t, <1>1, <1>2, <1>3, <1>4, StepHeap

-----------------------------------------------------------------------------
(* What these steps do, one kind of assignment after the other.            *)

LEMMA UserFacts ==
  ASSUME IInv
  PROVE  /\ Data \in Arrays /\ Data \notin Single /\ "arg" \notin Single /\ Data # "arg"
         /\ Length \in 0 .. MaxSize /\ MaxSize \in Nat
         /\ Slot("arg") \in Reachable /\ Slot("arg")[1] = "arg" /\ Scanned(Slot("arg"))
         /\ ArgValue \in Elements \cup {NULL}
         /\ \A i \in Index : /\ Cell(i) = <<Data, i>> /\ Cell(i) \in Reachable
                             /\ Cell(i)[1] = Data /\ Cell(i) # Slot("arg")
                             /\ Scanned(Cell(i)) <=> i < scan_size[Data]
                             /\ live[Cell(i)] \in Elements \cup {NULL}
         /\ Reachable \subseteq Cells
         /\ \A c \in Cells : live[c] \in Arrays \cup Elements \cup {NULL}
                             /\ snap[c] \in Arrays \cup Elements \cup {NULL}
<1> USE DEF IInv
<1>1. Data \in Arrays
  BY DEF TypeOK
<1>2. Data \notin Single /\ "arg" \notin Single /\ Data # "arg" /\ Data \notin Roots
  BY <1>1, Addresses DEF Single, Roots
<1>3. Length \in 0 .. MaxSize /\ MaxSize \in Nat
  BY <1>1, VectorAssumption DEF TypeOK, Length
<1>4. Slot("arg") \in Reachable /\ Slot("arg")[1] = "arg" /\ Scanned(Slot("arg"))
  BY Addresses DEF Reachable, Roots, Scanned
<1>5. Reachable \subseteq Cells
  BY DEF Reachable
<1>6. ArgValue \in Elements \cup {NULL}
  BY <1>2, <1>4, <1>5 DEF CellsFit, ArgValue
<1>7. ASSUME NEW i \in Index
      PROVE  /\ Cell(i) = <<Data, i>> /\ Cell(i) \in Reachable
             /\ Cell(i)[1] = Data /\ Cell(i) # Slot("arg")
             /\ Scanned(Cell(i)) <=> i < scan_size[Data]
             /\ live[Cell(i)] \in Elements \cup {NULL}
  <2>1. Cell(i) = <<Data, i>> /\ Cell(i) \in Cells /\ Cell(i)[1] = Data
    BY <1>1, Addresses DEF Cell
  <2> QED
    BY <1>2, <1>4, <2>1 DEF Reachable, Scanned, CellsFit
<1> QED
  BY <1>1, <1>2, <1>3, <1>4, <1>5, <1>6, <1>7 DEF TypeOK

LEMMA MarkingEra ==
  ASSUME IInv, Marking
  PROVE  Era = COLLECTING /\ phase = COLLECTING /\ gate = "open"
BY DEF IInv, WorkFits, Marking, Era

(* A store to one pointer.                                                 *)
LEMMA Barrier ==
  ASSUME IInv, Active(Mutator), NEW c \in Cells, NEW v \in Elements \cup {NULL},
         WriteBarrier(c, v)
  PROVE  /\ live' \in [Cells -> Arrays \cup Elements \cup {NULL}]
         /\ snap' \in [Cells -> Arrays \cup Elements \cup {NULL}]
         /\ \A d \in Cells \ {c} : live'[d] = live[d] /\ snap'[d] = snap[d]
         /\ live'[c] = v
         /\ snap'[c] = v \/ (snap'[c] = snap[c] /\ Era = COLLECTING)
         /\ Marking => snap'[c] = snap[c]
<1>1. live \in [Cells -> Arrays \cup Elements \cup {NULL}]
      /\ snap \in [Cells -> Arrays \cup Elements \cup {NULL}]
  BY DEF IInv, TypeOK
<1>2. regime[Mutator] = Era /\ (Marking => Era = COLLECTING)
  BY ActiveEra, MarkingEra
<1> QED
  BY <1>1, <1>2 DEF WriteBarrier, Stored

LEMMA Pair ==
  ASSUME IInv, NEW d \in Cells, NEW s \in Cells, CopyPair(d, s)
  PROVE  /\ live' \in [Cells -> Arrays \cup Elements \cup {NULL}]
         /\ snap' \in [Cells -> Arrays \cup Elements \cup {NULL}]
         /\ \A c \in Cells \ {d} : live'[c] = live[c] /\ snap'[c] = snap[c]
         /\ live'[d] = live[s] /\ snap'[d] = snap[s]
BY DEF IInv, TypeOK, CopyPair, Stored

LEMMA Sizes ==
  ASSUME IInv, NEW n \in 0 .. MaxSize, SetSize(Data, n)
  PROVE  /\ size' \in [Arrays -> 0 .. MaxSize] /\ scan_size' \in [Arrays -> 0 .. MaxSize]
         /\ reserved' = reserved /\ size'[Data] = n /\ n \leq scan_size'[Data]
         /\ scan_size[Data] \leq scan_size'[Data]
         /\ \A a \in Arrays \ {Data} : size'[a] = size[a] /\ scan_size'[a] = scan_size[a]
<1>1. /\ size \in [Arrays -> 0 .. MaxSize] /\ scan_size \in [Arrays -> 0 .. MaxSize]
      /\ Data \in Arrays /\ MaxSize \in Nat
  BY VectorAssumption DEF IInv, TypeOK
<1>2. scan_size' = [scan_size EXCEPT ![Data] = IF n > scan_size[Data] THEN n ELSE scan_size[Data]]
      /\ size' = [size EXCEPT ![Data] = n] /\ reserved' = reserved
  BY <1>1 DEF SetSize, ScanAtLeast
<1> QED
  BY <1>1, <1>2

(* The sizes as they are.                                                  *)
LEMMA SameSizes ==
  ASSUME IInv, UNCHANGED arrayVars
  PROVE  /\ size' \in [Arrays -> 0 .. MaxSize] /\ scan_size' \in [Arrays -> 0 .. MaxSize]
         /\ size' = size /\ scan_size' = scan_size /\ reserved' = reserved
         /\ size'[Data] \leq scan_size'[Data] /\ scan_size[Data] \leq scan_size'[Data]
<1>1. size' = size /\ scan_size' = scan_size /\ reserved' = reserved
  BY DEF arrayVars
<1>2. /\ size \in [Arrays -> 0 .. MaxSize] /\ scan_size \in [Arrays -> 0 .. MaxSize]
      /\ Data \in Arrays /\ MaxSize \in Nat /\ size[Data] \leq scan_size[Data]
  BY VectorAssumption DEF IInv, TypeOK, SizesFit
<1> QED
  BY <1>1, <1>2

LEMMA OpCases ==
  ASSUME IInv
  PROVE  /\ op.do = "copy" => /\ op.job \in Job /\ op.i \in 0 .. MaxSize
                              /\ op.n \in 0 .. MaxSize /\ op.from \in Arrays
                              /\ op = [do |-> "copy", job |-> op.job, i |-> op.i,
                                       n |-> op.n, from |-> op.from]
         /\ op.do = "then" => op.job \in Job /\ op.n \in 0 .. MaxSize
         /\ op.do = "shift" => /\ op.job \in Job /\ op.i \in 0 .. MaxSize
                               /\ op.n \in 0 .. MaxSize
                               /\ op = [do |-> "shift", job |-> op.job, i |-> op.i, n |-> op.n]
BY DEF IInv, OpFits, Op

(* A member function that is through.                                      *)
LEMMA IdleFits ==
  ASSUME op' = Idle, held' = NULL,
         \A i \in Index : i \geq size'[Data'] => live'[<<Data', i>>] = NULL
  PROVE  OpFits'
BY DEF OpFits, Op, Idle, Unbroken, Length

LEMMA IdleNow ==
  ASSUME IInv, Running("idle") \/ Running("then")
  PROVE  /\ Active(Mutator) /\ held = NULL /\ op.do \in {"idle", "then"} /\ Source = Data
         /\ \A i \in Index : i \geq Length => live[Cell(i)] = NULL
BY DEF IInv, OpFits, Running, Cell, Source

-----------------------------------------------------------------------------
(* The user's steps one by one.                                            *)

LEMMA SetArgKeeps ==
  ASSUME IInv, SetArg
  PROVE  IInv'
<1>1. /\ Running("idle") /\ UNCHANGED <<handshakeVars, collectorVars>> /\ UNCHANGED arrayVars
      /\ held' = held /\ was_owned' = was_owned /\ op' = op
  BY DEF SetArg
<1>2. PICK v \in Elements \cup {NULL}, F \in SUBSET Elements :
        /\ WriteBarrier(Slot("arg"), v) /\ Handy(v, F)
        /\ \A n \in F : list[n] = NULL
        /\ list' = [n \in Nodes |-> IF n \in F THEN index ELSE list[n]]
  <2>1. list \in [Nodes -> {0, 1, NULL}] /\ Elements \subseteq Nodes
    BY DEF IInv, TypeOK, Nodes
  <2>2. CASE \E e \in Free(Elements) :
               WriteBarrier(Slot("arg"), e) /\ list' = [list EXCEPT ![e] = index]
    <3>1. PICK e \in Free(Elements) :
               WriteBarrier(Slot("arg"), e) /\ list' = [list EXCEPT ![e] = index]
      BY <2>2
    <3>2. e \in Elements /\ list[e] = NULL
      BY DEF Free
    <3>3. list' = [n \in Nodes |-> IF n \in {e} THEN index ELSE list[n]]
      BY <2>1, <3>1, <3>2
    <3>4. Handy(e, {e}) /\ \A n \in {e} : list[n] = NULL
      BY <3>2 DEF Handy
    <3> e \in Elements \cup {NULL} /\ {e} \in SUBSET Elements
      BY <3>2
    <3> WITNESS e \in Elements \cup {NULL}, {e} \in SUBSET Elements
    <3> QED
      BY <3>1, <3>3, <3>4
  <2>3. CASE \E v \in {NULL} \cup {live[Cell(i)] : i \in 0 .. Length - 1} :
               WriteBarrier(Slot("arg"), v) /\ UNCHANGED list
    <3>1. PICK v \in {NULL} \cup {live[Cell(i)] : i \in 0 .. Length - 1} :
               WriteBarrier(Slot("arg"), v) /\ UNCHANGED list
      BY <2>3
    <3>2. \A i \in 0 .. Length - 1 : i \in Index
      BY UserFacts DEF Index
    <3>3. v \in Elements \cup {NULL} /\ Handy(v, {})
      BY <3>1, <3>2, UserFacts DEF Handy
    <3>4. list' = [n \in Nodes |-> IF n \in {} THEN index ELSE list[n]]
      BY <2>1, <3>1
    <3>5. {} \in SUBSET Elements /\ \A n \in {} : list[n] = NULL
      OBVIOUS
    <3> QED
      BY <3>1, <3>3, <3>4, <3>5
  <2> QED
    BY <2>2, <2>3 DEF SetArg
<1> DEFINE W == {Slot("arg")}
<1>3. W \in SUBSET Cells /\ \A c \in W : c = Slot("arg")
  BY UserFacts
<1>4. Scanned(Slot("arg"))' /\ Slot("arg")[1] = "arg"
  BY UserFacts, Addresses DEF Scanned, Roots
<1>5. OpFits'
  <2>1. \A i \in Index : live'[Cell(i)] = live[Cell(i)] /\ Cell(i) = <<Data, i>>
    BY <1>1, <1>2, <1>3, Barrier, UserFacts DEF Running
  <2>2. Data' = Data
    <3>1. Slot("data") \in Cells /\ Slot("data") # Slot("arg")
      BY Addresses DEF Roots, Slot
    <3> QED
      BY <1>1, <1>2, <1>3, <3>1, Barrier DEF Running, Data
  <2>3. size' = size /\ op.do = "idle"
    BY <1>1 DEF arrayVars, Running
  <2> QED
    BY <1>1, <2>1, <2>2, <2>3 DEF IInv, OpFits, Unbroken, Length, Op
<1>6. VectorStep(W, F)
  <2>1. held' \in Letters \cup {NULL} /\ op'.do # "copy" /\ Active(Mutator)
    BY <1>1 DEF IInv, TypeOK, Running
  <2> QED
    BY <1>1, <1>2, <1>3, <1>4, <1>5, <2>1, Barrier, SameSizes, UserFacts DEF VectorStep
<1> QED
  BY <1>3, <1>6, VectorStepKeeps

(* A step that writes to one of the vector's cells, or to none, and leaves *)
(* the lists as they are.                                                  *)
LEMMA NoNewElements ==
  ASSUME IInv, UNCHANGED list
  PROVE  list' = [n \in Nodes |-> IF n \in {} THEN index ELSE list[n]]
BY DEF IInv, TypeOK

LEMMA SetElementKeeps ==
  ASSUME IInv, NEW k \in Index, SetElement(k)
  PROVE  IInv'
<1>1. /\ Running("idle") /\ UNCHANGED <<handshakeVars, collectorVars>> /\ UNCHANGED arrayVars
      /\ held' = held /\ was_owned' = was_owned /\ op' = op /\ UNCHANGED list
      /\ k < Length /\ WriteBarrier(Cell(k), ArgValue)
  BY DEF SetElement
<1>2. /\ Active(Mutator) /\ Cell(k) \in Cells /\ Cell(k)[1] = Data
      /\ ArgValue \in Elements \cup {NULL} /\ Handy(ArgValue, {})
  BY <1>1, IdleNow, UserFacts DEF Handy, ArgValue
<1>c. PICK c \in Cells : c = Cell(k)
  BY <1>2
<1> DEFINE W == {c}
<1>3. W \in SUBSET Cells /\ \A d \in W : d = c
  BY <1>c
<1>4. Data' = Data
  <2>1. Slot("data") \in Cells /\ Slot("data") # Cell(k)
    BY <1>2, UserFacts, Addresses DEF Roots, Single
  <2> QED
    BY <1>1, <1>2, <2>1, Barrier DEF Data
<1>5. Scanned(c)'
  <2>1. k < scan_size[Data] /\ scan_size' = scan_size
    <3>1. size[Data] \leq scan_size[Data] /\ scan_size[Data] \in Nat /\ k \in Nat
      BY UserFacts, VectorAssumption DEF IInv, SizesFit, TypeOK, Index
    <3> QED
      BY <1>1, <3>1, UserFacts DEF Length, arrayVars
  <2> QED
    BY <1>4, <1>c, <2>1, UserFacts DEF Scanned
<1>6. OpFits'
  <2>1. \A i \in Index : i \geq Length => live'[Cell(i)] = NULL /\ Cell(i) = <<Data, i>>
    <3>1. \A i \in Index : i \geq Length => i # k /\ Cell(i) # Cell(k)
      BY <1>1, UserFacts, Addresses
    <3> QED
      BY <1>1, <1>2, <3>1, Barrier, IdleNow, UserFacts
  <2>2. size' = size /\ op.do = "idle"
    BY <1>1 DEF arrayVars, Running
  <2> QED
    BY <1>1, <1>4, <2>1, <2>2 DEF IInv, OpFits, Unbroken, Length, Op
<1>7. VectorStep(W, {})
  <2>1. held' \in Letters \cup {NULL} /\ op'.do # "copy"
    BY <1>1 DEF IInv, TypeOK, Running
  <2> QED
    BY <1>1, <1>2, <1>c, <1>3, <1>5, <1>6, <2>1, Barrier, SameSizes, NoNewElements DEF VectorStep
<1> QED
  BY <1>3, <1>7, VectorStepKeeps

LEMMA PushBackKeeps ==
  ASSUME IInv, PushBack
  PROVE  IInv'
<1> DEFINE k == Length
<1>1. /\ Running("idle") \/ Running("then")
      /\ UNCHANGED <<handshakeVars, collectorVars>>
      /\ held' = held /\ was_owned' = was_owned /\ op' = Idle /\ UNCHANGED list
      /\ k < MaxSize /\ WriteBarrier(Cell(k), ArgValue) /\ SetSize(Data, k + 1)
  BY DEF PushBack
<1>0. k \in Index /\ k + 1 \in 0 .. MaxSize /\ k \in Nat /\ k = Length
  BY <1>1, UserFacts DEF Index
<1> HIDE DEF k
<1>2. /\ Active(Mutator) /\ Cell(k) \in Cells /\ Cell(k)[1] = Data
      /\ ArgValue \in Elements \cup {NULL} /\ Handy(ArgValue, {}) /\ held = NULL
  BY <1>0, <1>1, IdleNow, UserFacts DEF Handy, ArgValue
<1>c. PICK c \in Cells : c = Cell(k)
  BY <1>2
<1> DEFINE W == {c}
<1>3. W \in SUBSET Cells /\ \A d \in W : d = c
  BY <1>c
<1>4. Data' = Data
  <2>1. Slot("data") \in Cells /\ Slot("data") # Cell(k)
    BY <1>2, UserFacts, Addresses DEF Roots, Single
  <2> QED
    BY <1>1, <1>2, <2>1, Barrier DEF Data
<1>s. /\ size' \in [Arrays -> 0 .. MaxSize] /\ scan_size' \in [Arrays -> 0 .. MaxSize]
      /\ reserved' = reserved /\ size'[Data] = k + 1 /\ k + 1 \leq scan_size'[Data]
      /\ scan_size[Data] \leq scan_size'[Data]
      /\ \A a \in Arrays \ {Data} : size'[a] = size[a] /\ scan_size'[a] = scan_size[a]
  BY <1>0, <1>1, Sizes
<1>5. Scanned(c)'
  <2>1. k < scan_size'[Data]
    BY <1>0, <1>s, UserFacts
  <2> QED
    BY <1>0, <1>4, <1>c, <2>1, UserFacts DEF Scanned
<1>6. OpFits'
  <2>1. ASSUME NEW i \in Index, i \geq size'[Data]
        PROVE  live'[<<Data, i>>] = NULL
    <3>1. i # k /\ Cell(i) # Cell(k) /\ i \geq Length
      BY <1>0, <1>s, <2>1, UserFacts, Addresses
    <3> QED
      BY <1>1, <1>2, <3>1, Barrier, IdleNow, UserFacts
  <2> QED
    BY <1>1, <1>2, <1>4, <2>1, IdleFits
<1>7. VectorStep(W, {})
  <2>1. held' \in Letters \cup {NULL} /\ op'.do # "copy"
    BY <1>1 DEF IInv, TypeOK, Idle
  <2> QED
    BY <1>1, <1>2, <1>c, <1>3, <1>5, <1>6, <1>s, <2>1, Barrier, NoNewElements DEF VectorStep
<1> QED
  BY <1>3, <1>7, VectorStepKeeps

LEMMA ResizeInPlaceKeeps ==
  ASSUME Orderly, IInv, NEW n \in 0 .. MaxSize, ResizeInPlace(n)
  PROVE  IInv'
<1>1. /\ Running("idle") \/ Running("then")
      /\ UNCHANGED <<handshakeVars, collectorVars>>
      /\ held' = held /\ was_owned' = was_owned /\ op' = Idle /\ UNCHANGED list
      /\ live' = live /\ snap' = snap /\ ~(n < Length) /\ SetSize(Data, n)
  BY DEF ResizeInPlace, Orderly
<1>2. Active(Mutator) /\ held = NULL /\ Data' = Data
  BY <1>1, IdleNow DEF Data
<1>s. /\ size' \in [Arrays -> 0 .. MaxSize] /\ scan_size' \in [Arrays -> 0 .. MaxSize]
      /\ reserved' = reserved /\ size'[Data] = n /\ n \leq scan_size'[Data]
      /\ scan_size[Data] \leq scan_size'[Data]
      /\ \A a \in Arrays \ {Data} : size'[a] = size[a] /\ scan_size'[a] = scan_size[a]
  BY <1>1, Sizes
<1>3. OpFits'
  <2>1. ASSUME NEW i \in Index, i \geq size'[Data]
        PROVE  live'[<<Data, i>>] = NULL
    <3>1. i \geq Length
      BY <1>1, <1>s, <2>1, UserFacts, Addresses
    <3> QED
      BY <1>1, <3>1, IdleNow, UserFacts
  <2> QED
    BY <1>1, <1>2, <2>1, IdleFits
<1>4. VectorStep({}, {})
  <2>1. held' \in Letters \cup {NULL} /\ op'.do # "copy"
    BY <1>1 DEF IInv, TypeOK, Idle
  <2>2. live \in [Cells -> Arrays \cup Elements \cup {NULL}]
        /\ snap \in [Cells -> Arrays \cup Elements \cup {NULL}]
    BY DEF IInv, TypeOK
  <2> QED
    BY <1>1, <1>2, <1>3, <1>s, <2>1, <2>2, NoNewElements DEF VectorStep
<1> QED
  BY <1>4, VectorStepKeeps

(* Two functions that write null to cells of the vector one after another: *)
(* to those of S, while n elements and the cells of A remain.              *)
Nulled(S, n, A, to, W) ==
  /\ Running("idle") /\ UNCHANGED <<handshakeVars, collectorVars>>
  /\ UNCHANGED <<list, scan_size, reserved, held, was_owned, op>>
  /\ S \subseteq 0 .. Length - 1 /\ n \in 0 .. Length /\ A \subseteq {Slot("arg")}
  /\ \A i \in n .. Length - 1 : i \in S
  /\ size' = [size EXCEPT ![Data] = n]
  /\ \A c \in A : to[c] \in Elements \cup {NULL} /\ Handy(to[c], {})
  /\ \A i \in S : to[Cell(i)] = NULL
  /\ W = A \cup {Cell(i) : i \in S}
  /\ live' = [c \in Cells |-> IF c \in W THEN to[c] ELSE live[c]]
  /\ snap' = IF regime[Mutator] = COLLECTING THEN snap
             ELSE [c \in Cells |-> IF c \in W THEN to[c] ELSE snap[c]]

LEMMA NulledKeeps ==
  ASSUME IInv, NEW S, NEW n, NEW A, NEW to, NEW W, Nulled(S, n, A, to, W)
  PROVE  IInv'
<1> USE DEF Nulled
<1>1. /\ Active(Mutator) /\ held = NULL /\ held' = held /\ op' = op /\ op.do = "idle"
      /\ scan_size' = scan_size /\ reserved' = reserved /\ was_owned' = was_owned
  BY IdleNow DEF Running
<1>2. \A i \in S : i \in Index /\ i < Length
  BY UserFacts DEF Index
<1>3. W \in SUBSET Cells
  BY <1>2, UserFacts
<1>4. \A c \in W : /\ c[1] \in {Data, "arg"} /\ to[c] \in Elements \cup {NULL}
                   /\ Handy(to[c], {}) /\ live'[c] = to[c]
  <2>1. \A c \in A : c = Slot("arg") /\ c[1] = "arg"
    BY UserFacts
  <2>2. \A i \in S : Cell(i)[1] = Data /\ Handy(to[Cell(i)], {})
    BY <1>2, UserFacts DEF Handy
  <2> QED
    BY <1>3, <2>1, <2>2
<1>5. \A c \in W : \/ snap'[c] = live'[c]
                   \/ snap'[c] = snap[c] /\ Era = COLLECTING
  BY <1>1, <1>3, ActiveEra
<1>6. Marking => snap' = snap
  BY <1>1, ActiveEra, MarkingEra
<1>7. /\ live' \in [Cells -> Arrays \cup Elements \cup {NULL}]
      /\ snap' \in [Cells -> Arrays \cup Elements \cup {NULL}]
      /\ \A c \in Cells \ W : live'[c] = live[c] /\ snap'[c] = snap[c]
  <2>1. \A c \in W : to[c] \in Arrays \cup Elements \cup {NULL}
    BY <1>4
  <2> QED
    BY <2>1, UserFacts DEF IInv, TypeOK
<1>8. Data' = Data
  <2>1. Slot("data") \in Cells /\ Slot("data")[1] = "data" /\ Data # "data"
    BY UserFacts, Addresses DEF Roots, Single
  <2>2. Slot("data") \notin W
    BY <1>4, <2>1
  <2> QED
    BY <1>7, <2>1, <2>2 DEF Data
<1>9. /\ size' \in [Arrays -> 0 .. MaxSize] /\ scan_size' \in [Arrays -> 0 .. MaxSize]
      /\ size'[Data] = n /\ size'[Data] \leq scan_size'[Data]
      /\ scan_size[Data] \leq scan_size'[Data] /\ Length \leq scan_size[Data]
      /\ \A a \in Arrays \ {Data} : size'[a] = size[a] /\ scan_size'[a] = scan_size[a]
  <2>1. /\ size \in [Arrays -> 0 .. MaxSize] /\ scan_size \in [Arrays -> 0 .. MaxSize]
        /\ Length = size[Data] /\ size[Data] \leq scan_size[Data]
    BY UserFacts DEF IInv, TypeOK, SizesFit, Length
  <2>2. n \in 0 .. MaxSize /\ n \leq size[Data] /\ Data \in Arrays
    BY <2>1, UserFacts
  <2> QED
    BY <1>1, <2>1, <2>2, UserFacts
<1>10. \A c \in W : Scanned(c)'
  <2>1. \A c \in A : Scanned(c)'
    BY Addresses DEF Scanned, Roots, Slot
  <2>2. ASSUME NEW c \in Cells, NEW i \in S, c = Cell(i)
        PROVE  Scanned(c)'
    <3>1. i < scan_size'[Data] /\ c = <<Data, i>>
      BY <1>1, <1>2, <1>9, <2>2, UserFacts
    <3> QED
      BY <3>1 DEF Scanned
  <2> QED
    BY <1>3, <2>1, <2>2
<1>11. OpFits'
  <2>1. ASSUME NEW i \in Index, i \geq n
        PROVE  live'[<<Data, i>>] = NULL
    <3>1. CASE i \in S
      BY <1>2, <1>3, <3>1, UserFacts
    <3>2. CASE i \notin S
      <4>1. i \geq Length
        BY <2>1, <3>2, UserFacts, Addresses
      <4>2. Cell(i) \notin W
        <5>1. \A j \in S : Cell(i) # Cell(j)
          BY <1>2, <3>2, UserFacts
        <5> QED
          BY <5>1, UserFacts
      <4> QED
        BY <1>7, <4>1, <4>2, IdleNow, UserFacts
    <3> QED
      BY <3>1, <3>2
  <2> QED
    BY <1>1, <1>8, <1>9, <2>1 DEF IInv, OpFits, Unbroken, Length, Op
<1>12. VectorStep(W, {})
  <2>1. held' \in Letters \cup {NULL} /\ op'.do # "copy"
    BY <1>1 DEF IInv, TypeOK
  <2> QED
    BY <1>1, <1>3, <1>4, <1>5, <1>6, <1>7, <1>9, <1>10, <1>11, <2>1, NoNewElements
    DEF VectorStep
<1> QED
  BY <1>3, <1>12, VectorStepKeeps

LEMMA PopBackKeeps ==
  ASSUME IInv, PopBack
  PROVE  IInv'
<1> DEFINE k == Length - 1
           S == {k}
           A == {Slot("arg")}
           to == [c \in {Slot("arg"), Cell(k)} |-> IF c = Cell(k) THEN NULL ELSE live[Cell(k)]]
           W == A \cup {Cell(i) : i \in S}
<1>1. /\ Running("idle") /\ UNCHANGED <<handshakeVars, collectorVars>>
      /\ UNCHANGED <<list, scan_size, reserved, held, was_owned, op>>
      /\ Length > 0 /\ size' = [size EXCEPT ![Data] = k]
  BY DEF PopBack
<1>2. DOMAIN to = W
  OBVIOUS
<1>3. /\ live' = [c \in Cells |-> IF c \in W THEN to[c] ELSE live[c]]
      /\ snap' = IF regime[Mutator] = COLLECTING THEN snap
                 ELSE [c \in Cells |-> IF c \in W THEN to[c] ELSE snap[c]]
  BY <1>2 DEF PopBack
<1>4. k \in Index /\ k \in 0 .. Length /\ k \in 0 .. Length - 1 /\ \A i \in k .. Length - 1 : i \in S
  BY <1>1, UserFacts DEF Index
<1>5. to[Slot("arg")] \in Elements \cup {NULL} /\ Handy(to[Slot("arg")], {})
  BY <1>4, UserFacts DEF Handy
<1>6. to[Cell(k)] = NULL
  OBVIOUS
<1>7. /\ \A c \in A : to[c] \in Elements \cup {NULL} /\ Handy(to[c], {})
      /\ \A i \in S : to[Cell(i)] = NULL
      /\ S \in SUBSET (0 .. Length - 1) /\ A \in SUBSET {Slot("arg")}
  BY <1>4, <1>5, <1>6
<1>8. W = A \cup {Cell(i) : i \in S}
  OBVIOUS
<1> HIDE DEF to, W, A, S, k
<1> QED
  <2>1. Nulled(S, k, A, to, W)
    BY <1>1, <1>3, <1>4, <1>7, <1>8 DEF Nulled
  <2> QED
    BY <2>1, NulledKeeps

LEMMA ClearKeeps ==
  ASSUME IInv, Clear
  PROVE  IInv'
<1> DEFINE S == 0 .. Length - 1
           to == [c \in Cells |-> NULL]
           W == {} \cup {Cell(i) : i \in S}
<1>1. /\ Running("idle") /\ UNCHANGED <<handshakeVars, collectorVars>>
      /\ UNCHANGED <<list, scan_size, reserved, held, was_owned, op>>
      /\ size' = [size EXCEPT ![Data] = 0]
  BY DEF Clear
<1>2. /\ live' = [c \in Cells |-> IF c \in W THEN to[c] ELSE live[c]]
      /\ snap' = IF regime[Mutator] = COLLECTING THEN snap
                 ELSE [c \in Cells |-> IF c \in W THEN to[c] ELSE snap[c]]
  BY DEF Clear
<1>3. 0 \in 0 .. Length /\ \A i \in S : i \in Index
  BY UserFacts DEF Index
<1>4. /\ \A i \in S : to[Cell(i)] = NULL
      /\ \A c \in {} : to[c] \in Elements \cup {NULL} /\ Handy(to[c], {})
      /\ S \in SUBSET (0 .. Length - 1) /\ \A i \in 0 .. Length - 1 : i \in S
  BY <1>3, UserFacts
<1>5. {} \in SUBSET {Slot("arg")} /\ W = {} \cup {Cell(i) : i \in S}
  OBVIOUS
<1> HIDE DEF to, W, S
<1> QED
  <2>1. Nulled(S, 0, {}, to, W)
    BY <1>1, <1>2, <1>3, <1>4, <1>5 DEF Nulled
  <2> QED
    BY <2>1, NulledKeeps

(* While elements are moved without a safe point no collection gets going. *)
LEMMA SteadyFacts ==
  ASSUME IInv, Unbroken
  PROVE  Steady /\ Active(Mutator) /\ Era = NOT_COLLECTING /\ Era # COLLECTING /\ ~Marking
         /\ \A c \in Cells : live[c] = snap[c]
<1>1. Steady
  BY DEF IInv, OpFits
<1>2. Era = NOT_COLLECTING /\ Era # COLLECTING /\ Active(Mutator)
  BY <1>1, ActiveEra DEF Steady, COLLECTING, NOT_COLLECTING
<1>3. ~Marking
  BY <1>2, MarkingEra
<1>4. Differ = {}
  BY <1>1 DEF IInv, HalvesFit, Steady
<1> QED
  BY <1>1, <1>2, <1>3, <1>4 DEF Differ

LEMMA StartShiftKeeps ==
  ASSUME Orderly, IInv, NEW job \in Job, NEW p \in 0 .. Length, StartShift(job, p)
  PROVE  IInv'
<1>1. /\ Running("idle") /\ Quiet /\ Length < MaxSize
      /\ UNCHANGED <<handshakeVars, collectorVars>> /\ UNCHANGED arrayVars
      /\ op' = [do |-> "shift", job |-> job, i |-> Length, n |-> p]
      /\ held' = held /\ was_owned' = was_owned /\ UNCHANGED list
      /\ live' = live /\ snap' = snap
  BY DEF StartShift, MayMove, Orderly
<1>2. /\ Active(Mutator) /\ held = NULL /\ Data' = Data /\ size' = size
      /\ regime[Mutator] = NOT_COLLECTING
  BY <1>1, IdleNow, ActiveEra DEF Data, arrayVars, Quiet, Era
<1>3. Steady'
  BY <1>1, <1>2 DEF Steady, Quiet, handshakeVars, collectorVars, Active
<1>4. ShiftFits'
  <2>1. p \leq Length /\ p \in 0 .. MaxSize /\ Length \in 0 .. MaxSize
    BY UserFacts
  <2>2. \A i \in Index : i > Length => live[<<Data, i>>] = NULL
    BY <1>1, IdleNow, UserFacts, Addresses
  <2> QED
    BY <1>1, <1>2, <2>1, <2>2 DEF ShiftFits, Length
<1>5. OpFits'
  <2>1. op' \in Op
    BY <1>1, UserFacts DEF Op
  <2> QED
    BY <1>1, <1>2, <1>3, <1>4, <2>1 DEF OpFits
<1>6. VectorStep({}, {})
  <2>1. held' \in Letters \cup {NULL} /\ op'.do # "copy"
    BY <1>1 DEF IInv, TypeOK
  <2>2. live \in [Cells -> Arrays \cup Elements \cup {NULL}]
        /\ snap \in [Cells -> Arrays \cup Elements \cup {NULL}]
    BY DEF IInv, TypeOK
  <2> QED
    BY <1>1, <1>2, <1>5, <2>1, <2>2, SameSizes, NoNewElements DEF VectorStep
<1> QED
  BY <1>6, VectorStepKeeps

LEMMA ShiftOneKeeps ==
  ASSUME IInv, ShiftOne
  PROVE  IInv'
<1>1. /\ Running("shift") /\ op.i > op.n
      /\ CopyPair(Cell(op.i), Cell(op.i - 1))
      /\ UNCHANGED <<handshakeVars, collectorVars>> /\ UNCHANGED arrayVars
      /\ op' = [op EXCEPT !.i = @ - 1]
      /\ held' = held /\ was_owned' = was_owned /\ UNCHANGED list
  BY DEF ShiftOne
<1>2. /\ Unbroken /\ ShiftFits /\ op.i \in 0 .. MaxSize /\ op.n \in 0 .. MaxSize /\ op.job \in Job
      /\ op = [do |-> "shift", job |-> op.job, i |-> op.i, n |-> op.n]
      /\ held = NULL
  BY <1>1, OpCases DEF IInv, OpFits, Unbroken, Running
<1>3. op.i \in Index /\ op.i - 1 \in Index /\ op.i \leq Length /\ op.n \leq op.i - 1
  BY <1>1, <1>2, UserFacts DEF ShiftFits, Index
<1>4. op' = [do |-> "shift", job |-> op.job, i |-> op.i - 1, n |-> op.n]
  BY <1>1, <1>2
<1>5. PICK c \in Cells, s \in Cells :
        /\ c = Cell(op.i) /\ s = Cell(op.i - 1) /\ c[1] = Data /\ s \in Reachable
        /\ live[s] \in Elements \cup {NULL} /\ live[s] = snap[s]
  BY <1>2, <1>3, UserFacts, SteadyFacts
<1> DEFINE W == {c}
<1>6. W \in SUBSET Cells /\ \A d \in W : d = c
  OBVIOUS
<1>7. /\ live' \in [Cells -> Arrays \cup Elements \cup {NULL}]
      /\ snap' \in [Cells -> Arrays \cup Elements \cup {NULL}]
      /\ \A d \in Cells \ {c} : live'[d] = live[d] /\ snap'[d] = snap[d]
      /\ live'[c] = live[s] /\ snap'[c] = live'[c]
  BY <1>1, <1>5, Pair
<1>8. Data' = Data /\ size' = size
  <2>1. Slot("data") \in Cells /\ Slot("data") # c
    BY <1>5, UserFacts, Addresses DEF Roots, Single
  <2> QED
    BY <1>1, <1>7, <2>1 DEF Data, arrayVars
<1>9. OpFits'
  <2>1. Steady'
    BY <1>1, <1>2, SteadyFacts DEF Steady, handshakeVars, collectorVars, Active
  <2>2. ShiftFits'
    <3>1. ASSUME NEW i \in Index, i > Length
          PROVE  live'[<<Data, i>>] = NULL
      <4>1. Cell(i) # c /\ Cell(i) = <<Data, i>> /\ Cell(i) \in Cells
        BY <1>3, <1>5, <3>1, UserFacts, Addresses
      <4> QED
        BY <1>2, <1>7, <3>1, <4>1 DEF ShiftFits
    <3>2. op.n \leq op.i - 1 /\ op.i - 1 \leq Length /\ Length < MaxSize
      BY <1>2, <1>3, UserFacts DEF ShiftFits
    <3> QED
      BY <1>4, <1>8, <3>1, <3>2 DEF ShiftFits, Length
  <2>3. op' \in Op
    <3>1. op.i - 1 \in 0 .. MaxSize
      BY <1>3, UserFacts DEF Index
    <3> QED
      BY <1>2, <1>4, <3>1 DEF Op
  <2> QED
    BY <1>1, <1>2, <1>4, <2>1, <2>2, <2>3 DEF OpFits
<1>10. VectorStep(W, {})
  <2>1. held' \in Letters \cup {NULL} /\ op'.do # "copy" /\ ~Marking /\ Active(Mutator)
    BY <1>1, <1>2, <1>4, SteadyFacts DEF IInv, TypeOK
  <2>2. Handy(live[s], {})
    BY <1>5 DEF Handy
  <2> QED
    BY <1>1, <1>5, <1>6, <1>7, <1>9, <2>1, <2>2, SameSizes, NoNewElements DEF VectorStep
<1> QED
  BY <1>6, <1>10, VectorStepKeeps

LEMMA ShiftDoneKeeps ==
  ASSUME IInv, ShiftDone
  PROVE  IInv'
<1> DEFINE k == op.n
<1>1. /\ Running("shift") /\ op.i = k
      /\ WriteBarrier(Cell(k), ArgValue) /\ SetSize(Data, Length + 1)
      /\ UNCHANGED <<handshakeVars, collectorVars>>
      /\ op' = Idle /\ held' = held /\ was_owned' = was_owned /\ UNCHANGED list
  BY DEF ShiftDone
<1>2. /\ Unbroken /\ ShiftFits /\ op.i \in 0 .. MaxSize /\ held = NULL
  BY <1>1, OpCases DEF IInv, OpFits, Unbroken, Running
<1>3. k \in Index /\ k \leq Length /\ Length + 1 \in 0 .. MaxSize /\ k \in Nat
  BY <1>1, <1>2, UserFacts DEF ShiftFits, Index
<1> HIDE DEF k
<1>4. /\ ~Marking /\ Active(Mutator) /\ Era # COLLECTING
  BY <1>2, SteadyFacts
<1>5. PICK c \in Cells : c = Cell(k) /\ c[1] = Data
  BY <1>3, UserFacts
<1> DEFINE W == {c}
<1>6. W \in SUBSET Cells /\ \A d \in W : d = c
  OBVIOUS
<1>7. /\ live' \in [Cells -> Arrays \cup Elements \cup {NULL}]
      /\ snap' \in [Cells -> Arrays \cup Elements \cup {NULL}]
      /\ \A d \in Cells \ {c} : live'[d] = live[d] /\ snap'[d] = snap[d]
      /\ live'[c] = ArgValue /\ snap'[c] = live'[c]
      /\ ArgValue \in Elements \cup {NULL} /\ Handy(ArgValue, {})
  BY <1>1, <1>4, <1>5, Barrier, UserFacts DEF Handy, ArgValue
<1>8. Data' = Data
  <2>1. Slot("data") \in Cells /\ Slot("data") # c
    BY <1>5, UserFacts, Addresses DEF Roots, Single
  <2> QED
    BY <1>7, <2>1 DEF Data
<1>s. /\ size' \in [Arrays -> 0 .. MaxSize] /\ scan_size' \in [Arrays -> 0 .. MaxSize]
      /\ reserved' = reserved /\ size'[Data] = Length + 1 /\ Length + 1 \leq scan_size'[Data]
      /\ scan_size[Data] \leq scan_size'[Data]
      /\ \A a \in Arrays \ {Data} : size'[a] = size[a] /\ scan_size'[a] = scan_size[a]
  BY <1>1, <1>3, Sizes
<1>9. OpFits'
  <2>1. ASSUME NEW i \in Index, i \geq size'[Data]
        PROVE  live'[<<Data, i>>] = NULL
    <3>1. i > Length /\ i # k /\ Cell(i) = <<Data, i>> /\ Cell(i) # c /\ Cell(i) \in Cells
      BY <1>3, <1>5, <1>s, <2>1, UserFacts, Addresses
    <3> QED
      BY <1>2, <1>7, <3>1 DEF ShiftFits
  <2> QED
    BY <1>1, <1>2, <1>8, <2>1, IdleFits
<1>10. VectorStep(W, {})
  <2>1. held' \in Letters \cup {NULL} /\ op'.do # "copy"
    BY <1>1 DEF IInv, TypeOK, Idle
  <2> QED
    BY <1>1, <1>4, <1>5, <1>6, <1>7, <1>9, <1>s, <2>1, NoNewElements DEF VectorStep
<1> QED
  BY <1>6, <1>10, VectorStepKeeps

LEMMA CopyFacts ==
  ASSUME IInv, Running("copy")
  PROVE  /\ CopyFits /\ Source = op.from /\ Active(Mutator)
         /\ op.job \in Job /\ op.i \in 0 .. MaxSize /\ op.n \in 0 .. MaxSize
         /\ op.from \in Arrays /\ size[op.from] \in 0 .. MaxSize /\ MaxSize \in Nat
         /\ op = [do |-> "copy", job |-> op.job, i |-> op.i, n |-> op.n, from |-> op.from]
         /\ \A i \in Index : <<op.from, i>> \in Reachable /\ Cell(i) # <<op.from, i>>
         /\ \A i \in Index : ~Scanned(Cell(i))
<1>1. /\ CopyFits /\ Source = op.from /\ Active(Mutator)
      /\ op.job \in Job /\ op.i \in 0 .. MaxSize /\ op.n \in 0 .. MaxSize
      /\ op.from \in Arrays
      /\ op = [do |-> "copy", job |-> op.job, i |-> op.i, n |-> op.n, from |-> op.from]
  BY OpCases DEF IInv, OpFits, Running, Source
<1>2. size[op.from] \in 0 .. MaxSize /\ MaxSize \in Nat
  BY <1>1, UserFacts DEF IInv, TypeOK
<1>3. ASSUME NEW i \in Index
      PROVE  <<op.from, i>> \in Reachable /\ Cell(i) # <<op.from, i>> /\ ~Scanned(Cell(i))
  <2>1. Cell(i) = <<Data, i>> /\ Data # op.from /\ scan_size[Data] = 0
    BY <1>1, UserFacts DEF CopyFits
  <2>2. ~(i < 0)
    BY Addresses
  <2> QED
    BY <1>1, <2>1, <2>2, UserFacts, Addresses DEF Reachable
<1> QED
  BY <1>1, <1>2, <1>3

LEMMA CopyOneKeeps ==
  ASSUME IInv, CopyOne
  PROVE  IInv'
<1> DEFINE t == Target(op.i - 1)
<1>1. /\ Running("copy") /\ op.i > 0
      /\ CopyPair(Cell(t), <<op.from, op.i - 1>>)
      /\ UNCHANGED <<handshakeVars, collectorVars>> /\ UNCHANGED arrayVars
      /\ op' = [op EXCEPT !.i = @ - 1]
      /\ held' = held /\ was_owned' = was_owned /\ UNCHANGED list
  BY DEF CopyOne
<1>2. /\ CopyFits /\ Source = op.from /\ Active(Mutator)
      /\ op.job \in Job /\ op.i \in 0 .. MaxSize /\ op.n \in 0 .. MaxSize
      /\ op.from \in Arrays /\ size[op.from] \in 0 .. MaxSize /\ MaxSize \in Nat
  BY <1>1, CopyFacts
<1>3. /\ t \in Index /\ op.i - 1 \in Index /\ op.i - 1 \in 0 .. MaxSize /\ t \in Nat
      /\ op.i - 1 < size[op.from]
      /\ t = IF op.job = "push_front" THEN op.i ELSE op.i - 1
  BY <1>1, <1>2 DEF CopyFits, Index, Target
<1>4. op' = [do |-> "copy", job |-> op.job, i |-> op.i - 1, n |-> op.n, from |-> op.from]
  BY <1>1, CopyFacts
<1> HIDE DEF t
<1>5. PICK c \in Cells, s \in Cells :
        /\ c = Cell(t) /\ s = <<op.from, op.i - 1>> /\ c[1] = Data /\ s \in Reachable
        /\ live[s] \in Elements \cup {NULL} /\ live[s] = snap[s] /\ ~Scanned(c)
  <2> DEFINE o == <<op.from, op.i - 1>>
  <2>1. o \in Reachable /\ live[o] = snap[o] /\ live[o] \in Elements \cup {NULL}
        /\ ~Scanned(Cell(t)) /\ o \in Cells
    <3>1. <<op.from, op.i - 1>> \in Reachable /\ ~Scanned(Cell(t))
      BY <1>1, <1>3, CopyFacts
    <3>2. live[<<op.from, op.i - 1>>] = snap[<<op.from, op.i - 1>>]
      BY <1>2, <1>3 DEF CopyFits
    <3>3. op.from \notin Single
      BY <1>2, Addresses DEF Single, Roots
    <3> QED
      BY <1>2, <1>3, <3>1, <3>2, <3>3, UserFacts DEF IInv, CellsFit
  <2> QED
    BY <1>3, <2>1, UserFacts
<1> DEFINE W == {c}
<1>6. W \in SUBSET Cells /\ \A d \in W : d = c
  OBVIOUS
<1>7. /\ live' \in [Cells -> Arrays \cup Elements \cup {NULL}]
      /\ snap' \in [Cells -> Arrays \cup Elements \cup {NULL}]
      /\ \A d \in Cells \ {c} : live'[d] = live[d] /\ snap'[d] = snap[d]
      /\ live'[c] = live[s] /\ snap'[c] = live'[c]
  BY <1>1, <1>5, Pair
<1>8. Data' = Data /\ size' = size /\ scan_size' = scan_size /\ list' = list
  <2>1. Slot("data") \in Cells /\ Slot("data") # c
    BY <1>5, UserFacts, Addresses DEF Roots, Single
  <2> QED
    BY <1>1, <1>7, <2>1 DEF Data, arrayVars
<1>9. OpFits'
  <2>1. Unbroken' => Steady'
    <3>1. Unbroken' => Unbroken
      BY <1>1, <1>4 DEF Unbroken, Running
    <3>2. Steady => Steady'
      BY <1>1 DEF Steady, handshakeVars, collectorVars, Active
    <3> QED
      BY <3>1, <3>2, SteadyFacts
  <2>2. live'[Slot(held)] = op.from
    <3>1. held \in Letters /\ Slot(held) \in Cells /\ Slot(held)[1] = held
      BY <1>2, Addresses DEF CopyFits, IInv, TypeOK, Roots
    <3>2. Slot(held) # c
      BY <1>5, <3>1, UserFacts DEF Single
    <3> QED
      BY <1>2, <1>7, <3>1, <3>2 DEF CopyFits
  <2>3. ASSUME NEW i \in Index
        PROVE  /\ live'[<<op.from, i>>] = live[<<op.from, i>>]
               /\ snap'[<<op.from, i>>] = snap[<<op.from, i>>]
               /\ i # t => live'[<<Data, i>>] = live[<<Data, i>>]
                           /\ snap'[<<Data, i>>] = snap[<<Data, i>>]
               /\ i = t => live'[<<Data, i>>] = live[<<op.from, op.i - 1>>]
                           /\ snap'[<<Data, i>>] = live'[<<Data, i>>]
    <3>1. <<op.from, i>> \in Cells /\ <<op.from, i>> # c
      BY <1>2, <1>5, UserFacts, Addresses DEF CopyFits
    <3>2. <<Data, i>> \in Cells /\ (i = t => c = <<Data, i>>) /\ (i # t => c # <<Data, i>>)
      BY <1>3, <1>5, UserFacts, Addresses
    <3> QED
      BY <1>5, <1>7, <3>1, <3>2
  <2>4. CopyFits'
    <3>1. /\ op'.from = op.from /\ op'.i = op.i - 1 /\ op'.job = op.job /\ op'.n = op.n
          /\ held' = held
      BY <1>1, <1>4
    <3>2. /\ op.from # Data /\ op.i - 1 \leq size[op.from]
          /\ op.job \in {"push_front", "insert"} => size[op.from] < MaxSize
          /\ op.n \leq size[op.from] \/ op.job # "insert"
          /\ held \in was_owned' /\ list[held] # NULL
          /\ size[Data] = 0 /\ scan_size[Data] = 0
      BY <1>1, <1>2, <1>3 DEF CopyFits
    <3>3. ASSUME NEW i \in Index
          PROVE  /\ live'[<<op.from, i>>] = snap'[<<op.from, i>>]
                 /\ live'[<<Data, i>>] = snap'[<<Data, i>>]
                 /\ i \geq size[op.from] => live'[<<op.from, i>>] = NULL
                 /\ (IF op.job = "push_front" THEN i > size[op.from] ELSE i \geq size[op.from])
                      => live'[<<Data, i>>] = NULL
                 /\ live'[<<Data, i>>] \in {NULL} \cup {live'[<<op.from, j>>] : j \in Index}
      <4>1. /\ live[<<op.from, i>>] = snap[<<op.from, i>>]
            /\ live[<<Data, i>>] = snap[<<Data, i>>]
            /\ i \geq size[op.from] => live[<<op.from, i>>] = NULL
            /\ (IF op.job = "push_front" THEN i > size[op.from] ELSE i \geq size[op.from])
                 => live[<<Data, i>>] = NULL
            /\ live[<<Data, i>>] \in {NULL} \cup {live[<<op.from, j>>] : j \in Index}
        BY <1>2 DEF CopyFits
      <4>2. {live'[<<op.from, j>>] : j \in Index} = {live[<<op.from, j>>] : j \in Index}
        BY <2>3
      <4>3. live[<<op.from, op.i - 1>>] \in {live[<<op.from, j>>] : j \in Index}
        BY <1>3
      <4>4. i = t => IF op.job = "push_front" THEN ~(i > size[op.from]) ELSE ~(i \geq size[op.from])
        BY <1>2, <1>3
      <4> QED
        BY <2>3, <4>1, <4>2, <4>3, <4>4
    <3> QED
      BY <1>8, <2>2, <3>1, <3>2, <3>3 DEF CopyFits
  <2>5. op' \in Op
    BY <1>2, <1>3, <1>4 DEF Op
  <2> QED
    BY <1>4, <2>1, <2>4, <2>5 DEF OpFits
<1>10. VectorStep(W, {})
  <2>1. held' \in Letters \cup {NULL} /\ op.do = "copy" /\ op'.from = op.from
    BY <1>1, <1>4 DEF IInv, TypeOK, Running
  <2>2. Handy(live[s], {})
    BY <1>5 DEF Handy
  <2> QED
    BY <1>1, <1>2, <1>5, <1>6, <1>7, <1>9, <2>1, <2>2, SameSizes, NoNewElements DEF VectorStep
<1> QED
  BY <1>6, <1>10, VectorStepKeeps

(* The vector goes on with its new array, of n elements.                   *)
LEMMA CopyDoneFits ==
  ASSUME IInv, CopyDone, NEW n \in 0 .. MaxSize,
         n = IF op.job = "push_front" THEN size[op.from] + 1 ELSE size[op.from],
         Data' = Data, size'[Data] = n, held' = NULL,
         UNCHANGED <<handshakeVars, collectorVars>>,
         \A i \in Index : i \geq n => live'[<<Data, i>>] = NULL
  PROVE  OpFits' /\ op'.do # "copy"
<1>1. /\ CopyFits /\ op.job \in Job /\ op.n \in 0 .. MaxSize /\ size[op.from] \in 0 .. MaxSize
      /\ MaxSize \in Nat /\ Running("copy")
  BY CopyFacts DEF CopyDone
<1>2. CASE op' = Idle
  BY <1>2, IdleFits DEF Idle
<1>3. CASE op.job = "insert"
  <2>1. op' = [do |-> "shift", job |-> "insert", i |-> size[op.from], n |-> op.n]
    BY <1>3 DEF CopyDone
  <2>2. Steady'
    BY <1>1, <1>3, SteadyFacts DEF Steady, handshakeVars, collectorVars, Active, Unbroken, Running
  <2>3. ShiftFits'
    <3>1. n < MaxSize /\ op.n \leq n /\ n = size[op.from]
      BY <1>1, <1>3 DEF CopyFits
    <3>2. \A i \in Index : i > n => live'[<<Data, i>>] = NULL
      BY Addresses
    <3> QED
      BY <2>1, <3>1, <3>2 DEF ShiftFits, Length
  <2>4. op' \in Op
    BY <1>1, <2>1 DEF Op, Job
  <2> QED
    BY <2>1, <2>2, <2>3, <2>4 DEF OpFits
<1>4. CASE op' = [do |-> "then", job |-> op.job, n |-> op.n]
  <2>1. op' \in Op
    BY <1>1, <1>4 DEF Op
  <2> QED
    BY <1>4, <2>1 DEF OpFits, Unbroken, Length
<1> QED
  BY <1>2, <1>3, <1>4 DEF CopyDone

LEMMA CopyDoneKeeps ==
  ASSUME IInv, CopyDone
  PROVE  IInv'
<1>1. /\ Running("copy") /\ op.i = 0
      /\ UNCHANGED <<handshakeVars, collectorVars>> /\ UNCHANGED list
      /\ was_owned' = IF regime[Mutator] = COLLECTING THEN was_owned ELSE was_owned \ {held}
      /\ held' = NULL
  BY DEF CopyDone
<1>2. /\ CopyFits /\ Source = op.from /\ Active(Mutator)
      /\ op.job \in Job /\ op.from \in Arrays /\ size[op.from] \in 0 .. MaxSize
      /\ MaxSize \in Nat
  BY <1>1, CopyFacts
<1>3. was_owned' \subseteq was_owned /\ (Marking => was_owned' = was_owned)
  BY <1>1, <1>2, ActiveEra, MarkingEra
<1>4. CASE op.job = "push_front"
  <2> DEFINE n == size[op.from] + 1
  <2>1. WriteBarrier(Cell(0), ArgValue) /\ SetSize(Data, n)
    BY <1>4 DEF CopyDone
  <2>2. n \in 0 .. MaxSize /\ 0 \in Index /\ 0 < n
    BY <1>2, <1>4 DEF CopyFits, Index
  <2> HIDE DEF n
  <2>3. PICK c \in Cells : c = Cell(0) /\ c[1] = Data /\ ~Scanned(c)
    BY <1>1, <2>2, UserFacts, CopyFacts
  <2> DEFINE W == {c}
  <2>4. W \in SUBSET Cells /\ \A d \in W : d = c
    OBVIOUS
  <2>5. /\ live' \in [Cells -> Arrays \cup Elements \cup {NULL}]
        /\ snap' \in [Cells -> Arrays \cup Elements \cup {NULL}]
        /\ \A d \in Cells \ {c} : live'[d] = live[d] /\ snap'[d] = snap[d]
        /\ live'[c] = ArgValue
        /\ snap'[c] = ArgValue \/ (snap'[c] = snap[c] /\ Era = COLLECTING)
        /\ ArgValue \in Elements \cup {NULL} /\ Handy(ArgValue, {})
    BY <1>2, <2>1, <2>3, Barrier, UserFacts DEF Handy, ArgValue
  <2>6. Data' = Data
    <3>1. Slot("data") \in Cells /\ Slot("data") # c
      BY <2>3, UserFacts, Addresses DEF Roots, Single
    <3> QED
      BY <2>5, <3>1 DEF Data
  <2>s. /\ size' \in [Arrays -> 0 .. MaxSize] /\ scan_size' \in [Arrays -> 0 .. MaxSize]
        /\ reserved' = reserved /\ size'[Data] = n /\ n \leq scan_size'[Data]
        /\ scan_size[Data] \leq scan_size'[Data]
        /\ \A a \in Arrays \ {Data} : size'[a] = size[a] /\ scan_size'[a] = scan_size[a]
    BY <2>1, <2>2, Sizes
  <2>7. Scanned(c)'
    <3>1. 0 < scan_size'[Data] /\ c = <<Data, 0>>
      BY <2>2, <2>3, <2>s, UserFacts
    <3> QED
      BY <3>1 DEF Scanned
  <2>8. OpFits' /\ op'.do # "copy"
    <3>1. ASSUME NEW i \in Index, i \geq n
          PROVE  live'[<<Data, i>>] = NULL
      <4>1. i > size[op.from] /\ i # 0
        BY <1>2, <2>2, <3>1, Addresses DEF n
      <4>2. Cell(i) = <<Data, i>> /\ Cell(i) # c /\ Cell(i) \in Cells
        BY <2>2, <2>3, <4>1, UserFacts
      <4>3. live[<<Data, i>>] = NULL
        BY <1>2, <1>4, <4>1 DEF CopyFits
      <4> QED
        BY <2>5, <4>2, <4>3
    <3>2. n = IF op.job = "push_front" THEN size[op.from] + 1 ELSE size[op.from]
      BY <1>4 DEF n
    <3> QED
      BY <1>1, <2>2, <2>6, <2>s, <3>1, <3>2, CopyDoneFits
  <2>9. VectorStep(W, {})
    <3>1. held' \in Letters \cup {NULL}
      BY <1>1
    <3> QED
      BY <1>1, <1>2, <1>3, <2>3, <2>4, <2>5, <2>7, <2>8, <2>s, <3>1, NoNewElements DEF VectorStep
  <2> QED
    BY <2>4, <2>9, VectorStepKeeps
<1>5. CASE op.job # "push_front"
  <2> DEFINE n == size[op.from]
  <2>1. live' = live /\ snap' = snap /\ SetSize(Data, n) /\ n \in 0 .. MaxSize
    BY <1>2, <1>5 DEF CopyDone
  <2>s. /\ size' \in [Arrays -> 0 .. MaxSize] /\ scan_size' \in [Arrays -> 0 .. MaxSize]
        /\ reserved' = reserved /\ size'[Data] = n /\ n \leq scan_size'[Data]
        /\ scan_size[Data] \leq scan_size'[Data]
        /\ \A a \in Arrays \ {Data} : size'[a] = size[a] /\ scan_size'[a] = scan_size[a]
    BY <2>1, Sizes
  <2>2. Data' = Data /\ \A i \in Index : i \geq n => live'[<<Data, i>>] = NULL
    BY <1>2, <1>5, <2>1 DEF CopyFits, Data
  <2>3. OpFits' /\ op'.do # "copy"
    BY <1>1, <1>5, <2>1, <2>2, <2>s, CopyDoneFits
  <2>4. VectorStep({}, {})
    <3>1. held' \in Letters \cup {NULL}
      BY <1>1
    <3>2. live \in [Cells -> Arrays \cup Elements \cup {NULL}]
          /\ snap \in [Cells -> Arrays \cup Elements \cup {NULL}]
      BY DEF IInv, TypeOK
    <3> HIDE DEF n
    <3> QED
      BY <1>1, <1>2, <1>3, <2>1, <2>3, <2>s, <3>1, <3>2, NoNewElements DEF VectorStep
  <2> QED
    BY <2>4, VectorStepKeeps
<1> QED
  BY <1>4, <1>5

(* Growing starts between collections only.                                *)
LEMMA GrowKeeps ==
  ASSUME Orderly, IInv, NEW job \in Job, NEW s \in 0 .. MaxSize, NEW n \in 0 .. MaxSize,
         Grow(job, s, n),
         job \in {"push_front", "insert"} => s = Length + 1,
         job = "insert" => n \leq Length
  PROVE  IInv'
<1>1. PICK a \in Free(Arrays), r \in Free(Letters) :
        /\ held' = r
        /\ was_owned' = was_owned \cup {r}
        /\ list' = [list EXCEPT ![a] = index, ![r] = index]
        /\ reserved' = [reserved EXCEPT ![a] = 2 * s]
        /\ live' = [live EXCEPT ![Slot(r)] = Data, ![Slot("data")] = a]
        /\ snap' = IF regime[Mutator] = COLLECTING
                   THEN [snap EXCEPT ![Slot(r)] = Data]
                   ELSE [snap EXCEPT ![Slot(r)] = Data, ![Slot("data")] = a]
  BY DEF Grow, HoldOld
<1>2. /\ Running("idle") /\ Quiet /\ s \leq MaxSize
      /\ op' = [do |-> "copy", job |-> job, i |-> Length, n |-> n, from |-> Data]
      /\ size' = size /\ scan_size' = scan_size
      /\ UNCHANGED <<handshakeVars, collectorVars>>
  BY DEF Grow, MayMove, Orderly
<1>3. /\ phase' = phase /\ gate' = gate /\ index' = index
      /\ regime' = regime /\ parked' = parked
      /\ work' = work /\ todo' = todo /\ at' = at /\ current' = current
      /\ marked' = marked /\ kept' = kept /\ fetched' = fetched
  BY <1>2 DEF handshakeVars, collectorVars
<1> USE DEF IInv
<1>4. /\ phase = NOT_COLLECTING /\ gate = "open" /\ work = "done" /\ at = NULL /\ fetched = NULL
      /\ Active(Mutator) /\ regime[Mutator] = NOT_COLLECTING
      /\ ~Marking /\ ~Marking' /\ op.do = "idle"
  BY <1>2, <1>3, IdleNow, ActiveEra DEF Quiet, WorkFits, Marking, Era, Running
<1>5. /\ a \in Arrays /\ r \in Letters /\ list[a] = NULL /\ list[r] = NULL
      /\ index \in {0, 1} /\ Data \in Arrays /\ Data # a /\ list[Data] # NULL
  <2>1. Slot("data") \in Reachable
    BY Addresses DEF Reachable, Roots
  <2>2. list[Data] # NULL
    BY <2>1, UserFacts, Addresses DEF LiveFits, Data, Nodes
  <2> QED
    BY <2>2 DEF Free, TypeOK
<1>6. /\ Slot(r) \in Cells /\ Slot("data") \in Cells /\ Slot(r) # Slot("data")
      /\ Slot(r)[1] = r /\ Slot("data")[1] = "data"
  BY <1>5, Addresses DEF Roots
<1>7. /\ live' \in [Cells -> Arrays \cup Elements \cup {NULL}]
      /\ snap' \in [Cells -> Arrays \cup Elements \cup {NULL}]
      /\ live'[Slot(r)] = Data /\ snap'[Slot(r)] = Data
      /\ live'[Slot("data")] = a /\ snap'[Slot("data")] = a
      /\ \A c \in Cells \ {Slot(r), Slot("data")} : live'[c] = live[c] /\ snap'[c] = snap[c]
  BY <1>1, <1>4, <1>5, <1>6 DEF TypeOK, COLLECTING, NOT_COLLECTING
<1>8. Data' = a
  BY <1>7 DEF Data
<1>9. /\ list' \in [Nodes -> {0, 1, NULL}]
      /\ list'[a] = index /\ list'[r] = index
      /\ \A m \in Nodes : m \notin {a, r} => list'[m] = list[m]
  BY <1>1, <1>5, Addresses DEF TypeOK, Nodes
<1>10. \A b \in Arrays, i \in Index : /\ live'[<<b, i>>] = live[<<b, i>>]
                                      /\ snap'[<<b, i>>] = snap[<<b, i>>]
  <2>1. \A b \in Arrays, i \in Index :
          <<b, i>> \in Cells /\ <<b, i>> # Slot(r) /\ <<b, i>> # Slot("data")
    BY <1>5, Addresses DEF Roots, Slot
  <2> QED
    BY <1>7, <2>1
<1>11. \A c \in Cells : live[c] = snap[c] /\ live'[c] = snap'[c]
  <2>1. Differ = {}
    BY <1>4 DEF HalvesFit
  <2> QED
    BY <1>7, <2>1 DEF Differ
<1>12. TypeOK'
  <2>1. reserved' \in [Arrays -> Nat]
    <3>1. 2 * s \in Nat
      BY UserFacts
    <3> QED
      BY <1>1, <3>1 DEF TypeOK
  <2>2. held' \in Letters \cup {NULL} /\ was_owned' \subseteq Letters
    BY <1>1, <1>5 DEF TypeOK
  <2> QED
    BY <1>2, <1>3, <1>5, <1>7, <1>8, <1>9, <2>1, <2>2 DEF TypeOK
<1>13. CellsFit'
  <2>1. ASSUME NEW c \in Cells, c[1] \notin Single
        PROVE  live'[c] \in Elements \cup {NULL} /\ snap'[c] \in Elements \cup {NULL}
    BY <1>5, <1>6, <1>7, <2>1 DEF CellsFit, Single
  <2>2. ASSUME NEW q \in Single
        PROVE  live'[Slot(q)] \in Arrays \cup {NULL} /\ live'[Slot(q)] = snap'[Slot(q)]
    <3>1. Slot(q) \in Cells
      BY Addresses DEF Single, Roots
    <3> QED
      BY <1>5, <1>7, <1>11, <3>1 DEF CellsFit
  <2> QED
    BY <2>1, <2>2 DEF CellsFit
<1>14. SizesFit'
  BY <1>2, <1>3, <1>4, <1>11 DEF SizesFit
<1>15. FreeIsBlank'
  <2>1. \A b \in Arrays : list'[b] = NULL => list[b] = NULL
    BY <1>5, <1>9, Addresses DEF Nodes
  <2> QED
    BY <1>2, <1>10, <2>1 DEF FreeIsBlank
<1>16. OpFits'
  <2>1. Steady'
    BY <1>3, <1>4 DEF Steady, Active
  <2>2. /\ op'.do = "copy" /\ op'.job = job /\ op'.i = Length /\ op'.n = n /\ op'.from = Data
        /\ Length = size[Data] /\ Length \in 0 .. MaxSize
    BY <1>2, UserFacts DEF Length
  <2>3. CopyFits'
    <3>1. job \in {"push_front", "insert"} => size[Data] < MaxSize
      BY <1>2, <2>2, UserFacts
    <3>2. n \leq size[Data] \/ job # "insert"
      BY <2>2
    <3>3. held' \in was_owned' /\ list'[held'] # NULL /\ live'[Slot(held)'] = Data
      BY <1>1, <1>5, <1>7, <1>9, Addresses DEF Slot
    <3>4. size'[a] = 0 /\ scan_size'[a] = 0
      BY <1>2, <1>5 DEF FreeIsBlank
    <3>5. ASSUME NEW i \in Index
          PROVE  /\ live'[<<Data, i>>] = snap'[<<Data, i>>]
                 /\ live'[<<a, i>>] = snap'[<<a, i>>] /\ live'[<<a, i>>] = NULL
                 /\ i \geq size'[Data] => live'[<<Data, i>>] = NULL
      <4>1. live'[<<a, i>>] = NULL /\ snap'[<<a, i>>] = NULL
        BY <1>5, <1>10 DEF FreeIsBlank
      <4>2. i \geq Length => live[<<Data, i>>] = NULL
        BY <1>4 DEF OpFits
      <4>3. <<Data, i>> \in Cells
        BY <1>5, Addresses
      <4> QED
        BY <1>2, <1>5, <1>10, <1>11, <2>2, <4>1, <4>2, <4>3
    <3>6. Length \leq size[Data]
      BY <2>2
    <3> QED
      BY <1>2, <1>5, <1>8, <2>2, <3>1, <3>2, <3>3, <3>4, <3>5, <3>6 DEF CopyFits
  <2>4. op' \in Op
    BY <1>2, <1>5, UserFacts DEF Op
  <2> QED
    BY <2>1, <2>2, <2>3, <2>4 DEF OpFits
<1>17. HalvesFit'
  <2>1. Differ' = {}
    BY <1>11 DEF Differ
  <2> QED
    BY <2>1 DEF HalvesFit
<1>18. LiveFits'
  <2> SUFFICES ASSUME NEW c \in Reachable', live'[c] # NULL
               PROVE  list'[live'[c]] # NULL
    BY DEF LiveFits
  <2>1. Source' = Data
    BY <1>2 DEF Source
  <2>2. c \in Cells /\ c[1] \in {a, Data, "data", "arg", r}
    BY <1>1, <1>8, <2>1 DEF Reachable
  <2>3. \A m \in Nodes : list[m] # NULL => list'[m] # NULL
    BY <1>5, <1>9, Addresses
  <2>4. CASE c[1] = a
    <3>1. c[2] \in Index /\ c = <<a, c[2]>>
      BY <1>5, <2>2, <2>4, Addresses
    <3> QED
      BY <1>5, <1>10, <3>1 DEF FreeIsBlank
  <2>5. CASE c[1] = "data"
    <3>1. c = Slot("data")
      BY <2>2, <2>5, Addresses DEF Roots
    <3> QED
      BY <1>5, <1>7, <1>9, <3>1, Addresses
  <2>6. CASE c[1] \in {Data, "arg"}
    <3>1. c \in Reachable /\ c \notin {Slot(r), Slot("data")}
      BY <1>5, <1>6, <2>2, <2>6, Addresses DEF Reachable, Roots
    <3>2. live'[c] = live[c] /\ live[c] \in Nodes
      BY <1>7, <2>2, <3>1, UserFacts DEF Nodes
    <3> QED
      BY <2>3, <3>1, <3>2 DEF LiveFits
  <2>7. CASE c[1] = r
    <3>1. c = Slot(r)
      BY <1>5, <2>2, <2>7, Addresses DEF Roots
    <3>2. live'[c] = Data /\ list[Data] # NULL /\ Data \in Nodes
      <4>1. Slot("data") \in Reachable
        BY Addresses DEF Reachable, Roots
      <4> QED
        BY <1>5, <1>7, <3>1, <4>1, Addresses DEF LiveFits, Data, Nodes
    <3> QED
      BY <2>3, <3>2
  <2> QED
    BY <2>2, <2>4, <2>5, <2>6, <2>7
<1>19. InStep' /\ WorkFits' /\ WalkFits'
  BY <1>3, <1>4 DEF InStep, WorkFits, WalkFits, Marking
<1>20. ListsFit'
  <2>1. \A m \in Nodes : list'[m] # 1 - index
    BY <1>4, <1>5, <1>9 DEF ListsFit
  <2> QED
    BY <1>3, <1>4, <2>1 DEF ListsFit
<1> QED
  BY <1>4, <1>12, <1>13, <1>14, <1>15, <1>16, <1>17, <1>18, <1>19, <1>20

LEMMA MutatorStepKeeps ==
  ASSUME Orderly, IInv, MutatorStep
  PROVE  IInv'
<1>0. Length \in 0 .. MaxSize /\ MaxSize \in Nat
  BY UserFacts
<1>1. CASE SetArg \/ PushBack \/ PopBack \/ Clear
  BY <1>1, SetArgKeeps, PushBackKeeps, PopBackKeeps, ClearKeeps
<1>2. CASE \E i \in Index : SetElement(i)
  BY <1>2, SetElementKeeps
<1>3. CASE \E n \in 0 .. MaxSize : ResizeInPlace(n)
  BY <1>3, ResizeInPlaceKeeps
<1>4. CASE GrowFor
  <2>1. ASSUME NEW job, NEW s, NEW n, Grow(job, s, n)
        PROVE  s \leq MaxSize
    BY <2>1 DEF Grow
  <2>2. CASE Grow("push_back", Length + 1, 0) \/ Grow("push_front", Length + 1, 0)
    <3>1. Length + 1 \in 0 .. MaxSize /\ 0 \in 0 .. MaxSize
      BY <1>0, <2>1, <2>2
    <3> QED
      BY <2>2, <3>1, GrowKeeps DEF Job
  <2>3. ASSUME NEW p \in 0 .. Length, Grow("insert", Length + 1, p)
        PROVE  IInv'
    <3>1. Length + 1 \in 0 .. MaxSize /\ p \in 0 .. MaxSize /\ p \leq Length
      BY <1>0, <2>1, <2>3
    <3> QED
      BY <2>3, <3>1, GrowKeeps DEF Job
  <2>4. ASSUME NEW s \in Length + 1 .. MaxSize, Grow("resize", s, s) \/ Grow("reserve", s, 0)
        PROVE  IInv'
    <3>1. s \in 0 .. MaxSize /\ 0 \in 0 .. MaxSize
      BY <1>0
    <3> QED
      BY <2>4, <3>1, GrowKeeps DEF Job
  <2> QED
    BY <1>4, <2>2, <2>3, <2>4 DEF GrowFor
<1>5. CASE CopyOne \/ CopyDone
  BY <1>5, CopyOneKeeps, CopyDoneKeeps
<1>6. CASE StartShift("push_front", 0) \/ \E p \in 0 .. Length : StartShift("insert", p)
  <2>1. 0 \in 0 .. Length
    BY <1>0
  <2> QED
    BY <1>6, <2>1, StartShiftKeeps DEF Job
<1>7. CASE ShiftOne \/ ShiftDone
  BY <1>7, ShiftOneKeeps, ShiftDoneKeeps
<1> QED
  BY <1>1, <1>2, <1>3, <1>4, <1>5, <1>6, <1>7 DEF MutatorStep

-----------------------------------------------------------------------------
(* The borders.                                                            *)

LEMMA VectorSame ==
  ASSUME IInv, UNCHANGED <<phase, gate, index>>, UNCHANGED vectorVars,
         regime' \in [Threads -> Regime], parked' \subseteq Threads, InStep', OpFits'
  PROVE  IInv'
<1>1. /\ live' = live /\ snap' = snap /\ list' = list /\ size' = size
      /\ scan_size' = scan_size /\ reserved' = reserved /\ held' = held
      /\ was_owned' = was_owned /\ op' = op /\ work' = work /\ todo' = todo /\ at' = at
      /\ current' = current /\ marked' = marked /\ kept' = kept /\ fetched' = fetched
  BY DEF vectorVars, mutatorVars, collectorVars, arrayVars
<1>2. phase' = phase /\ gate' = gate /\ index' = index
  OBVIOUS
<1> USE DEF IInv
<1>3. Data' = Data /\ Source' = Source
  BY <1>1 DEF Data, Source
<1>4. Reachable' = Reachable
  BY <1>1, <1>3 DEF Reachable
<1>5. TypeOK'
  BY <1>1, <1>2, <1>3 DEF TypeOK
<1>6. WorkFits' /\ ListsFit' /\ FreeIsBlank'
  BY <1>1, <1>2 DEF WorkFits, ListsFit, FreeIsBlank, Marking
<1>7. CellsFit'
  BY <1>1 DEF CellsFit
<1>8. SizesFit'
  BY <1>1 DEF SizesFit, Scanned
<1>9. HalvesFit'
  BY <1>1, <1>2 DEF HalvesFit, Differ, Yet
<1>10. WalkFits'
  BY <1>1, <1>3 DEF WalkFits
<1>11. LiveFits'
  BY <1>1, <1>4 DEF LiveFits
<1>12. Marking' => MarkerFits' /\ \A c \in Reachable' : Safe(live[c])'
  <2>1. Covered' = Covered
    BY <1>1 DEF Covered, ToEnter, RootsLeft, Front, Scanned, Yet
  <2>2. Marking' <=> Marking
    BY <1>1 DEF Marking
  <2>3. MarkerFits' <=> MarkerFits
    BY <1>1 DEF MarkerFits
  <2> QED
    BY <1>1, <1>2, <1>4, <2>1, <2>2, <2>3 DEF Safe
<1> QED
  BY <1>5, <1>6, <1>7, <1>8, <1>9, <1>10, <1>11, <1>12

LEMMA OneThread ==
  Mutator \in Threads /\ \A t \in Threads : t = Mutator
BY VectorAssumption

LEMMA PhaseStepKeeps ==
  ASSUME Orderly, IInv, PhaseStep
  PROVE  IInv'
<1>1. UNCHANGED vectorVars /\ phase \in Phase /\ gate \in Gate
      /\ regime \in [Threads -> Regime] /\ parked \subseteq Threads
  BY DEF PhaseStep, IInv, TypeOK
<1>2. UNCHANGED <<phase, gate, index>>
  BY DEF PhaseStep, Join, Resume, Adopt
<1>3. ~Unbroken
  <2> SUFFICES ASSUME Unbroken
               PROVE  FALSE
    OBVIOUS
  <2>2. Active(Mutator)
    BY SteadyFacts
  <2>3. CASE Join(Mutator) \/ Resume(Mutator)
    BY <2>2, <2>3 DEF Join, Resume, Active
  <2>4. CASE AtSafePoint
    BY <2>4 DEF AtSafePoint, Unbroken, Orderly
  <2> QED
    BY <2>3, <2>4 DEF PhaseStep
<1>4. OpFits'
  <2>1. /\ live' = live /\ snap' = snap /\ list' = list /\ size' = size
        /\ scan_size' = scan_size /\ held' = held /\ was_owned' = was_owned /\ op' = op
    BY <1>1 DEF vectorVars, mutatorVars, arrayVars
  <2>2. Data' = Data /\ Length' = Length
    BY <2>1 DEF Data, Length
  <2>3. CopyFits' <=> CopyFits
    BY <2>1, <2>2 DEF CopyFits
  <2>4. ShiftFits' <=> ShiftFits
    BY <2>1, <2>2 DEF ShiftFits
  <2>5. ~Unbroken'
    BY <1>3, <2>1 DEF Unbroken
  <2> QED
    BY <2>1, <2>2, <2>3, <2>4, <2>5 DEF IInv, OpFits
<1>5. /\ regime' \in [Threads -> Regime] /\ parked' \subseteq Threads /\ InStep'
  <2>1. CASE Join(Mutator)
    <3>1. regime' = [regime EXCEPT ![Mutator] = phase] /\ parked' = parked \cup {Mutator}
      BY <2>1 DEF Join
    <3> QED
      BY <1>1, <1>2, <3>1, OneThread DEF InStep, Regime
  <2>2. CASE Adopt(Mutator)
    <3>1. regime' = [regime EXCEPT ![Mutator] = phase] /\ parked' = parked \cup {Mutator}
      BY <2>2 DEF Adopt
    <3> QED
      BY <1>1, <1>2, <3>1, OneThread DEF InStep, Regime
  <2>3. CASE Resume(Mutator)
    <3>1. regime' = regime /\ parked' = parked \ {Mutator}
          /\ (regime[Mutator] = phase => gate = "open")
      BY <2>3 DEF Resume
    <3> QED
      BY <1>1, <1>2, <3>1, OneThread DEF IInv, InStep
  <2> QED
    BY <2>1, <2>2, <2>3 DEF PhaseStep
<1> QED
  BY <1>1, <1>2, <1>4, <1>5, VectorSame

(* When nobody marks, and at most the lists, the phase and what the        *)
(* collector has to do change.                                             *)
LEMMA BorderKeeps ==
  ASSUME IInv, UNCHANGED <<live, snap, arrayVars, held, was_owned, op>>,
         UNCHANGED <<at, current, marked, fetched>>,
         work = "done",
         \A n \in Nodes : list[n] = NULL <=> list'[n] = NULL,
         TypeOK', InStep', WorkFits', ListsFit', HalvesFit', Unbroken => Steady',
         todo' \subseteq kept' \cup {"data", "arg"} \/ work' \notin {"restore", "finalize"},
         Marking' => MarkerFits' /\ \A c \in Reachable : Safe(live[c])'
  PROVE  IInv'
<1>1. /\ live' = live /\ snap' = snap /\ size' = size
      /\ scan_size' = scan_size /\ reserved' = reserved /\ held' = held
      /\ was_owned' = was_owned /\ op' = op /\ at' = at
      /\ current' = current /\ marked' = marked /\ fetched' = fetched
  BY DEF arrayVars
<1> USE DEF IInv
<1>2. Data' = Data /\ Source' = Source /\ Length' = Length
  BY <1>1 DEF Data, Source, Length
<1>3. Reachable' = Reachable
  BY <1>1, <1>2 DEF Reachable
<1>4. CellsFit' /\ FreeIsBlank'
  BY <1>1 DEF CellsFit, FreeIsBlank, Nodes
<1>5. SizesFit'
  BY <1>1 DEF SizesFit, Scanned
<1>6. OpFits'
  <2>1. op.do = "copy" => CopyFits'
    <3>1. held \in was_owned => held \in Nodes
      BY DEF TypeOK, Nodes
    <3> QED
      BY <1>1, <1>2, <3>1 DEF OpFits, CopyFits
  <2>2. ShiftFits' <=> ShiftFits
    BY <1>1, <1>2 DEF ShiftFits
  <2> QED
    BY <1>1, <1>2, <2>1, <2>2 DEF OpFits, Unbroken
<1>7. WalkFits'
  <2>1. at = NULL /\ fetched = NULL
    BY DEF WorkFits
  <2> QED
    BY <1>1, <2>1 DEF WalkFits
<1>8. LiveFits'
  BY <1>1, <1>3, UserFacts DEF LiveFits, Nodes
<1> QED
  BY <1>1, <1>3, <1>4, <1>5, <1>6, <1>7, <1>8

LEMMA PhaseRing ==
  /\ \A p \in Phase : Succ(p) \in Phase /\ Pred(Succ(p)) = p /\ Succ(p) # p /\ Pred(p) # p
  /\ \A p \in Phase : /\ Succ(p) = NOT_COLLECTING <=> p = RESTORING_SNAPSHOT
                      /\ Succ(p) = COLLECTING <=> p = NOT_COLLECTING
                      /\ Succ(p) = RESTORING_SNAPSHOT <=> p = COLLECTING
  /\ NOT_MUTATING \notin Phase
BY DEF Phase, Pred, Succ, NOT_COLLECTING, COLLECTING, RESTORING_SNAPSHOT, NOT_MUTATING

LEMMA BeginPhaseKeeps ==
  ASSUME IInv, BeginPhase
  PROVE  IInv'
<1>1. /\ work = "done" /\ gate = "open" /\ gate' = "closed" /\ phase' = Succ(phase)
      /\ regime[Mutator] # NOT_MUTATING => regime[Mutator] = phase
      /\ regime' = regime /\ parked' = parked /\ index' = index /\ UNCHANGED vectorVars
  BY OneThread DEF BeginPhase, Announce, Mutating
<1>2. /\ live' = live /\ snap' = snap /\ list' = list /\ size' = size
      /\ scan_size' = scan_size /\ reserved' = reserved /\ held' = held
      /\ was_owned' = was_owned /\ op' = op /\ work' = work /\ todo' = todo /\ at' = at
      /\ current' = current /\ marked' = marked /\ kept' = kept /\ fetched' = fetched
      /\ UNCHANGED arrayVars
  BY <1>1 DEF vectorVars, mutatorVars, collectorVars, arrayVars
<1> USE DEF IInv
<1>3. phase \in Phase /\ phase' \in Phase /\ Pred(phase') = phase /\ phase # phase'
  BY <1>1, PhaseRing DEF TypeOK
<1>4. TypeOK'
  BY <1>1, <1>2, <1>3 DEF TypeOK, Gate, Data
<1>5. InStep'
  BY <1>1, <1>3 DEF InStep
<1>6. WorkFits' /\ ~Marking'
  BY <1>1, <1>2 DEF WorkFits, Marking
<1>7. ListsFit'
  BY <1>1, <1>2, <1>3, PhaseRing DEF ListsFit, NOT_COLLECTING, COLLECTING, RESTORING_SNAPSHOT
<1>8. HalvesFit'
  <2>1. Differ' = Differ
    BY <1>2 DEF Differ
  <2> QED
    BY <1>1, <1>2, <1>3, <2>1, PhaseRing
    DEF HalvesFit, NOT_COLLECTING, COLLECTING, RESTORING_SNAPSHOT
<1>9. Unbroken => Steady'
  <2> SUFFICES ASSUME Unbroken
               PROVE  Steady'
    OBVIOUS
  <2>1. Steady
    BY SteadyFacts
  <2> QED
    BY <1>1, <1>2, <1>3, <2>1, PhaseRing DEF Steady, Active
<1> QED
  BY <1>1, <1>2, <1>4, <1>5, <1>6, <1>7, <1>8, <1>9, BorderKeeps

(* When the gate is turned nobody moves anything.                          *)
LEMMA GatherKeeps ==
  ASSUME IInv, Gather
  PROVE  IInv'
<1>1. /\ gate = "closed" /\ gate' = "turned" /\ phase' = phase
      /\ regime[Mutator] # NOT_MUTATING => regime[Mutator] = phase /\ Mutator \in parked
      /\ regime' = regime /\ parked' = parked
      /\ index' = IF phase = COLLECTING THEN 1 - index ELSE index
  BY OneThread DEF Gather, Turn, Mutating
<1>2. /\ live' = live /\ snap' = snap /\ size' = size
      /\ scan_size' = scan_size /\ reserved' = reserved /\ held' = held
      /\ was_owned' = was_owned /\ op' = op /\ work' = work /\ todo' = todo /\ at' = at
      /\ current' = current /\ marked' = marked /\ fetched' = fetched
      /\ UNCHANGED arrayVars
      /\ IF phase = RESTORING_SNAPSHOT
         THEN /\ list' = [n \in Nodes |-> IF list[n] = NULL THEN NULL ELSE index]
              /\ kept' = {n \in Nodes : list[n] # NULL}
         ELSE list' = list /\ kept' = kept
  BY DEF Gather, arrayVars
<1> USE DEF IInv
<1>3. /\ work = "done" /\ index \in {0, 1} /\ phase \in Phase /\ 1 - index \in {0, 1}
      /\ index' \in {0, 1} /\ 1 - (1 - index) = index /\ index # 1 - index
  BY <1>1 DEF WorkFits, TypeOK
<1>4. /\ list' \in [Nodes -> {0, 1, NULL}] /\ kept' \subseteq Nodes
      /\ \A n \in Nodes : list[n] = NULL <=> list'[n] = NULL
  BY <1>2, <1>3, Addresses DEF TypeOK
<1>5. TypeOK'
  BY <1>1, <1>2, <1>3, <1>4 DEF TypeOK, Gate, Data
<1>6. InStep'
  BY <1>1 DEF InStep
<1>7. WorkFits' /\ ~Marking'
  BY <1>1, <1>2, <1>3 DEF WorkFits, Marking
<1>8. ListsFit'
  <2>1. CASE phase = COLLECTING
    <3>1. \A n \in Nodes : list'[n] # index'
      BY <1>1, <1>2, <1>3, <2>1 DEF ListsFit, COLLECTING, RESTORING_SNAPSHOT
    <3> QED
      BY <1>1, <2>1, <3>1 DEF ListsFit, COLLECTING, RESTORING_SNAPSHOT, NOT_COLLECTING
  <2>2. CASE phase = RESTORING_SNAPSHOT
    <3>1. \A n \in Nodes : list'[n] # 1 - index'
      BY <1>1, <1>2, <1>3, <2>2, Addresses DEF COLLECTING, RESTORING_SNAPSHOT
    <3> QED
      BY <1>1, <2>2, <3>1 DEF ListsFit, COLLECTING, RESTORING_SNAPSHOT, NOT_COLLECTING
  <2>3. CASE phase = NOT_COLLECTING
    BY <1>1, <1>2, <2>3 DEF ListsFit, COLLECTING, RESTORING_SNAPSHOT, NOT_COLLECTING
  <2> QED
    BY <1>3, <2>1, <2>2, <2>3 DEF Phase
<1>9. HalvesFit'
  <2>1. Differ' = Differ
    BY <1>2 DEF Differ
  <2>2. phase = RESTORING_SNAPSHOT => \A c \in Differ : c[1] \in Arrays => c[1] \in kept'
    <3> SUFFICES ASSUME NEW c \in Differ, c[1] \in Arrays
                 PROVE  list[c[1]] # NULL
      BY <1>2 DEF Nodes
    <3>1. c \in Cells /\ c[2] \in Nat /\ c[1] \notin Roots
      BY Addresses DEF Differ
    <3>2. c[2] < scan_size[c[1]]
      BY <3>1 DEF SizesFit, Differ, Scanned
    <3>3. scan_size[c[1]] # 0
      BY <3>1, <3>2
    <3> QED
      BY <3>3 DEF FreeIsBlank
  <2> QED
    BY <1>1, <1>2, <1>3, <2>1, <2>2
    DEF HalvesFit, NOT_COLLECTING, COLLECTING, RESTORING_SNAPSHOT
<1>10. ~Unbroken
  BY <1>1, SteadyFacts DEF Active
<1>11. work' = "done"
  BY <1>2, <1>3
<1> QED
  BY <1>2, <1>3, <1>4, <1>5, <1>6, <1>7, <1>8, <1>9, <1>10, <1>11, BorderKeeps

LEMMA StartWorkKeeps ==
  ASSUME IInv, StartWork
  PROVE  IInv'
<1>1. /\ gate = "turned" /\ gate' = "open" /\ phase' = phase /\ index' = index
      /\ regime' = regime /\ parked' = parked
      /\ phase = COLLECTING => work' = "mark"
      /\ phase = RESTORING_SNAPSHOT => work' = "restore"
      /\ phase = NOT_COLLECTING => work' = "finalize"
      /\ todo' = {"data", "arg"} \cup
                 IF phase = COLLECTING THEN InList(1 - index) \cap Letters
                 ELSE kept \ Elements
  BY DEF StartWork, Open, NOT_COLLECTING, COLLECTING, RESTORING_SNAPSHOT
<1>2. /\ live' = live /\ snap' = snap /\ list' = list /\ size' = size
      /\ scan_size' = scan_size /\ reserved' = reserved /\ held' = held
      /\ was_owned' = was_owned /\ op' = op /\ at' = at
      /\ current' = current /\ marked' = marked /\ kept' = kept /\ fetched' = fetched
      /\ UNCHANGED arrayVars
  BY DEF StartWork, mutatorVars, arrayVars
<1> USE DEF IInv
<1>3. /\ work = "done" /\ index \in {0, 1} /\ phase \in Phase
      /\ at = NULL /\ current = NULL /\ marked = {} /\ fetched = NULL
  BY <1>1 DEF WorkFits, TypeOK, Marking
<1>4. work' \in {"mark", "restore", "finalize"}
      /\ (Marking' <=> phase = COLLECTING)
      /\ (work' = "finalize" <=> phase = NOT_COLLECTING)
      /\ (work' = "restore" <=> phase = RESTORING_SNAPSHOT)
  BY <1>1, <1>3 DEF Phase, Marking, NOT_COLLECTING, COLLECTING, RESTORING_SNAPSHOT
<1>5. TypeOK'
  <2>1. todo' \subseteq Arrays \cup Roots
    <3>1. kept \subseteq Arrays \cup Elements \cup Letters
      BY DEF TypeOK, Nodes
    <3> QED
      BY <1>1, <3>1 DEF Roots
  <2> QED
    BY <1>1, <1>2, <1>4, <2>1 DEF TypeOK, Gate, Work, Data
<1>6. InStep'
  BY <1>1 DEF InStep
<1>7. WorkFits'
  BY <1>1, <1>2, <1>3, <1>4 DEF WorkFits, Marking
<1>8. ListsFit'
  BY <1>1, <1>2, <1>3 DEF ListsFit, Phase, NOT_COLLECTING, COLLECTING, RESTORING_SNAPSHOT
<1>9. HalvesFit'
  <2>1. Differ' = Differ
    BY <1>2 DEF Differ
  <2>2. phase = NOT_COLLECTING => \A c \in Differ : c[1] \in todo'
    <3> SUFFICES ASSUME phase = NOT_COLLECTING, NEW c \in Differ
                 PROVE  c[1] \in todo'
      OBVIOUS
    <3>1. todo' = {"data", "arg"} \cup (kept \ Elements)
      BY <1>1 DEF NOT_COLLECTING, COLLECTING
    <3>2. c \in Cells /\ live[c] # snap[c]
      BY DEF Differ
    <3>3. CASE c[1] \in Arrays
      <4>1. c[1] \in kept
        BY <1>1, <3>3 DEF HalvesFit
      <4> QED
        BY <3>1, <3>3, <4>1, Addresses
    <3>4. CASE c[1] \in Roots
      <4>1. c = Slot(c[1])
        BY <3>2, <3>4, Addresses
      <4>2. c[1] \notin Letters
        BY <3>2, <4>1 DEF CellsFit, Single
      <4> QED
        BY <3>1, <3>4, <4>2 DEF Roots
    <3> QED
      BY <3>2, <3>3, <3>4, Addresses
  <2> QED
    BY <1>1, <1>2, <1>4, <2>1, <2>2
    DEF HalvesFit, NOT_COLLECTING, COLLECTING, RESTORING_SNAPSHOT
<1>10. ~Unbroken
  BY <1>1, SteadyFacts DEF Steady
<1>11. ASSUME Marking'
       PROVE  MarkerFits' /\ \A c \in Reachable : Safe(live[c])'
  <2>1. /\ phase = COLLECTING /\ todo' = {"data", "arg"} \cup (InList(1 - index) \cap Letters)
        /\ \A c \in Cells : live[c] = snap[c]
        /\ \A n \in Nodes : list[n] # NULL => list[n] = 1 - index
    <3>1. phase = COLLECTING
      BY <1>4, <1>11
    <3>2. \A n \in Nodes : list[n] \in {0, 1, NULL} /\ list[n] # index
      BY <1>1, <3>1 DEF ListsFit, TypeOK
    <3>3. Differ = {}
      BY <1>1, <3>1 DEF HalvesFit
    <3> QED
      BY <1>1, <1>3, <3>1, <3>2, <3>3 DEF Differ
  <2>2. MarkerFits'
    BY <1>2, <1>3, <2>1 DEF MarkerFits, Roots
  <2>3. \A r \in Roots : Slot(r) \in Cells
    BY Addresses
  <2>4. ToEnter' = {snap[Slot(r)] : r \in {q \in todo' : q \in Letters => q \in was_owned}}
    BY <1>2, <1>3 DEF ToEnter, RootsLeft
  <2>5. live[Slot("arg")] \in ToEnter' /\ Data \in ToEnter'
    <3>1. live[Slot("arg")] = snap[Slot("arg")] /\ Data = snap[Slot("data")]
      BY <2>1, <2>3 DEF Roots, Data
    <3>2. "data" \notin Letters /\ "arg" \notin Letters
      BY Addresses
    <3> QED
      BY <2>1, <2>4, <3>1, <3>2
  <2>6. op.do = "copy" => op.from \in ToEnter'
    <3> SUFFICES ASSUME op.do = "copy"
                 PROVE  op.from \in ToEnter'
      OBVIOUS
    <3>1. held \in was_owned /\ list[held] # NULL /\ live[Slot(held)] = op.from
      BY DEF OpFits, CopyFits
    <3>2. held \in Letters /\ held \in Nodes /\ held \in Roots
      BY <3>1 DEF TypeOK, Nodes, Roots
    <3>3. held \in todo' /\ snap[Slot(held)] = op.from
      BY <2>1, <2>3, <3>1, <3>2 DEF InList
    <3> QED
      BY <2>4, <3>1, <3>3
  <2>7. \A c \in Cells : c[1] \in ToEnter' /\ Scanned(c) => live[c] \in Covered'
    <3>1. \A c \in Cells : c[1] \in ToEnter' /\ Scanned(c) => c \in Front'
      BY <1>2 DEF Front, Scanned
    <3> QED
      BY <1>2, <2>1, <3>1 DEF Covered
  <2>8. ASSUME NEW i \in Index
        PROVE  live[<<Source, i>>] \in {NULL} \cup Covered'
    <3>1. Source \in ToEnter' /\ Source \in Arrays
      BY <2>5, <2>6, UserFacts, OpCases DEF Source
    <3>2. <<Source, i>> \in Cells
      BY <3>1, Addresses
    <3>3. i < size[Source] => i < scan_size[Source]
      BY <3>1, VectorAssumption DEF SizesFit, TypeOK, Index
    <3>4. CASE i < size[Source]
      <4> DEFINE c == <<Source, i>>
      <4>1. Scanned(c) /\ c[1] \in ToEnter'
        BY <3>1, <3>3, <3>4 DEF Scanned
      <4> QED
        BY <2>7, <3>2, <4>1
    <3>5. CASE ~(i < size[Source])
      <4>1. i \geq size[Source]
        BY <3>1, <3>5, VectorAssumption DEF TypeOK, Index
      <4>2. live[<<Source, i>>] = NULL
        <5>1. CASE op.do = "copy"
          BY <4>1, <5>1 DEF OpFits, CopyFits, Source
        <5>2. CASE op.do # "copy"
          <6>1. op.do \in {"idle", "then"}
            BY <1>10, <5>2 DEF TypeOK, Unbroken
          <6> QED
            BY <4>1, <6>1 DEF OpFits, Source, Length
        <5> QED
          BY <5>1, <5>2
      <4> QED
        BY <4>2
    <3> QED
      BY <3>4, <3>5
  <2>9. ASSUME NEW i \in Index
        PROVE  live[<<Data, i>>] \in {NULL} \cup Covered'
    <3>1. CASE op.do = "copy"
      <4>1. live[<<Data, i>>] \in {NULL} \cup {live[<<op.from, j>>] : j \in Index}
        BY <3>1 DEF OpFits, CopyFits
      <4>2. Source = op.from
        BY <3>1 DEF Source
      <4> QED
        BY <2>8, <4>1, <4>2
    <3>2. CASE op.do # "copy"
      BY <2>8, <3>2 DEF Source
    <3> QED
      BY <3>1, <3>2
  <2>10. ASSUME NEW c \in Reachable
         PROVE  Safe(live[c])'
    <3>1. c \in Cells /\ c[1] \in {Data, Source, "data", "arg", held}
      BY DEF Reachable
    <3>2. CASE c[1] \in Roots
      <4>1. Data \notin Roots /\ Source \notin Roots
        BY UserFacts, OpCases, Addresses DEF Source
      <4>2. c = Slot("data") \/ c = Slot("arg") \/ c = Slot(held)
        BY <3>1, <3>2, <4>1, Addresses
      <4>3. c = Slot(held) => op.do = "copy" /\ live[c] = op.from
        <5>1. c = Slot(held) => held # NULL
          BY <3>2, Addresses DEF Slot, Nodes
        <5> QED
          BY <5>1 DEF OpFits, CopyFits
      <4>4. live[c] \in ToEnter'
        BY <2>5, <2>6, <4>2, <4>3 DEF Data
      <4> QED
        BY <1>2, <4>4 DEF Safe, Covered
    <3>3. CASE c[1] \notin Roots
      <4>1. c[2] \in Index /\ (c = <<Data, c[2]>> \/ c = <<Source, c[2]>>)
        <5>1. c[1] \in Arrays /\ c[2] \in Index /\ c = <<c[1], c[2]>>
          BY <3>1, <3>3, Addresses
        <5>2. c[1] # held
          BY <5>1, <3>3, Addresses DEF TypeOK, Nodes, Roots
        <5> QED
          BY <3>1, <3>3, <5>1, <5>2 DEF Roots
      <4>2. live[c] \in {NULL} \cup Covered'
        BY <2>8, <2>9, <4>1
      <4> QED
        BY <1>2, <4>2 DEF Safe
    <3> QED
      BY <3>2, <3>3
  <2> QED
    BY <2>2, <2>10
<1>12. todo' \subseteq kept' \cup {"data", "arg"} \/ work' \notin {"restore", "finalize"}
  BY <1>1, <1>2, <1>4 DEF Marking
<1> QED
  BY <1>2, <1>3, <1>5, <1>6, <1>7, <1>8, <1>9, <1>10, <1>11, <1>12, BorderKeeps

-----------------------------------------------------------------------------
(* The collector's steps.                                                  *)

(* While it works the gate is open and nothing that moves elements is under *)
(* way.                                                                    *)
LEMMA AtWork ==
  ASSUME IInv, work # "done"
  PROVE  gate = "open" /\ ~Unbroken
<1>1. gate = "open"
  BY DEF IInv, WorkFits
<1> QED
  BY <1>1 DEF IInv, OpFits, Steady

(* A step that at most brings the snapshot half of a pointer up to date.   *)
LEMMA WalkKeeps ==
  ASSUME IInv, work # "done", UNCHANGED handshakeVars, UNCHANGED mutatorVars,
         TypeOK', WorkFits', HalvesFit', WalkFits',
         at' # NULL => Scanned(at'),
         \A c \in Cells : \/ snap'[c] \in {snap[c], live[c]}
                          \/ c = at /\ fetched # NULL /\ snap'[c] = fetched[1],
         Marking' => Marking /\ MarkerFits' /\ Covered \subseteq Covered' \cup {NULL}
  PROVE  IInv'
<1>1. /\ live' = live /\ list' = list /\ size' = size
      /\ scan_size' = scan_size /\ reserved' = reserved /\ held' = held
      /\ was_owned' = was_owned /\ op' = op
  BY DEF mutatorVars, arrayVars
<1>2. /\ phase' = phase /\ gate' = gate /\ index' = index
      /\ regime' = regime /\ parked' = parked
  BY DEF handshakeVars
<1> USE DEF IInv
<1>3. Data' = Data /\ Source' = Source /\ Length' = Length
  BY <1>1 DEF Data, Source, Length
<1>4. Reachable' = Reachable
  BY <1>1, <1>3 DEF Reachable
<1>5. InStep' /\ ListsFit'
  BY <1>1, <1>2 DEF InStep, ListsFit
<1>6. fetched # NULL =>
        /\ at \in Cells /\ at[1] \notin Single /\ Scanned(at)
        /\ fetched[1] \in Elements \cup {NULL}
        /\ op.do = "copy" => at[1] \notin {Data, op.from}
  BY DEF WalkFits, SizesFit, TypeOK
<1>7. CellsFit'
  <2>1. ASSUME NEW c \in Cells, c[1] \notin Single
        PROVE  live'[c] \in Elements \cup {NULL} /\ snap'[c] \in Elements \cup {NULL}
    BY <1>1, <1>6, <2>1 DEF CellsFit
  <2>2. ASSUME NEW r \in Single
        PROVE  live'[Slot(r)] = snap'[Slot(r)] /\ live'[Slot(r)] \in Arrays \cup {NULL}
    <3>1. Slot(r) \in Cells /\ Slot(r)[1] = r
      BY Addresses DEF Single, Roots
    <3>2. fetched # NULL => Slot(r) # at
      BY <1>6, <3>1
    <3> QED
      BY <1>1, <3>1, <3>2 DEF CellsFit
  <2> QED
    BY <2>1, <2>2 DEF CellsFit
<1>8. SizesFit'
  <2>1. \A c : Scanned(c)' <=> Scanned(c)
    BY <1>1 DEF Scanned
  <2>2. \A a \in Arrays : size'[a] \leq scan_size'[a]
    BY <1>1 DEF SizesFit
  <2>3. at' # NULL => Scanned(at)'
    BY <1>1 DEF Scanned
  <2>4. \A c \in Cells : live'[c] # snap'[c] => Scanned(c)
    BY <1>1, <1>6 DEF SizesFit
  <2> QED
    BY <2>1, <2>2, <2>3, <2>4 DEF SizesFit
<1>9. FreeIsBlank'
  <2> SUFFICES ASSUME NEW a \in Arrays, list[a] = NULL, NEW i \in Index
               PROVE  snap'[<<a, i>>] = NULL
    BY <1>1 DEF FreeIsBlank
  <2>1. <<a, i>> \in Cells /\ a \notin Roots /\ i \in Nat
    BY Addresses
  <2>2. fetched # NULL => <<a, i>> # at
    <3>1. scan_size[a] = 0
      BY DEF FreeIsBlank
    <3>2. ~Scanned(<<a, i>>)
      BY <2>1, <3>1 DEF Scanned
    <3> QED
      BY <1>6, <3>2
  <2>3. live[<<a, i>>] = NULL /\ snap[<<a, i>>] = NULL
    BY DEF FreeIsBlank
  <2> QED
    BY <2>1, <2>2, <2>3
<1>10. OpFits'
  <2>1. ~Unbroken'
    BY <1>1, AtWork DEF Unbroken
  <2>2. op.do = "copy" => CopyFits'
    <3> SUFFICES ASSUME op.do = "copy"
                 PROVE  CopyFits'
      OBVIOUS
    <3>1. CopyFits /\ Data \in Arrays /\ op.from \in Arrays
      BY UserFacts, OpCases DEF OpFits
    <3>2. \A i \in Index : /\ <<op.from, i>> \in Cells /\ <<op.from, i>>[1] = op.from
                           /\ <<Data, i>> \in Cells /\ <<Data, i>>[1] = Data
      BY <3>1, Addresses
    <3>3. \A i \in Index : /\ snap'[<<op.from, i>>] = snap[<<op.from, i>>]
                           /\ snap'[<<Data, i>>] = snap[<<Data, i>>]
      <4>1. \A i \in Index : /\ live[<<op.from, i>>] = snap[<<op.from, i>>]
                             /\ live[<<Data, i>>] = snap[<<Data, i>>]
        BY <3>1 DEF CopyFits
      <4>2. fetched # NULL => at[1] # Data /\ at[1] # op.from
        BY <1>6
      <4> QED
        BY <3>2, <4>1, <4>2
    <3>4. /\ op'.from # Data' /\ op'.i \leq size'[op'.from]
          /\ op'.job \in {"push_front", "insert"} => size'[op'.from] < MaxSize
          /\ op'.n \leq size'[op'.from] \/ op'.job # "insert"
          /\ held' \in was_owned' /\ list'[held'] # NULL /\ live'[Slot(held')] = op'.from
          /\ size'[Data'] = 0 /\ scan_size'[Data'] = 0
      BY <1>1, <1>3, <3>1 DEF CopyFits
    <3>5. ASSUME NEW i \in Index
          PROVE  /\ live'[<<op'.from, i>>] = snap'[<<op'.from, i>>]
                 /\ live'[<<Data', i>>] = snap'[<<Data', i>>]
                 /\ i \geq size'[op'.from] => live'[<<op'.from, i>>] = NULL
                 /\ (IF op'.job = "push_front" THEN i > size'[op'.from] ELSE i \geq size'[op'.from])
                      => live'[<<Data', i>>] = NULL
      BY <1>1, <1>3, <3>1, <3>3 DEF CopyFits
    <3>6. ASSUME NEW i \in Index
          PROVE  live'[<<Data', i>>] \in {NULL} \cup {live'[<<op'.from, j>>] : j \in Index}
      <4>1. live[<<Data, i>>] \in {NULL} \cup {live[<<op.from, j>>] : j \in Index}
        BY <3>1 DEF CopyFits
      <4> QED
        BY <1>1, <1>3, <4>1
    <3> QED
      BY <3>4, <3>5, <3>6 DEF CopyFits
  <2>3. ShiftFits' <=> ShiftFits
    BY <1>1, <1>3 DEF ShiftFits
  <2> QED
    BY <1>1, <1>3, <2>1, <2>2, <2>3 DEF OpFits, Unbroken
<1>11. LiveFits'
  BY <1>1, <1>4 DEF LiveFits
<1>12. Marking' => MarkerFits' /\ \A c \in Reachable' : Safe(live[c])'
  BY <1>1, <1>2, <1>4 DEF Safe
<1> QED
  BY <1>5, <1>7, <1>8, <1>9, <1>10, <1>11, <1>12

(* A walk begins at the last cell of its node and goes down cell by cell.  *)
LEMMA EnterFits ==
  ASSUME IInv, NEW n \in Nodes \cup Roots
  PROVE  /\ Enter(n) # NULL => /\ Enter(n) \in Cells /\ Enter(n)[1] = n /\ Scanned(Enter(n))
                               /\ n \in Arrays \cup Roots
         /\ \A c \in Cells : c[1] = n /\ Scanned(c) => Enter(n) # NULL /\ c[2] \leq Enter(n)[2]
<1>1. CASE n \in Arrays
  <2>1. scan_size[n] \in 0 .. MaxSize /\ MaxSize \in Nat /\ n \notin Roots /\ Count(n) = scan_size[n]
    BY <1>1, Addresses, VectorAssumption DEF IInv, TypeOK, Count
  <2>2. CASE Count(n) = 0
    <3>1. Enter(n) = NULL
      BY <2>2 DEF Enter
    <3>2. ASSUME NEW c \in Cells, c[1] = n, Scanned(c)
          PROVE  FALSE
      <4>1. c[2] \in Nat /\ c[2] < scan_size[n]
        BY <1>1, <2>1, <3>2, Addresses DEF Scanned
      <4> QED
        BY <2>1, <2>2, <4>1
    <3> QED
      BY <3>1, <3>2
  <2>3. CASE Count(n) # 0
    <3>1. scan_size[n] - 1 \in Index /\ scan_size[n] - 1 < scan_size[n]
      BY <2>1, <2>3 DEF Index
    <3>2. Enter(n) = <<n, scan_size[n] - 1>>
      BY <2>1, <2>3 DEF Enter
    <3>3. Enter(n) \in Cells /\ Enter(n) # NULL
      BY <1>1, <3>1, <3>2, Addresses
    <3>4. Enter(n)[1] = n /\ Enter(n)[2] = scan_size[n] - 1 /\ Scanned(Enter(n))
      BY <3>1, <3>2 DEF Scanned
    <3>5. ASSUME NEW c \in Cells, c[1] = n, Scanned(c)
          PROVE  c[2] \leq scan_size[n] - 1
      <4>1. c[2] \in Nat /\ c[2] < scan_size[n]
        BY <1>1, <2>1, <3>5, Addresses DEF Scanned
      <4> QED
        BY <2>1, <4>1
    <3> QED
      BY <1>1, <3>3, <3>4, <3>5
  <2> QED
    BY <2>2, <2>3
<1>2. CASE n \in Roots
  <2>1. n \notin Arrays
    BY <1>2, Addresses
  <2>2. Enter(n) = Slot(n) /\ Slot(n) \in Cells /\ Slot(n) # NULL
    BY <1>2, <2>1, Addresses DEF Enter, Count, Slot
  <2>3. Slot(n)[1] = n /\ Slot(n)[2] = 0
    BY DEF Slot
  <2>4. \A c \in Cells : c[1] = n => c[2] = 0
    BY <1>2, <2>1, Addresses
  <2> QED
    BY <1>2, <2>2, <2>3, <2>4 DEF Scanned
<1>3. CASE n \notin Arrays \cup Roots
  <2>1. Enter(n) = NULL
    BY <1>3 DEF Enter, Count
  <2>2. \A c \in Cells : c[1] # n
    BY <1>3, Addresses
  <2> QED
    BY <2>1, <2>2
<1> QED
  BY <1>1, <1>2, <1>3

LEMMA BelowFits ==
  ASSUME IInv, at # NULL
  PROVE  /\ at \in Cells /\ Scanned(at)
         /\ Below(at) # NULL =>
              Below(at) \in Cells /\ Below(at)[1] = at[1] /\ Scanned(Below(at))
         /\ \A c \in Cells : Yet(c) =>
              c = at \/ (Below(at) # NULL /\ c[1] = Below(at)[1] /\ c[2] \leq Below(at)[2])
<1>1. at \in Cells /\ Scanned(at)
  BY DEF IInv, TypeOK, SizesFit
<1>2. CASE at[2] = 0
  <2>1. Below(at) = NULL
    BY <1>2 DEF Below
  <2>2. ASSUME NEW c \in Cells, Yet(c)
        PROVE  c = at
    <3>1. c[1] = at[1] /\ c[2] \leq at[2]
      BY <2>2 DEF Yet
    <3>2. c[2] \in Nat
      BY Addresses
    <3>3. c[2] = 0
      BY <1>2, <3>1, <3>2
    <3> QED
      BY <1>1, <1>2, <3>1, <3>3, Addresses DEF Slot
  <2> QED
    BY <1>1, <2>1, <2>2
<1>3. CASE at[2] # 0
  <2>1. at[1] \in Arrays /\ at[2] \in Index /\ at = <<at[1], at[2]>> /\ at[1] \notin Roots
    BY <1>1, <1>3, Addresses
  <2>2. at[2] - 1 \in Index /\ at[2] \in Nat
    <3>1. MaxSize \in Nat
      BY VectorAssumption
    <3> QED
      BY <1>3, <2>1, <3>1 DEF Index
  <2>3. Below(at) = <<at[1], at[2] - 1>>
    BY <1>3 DEF Below
  <2>4. Below(at) \in Cells /\ Below(at) # NULL /\ Below(at)[1] = at[1] /\ Below(at)[2] = at[2] - 1
    BY <2>1, <2>2, <2>3, Addresses
  <2>5. Scanned(Below(at))
    <3>1. at[2] < scan_size[at[1]] /\ scan_size[at[1]] \in Nat
      BY <1>1, <2>1, VectorAssumption DEF Scanned, IInv, TypeOK
    <3>2. at[2] - 1 < scan_size[at[1]]
      BY <2>2, <3>1
    <3> QED
      BY <2>4, <3>2 DEF Scanned
  <2>6. ASSUME NEW c \in Cells, Yet(c), c # at
        PROVE  c[1] = at[1] /\ c[2] \leq at[2] - 1
    <3>1. c[1] = at[1] /\ c[2] \leq at[2]
      BY <2>6 DEF Yet
    <3>2. c[2] \in Nat /\ c = <<c[1], c[2]>>
      BY Addresses DEF Slot
    <3>3. c[2] # at[2]
      BY <2>1, <2>6, <3>1, <3>2
    <3> QED
      BY <2>2, <3>1, <3>2, <3>3
  <2> QED
    BY <1>1, <2>4, <2>5, <2>6
<1> QED
  BY <1>2, <1>3

(* The collector's own part of the type invariant.                         *)
CollectorTypes ==
  /\ work \in Work
  /\ todo \subseteq Arrays \cup Roots /\ current \in Letters \cup {NULL}
  /\ at \in Cells \cup {NULL}
  /\ marked \subseteq Arrays \cup Elements /\ kept \subseteq Nodes
  /\ fetched = NULL \/ fetched \in [{1} -> Elements \cup Arrays \cup {NULL}]

LEMMA CollectorTypesKeep ==
  ASSUME IInv, UNCHANGED handshakeVars, UNCHANGED mutatorVars,
         snap' \in [Cells -> Arrays \cup Elements \cup {NULL}], CollectorTypes'
  PROVE  TypeOK'
<1>1. /\ live' = live /\ list' = list /\ size' = size
      /\ scan_size' = scan_size /\ reserved' = reserved /\ held' = held
      /\ was_owned' = was_owned /\ op' = op
  BY DEF mutatorVars, arrayVars
<1>2. /\ phase' = phase /\ gate' = gate /\ index' = index
      /\ regime' = regime /\ parked' = parked
  BY DEF handshakeVars
<1> QED
  BY <1>1, <1>2 DEF IInv, TypeOK, CollectorTypes, Data

(* A step of the marker touches no pointer.                                *)
LEMMA MarkerKeeps ==
  ASSUME IInv, Marking, UNCHANGED handshakeVars, UNCHANGED mutatorVars,
         UNCHANGED <<snap, work, kept, fetched>>,
         CollectorTypes', MarkerFits',
         at' # NULL => Scanned(at'),
         Covered \subseteq Covered' \cup {NULL}
  PROVE  IInv'
<1>1. /\ live' = live /\ list' = list /\ op' = op /\ held' = held
      /\ scan_size' = scan_size
      /\ snap' = snap /\ work' = work /\ kept' = kept /\ fetched' = fetched
      /\ phase' = phase /\ gate' = gate
  BY DEF mutatorVars, arrayVars, handshakeVars
<1> USE DEF IInv
<1>2. work = "mark" /\ work' = "mark" /\ Marking' /\ gate = "open"
  BY <1>1, MarkingEra DEF Marking
<1>3. TypeOK'
  BY <1>1, CollectorTypesKeep DEF TypeOK
<1>4. WorkFits'
  BY <1>1, <1>2 DEF WorkFits, Marking
<1>5. HalvesFit'
  BY <1>1, <1>2 DEF HalvesFit, Differ
<1>6. WalkFits'
  BY <1>1, <1>2 DEF WalkFits, WorkFits
<1> QED
  BY <1>1, <1>2, <1>3, <1>4, <1>5, <1>6, WalkKeeps

LEMMA MarkRootKeeps ==
  ASSUME IInv, MarkRoot
  PROVE  IInv'
<1>1. PICK r \in todo :
        /\ IF (r \in Letters => r \in was_owned) /\ snap[Slot(r)] \notin marked \cup {NULL}
           THEN /\ marked' = marked \cup {snap[Slot(r)]}
                /\ at' = Enter(snap[Slot(r)])
           ELSE UNCHANGED <<marked, at>>
        /\ todo' = todo \ {r}
        /\ current' = IF r \in Letters THEN r ELSE NULL
  BY DEF MarkRoot
<1>2. /\ work = "mark" /\ at = NULL /\ current = NULL
      /\ UNCHANGED handshakeVars /\ UNCHANGED mutatorVars
      /\ snap' = snap /\ work' = work /\ kept' = kept /\ fetched' = fetched
  BY DEF MarkRoot
<1>3. live' = live /\ was_owned' = was_owned /\ scan_size' = scan_size
  BY <1>2 DEF mutatorVars, arrayVars
<1> USE DEF IInv
<1> DEFINE v == snap[Slot(r)]
           entered == (r \in Letters => r \in was_owned) /\ v \notin marked \cup {NULL}
<1>4. Marking /\ todo \subseteq Roots
  BY <1>2 DEF Marking, MarkerFits
<1>5. r \in Roots /\ Slot(r) \in Cells /\ v \in Arrays \cup Elements \cup {NULL}
  BY <1>1, <1>4, UserFacts, Addresses
<1>6. entered => /\ marked' = marked \cup {v} /\ at' = Enter(v)
                 /\ v \in Nodes /\ v \in Arrays \cup Elements /\ v \notin Roots
  BY <1>1, <1>5, Addresses DEF Nodes
<1>7. ~entered => marked' = marked /\ at' = NULL
  BY <1>1, <1>2
<1>8. at' # NULL => at' \in Cells /\ Scanned(at') /\ at'[1] \in Arrays
  BY <1>6, <1>7, EnterFits
<1>9. CollectorTypes'
  BY <1>1, <1>2, <1>5, <1>6, <1>7, <1>8 DEF TypeOK, CollectorTypes
<1>10. MarkerFits'
  BY <1>1, <1>4, <1>8 DEF MarkerFits
<1>11. \A q \in RootsLeft : q = r \/ q \in RootsLeft'
  BY <1>1, <1>3 DEF RootsLeft
<1>12. \A x \in ToEnter : x \in marked' \cup ToEnter' \cup {NULL}
  <2> SUFFICES ASSUME NEW q \in RootsLeft, snap[Slot(q)] \notin marked
               PROVE  snap[Slot(q)] \in marked' \cup ToEnter' \cup {NULL}
    BY DEF ToEnter
  <2>1. CASE q = r
    BY <1>6, <2>1 DEF RootsLeft
  <2>2. CASE q \in RootsLeft'
    BY <1>2, <2>2 DEF ToEnter
  <2> QED
    BY <1>11, <2>1, <2>2
<1>13. \A x \in ToEnter : x # NULL => x \in ToEnter' \/ (entered /\ x = v)
  <2> SUFFICES ASSUME NEW x \in ToEnter, x # NULL, x \notin ToEnter'
               PROVE  entered /\ x = v
    OBVIOUS
  <2>1. x \in marked' /\ x \notin marked
    BY <1>12 DEF ToEnter
  <2> QED
    BY <1>6, <1>7, <2>1
<1>14. \A c \in Front : c \in Front'
  <2> SUFFICES ASSUME NEW c \in Front
               PROVE  c \in Front'
    OBVIOUS
  <2>1. c \in Cells /\ Scanned(c) /\ c[1] \in ToEnter
    BY <1>2 DEF Front, Yet
  <2>2. c[1] # NULL /\ Scanned(c)'
    BY <1>3, <2>1, Addresses DEF Scanned, Nodes
  <2>3. CASE c[1] \in ToEnter'
    BY <2>1, <2>2, <2>3 DEF Front
  <2>4. CASE entered /\ c[1] = v
    <3>1. at' # NULL /\ at'[1] = c[1] /\ c[2] \leq at'[2]
      BY <1>6, <2>1, <2>4, EnterFits
    <3> QED
      BY <2>1, <2>2, <3>1 DEF Front, Yet
  <2> QED
    BY <1>13, <2>1, <2>2, <2>3, <2>4
<1>15. Covered \subseteq Covered' \cup {NULL}
  <2>1. marked \subseteq marked'
    BY <1>6, <1>7
  <2> QED
    BY <1>2, <1>12, <1>14, <2>1 DEF Covered
<1> QED
  BY <1>2, <1>4, <1>8, <1>9, <1>10, <1>15, MarkerKeeps

LEMMA MarkElementKeeps ==
  ASSUME IInv, MarkElement
  PROVE  IInv'
<1>1. /\ work = "mark" /\ at # NULL
      /\ marked' = marked \cup ({snap[at]} \ {NULL}) /\ at' = Below(at)
      /\ UNCHANGED handshakeVars /\ UNCHANGED mutatorVars
      /\ snap' = snap /\ work' = work /\ kept' = kept /\ fetched' = fetched
      /\ todo' = todo /\ current' = current
  BY DEF MarkElement
<1>2. live' = live /\ was_owned' = was_owned /\ scan_size' = scan_size
  BY <1>1 DEF mutatorVars, arrayVars
<1> USE DEF IInv
<1>3. Marking /\ at[1] \in Arrays
  BY <1>1 DEF Marking, MarkerFits
<1>4. at \in Cells /\ Scanned(at) /\ snap[at] \in Elements \cup {NULL}
  <2>1. at \in Cells /\ Scanned(at)
    BY <1>1, BelowFits
  <2>2. at[1] \notin Single
    BY <1>3, Addresses DEF Single, Roots
  <2> QED
    BY <2>1, <2>2 DEF CellsFit
<1>5. at' # NULL => at' \in Cells /\ Scanned(at') /\ at'[1] = at[1]
  BY <1>1, BelowFits
<1>6. CollectorTypes'
  BY <1>1, <1>4, <1>5 DEF TypeOK, CollectorTypes
<1>7. MarkerFits'
  BY <1>1, <1>3, <1>5 DEF MarkerFits
<1>8. RootsLeft' = RootsLeft
  BY <1>1, <1>2 DEF RootsLeft
<1>9. \A x \in ToEnter : x \in ToEnter' \/ x \in marked'
  BY <1>1, <1>8 DEF ToEnter
<1>10. \A c \in Front : c \in Front' \/ c = at
  <2> SUFFICES ASSUME NEW c \in Front, c # at
               PROVE  c \in Front'
    OBVIOUS
  <2>1. c \in Cells /\ Scanned(c) /\ (c[1] \in ToEnter \/ Yet(c))
    BY DEF Front
  <2>2. Scanned(c)'
    BY <1>2, <2>1 DEF Scanned
  <2>3. CASE c[1] \in ToEnter
    <3>1. c[1] \notin Elements \cup {NULL} /\ c[1] \notin marked
      BY <2>1, <2>3, Addresses DEF ToEnter, Nodes
    <3>2. c[1] \notin marked'
      BY <1>1, <1>4, <3>1
    <3> QED
      BY <1>9, <2>1, <2>2, <2>3, <3>2 DEF Front
  <2>4. CASE Yet(c)
    <3>1. at' # NULL /\ c[1] = at'[1] /\ c[2] \leq at'[2]
      BY <1>1, <2>1, <2>4, BelowFits
    <3> QED
      BY <2>1, <2>2, <3>1 DEF Front, Yet
  <2> QED
    BY <2>1, <2>3, <2>4
<1>11. Covered \subseteq Covered' \cup {NULL}
  <2>1. marked \subseteq marked' /\ snap[at] \in marked' \cup {NULL}
    BY <1>1
  <2> QED
    BY <1>1, <1>9, <1>10, <2>1 DEF Covered
<1> QED
  BY <1>1, <1>3, <1>5, <1>6, <1>7, <1>11, MarkerKeeps

LEMMA RestorerFacts ==
  ASSUME IInv, work \in {"restore", "finalize"}
  PROVE  /\ gate = "open" /\ ~Marking /\ work # "done" /\ current = NULL /\ marked = {}
         /\ work = "restore" => phase = RESTORING_SNAPSHOT
         /\ work = "finalize" => phase = NOT_COLLECTING /\ fetched = NULL
         /\ at = NULL => fetched = NULL
BY AtWork DEF IInv, WorkFits, WalkFits, Marking

(* A step of the walks that mend the pointers.                             *)
LEMMA RestorerKeeps ==
  ASSUME IInv, work \in {"restore", "finalize"},
         UNCHANGED handshakeVars, UNCHANGED mutatorVars, UNCHANGED <<current, marked>>,
         work' = work \/ (work' = "done" /\ at' = NULL),
         work' # "restore" => fetched' = NULL,
         snap' \in [Cells -> Arrays \cup Elements \cup {NULL}],
         CollectorTypes', HalvesFit', WalkFits',
         at' # NULL => Scanned(at'),
         \A c \in Cells : \/ snap'[c] \in {snap[c], live[c]}
                          \/ c = at /\ fetched # NULL /\ snap'[c] = fetched[1]
  PROVE  IInv'
<1>1. phase' = phase /\ gate' = gate /\ current' = current /\ marked' = marked
  BY DEF handshakeVars
<1>2. gate = "open" /\ ~Marking /\ work # "done" /\ current = NULL /\ marked = {}
      /\ (work = "restore" => phase = RESTORING_SNAPSHOT)
      /\ (work = "finalize" => phase = NOT_COLLECTING)
  BY RestorerFacts
<1>3. ~Marking'
  BY DEF Marking
<1>4. WorkFits'
  BY <1>1, <1>2, <1>3 DEF WorkFits
<1>5. TypeOK'
  BY CollectorTypesKeep
<1> QED
  BY <1>2, <1>3, <1>4, <1>5, WalkKeeps

LEMMA VisitNodeKeeps ==
  ASSUME IInv, VisitNode
  PROVE  IInv'
<1>1. PICK n \in todo : todo' = todo \ {n} /\ at' = Enter(n)
  BY DEF VisitNode
<1>2. /\ work \in {"restore", "finalize"} /\ at = NULL
      /\ UNCHANGED handshakeVars /\ UNCHANGED mutatorVars
      /\ snap' = snap /\ work' = work /\ current' = current /\ marked' = marked
      /\ kept' = kept /\ fetched' = fetched
  BY DEF VisitNode
<1>3. live' = live /\ scan_size' = scan_size /\ phase' = phase /\ gate' = gate
      /\ op' = op
  BY <1>2 DEF mutatorVars, arrayVars, handshakeVars
<1>4. fetched = NULL /\ work # "done" /\ work # "mark"
  BY <1>2, RestorerFacts DEF Marking
<1> USE DEF IInv
<1>5. n \in Nodes \cup Roots /\ n \in kept \cup {"data", "arg"}
  BY <1>1, <1>2 DEF TypeOK, WalkFits, Nodes
<1>6. at' # NULL => at' \in Cells /\ Scanned(at') /\ at'[1] = n
  BY <1>1, <1>5, EnterFits
<1>7. CollectorTypes'
  BY <1>1, <1>2, <1>4, <1>6 DEF TypeOK, CollectorTypes
<1>8. WalkFits'
  BY <1>1, <1>2, <1>4, <1>5, <1>6 DEF WalkFits
<1>9. HalvesFit'
  <2>1. Differ' = Differ
    BY <1>2, <1>3 DEF Differ
  <2>2. work = "finalize" => \A c \in Differ : c[1] \in todo' \/ Yet(c)'
    <3> SUFFICES ASSUME work = "finalize", NEW c \in Differ, c[1] \notin todo'
                 PROVE  Yet(c)'
      OBVIOUS
    <3>1. c[1] = n /\ c \in Cells /\ Scanned(c)
      BY <1>1, <1>2 DEF HalvesFit, Differ, SizesFit, Yet
    <3> QED
      BY <1>1, <1>5, <3>1, EnterFits DEF Yet
  <2> QED
    BY <1>2, <1>3, <1>4, <2>1, <2>2 DEF HalvesFit
<1>10. snap' \in [Cells -> Arrays \cup Elements \cup {NULL}]
  BY <1>2 DEF TypeOK
<1>u. /\ UNCHANGED <<current, marked>> /\ work' = work /\ (work' # "restore" => fetched' = NULL)
      /\ \A c \in Cells : \/ snap'[c] \in {snap[c], live[c]}
                          \/ c = at /\ fetched # NULL /\ snap'[c] = fetched[1]
  BY <1>2, <1>4
<1> HIDE DEF IInv
<1> QED
  BY <1>2, <1>4, <1>6, <1>7, <1>8, <1>9, <1>10, <1>u, RestorerKeeps

LEMMA FastReadKeeps ==
  ASSUME IInv, FastRead
  PROVE  IInv'
<1>1. /\ work = "restore" /\ at # NULL /\ fetched = NULL
      /\ IF live[at] = snap[at] THEN at' = Below(at) /\ fetched' = fetched
         ELSE fetched' = <<live[at]>> /\ at' = at
      /\ UNCHANGED handshakeVars /\ UNCHANGED mutatorVars
      /\ snap' = snap /\ work' = work /\ current' = current /\ marked' = marked
      /\ kept' = kept /\ todo' = todo
  BY DEF FastRead
<1>2. live' = live /\ scan_size' = scan_size /\ phase' = phase /\ gate' = gate
      /\ op' = op
  BY <1>1 DEF mutatorVars, arrayVars, handshakeVars
<1> USE DEF IInv
<1>3. phase = RESTORING_SNAPSHOT /\ gate = "open" /\ at \in Cells /\ Scanned(at)
      /\ at[1] \in kept \cup {"data", "arg"}
  BY <1>1, RestorerFacts, BelowFits DEF WalkFits
<1>4. at' # NULL => at' \in Cells /\ Scanned(at') /\ at'[1] = at[1]
  BY <1>1, <1>3, BelowFits
<1>5. ASSUME fetched' # NULL
      PROVE  /\ fetched' = <<live[at]>> /\ at' = at /\ at[1] \notin Single
             /\ live[at] \in Elements \cup {NULL}
             /\ op.do = "copy" => at[1] \notin {Data, op.from}
  <2>1. fetched' = <<live[at]>> /\ at' = at /\ live[at] # snap[at]
    BY <1>1, <1>5
  <2>2. at[1] \notin Single
    <3>1. at[1] \in Single => at = Slot(at[1])
      BY <1>3, Addresses DEF Single, Roots
    <3> QED
      BY <2>1, <3>1 DEF CellsFit
  <2>3. op.do = "copy" => at[1] \notin {Data, op.from}
    <3> SUFFICES ASSUME op.do = "copy", at[1] = Data \/ at[1] = op.from
                 PROVE  FALSE
      OBVIOUS
    <3>1. at[1] \in Arrays
      BY UserFacts, OpCases
    <3>2. at[2] \in Index /\ at = <<at[1], at[2]>>
      BY <1>3, <3>1, Addresses
    <3>3. live[<<at[1], at[2]>>] = snap[<<at[1], at[2]>>]
      BY <3>2 DEF OpFits, CopyFits
    <3> QED
      BY <2>1, <3>2, <3>3
  <2> QED
    BY <1>3, <2>1, <2>2, <2>3 DEF CellsFit
<1>6. CollectorTypes'
  <2>1. fetched' = NULL \/ fetched' \in [{1} -> Elements \cup Arrays \cup {NULL}]
    <3> SUFFICES ASSUME fetched' # NULL
                 PROVE  fetched' \in [{1} -> Elements \cup Arrays \cup {NULL}]
      OBVIOUS
    <3>1. \A x \in Elements \cup {NULL} : <<x>> \in [{1} -> Elements \cup Arrays \cup {NULL}]
      OBVIOUS
    <3> QED
      BY <1>5, <3>1
  <2> QED
    BY <1>1, <1>3, <1>4, <2>1 DEF TypeOK, CollectorTypes
<1>7. WalkFits'
  <2>1. fetched' # NULL => fetched'[1] = live[at]
    BY <1>5
  <2>2. Data' = Data
    BY <1>2 DEF Data
  <2> QED
    BY <1>1, <1>2, <1>3, <1>4, <1>5, <2>1, <2>2 DEF WalkFits
<1>8. HalvesFit'
  <2>1. Differ' = Differ
    BY <1>1, <1>2 DEF Differ
  <2> QED
    BY <1>1, <1>2, <1>3, <2>1
    DEF HalvesFit, NOT_COLLECTING, COLLECTING, RESTORING_SNAPSHOT
<1>9. snap' \in [Cells -> Arrays \cup Elements \cup {NULL}]
  BY <1>1 DEF TypeOK
<1>u. /\ UNCHANGED <<current, marked>> /\ work' = work /\ (work' # "restore" => fetched' = NULL)
      /\ \A c \in Cells : \/ snap'[c] \in {snap[c], live[c]}
                          \/ c = at /\ fetched # NULL /\ snap'[c] = fetched[1]
  BY <1>1
<1> HIDE DEF IInv
<1> QED
  BY <1>1, <1>4, <1>6, <1>7, <1>8, <1>9, <1>u, RestorerKeeps

LEMMA FastWriteKeeps ==
  ASSUME IInv, FastWrite
  PROVE  IInv'
<1>1. /\ work = "restore" /\ fetched # NULL /\ fetched' = NULL
      /\ at' = Below(at) /\ snap' = [snap EXCEPT ![at] = fetched[1]]
      /\ UNCHANGED handshakeVars /\ UNCHANGED mutatorVars
      /\ work' = work /\ current' = current /\ marked' = marked
      /\ kept' = kept /\ todo' = todo
  BY DEF FastWrite, Stored
<1>2. live' = live /\ scan_size' = scan_size /\ phase' = phase /\ gate' = gate
  BY <1>1 DEF mutatorVars, arrayVars, handshakeVars
<1> USE DEF IInv
<1>3. phase = RESTORING_SNAPSHOT /\ gate = "open"
  BY <1>1, RestorerFacts
<1>4. at # NULL /\ at[1] \in kept \cup {"data", "arg"} /\ fetched[1] \in Elements \cup {NULL}
  BY <1>1 DEF WalkFits
<1>5. at \in Cells
      /\ (at' # NULL => at' \in Cells /\ Scanned(at') /\ at'[1] = at[1])
  BY <1>1, <1>4, BelowFits
<1>6. /\ snap' \in [Cells -> Arrays \cup Elements \cup {NULL}]
      /\ \A c \in Cells : snap'[c] = IF c = at THEN fetched[1] ELSE snap[c]
  BY <1>1, <1>4, <1>5 DEF TypeOK
<1>7. CollectorTypes'
  BY <1>1, <1>5 DEF TypeOK, CollectorTypes
<1>8. WalkFits'
  BY <1>1, <1>4, <1>5 DEF WalkFits
<1>9. HalvesFit'
  <2>1. Differ' \subseteq Differ \cup {at}
    BY <1>2, <1>6 DEF Differ
  <2>2. at[1] \in Arrays => at[1] \in kept
    BY <1>4, Addresses DEF Roots
  <2> QED
    BY <1>1, <1>2, <1>3, <2>1, <2>2
    DEF HalvesFit, NOT_COLLECTING, COLLECTING, RESTORING_SNAPSHOT
<1>u. /\ UNCHANGED <<current, marked>> /\ work' = work /\ (work' # "restore" => fetched' = NULL)
      /\ \A c \in Cells : \/ snap'[c] \in {snap[c], live[c]}
                          \/ c = at /\ fetched # NULL /\ snap'[c] = fetched[1]
  BY <1>1, <1>6
<1> HIDE DEF IInv
<1> QED
  BY <1>1, <1>5, <1>6, <1>7, <1>8, <1>9, <1>u, RestorerKeeps

LEMMA RestoreKeeps ==
  ASSUME IInv, Restore
  PROVE  IInv'
<1>1. /\ work = "finalize" /\ at # NULL
      /\ at' = Below(at) /\ snap' = [snap EXCEPT ![at] = live[at]]
      /\ UNCHANGED handshakeVars /\ UNCHANGED mutatorVars
      /\ work' = work /\ current' = current /\ marked' = marked
      /\ kept' = kept /\ todo' = todo /\ fetched' = fetched
  BY DEF Restore, Mended, Stored
<1>2. live' = live /\ scan_size' = scan_size /\ phase' = phase /\ gate' = gate
  BY <1>1 DEF mutatorVars, arrayVars, handshakeVars
<1> USE DEF IInv
<1>3. phase = NOT_COLLECTING /\ gate = "open" /\ fetched = NULL
  BY <1>1, RestorerFacts
<1>4. at[1] \in kept \cup {"data", "arg"}
  BY <1>1 DEF WalkFits
<1>5. at \in Cells
      /\ (at' # NULL => at' \in Cells /\ Scanned(at') /\ at'[1] = at[1])
  BY <1>1, BelowFits
<1>6. /\ snap' \in [Cells -> Arrays \cup Elements \cup {NULL}]
      /\ \A c \in Cells : snap'[c] = IF c = at THEN live[at] ELSE snap[c]
  BY <1>1, <1>5 DEF TypeOK
<1>7. CollectorTypes'
  BY <1>1, <1>5 DEF TypeOK, CollectorTypes
<1>8. WalkFits'
  BY <1>1, <1>3, <1>4, <1>5 DEF WalkFits
<1>9. HalvesFit'
  <2>1. Differ' \subseteq Differ \ {at}
    BY <1>2, <1>6 DEF Differ
  <2>2. \A c \in Differ : c # at /\ Yet(c) => Yet(c)'
    BY <1>1, BelowFits DEF Yet, Differ
  <2> QED
    BY <1>1, <1>2, <1>3, <2>1, <2>2
    DEF HalvesFit, NOT_COLLECTING, COLLECTING, RESTORING_SNAPSHOT
<1>u. /\ UNCHANGED <<current, marked>> /\ work' = work /\ (work' # "restore" => fetched' = NULL)
      /\ \A c \in Cells : \/ snap'[c] \in {snap[c], live[c]}
                          \/ c = at /\ fetched # NULL /\ snap'[c] = fetched[1]
  BY <1>1, <1>6, <1>3
<1> HIDE DEF IInv
<1> QED
  BY <1>1, <1>3, <1>5, <1>6, <1>7, <1>8, <1>9, <1>u, RestorerKeeps

LEMMA WorkDoneKeeps ==
  ASSUME IInv, WorkDone
  PROVE  IInv'
<1>1. /\ work \in {"restore", "finalize"} /\ todo = {} /\ at = NULL /\ work' = "done"
      /\ kept' = IF work = "finalize" THEN {} ELSE kept
      /\ UNCHANGED handshakeVars /\ UNCHANGED mutatorVars
      /\ snap' = snap /\ current' = current /\ marked' = marked
      /\ todo' = todo /\ at' = at /\ fetched' = fetched
  BY DEF WorkDone
<1>2. live' = live /\ phase' = phase /\ gate' = gate
  BY <1>1 DEF mutatorVars, handshakeVars
<1> USE DEF IInv
<1>3. /\ gate = "open" /\ fetched = NULL
      /\ work = "restore" => phase = RESTORING_SNAPSHOT
      /\ work = "finalize" => phase = NOT_COLLECTING
  BY <1>1, RestorerFacts
<1>4. CollectorTypes'
  BY <1>1, <1>3 DEF TypeOK, CollectorTypes, Work
<1>5. WalkFits'
  BY <1>1, <1>3 DEF WalkFits
<1>6. HalvesFit'
  <2>1. Differ' = Differ
    BY <1>1, <1>2 DEF Differ
  <2>2. work = "finalize" => Differ = {}
    BY <1>1 DEF HalvesFit, Yet
  <2> QED
    BY <1>1, <1>2, <1>3, <2>1, <2>2
    DEF HalvesFit, NOT_COLLECTING, COLLECTING, RESTORING_SNAPSHOT
<1>7. snap' \in [Cells -> Arrays \cup Elements \cup {NULL}]
  BY <1>1 DEF TypeOK
<1> QED
  BY <1>1, <1>3, <1>4, <1>5, <1>6, <1>7, RestorerKeeps

(* Nothing refers to a letter but the marker's root list.                  *)
LEMMA LetterDoneKeeps ==
  ASSUME IInv, LetterDone
  PROVE  IInv'
<1>1. /\ work = "mark" /\ at = NULL /\ current # NULL /\ current' = NULL
      /\ UNCHANGED <<handshakeVars, arrayVars>>
      /\ held' = held /\ op' = op /\ work' = work /\ todo' = todo /\ at' = at
      /\ marked' = marked /\ kept' = kept /\ fetched' = fetched
      /\ IF current = held THEN UNCHANGED <<list, live, snap, was_owned>>
         ELSE /\ list' = [list EXCEPT ![current] = NULL]
              /\ was_owned' = was_owned \ {current}
              /\ live' = Stored(live, Slot(current), NULL)
              /\ snap' = Stored(snap, Slot(current), NULL)
  BY DEF LetterDone
<1>2. /\ phase' = phase /\ gate' = gate /\ index' = index
      /\ regime' = regime /\ parked' = parked
      /\ size' = size /\ scan_size' = scan_size /\ reserved' = reserved
  BY <1>1 DEF handshakeVars, arrayVars
<1>3. Marking /\ Marking' /\ gate = "open" /\ phase = COLLECTING
  BY <1>1, MarkingEra DEF Marking
<1>4. CASE current = held
  <2>1. UNCHANGED mutatorVars /\ UNCHANGED handshakeVars /\ UNCHANGED <<snap, work, kept, fetched>>
        /\ was_owned' = was_owned /\ snap' = snap
    BY <1>1, <1>4 DEF mutatorVars
  <2>2. CollectorTypes' /\ MarkerFits' /\ (at' # NULL => Scanned(at'))
    BY <1>1, <1>3 DEF IInv, TypeOK, CollectorTypes, MarkerFits
  <2>3. Covered' = Covered
    BY <1>1, <1>2, <2>1 DEF Covered, ToEnter, RootsLeft, Front, Scanned, Yet
  <2> QED
    BY <1>3, <2>1, <2>2, <2>3, MarkerKeeps
<1>5. CASE current # held
  <2> USE DEF IInv
  <2> DEFINE l == current
  <2>1. /\ l \in Letters /\ l \in Nodes /\ l \in Roots /\ l \notin Arrays \cup Elements \cup {NULL}
        /\ Slot(l) \in Cells /\ l \notin todo /\ l \notin {"data", "arg"}
    <3>1. l \in Letters
      BY <1>1 DEF TypeOK
    <3> QED
      BY <1>1, <1>3, <3>1, Addresses DEF Nodes, Roots, MarkerFits
  <2>2. /\ \A c \in Cells : c[1] # l => live'[c] = live[c] /\ snap'[c] = snap[c]
        /\ live'[Slot(l)] = NULL /\ snap'[Slot(l)] = NULL
        /\ live' \in [Cells -> Arrays \cup Elements \cup {NULL}]
        /\ snap' \in [Cells -> Arrays \cup Elements \cup {NULL}]
    BY <1>1, <1>5, <2>1 DEF TypeOK, Stored, Slot
  <2>3. \A c \in Cells : c[1] = l => c = Slot(l)
    BY <2>1, Addresses
  <2>4. /\ list' \in [Nodes -> {0, 1, NULL}] /\ was_owned' = was_owned \ {l}
        /\ \A n \in Nodes : n # l => list'[n] = list[n]
    BY <1>1, <1>5, <2>1 DEF TypeOK
  <2>5. Data' = Data /\ Source' = Source /\ Length' = Length
        /\ Data \in Arrays /\ Source \in Arrays
    <3>1. Data' = Data
      BY <2>1, <2>2, Addresses DEF Data, Roots
    <3> QED
      BY <1>1, <1>2, <3>1, UserFacts, OpCases DEF Source, Length
  <2>6. TypeOK'
    BY <1>1, <1>2, <2>2, <2>4, <2>5 DEF TypeOK
  <2>7. InStep' /\ WorkFits' /\ ListsFit'
    BY <1>1, <1>2, <1>3 DEF InStep, WorkFits, ListsFit, Marking,
                            NOT_COLLECTING, COLLECTING, RESTORING_SNAPSHOT
  <2>8. CellsFit'
    <3>1. \A c \in Cells : c[1] \notin Single =>
            live'[c] \in Elements \cup {NULL} /\ snap'[c] \in Elements \cup {NULL}
      BY <2>1, <2>2 DEF CellsFit, Single
    <3>2. ASSUME NEW r \in Single
          PROVE  live'[Slot(r)] = snap'[Slot(r)] /\ live'[Slot(r)] \in Arrays \cup {NULL}
      <4>1. Slot(r) \in Cells /\ Slot(r)[1] = r
        BY Addresses DEF Single, Roots
      <4>2. CASE r = l
        BY <2>2, <4>2
      <4>3. CASE r # l
        BY <2>2, <4>1, <4>3 DEF CellsFit
      <4> QED
        BY <4>2, <4>3
    <3> QED
      BY <3>1, <3>2 DEF CellsFit
  <2>9. Differ' \subseteq Differ
    BY <2>2, <2>3 DEF Differ
  <2>10. SizesFit'
    <3>1. \A c \in Cells : live'[c] # snap'[c] => live[c] # snap[c]
      BY <2>9 DEF Differ
    <3> QED
      BY <1>1, <1>2, <3>1 DEF SizesFit, Scanned
  <2>11. \A a \in Arrays, i \in Index : /\ live'[<<a, i>>] = live[<<a, i>>]
                                        /\ snap'[<<a, i>>] = snap[<<a, i>>]
    BY <2>1, <2>2, Addresses
  <2>12. FreeIsBlank'
    BY <1>2, <2>1, <2>4, <2>11 DEF FreeIsBlank, Nodes
  <2>13. op.do = "copy" => CopyFits'
    <3> SUFFICES ASSUME op.do = "copy"
                 PROVE  CopyFits'
      OBVIOUS
    <3>1. CopyFits /\ op.from \in Arrays
      BY OpCases DEF OpFits
    <3>2. held \in Nodes /\ held \in Roots /\ held # l
      BY <1>5, <3>1 DEF CopyFits, TypeOK, Nodes, Roots
    <3>3. held' \in was_owned' /\ list'[held'] # NULL /\ live'[Slot(held')] = op'.from
      <4>1. Slot(held) \in Cells /\ Slot(held)[1] = held
        BY <3>2, Addresses
      <4> QED
        BY <1>1, <2>2, <2>4, <3>1, <3>2, <4>1 DEF CopyFits
    <3>4. /\ op'.from # Data' /\ op'.i \leq size'[op'.from]
          /\ op'.job \in {"push_front", "insert"} => size'[op'.from] < MaxSize
          /\ op'.n \leq size'[op'.from] \/ op'.job # "insert"
          /\ size'[Data'] = 0 /\ scan_size'[Data'] = 0
      BY <1>1, <1>2, <2>5, <3>1 DEF CopyFits
    <3>5. ASSUME NEW i \in Index
          PROVE  /\ live'[<<op'.from, i>>] = snap'[<<op'.from, i>>]
                 /\ live'[<<Data', i>>] = snap'[<<Data', i>>]
                 /\ i \geq size'[op'.from] => live'[<<op'.from, i>>] = NULL
                 /\ (IF op'.job = "push_front" THEN i > size'[op'.from] ELSE i \geq size'[op'.from])
                      => live'[<<Data', i>>] = NULL
      BY <1>1, <1>2, <2>5, <2>11, <3>1 DEF CopyFits
    <3>6. ASSUME NEW i \in Index
          PROVE  live'[<<Data', i>>] \in {NULL} \cup {live'[<<op'.from, j>>] : j \in Index}
      <4>1. live[<<Data, i>>] \in {NULL} \cup {live[<<op.from, j>>] : j \in Index}
        BY <3>1 DEF CopyFits
      <4>2. /\ live'[<<Data', i>>] = live[<<Data, i>>]
            /\ \A j \in Index : live'[<<op'.from, j>>] = live[<<op.from, j>>]
        BY <1>1, <2>5, <2>11, <3>1
      <4> QED
        BY <4>1, <4>2
    <3> QED
      BY <3>3, <3>4, <3>5, <3>6 DEF CopyFits
  <2>14. OpFits'
    <3>1. ~Unbroken'
      BY <1>1, AtWork DEF Unbroken
    <3>2. op.do = "shift" => ShiftFits'
      BY <1>1, <2>5, <2>11 DEF OpFits, ShiftFits
    <3>3. op.do \in {"idle", "then"} => \A i \in Index : i \geq Length' => live'[<<Data', i>>] = NULL
      BY <2>5, <2>11 DEF OpFits
    <3> QED
      BY <1>1, <2>5, <2>13, <3>1, <3>2, <3>3 DEF OpFits, Unbroken
  <2>15. HalvesFit' /\ WalkFits'
    BY <1>1, <1>2, <1>3, <2>9 DEF HalvesFit, WalkFits, WorkFits,
                                  NOT_COLLECTING, COLLECTING, RESTORING_SNAPSHOT
  <2>16. Reachable' = Reachable /\ \A c \in Reachable : c[1] # l /\ live'[c] = live[c]
    <3>1. Reachable' = Reachable
      BY <1>1, <2>5 DEF Reachable
    <3>2. \A c \in Reachable : c \in Cells /\ c[1] # l
      BY <1>5, <2>1, <2>5 DEF Reachable
    <3> QED
      BY <2>2, <3>1, <3>2
  <2>17. \A c \in Cells : live[c] # NULL => live[c] \in Nodes /\ list'[live[c]] = list[live[c]]
    <3>1. \A c \in Cells : live[c] # NULL => live[c] \in Arrays \cup Elements
      BY DEF TypeOK
    <3> QED
      BY <2>1, <2>4, <3>1 DEF Nodes
  <2>18. LiveFits'
    BY <2>16, <2>17 DEF LiveFits, Reachable
  <2>19. Covered \subseteq Covered'
    <3>1. RootsLeft' = RootsLeft /\ RootsLeft \subseteq Roots /\ l \notin RootsLeft
      BY <1>1, <1>3, <2>1, <2>4 DEF RootsLeft, MarkerFits
    <3>2. \A r \in RootsLeft : snap'[Slot(r)] = snap[Slot(r)]
      BY <2>2, <3>1, Addresses
    <3>3. ToEnter' = ToEnter
      BY <1>1, <3>1, <3>2 DEF ToEnter
    <3>4. l \notin ToEnter
      <4>1. \A r \in RootsLeft : snap[Slot(r)] \in Arrays \cup Elements \cup {NULL}
        BY <3>1, Addresses, UserFacts
      <4> QED
        BY <2>1, <4>1 DEF ToEnter
    <3>5. ASSUME NEW c \in Front
          PROVE  c \in Front' /\ snap'[c] = snap[c]
      <4>1. c \in Cells /\ Scanned(c) /\ c[1] \in ToEnter
        BY <1>1 DEF Front, Yet
      <4> QED
        BY <1>2, <2>2, <3>3, <3>4, <4>1 DEF Front, Scanned
    <3> QED
      BY <1>1, <3>3, <3>5 DEF Covered
  <2>20. MarkerFits' /\ \A c \in Reachable' : Safe(live[c])'
    <3>1. MarkerFits'
      BY <1>1, <1>3 DEF MarkerFits
    <3> SUFFICES ASSUME NEW c \in Reachable
                 PROVE  Safe(live[c])'
      BY <2>16, <3>1
    <3>2. Safe(live[c]) /\ c \in Cells
      BY <1>3 DEF Reachable
    <3> QED
      BY <1>2, <2>16, <2>17, <2>19, <3>2 DEF Safe
  <2> QED
    BY <2>6, <2>7, <2>8, <2>10, <2>12, <2>14, <2>15, <2>18, <2>20
<1> QED
  BY <1>4, <1>5

(* When the marker is through, what it will have marked is what it has.    *)
LEMMA SweepKeeps ==
  ASSUME IInv, Sweep
  PROVE  IInv'
<1> DEFINE freed == (InList(1 - index) \ marked) \ Letters
           wiped == UNION {CellsOf(a) : a \in freed \cap Arrays}
           zero(f) == [a \in Arrays |-> IF a \in freed THEN 0 ELSE f[a]]
<1>1. /\ work = "mark" /\ todo = {} /\ at = NULL /\ current = NULL
      /\ list' = [n \in Nodes |-> IF n \in freed THEN NULL ELSE list[n]]
      /\ live' = [c \in Cells |-> IF c \in wiped THEN NULL ELSE live[c]]
      /\ snap' = [c \in Cells |-> IF c \in wiped THEN NULL ELSE snap[c]]
      /\ size' = zero(size) /\ scan_size' = zero(scan_size) /\ reserved' = zero(reserved)
      /\ marked' = {} /\ work' = "done"
      /\ UNCHANGED handshakeVars /\ held' = held /\ was_owned' = was_owned /\ op' = op
      /\ todo' = todo /\ at' = at /\ current' = current /\ kept' = kept /\ fetched' = fetched
  BY DEF Sweep
<1>2. /\ phase' = phase /\ gate' = gate /\ index' = index
      /\ regime' = regime /\ parked' = parked
  BY <1>1 DEF handshakeVars
<1>3. Marking /\ ~Marking' /\ gate = "open" /\ phase = COLLECTING
  BY <1>1, MarkingEra DEF Marking
<1> USE DEF IInv
<1>4. /\ freed \subseteq Arrays \cup Elements /\ freed \subseteq Nodes
      /\ \A n \in freed : n # NULL /\ list[n] # index /\ n \notin marked
  <2>1. index # 1 - index
    BY DEF TypeOK
  <2> QED
    BY <2>1, Addresses DEF InList, Nodes
<1>5. \A c \in Cells : c \in wiped <=> c[1] \in freed
  <2> SUFFICES ASSUME NEW c \in Cells
               PROVE  c \in wiped <=> c[1] \in freed
    OBVIOUS
  <2>1. CASE c[1] \in Arrays
    <3>1. c = <<c[1], c[2]>> /\ c[2] \in Index
      BY <2>1, Addresses
    <3>2. \A a \in Arrays : c \in CellsOf(a) <=> a = c[1]
      BY <2>1, <3>1 DEF CellsOf
    <3> QED
      BY <2>1, <3>2
  <2>2. CASE c[1] \in Roots
    <3>1. c[1] \notin freed /\ c[1] \notin Arrays
      BY <1>4, <2>2, Addresses
    <3>2. \A a \in Arrays : c \notin CellsOf(a)
      BY <3>1 DEF CellsOf
    <3> QED
      BY <3>1, <3>2
  <2> QED
    BY <2>1, <2>2, Addresses
<1>6. /\ \A n \in Nodes : list'[n] = IF n \in freed THEN NULL ELSE list[n]
      /\ \A c \in Cells : /\ live'[c] = IF c[1] \in freed THEN NULL ELSE live[c]
                          /\ snap'[c] = IF c[1] \in freed THEN NULL ELSE snap[c]
      /\ \A a \in Arrays : /\ size'[a] = IF a \in freed THEN 0 ELSE size[a]
                           /\ scan_size'[a] = IF a \in freed THEN 0 ELSE scan_size[a]
  BY <1>1, <1>5
<1>7. /\ list' \in [Nodes -> {0, 1, NULL}]
      /\ live' \in [Cells -> Arrays \cup Elements \cup {NULL}]
      /\ snap' \in [Cells -> Arrays \cup Elements \cup {NULL}]
      /\ size' \in [Arrays -> 0 .. MaxSize] /\ scan_size' \in [Arrays -> 0 .. MaxSize]
      /\ reserved' \in [Arrays -> Nat]
  <2>1. MaxSize \in Nat /\ 0 \in 0 .. MaxSize /\ 0 \in Nat
    BY VectorAssumption
  <2>2. /\ list' \in [Nodes -> {0, 1, NULL}]
        /\ live' \in [Cells -> Arrays \cup Elements \cup {NULL}]
        /\ snap' \in [Cells -> Arrays \cup Elements \cup {NULL}]
    BY <1>1 DEF TypeOK
  <2>3. /\ size' \in [Arrays -> 0 .. MaxSize] /\ scan_size' \in [Arrays -> 0 .. MaxSize]
        /\ reserved' \in [Arrays -> Nat]
    BY <1>1, <2>1 DEF TypeOK
  <2> QED
    BY <2>2, <2>3
<1>8. \A c \in Reachable : live[c] \notin freed
  <2>1. RootsLeft = {} /\ ToEnter = {}
    BY <1>1 DEF RootsLeft, ToEnter
  <2>2. Covered = marked
    BY <1>1, <2>1 DEF Covered, Front, Yet
  <2> SUFFICES ASSUME NEW c \in Reachable
               PROVE  live[c] \notin freed
    OBVIOUS
  <2>3. Safe(live[c])
    BY <1>3
  <2> QED
    BY <1>4, <2>2, <2>3 DEF Safe
<1>9. /\ Data \in Arrays \ freed /\ Data' = Data
      /\ op.do = "copy" => op.from \in Arrays \ freed
      /\ Source' = Source /\ Length' = Length
  <2>1. Slot("data") \in Reachable /\ Slot("data") \in Cells /\ Slot("data")[1] \notin freed
    BY <1>4, Addresses DEF Reachable, Roots
  <2>2. Data \in Arrays \ freed /\ Data' = Data
    BY <1>6, <1>8, <2>1, UserFacts DEF Data
  <2>3. op.do = "copy" => op.from \in Arrays \ freed
    <3> SUFFICES ASSUME op.do = "copy"
                 PROVE  op.from \in Arrays \ freed
      OBVIOUS
    <3>1. held \in Roots /\ live[Slot(held)] = op.from
      BY DEF OpFits, CopyFits, TypeOK, Roots
    <3>2. Slot(held) \in Reachable
      BY <3>1, Addresses DEF Reachable
    <3> QED
      BY <1>8, <3>1, <3>2, OpCases
  <2>4. Source' = Source
    BY <1>1, <2>2 DEF Source
  <2>5. Length' = Length
    <3>1. size'[Data] = size[Data]
      BY <1>6, <2>2
    <3> QED
      BY <2>2, <3>1 DEF Length
  <2> HIDE DEF freed, IInv
  <2> QED
    BY <2>2, <2>3, <2>4, <2>5
<1>10. TypeOK'
  BY <1>1, <1>2, <1>7, <1>9 DEF TypeOK, Work
<1>11. InStep' /\ WorkFits' /\ ListsFit'
  BY <1>1, <1>2, <1>3 DEF InStep, WorkFits, ListsFit, Marking,
                          NOT_COLLECTING, COLLECTING, RESTORING_SNAPSHOT
<1>12. CellsFit'
  <2>1. \A c \in Cells : c[1] \notin Single =>
          live'[c] \in Elements \cup {NULL} /\ snap'[c] \in Elements \cup {NULL}
    BY <1>6 DEF CellsFit
  <2>2. ASSUME NEW r \in Single
        PROVE  live'[Slot(r)] = snap'[Slot(r)] /\ live'[Slot(r)] \in Arrays \cup {NULL}
    <3>1. Slot(r) \in Cells
      BY Addresses DEF Single, Roots
    <3> QED
      BY <1>6, <3>1 DEF CellsFit
  <2> QED
    BY <2>1, <2>2 DEF CellsFit
<1>13. SizesFit'
  <2>1. \A a \in Arrays : size'[a] \leq scan_size'[a]
    <3>1. \A a \in Arrays : size[a] \leq scan_size[a]
      BY DEF SizesFit
    <3> QED
      BY <1>6, <3>1
  <2>2. ASSUME NEW c \in Cells, live'[c] # snap'[c]
        PROVE  Scanned(c)'
    <3>1. c[1] \notin freed /\ Scanned(c)
      BY <1>6, <2>2 DEF SizesFit
    <3>2. c[1] \in Arrays \cup Roots
      BY Addresses
    <3> QED
      BY <1>6, <3>1, <3>2 DEF Scanned
  <2> QED
    BY <1>1, <2>1, <2>2 DEF SizesFit
<1>14. FreeIsBlank'
  <2> SUFFICES ASSUME NEW a \in Arrays, list'[a] = NULL
               PROVE  /\ size'[a] = 0 /\ scan_size'[a] = 0
                      /\ \A i \in Index : live'[<<a, i>>] = NULL /\ snap'[<<a, i>>] = NULL
    BY DEF FreeIsBlank
  <2>1. a \in freed \/ list[a] = NULL
    BY <1>6 DEF Nodes
  <2>2. \A i \in Index : <<a, i>> \in Cells /\ <<a, i>>[1] = a
    BY Addresses
  <2> QED
    BY <1>6, <2>1, <2>2 DEF FreeIsBlank
<1>15. \A a \in Arrays \ freed :
         /\ size'[a] = size[a] /\ scan_size'[a] = scan_size[a]
         /\ \A i \in Index : live'[<<a, i>>] = live[<<a, i>>] /\ snap'[<<a, i>>] = snap[<<a, i>>]
  BY <1>6, Addresses
<1>16. op.do = "copy" => CopyFits'
  <2> SUFFICES ASSUME op.do = "copy"
               PROVE  CopyFits'
    OBVIOUS
  <2>1. CopyFits
    BY DEF OpFits
  <2>2. /\ \A i \in Index : /\ live'[<<op.from, i>>] = live[<<op.from, i>>]
                            /\ snap'[<<op.from, i>>] = snap[<<op.from, i>>]
                            /\ live'[<<Data, i>>] = live[<<Data, i>>]
                            /\ snap'[<<Data, i>>] = snap[<<Data, i>>]
        /\ size'[op.from] = size[op.from] /\ size'[Data] = size[Data]
        /\ scan_size'[Data] = scan_size[Data]
    BY <1>9, <1>15
  <2>3. held' \in was_owned' /\ list'[held'] # NULL /\ live'[Slot(held')] = op'.from
    <3>1. held \in Letters /\ held \in Roots /\ held \in Nodes
      BY <2>1 DEF CopyFits, TypeOK, Roots, Nodes
    <3>2. held \notin freed /\ Slot(held) \in Cells /\ Slot(held)[1] = held
      BY <1>4, <3>1, Addresses
    <3> QED
      BY <1>1, <1>6, <2>1, <3>1, <3>2 DEF CopyFits
  <2>4. /\ op'.from # Data' /\ op'.i \leq size'[op'.from]
        /\ op'.job \in {"push_front", "insert"} => size'[op'.from] < MaxSize
        /\ op'.n \leq size'[op'.from] \/ op'.job # "insert"
        /\ size'[Data'] = 0 /\ scan_size'[Data'] = 0
    BY <1>1, <1>9, <2>1, <2>2 DEF CopyFits
  <2>5. ASSUME NEW i \in Index
        PROVE  /\ live'[<<op'.from, i>>] = snap'[<<op'.from, i>>]
               /\ live'[<<Data', i>>] = snap'[<<Data', i>>]
               /\ i \geq size'[op'.from] => live'[<<op'.from, i>>] = NULL
               /\ (IF op'.job = "push_front" THEN i > size'[op'.from] ELSE i \geq size'[op'.from])
                    => live'[<<Data', i>>] = NULL
    BY <1>1, <1>9, <2>1, <2>2 DEF CopyFits
  <2>6. ASSUME NEW i \in Index
        PROVE  live'[<<Data', i>>] \in {NULL} \cup {live'[<<op'.from, j>>] : j \in Index}
    <3>1. live[<<Data, i>>] \in {NULL} \cup {live[<<op.from, j>>] : j \in Index}
      BY <2>1 DEF CopyFits
    <3>2. /\ live'[<<Data', i>>] = live[<<Data, i>>]
          /\ \A j \in Index : live'[<<op'.from, j>>] = live[<<op.from, j>>]
      BY <1>1, <1>9, <2>2
    <3> QED
      BY <3>1, <3>2
  <2> QED
    BY <2>3, <2>4, <2>5, <2>6 DEF CopyFits
<1>17. OpFits'
  <2>1. ~Unbroken'
    BY <1>1, AtWork DEF Unbroken
  <2>2. op.do = "shift" => ShiftFits'
    <3>1. \A i \in Index : live'[<<Data', i>>] = live[<<Data, i>>]
      BY <1>9, <1>15
    <3>2. op'.n = op.n /\ op'.i = op.i /\ Length' = Length
      BY <1>1, <1>9
    <3>3. ShiftFits => ShiftFits'
      BY <3>1, <3>2 DEF ShiftFits
    <3> QED
      BY <3>3 DEF OpFits
  <2>3. op.do \in {"idle", "then"} => \A i \in Index : i \geq Length' => live'[<<Data', i>>] = NULL
    BY <1>9, <1>15 DEF OpFits
  <2> QED
    BY <1>1, <1>9, <1>16, <2>1, <2>2, <2>3 DEF OpFits, Unbroken
<1>18. HalvesFit' /\ WalkFits'
  BY <1>1, <1>2, <1>3 DEF HalvesFit, WalkFits, WorkFits,
                          NOT_COLLECTING, COLLECTING, RESTORING_SNAPSHOT
<1>19. LiveFits'
  <2> SUFFICES ASSUME NEW c \in Reachable', live'[c] # NULL
               PROVE  list'[live'[c]] # NULL
    BY DEF LiveFits
  <2>1. c \in Reachable /\ c \in Cells
    BY <1>1, <1>9 DEF Reachable
  <2>2. live'[c] = live[c] /\ live[c] \in Nodes /\ live[c] \notin freed
    BY <1>6, <1>8, <2>1, UserFacts DEF Nodes
  <2> QED
    BY <1>6, <2>1, <2>2 DEF LiveFits
<1> QED
  BY <1>3, <1>10, <1>11, <1>12, <1>13, <1>14, <1>17, <1>18, <1>19

LEMMA CollectorKeeps ==
  ASSUME IInv, CollectorNext
  PROVE  IInv'
BY BeginPhaseKeeps, GatherKeeps, StartWorkKeeps, MarkRootKeeps, MarkElementKeeps,
   LetterDoneKeeps, SweepKeeps, VisitNodeKeeps, FastReadKeeps, FastWriteKeeps,
   RestoreKeeps, WorkDoneKeeps
DEF CollectorNext

-----------------------------------------------------------------------------
(* The invariant.                                                          *)

LEMMA InvInit ==
  ASSUME Init
  PROVE  IInv
<1>1. PICK a \in Arrays :
        /\ live = [c \in Cells |-> IF c = Slot("data") THEN a ELSE NULL]
        /\ list = [n \in Nodes |-> IF n = a THEN index ELSE NULL]
        /\ reserved = [b \in Arrays |-> IF b = a THEN InitReserve ELSE 0]
  BY DEF Init
<1>2. /\ snap = live
      /\ size = [b \in Arrays |-> 0] /\ scan_size = [b \in Arrays |-> 0]
      /\ held = NULL /\ was_owned = {} /\ op = [do |-> "idle"]
      /\ work = "done" /\ todo = {} /\ at = NULL /\ current = NULL
      /\ marked = {} /\ kept = {} /\ fetched = NULL
      /\ phase = NOT_COLLECTING /\ gate = "open"
      /\ regime = [t \in Threads |-> NOT_MUTATING] /\ parked = {} /\ index = 0
  BY DEF Init, HandshakeInit, Idle
<1>3. /\ Slot("data") \in Cells /\ Slot("data")[1] = "data" /\ "data" \notin Arrays
      /\ a \in Nodes /\ a # NULL /\ NULL \notin {0, 1} /\ 1 - index = 1
      /\ MaxSize \in Nat /\ 0 \in 0 .. MaxSize
  BY <1>2, Addresses, VectorAssumption DEF Roots, Nodes
<1>4. Data = a /\ \A c \in Cells : c # Slot("data") => live[c] = NULL
  BY <1>1, <1>3 DEF Data
<1>5. TypeOK
  <2>1. /\ live \in [Cells -> Arrays \cup Elements \cup {NULL}]
        /\ list \in [Nodes -> {0, 1, NULL}]
    BY <1>1, <1>2
  <2>2. size \in [Arrays -> 0 .. MaxSize] /\ scan_size \in [Arrays -> 0 .. MaxSize]
    BY <1>2, <1>3
  <2>3. reserved \in [Arrays -> Nat]
    BY <1>1, VectorAssumption
  <2>4. phase \in Phase /\ gate \in Gate /\ regime \in [Threads -> Regime]
    BY <1>2 DEF Phase, Gate, Regime
  <2> QED
    BY <1>2, <1>4, <2>1, <2>2, <2>3, <2>4 DEF TypeOK, Work
<1>6. InStep /\ WorkFits /\ WalkFits /\ ~Marking
  BY <1>2, OneThread DEF InStep, WorkFits, WalkFits, Marking
<1>7. ListsFit
  BY <1>1, <1>2, <1>3 DEF ListsFit, NOT_COLLECTING, COLLECTING
<1>8. CellsFit
  <2>1. \A r \in Single : Slot(r) \in Cells
    BY Addresses DEF Single, Roots
  <2>2. \A c \in Cells : c[1] \notin Single => c # Slot("data")
    BY <1>3 DEF Single
  <2> QED
    BY <1>1, <1>2, <1>4, <2>1, <2>2 DEF CellsFit
<1>9. SizesFit /\ HalvesFit
  BY <1>2 DEF SizesFit, HalvesFit, Differ
<1>10. \A b \in Arrays, i \in Index : live[<<b, i>>] = NULL
  BY <1>3, <1>4, Addresses
<1>11. FreeIsBlank
  BY <1>2, <1>10 DEF FreeIsBlank
<1>12. OpFits
  BY <1>2, <1>4, <1>10 DEF OpFits, Op, Unbroken
<1>13. LiveFits
  <2>1. \A c \in Reachable : live[c] # NULL => live[c] = a
    BY <1>1, <1>4 DEF Reachable
  <2>2. list[a] # NULL
    BY <1>1, <1>2, <1>3
  <2> QED
    BY <2>1, <2>2 DEF LiveFits
<1> QED
  BY <1>5, <1>6, <1>7, <1>8, <1>9, <1>11, <1>12, <1>13 DEF IInv

LEMMA InvStep ==
  ASSUME Orderly, IInv, [Next]_vars
  PROVE  IInv'
<1>1. CASE CollectorNext
  BY <1>1, CollectorKeeps
<1>2. CASE PhaseStep
  BY <1>2, PhaseStepKeeps
<1>3. CASE MutatorStep
  BY <1>3, MutatorStepKeeps
<1>4. CASE UNCHANGED vars
  <2>1. /\ UNCHANGED <<phase, gate, index>> /\ UNCHANGED vectorVars
        /\ regime' = regime /\ parked' = parked /\ gate' = gate /\ phase' = phase
    BY <1>4 DEF vars, handshakeVars
  <2>2. /\ live' = live /\ snap' = snap /\ list' = list /\ size' = size
        /\ scan_size' = scan_size /\ held' = held
        /\ was_owned' = was_owned /\ op' = op /\ work' = work
    BY <2>1 DEF vectorVars, mutatorVars, collectorVars, arrayVars
  <2>3. InStep' /\ regime' \in [Threads -> Regime] /\ parked' \subseteq Threads
    BY <2>1 DEF IInv, TypeOK, InStep
  <2>4. OpFits'
    <3>1. Data' = Data /\ Length' = Length
      BY <2>2 DEF Data, Length
    <3>2. /\ CopyFits' <=> CopyFits
          /\ ShiftFits' <=> ShiftFits
          /\ Steady' <=> Steady
          /\ Unbroken' <=> Unbroken
      BY <2>1, <2>2, <3>1 DEF CopyFits, ShiftFits, Steady, Active, Unbroken
    <3> QED
      BY <2>2, <3>1, <3>2 DEF IInv, OpFits
  <2> QED
    BY <2>1, <2>3, <2>4, VectorSame
<1> QED
  BY <1>1, <1>2, <1>3, <1>4 DEF Next

LEMMA Invariance ==
  ASSUME Orderly
  PROVE  Spec => []IInv
<1>1. Init => IInv
  BY InvInit
<1>2. IInv /\ [Next]_vars => IInv'
  BY InvStep
<1> QED
  BY <1>1, <1>2, PTL DEF Spec

(* The pointers of the array that holds the elements can be got at.        *)
LEMMA InUseReached ==
  ASSUME IInv
  PROVE  InUse \subseteq Reachable
<1>1. Source \in Arrays /\ size[Source] \in 0 .. MaxSize /\ MaxSize \in Nat
  <2>1. Source \in Arrays
    BY UserFacts, OpCases DEF Source
  <2> QED
    BY <2>1, VectorAssumption DEF IInv, TypeOK
<1>2. \A i \in 0 .. size[Source] - 1 : i \in Index
  BY <1>1 DEF Index
<1>3. \A i \in Index : <<Source, i>> \in Reachable
  BY <1>1, Addresses DEF Reachable
<1> QED
  BY <1>2, <1>3 DEF InUse

-----------------------------------------------------------------------------
(* Every variable of the vector, its heap and the collector keeps its type. *)
THEOREM VectorTypeCorrect ==
  ASSUME Orderly
  PROVE  Spec => []TypeOK
<1>1. IInv => TypeOK
  BY DEF IInv
<1> QED
  BY <1>1, Invariance, PTL

(* Whatever member function is under way and however far the collector has *)
(* come, the array in use, the one being filled and every element of the   *)
(* vector are allocated memory.                                            *)
THEOREM NeverLost ==
  ASSUME Orderly
  PROVE  Spec => []NothingLost
<1>1. ASSUME IInv
      PROVE  NothingLost
  <2>1. \A c \in Reachable : live[c] # NULL => list[live[c]] # NULL
    BY <1>1 DEF IInv, LiveFits
  <2>2. Slot("data") \in Reachable /\ Slot("arg") \in Reachable
    BY Addresses DEF Reachable, Roots
  <2>3. Data # NULL => list[Data] # NULL
    BY <2>1, <2>2 DEF Data
  <2>4. ArgValue # NULL => list[ArgValue] # NULL
    BY <2>1, <2>2 DEF ArgValue
  <2>5. Source # NULL => list[Source] # NULL
    <3>1. CASE op.do = "copy"
      <4>1. held \in Letters /\ live[Slot(held)] = op.from /\ Source = op.from
        BY <1>1, <3>1 DEF IInv, OpFits, CopyFits, TypeOK, Source
      <4>2. Slot(held) \in Reachable
        BY <4>1, Addresses DEF Reachable, Roots
      <4> QED
        BY <2>1, <4>1, <4>2
    <3>2. CASE op.do # "copy"
      BY <2>3, <3>2 DEF Source
    <3> QED
      BY <3>1, <3>2
  <2>6. \A c \in InUse : live[c] # NULL => list[live[c]] # NULL
    BY <1>1, <2>1, InUseReached
  <2> QED
    BY <2>3, <2>4, <2>5, <2>6 DEF NothingLost
<1> QED
  BY <1>1, Invariance, PTL

(* Between collections the halves of every pointer of the vector agree.    *)
THEOREM VectorAlwaysRestored ==
  ASSUME Orderly
  PROVE  Spec => []VectorRestored
<1>1. ASSUME IInv
      PROVE  VectorRestored
  <2> SUFFICES ASSUME Quiet
               PROVE  \A c \in InUse \cup {Slot("data"), Slot("arg")} : live[c] = snap[c]
    BY DEF VectorRestored
  <2>1. \A c \in Cells : live[c] = snap[c]
    BY <1>1 DEF IInv, HalvesFit, Differ, Quiet
  <2>2. Slot("data") \in Cells /\ Slot("arg") \in Cells
    BY Addresses DEF Roots
  <2> QED
    BY <1>1, <2>1, <2>2, InUseReached DEF Reachable
<1> QED
  BY <1>1, Invariance, PTL

-----------------------------------------------------------------------------
(* Sequences, by their elements.                                           *)

(* One element more, at the end.                                           *)
LEMMA AppendIs ==
  ASSUME NEW S, NEW s \in Seq(S), NEW t \in Seq(S), NEW v \in S,
         Len(t) = Len(s) + 1, \A k \in 1 .. Len(s) : t[k] = s[k], t[Len(s) + 1] = v
  PROVE  t = Append(s, v)
<1>1. /\ Append(s, v) \in Seq(S) /\ Len(Append(s, v)) = Len(s) + 1 /\ Len(s) \in Nat
      /\ \A k \in 1 .. Len(s) + 1 : Append(s, v)[k] = IF k <= Len(s) THEN s[k] ELSE v
  BY AppendProperties, LenProperties
<1>2. \A k \in 1 .. Len(t) : t[k] = Append(s, v)[k]
  BY <1>1
<1> QED
  BY <1>1, <1>2, SeqEqual

(* The last element less.                                                  *)
LEMMA ButLastIs ==
  ASSUME NEW S, NEW s \in Seq(S), NEW t \in Seq(S),
         Len(t) + 1 = Len(s), \A k \in 1 .. Len(t) : t[k] = s[k]
  PROVE  s # <<>> /\ t = SubSeq(s, 1, Len(s) - 1)
<1>1. Len(t) \in Nat /\ Len(s) \in Nat /\ Len(s) - 1 = Len(t) /\ Len(s) \in Int /\ 1 \in Int
  BY LenProperties
<1>2. \A k \in 1 .. Len(s) - 1 : s[k] \in S
  BY <1>1, ElementOfSeq
<1>3. /\ SubSeq(s, 1, Len(s) - 1) \in Seq(S) /\ Len(SubSeq(s, 1, Len(s) - 1)) = Len(t)
      /\ \A k \in 1 .. Len(t) : SubSeq(s, 1, Len(s) - 1)[k] = s[k]
  <2> DEFINE n == Len(s) - 1
  <2>1. n \in Int /\ n = Len(t)
    BY <1>1
  <2>2. \A k \in 1 .. n : s[k] \in S
    BY <1>2
  <2> HIDE DEF n
  <2>3. /\ SubSeq(s, 1, n) \in Seq(S)
        /\ Len(SubSeq(s, 1, n)) = IF 1 <= n THEN n - 1 + 1 ELSE 0
        /\ \A k \in 1 .. n - 1 + 1 : SubSeq(s, 1, n)[k] = s[1 + k - 1]
    BY <1>1, <2>1, <2>2, SubSeqProperties
  <2>4. /\ SubSeq(s, 1, n) \in Seq(S) /\ Len(SubSeq(s, 1, n)) = Len(t)
        /\ \A k \in 1 .. Len(t) : SubSeq(s, 1, n)[k] = s[k]
    BY <1>1, <2>1, <2>3
  <2> QED
    BY <2>4 DEF n
<1>4. t = SubSeq(s, 1, Len(s) - 1)
  BY <1>3, SeqEqual
<1>5. s # <<>>
  BY <1>1, EmptySeq
<1> QED
  BY <1>4, <1>5

(* t is s with v between its first p elements and the others.              *)
Inserted(s, t, p, v) ==
  /\ Len(t) = Len(s) + 1 /\ t[p + 1] = v
  /\ \A k \in 1 .. p : t[k] = s[k]
  /\ \A k \in p + 1 .. Len(s) : t[k + 1] = s[k]

LEMMA InsertIs ==
  ASSUME NEW S, NEW s \in Seq(S), NEW t \in Seq(S), NEW v \in S, NEW p \in 0 .. Len(s),
         Inserted(s, t, p, v)
  PROVE  t = SubSeq(s, 1, p) \o <<v>> \o SubSeq(s, p + 1, Len(s))
<1> DEFINE n == Len(s)
           a == SubSeq(s, 1, p)
           b == a \o <<v>>
           c == SubSeq(s, p + 1, n)
<1> USE DEF Inserted
<1>1. n \in Nat /\ p \in Nat /\ p <= n /\ p \in Int /\ 1 \in Int /\ n \in Int /\ p + 1 \in Int
  BY LenProperties
<1>2. \A k \in 1 .. n : s[k] \in S
  BY ElementOfSeq
<1>3. a \in Seq(S) /\ Len(a) = p /\ \A k \in 1 .. p : a[k] = s[k]
  <2>1. \A k \in 1 .. p : s[k] \in S
    BY <1>1, <1>2
  <2>2. /\ SubSeq(s, 1, p) \in Seq(S)
        /\ Len(SubSeq(s, 1, p)) = IF 1 <= p THEN p - 1 + 1 ELSE 0
        /\ \A k \in 1 .. p - 1 + 1 : SubSeq(s, 1, p)[k] = s[1 + k - 1]
    BY <1>1, <2>1, SubSeqProperties
  <2> QED
    BY <1>1, <2>2
<1>4. /\ c \in Seq(S) /\ Len(c) = n - p
      /\ \A k \in 1 .. n - p : c[k] = s[p + k]
  <2> HIDE DEF n
  <2> DEFINE m == p + 1
  <2>1. \A k \in m .. n : s[k] \in S
    BY <1>1, <1>2
  <2>0. m \in Int /\ m = p + 1
    BY <1>1
  <2> HIDE DEF m
  <2>2. /\ SubSeq(s, m, n) \in Seq(S)
        /\ Len(SubSeq(s, m, n)) = IF m <= n THEN n - m + 1 ELSE 0
        /\ \A k \in 1 .. n - m + 1 : SubSeq(s, m, n)[k] = s[m + k - 1]
    BY <1>1, <2>0, <2>1, SubSeqProperties
  <2>3. \A k \in Int : m + k - 1 = p + k
    BY <1>1, <2>0
  <2>4. n - m + 1 = n - p /\ (IF m <= n THEN n - m + 1 ELSE 0) = n - p
    BY <1>1, <2>0
  <2> QED
    BY <2>0, <2>2, <2>3, <2>4, <1>1
<1>5. <<v>> \in Seq(S) /\ Len(<<v>>) = 1 /\ <<v>>[1] = v
  OBVIOUS
<1> HIDE DEF n, a, c
<1>6. /\ b \in Seq(S) /\ Len(b) = p + 1
      /\ \A k \in 1 .. p + 1 : b[k] = IF k <= p THEN a[k] ELSE <<v>>[k - p]
  BY <1>3, <1>5, ConcatProperties
<1>7. b[p + 1] = v /\ \A k \in 1 .. p : b[k] = s[k]
  <2>1. p + 1 \in 1 .. p + 1 /\ ~(p + 1 <= p) /\ p + 1 - p = 1
    BY <1>1
  <2>2. \A k \in 1 .. p : k \in 1 .. p + 1 /\ k <= p
    BY <1>1
  <2> QED
    BY <1>3, <1>5, <1>6, <2>1, <2>2
<1> HIDE DEF b
<1>8. /\ b \o c \in Seq(S) /\ Len(b \o c) = n + 1
      /\ \A k \in 1 .. n + 1 : (b \o c)[k] = IF k <= p + 1 THEN b[k] ELSE c[k - (p + 1)]
  <2>1. Len(b) + Len(c) = n + 1 /\ Len(b) = p + 1
    BY <1>1, <1>4, <1>6
  <2>2. /\ b \o c \in Seq(S) /\ Len(b \o c) = Len(b) + Len(c)
        /\ \A k \in 1 .. Len(b) + Len(c) :
             (b \o c)[k] = IF k <= Len(b) THEN b[k] ELSE c[k - Len(b)]
    BY <1>4, <1>6, ConcatProperties
  <2> QED
    BY <2>1, <2>2
<1>9. ASSUME NEW k \in 1 .. n + 1
      PROVE  t[k] = (b \o c)[k]
  <2>1. CASE k <= p
    <3>1. k \in 1 .. p /\ k <= p + 1
      BY <1>1, <2>1
    <3> QED
      BY <1>7, <1>8, <3>1
  <2>2. CASE k = p + 1
    BY <1>7, <1>8, <2>2
  <2>3. CASE k > p + 1
    <3> DEFINE j == k - 1
    <3>1. j \in p + 1 .. n /\ j + 1 = k /\ k - (p + 1) \in 1 .. n - p /\ p + (k - (p + 1)) = j
      BY <1>1, <2>3
    <3>2. ~(k <= p + 1)
      BY <1>1, <2>3
    <3>3. c[k - (p + 1)] = s[j]
      BY <1>4, <3>1
    <3>4. t[k] = s[j]
      BY <3>1 DEF n
    <3> QED
      BY <1>8, <3>2, <3>3, <3>4
  <2>4. k <= p \/ k = p + 1 \/ k > p + 1
    BY <1>1
  <2> QED
    BY <2>1, <2>2, <2>3, <2>4
<1>10. t = b \o c
  <2>1. Len(t) = n + 1
    BY DEF n
  <2> QED
    BY <1>8, <1>9, <2>1, SeqEqual
<1> QED
  BY <1>10 DEF a, b, c, n

-----------------------------------------------------------------------------
(* The contents, pointer by pointer.                                       *)

Pointers == Elements \cup {NULL}

(* What has been copied stands where it belongs.                           *)
CopyInOrder ==
  op.do = "copy" =>
    \A i \in Index : op.i \leq i /\ i < size[op.from] =>
      live[<<Data, Target(i)>>] = live[<<op.from, i>>]

(* As many pointers as the array in use counts, each the one the array has *)
(* at its place or, from op.i up during a shift, one place further.        *)
ContentsFit ==
  /\ Source \in Arrays /\ size[Source] \in 0 .. MaxSize
  /\ Contents \in Seq(Pointers) /\ Len(Contents) = size[Source]
  /\ op.do # "shift" =>
       \A k \in 1 .. size[Source] : Contents[k] = live[<<Source, k - 1>>]
  /\ op.do = "shift" =>
       /\ Source = Data /\ op.i \in 0 .. MaxSize /\ op.i \leq size[Data]
       /\ size[Data] < MaxSize
       /\ \A k \in 1 .. size[Data] :
            Contents[k] = live[<<Data, IF k \leq op.i THEN k - 1 ELSE k>>]

(* A function on the first numbers is a sequence.                          *)
LEMMA SequenceIs ==
  ASSUME NEW S, NEW n \in Nat, NEW s \in [1 .. n -> S]
  PROVE  s \in Seq(S) /\ Len(s) = n
<1>1. s \in Seq(S)
  BY SeqDef
<1> QED
  BY <1>1, LenProperties

(* The invariant makes the contents such a sequence, now and after a step. *)
LEMMA ContentsIs ==
  ASSUME IInv
  PROVE  ContentsFit
<1>1. Source \in Arrays /\ size[Source] \in 0 .. MaxSize /\ MaxSize \in Nat /\ Data \in Arrays
  <2>1. Source \in Arrays
    BY UserFacts, OpCases DEF Source
  <2> QED
    BY <2>1, UserFacts DEF IInv, TypeOK
<1>2. \A a \in Arrays, i \in Index : live[<<a, i>>] \in Pointers
  <2> SUFFICES ASSUME NEW a \in Arrays, NEW i \in Index
               PROVE  live[<<a, i>>] \in Pointers
    OBVIOUS
  <2>1. <<a, i>> \in Cells /\ <<a, i>>[1] = a /\ a \notin Single
    BY Addresses DEF Single, Roots
  <2> QED
    BY <2>1 DEF IInv, CellsFit, Pointers
<1>3. CASE op.do # "shift"
  <2>1. Contents = [k \in 1 .. size[Source] |-> live[<<Source, k - 1>>]]
    BY <1>3 DEF Contents
  <2>2. \A k \in 1 .. size[Source] : k - 1 \in Index
    BY <1>1 DEF Index
  <2>3. Contents \in [1 .. size[Source] -> Pointers]
    BY <1>1, <1>2, <2>1, <2>2
  <2>4. size[Source] \in Nat
    BY <1>1
  <2>5. Contents \in Seq(Pointers) /\ Len(Contents) = size[Source]
    BY <2>3, <2>4, SequenceIs
  <2> QED
    BY <1>1, <1>3, <2>1, <2>5 DEF ContentsFit
<1>4. CASE op.do = "shift"
  <2>1. /\ Source = Data /\ Length = size[Data] /\ op.i \in 0 .. MaxSize
        /\ op.i \leq size[Data] /\ size[Data] < MaxSize
    BY <1>4, OpCases DEF IInv, OpFits, ShiftFits, Source, Length
  <2>2. Contents = [k \in 1 .. size[Data] |-> live[<<Data, IF k \leq op.i THEN k - 1 ELSE k>>]]
    BY <1>4, <2>1 DEF Contents, Cell
  <2>3. \A k \in 1 .. size[Data] : (IF k \leq op.i THEN k - 1 ELSE k) \in Index
    BY <1>1, <2>1 DEF Index
  <2>4. Contents \in [1 .. size[Data] -> Pointers]
    BY <1>1, <1>2, <2>2, <2>3
  <2>5. size[Data] \in Nat
    BY <1>1, <2>1
  <2>6. Contents \in Seq(Pointers) /\ Len(Contents) = size[Data]
    BY <2>4, <2>5, SequenceIs
  <2> QED
    BY <1>1, <1>4, <2>1, <2>2, <2>6 DEF ContentsFit
<1> QED
  BY <1>3, <1>4

LEMMA ContentsNow == IInv => ContentsFit
BY ContentsIs

LEMMA ContentsNext == IInv' => ContentsFit'
BY ContentsNow, PTL

(* Contents that are the same pointer by pointer.                          *)
LEMMA SameContents ==
  ASSUME IInv, IInv', size'[Source'] = size[Source],
         \A k \in 1 .. size[Source] : Contents'[k] = Contents[k]
  PROVE  Contents' = Contents
BY ContentsIs, ContentsNext, SeqEqual DEF ContentsFit

(* A step that leaves the arrays of the vector as they are.                *)
LEMMA Untouched ==
  ASSUME IInv, IInv', op' = op, Data' = Data,
         \A a \in {Data, Source} :
           /\ size'[a] = size[a]
           /\ \A i \in Index : live'[<<a, i>>] = live[<<a, i>>]
  PROVE  Contents' = Contents /\ (CopyInOrder => CopyInOrder')
<1>1. Source' = Source /\ size'[Source] = size[Source] /\ size'[Data] = size[Data]
  BY DEF Source
<1>2. Contents' = Contents
  <2>1. size[Source] \in 0 .. MaxSize /\ MaxSize \in Nat
    BY ContentsIs, UserFacts DEF ContentsFit
  <2>2. ASSUME op.do # "shift", NEW k \in 1 .. size[Source]
        PROVE  Contents'[k] = Contents[k]
    <3>1. k - 1 \in Index
      BY <2>1 DEF Index
    <3> QED
      BY <1>1, <2>2, <3>1, ContentsIs, ContentsNext DEF ContentsFit
  <2>3. ASSUME op.do = "shift", NEW k \in 1 .. size[Source]
        PROVE  Contents'[k] = Contents[k]
    <3> DEFINE j == IF k \leq op.i THEN k - 1 ELSE k
    <3>1. Source = Data /\ op.i \in 0 .. MaxSize /\ size[Data] < MaxSize
      BY <2>3, ContentsIs DEF ContentsFit
    <3>2. j \in Index
      BY <2>1, <3>1 DEF Index
    <3>3. Contents[k] = live[<<Data, j>>] /\ Contents'[k] = live'[<<Data, j>>]
      BY <1>1, <2>3, <3>1, ContentsIs, ContentsNext DEF ContentsFit
    <3> QED
      BY <3>2, <3>3
  <2> QED
    BY <1>1, <2>2, <2>3, SameContents
<1>3. ASSUME CopyInOrder
      PROVE  CopyInOrder'
  <2> SUFFICES ASSUME op.do = "copy", NEW i \in Index, op.i \leq i, i < size[op.from]
               PROVE  live'[<<Data, Target(i)>>] = live'[<<op.from, i>>]
    BY <1>1 DEF CopyInOrder, Source, Target
  <2>1. CopyFits /\ size[op.from] \in 0 .. MaxSize /\ MaxSize \in Nat /\ Source = op.from
    BY CopyFacts, UserFacts, ContentsIs DEF ContentsFit, IInv, OpFits, Source
  <2>2. Target(i) \in Index
    BY <2>1 DEF CopyFits, Target, Index
  <2> QED
    BY <1>3, <2>1, <2>2 DEF CopyInOrder
<1> QED
  BY <1>2, <1>3

-----------------------------------------------------------------------------
(* Each step is a step of the sequence or leaves it as it is.              *)

SequenceStep == Abstract!SequenceNext \/ Contents' = Contents
Simulated == SequenceStep /\ CopyInOrder'

(* Data and the array it is copied from are in use.                        *)
LEMMA ArraysInUse ==
  ASSUME IInv
  PROVE  list[Data] # NULL /\ list[Source] # NULL
<1>1. Slot("data") \in Reachable /\ Data \in Nodes /\ Data # NULL
  BY UserFacts, Addresses DEF Reachable, Roots, Nodes
<1>2. list[Data] # NULL
  BY <1>1 DEF IInv, LiveFits, Data
<1>3. CASE op.do = "copy"
  <2>1. held \in Letters /\ live[Slot(held)] = op.from /\ Source = op.from
    BY <1>3 DEF IInv, OpFits, CopyFits, TypeOK, Source
  <2>2. Slot(held) \in Reachable
    BY <2>1, Addresses DEF Reachable, Roots
  <2>3. op.from # NULL
    BY <1>3, OpCases, Addresses DEF Nodes
  <2> QED
    BY <1>2, <2>1, <2>2, <2>3 DEF IInv, LiveFits
<1>4. CASE op.do # "copy"
  BY <1>2, <1>4 DEF Source
<1> QED
  BY <1>3, <1>4

(* And they still are after the step.                                      *)
LEMMA ArraysNext ==
  IInv' => (list[Data] # NULL /\ list[Source] # NULL)'
<1>1. IInv => list[Data] # NULL /\ list[Source] # NULL
  BY ArraysInUse
<1> QED
  BY <1>1, PTL

(* The collector frees nothing the vector uses and writes to no live half. *)
LEMMA CollectorStutters ==
  ASSUME IInv, IInv', CopyInOrder, CollectorNext
  PROVE  Simulated
<1>1. /\ Data \in Arrays /\ Source \in Arrays
      /\ Slot("data") \in Cells /\ Slot("data")[1] = "data"
      /\ "data" \notin Letters /\ "data" \notin Arrays
  BY UserFacts, ContentsIs, Addresses DEF ContentsFit, Roots
<1>2. SUFFICES /\ op' = op /\ Data' = Data
               /\ \A a \in {Data, Source} :
                    /\ size'[a] = size[a]
                    /\ \A i \in Index : live'[<<a, i>>] = live[<<a, i>>]
  BY Untouched DEF Simulated, SequenceStep
<1>3. CASE live' = live /\ size' = size /\ op' = op
  BY <1>3 DEF Data
<1>4. CASE LetterDone
  <2>1. op' = op /\ size' = size /\ current \in Letters \cup {NULL} /\ current # NULL
    BY <1>4 DEF LetterDone, arrayVars, IInv, TypeOK
  <2>2. \A c \in Cells : c[1] \notin Letters => live'[c] = live[c]
    <3>1. current \in Letters /\ Slot(current)[1] = current
      BY <2>1, Addresses DEF Roots
    <3> QED
      BY <1>4, <3>1 DEF LetterDone, Stored, IInv, TypeOK
  <2>3. Data' = Data
    BY <1>1, <2>2 DEF Data
  <2>4. \A a \in Arrays, i \in Index : live'[<<a, i>>] = live[<<a, i>>]
    <3>1. \A a \in Arrays, i \in Index : <<a, i>> \in Cells /\ <<a, i>>[1] \notin Letters
      BY Addresses DEF Roots
    <3> QED
      BY <2>2, <3>1
  <2> QED
    BY <1>1, <2>1, <2>3, <2>4
<1>5. CASE Sweep
  <2> DEFINE freed == (InList(1 - index) \ marked) \ Letters
             wiped == UNION {CellsOf(a) : a \in freed \cap Arrays}
  <2>1. /\ op' = op /\ list' = [n \in Nodes |-> IF n \in freed THEN NULL ELSE list[n]]
        /\ live' = [c \in Cells |-> IF c \in wiped THEN NULL ELSE live[c]]
        /\ size' = [a \in Arrays |-> IF a \in freed THEN 0 ELSE size[a]]
    BY <1>5 DEF Sweep
  <2>2. \A c \in wiped : c[1] \in freed \cap Arrays
    BY DEF CellsOf
  <2> HIDE DEF freed, wiped
  <2>3. Data' = Data
    BY <1>1, <2>1, <2>2 DEF Data
  <2>4. Data \notin freed /\ Source \notin freed
    <3>1. Source' = Source
      BY <2>1, <2>3 DEF Source
    <3>2. list'[Data] # NULL /\ list'[Source] # NULL
      BY <2>3, <3>1, ArraysNext
    <3> QED
      BY <1>1, <2>1, <3>2 DEF Nodes
  <2>5. ASSUME NEW a \in {Data, Source}
        PROVE  size'[a] = size[a] /\ \A i \in Index : live'[<<a, i>>] = live[<<a, i>>]
    <3>1. \A i \in Index : <<a, i>> \in Cells /\ <<a, i>>[1] = a
      BY <1>1, Addresses
    <3> QED
      BY <1>1, <2>1, <2>2, <2>4, <3>1
  <2> QED
    BY <2>1, <2>3, <2>5
<1>6. CASE ~LetterDone /\ ~Sweep
  <2>1. live' = live /\ size' = size /\ op' = op
    <3>1. CASE BeginPhase \/ Gather \/ StartWork \/ MarkRoot
      BY <3>1 DEF BeginPhase, Gather, StartWork, MarkRoot, vectorVars, mutatorVars, arrayVars
    <3>2. CASE MarkElement \/ VisitNode \/ FastRead \/ FastWrite \/ Restore \/ WorkDone
      BY <3>2 DEF MarkElement, VisitNode, FastRead, FastWrite, Restore, WorkDone,
                  mutatorVars, arrayVars
    <3> QED
      BY <1>6, <3>1, <3>2 DEF CollectorNext
  <2> QED
    BY <1>3, <2>1
<1> QED
  BY <1>4, <1>5, <1>6

(* What a store to one of the pointers of data leaves alone.               *)
Wrote(k, v) ==
  /\ Data' = Data
  /\ live'[<<Data, k>>] = v
  /\ \A i \in Index \ {k} : live'[<<Data, i>>] = live[<<Data, i>>]
  /\ \A a \in Arrays \ {Data}, i \in Index : live'[<<a, i>>] = live[<<a, i>>]

(* A store to one of the pointers of data is such a step.                  *)
LEMMA StoreWrites ==
  ASSUME IInv, NEW k \in Index, NEW v, live' = Stored(live, Cell(k), v)
  PROVE  Wrote(k, v)
<1>1. /\ Data \in Arrays /\ Cell(k) = <<Data, k>> /\ Cell(k) \in Cells
      /\ Slot("data") \in Cells /\ Slot("data") # Cell(k)
  <2>1. Slot("data") \in Cells /\ Slot("data")[1] = "data" /\ "data" \notin Arrays
    BY Addresses DEF Roots
  <2> QED
    BY <2>1, UserFacts
<1>2. live \in [Cells -> Arrays \cup Elements \cup {NULL}]
  BY DEF IInv, TypeOK
<1>3. live'[Cell(k)] = v /\ \A c \in Cells \ {Cell(k)} : live'[c] = live[c]
  BY <1>1, <1>2 DEF Stored
<1>4. Data' = Data
  BY <1>1, <1>3 DEF Data
<1>5. ASSUME NEW a \in Arrays, NEW i \in Index, a # Data \/ i # k
      PROVE  live'[<<a, i>>] = live[<<a, i>>]
  <2>1. <<a, i>> \in Cells /\ <<a, i>> # <<Data, k>>
    BY <1>5, Addresses
  <2> QED
    BY <1>1, <1>3, <2>1
<1> QED
  BY <1>1, <1>3, <1>4, <1>5 DEF Wrote

(* Setting arg is the program's own business.                              *)
LEMMA SetArgStutters ==
  ASSUME IInv, IInv', CopyInOrder, SetArg
  PROVE  Simulated
<1>1. /\ op' = op /\ size' = size
      /\ \E v : live' = Stored(live, Slot("arg"), v)
  BY DEF SetArg, arrayVars, WriteBarrier
<1>2. /\ Data \in Arrays /\ Source \in Arrays /\ Slot("data") \in Cells
      /\ Slot("data") # Slot("arg")
  BY UserFacts, ContentsIs, Addresses DEF ContentsFit, Roots, Slot
<1>3. \A c \in Cells \ {Slot("arg")} : live'[c] = live[c]
  BY <1>1 DEF Stored, IInv, TypeOK
<1>4. Data' = Data
  BY <1>2, <1>3 DEF Data
<1>5. \A a \in Arrays, i \in Index : live'[<<a, i>>] = live[<<a, i>>]
  <2>1. \A a \in Arrays, i \in Index : <<a, i>> \in Cells /\ <<a, i>>[1] # Slot("arg")[1]
    BY Addresses DEF Roots
  <2> QED
    BY <1>3, <2>1
<1> QED
  BY <1>1, <1>2, <1>4, <1>5, Untouched DEF Simulated, SequenceStep

(* The assignment to an element changes that element.                      *)
LEMMA SetElementSets ==
  ASSUME IInv, IInv', NEW i \in Index, SetElement(i)
  PROVE  Simulated
<1> DEFINE s == Contents
           v == ArgValue
<1>1. /\ op.do = "idle" /\ op' = op /\ size' = size /\ i < size[Data]
      /\ live' = Stored(live, Cell(i), v)
  BY DEF SetElement, Running, arrayVars, WriteBarrier, Length
<1>2. Wrote(i, v) /\ v \in Pointers /\ Source = Data /\ Source' = Data
  BY <1>1, StoreWrites, UserFacts DEF Pointers, Source, Wrote
<1>3. /\ size[Data] \in 0 .. MaxSize /\ MaxSize \in Nat /\ i \in Nat
      /\ s \in Seq(Pointers) /\ s' \in Seq(Pointers)
      /\ Len(s) = size[Data] /\ Len(s') = size[Data]
      /\ \A k \in 1 .. size[Data] : s[k] = live[<<Data, k - 1>>] /\ s'[k] = live'[<<Data, k - 1>>]
  BY <1>1, <1>2, ContentsIs, ContentsNext, UserFacts DEF ContentsFit, Index
<1> DEFINE j == i + 1
           t == [s EXCEPT ![j] = v]
<1>4. j \in 1 .. Len(s) /\ \A k \in 1 .. size[Data] : k - 1 \in Index /\ (k # j => k - 1 # i)
  BY <1>1, <1>3 DEF Index
<1>5. /\ t \in Seq(Pointers) /\ Len(t) = Len(s)
      /\ \A k \in 1 .. Len(s) : t[k] = IF k = j THEN v ELSE s[k]
  <2> HIDE DEF s, j, v
  <2> QED
    BY <1>2, <1>3, <1>4, ExceptSeq
<1>6. ASSUME NEW k \in 1 .. size[Data]
      PROVE  s'[k] = t[k]
  <2>1. CASE k = j
    <3>1. k - 1 = i
      BY <1>3, <2>1
    <3>2. s'[k] = v
      BY <1>2, <1>3, <3>1 DEF Wrote
    <3> QED
      BY <1>3, <1>5, <2>1, <3>2
  <2>2. CASE k # j
    <3>1. k - 1 \in Index \ {i}
      BY <1>4, <2>2
    <3>2. s'[k] = s[k]
      BY <1>2, <1>3, <3>1 DEF Wrote
    <3> QED
      BY <1>3, <1>5, <2>2, <3>2
  <2> QED
    BY <2>1, <2>2
<1>7. s' = t
  <2> HIDE DEF t
  <2> QED
    BY <1>3, <1>5, <1>6, SeqEqual
<1>8. Abstract!SequenceNext
  <2>1. Abstract!SetAt(j, v)
    BY <1>7 DEF Abstract!SetAt
  <2>2. v \in Abstract!Value /\ j \in 1 .. Len(Contents)
    BY <1>2, <1>4 DEF Abstract!Value, Pointers
  <2> QED
    BY <2>1, <2>2 DEF Abstract!SequenceNext
<1>9. CopyInOrder'
  BY <1>1 DEF CopyInOrder
<1> QED
  BY <1>8, <1>9 DEF Simulated, SequenceStep

(* push_back, at once or after it had to grow, appends arg.                *)
LEMMA PushBackAppends ==
  ASSUME IInv, IInv', PushBack
  PROVE  Simulated
<1> DEFINE s == Contents
           v == ArgValue
           n == size[Data]
<1>1. /\ op.do \in {"idle", "then"} /\ op' = Idle /\ n < MaxSize
      /\ size' = [size EXCEPT ![Data] = n + 1]
      /\ live' = Stored(live, Cell(n), v)
  BY DEF PushBack, Running, SetSize, WriteBarrier, Length
<1>2. /\ n \in Nat /\ n \in Index /\ MaxSize \in Nat /\ v \in Pointers
      /\ Source = Data
  BY <1>1, UserFacts, ContentsIs DEF ContentsFit, Pointers, Index, Source
<1>3. Wrote(n, v) /\ Source' = Data /\ size'[Data] = n + 1
  <2>1. Wrote(n, v)
    BY <1>1, <1>2, StoreWrites
  <2>2. op'.do # "copy"
    BY <1>1 DEF Idle
  <2> QED
    BY <1>1, <2>1, <2>2, UserFacts DEF Wrote, Source, IInv, TypeOK
<1>4. /\ s \in Seq(Pointers) /\ s' \in Seq(Pointers) /\ Len(s) = n /\ Len(s') = n + 1
      /\ \A k \in 1 .. n : s[k] = live[<<Data, k - 1>>]
      /\ \A k \in 1 .. n + 1 : s'[k] = live'[<<Data, k - 1>>]
  <2>1. op.do # "shift" /\ op'.do # "shift"
    BY <1>1 DEF Idle
  <2> QED
    BY <1>2, <1>3, <2>1, ContentsIs, ContentsNext DEF ContentsFit, Wrote
<1> HIDE DEF s, v, n
<1>5. s'[n + 1] = v
  <2>1. n + 1 \in 1 .. n + 1 /\ n + 1 - 1 = n
    BY <1>2
  <2> QED
    BY <1>3, <1>4, <2>1 DEF Wrote
<1>6. ASSUME NEW k \in 1 .. n
      PROVE  s'[k] = s[k]
  <2>1. k \in 1 .. n + 1 /\ k - 1 \in Index \ {n}
    BY <1>2 DEF Index
  <2> QED
    BY <1>3, <1>4, <2>1 DEF Wrote
<1>7. s' = Append(s, v)
  BY <1>2, <1>4, <1>5, <1>6, AppendIs
<1>8. Abstract!SequenceNext
  <2>1. Abstract!Append1(v)
    BY <1>7 DEF Abstract!Append1, s
  <2>2. v \in Abstract!Value
    BY <1>2 DEF Abstract!Value, Pointers
  <2> QED
    BY <2>1, <2>2 DEF Abstract!SequenceNext
<1>9. CopyInOrder'
  BY <1>1 DEF CopyInOrder, Idle
<1> QED
  BY <1>8, <1>9 DEF Simulated, SequenceStep

(* pop_back takes the last element away.                                   *)
LEMMA PopBackRemoves ==
  ASSUME IInv, IInv', PopBack
  PROVE  Simulated
<1> DEFINE s == Contents
           n == size[Data]
           last == n - 1
           to == [c \in {Slot("arg"), Cell(last)} |->
                    IF c = Cell(last) THEN NULL ELSE live[Cell(last)]]
<1>1. /\ op.do = "idle" /\ op' = op /\ n > 0
      /\ size' = [size EXCEPT ![Data] = last]
      /\ live' = [c \in Cells |-> IF c \in DOMAIN to THEN to[c] ELSE live[c]]
  BY DEF PopBack, Running, Length
<1>2. /\ n \in Nat /\ last \in Nat /\ last \in Index /\ MaxSize \in Nat
      /\ last + 1 = n /\ n \in 0 .. MaxSize /\ Source = Data /\ Data \in Arrays
  BY <1>1, UserFacts, ContentsIs DEF ContentsFit, Index, Source
<1> HIDE DEF last
<1>3. \A c \in Cells \ {Slot("arg"), <<Data, last>>} : live'[c] = live[c]
  <2>1. DOMAIN to = {Slot("arg"), <<Data, last>>}
    BY DEF Cell
  <2> QED
    BY <1>1, <2>1
<1>4. Data' = Data
  <2>1. /\ Slot("data") \in Cells /\ Slot("data") # Slot("arg")
        /\ Slot("data")[1] = "data" /\ "data" \notin Arrays
    BY Addresses DEF Roots, Slot
  <2> QED
    BY <1>2, <1>3, <2>1 DEF Data
<1>5. \A i \in Index \ {last} : live'[<<Data, i>>] = live[<<Data, i>>]
  <2>1. \A i \in Index \ {last} : /\ <<Data, i>> \in Cells /\ <<Data, i>> # <<Data, last>>
                                  /\ <<Data, i>>[1] # Slot("arg")[1]
    BY <1>2, Addresses DEF Roots
  <2> QED
    BY <1>3, <2>1
<1>6. size'[Data] = last /\ Source' = Data
  BY <1>1, <1>2, <1>4 DEF IInv, TypeOK, Source
<1>7. /\ s \in Seq(Pointers) /\ s' \in Seq(Pointers) /\ Len(s) = n /\ Len(s') = last
      /\ \A k \in 1 .. n : s[k] = live[<<Data, k - 1>>]
      /\ \A k \in 1 .. last : s'[k] = live'[<<Data, k - 1>>]
  <2>1. s \in Seq(Pointers) /\ Len(s) = n /\ \A k \in 1 .. n : s[k] = live[<<Data, k - 1>>]
    BY <1>1, <1>2, ContentsIs DEF ContentsFit
  <2>2. /\ s' \in Seq(Pointers) /\ Len(s') = last
        /\ \A k \in 1 .. last : s'[k] = live'[<<Data, k - 1>>]
    BY <1>1, <1>4, <1>6, ContentsNext DEF ContentsFit
  <2> QED
    BY <2>1, <2>2
<1>8. ASSUME NEW k \in 1 .. last
      PROVE  s'[k] = s[k]
  <2>1. k \in 1 .. n /\ k - 1 \in Index \ {last}
    BY <1>2 DEF Index
  <2> QED
    BY <1>5, <1>7, <2>1
<1> HIDE DEF s, n
<1>9. s # <<>> /\ s' = SubSeq(s, 1, Len(s) - 1)
  BY <1>2, <1>7, <1>8, ButLastIs
<1>10. Abstract!SequenceNext
  BY <1>9 DEF Abstract!SequenceNext, Abstract!RemoveLast, s
<1>11. CopyInOrder'
  BY <1>1 DEF CopyInOrder
<1> QED
  BY <1>10, <1>11 DEF Simulated, SequenceStep

(* clear leaves nothing.                                                   *)
LEMMA ClearEmpties ==
  ASSUME IInv, IInv', Clear
  PROVE  Simulated
<1> DEFINE cleared == {Cell(i) : i \in 0 .. Length - 1}
<1>1. /\ op.do = "idle" /\ op' = op
      /\ live' = [c \in Cells |-> IF c \in cleared THEN NULL ELSE live[c]]
      /\ size' = [size EXCEPT ![Data] = 0]
  BY DEF Clear, Running
<1>2. Data' = Data /\ Data \in Arrays
  <2>1. /\ Data \in Arrays /\ Slot("data") \in Cells
        /\ Slot("data")[1] = "data" /\ "data" \notin Arrays
    BY UserFacts, Addresses DEF Roots
  <2>2. \A c \in cleared : c[1] = Data
    BY DEF Cell
  <2>3. Slot("data") \notin cleared
    BY <2>1, <2>2
  <2> HIDE DEF cleared
  <2> QED
    BY <1>1, <2>1, <2>3 DEF Data
<1>3. size'[Data] = 0 /\ Source' = Data
  BY <1>1, <1>2 DEF IInv, TypeOK, Source
<1>4. Contents' \in Seq(Pointers) /\ Len(Contents') = 0
  BY <1>3, ContentsNext DEF ContentsFit
<1>5. Contents' = <<>>
  <2> DEFINE t == Contents'
  <2>1. t \in Seq(Pointers) /\ Len(t) = 0
    BY <1>4
  <2> HIDE DEF t
  <2>2. t = <<>>
    BY <2>1, EmptySeq
  <2> QED
    BY <2>2 DEF t
<1>6. Abstract!SequenceNext
  BY <1>5 DEF Abstract!SequenceNext, Abstract!Empty
<1>7. CopyInOrder'
  BY <1>1 DEF CopyInOrder
<1> QED
  BY <1>6, <1>7 DEF Simulated, SequenceStep

(* A resize to more adds null pointers: what is beyond the size is null.   *)
LEMMA ResizeInPlaceResizes ==
  ASSUME Orderly, IInv, IInv', NEW n \in 0 .. MaxSize, ResizeInPlace(n)
  PROVE  Simulated
<1> DEFINE s == Contents
           m == size[Data]
<1>1. /\ Running("idle") \/ Running("then")
      /\ op.do \in {"idle", "then"} /\ op' = Idle /\ live' = live
      /\ size' = [size EXCEPT ![Data] = n]
      /\ ~(n < m)
  BY DEF ResizeInPlace, Running, SetSize, Length, Orderly
<1>2. /\ Data \in Arrays /\ m \in 0 .. MaxSize /\ MaxSize \in Nat /\ Source = Data
      /\ \A i \in Index : i \geq m => live[<<Data, i>>] = NULL
  BY <1>1, UserFacts, IdleNow, ContentsIs DEF ContentsFit, Length, Cell
<1>3. Data' = Data /\ Source' = Data /\ size'[Data] = n
  BY <1>1, <1>2 DEF Data, Source, Idle, IInv, TypeOK
<1>4. /\ s \in Seq(Pointers) /\ s' \in Seq(Pointers) /\ Len(s) = m /\ Len(s') = n
      /\ \A k \in 1 .. m : s[k] = live[<<Data, k - 1>>]
      /\ \A k \in 1 .. n : s'[k] = live[<<Data, k - 1>>]
  <2>1. op.do # "shift" /\ op'.do # "shift"
    BY <1>1 DEF Idle
  <2> QED
    BY <1>1, <1>2, <1>3, <2>1, ContentsIs, ContentsNext DEF ContentsFit
<1> HIDE DEF s, m
<1>5. ASSUME NEW k \in 1 .. n
      PROVE  s'[k] = IF k \leq m THEN s[k] ELSE NULL
  <2>1. CASE k \leq m
    <3>1. k \in 1 .. m
      BY <1>2, <2>1
    <3> QED
      BY <1>4, <2>1, <3>1
  <2>2. CASE ~(k \leq m)
    <3>1. k - 1 \in Index /\ k - 1 \geq m
      BY <1>2, <2>2 DEF Index
    <3> QED
      BY <1>2, <1>4, <2>2, <3>1
  <2> QED
    BY <2>1, <2>2
<1>6. Abstract!Resize
  <2>1. s' \in Seq(Abstract!Value)
    BY <1>4 DEF Abstract!Value, Pointers
  <2>2. \A k \in 1 .. Len(s') : s'[k] = IF k \leq Len(s) THEN s[k] ELSE NULL
    BY <1>4, <1>5
  <2> QED
    BY <2>1, <2>2 DEF Abstract!Resize, s
<1>7. Abstract!SequenceNext
  BY <1>6 DEF Abstract!SequenceNext
<1>8. CopyInOrder'
  BY <1>1 DEF CopyInOrder, Idle
<1> QED
  BY <1>7, <1>8 DEF Simulated, SequenceStep

(* A vector that starts to grow has its contents in the old array.         *)
LEMMA GrowStutters ==
  ASSUME IInv, IInv', NEW job, NEW s, NEW n, Grow(job, s, n)
  PROVE  Simulated
<1>1. PICK a \in Free(Arrays), r \in Free(Letters) :
        live' = [live EXCEPT ![Slot(r)] = HoldOld(r), ![Slot("data")] = a]
  BY DEF Grow
<1>2. /\ op.do = "idle" /\ Source = Data /\ size' = size
      /\ op' = [do |-> "copy", job |-> job, i |-> Length, n |-> n, from |-> Data]
  BY DEF Grow, Running, Source
<1>3. Source' = Data /\ op'.do = "copy" /\ op'.i = size[Data] /\ op'.from = Data
  BY <1>2 DEF Source, Length
<1>4. \A i \in Index : live'[<<Data, i>>] = live[<<Data, i>>]
  <2>1. /\ \A i \in Index : <<Data, i>> \in Cells /\ <<Data, i>>[1] = Data
        /\ Slot(r)[1] = r /\ Slot("data")[1] = "data" /\ Data \notin Roots
        /\ r \in Roots /\ "data" \in Roots
    BY UserFacts, Addresses DEF Roots, Free
  <2>2. \A c \in Cells : c # Slot(r) /\ c # Slot("data") => live'[c] = live[c]
    BY <1>1 DEF IInv, TypeOK
  <2>3. \A i \in Index : <<Data, i>> # Slot(r) /\ <<Data, i>> # Slot("data")
    BY <2>1
  <2> QED
    BY <2>1, <2>2, <2>3
<1>5. Contents' = Contents
  <2>1. ASSUME NEW k \in 1 .. size[Source]
        PROVE  Contents'[k] = Contents[k]
    <3>1. k - 1 \in Index
      BY <1>2, UserFacts, ContentsIs DEF ContentsFit, Index
    <3>2. Contents[k] = live[<<Data, k - 1>>]
      BY <1>2, ContentsIs DEF ContentsFit
    <3>3. Contents'[k] = live'[<<Data, k - 1>>]
      BY <1>2, <1>3, ContentsNext DEF ContentsFit
    <3> QED
      BY <1>4, <3>1, <3>2, <3>3
  <2> QED
    BY <1>2, <1>3, <2>1, SameContents
<1>6. CopyInOrder'
  <2>1. size'[op'.from] = op'.i /\ op'.i \in Nat
    BY <1>2, <1>3, ContentsIs DEF ContentsFit
  <2>2. \A i \in Index : ~(op'.i \leq i /\ i < size'[op'.from])
    BY <2>1, Addresses
  <2> QED
    BY <2>2 DEF CopyInOrder
<1> QED
  BY <1>5, <1>6 DEF Simulated, SequenceStep

(* A pointer copied changes nothing of them.                               *)
LEMMA CopyOneStutters ==
  ASSUME IInv, IInv', CopyInOrder, CopyOne
  PROVE  Simulated
<1> DEFINE j == op.i - 1
           t == Target(j)
           f == op.from
<1>1. /\ Running("copy") /\ op.do = "copy" /\ op.i > 0 /\ size' = size
      /\ live' = Stored(live, Cell(t), live[<<f, j>>])
      /\ op' = [op EXCEPT !.i = @ - 1]
  BY DEF CopyOne, CopyPair, arrayVars, Running
<1>2. /\ CopyFits /\ Source = f /\ f \in Arrays \ {Data} /\ size[f] \in 0 .. MaxSize
      /\ MaxSize \in Nat /\ op.i \in Nat /\ op.i \leq size[f] /\ op.job \in Job
  BY <1>1, CopyFacts DEF CopyFits
<1>3. op' = [do |-> "copy", job |-> op.job, i |-> j, n |-> op.n, from |-> f]
  BY <1>1, CopyFacts
<1>4. j \in Index /\ t \in Index
  BY <1>1, <1>2 DEF CopyFits, Index, Target
<1>5. Wrote(t, live[<<f, j>>])
  BY <1>1, <1>4, StoreWrites
<1>6. Source' = f /\ op'.do = "copy" /\ op'.from = f /\ op'.i = j /\ op'.job = op.job
  BY <1>3 DEF Source
<1>7. Contents' = Contents
  <2>1. ASSUME NEW k \in 1 .. size[Source]
        PROVE  Contents'[k] = Contents[k]
    <3>1. k - 1 \in Index
      BY <1>2 DEF Index
    <3>2. Contents[k] = live[<<f, k - 1>>]
      BY <1>1, <1>2, ContentsIs DEF ContentsFit
    <3>3. Contents'[k] = live'[<<f, k - 1>>]
      BY <1>1, <1>2, <1>6, ContentsNext DEF ContentsFit
    <3> QED
      BY <1>2, <1>5, <3>1, <3>2, <3>3 DEF Wrote
  <2> QED
    BY <1>1, <1>2, <1>6, <2>1, SameContents
<1>8. CopyInOrder'
  <2> SUFFICES ASSUME NEW i \in Index, j \leq i, i < size[f]
               PROVE  live'[<<Data, Target(i)>>] = live'[<<f, i>>]
    BY <1>1, <1>5, <1>6 DEF CopyInOrder, Wrote, Target
  <2>1. live'[<<f, i>>] = live[<<f, i>>]
    BY <1>2, <1>5 DEF Wrote
  <2>2. CASE i = j
    BY <1>5, <2>1, <2>2 DEF Wrote
  <2>3. CASE i # j
    <3>1. op.i \leq i /\ Target(i) \in Index \ {t}
      BY <1>2, <2>3 DEF CopyFits, Target, Index
    <3>2. live[<<Data, Target(i)>>] = live[<<f, i>>]
      BY <1>1, <3>1 DEF CopyInOrder
    <3> QED
      BY <1>5, <2>1, <3>1, <3>2 DEF Wrote
  <2> QED
    BY <2>2, <2>3
<1> QED
  BY <1>7, <1>8 DEF Simulated, SequenceStep

(* When all are copied data has the contents, with arg in front of them if *)
(* it is push_front that grew the vector.                                  *)
LEMMA CopyDoneInserts ==
  ASSUME IInv, IInv', CopyInOrder, CopyDone
  PROVE  Simulated
<1> DEFINE f == op.from
           n == size[f]
           s == Contents
           v == ArgValue
<1>1. Running("copy") /\ op.do = "copy" /\ op.i = 0
  BY DEF CopyDone, Running
<1>2. /\ CopyFits /\ Source = f /\ f \in Arrays \ {Data} /\ n \in 0 .. MaxSize
      /\ MaxSize \in Nat /\ op.job \in Job /\ Data \in Arrays /\ v \in Pointers
  BY <1>1, CopyFacts, UserFacts DEF CopyFits, Pointers
<1>3. /\ op'.do # "copy"
      /\ op.job = "push_front" => op' = Idle
      /\ op'.do = "shift" => op'.i = n
  BY DEF CopyDone, Idle
<1>4. CopyInOrder' /\ Source' = Data'
  BY <1>3 DEF CopyInOrder, Source
<1>5. ASSUME NEW i \in Index, i < n
      PROVE  live[<<Data, Target(i)>>] = live[<<f, i>>]
  BY <1>1, <1>5, Addresses DEF CopyInOrder
<1>6. /\ s \in Seq(Pointers) /\ Len(s) = n
      /\ \A k \in 1 .. n : s[k] = live[<<f, k - 1>>]
  BY <1>1, <1>2, ContentsIs DEF ContentsFit
<1>7. CASE op.job # "push_front"
  <2>1. live' = live /\ size' = [size EXCEPT ![Data] = n]
    BY <1>7 DEF CopyDone, SetSize
  <2>2. Data' = Data /\ size'[Data] = n /\ Source' = Data
    BY <1>2, <1>4, <2>1 DEF Data, IInv, TypeOK
  <2>3. ASSUME NEW k \in 1 .. n
        PROVE  Contents'[k] = Contents[k]
    <3>1. k - 1 \in Index /\ k - 1 < n /\ Target(k - 1) = k - 1
      BY <1>2, <1>7 DEF Index, Target
    <3>2. Contents'[k] = live'[<<Data, k - 1>>]
      BY <1>2, <1>3, <2>2, ContentsNext DEF ContentsFit
    <3> QED
      BY <1>5, <1>6, <2>1, <3>1, <3>2
  <2>4. Contents' = Contents
    BY <1>2, <2>2, <2>3, SameContents
  <2> QED
    BY <1>4, <2>4 DEF Simulated, SequenceStep
<1>8. CASE op.job = "push_front"
  <2>1. /\ live' = Stored(live, Cell(0), v) /\ op' = Idle
        /\ size' = [size EXCEPT ![Data] = n + 1]
    BY <1>3, <1>8 DEF CopyDone, SetSize, WriteBarrier
  <2>2. n < MaxSize /\ 0 \in Index /\ n \in Nat
    BY <1>2, <1>8 DEF CopyFits, Index
  <2>3. Wrote(0, v)
    BY <2>1, <2>2, StoreWrites
  <2>4. Source' = Data /\ size'[Data] = n + 1 /\ op'.do # "shift"
    BY <1>2, <1>4, <2>1, <2>3 DEF Wrote, Idle, IInv, TypeOK
  <2>5. /\ s' \in Seq(Pointers) /\ Len(s') = n + 1
        /\ \A k \in 1 .. n + 1 : s'[k] = live'[<<Data, k - 1>>]
    BY <2>4, ContentsNext DEF ContentsFit
  <2>6. s'[0 + 1] = v
    <3>1. 1 \in 1 .. n + 1 /\ 1 - 1 = 0 /\ 0 + 1 = 1
      BY <2>2
    <3> QED
      BY <2>3, <2>5, <3>1 DEF Wrote
  <2>7. ASSUME NEW k \in 1 .. n
        PROVE  s'[k + 1] = s[k]
    <3>1. /\ k - 1 \in Index /\ k - 1 < n /\ Target(k - 1) = k
          /\ k \in Index \ {0} /\ k + 1 \in 1 .. n + 1 /\ k + 1 - 1 = k
      BY <1>8, <2>2, <1>2 DEF Index, Target
    <3>2. s'[k + 1] = live[<<Data, k>>]
      BY <2>3, <2>5, <3>1 DEF Wrote
    <3> QED
      BY <1>5, <1>6, <3>1, <3>2
  <2> HIDE DEF s, n, v
  <2>8. s' = SubSeq(s, 1, 0) \o <<v>> \o SubSeq(s, 0 + 1, Len(s))
    <3>1. 0 \in 0 .. Len(s) /\ Inserted(s, s', 0, v)
      BY <1>6, <2>2, <2>5, <2>6, <2>7 DEF Inserted
    <3> QED
      BY <1>2, <1>6, <2>5, <3>1, InsertIs
  <2>9. Abstract!SequenceNext
    <3>1. Abstract!InsertAt(0, v)
      BY <2>8 DEF Abstract!InsertAt, s
    <3>2. v \in Abstract!Value /\ 0 \in 0 .. Len(Contents)
      BY <1>2, <1>6, <2>2 DEF Abstract!Value, Pointers, s
    <3> QED
      BY <3>1, <3>2 DEF Abstract!SequenceNext
  <2> QED
    BY <1>4, <2>9 DEF Simulated, SequenceStep
<1> QED
  BY <1>7, <1>8

(* An insert that has room begins with nothing shifted.                    *)
LEMMA StartShiftStutters ==
  ASSUME IInv, IInv', NEW job, NEW p, StartShift(job, p)
  PROVE  Simulated
<1>1. /\ op.do = "idle" /\ live' = live /\ size' = size
      /\ op' = [do |-> "shift", job |-> job, i |-> Length, n |-> p]
  BY DEF StartShift, Running, arrayVars
<1>2. /\ op'.do = "shift" /\ op'.i = size[Data] /\ Source = Data
      /\ Source' = Data /\ Data' = Data /\ size[Data] \in Nat
  BY <1>1, UserFacts DEF Source, Data, Length
<1>3. ASSUME NEW k \in 1 .. size[Source]
      PROVE  Contents'[k] = Contents[k]
  <2>1. k \leq op'.i
    BY <1>2
  <2> QED
    BY <1>1, <1>2, <2>1, ContentsIs, ContentsNext DEF ContentsFit
<1>4. Contents' = Contents
  BY <1>1, <1>2, <1>3, SameContents
<1> QED
  BY <1>2, <1>4 DEF Simulated, SequenceStep, CopyInOrder

(* A pointer shifted up is there twice, and counts once.                   *)
LEMMA ShiftOneStutters ==
  ASSUME IInv, IInv', ShiftOne
  PROVE  Simulated
<1>1. /\ op.do = "shift" /\ op.i > op.n /\ size' = size
      /\ live' = Stored(live, Cell(op.i), live[Cell(op.i - 1)])
      /\ op' = [op EXCEPT !.i = @ - 1]
  BY DEF ShiftOne, Running, CopyPair, arrayVars
<1>2. /\ ShiftFits /\ op.i \in Nat /\ op.n \in Nat /\ Source = Data
      /\ op' = [do |-> "shift", job |-> op.job, i |-> op.i - 1, n |-> op.n]
      /\ size[Data] \in Nat /\ size[Data] < MaxSize /\ MaxSize \in Nat /\ op.i \leq size[Data]
  BY <1>1, OpCases, UserFacts DEF IInv, OpFits, ShiftFits, Source, Length
<1>3. op.i \in Index /\ op.i - 1 \in Index /\ Cell(op.i - 1) = <<Data, op.i - 1>>
  BY <1>1, <1>2 DEF Index, Cell
<1>4. Wrote(op.i, live[<<Data, op.i - 1>>])
  BY <1>1, <1>3, StoreWrites
<1>5. op'.do = "shift" /\ op'.i = op.i - 1 /\ Source' = Data /\ Data' = Data
  BY <1>2, <1>4 DEF Source, Wrote
<1>6. ASSUME NEW k \in 1 .. size[Data]
      PROVE  Contents'[k] = Contents[k]
  <2>1. /\ Contents[k] = live[<<Data, IF k \leq op.i THEN k - 1 ELSE k>>]
        /\ Contents'[k] = live'[<<Data, IF k \leq op.i - 1 THEN k - 1 ELSE k>>]
    BY <1>1, <1>5, ContentsIs, ContentsNext DEF ContentsFit
  <2>2. CASE k = op.i
    <3>1. Contents[k] = live[<<Data, op.i - 1>>] /\ Contents'[k] = live'[<<Data, op.i>>]
      BY <1>2, <2>1, <2>2
    <3> QED
      BY <1>4, <3>1 DEF Wrote
  <2>3. CASE k # op.i
    <3> DEFINE j == IF k \leq op.i THEN k - 1 ELSE k
    <3>1. j \in Index \ {op.i} /\ j = IF k \leq op.i - 1 THEN k - 1 ELSE k
      BY <1>2, <2>3 DEF Index
    <3> QED
      BY <1>4, <2>1, <3>1 DEF Wrote
  <2> QED
    BY <2>2, <2>3
<1>7. Contents' = Contents
  BY <1>1, <1>2, <1>5, <1>6, SameContents
<1> QED
  BY <1>5, <1>7 DEF Simulated, SequenceStep, CopyInOrder

(* The last store puts arg where the copy that counts once was.            *)
LEMMA ShiftDoneInserts ==
  ASSUME IInv, IInv', ShiftDone
  PROVE  Simulated
<1> DEFINE s == Contents
           v == ArgValue
           p == op.n
           n == size[Data]
<1>1. /\ op.do = "shift" /\ op.i = p /\ op' = Idle
      /\ live' = Stored(live, Cell(p), v) /\ size' = [size EXCEPT ![Data] = n + 1]
  BY DEF ShiftDone, Running, SetSize, WriteBarrier, Length
<1>2. /\ p \in Nat /\ p \leq n /\ n \in Nat /\ n < MaxSize /\ MaxSize \in Nat
      /\ v \in Pointers /\ Source = Data
  BY <1>1, OpCases, UserFacts DEF IInv, OpFits, ShiftFits, Source, Length, Pointers
<1>3. p \in Index /\ p \in 0 .. n
  BY <1>2 DEF Index
<1>4. Wrote(p, v) /\ op'.do = "idle" /\ Source' = Data /\ size'[Data] = n + 1
  <2>1. Wrote(p, v)
    BY <1>1, <1>3, StoreWrites
  <2> QED
    BY <1>1, <2>1, UserFacts DEF Wrote, Idle, Source, IInv, TypeOK
<1>5. /\ s \in Seq(Pointers) /\ s' \in Seq(Pointers) /\ Len(s) = n /\ Len(s') = n + 1
      /\ \A k \in 1 .. n : s[k] = live[<<Data, IF k \leq p THEN k - 1 ELSE k>>]
      /\ \A k \in 1 .. n + 1 : s'[k] = live'[<<Data, k - 1>>]
  BY <1>1, <1>2, <1>4, ContentsIs, ContentsNext DEF ContentsFit
<1>w. live'[<<Data, p>>] = v /\ \A i \in Index \ {p} : live'[<<Data, i>>] = live[<<Data, i>>]
  BY <1>4 DEF Wrote
<1> HIDE DEF s, v, p, n
<1>6. s'[p + 1] = v
  <2>1. PICK k \in 1 .. n + 1 : k = p + 1 /\ k - 1 = p
    BY <1>2
  <2>2. s'[k] = live'[<<Data, k - 1>>]
    BY <1>5
  <2> QED
    BY <1>w, <2>1, <2>2
<1>7. ASSUME NEW k \in 1 .. p
      PROVE  s'[k] = s[k]
  <2>1. /\ k \in 1 .. n /\ k \in 1 .. n + 1 /\ k \leq p
        /\ k - 1 \in Index \ {p}
    BY <1>2 DEF Index
  <2> QED
    BY <1>5, <1>w, <2>1
<1>8. ASSUME NEW k \in p + 1 .. n
      PROVE  s'[k + 1] = s[k]
  <2>1. /\ k \in 1 .. n /\ k + 1 \in 1 .. n + 1 /\ ~(k \leq p) /\ k + 1 - 1 = k
        /\ k \in Index \ {p}
    BY <1>2 DEF Index
  <2>2. s[k] = live[<<Data, k>>]
    BY <1>5, <2>1
  <2>3. s'[k + 1] = live'[<<Data, k>>]
    BY <1>5, <2>1
  <2> QED
    BY <1>w, <2>1, <2>2, <2>3
<1>9. s' = SubSeq(s, 1, p) \o <<v>> \o SubSeq(s, p + 1, Len(s))
  <2>1. p \in 0 .. Len(s) /\ Inserted(s, s', p, v)
    BY <1>3, <1>5, <1>6, <1>7, <1>8 DEF Inserted
  <2> QED
    BY <1>2, <1>5, <2>1, InsertIs
<1>10. Abstract!SequenceNext
  <2>1. Abstract!InsertAt(p, v)
    BY <1>9 DEF Abstract!InsertAt, s
  <2>2. v \in Abstract!Value /\ p \in 0 .. Len(Contents)
    BY <1>2, <1>3, <1>5 DEF Abstract!Value, Pointers, s
  <2> QED
    BY <2>1, <2>2 DEF Abstract!SequenceNext
<1>11. CopyInOrder'
  BY <1>4 DEF CopyInOrder
<1> QED
  BY <1>10, <1>11 DEF Simulated, SequenceStep

(* A phase change is none of the sequence's business.                      *)
LEMMA SameStutters ==
  ASSUME IInv, IInv', CopyInOrder, UNCHANGED vectorVars
  PROVE  Simulated
<1>1. live' = live /\ size' = size /\ op' = op
  BY DEF vectorVars, mutatorVars, arrayVars
<1>2. Data' = Data
  BY <1>1 DEF Data
<1> QED
  BY <1>1, <1>2, Untouched DEF Simulated, SequenceStep

(* Every step is one on the sequence or none.                              *)
LEMMA StepSimulated ==
  ASSUME Orderly, IInv, IInv', CopyInOrder, [Next]_vars
  PROVE  Simulated
<1>1. CASE CollectorNext
  BY <1>1, CollectorStutters
<1>2. CASE PhaseStep \/ UNCHANGED vars
  BY <1>2, SameStutters DEF PhaseStep, vars
<1>3. CASE MutatorStep
  <2>1. CASE SetArg \/ PushBack \/ PopBack \/ Clear
    BY <2>1, SetArgStutters, PushBackAppends, PopBackRemoves, ClearEmpties
  <2>2. CASE \E i \in Index : SetElement(i)
    BY <2>2, SetElementSets
  <2>3. CASE \E n \in 0 .. MaxSize : ResizeInPlace(n)
    BY <2>3, ResizeInPlaceResizes
  <2>4. CASE GrowFor
    BY <2>4, GrowStutters DEF GrowFor
  <2>5. CASE CopyOne \/ CopyDone
    BY <2>5, CopyOneStutters, CopyDoneInserts
  <2>6. CASE StartShift("push_front", 0) \/ \E p \in 0 .. Length : StartShift("insert", p)
    BY <2>6, StartShiftStutters
  <2>7. CASE ShiftOne \/ ShiftDone
    BY <2>7, ShiftOneStutters, ShiftDoneInserts
  <2> QED
    BY <1>3, <2>1, <2>2, <2>3, <2>4, <2>5, <2>6, <2>7 DEF MutatorStep
<1> QED
  BY <1>1, <1>2, <1>3 DEF Next

(* However it grows, shifts and is scanned, the vector is a sequence that  *)
(* each member function changes at one moment: push_back appends,          *)
(* push_front and insert insert where they say, while the pointers are     *)
(* copied one by one and the collector walks the same arrays.              *)
THEOREM VectorIsASequence ==
  ASSUME Orderly
  PROVE  Spec => ImplementsSequence
<1>1. ASSUME Init
      PROVE  Abstract!SequenceInit /\ CopyInOrder
  <2>1. IInv /\ size = [a \in Arrays |-> 0] /\ op.do = "idle"
    BY <1>1, InvInit DEF Init, Idle
  <2>2. Contents \in Seq(Pointers) /\ Len(Contents) = 0
    BY <2>1, ContentsIs DEF ContentsFit
  <2>3. Contents = <<>>
    <3> DEFINE s == Contents
    <3>1. s \in Seq(Pointers) /\ Len(s) = 0
      BY <2>2
    <3> HIDE DEF s
    <3>2. s = <<>>
      BY <3>1, EmptySeq
    <3> QED
      BY <3>2 DEF s
  <2> QED
    BY <2>1, <2>3 DEF Abstract!SequenceInit, CopyInOrder
<1>2. ASSUME IInv, IInv', CopyInOrder, [Next]_vars
      PROVE  CopyInOrder' /\ [Abstract!SequenceNext]_Contents
  BY <1>2, StepSimulated DEF Simulated, SequenceStep
<1>3. Spec => []IInv
  BY Invariance
<1> QED
  BY <1>1, <1>2, <1>3, PTL DEF Spec, ImplementsSequence, Abstract!SequenceSpec
=============================================================================
