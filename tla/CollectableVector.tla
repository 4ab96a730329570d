-------------------------- MODULE CollectableVector --------------------------
(***************************************************************************)
(* CollectableVector<T> (Collectable.h): a collectable that owns one       *)
(* pointer, data, to a collectable array of pointers that is replaced by a *)
(* larger one as the vector grows.  The thread that uses the vector and    *)
(* the collector run side by side as in SnapshotHeap; the heap here is the *)
(* vector's own: the arrays, the elements, the RootPtr the program passes  *)
(* in and out (arg), and the RootPtrs with which a growing vector keeps    *)
(* its old array alive (data_held_for_collect).  The vector object itself  *)
(* and the letter of arg are there all the time.                           *)
(***************************************************************************)
EXTENDS Handshake, Sequences, FiniteSets

CONSTANTS
  Mutator,      \* the thread that uses the vector
  Arrays,       \* storage for CollectableVectoreUse objects
  Elements,     \* storage for the objects the vector points to
  Letters,      \* storage for the letters of data_held_for_collect
  InitReserve,  \* what the constructor reserves: 8
  MaxSize,      \* bound on the length
  SafeEvery,    \* loops pass a safe point where i % SafeEvery = 0: 1024
  NULL,
  VectorUsage   \* the ways the program uses the vector, see below

(***************************************************************************)
(* "move_busy": functions that move elements (grow the array, or shift     *)
(*    them up by one) are called while a collection is under way, and an   *)
(*    insert that grows or a push_front that shifts may meet a phase       *)
(*    change.                                                              *)
(* "shrink": resize(int) is called with less than the size.                *)
(***************************************************************************)

Index == 0 .. MaxSize - 1
Nodes == Arrays \cup Elements \cup Letters
Roots == Letters \cup {"data", "arg"}
Cells == (Arrays \X Index) \cup (Roots \X {0})
Slot(r) == <<r, 0>>

(* A null pointer is none of the things there are.                         *)
ASSUME VectorAssumption ==
  /\ Threads = {Mutator}
  /\ NULL \notin Nodes \cup Roots \cup Cells \cup {0, 1}
  /\ Arrays \cap Elements = {} /\ (Arrays \cup Elements) \cap Letters = {}
  /\ {"data", "arg"} \cap Nodes = {}
  /\ InitReserve \in Nat /\ MaxSize \in Nat /\ SafeEvery \in Nat \ {0}
  /\ VectorUsage \subseteq {"move_busy", "shrink"}

VARIABLES
  live, snap,      \* the two halves of each pointer
  list,            \* the list each node is in; NULL: freed memory
  size, scan_size, reserved,  \* of each array
  held,            \* the letter of data_held_for_collect while there is one
  was_owned,       \* the letters with was_owned set
  op,              \* the member function under way
  work,            \* what the collector is doing, see Work
  todo,            \* the nodes and roots it has left to visit
  at,              \* the array and index it is at, or NULL
  current,         \* the letter it is at, or NULL
  marked,          \* the arrays and elements with collectable_marked set
  kept,            \* what merge_collected found in the active lists
  fetched          \* fast_restore: the cell it has read, and what it read

arrayVars     == <<size, scan_size, reserved>>
mutatorVars   == <<live, list, arrayVars, held, was_owned, op>>
collectorVars == <<work, todo, at, current, marked, kept, fetched>>
vectorVars    == <<mutatorVars, snap, collectorVars>>
vars          == <<handshakeVars, vectorVars>>

Work == {"mark", "restore", "finalize", "done"}

InList(i) == {n \in Nodes : list[n] = i}
Free(S) == {n \in S : list[n] = NULL}
CellsOf(a) == {a} \X Index

Idle == [do |-> "idle"]

(* The constructor: data refers to a new, empty array.                     *)
Init ==
  /\ HandshakeInit
  /\ \E a \in Arrays :
       /\ live = [c \in Cells |-> IF c = Slot("data") THEN a ELSE NULL]
       /\ list = [n \in Nodes |-> IF n = a THEN index ELSE NULL]
       /\ reserved = [b \in Arrays |-> IF b = a THEN InitReserve ELSE 0]
  /\ snap = live
  /\ size = [a \in Arrays |-> 0]
  /\ scan_size = [a \in Arrays |-> 0]
  /\ held = NULL
  /\ was_owned = {}
  /\ op = Idle
  /\ work = "done" /\ todo = {} /\ at = NULL /\ current = NULL
  /\ marked = {} /\ kept = {} /\ fetched = NULL

-----------------------------------------------------------------------------
(* The user of the vector.                                                 *)

Data == live[Slot("data")]
Length == size[Data]
Cell(i) == <<Data, i>>
ArgValue == live[Slot("arg")]

Running(do) == Active(Mutator) /\ op.do = do

(* The write barrier, and double_ptr_store by which a pointer is built.    *)
Stored(half, c, v) == [half EXCEPT ![c] = v]
WriteBarrier(c, v) ==
  /\ live' = Stored(live, c, v)
  /\ snap' = IF regime[Mutator] = COLLECTING THEN snap ELSE Stored(snap, c, v)

(* dest[i] = source[j]: the implicit copy assignment of InstancePtr, that  *)
(* copies both halves whatever the phase.                                  *)
CopyPair(d, s) ==
  /\ live' = Stored(live, d, live[s])
  /\ snap' = Stored(snap, d, snap[s])

ScanAtLeast(a, n) == [scan_size EXCEPT ![a] = IF n > @ THEN n ELSE @]

(* Size n, and update_scan_size.                                           *)
SetSize(a, n) ==
  /\ size' = [size EXCEPT ![a] = n]
  /\ scan_size' = ScanAtLeast(a, n)
  /\ UNCHANGED reserved

(* arg = cnew T, arg = nullptr, arg = v[i].                                *)
SetArg ==
  /\ Running("idle")
  /\ \/ \E e \in Free(Elements) :
          WriteBarrier(Slot("arg"), e) /\ list' = [list EXCEPT ![e] = index]
     \/ \E v \in {NULL} \cup {live[Cell(i)] : i \in 0 .. Length - 1} :
          WriteBarrier(Slot("arg"), v) /\ UNCHANGED list
  /\ UNCHANGED <<handshakeVars, arrayVars, held, was_owned, op, collectorVars>>

(* v[i] = arg, v.at(i) = arg.                                              *)
SetElement(i) ==
  /\ Running("idle") /\ i < Length
  /\ WriteBarrier(Cell(i), ArgValue)
  /\ UNCHANGED <<handshakeVars, list, arrayVars, held, was_owned, op, collectorVars>>

(* CollectableVectoreUse::push_back, when there is room: at once, or as    *)
(* the end of a push_back that had to reserve.                             *)
PushBack ==
  /\ \/ Running("idle")
     \/ Running("then") /\ op.job = "push_back"
  /\ Length < reserved[Data] /\ Length < MaxSize
  /\ WriteBarrier(Cell(Length), ArgValue)
  /\ SetSize(Data, Length + 1)
  /\ op' = Idle
  /\ UNCHANGED <<handshakeVars, list, held, was_owned, collectorVars>>

(* pop_back(arg): the element goes to arg and its pointer becomes null, two *)
(* stores that in COLLECTING leave both snapshot halves alone.             *)
PopBack ==
  /\ Running("idle") /\ Length > 0
  /\ LET i == Length - 1
         to == [c \in {Slot("arg"), Cell(i)} |-> IF c = Cell(i) THEN NULL ELSE live[Cell(i)]]
     IN  /\ live' = [c \in Cells |-> IF c \in DOMAIN to THEN to[c] ELSE live[c]]
         /\ snap' = IF regime[Mutator] = COLLECTING THEN snap
                    ELSE [c \in Cells |-> IF c \in DOMAIN to THEN to[c] ELSE snap[c]]
         /\ size' = [size EXCEPT ![Data] = i]
  /\ UNCHANGED <<handshakeVars, list, scan_size, reserved, held, was_owned, op, collectorVars>>

(* clear: the pointers below size become null one after the other.         *)
Clear ==
  /\ Running("idle") /\ Length > 0
  /\ LET cleared == {Cell(i) : i \in 0 .. Length - 1} IN
       /\ live' = [c \in Cells |-> IF c \in cleared THEN NULL ELSE live[c]]
       /\ snap' = IF regime[Mutator] = COLLECTING THEN snap
                  ELSE [c \in Cells |-> IF c \in cleared THEN NULL ELSE snap[c]]
  /\ size' = [size EXCEPT ![Data] = 0]
  /\ UNCHANGED <<handshakeVars, list, scan_size, reserved, held, was_owned, op, collectorVars>>

(* resize(int), when there is room.  It does not call the array's resize,  *)
(* which would clear what a smaller size leaves behind.                    *)
ResizeInPlace(n) ==
  /\ \/ Running("idle") /\ n # Length
     \/ Running("then") /\ op.job = "resize" /\ op.n = n
  /\ n <= reserved[Data] /\ n <= MaxSize
  /\ n < Length => "shrink" \in VectorUsage
  /\ SetSize(Data, n)
  /\ op' = Idle
  /\ UNCHANGED <<handshakeVars, live, snap, list, held, was_owned, collectorVars>>

-----------------------------------------------------------------------------
(* Growing: reserve, and the second half of push_front.                    *)

Quiet == phase = NOT_COLLECTING /\ gate = "open" /\ work = "done"
MayMove == Quiet \/ "move_busy" \in VectorUsage

(* Mutant: the old array is not held while it is copied.                   *)
HoldOld_Not(r) == NULL
HoldOld(r) == Data

(* The old array gets a root of its own and data a new array of twice the  *)
(* size asked for; its pointers, built null, are not scanned yet.          *)
Grow(job, s, n) ==
  /\ Running("idle") /\ MayMove
  /\ reserved[Data] < s /\ s <= MaxSize
  /\ \E a \in Free(Arrays), r \in Free(Letters) :
       /\ held' = r
       /\ was_owned' = was_owned \cup {r}
       /\ list' = [list EXCEPT ![a] = index, ![r] = index]
       /\ reserved' = [reserved EXCEPT ![a] = 2 * s]
       /\ live' = [live EXCEPT ![Slot(r)] = HoldOld(r), ![Slot("data")] = a]
       /\ snap' = IF regime[Mutator] = COLLECTING
                  THEN [snap EXCEPT ![Slot(r)] = HoldOld(r)]
                  ELSE [snap EXCEPT ![Slot(r)] = HoldOld(r), ![Slot("data")] = a]
  /\ op' = [do |-> "copy", job |-> job, i |-> Length, n |-> n, from |-> Data]
  /\ UNCHANGED <<handshakeVars, size, scan_size, collectorVars>>

GrowFor ==
  \/ Grow("push_back", Length + 1, 0)
  \/ Grow("push_front", Length + 1, 0)
  \/ \E p \in 0 .. Length : Grow("insert", Length + 1, p)
  \/ \E s \in Length + 1 .. MaxSize : Grow("resize", s, s) \/ Grow("reserve", s, 0)

(* Mutant: push_front leaves no room for its element.                      *)
Target_Same(i) == i
Target(i) == IF op.job = "push_front" THEN i + 1 ELSE i

(* The loop goes down: op.i pointers are still to be copied.               *)
CopyOne ==
  /\ Running("copy") /\ op.i > 0
  /\ CopyPair(Cell(Target(op.i - 1)), <<op.from, op.i - 1>>)
  /\ op' = [op EXCEPT !.i = @ - 1]
  /\ UNCHANGED <<handshakeVars, list, arrayVars, held, was_owned, collectorVars>>

(* After the loop: push_front stores its element, the size is set, and     *)
(* data_held_for_collect goes out of scope.                                *)
CopyDone ==
  /\ Running("copy") /\ op.i = 0
  /\ IF op.job = "push_front"
     THEN WriteBarrier(Cell(0), ArgValue) /\ SetSize(Data, size[op.from] + 1)
     ELSE UNCHANGED <<live, snap>> /\ SetSize(Data, size[op.from])
  /\ was_owned' = IF regime[Mutator] = COLLECTING THEN was_owned ELSE was_owned \ {held}
  /\ held' = NULL
  /\ op' = CASE op.job \in {"push_front", "reserve"} -> Idle
             [] op.job = "insert" ->
                  [do |-> "shift", job |-> "insert", i |-> size[op.from], n |-> op.n]
             [] OTHER -> [do |-> "then", job |-> op.job, n |-> op.n]
  /\ UNCHANGED <<handshakeVars, list, collectorVars>>

-----------------------------------------------------------------------------
(* Shifting in place: push_front and insert when there is room.            *)
StartShift(job, p) ==
  /\ Running("idle") /\ MayMove
  /\ Length < reserved[Data] /\ Length < MaxSize
  /\ job = "push_front" => Length > 0
  /\ op' = [do |-> "shift", job |-> job, i |-> Length, n |-> p]
  /\ UNCHANGED <<handshakeVars, live, snap, list, arrayVars, held, was_owned, collectorVars>>

ShiftOne ==
  /\ Running("shift") /\ op.i > op.n
  /\ CopyPair(Cell(op.i), Cell(op.i - 1))
  /\ op' = [op EXCEPT !.i = @ - 1]
  /\ UNCHANGED <<handshakeVars, list, arrayVars, held, was_owned, collectorVars>>

ShiftDone ==
  /\ Running("shift") /\ op.i = op.n
  /\ WriteBarrier(Cell(op.n), ArgValue)
  /\ SetSize(Data, Length + 1)
  /\ op' = Idle
  /\ UNCHANGED <<handshakeVars, list, held, was_owned, collectorVars>>

(* push_front on an empty vector is push_back.                             *)
MutatorStep ==
  \/ SetArg \/ PushBack \/ PopBack \/ Clear
  \/ \E i \in Index : SetElement(i)
  \/ \E n \in 0 .. MaxSize : ResizeInPlace(n)
  \/ GrowFor \/ CopyOne \/ CopyDone
  \/ StartShift("push_front", 0) \/ \E p \in 0 .. Length : StartShift("insert", p)
  \/ ShiftOne \/ ShiftDone

(* Where the thread may take part in a phase change: between two member    *)
(* functions and at the safe points of their loops, which come before the  *)
(* copy of their index.  insert shifts without any.                        *)
AtSafePoint ==
  \/ op.do = "idle"
  \/ /\ op.do = "copy" /\ op.i > 0 /\ (op.i - 1) % SafeEvery = 0
     /\ op.job = "insert" => "move_busy" \in VectorUsage
  \/ /\ op.do = "shift" /\ op.job = "push_front" /\ "move_busy" \in VectorUsage
     /\ 0 < op.i /\ op.i < Length /\ op.i % SafeEvery = 0

-----------------------------------------------------------------------------
(* The collector, as in SnapshotHeap.                                      *)
BeginPhase == work = "done" /\ Announce /\ UNCHANGED vectorVars

Gather ==
  /\ Turn
  /\ IF phase = RESTORING_SNAPSHOT
     THEN /\ list' = [n \in Nodes |-> IF list[n] = NULL THEN NULL ELSE index]
          /\ kept' = {n \in Nodes : list[n] # NULL}
     ELSE UNCHANGED <<list, kept>>
  /\ UNCHANGED <<live, snap, arrayVars, held, was_owned, op, work, todo, at, current,
                 marked, fetched>>

StartWork ==
  /\ Open
  /\ work' = CASE phase = COLLECTING         -> "mark"
               [] phase = RESTORING_SNAPSHOT -> "restore"
               [] phase = NOT_COLLECTING     -> "finalize"
  /\ todo' = {"data", "arg"} \cup
             IF phase = COLLECTING THEN InList(1 - index) \cap Letters
             ELSE kept \ Elements
  /\ UNCHANGED <<mutatorVars, snap, at, current, marked, kept, fetched>>

(* Mutant (Enter_AtCount): the loop starts one too high.                   *)
(*                                                                         *)
(* The pointers of a node, from the last that total_instance_vars counts   *)
(* down: scan_size is read when the walk comes to the array.               *)
Count(n) == IF n \in Arrays THEN scan_size[n] ELSE IF n \in Roots THEN 1 ELSE 0
Enter_AtCount(n) == IF Count(n) = 0 THEN NULL ELSE <<n, Count(n)>>
Enter(n) == IF Count(n) = 0 THEN NULL ELSE <<n, Count(n) - 1>>
Below(c) == IF c[2] = 0 THEN NULL ELSE <<c[1], c[2] - 1>>

(* A root, or the vector's own pointer, and what it refers to.             *)
MarkRoot ==
  /\ work = "mark" /\ at = NULL /\ current = NULL
  /\ \E r \in todo :
       /\ IF (r \in Letters => r \in was_owned) /\ snap[Slot(r)] \notin marked \cup {NULL}
          THEN /\ marked' = marked \cup {snap[Slot(r)]}
               /\ at' = Enter(snap[Slot(r)])
          ELSE UNCHANGED <<marked, at>>
       /\ todo' = todo \ {r}
       /\ current' = IF r \in Letters THEN r ELSE NULL
  /\ UNCHANGED <<handshakeVars, mutatorVars, snap, work, kept, fetched>>

MarkElement ==
  /\ work = "mark" /\ at # NULL
  /\ marked' = marked \cup ({snap[at]} \ {NULL})
  /\ at' = Below(at)
  /\ UNCHANGED <<handshakeVars, mutatorVars, snap, work, todo, current, kept, fetched>>

(* After mark(): a letter that is not owned any more is deleted.           *)
LetterDone ==
  /\ work = "mark" /\ at = NULL /\ current # NULL
  /\ IF current = held THEN UNCHANGED <<list, live, snap, was_owned>>
     ELSE /\ list' = [list EXCEPT ![current] = NULL]
          /\ was_owned' = was_owned \ {current}
          /\ live' = Stored(live, Slot(current), NULL)
          /\ snap' = Stored(snap, Slot(current), NULL)
  /\ current' = NULL
  /\ UNCHANGED <<handshakeVars, arrayVars, held, op, work, todo, at, marked, kept, fetched>>

Sweep ==
  /\ work = "mark" /\ todo = {} /\ at = NULL /\ current = NULL
  /\ LET freed == (InList(1 - index) \ marked) \ Letters
         wiped == UNION {CellsOf(a) : a \in freed \cap Arrays}
         zero(f) == [a \in Arrays |-> IF a \in freed THEN 0 ELSE f[a]]
     IN  /\ list' = [n \in Nodes |-> IF n \in freed THEN NULL ELSE list[n]]
         /\ live' = [c \in Cells |-> IF c \in wiped THEN NULL ELSE live[c]]
         /\ snap' = [c \in Cells |-> IF c \in wiped THEN NULL ELSE snap[c]]
         /\ size' = zero(size) /\ scan_size' = zero(scan_size) /\ reserved' = zero(reserved)
  /\ marked' = {}
  /\ work' = "done"
  /\ UNCHANGED <<handshakeVars, held, was_owned, op, todo, at, current, kept, fetched>>

(* The restoring walks come to the next node, collectables before roots,   *)
(* and take its pointers one by one.                                       *)
VisitNode ==
  /\ work \in {"restore", "finalize"} /\ at = NULL
  /\ \E n \in todo :
       /\ n \in Arrays \/ todo \cap Arrays = {}
       /\ todo' = todo \ {n}
       /\ at' = Enter(n)
  /\ UNCHANGED <<handshakeVars, mutatorVars, snap, work, current, marked, kept, fetched>>

FastRead ==
  /\ work = "restore" /\ at # NULL /\ fetched = NULL
  /\ IF live[at] = snap[at] THEN at' = Below(at) /\ UNCHANGED fetched
     ELSE fetched' = <<live[at]>> /\ UNCHANGED at
  /\ UNCHANGED <<handshakeVars, mutatorVars, snap, work, todo, current, marked, kept>>

FastWrite ==
  /\ work = "restore" /\ fetched # NULL
  /\ snap' = Stored(snap, at, fetched[1])
  /\ fetched' = NULL
  /\ at' = Below(at)
  /\ UNCHANGED <<handshakeVars, mutatorVars, work, todo, current, marked, kept>>

(* Mutant: the walk that finalizes leaves the pointer as it is.            *)
Mended_Not(c) == snap
Mended(c) == Stored(snap, c, live[c])

Restore ==
  /\ work = "finalize" /\ at # NULL
  /\ snap' = Mended(at)
  /\ at' = Below(at)
  /\ UNCHANGED <<handshakeVars, mutatorVars, work, todo, current, marked, kept, fetched>>

WorkDone ==
  /\ work \in {"restore", "finalize"} /\ todo = {} /\ at = NULL
  /\ work' = "done"
  /\ kept' = IF work = "finalize" THEN {} ELSE kept
  /\ UNCHANGED <<handshakeVars, mutatorVars, snap, todo, at, current, marked, fetched>>

-----------------------------------------------------------------------------
CollectorNext ==
  \/ BeginPhase \/ Gather \/ StartWork
  \/ MarkRoot \/ MarkElement \/ LetterDone \/ Sweep
  \/ VisitNode \/ FastRead \/ FastWrite \/ Restore \/ WorkDone

PhaseStep ==
  /\ Join(Mutator) \/ Resume(Mutator) \/ (AtSafePoint /\ Adopt(Mutator))
  /\ UNCHANGED vectorVars

Next == CollectorNext \/ PhaseStep \/ MutatorStep

Spec == Init /\ [][Next]_vars

-----------------------------------------------------------------------------
(* Properties.                                                             *)

(* Every variable has its type.                                            *)
TypeOK ==
  /\ phase \in Phase /\ gate \in Gate /\ index \in {0, 1}
  /\ regime \in [Threads -> Regime] /\ parked \subseteq Threads
  /\ live \in [Cells -> Arrays \cup Elements \cup {NULL}]
  /\ snap \in [Cells -> Arrays \cup Elements \cup {NULL}]
  /\ Data \in Arrays
  /\ list \in [Nodes -> {0, 1, NULL}]
  /\ \A f \in {size, scan_size} : f \in [Arrays -> 0 .. MaxSize]
  /\ reserved \in [Arrays -> Nat]
  /\ held \in Letters \cup {NULL} /\ was_owned \subseteq Letters
  /\ op.do \in {"idle", "copy", "then", "shift"}
  /\ work \in Work
  /\ todo \subseteq Arrays \cup Roots /\ current \in Letters \cup {NULL}
  /\ at \in Cells \cup {NULL}
  /\ marked \subseteq Arrays \cup Elements /\ kept \subseteq Nodes
  /\ fetched = NULL \/ fetched \in [{1} -> Elements \cup Arrays \cup {NULL}]

(* The array that holds the vector's elements: while it is copied, the old *)
(* one, which data does not refer to any more.                             *)
Source == IF op.do = "copy" THEN op.from ELSE Data
InUse == {<<Source, i>> : i \in 0 .. size[Source] - 1}

(* Growing, shifting, popping and clearing in the middle of a collection   *)
(* never makes the collector lose what the vector holds: the array in use, *)
(* the one being filled and every element are allocated memory.  A vector  *)
(* whose new array spans a phase change relies on data_held_for_collect.   *)
NothingLost ==
  \A v \in {Data, Source, ArgValue} \cup {live[c] : c \in InUse} :
    v # NULL => list[v] # NULL

(* Between collections both halves of every pointer of the vector agree,   *)
(* those that growth has copied from one array to another included         *)
(* ("the collection threads are restoring the snapshot for pointers that   *)
(* were mutated during the collection", README.md).                        *)
VectorRestored ==
  Quiet => \A c \in InUse \cup {Slot("data"), Slot("arg")} : live[c] = snap[c]

(* Everything the vector does looks like one step on a sequence: while it  *)
(* is copied the old array has the contents, while it is shifted all of it *)
(* but the pointer at op.i, which is there twice.                          *)
Contents ==
  IF op.do = "shift" THEN [k \in 1 .. Length |-> live[Cell(IF k <= op.i THEN k - 1 ELSE k)]]
  ELSE [k \in 1 .. size[Source] |-> live[<<Source, k - 1>>]]

Abstract == INSTANCE ElementSequence WITH content <- Contents
ImplementsSequence == Abstract!SequenceSpec
=============================================================================
