# pauselessgc in TLA+

This directory models the concurrent garbage collector of this repository, checks the models
with TLC and proves the central results with TLAPS. Paths such as `GCState.cpp:428` refer to
files of the repository.

## 1. The system

pauselessgc is a precise mark-and-sweep collector for C++ with one collection thread and many
mutator threads. Every pointer is a pair of 64-bit words in one 128-bit `SnapPtr`: a *live* half that
the program reads and a *snapshot* half that the collector reads. Outside a collection each
store writes both halves. While the collector marks, stores write the live half only, so the snapshot
halves go on describing the heap as it was when the collection began. Afterwards stores write both
halves again and the collector copies live halves to those snapshot halves that differ.

| Component | State | Operations | Module |
|---|---|---|---|
| Phase protocol (`GCState.cpp`, `GCState.h`) | `State`, one 64-bit word with a phase and four `uint8_t` counters; `ThreadSlots`; `exit_program_flag`; per thread `ThreadState`, `NotMutatingCount` | `init_thread`, `exit_thread`, `thread_leave_mutation`, `thread_enter_mutation`, `safe_point`, `one_collect` with its three borders, `exit_collect_thread` | `GCPhases` |
| Combined thread (`CombinedThread`) | `single_thread_event` | the collector run from `safe_point` | `CombinedThread` |
| Snapshot heap (`GCState.h`, `GCState.cpp`, `Collectable.h`) | the pairs; `RootLetter`s with `owned` and `was_owned`; marks | `InstancePtr` and `RootPtr` construction, assignment and destruction, `cnew`, `_do_collection`, `_do_restore_snapshot`, `_do_finalize_snapshot` | `SnapshotHeap` |
| Scan lists (`Collectable.h`, `GCState.cpp`) | per thread two rings of objects and two of letters, and the places where the restoring walks start; `ActiveIndex` | construction and deletion of a node, `merge_from_to`, `merge_collected`, the iterator | `ScanLists` |
| Allocation trigger (`GCState.cpp:81-110`) | `Allocated`, `TriggerPoint`, per-thread sums | `log_alloc`, `log_array_alloc` | `AllocationTrigger` |
| Containers (`Collectable.h`) | an array with `size`, `reserved`, `scan_size`, and the pointer `data` to it | push, pop, insert, resize, reserve, clear | `CollectableVector` |
| Hash table (`CollectableHash.h`) | open addressing with an `empty` flag | insert, assign, find, growth | `CollectableHashTable` |
| Events (`pevents`) | an event's flag, mutex and registered waits; shared, counted wait objects | `SetEvent`, `PulseEvent`, `ResetEvent`, `WaitForEvent`, `WaitForMultipleEvents`, `DestroyEvent` | `PEvents` |
| `LockFreeFIFO`, `spooky`, the demonstration `pauselessgc.cpp` | | | none |

**How they interact.** `log_alloc` sets an auto-reset event of `pevents`; `collect_thread` wakes up and drives
three phase changes (*borders*) through `State`. A mutator notices a change at its next `safe_point`, counts
itself from the old phase into the new one and spins until the old phase is empty. The collector counts
*itself* into the old phase first ("stop everyone till I'm done", `GCState.cpp:310`), waits until it is the only
one left, then swaps the lists (`ActiveIndex ^= 1`) or merges them, and counts itself out. Between
borders mutators and collector share the heap without locks. Containers are collectables whose number of pointers
changes while the collector may be going through them.

**What is hard.** Every party changes the same word by compare-and-swap in any order; threads notice a phase at
different times; the two write barriers must never be in use together; lists are swapped without a
lock; `fast_restore` races with stores; destructors of roots race with the scan of roots; opting out,
exiting and shutting down may come in the middle of a border; the counters have eight bits; a vector grows across
phase changes; wait objects are shared by threads that may give up at any time. `PROJECT.json`
lists each hazard with the line where it bites.

**What makes each component correct.** *Phase protocol*: the counters count, borders are quiet, barriers
agree, nobody waits for ever, shutdown ends the collector. *Combined thread*: the same, though it is not counted.
*Heap*: no reachable object is freed, the snapshot hides nothing from the marker, and it is whole again before the
next collection. *Scan lists*: a node is in exactly one ring and the walks meet every node they must. *Trigger*: enough
allocation starts a collection, and none goes by unnoticed. *Containers and hash table*: they behave as a sequence and a map,
and what they hold stays reachable while they grow. *Events*: no event and no wake-up is lost, no wait object is leaked or freed early,
no circle of locks.

## 2. Plan

Done, in this order: `GCPhases` and `Handshake` with their proofs; `SnapshotHeap` on top of `Handshake`; `ScanLists` with
`NodeLists`; `CollectableVector` with `ElementSequence`; `CollectableHashTable` with `KeyValueMap`; `AllocationTrigger`;
`CombinedThread`; `PEvents`; then the proofs about the heap, the hash table, the trigger, the combined thread, the vector, the events and the lists.

What would add most next: the heap of the combined mode, whose collector skips restoring when it is the only thread. Every safety property of the
passing runs is proved; the conditions are in the properties (section 5), but for the few hypotheses that section 6 names.

## 3. Modules

`MC...` modules hold the constants and symmetries of the runs, `...Proofs` the theorems. A definition named
`X_Something` is `X` with a plausible bug in it; each is marked "Mutant" and nothing else uses it.

### GCPhases: the phase protocol

One action per compare-and-swap. Each CAS loop of the code recomputes its new word from the word it failed
against, so a successful CAS is one atomic step from the current word; the read of `State` *before* the loop in
`safe_point` is a step of its own (`SafePoint`, then `CountOver`). The counters are a function from phases
to numbers modulo `CounterMod`; with that the switches of the code, one case per phase, are
one formula.

| Action | Code |
|---|---|
| `ClaimSlot`, `EnterMutation` from `init` | `init_thread` (513-548) |
| `EnterMutation`, `EnterNested` | `thread_enter_mutation` (615-645) |
| `LeaveMutation`, `LeaveNested` | `thread_leave_mutation` (588-614) |
| `SafePoint`, `CountOver`, `WaitDone` | `safe_point` (436-511), the spin loops of `thread_enter_mutation` (646-681) |
| `ExitThread`, `ReleaseSlot` | `exit_thread` (550-572) |
| `Trigger` | `SetEvent` in `log_alloc` |
| `Shutdown`, `SignalExit`, `Joined` | `exit_collect_thread` (184-190) |
| `CollectLoop`, `WakeUp` | `collect_thread` (698-706) |
| `Raise`, `Quiesce`, `Release`, `Stop` | the two loops of `_start_collection`, `_end_collection_start_restore_snapshot`, `_end_sweep` (299-409) |
| `WorkDone` | the end of the collector's work in a phase, `one_collect` (683-696) |

Every call may come at any moment the code lets it come. `miscounted` is not a variable of the code: it records that the word has lost count,
which three things make it do (`Miscounts`, section 5). No action reads it; the properties say what holds until then.

A border of the sweep phase that the comment at `GCState.cpp:19-21` says needs no acknowledgement is
counted and waited for in the code (`_end_sweep`) like the other two, and is modelled as the code has it.

### Handshake: what the protocol promises

No counters: a phase is announced, each mutator adopts it and parks, when all have parked the lists are
turned round, then the gate opens. `ImplementsHandshake` (with the refinement mapping `HS` in `GCPhases`) says that the
code does this: checked by TLC and proved. `SnapshotHeap` and `CollectableVector` are built on it.

### CombinedThread: collector and mutator in one

Extends `GCPhases`: the collection thread is the combined thread. `MainSafePoint` starts `one_collect` when
`single_thread_event` is set (`MainTrigger`); `MainRelease` is the release of a border, at which the thread changes its own state;
`MainLeave` and `MainEnter` change the counters although the thread was never counted (`init_thread(true)`). Other threads follow
`GCPhases` as it is, in one slot less. `safe_point` also looks at `StartCollectionEvent` (`GCState.cpp:431`), which `init(true)` never makes: the wait for
a null event fails at once on Windows (the POSIX half would follow the null pointer), so `EventTaken` is `FALSE` and what other threads request with that event
is lost. `MainShutdown` is `exit_collect_thread` called by the combined thread, `MainReturns` the rest of `safe_point` when the flag has ended `one_collect` early.

### SnapshotHeap: the heap under the protocol

Extends `Handshake` with the pairs, the letters, the lists and the collector's work. The collector's
steps (`ScanRoot`, `MarkStep`, `RootDone`, `Sweep`, `FastRead`, `FastWrite`, `Restore`) interleave with the mutators'
(`NewRootPtr`, `NewObject`, `Store`, `AssignField`, `AssignRoot`, `DropRootPtr`).

* Marking keeps an explicit stack of (object, instance vars left) where the code threads the
  path through `collectable_back_ptr`; the order of visits is that of `collectable_mark`, from the last var down.
* `FastRead` and `FastWrite` are the load and the store of `fast_restore`; `Restore` is the successful
  128-bit compare-and-swap of `restore`.
* Storage returns to its initial value when it is freed; that an object or letter is freed is `list = NULL`.
* `Moved` is `merge_from_to` with `empty()` as it is written: a list of one is left behind. `Spare` says
  how many further objects and letters a thread keeps in its lists all the time; with two or more no list is
  ever that short.
* `Users` says which threads use which root variable, so that two threads can share one (a global);
  `Home` gives each piece of storage to the thread in whose lists it can be.

### ScanLists: the rings

The cells of `CircularDoubleList` with their `next` and `prev`, one kind of list, two rings per slot and the third entry where the
restoring walks start. `Insert` and `Inserted` are the two writes that make a new node reachable from its sentinel and from its
successor; `Sweep` deletes the node under the iterator and goes on with the link it has remembered; `merge_collected` is one
step per slot, when nobody runs; `WalkRestored` is the loop of the restore and finalize walks over a ring that
threads insert into meanwhile. A walk that begins at a sentinel fails `assert(t)`, and one whose entry was never assigned begins anywhere (`MayCrash`); without
assertions the first of them goes on. Threads register at any time; `late`, which no action of the code reads, records the slots that did so after `merge_collected` had come by. `NodeLists` is what this promises: two sets of nodes per slot. `ImplementsNodeLists` says that the rings are
such sets, which is how `SnapshotHeap` uses them.

### AllocationTrigger: when a collection starts

`log_alloc` and `log_array_alloc` add up per thread and hand over to the atomic `Allocated` now and then; `Compare`, `Exchange` and
`SetStartCollectionEvent` are the load, the exchange and the event of the thread that sees the trigger point passed. `unrequested` is not a
variable of the code: it counts the bytes really allocated since somebody asked for a collection.

### CollectableVector: a container under the collector

One thread uses a vector (`PushBack`, `PopBack`, `Clear`, `SetElement`, `ResizeInPlace`, `GrowFor`, `StartShift`) while the collector works as
in `SnapshotHeap`. A function with a loop is a step per turn (`CopyOne`, `ShiftOne`): growing allocates a new array,
holds the old one in a root (`data_held_for_collect`) and copies pairs, both halves, passing safe points on the way. The collector
reads `scan_size` when it comes to an array and takes its pointers one by one from the last down. `ImplementsSequence` refines
`ElementSequence`: every function changes the sequence at one moment.

### CollectableHashTable: open addressing

`InsertNew`, `Assign` and the growth (`Grow`, then `Reinsert`, an entry per turn of its loop); probing is a function of the table
and of the key's hash, so that a run can go through all hash functions. `erase` is not there: it assigns `nullptr` to an `InstancePtr` (`CollectableHash.h:400`), which has no
such `operator=` and only explicit constructors, so no program that calls it compiles; `skip`, `wasted` and `recover` keep their first values without it. The masks
are remainders because the initial size is a power of two, as the header asks. `ImplementsMap` refines `KeyValueMap`: growing changes nothing.

### PEvents: the event library

The POSIX half of `pevents.cpp` with both build options (`WFMO`, `PULSE`). A step is what a thread does between two points where it
may block or others may look. Wait objects are storage that is free when its `RefCount` is 0. `Calls` says which calls each
thread makes, over and over.

## 4. Runs

| Run | Instance | Result |
|---|---|---|
| `phases` | 3 threads, 3 slots, counters modulo 4, one thread nests; opt-out, exit and shutdown at any moment | passes, 365 thousand states |
| `phases_opt_out` | 2 threads | `OptingOutHoldsUpNobody` violated |
| `combined` | the combined thread and 3 others in 4 slots, modulo 3, nesting up to 2 | passes, 141 thousand states |
| `heap` | 1 thread that opts out and in, 2 objects with 1 var, 2 letters, 2 roots | passes, 1.4 million states |
| `lone_list` | `Spare = 0` | `NoDangling` violated |
| `lists` | 2 slots, 4 nodes, registration at any time | passes, 358 thousand states |
| `lists_assert` | the same | `AssertHolds` violated |
| `trigger` | 2 threads, trigger point 5, hand-overs every 2 calls, arrays of 4 elements of size 4 and 3 of size 2 | passes, 375 thousand states |
| `vector` | 2 arrays, 2 elements, up to 2 pointers, room for 1 at first | passes, 392 thousand states |
| `vector_busy` | functions that move elements called during a collection | `NothingLost` violated |
| `hash` | 3 keys under every hash function to 8 codes, 2 entries at first, three growths | passes, 9 thousand states |
| `events` | 2 threads that wait, for one, all or any of 3 events, 2 that set, pulse, reset and re-create them | passes, 687 thousand states |

**What the passing runs show.** `phases`: but for the three steps of `Miscounts` no interleaving loses a count (`CountersMatch`); while the word counts right and the
program does not shut down, two running threads never use different barriers (`RunningAgree`), nobody runs while the collector swaps or merges
lists (`BorderQuiet`), whoever runs while it works is in its phase (`WorkInStep`), a started collection ends and every
spin loop is left; a shutdown in the middle of anything ends the collector if the program stops mutating (`QuietShutdownCompletes`).
`combined`: under the same conditions the word counts exactly the other threads, up to the last value of a counter, and the combined thread is in step with them whenever it is
back in the program. `heap`: whatever a mutator does between any two
steps of the collector, what it can reach is never freed (`NoDangling`), is always still ahead of the marker or
marked (`SnapshotCovers`), the two halves agree before the next collection although `fast_restore` races with
stores (`SnapshotRestored`), and no mark survives (`NoStaleMark`). That several mutators may do so at once, sharing roots, is in the theorems, which are for any threads; two threads with two
objects are more states than TLC gets through in minutes. `lists`: rings stay rings (`Linked`), walks meet every node
they must (`WalksMeetAll`) and never follow a stale link, also in slots that threads registered beside them (`WalkSafe`). `trigger`: a passed trigger point is never left unnoticed
(`TriggerDuty`), losing the race for the exchange and counting arrays short cost bounded numbers of bytes (`RequestedInTime`), every request is
served, also one made during a collection (`RequestServed`). `vector`: growth that lasts through whole collections loses no
element (`NothingLost`) and leaves no false snapshot (`VectorRestored`). `hash`: every key is found where it was put, with any collisions and in the middle
of a growth (`KeysFindable`), probes end (`SparseEnough`), growing never starts to grow (`NoGrowthWhileGrowing`). `events`: references to wait objects
balance (`RefsBalanced`), a wait for all counts right (`LeftCounted`), an event that is given to a wait is the one it
returns but for two exceptions of the code (`HandedOnce`), nobody sleeps through an event (`NoLostWakeup`), no circle of locks (`NoCircularWait`).

**What the violated ones show.** `lone_list`: `CircularDoubleList::empty()` is
true of a list with one element, so `merge_from_to` leaves that element in what the next collection takes for an
active list; a lone root is then not scanned and its object is freed. `vector_busy`: assignments between array elements copy both halves past the write
barrier; an element shifted past the collector's index while it marks is freed. `phases_opt_out`: a thread that opts out after a border was announced and before it followed is
counted out of the wrong phase, and the collector waits for the counter it left behind for ever, although README.md and the phase diagram let threads opt out in
borders. `lists_assert`: the lists of a thread that has created nothing are empty, and `assert(t)` fails on them. All are described under "findings" in `PROJECT.json`.

**Bounds.** Three threads are the least with two mutators in different places of a border and a
third that registers, opts out or exits. In `phases` `CounterMod` is the least value that counts all slots and the collector, so that
a count too many or too few shows at once; in `combined` it is less, so that as many threads as a counter has values do come (the theorems hold for every
width). The constraint `StillCounting` stops TLC in states in which the word has lost count: `miscounted` is never reset and each property of these runs but `TypeOK` says nothing
once it is true, of that state or any later one, so nothing that could violate one is cut off. (`TypeOK` is proved without a condition.) Two objects make every hiding of an object from the marker possible (one moves from the other's field to a
root); two letters make every race of a root's destruction with its successor. Four nodes let one slot have a ring of three with one in
the middle. Two arrays are what a growing vector uses; `SafeEvery = 2` (1024 in the code) lets a phase change come in the middle of a copy. Three keys take a
table of two through three growths. Two auto-reset events let waits for both be registered with one and not yet with the other; the third is a manual-reset event. The number of
collections is not bounded: the state spaces are finite (in `trigger` because the sums bound themselves). `MaxNest` bounds nested
opt-outs, in `phases` for one thread only (`OneNests`; a nested call touches nothing shared), `OptsOutWithFew` what a thread of `heap` has while it is opted out, `MaxSize` the length of the vector. `VIEW Relative` identifies states that differ only
in which of the two list numbers is the active one; nothing distinguishes the numbers otherwise.

**Fairness.** `Fairness` in `GCPhases` assumes that the collection thread is scheduled and that a thread inside a
library call goes on, and, as README.md asks of programs ("Mutating threads have to periodically go through
safe-points"), that a mutating thread reaches a safe point again and again. Nothing obliges a thread to
allocate, opt out, opt back in or exit. `CombinedSpec` assumes the same, with the combined thread scheduled while it collects.
`FairSpec` of `AllocationTrigger` has threads go on inside `log_alloc` and the collector take up a set event and finish, which `CollectionCompletes`
shows of `GCPhases`. All of it is weak fairness. The CAS loops count as one step: a
thread that loses the race for the word again and again is not modelled, which is what `WF` of the
step says. The other runs check safety only.

**Deadlock** is checked except in `phases` and `phases_opt_out`, where a program that has shut down may do nothing any more, and in `events`, where
threads may all wait for events that nobody is left to set.

## 5. What the properties leave out

The code does not keep a program from calling it in ways that break it. Where such a call is an action of a model, the properties say of which states
they speak; what happens afterwards is not promised:

* *The word loses count* (`Miscounts` in `GCPhases`). A thread that opts out after a phase was announced and before it followed (`GCState.cpp:599`) is counted out of the
  wrong phase; the counter it was in never empties and the collection never ends: `phases_opt_out`. `exit_thread` in `RESTORING_SNAPSHOT`
  (`GCState.cpp:564`) takes one from `threads_not_mutating`, and those who wait for the phase to empty wait for ever. As many slots as a counter has values
  (`GCState.h:119`, 256 slots in `uint8_t` counters) count as none when they are full, and a border is passed with all of them running. Whoever keeps clear of
  these three has all that `CountersMatch`, `RunningAgree`, `BorderQuiet`, `WorkInStep`, `ImplementsHandshake`, `CollectionCompletes` and `ParkedResumes` say.
* *Collecting while opted out* (`GCState.cpp:638`): a combined thread that comes to a safe point after `thread_leave_mutation` with a collection requested waits for a
  counter that it has itself made wrong. `MainSafePoint` does that, too, and counts as losing count.
* *Shutdown* (`GCState.cpp:189`): `exit_collect_thread` joins a collector that, at the border out of `COLLECTING` (345-369), waits for
  the calling thread itself to reach a safe point. `QuietShutdownCompletes` is therefore about programs whose threads stop mutating for good, the caller included (`Retired`),
  which the demonstration program does not do; the deadlock of one that goes on is not the subject of a run. The safety properties of the borders end with `exit_program_flag`, as threads
  and collector leave their loops without waiting.
* *Late registration* (`GCState.cpp:534`): a thread that registers after `merge_collected` has passed its slot has a third entry that was never
  assigned, where the restoring walk then starts. `WalkSafe` speaks of all other slots; a walk of a late one ends a behaviour of the model (`MayCrash`), where the code would follow whatever was in that memory.
* *Arrays* (`GCState.cpp:98`): `log_array_alloc` adds size and count instead of multiplying them. `RequestedInTime` bounds what is really allocated by the factor by
  which arrays are counted short, whatever it is: a large array still hardly counts.
* *A wait for any of several events* with a finite timeout may return `WAIT_TIMEOUT` although a `SetEvent` has
  given it an auto-reset event (`pevents.cpp:311`), and a manual-reset event writes over the event that has ended such a wait (`pevents.cpp:494`): either way an auto-reset event is lost.
  Both are in the run; `HandedOnce` names them as its exceptions and shows that there is no third.

Two modules have a `Usage` constant, and two bounds are of the same kind. They take calls out of the passing runs and out of the theorems, and with the value
added TLC finds what breaks:

* `copy_pairs` and `share_roots` (`HeapUsage`; `Collectable.h:134`, `244`): assignment between two `InstancePtr<T>`, or two `RootPtr<T>`, of the same `T` is C++'s implicit copy,
  because the `operator=` of these classes are templates. It copies both halves past the write barrier, or the address of the
  letter, which the first destructor then gives up (`SnapshotCovers`, `NoDangling`). `vector_busy` shows the first of them where the library itself does it.
* `Spare = 0` (`Collectable.h:79`): the run `lone_list`.
* `move_busy` (`VectorUsage`; `Collectable.h:1087`): the run `vector_busy`. A `push_front` that shifts more than 1024 elements passes safe points in the
  middle, as does an `insert` that has to grow that many; the rule is that no collection starts then, which a program with other threads
  cannot see to. `shrink` (`Collectable.h:1519`): `resize(int)` leaves the pointers beyond a smaller
  size in place, and they reappear when the vector grows again (`ImplementsSequence`).
* Two waits for the same events in opposite orders (`pevents.cpp:235`): they and two `SetEvent`s can lock each other out. The run's calls name events in one order, and
  `NoCircles` assumes an order; no run shows the deadlock, but the mutant of `NoCircularWait` is the order reversed.

## 6. Proofs

| Module | Theorem | Shows |
|---|---|---|
| `GCPhasesProofs` | `TypeCorrect`, `CountersCorrect`, `BorderIsQuiet`, `RunnersAgree`, `CollectorWorksInStep` | the invariants of `phases` |
| | `Refinement` | `ImplementsHandshake` |
| `CombinedThreadProofs` | `CombinedCountsCorrect`, `CombinedInStep` | the invariants of `combined` |
| `SnapshotHeapProofs` | `TypeCorrect`, `NeverDangling`, `SnapshotAlwaysCovers`, `AlwaysRestored`, `NeverStaleMark` | the invariants of `heap` |
| `CollectableHashTableProofs` | `AlwaysFindable`, `AlwaysSparse`, `GrowthNeverNested`, `MapRefinement` | all properties of `hash` |
| `AllocationTriggerProofs` | `SumsBounded`, `SomebodyNotices`, `AlwaysInTime` | the invariants of `trigger` |
| `CollectableVectorProofs` | `VectorTypeCorrect`, `NeverLost`, `VectorAlwaysRestored`, `VectorIsASequence` | all properties of `vector` |
| `ScanListsProofs` | `AlwaysLinked`, `AlwaysMeetAll`, `AlwaysWalkSafe`, `ListsAreSets` | all properties of `lists` |
| `PEventsProofs` | `TypeCorrect`, `RefsStayBalanced`, `LeftStayCounted`, `WakeupsReach`, `GivenOnce`, `NoCircles` | the invariants of `events` |

**Phases**, for every finite set of threads and every number of slots and counter width, 256 slots in eight bits included, and whatever the threads call. There is no
hypothesis: the conditions are in the properties, `~miscounted` and for the borders also `~exit_program_flag` (`Kept`). What is kept by every step is
`~miscounted => IInv` (`Protocol`). `IInv` joins `WordCounts` with what makes a counter's value mean something.
A spin loop that reads zero, or a collector that reads one, concludes that nobody is left in the old phase. That needs
that the number modulo the width *is* the number (`SlotsBound`: fewer slots are held than a counter has values), that the collector is counted exactly while it
says so (`Holding`), and that each mutator is in the new or the previous phase (`OneBehind`, `InStep`, `InSafePoint`). From
that follows `Gated`: nobody runs in the new phase before the release. `WordCounts` is preserved because each CAS goes with a change of
`ThreadState`; the lemmas `CountOut`, `CountIn` and `Recount` do the counting once for all actions.

**Combined thread**, with the same generality and no hypothesis; collecting while opted out counts as losing count. `Others` is the word
with what the combined thread has taken from it put back. Under that mapping the steps of the other threads and of the
collection are steps or stutters of `GCPhases` (`MapsThread`, `MapsCollecting`), because no spin loop looks at a
counter the combined thread has changed while it has; so `IInv` of `GCPhasesProofs`, instantiated, is kept by them for free. It is kept as long as `Kept` holds (`KeptInv`),
which once lost never comes back (`KeptBefore`).

**Heap**, for any threads, objects, letters, fields and roots. Hypothesis `Careful`: no `copy_pairs`, no `share_roots`, `Spare` not 0. `SnapshotCovers`
speaks of reachability; the invariant instead says it with closed sets. `Covered` is what belongs to every set that contains the marked
and the queued and is closed under snapshot halves; `SafeClosed` says that everything a mutator holds or can load
in a snapshot list is covered, and `RootSeen` and `MarkerInside` that the marker's own place is. A mutator's store changes no snapshot half of such an
object, so it cannot take anything out of `Covered` (`MutatorKeeps`, one lemma for all stores and
allocations); a step of the marker moves its front but leaves `Covered` the same (`EnterCovers`, `SkipCovers`); when nothing is
left ahead, the marked set itself is closed, so the sweep frees nothing that is covered. `HalvesFit` says which pairs may disagree in each phase
and gives `SnapshotRestored`; `LiveClosed` gives `NoDangling` between sweeps.

**Hash table**, for any keys, values, hash codes and initial size that is a power of two from 2 on. Open addressing works
because every entry between the place a key hashes to and the place it is at is in use; growth keeps that for both tables at once, and
the quarter-full limit leaves room (`MapRefinement` maps the two tables to one map).

**Trigger**, for any threads, trigger point, periods and sizes; hypothesis `SizesBounded`: there is a largest size. The invariant bounds a
thread's sum by its number of calls since a hand-over, and `Allocated` by the trigger point and a hand-over for each thread
that has yet to compare. For `AlwaysInTime` what is really allocated is at most `k` times what is counted for it (`CountedWithin`), which is a fact about each step; that the size of the largest
element is such a `k` is why no factor need be assumed. A thread that reaches the exchange with the trigger point passed asks for a collection
unless another asks first; so the threads that throw a count away were all at the exchange when one was last asked for. Each
does so once and with at most the trigger point (`Losses`), and one thread is never among them: the one that asked. What the threads hold back together is the
cardinality of a set of pairs (`Banked`), which needs no induction over the threads.

**Vector**, for any arrays, elements, letters, lengths and spacing of safe points; hypothesis `Orderly`: the empty `VectorUsage`. Two facts
carry it. A function that moves elements without a safe point runs, from beginning to end, before anybody acts under `COLLECTING` (`Unbroken`, `Steady`), so
the pairs it copies past the write barrier have equal halves. A copy that passes safe points goes from an array that nobody writes to one that nobody scans
(`CopyFits`): the elements are kept alive by the old array, and that one by the letter in `held`, which is why `Reachable` contains its cell. `Covered` can
be said directly here, as arrays hold elements and elements hold nothing: what is marked, what the roots left to scan refer to, and what is in the
arrays the marker has yet to enter or is in, from its index down. `Safe` says of every value the program can get at that it is in the active lists or
covered. All of the user's steps but growth have the form `VectorStep`, for which the invariant is proved once.
`VectorIsASequence` needs one more invariant, `CopyInOrder`: what has been copied stands in the new array where it belongs. `Contents` is read from the old
array until the copy is through and, during a shift, counts the pointer that is there twice once; so of all steps only the last store of a function changes it,
and the lemmas about sequences (`AppendIs`, `ButLastIs`, `InsertIs`) say that it changes as `ElementSequence` says. That a resize adds nulls only is
the invariant's: the pointers beyond the size are null, which the clearing of popped elements sees to.

**Lists**, for any number of slots and any finite set of nodes, with threads registering at any time. The invariant describes a ring from
outside: `home` says for each cell which sentinel it belongs to, and `height` is a number that falls from link to link until the sentinel, 0, is reached. That
some such pair of functions exists (`Rings`) is what every step keeps: a new node gets the sentinel for home and is put above the first one, a deleted node leaves the
others as they are, and the merge gives the nodes of the source the other home and lifts them all above those that were there (`MergedRings`). What the walks have
met is then what is higher than the cell they are at (`Swept`, `Restored`), which a node inserted at the front or deleted
under the iterator does not change, and a third entry is as high as every node that is not new (`Begins`). `Ring`, a recursive definition, is related
to `home` once, in `RingIs`: the walk from the sentinel comes to each node in as many steps as there are nodes not below it.

**Events**, for any threads, events, wait objects and calls. `NoCircles` needs `OrderedCalls`: finitely many threads, and an order in which every wait for several names its events (section 5);
the other theorems have no hypothesis. The invariant starts from who is where: which mutexes are held and slept on at which places of which calls
(`InCall`, `OneOwner`, `Locks`, `Sleepers`, `InQueue`, all in `Control`), which is kept by every step because each
moves one thread only (`Moves`). The counts are about what is still to come: `Owed(w)` are the registrations of a wait object that no
`SetEvent` has passed, those behind the index of the one that holds the event's mutex; `Missing(w)` leaves out the one being served
as well. Both are sets of pairs of an event and a position, so that the sums over events in `Balanced` (`RefCount` is what is owed, the caller's
own reference, and what it has skipped or not come to) are cardinalities. A step takes at most one pair out of them (`Gives`), one that serves nobody
leaves each object `Intact`, and the calls of its owner change only its own (`OwnCounts`). `Unfired` and `Counted` say what `Status` means by them.
`GivenOnce` follows step by step: who is at `set.waiter` holds the mutex of the wait, and only a manual-reset event passes without looking again (`OnlyOverwritten`); a wait
that has its mutex back answers with its `Status` or has timed out (`AnswersKept`). For
`NoCircles`: a thread that waits for an event's mutex waits for a `SetEvent` that waits for a wait object's, and so for a wait that is still registering and has been
registered with that event; the event this one waits for comes later in the order, and there are only finitely many threads to go on with.

Beyond these hypotheses the proofs use the named assumptions on constants in the modules.

## 7. What is only model-checked, and what is not modelled

Left to TLC: liveness. `CollectionCompletes`, `ParkedResumes`, `QuietShutdownCompletes` and `RequestServed` rest on fairness, which the prover
does not handle.

Not modelled:

* Functions of the containers that no program can instantiate, because they do not compile once used: of the vector `erase`, `resize` with an
  exemplar, `swap`, the other two `insert`s, `pop_back(InstancePtr&)`, operations of the constant iterator; of the hash header the three other tables,
  which repeat the algorithm of the one modelled, and `erase` of that one. `SharableVector` and the block classes (`Collectable.h:570-881`) are used by nothing.
* `LockFreeFIFO` is not part of the build and used by nothing. `spooky` is a vendored hash of bytes. The demonstration program's calls are
  inputs of the models. The Windows half of `pevents` (557-664) passes each call on. Errors of the pthread functions are assertions in
  the code and do not occur.
* Of the combined mode: the two returns that skip restoring when `ThreadsInGC` is 1 (`GCState.cpp:252`, `277`), `exit_thread` of the combined thread, and
  `exit_collect_thread` called by another thread, which would join a thread that was never started.
* More than one mutator in the heap, in the run (the module and the theorems have any number).
* What the heap is after `exit_program_flag` is set: the walks are cut short and nothing is promised.
* A wait for several events with timeout zero, and a wait for all with a timeout or with a manual-reset event, in the run (the module and the theorems have them).
* Memory order: `State` is sequentially consistent in the code and in the model; other shared variables
  (`ActiveIndex`, the lists, `owned`) are plain and are handed over through `State`. The pairs rely on x86 stores.
