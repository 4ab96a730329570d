-------------------------- MODULE AllocationTrigger --------------------------
(***************************************************************************)
(* When a collection starts: log_alloc and log_array_alloc of GCState.cpp  *)
(* and the loop of collect_thread.  Each thread adds up what it allocates  *)
(* and hands the sum over to Allocated every now and then; when Allocated  *)
(* has passed TriggerPoint, one of the threads that see it takes all of    *)
(* it and sets StartCollectionEvent.  Loads, additions and exchanges of    *)
(* the atomic Allocated are steps of their own.                            *)
(***************************************************************************)
EXTENDS Integers, FiniteSets, FiniteSetsExt

CONSTANTS
  Threads,
  TriggerPoint,     \* 300000000 in the code
  LogEvery,         \* a hand-over every 301 calls of log_alloc,
  ArrayLogEvery,    \* and every 21 calls of log_array_alloc
  Sizes,            \* sizes of objects
  Arrays            \* <<size of an element, number of elements>> of arrays

ASSUME TriggerAssumption ==
  /\ IsFiniteSet(Threads)
  /\ TriggerPoint \in Nat
  /\ LogEvery \in Nat \ {0} /\ ArrayLogEvery \in Nat \ {0}
  /\ Sizes \subseteq Nat
  /\ Arrays \subseteq Nat \X Nat

VARIABLES
  Allocated,
  ThreadAllocated, AggregateLogAlloc, AggregateArrayLogAlloc,   \* thread_local
  pc,                     \* of the threads, see ThreadPC
  StartCollectionEvent,   \* is it set?
  collecting,             \* is the collection thread in one_collect?
  unrequested             \* bytes allocated since a thread last asked for a
                          \* collection; no variable of the code

localVars == <<ThreadAllocated, AggregateLogAlloc, AggregateArrayLogAlloc>>
vars == <<Allocated, localVars, pc, StartCollectionEvent, collecting, unrequested>>

(* run: in the program; compare, exchange: about to load Allocated, to     *)
(* exchange it; set: about to set the event.                               *)
ThreadPC == {"run", "compare", "exchange", "set"}

Init ==
  /\ Allocated = 0
  /\ ThreadAllocated = [t \in Threads |-> 0]
  /\ AggregateLogAlloc = [t \in Threads |-> 0]
  /\ AggregateArrayLogAlloc = [t \in Threads |-> 0]
  /\ pc = [t \in Threads |-> "run"]
  /\ StartCollectionEvent = FALSE
  /\ collecting = FALSE
  /\ unrequested = 0

Goto(t, place) == pc' = [pc EXCEPT ![t] = place]

-----------------------------------------------------------------------------
(* Mutant: the sum is cleared before it is handed over.                    *)
HandOver_Cleared(t, sum) ==
  /\ ThreadAllocated' = [ThreadAllocated EXCEPT ![t] = 0]
  /\ UNCHANGED Allocated
  /\ Goto(t, "compare")
(* Mutant: the sum is kept after it was handed over.                       *)
HandOver_Kept(t, sum) ==
  /\ Allocated' = Allocated + sum
  /\ ThreadAllocated' = [ThreadAllocated EXCEPT ![t] = sum]
  /\ Goto(t, "compare")
(* Mutant: nobody looks while a collection has been asked for.             *)
HandOver_UnlessAsked(t, sum) ==
  /\ Allocated' = Allocated + sum
  /\ ThreadAllocated' = [ThreadAllocated EXCEPT ![t] = 0]
  /\ Goto(t, IF StartCollectionEvent THEN "run" ELSE "compare")

HandOver(t, sum) ==
  /\ Allocated' = Allocated + sum
  /\ ThreadAllocated' = [ThreadAllocated EXCEPT ![t] = 0]
  /\ Goto(t, "compare")

Keep(t, sum) ==
  /\ ThreadAllocated' = [ThreadAllocated EXCEPT ![t] = sum]
  /\ UNCHANGED <<Allocated, pc>>

(* What log_array_alloc adds for an array: the sum of both, where their    *)
(* product was allocated, and so far less than that for most arrays.       *)
ArrayLogged(a, n) == a + n

(* The counters start again after a hand-over of their own kind only.      *)
log_alloc(t, a) ==
  /\ pc[t] = "run"
  /\ LET sum == ThreadAllocated[t] + a
         n == AggregateLogAlloc[t] + 1
     IN  IF n = LogEvery
         THEN /\ HandOver(t, sum)
              /\ AggregateLogAlloc' = [AggregateLogAlloc EXCEPT ![t] = 0]
         ELSE /\ Keep(t, sum)
              /\ AggregateLogAlloc' = [AggregateLogAlloc EXCEPT ![t] = n]
  /\ unrequested' = unrequested + a
  /\ UNCHANGED <<AggregateArrayLogAlloc, StartCollectionEvent, collecting>>

log_array_alloc(t, a, n) ==
  /\ pc[t] = "run"
  /\ LET sum == ThreadAllocated[t] + ArrayLogged(a, n)
         k == AggregateArrayLogAlloc[t] + 1
     IN  IF k = ArrayLogEvery
         THEN /\ HandOver(t, sum)
              /\ AggregateArrayLogAlloc' = [AggregateArrayLogAlloc EXCEPT ![t] = 0]
         ELSE /\ Keep(t, sum)
              /\ AggregateArrayLogAlloc' = [AggregateArrayLogAlloc EXCEPT ![t] = k]
  /\ unrequested' = unrequested + a * n
  /\ UNCHANGED <<AggregateLogAlloc, StartCollectionEvent, collecting>>

Compare(t) ==
  /\ pc[t] = "compare"
  /\ Goto(t, IF Allocated > TriggerPoint THEN "exchange" ELSE "run")
  /\ UNCHANGED <<Allocated, localVars, StartCollectionEvent, collecting, unrequested>>

(* Of several threads here at once the first asks for the collection; the  *)
(* others throw away what was handed over since.                           *)
Exchange(t) ==
  /\ pc[t] = "exchange"
  /\ Allocated' = 0
  /\ IF Allocated > TriggerPoint
     THEN Goto(t, "set") /\ unrequested' = 0
     ELSE Goto(t, "run") /\ UNCHANGED unrequested
  /\ UNCHANGED <<localVars, StartCollectionEvent, collecting>>

(* Mutant: nobody asks while a collection is running.                      *)
Asked_WhenIdle == ~collecting
Asked == TRUE

SetStartCollectionEvent(t) ==
  /\ pc[t] = "set"
  /\ StartCollectionEvent' = Asked
  /\ Goto(t, "run")
  /\ UNCHANGED <<Allocated, localVars, collecting, unrequested>>

(* collect_thread; what one_collect does is modelled in GCPhases.          *)
WakeUp ==
  /\ ~collecting /\ StartCollectionEvent
  /\ StartCollectionEvent' = FALSE
  /\ collecting' = TRUE
  /\ UNCHANGED <<Allocated, localVars, pc, unrequested>>

Collected ==
  /\ collecting
  /\ collecting' = FALSE
  /\ UNCHANGED <<Allocated, localVars, pc, StartCollectionEvent, unrequested>>

Logging(t) == Compare(t) \/ Exchange(t) \/ SetStartCollectionEvent(t)
Next ==
  \/ \E t \in Threads :
       \/ \E a \in Sizes : log_alloc(t, a)
       \/ \E array \in Arrays : log_array_alloc(t, array[1], array[2])
       \/ Logging(t)
  \/ WakeUp \/ Collected

Spec == Init /\ [][Next]_vars

(* A thread inside the allocator and the collection thread are scheduled;  *)
(* a collection ends (CollectionCompletes of GCPhases).                    *)
FairSpec ==
  /\ Spec
  /\ \A t \in Threads : WF_vars(Logging(t))
  /\ WF_vars(WakeUp) /\ WF_vars(Collected)

-----------------------------------------------------------------------------
(* What a thread may have to hand over at once.                            *)
Logged == Sizes \cup {ArrayLogged(array[1], array[2]) : array \in Arrays}
Largest == (LogEvery + ArrayLogEvery) * Max(Logged)

(* The variables have their types, and the sums stay within what the       *)
(* threads can hand over before one of them takes it: the 64-bit counters  *)
(* do not grow without bound.                                              *)
TypeOK ==
  /\ Allocated \in 0 .. TriggerPoint + Cardinality(Threads) * Largest
  /\ ThreadAllocated \in [Threads -> 0 .. Largest]
  /\ AggregateLogAlloc \in [Threads -> 0 .. LogEvery - 1]
  /\ AggregateArrayLogAlloc \in [Threads -> 0 .. ArrayLogEvery - 1]
  /\ pc \in [Threads -> ThreadPC]
  /\ StartCollectionEvent \in BOOLEAN
  /\ collecting \in BOOLEAN
  /\ unrequested \in Nat

(* When Allocated has passed the trigger point some thread is on its way   *)
(* to notice: no order of hand-overs, loads and exchanges leaves it there. *)
TriggerDuty ==
  Allocated > TriggerPoint => \E t \in Threads : pc[t] \in {"compare", "exchange"}

(* However the threads race, and though the losers of the exchange throw   *)
(* counts away, a collection is asked for before more is counted than the  *)
(* trigger point and two hand-overs for each thread.  What is allocated by *)
(* then is at most k times as much, when no array has more than k times the*)
(* bytes that are counted for it; the size of the largest element is such k*)
CountedWithin(k) ==
  \A array \in Arrays : array[1] * array[2] =< k * ArrayLogged(array[1], array[2])
Factors == ({1} \cup {array[1] : array \in Arrays}) \ {0}
RequestedInTime ==
  \A k \in Factors :
    CountedWithin(k) => unrequested =< k * (Cardinality(Threads) * (TriggerPoint + 2 * Largest))

(* Once Allocated has passed the trigger point the event is set, and once  *)
(* it is set the collection thread takes it up, even when it was set while *)
(* a collection was running.                                               *)
RequestServed ==
  /\ Allocated > TriggerPoint ~> StartCollectionEvent
  /\ StartCollectionEvent ~> collecting /\ ~StartCollectionEvent
=============================================================================
