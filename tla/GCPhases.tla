------------------------------ MODULE GCPhases ------------------------------
(***************************************************************************)
(* The phase protocol of GCState.cpp: how mutator threads and the          *)
(* collection thread agree on NOT_COLLECTING -> COLLECTING ->              *)
(* RESTORING_SNAPSHOT -> NOT_COLLECTING without stopping the world.        *)
(*                                                                         *)
(* All of GC::State is one 64-bit word (a phase and four uint8_t counters) *)
(* that every party changes with a compare-and-swap.  Each CAS loop of the *)
(* code recomputes its new word from the word it just failed against, so   *)
(* one successful CAS is one action here; what a thread read BEFORE its    *)
(* loop (the phase test of safe_point) is an action of its own.            *)
(*                                                                         *)
(* The counters are indexed by the phase whose threads they count:         *)
(*   threads[NOT_COLLECTING]      threads_out_of_collection                *)
(*   threads[COLLECTING]          threads_in_collection                    *)
(*   threads[RESTORING_SNAPSHOT]  threads_in_sweep                         *)
(*   threads[NOT_MUTATING]        threads_not_mutating                     *)
(* With that, the three cases of each switch of the code are one formula.  *)
(***************************************************************************)
EXTENDS Integers, FiniteSets

CONSTANTS
  Threads,                \* threads that may ever register with the collector
  MAX_COLLECTED_THREADS,  \* number of thread slots
  CounterMod,             \* number of values of a counter: 2^8 in the code
  MaxNest                 \* bound on nested thread_leave_mutation calls

ASSUME ConstantsAssumption ==
  /\ IsFiniteSet(Threads)
  /\ MAX_COLLECTED_THREADS \in Nat \ {0}
  /\ CounterMod \in Nat \ {0, 1}
  /\ MaxNest \in Nat \ {0}

NOT_MUTATING       == "NOT_MUTATING"
NOT_COLLECTING     == "NOT_COLLECTING"
COLLECTING         == "COLLECTING"
RESTORING_SNAPSHOT == "RESTORING_SNAPSHOT"

Phase  == {NOT_COLLECTING, COLLECTING, RESTORING_SNAPSHOT}
Regime == Phase \cup {NOT_MUTATING}

Succ(p) == IF p = NOT_COLLECTING THEN COLLECTING
           ELSE IF p = COLLECTING THEN RESTORING_SNAPSHOT
           ELSE NOT_COLLECTING
Pred(p) == Succ(Succ(p))

VARIABLES
  phase,                 \* State.phase
  threads,               \* the four counters of State
  ActiveIndex,           \* which of each pair of lists takes new objects
  exit_program_flag,
  StartCollectionEvent,  \* the auto-reset event: is it signalled?
  ThreadState,           \* thread_local: the phase a thread acts under
  NotMutatingCount,      \* thread_local: nesting of thread_leave_mutation
  pc,                    \* where a thread is, see ThreadPC
  cpc,                   \* where the collection thread is, see CollectorPC
  released,              \* local of the three border functions
  miscounted             \* has the word lost count, see Miscounts?  History:
                         \* no variable of the code, read by no action

wordVars      == <<phase, threads, miscounted>>
threadVars    == <<ThreadState, NotMutatingCount, pc>>
collectorVars == <<ActiveIndex, cpc, released>>
vars == <<wordVars, threadVars, collectorVars,
          exit_program_flag, StartCollectionEvent>>

(***************************************************************************)
(* off    no slot: before init_thread and after exit_thread                *)
(* init   in init_thread with a slot, about to enter mutation              *)
(* run    in the program's own code                                        *)
(* count  in safe_point, having seen that the phase moved on               *)
(* wait   in the spin loop of safe_point or thread_enter_mutation          *)
(* exit   in exit_thread, counted out but still holding its slot           *)
(* signal, join   in exit_collect_thread, about to set the event, joining  *)
(*        the collection thread                                            *)
(***************************************************************************)
ThreadPC == {"off", "init", "run", "count", "wait", "exit", "signal",
             "join"}

(***************************************************************************)
(* loop, wait_event   collect_thread                                       *)
(* raise, quiesce, release   the CAS that announces a phase, the loop that *)
(*    waits for the threads of the previous one, the CAS that lets them go *)
(* work    what follows in that phase: _do_collection,                     *)
(*         _do_restore_snapshot or _do_finalize_snapshot                   *)
(* stopped collect_thread returned                                         *)
(***************************************************************************)
CollectorPC == {"loop", "wait_event", "raise", "quiesce", "release", "work",
                "stopped"}

Init ==
  /\ phase = NOT_COLLECTING
  /\ threads = [p \in Regime |-> 0]
  /\ ActiveIndex = 0
  /\ exit_program_flag = FALSE
  /\ StartCollectionEvent = FALSE
  /\ ThreadState = [t \in Threads |-> NOT_MUTATING]
  /\ NotMutatingCount = [t \in Threads |-> 0]
  /\ pc = [t \in Threads |-> "off"]
  /\ cpc = "loop"
  /\ released = TRUE
  /\ miscounted = FALSE

-----------------------------------------------------------------------------
(* Mutant: a counter wider than the eight bits of the word.                *)
Inc_Unbounded(f, p) == [f EXCEPT ![p] = @ + 1]

(* uint8_t arithmetic on one counter of the word.                          *)
Inc(f, p) == [f EXCEPT ![p] = IF @ = CounterMod - 1 THEN 0 ELSE @ + 1]
Dec(f, p) == [f EXCEPT ![p] = IF @ = 0 THEN CounterMod - 1 ELSE @ - 1]

Go(t, label) == pc' = [pc EXCEPT ![t] = label]

(* A thread of the program that may touch the heap right now.              *)
Running(t) == pc[t] \in {"run", "count"} /\ ThreadState[t] # NOT_MUTATING

(***************************************************************************)
(* The word loses count when a thread is counted out of a counter that did *)
(* not count it, and when as many threads hold slots as a counter has      *)
(* values (256 in the code, and as many slots).  The code prevents none of *)
(* this; the properties below say what holds as long as it does not happen.*)
(***************************************************************************)
Miscounts(happens) == miscounted' = (miscounted \/ happens)
HoldingSlots == {t \in Threads : pc[t] # "off"}

-----------------------------------------------------------------------------
(* Threads.                                                                *)

(* The loop over ThreadSlots succeeds once some slot is free.  Which one   *)
(* it is matters only to the lists reached through it.                     *)
ClaimSlot(t) ==
  /\ pc[t] = "off"
  /\ Cardinality(HoldingSlots) < MAX_COLLECTED_THREADS
  /\ NotMutatingCount' = [NotMutatingCount EXCEPT ![t] = 1]
  /\ Go(t, "init")
  /\ Miscounts(Cardinality(HoldingSlots) + 1 >= CounterMod)
  /\ UNCHANGED <<phase, threads, collectorVars, ThreadState, exit_program_flag,
                 StartCollectionEvent>>

(* The outermost thread_enter_mutation: from init_thread the thread was    *)
(* not yet counted anywhere, otherwise it was counted as not mutating.     *)
EnterMutation(t) ==
  /\ pc[t] = "init" \/ (pc[t] = "run" /\ ThreadState[t] = NOT_MUTATING)
  /\ NotMutatingCount[t] = 1
  /\ NotMutatingCount' = [NotMutatingCount EXCEPT ![t] = 0]
  /\ threads' = IF pc[t] = "init" THEN Inc(threads, phase)
                ELSE Dec(Inc(threads, phase), NOT_MUTATING)
  /\ ThreadState' = [ThreadState EXCEPT ![t] = phase]
  /\ Go(t, "wait")
  /\ UNCHANGED <<phase, miscounted, collectorVars, exit_program_flag,
                 StartCollectionEvent>>

EnterNested(t) ==
  /\ pc[t] = "run"
  /\ NotMutatingCount[t] > 1
  /\ NotMutatingCount' = [NotMutatingCount EXCEPT ![t] = @ - 1]
  /\ UNCHANGED <<wordVars, collectorVars, ThreadState, pc, exit_program_flag,
                 StartCollectionEvent>>

(* The outermost thread_leave_mutation counts the thread out of the phase  *)
(* the WORD is in, whatever phase the thread itself was counted in.        *)
LeaveMutation(t) ==
  /\ Running(t) /\ pc[t] = "run"
  /\ NotMutatingCount' = [NotMutatingCount EXCEPT ![t] = 1]
  /\ threads' = Inc(Dec(threads, phase), NOT_MUTATING)
  /\ ThreadState' = [ThreadState EXCEPT ![t] = NOT_MUTATING]
  /\ Miscounts(ThreadState[t] # phase)
  /\ UNCHANGED <<phase, collectorVars, pc, exit_program_flag,
                 StartCollectionEvent>>

LeaveNested(t) ==
  /\ pc[t] = "run" /\ ThreadState[t] = NOT_MUTATING
  /\ NotMutatingCount[t] < MaxNest
  /\ NotMutatingCount' = [NotMutatingCount EXCEPT ![t] = @ + 1]
  /\ UNCHANGED <<wordVars, collectorVars, ThreadState, pc, exit_program_flag,
                 StartCollectionEvent>>

(* safe_point up to its first test.  When the thread is already in step it *)
(* returns, which changes nothing.                                         *)
SafePoint(t) ==
  /\ Running(t) /\ pc[t] = "run"
  /\ ThreadState[t] # phase
  /\ Go(t, "count")
  /\ UNCHANGED <<wordVars, collectorVars, ThreadState, NotMutatingCount,
                 exit_program_flag, StartCollectionEvent>>

(* Only the COLLECTING case looks at exit_program_flag before it counts.   *)
GivesUp(t) == ThreadState[t] = COLLECTING /\ exit_program_flag

(* The CAS loop of safe_point.                                             *)
CountOver(t) ==
  /\ pc[t] = "count"
  /\ \/ /\ GivesUp(t)
        /\ Go(t, "run")
        /\ UNCHANGED <<threads, ThreadState>>
     \/ /\ ~GivesUp(t)
        /\ LET s == ThreadState[t] IN
             /\ threads' = Inc(Dec(threads, s), Succ(s))
             /\ ThreadState' = [ThreadState EXCEPT ![t] = Succ(s)]
        /\ Go(t, "wait")
  /\ UNCHANGED <<phase, miscounted, collectorVars, NotMutatingCount,
                 exit_program_flag, StartCollectionEvent>>

(* Mutants: no spin loop; a loop that overlooks the collector's own count. *)
GateOpen_NoWait(t) == TRUE
GateOpen_OffByOne(t) == threads[Pred(ThreadState[t])] <= 1

(* The spin loops: a thread that follows a phase change waits until nobody *)
(* is counted in the phase before its own.                                 *)
GateOpen(t) == threads[Pred(ThreadState[t])] = 0

WaitDone(t) ==
  /\ pc[t] = "wait"
  /\ GateOpen(t) \/ exit_program_flag
  /\ Go(t, "run")
  /\ UNCHANGED <<wordVars, collectorVars, ThreadState, NotMutatingCount,
                 exit_program_flag, StartCollectionEvent>>

(* Mutant: exit_thread forgets the NOT_COLLECTING case.                    *)
ExitCounter_OneCase(s) == IF s = COLLECTING THEN s ELSE NOT_MUTATING

(* The counter exit_thread takes itself out of: its else branch lumps      *)
(* RESTORING_SNAPSHOT with NOT_MUTATING.                                   *)
ExitCounter(s) == IF s \in {COLLECTING, NOT_COLLECTING} THEN s
                  ELSE NOT_MUTATING

ExitThread(t) ==
  /\ pc[t] = "run"
  /\ threads' = Dec(threads, ExitCounter(ThreadState[t]))
  /\ Miscounts(ThreadState[t] = RESTORING_SNAPSHOT)
  /\ Go(t, "exit")
  /\ UNCHANGED <<phase, collectorVars, ThreadState, NotMutatingCount,
                 exit_program_flag, StartCollectionEvent>>

ReleaseSlot(t) ==
  /\ pc[t] = "exit"
  /\ Go(t, "off")
  /\ UNCHANGED <<wordVars, collectorVars, ThreadState, NotMutatingCount,
                 exit_program_flag, StartCollectionEvent>>

(* log_alloc found that enough was allocated.                              *)
Trigger(t) ==
  /\ Running(t) /\ pc[t] = "run"
  /\ StartCollectionEvent' = TRUE
  /\ UNCHANGED <<wordVars, threadVars, collectorVars, exit_program_flag>>

(* exit_collect_thread: raise the flag, wake the collector up, join it.    *)
Shutdown(t) ==
  /\ ~exit_program_flag
  /\ pc[t] = "run"
  /\ exit_program_flag' = TRUE
  /\ Go(t, "signal")
  /\ UNCHANGED <<wordVars, collectorVars, ThreadState, NotMutatingCount,
                 StartCollectionEvent>>

(* Mutant: exit_collect_thread does not set the event.                     *)
SignalExit_NoEvent(t) ==
  /\ pc[t] = "signal"
  /\ Go(t, "join")
  /\ UNCHANGED <<wordVars, collectorVars, ThreadState, NotMutatingCount,
                 exit_program_flag, StartCollectionEvent>>

SignalExit(t) ==
  /\ pc[t] = "signal"
  /\ StartCollectionEvent' = TRUE
  /\ Go(t, "join")
  /\ UNCHANGED <<wordVars, collectorVars, ThreadState, NotMutatingCount,
                 exit_program_flag>>

Joined(t) ==
  /\ pc[t] = "join"
  /\ cpc = "stopped"
  /\ Go(t, "run")
  /\ UNCHANGED <<wordVars, collectorVars, ThreadState, NotMutatingCount,
                 exit_program_flag, StartCollectionEvent>>

-----------------------------------------------------------------------------
(* The collection thread.                                                  *)

CollectLoop ==
  /\ cpc = "loop"
  /\ cpc' = IF exit_program_flag THEN "stopped" ELSE "wait_event"
  /\ UNCHANGED <<wordVars, threadVars, ActiveIndex, released,
                 exit_program_flag, StartCollectionEvent>>

WakeUp ==
  /\ cpc = "wait_event"
  /\ StartCollectionEvent
  /\ StartCollectionEvent' = FALSE
  /\ cpc' = IF exit_program_flag THEN "stopped" ELSE "raise"
  /\ UNCHANGED <<wordVars, threadVars, ActiveIndex, released,
                 exit_program_flag>>

(* _start_collection and _end_sweep test exit_program_flag in both their   *)
(* loops; _end_collection_start_restore_snapshot, which leaves COLLECTING, *)
(* tests it in neither.                                                    *)
HeedsExit(from) == exit_program_flag /\ from # COLLECTING

Stop ==
  /\ \/ cpc = "raise" /\ HeedsExit(phase)
     \/ cpc = "quiesce" /\ HeedsExit(Pred(phase))
  /\ cpc' = "stopped"
  /\ UNCHANGED <<wordVars, threadVars, ActiveIndex, released,
                 exit_program_flag, StartCollectionEvent>>

(* Mutant: the collector does not count itself in ("stop everyone till I'm *)
(* done", GCState.cpp) before it waits.                                    *)
Raise_NoHold ==
  /\ cpc = "raise"
  /\ ~HeedsExit(phase)
  /\ phase' = Succ(phase)
  /\ released' = FALSE
  /\ cpc' = "quiesce"
  /\ UNCHANGED <<threads, miscounted, threadVars, ActiveIndex, exit_program_flag,
                 StartCollectionEvent>>

(* The first CAS loop of a border: announce the next phase and count the   *)
(* collector itself among the threads of the old one.                      *)
Raise ==
  /\ cpc = "raise"
  /\ ~HeedsExit(phase)
  /\ phase' = Succ(phase)
  /\ threads' = Inc(threads, phase)
  /\ released' = FALSE
  /\ cpc' = "quiesce"
  /\ UNCHANGED <<miscounted, threadVars, ActiveIndex, exit_program_flag,
                 StartCollectionEvent>>

(* Mutant: the collector forgets that it counts itself and waits for zero. *)
AllCountedOut_Zero == threads[Pred(phase)] = 0

(* The wait loop saw that only the collector is left in the old phase.     *)
(* Entering COLLECTING it swaps the lists, and only the first time round.  *)
AllCountedOut == threads[Pred(phase)] = 1

Quiesce ==
  /\ cpc = "quiesce"
  /\ ~HeedsExit(Pred(phase))
  /\ AllCountedOut
  /\ ActiveIndex' = IF phase = COLLECTING /\ ~released THEN 1 - ActiveIndex
                    ELSE ActiveIndex
  /\ cpc' = "release"
  /\ UNCHANGED <<wordVars, threadVars, released, exit_program_flag,
                 StartCollectionEvent>>

(* The CAS loop inside the wait loop.                                      *)
Release ==
  /\ cpc = "release"
  /\ threads' = IF released THEN threads ELSE Dec(threads, Pred(phase))
  /\ released' = TRUE
  /\ cpc' = IF threads'[Pred(phase)] = 0 THEN "work" ELSE "quiesce"
  /\ UNCHANGED <<phase, miscounted, threadVars, ActiveIndex, exit_program_flag,
                 StartCollectionEvent>>

(* The collector's own work of the phase ends (exit_program_flag cuts it   *)
(* short) and one_collect goes on to the next border.                      *)
WorkDone ==
  /\ cpc = "work"
  /\ cpc' = IF phase = NOT_COLLECTING THEN "loop"
            ELSE IF exit_program_flag THEN "stopped" ELSE "raise"
  /\ UNCHANGED <<wordVars, threadVars, ActiveIndex, released,
                 exit_program_flag, StartCollectionEvent>>

-----------------------------------------------------------------------------
CollectorNext ==
  \/ CollectLoop \/ WakeUp \/ Stop \/ Raise \/ Quiesce \/ Release \/ WorkDone

ThreadNext(t) ==
  \/ ClaimSlot(t) \/ EnterMutation(t) \/ EnterNested(t)
  \/ LeaveMutation(t) \/ LeaveNested(t)
  \/ SafePoint(t) \/ CountOver(t) \/ WaitDone(t)
  \/ ExitThread(t) \/ ReleaseSlot(t)
  \/ Trigger(t) \/ Shutdown(t) \/ SignalExit(t) \/ Joined(t)

Next == CollectorNext \/ \E t \in Threads : ThreadNext(t)

Spec == Init /\ [][Next]_vars

(***************************************************************************)
(* The collection thread and a thread inside a library call are scheduled. *)
(* A mutating thread reaches a safe point again and again ("Mutating       *)
(* threads have to periodically go through safe-points", README.md).       *)
(* Nothing obliges a program to opt out, to opt back in, to exit or to     *)
(* allocate.                                                               *)
(***************************************************************************)
Fairness ==
  /\ WF_vars(CollectorNext)
  /\ \A t \in Threads :
       /\ WF_vars(SafePoint(t))
       /\ WF_vars(CountOver(t))
       /\ WF_vars(WaitDone(t))
       /\ WF_vars(pc[t] = "init" /\ EnterMutation(t))
       /\ WF_vars(ReleaseSlot(t))
       /\ WF_vars(SignalExit(t))

FairSpec == Spec /\ Fairness

-----------------------------------------------------------------------------
(* Properties.                                                             *)

(* Every variable has its type; each counter fits its eight bits.          *)
TypeOK ==
  /\ phase \in Phase
  /\ threads \in [Regime -> 0 .. CounterMod - 1]
  /\ ActiveIndex \in {0, 1}
  /\ exit_program_flag \in BOOLEAN
  /\ StartCollectionEvent \in BOOLEAN
  /\ ThreadState \in [Threads -> Regime]
  /\ NotMutatingCount \in [Threads -> 0 .. MaxNest]
  /\ pc \in [Threads -> ThreadPC]
  /\ cpc \in CollectorPC
  /\ released \in BOOLEAN
  /\ miscounted \in BOOLEAN

(* The threads the word should count under p, and the collector's own      *)
(* count in the phase it is driving everybody out of.                      *)
Holders == {"run", "count", "wait", "signal", "join"}
Counted(p) == {t \in Threads : pc[t] \in Holders /\ ThreadState[t] = p}
Hold(p) == IF ~released /\ p = Pred(phase) THEN 1 ELSE 0

(* The counters of the word are exactly the numbers of threads that act    *)
(* under each phase, plus the collector's hold, modulo the counter width.  *)
(* Only the steps named at Miscounts lose a count: no other interleaving   *)
(* of init_thread, safe_point, thread_leave_mutation,                      *)
(* thread_enter_mutation, exit_thread and the borders does, at whatever    *)
(* moment of a border it comes.                                            *)
WordCounts ==
  \A p \in Regime :
    threads[p] = (Cardinality(Counted(p)) + Hold(p)) % CounterMod
CountersMatch == ~miscounted => WordCounts

(* As long as the word counts right and the program does not shut down,    *)
(* the protocol holds.                                                     *)
Kept == ~miscounted /\ ~exit_program_flag

(* Mutators never run under different write barriers: while one stores     *)
(* pointers singly (collecting_write_barrier), no other stores them doubly *)
(* although each notices the phase change at a safe point of its own, as   *)
(* long as the word counts right and the program does not shut down.       *)
RunningAgree ==
  Kept =>
    \A t, u \in Threads :
      Running(t) /\ Running(u) => ThreadState[t] = ThreadState[u]

(* From the moment the collector sees everyone counted out until it lets   *)
(* go, nobody runs: that is when it swaps the lists (ActiveIndex) or       *)
(* merges them (merge_collected) without any lock.  (As long as the word   *)
(* counts right and the program does not shut down.)                       *)
BorderQuiet ==
  cpc = "release" /\ ~released /\ Kept => \A t \in Threads : ~Running(t)

(* While the collector marks, sweeps or restores the snapshot, whoever     *)
(* runs does so under the barrier of that phase, as long as the word       *)
(* counts right and the program does not shut down.                        *)
WorkInStep ==
  cpc = "work" /\ Kept =>
    \A t \in Threads : Running(t) => ThreadState[t] = phase

(* The refinement mapping to Handshake.                                    *)
HS == INSTANCE Handshake WITH
  gate   <- IF cpc = "quiesce" THEN "closed"
            ELSE IF cpc = "release" THEN "turned" ELSE "open",
  regime <- [t \in Threads |->
               IF pc[t] \in Holders THEN ThreadState[t] ELSE NOT_MUTATING],
  parked <- {t \in Threads : pc[t] = "wait"},
  index  <- ActiveIndex

(* The counters and spin loops of the code implement the gate of           *)
(* Handshake: every step until the word loses count or the program shuts   *)
(* down is one of its steps.  The collector turns the lists round only     *)
(* when all mutators wait under the new phase, and none leaves before that.*)
ImplementsHandshake ==
  /\ HS!HandshakeInit
  /\ [][Kept' => HS!HandshakeNext]_(HS!handshakeVars)

(* A collection that begins runs to its end if threads reach safe points   *)
(* (one_collect), unless the word loses count or the program shuts down.   *)
CollectionCompletes == cpc = "raise" ~> cpc = "loop" \/ ~Kept

(* A thread that waits at a border gets out of its spin loop (safe_point,  *)
(* thread_enter_mutation): mutators and collector never wait on each other *)
(* unless the word loses count.                                            *)
ParkedResumes ==
  \A t \in Threads : pc[t] = "wait" ~> pc[t] # "wait" \/ miscounted

(* exit_collect_thread ends the collection thread (so that its join        *)
(* returns) if from some moment on no thread is counted as mutating and    *)
(* the word has not lost count.                                            *)
Retired == \A t \in Threads : ThreadState[t] = NOT_MUTATING \/ pc[t] = "off"
QuietShutdownCompletes ==
  exit_program_flag /\ [](Retired /\ ~miscounted) ~> cpc = "stopped"

(* README.md: a thread "should opt out of mutating before the call and opt *)
(* back in afterwards so it doesn't hold up the other threads or the       *)
(* garbage collector", and GCState.cpp allows it in a border as well ("2)  *)
(* -> A)").  So every collection should end in a program whose threads opt *)
(* out and back in as they please and never exit.  It does not: the word   *)
(* goes on counting a thread that opts out before it followed the border.  *)
NobodyExits == ~exit_program_flag /\ \A t \in Threads : pc[t] # "exit"
OptingOutHoldsUpNobody == []NobodyExits => (cpc = "raise" ~> cpc = "loop")
=============================================================================
