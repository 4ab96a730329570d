--------------------------- MODULE CombinedThread ---------------------------
(***************************************************************************)
(* GC::init(true): one thread is both a mutator and the collector.  It     *)
(* runs one_collect inside its safe_point, is not counted in State by      *)
(* init_thread and does not wait at borders; other threads take part as    *)
(* in GCPhases, whose collection thread is this one, and leave it one of   *)
(* the slots.  No event is made in this mode: what other threads request   *)
(* with it is lost.  exit_collect_thread is called by the combined thread  *)
(* (any other would join a thread that was never started).                 *)
(***************************************************************************)
EXTENDS GCPhases

VARIABLES
  single_thread_event,
  mainState,      \* its ThreadState
  mainCount       \* its NotMutatingCount

mainVars == <<single_thread_event, mainState, mainCount>>
combinedVars == <<vars, mainVars>>

(* init_thread(true) leaves the counters alone.                            *)
CombinedInit ==
  /\ Init
  /\ single_thread_event = FALSE
  /\ mainState = NOT_COLLECTING
  /\ mainCount = 0

-----------------------------------------------------------------------------
(* While one_collect runs (cpc # "loop") the thread does nothing else.     *)
InProgram == cpc = "loop"

MainTrigger ==
  /\ InProgram /\ mainState # NOT_MUTATING
  /\ single_thread_event' = TRUE
  /\ UNCHANGED <<vars, mainState, mainCount>>

(* Whether WaitForEvent(StartCollectionEvent, 0), which safe_point calls   *)
(* when there is no request of its own, returns 0.  init(true) leaves the  *)
(* event null, and the wait for a null event fails with an error.          *)
EventTaken == FALSE

(* safe_point starts a collection even for a thread that has opted out,    *)
(* although by then it has uncounted a thread that was never counted in;   *)
(* _start_collection will wait for a counter that wrapped.                 *)
MainSafePoint ==
  /\ InProgram
  /\ single_thread_event \/ EventTaken
  /\ single_thread_event' = FALSE
  /\ cpc' = IF exit_program_flag THEN "stopped" ELSE "raise"
  /\ Miscounts(mainState = NOT_MUTATING)
  /\ UNCHANGED <<phase, threads, threadVars, ActiveIndex, released,
                 exit_program_flag, StartCollectionEvent, mainState, mainCount>>

(* When exit_program_flag ended one_collect early, the rest of safe_point  *)
(* moves the combined thread on like any other, but for the waiting.       *)
MainReturns ==
  /\ cpc = "stopped"
  /\ cpc' = "loop"
  /\ LET s == mainState
         done == s \in {phase, NOT_MUTATING, COLLECTING}
     IN  /\ threads' = IF done THEN threads ELSE Inc(Dec(threads, s), Succ(s))
         /\ mainState' = IF done THEN s ELSE Succ(s)
  /\ UNCHANGED <<phase, miscounted, threadVars, ActiveIndex, released,
                 exit_program_flag, StartCollectionEvent, single_thread_event,
                 mainCount>>

(* exit_collect_thread; the event is null and there is nobody to join.     *)
MainShutdown ==
  /\ InProgram /\ ~exit_program_flag
  /\ exit_program_flag' = TRUE
  /\ UNCHANGED <<wordVars, threadVars, collectorVars, StartCollectionEvent,
                 mainVars>>

(* It changes the counters though it was never counted.                    *)
MainLeave ==
  /\ InProgram /\ mainCount = 0
  /\ mainCount' = 1
  /\ threads' = Inc(Dec(threads, phase), NOT_MUTATING)
  /\ mainState' = NOT_MUTATING
  /\ UNCHANGED <<phase, miscounted, threadVars, collectorVars, exit_program_flag,
                 StartCollectionEvent, single_thread_event>>

(* Mutant: the combined thread changes no counter, as in init_thread.      *)
EnterCounts_Not == threads
EnterCounts == Dec(Inc(threads, phase), NOT_MUTATING)

MainEnter ==
  /\ InProgram /\ mainCount = 1
  /\ mainCount' = 0
  /\ threads' = EnterCounts
  /\ mainState' = phase
  /\ UNCHANGED <<phase, miscounted, threadVars, collectorVars, exit_program_flag,
                 StartCollectionEvent, single_thread_event>>

MainLeaveNested ==
  /\ InProgram /\ mainCount \in 1 .. MaxNest - 1
  /\ mainCount' = mainCount + 1
  /\ UNCHANGED <<vars, single_thread_event, mainState>>

MainEnterNested ==
  /\ InProgram /\ mainCount > 1
  /\ mainCount' = mainCount - 1
  /\ UNCHANGED <<vars, single_thread_event, mainState>>

(* Mutant: the state is not changed on the way out of the last border.     *)
Follows_NotLast == mainState # NOT_MUTATING /\ phase # NOT_COLLECTING
Follows == mainState # NOT_MUTATING

(* Having let the others go it changes its own state and write barrier.    *)
MainRelease ==
  /\ Release
  /\ mainState' = IF Follows /\ cpc' = "work" THEN phase ELSE mainState
  /\ UNCHANGED <<single_thread_event, mainCount>>

Collecting ==
  \/ MainRelease \/ MainReturns
  \/ (Raise \/ Quiesce \/ WorkDone \/ Stop) /\ UNCHANGED mainVars

OtherThread(t) ==
  /\ \/ ClaimSlot(t) /\ Cardinality(HoldingSlots) + 1 < MAX_COLLECTED_THREADS
     \/ EnterMutation(t) \/ EnterNested(t)
     \/ LeaveMutation(t) \/ LeaveNested(t)
     \/ SafePoint(t) \/ CountOver(t) \/ WaitDone(t)
     \/ ExitThread(t) \/ ReleaseSlot(t)
  /\ UNCHANGED mainVars

CombinedNext ==
  \/ MainTrigger \/ MainSafePoint \/ MainShutdown
  \/ MainLeave \/ MainEnter \/ MainLeaveNested \/ MainEnterNested
  \/ Collecting
  \/ \E t \in Threads : OtherThread(t)

(* The thread is scheduled while it collects; the others as in GCPhases.   *)
CombinedSpec ==
  /\ CombinedInit /\ [][CombinedNext]_combinedVars
  /\ WF_combinedVars(Collecting)
  /\ \A t \in Threads :
       /\ WF_combinedVars(SafePoint(t) /\ UNCHANGED mainVars)
       /\ WF_combinedVars(CountOver(t) /\ UNCHANGED mainVars)
       /\ WF_combinedVars(WaitDone(t) /\ UNCHANGED mainVars)
       /\ WF_combinedVars(pc[t] = "init" /\ EnterMutation(t) /\ UNCHANGED mainVars)
       /\ WF_combinedVars(ReleaseSlot(t) /\ UNCHANGED mainVars)

-----------------------------------------------------------------------------
(* What the combined thread adds to the counters: nothing while it mutates.*)
MainCount(p) ==
  IF mainCount = 0 THEN 0
  ELSE IF p = NOT_COLLECTING THEN CounterMod - 1 ELSE IF p = NOT_MUTATING THEN 1 ELSE 0

(* Opting out and back in leaves the counters as they were, although the   *)
(* combined thread is counted in neither phase it moves between: the word  *)
(* counts exactly the other threads, unless one of them makes it lose      *)
(* count, the combined thread collects while it has opted out, or the      *)
(* program shuts down.                                                     *)
CombinedCounts ==
  Kept =>
    \A p \in Regime :
      threads[p] = (Cardinality(Counted(p)) + Hold(p) + MainCount(p)) % CounterMod

(* When the combined thread is back in the program it and all that run act *)
(* under the same phase, though it changed over at no safe point (under    *)
(* the same conditions).                                                   *)
MainInStep ==
  Kept /\ InProgram /\ mainState # NOT_MUTATING =>
    /\ mainState = phase
    /\ \A t \in Threads : Running(t) => ThreadState[t] = mainState
=============================================================================
