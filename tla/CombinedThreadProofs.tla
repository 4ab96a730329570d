------------------------ MODULE CombinedThreadProofs ------------------------
(***************************************************************************)
(* Proofs about CombinedThread, for any number of other threads, slots and *)
(* counter values, up to the step in which the word loses count or the     *)
(* program begins to shut down.  With what the combined thread has taken from the       *)
(* counters put back (Others), each of its steps is a step or a stutter of *)
(* GCPhases, but for the one that starts a collection; so the inductive    *)
(* invariant of GCPhasesProofs holds here too.                             *)
(***************************************************************************)
EXTENDS CombinedThread, GCPhasesProofs

(* The counters of the threads that are counted: an opted-out combined     *)
(* thread has moved one from NOT_COLLECTING to NOT_MUTATING.               *)
PutBack(f) == Dec(Inc(f, NOT_COLLECTING), NOT_MUTATING)
Others == IF mainCount = 0 THEN threads ELSE PutBack(threads)

G == INSTANCE GCPhasesProofs WITH threads <- Others

(* The combined thread is outside the collector whenever it has opted out, *)
(* and where it is it follows the phase.                                   *)
MainInv ==
  /\ threads \in Counters
  /\ mainCount \in Nat /\ mainState \in Regime
  /\ ~exit_program_flag
  /\ cpc \notin {"wait_event", "stopped"}
  /\ cpc = "loop" => phase = NOT_COLLECTING
  /\ mainCount = 0 <=> mainState # NOT_MUTATING
  /\ mainCount # 0 => cpc = "loop"
  /\ cpc \in {"loop", "work"} /\ mainCount = 0 => mainState = phase

(* What holds as long as the word counts right and nothing shuts down.     *)
CombinedInv == MainInv /\ G!IInv
KeptInv == Kept => CombinedInv

-----------------------------------------------------------------------------
(* What does not look at the counters means the same under the mapping.    *)
LEMMA SameOperators ==
  /\ \A f, p : G!Inc(f, p) = Inc(f, p) /\ G!Dec(f, p) = Dec(f, p)
  /\ \A p : G!Succ(p) = Succ(p) /\ G!Pred(p) = Pred(p)
  /\ G!Regime = Regime /\ G!Phase = Phase
  /\ G!NOT_MUTATING = NOT_MUTATING /\ G!NOT_COLLECTING = NOT_COLLECTING
  /\ G!COLLECTING = COLLECTING /\ G!RESTORING_SNAPSHOT = RESTORING_SNAPSHOT
BY DEF G!Inc, Inc, G!Dec, Dec, G!Succ, Succ, G!Pred, Pred, G!Regime, Regime,
       G!Phase, Phase, G!NOT_MUTATING, NOT_MUTATING, G!NOT_COLLECTING,
       NOT_COLLECTING, G!COLLECTING, COLLECTING, G!RESTORING_SNAPSHOT,
       RESTORING_SNAPSHOT

(* Counting means the same too.                                            *)
LEMMA SameCardinality == \A S : G!Cardinality(S) = Cardinality(S)
BY Zenon DEF G!Cardinality, Cardinality

(* The assumption of GCPhases, which holds under the mapping.              *)
LEMMA SameAssumption ==
  /\ G!IsFiniteSet(Threads)
  /\ MAX_COLLECTED_THREADS \in Nat \ {0}
  /\ CounterMod \in Nat \ {0, 1}
  /\ MaxNest \in Nat \ {0}
<1>1. G!IsFiniteSet(Threads)
  BY ConstantsAssumption, Zenon DEF G!IsFiniteSet, IsFiniteSet
<1> QED
  BY <1>1, ConstantsAssumption

(* Putting back commutes with counting in and out, and undoes opting out.  *)
LEMMA PutBackCounts ==
  ASSUME NEW f \in Counters
  PROVE  /\ PutBack(f) \in Counters
         /\ \A p \in Regime : /\ PutBack(Inc(f, p)) = Inc(PutBack(f), p)
                              /\ PutBack(Dec(f, p)) = Dec(PutBack(f), p)
         /\ PutBack(Inc(Dec(f, NOT_COLLECTING), NOT_MUTATING)) = f
         /\ PutBack(f)[RESTORING_SNAPSHOT] = f[RESTORING_SNAPSHOT]
<1>1. /\ NOT_COLLECTING \in Regime /\ NOT_MUTATING \in Regime
      /\ RESTORING_SNAPSHOT \in Regime
      /\ NOT_COLLECTING # NOT_MUTATING /\ RESTORING_SNAPSHOT # NOT_COLLECTING
      /\ RESTORING_SNAPSHOT # NOT_MUTATING
  BY DEF Regime, Phase, NOT_COLLECTING, NOT_MUTATING, RESTORING_SNAPSHOT
<1>2. PutBack(f) \in Counters
  BY <1>1, CountersType DEF PutBack
<1>3. ASSUME NEW p \in Regime
      PROVE  /\ PutBack(Inc(f, p)) = Inc(PutBack(f), p)
             /\ PutBack(Dec(f, p)) = Dec(PutBack(f), p)
  <2>1. /\ PutBack(Inc(f, p)) \in Counters /\ Inc(PutBack(f), p) \in Counters
        /\ PutBack(Dec(f, p)) \in Counters /\ Dec(PutBack(f), p) \in Counters
    BY <1>1, <1>2, CountersType DEF PutBack
  <2>2. ASSUME NEW q \in Regime
        PROVE  /\ PutBack(Inc(f, p))[q] = Inc(PutBack(f), p)[q]
               /\ PutBack(Dec(f, p))[q] = Dec(PutBack(f), p)[q]
    BY <1>1, ConstantsAssumption DEF PutBack, Inc, Dec, Counters
  <2> QED
    BY <2>1, <2>2 DEF Counters
<1>4. PutBack(Inc(Dec(f, NOT_COLLECTING), NOT_MUTATING)) = f
  <2>1. PutBack(Inc(Dec(f, NOT_COLLECTING), NOT_MUTATING)) \in Counters
    BY <1>1, CountersType DEF PutBack
  <2>2. ASSUME NEW q \in Regime
        PROVE  PutBack(Inc(Dec(f, NOT_COLLECTING), NOT_MUTATING))[q] = f[q]
    BY <1>1, ConstantsAssumption DEF PutBack, Inc, Dec, Counters
  <2> QED
    BY <2>1, <2>2 DEF Counters
<1>5. PutBack(f)[RESTORING_SNAPSHOT] = f[RESTORING_SNAPSHOT]
  BY <1>1 DEF PutBack, Inc, Dec, Counters
<1> QED
  BY <1>2, <1>3, <1>4, <1>5

-----------------------------------------------------------------------------
(* Claiming a slot does not look at the counters.                          *)
LEMMA MapsClaim ==
  ASSUME NEW t \in Threads, ClaimSlot(t), Others' = Others
  PROVE  G!ClaimSlot(t)
<1>a. G!HoldingSlots = HoldingSlots
  BY DEF G!HoldingSlots, HoldingSlots
<1>1. /\ G!Cardinality(G!HoldingSlots) < MAX_COLLECTED_THREADS
      /\ G!Miscounts(G!Cardinality(G!HoldingSlots) + 1 >= CounterMod)
  BY <1>a, SameCardinality, Zenon DEF ClaimSlot, Miscounts, G!Miscounts
<1>2. /\ pc[t] = "off"
      /\ NotMutatingCount' = [NotMutatingCount EXCEPT ![t] = 1]
      /\ pc' = [pc EXCEPT ![t] = "init"]
      /\ UNCHANGED <<phase, collectorVars, ThreadState, exit_program_flag,
                     StartCollectionEvent>>
  BY DEF ClaimSlot, Go
<1>3. UNCHANGED <<phase, Others, G!collectorVars, ThreadState, exit_program_flag,
                  StartCollectionEvent>>
  BY <1>2 DEF collectorVars, G!collectorVars
<1> QED
  BY <1>1, <1>2, <1>3, Zenon DEF G!ClaimSlot, G!Go

(* What a thread does is a step of GCPhases under the mapping: a spin loop *)
(* never looks at a counter that the combined thread has changed.          *)
LEMMA MapsThread ==
  ASSUME CombinedInv, NEW t \in Threads, OtherThread(t)
  PROVE  G!ThreadNext(t)
<1> USE SameOperators
<1>1. CASE mainCount = 0
  <2>1. Others = threads /\ Others' = threads'
    BY <1>1 DEF Others, OtherThread, mainVars
  <2>2. CASE EnterNested(t) \/ LeaveNested(t) \/ SafePoint(t) \/ ReleaseSlot(t)
    BY <2>1, <2>2
    DEF EnterNested, LeaveNested, SafePoint, ReleaseSlot, G!ThreadNext,
        G!EnterNested, G!LeaveNested, G!SafePoint, G!ReleaseSlot,
        Go, G!Go, Running, G!Running,
        wordVars, G!wordVars, collectorVars, G!collectorVars
  <2>3. CASE EnterMutation(t) \/ LeaveMutation(t)
    BY <2>1, <2>3
    DEF EnterMutation, LeaveMutation, G!ThreadNext, G!EnterMutation,
        G!LeaveMutation, Go, G!Go, Miscounts, G!Miscounts,
        Running, G!Running, collectorVars, G!collectorVars
  <2>4. CASE CountOver(t)
    BY <2>1, <2>4
    DEF CountOver, G!ThreadNext, G!CountOver, GivesUp, G!GivesUp, Go, G!Go,
        collectorVars, G!collectorVars
  <2>5. CASE WaitDone(t)
    BY <2>1, <2>5
    DEF WaitDone, G!ThreadNext, G!WaitDone, GateOpen, G!GateOpen, Go, G!Go,
        wordVars, G!wordVars, collectorVars, G!collectorVars
  <2>6. CASE ExitThread(t)
    BY <2>1, <2>6
    DEF ExitThread, Miscounts, G!Miscounts, G!ThreadNext, G!ExitThread, ExitCounter, G!ExitCounter,
        Go, G!Go, collectorVars, G!collectorVars
  <2>7. CASE ClaimSlot(t)
    BY <2>1, <2>7, MapsClaim DEF ClaimSlot, G!ThreadNext
  <2> QED
    BY <2>2, <2>3, <2>4, <2>5, <2>6, <2>7 DEF OtherThread
<1>2. CASE mainCount # 0
  <2>1. /\ Others = PutBack(threads) /\ Others' = PutBack(threads')
        /\ threads \in Counters
    BY <1>2 DEF Others, OtherThread, mainVars, CombinedInv, MainInv
  <2>2. cpc = "loop" /\ phase = NOT_COLLECTING
    BY <1>2 DEF CombinedInv, MainInv
  <2>3. /\ threads \in Counters /\ \A p \in Regime : Inc(threads, p) \in Counters
        /\ \A p \in Regime : Dec(threads, p) \in Counters
    BY <2>1, CountersType
  <2>4. /\ \A p \in Regime : PutBack(Inc(threads, p)) = Inc(Others, p)
        /\ \A p \in Regime : PutBack(Dec(threads, p)) = Dec(Others, p)
        /\ \A p, q \in Regime :
             /\ PutBack(Dec(Inc(threads, p), q)) = Dec(Inc(Others, p), q)
             /\ PutBack(Inc(Dec(threads, q), p)) = Inc(Dec(Others, q), p)
    BY <2>1, <2>3, PutBackCounts
  <2>5. NOT_MUTATING \in Regime /\ phase \in Regime
    BY <2>2 DEF Regime, Phase
  <2>6. ThreadState[t] \in Regime
    BY DEF CombinedInv, G!IInv, G!TypeOK
  <2>a. threads' = threads => Others' = Others
    BY <2>1 DEF PutBack, Inc, Dec
  <2>7. CASE ClaimSlot(t)
    BY <2>a, <2>7, MapsClaim DEF ClaimSlot, G!ThreadNext
  <2>8. CASE EnterMutation(t)
    BY <2>1, <2>4, <2>5, <2>8
    DEF EnterMutation, G!ThreadNext, G!EnterMutation, Go, G!Go, collectorVars, G!collectorVars
  <2>9. CASE EnterNested(t) \/ LeaveNested(t) \/ SafePoint(t) \/ ReleaseSlot(t)
    BY <2>a, <2>9
    DEF EnterNested, LeaveNested, SafePoint, ReleaseSlot, G!ThreadNext,
        G!EnterNested, G!LeaveNested, G!SafePoint, G!ReleaseSlot, Go, G!Go,
        Running, G!Running, wordVars, G!wordVars, collectorVars, G!collectorVars
  <2>10. CASE LeaveMutation(t)
    BY <2>1, <2>4, <2>5, <2>10
    DEF LeaveMutation, Miscounts, G!Miscounts, G!ThreadNext, G!LeaveMutation,
        Running, G!Running,
        collectorVars, G!collectorVars
  <2>11. CASE CountOver(t)
    <3>1. G!InStep /\ G!InSafePoint
      BY DEF CombinedInv, G!IInv
    <3>2. ThreadState[t] # phase \/ pc[t] # "count"
      BY <2>2, <3>1 DEF G!InSafePoint, Pred, Succ, NOT_COLLECTING, COLLECTING,
                        RESTORING_SNAPSHOT
    <3>3. ThreadState[t] = phase \/ pc[t] # "count"
      BY <2>2, <3>1 DEF G!InStep, G!InSafePoint, G!Following, G!Holders
    <3> QED
      BY <2>11, <3>2, <3>3 DEF CountOver
  <2>12. CASE WaitDone(t)
    <3>1. G!InStep /\ G!InSafePoint
      BY DEF CombinedInv, G!IInv
    <3>2. ThreadState[t] = NOT_COLLECTING
      BY <2>2, <2>12, <3>1
      DEF WaitDone, G!InStep, G!InSafePoint, G!Following, G!Holders
    <3>3. Pred(ThreadState[t]) = RESTORING_SNAPSHOT
      BY <3>2 DEF Pred, Succ, NOT_COLLECTING, COLLECTING, RESTORING_SNAPSHOT
    <3>4. G!GateOpen(t) <=> GateOpen(t)
      BY <2>1, <3>3, PutBackCounts DEF GateOpen, G!GateOpen
    <3> QED
      BY <2>a, <2>12, <3>4
      DEF WaitDone, G!ThreadNext, G!WaitDone, Go, G!Go,
          wordVars, G!wordVars, collectorVars, G!collectorVars
  <2>13. CASE ExitThread(t)
    <3>1. ExitCounter(ThreadState[t]) \in Regime
      BY <2>5, <2>6 DEF ExitCounter
    <3> QED
      BY <2>1, <2>4, <2>13, <3>1
      DEF ExitThread, Miscounts, G!Miscounts, G!ThreadNext, G!ExitThread,
          ExitCounter, G!ExitCounter,
          Go, G!Go, collectorVars, G!collectorVars
  <2> QED
    BY <2>7, <2>8, <2>9, <2>10, <2>11, <2>12, <2>13 DEF OtherThread
<1> QED
  BY <1>1, <1>2 DEF CombinedInv, MainInv

(* What the combined thread does as the collector is a step of it too.     *)
LEMMA MapsCollecting ==
  ASSUME CombinedInv, Collecting
  PROVE  G!CollectorNext
<1>0. MainRelease \/ Raise \/ Quiesce \/ WorkDone
  BY DEF CombinedInv, MainInv, Collecting, MainReturns, Stop, HeedsExit
<1>1. mainCount = 0 /\ mainCount' = 0
  BY <1>0 DEF CombinedInv, MainInv, Collecting, MainRelease, MainReturns, Stop, Release,
         Raise, Quiesce, WorkDone, mainVars
<1>2. Others = threads /\ Others' = threads'
  BY <1>1 DEF Others
<1> QED
  BY <1>0, <1>2, SameOperators
  DEF MainRelease, G!CollectorNext, Raise, G!Raise, Quiesce, G!Quiesce,
      Release, G!Release, WorkDone, G!WorkDone, HeedsExit, G!HeedsExit,
      AllCountedOut, G!AllCountedOut,
      wordVars, G!wordVars, threadVars, G!threadVars

-----------------------------------------------------------------------------
(* A count between the width and twice the width wraps once.               *)
LEMMA ModOver ==
  ASSUME NEW n \in 0 .. CounterMod - 1
  PROVE  (n + (CounterMod - 1)) % CounterMod = IF n = 0 THEN CounterMod - 1 ELSE n - 1
<1>1. ASSUME NEW m \in Nat \ {0, 1}, NEW k \in 0 .. m - 1
      PROVE  (k + (m - 1)) % m = IF k = 0 THEN m - 1 ELSE k - 1
  BY <1>1, SMTT(30)
<1> QED
  BY <1>1, ConstantsAssumption

(* What is particular to the combined thread survives every step.          *)
LEMMA MainInvStep ==
  ASSUME CombinedInv, [CombinedNext]_combinedVars, Kept'
  PROVE  MainInv'
<1>0. /\ phase \in Phase /\ phase \in Regime /\ Succ(phase) \in Phase
      /\ Pred(phase) \in Regime
      /\ ThreadState \in [Threads -> Regime]
      /\ NOT_MUTATING \in Regime /\ NOT_MUTATING \notin Phase
      /\ MainInv
  <2>1. phase \in Phase /\ ThreadState \in [Threads -> Regime]
    BY SameOperators DEF CombinedInv, G!IInv, G!TypeOK
  <2> QED
    BY <2>1, SuccType
    DEF CombinedInv, Regime, Phase, NOT_MUTATING, NOT_COLLECTING, COLLECTING,
        RESTORING_SNAPSHOT
<1>1. CASE MainTrigger \/ MainLeaveNested \/ MainEnterNested \/ UNCHANGED combinedVars
  BY <1>0, <1>1
  DEF MainTrigger, MainLeaveNested, MainEnterNested, combinedVars, mainVars, vars,
      wordVars, collectorVars, MainInv
<1>2. CASE MainSafePoint
  BY <1>0, <1>2 DEF MainSafePoint, Miscounts, InProgram, MainInv, Kept
<1>7. CASE MainShutdown
  BY <1>7 DEF MainShutdown, Kept
<1>3. CASE MainLeave
  <2>1. threads' \in Counters
    BY <1>0, <1>3, CountersType DEF MainLeave, MainInv
  <2> QED
    BY <1>0, <1>3, <2>1 DEF MainLeave, InProgram, collectorVars, MainInv
<1>4. CASE MainEnter
  <2>1. threads' \in Counters
    BY <1>0, <1>4, CountersType DEF MainEnter, EnterCounts, MainInv
  <2> QED
    BY <1>0, <1>4, <2>1 DEF MainEnter, InProgram, collectorVars, Regime, MainInv
<1>5. CASE Collecting
  <2>0. MainRelease \/ ((Raise \/ Quiesce \/ WorkDone) /\ UNCHANGED mainVars)
    BY <1>0, <1>5 DEF MainInv, Collecting, MainReturns, Stop, HeedsExit
  <2>1. threads' \in Counters
    BY <1>0, <2>0, CountersType
    DEF MainRelease, Release, Raise, Quiesce, WorkDone, wordVars, MainInv
  <2> QED
    BY <1>0, <2>0, <2>1
    DEF MainRelease, Follows, Release, Raise, Quiesce, WorkDone,
        HeedsExit, wordVars, mainVars, MainInv
<1>6. ASSUME NEW t \in Threads, OtherThread(t) PROVE MainInv'
  <2>1. ThreadState[t] \in Regime /\ Succ(ThreadState[t]) \in Regime
    BY <1>0 DEF Succ, Regime, Phase
  <2>2. threads' \in Counters
    <3>1. threads \in Counters
      BY <1>0 DEF MainInv
    <3>2. CASE ClaimSlot(t) \/ EnterNested(t) \/ LeaveNested(t) \/ SafePoint(t)
               \/ WaitDone(t) \/ ReleaseSlot(t)
      BY <3>1, <3>2
      DEF ClaimSlot, EnterNested, LeaveNested, SafePoint, WaitDone, ReleaseSlot, wordVars
    <3>3. CASE EnterMutation(t) \/ LeaveMutation(t)
      BY <1>0, <3>1, <3>3, CountersType DEF EnterMutation, LeaveMutation
    <3>4. CASE CountOver(t)
      BY <2>1, <3>1, <3>4, CountersType DEF CountOver
    <3>5. CASE ExitThread(t)
      BY <1>0, <2>1, <3>1, <3>5, CountersType DEF ExitThread, ExitCounter
    <3> QED
      BY <1>6, <3>2, <3>3, <3>4, <3>5 DEF OtherThread
  <2>3. UNCHANGED <<phase, cpc, exit_program_flag>>
    <3>1. CASE ClaimSlot(t) \/ EnterNested(t) \/ LeaveNested(t) \/ SafePoint(t)
               \/ WaitDone(t) \/ ReleaseSlot(t)
      BY <3>1
      DEF ClaimSlot, EnterNested, LeaveNested, SafePoint, WaitDone, ReleaseSlot,
          wordVars, collectorVars
    <3>2. CASE EnterMutation(t) \/ LeaveMutation(t) \/ ExitThread(t)
      BY <3>2 DEF EnterMutation, LeaveMutation, ExitThread, collectorVars
    <3>3. CASE CountOver(t)
      BY <3>3 DEF CountOver, collectorVars
    <3> QED
      BY <1>6, <3>1, <3>2, <3>3 DEF OtherThread
  <2>4. UNCHANGED <<mainState, mainCount>>
    BY <1>6 DEF OtherThread, mainVars
  <2> QED
    BY <1>0, <2>2, <2>3, <2>4 DEF MainInv
<1> QED
  BY <1>1, <1>2, <1>3, <1>4, <1>5, <1>6, <1>7 DEF CombinedNext

(* The inductive invariant of GCPhases survives every step of the mode.    *)
LEMMA ProtocolStep ==
  ASSUME CombinedInv, [CombinedNext]_combinedVars, Kept'
  PROVE  G!IInv'
<1>0. G!IInv /\ ~miscounted'
  BY DEF CombinedInv, Kept
<1>1. CASE UNCHANGED G!vars
  BY <1>0, <1>1, SameAssumption, G!InvariantStep
<1>2. CASE MainTrigger \/ MainLeaveNested \/ MainEnterNested \/ UNCHANGED combinedVars
  <2>1. UNCHANGED vars /\ (mainCount' = 0 <=> mainCount = 0)
    BY <1>2
    DEF MainTrigger, MainLeaveNested, MainEnterNested, combinedVars, mainVars,
        CombinedInv, MainInv
  <2>2. Others' = Others
    BY <2>1 DEF Others, PutBack, Inc, Dec, vars, wordVars
  <2> QED
    BY <1>1, <2>1, <2>2
    DEF vars, wordVars, threadVars, collectorVars, G!vars, G!wordVars, G!threadVars,
        G!collectorVars
<1>3. CASE MainLeave \/ MainEnter
  <2>1. threads \in Counters /\ phase = NOT_COLLECTING
    BY <1>3 DEF CombinedInv, MainInv, MainLeave, MainEnter, InProgram
  <2>2. Others' = Others
    <3>1. CASE MainLeave
      <4>1. PutBack(threads') = threads
        BY <2>1, <3>1, PutBackCounts DEF MainLeave
      <4>2. mainCount = 0 /\ mainCount' = 1
        BY <3>1 DEF MainLeave
      <4> QED
        BY <4>1, <4>2 DEF Others
    <3>2. CASE MainEnter
      BY <2>1, <3>2 DEF MainEnter, EnterCounts, Others, PutBack
    <3> QED
      BY <1>3, <3>1, <3>2
  <2> QED
    BY <1>1, <1>3, <2>2
    DEF MainLeave, MainEnter, threadVars, collectorVars, G!vars, G!wordVars,
        G!threadVars, G!collectorVars
<1>4. CASE MainSafePoint
  <2>1. mainCount = 0 /\ UNCHANGED <<threads, mainCount>>
    BY <1>0, <1>4 DEF MainSafePoint, Miscounts, CombinedInv, MainInv
  <2>2. Others' = Others
    BY <2>1 DEF Others
  <2>3. /\ cpc = "loop" /\ cpc' = "raise"
        /\ UNCHANGED <<phase, ThreadState, NotMutatingCount, pc, ActiveIndex, released,
                       exit_program_flag, StartCollectionEvent>>
        /\ miscounted' = FALSE
    BY <1>0, <1>4 DEF MainSafePoint, Miscounts, InProgram, threadVars, CombinedInv,
                      MainInv
  <2>4. G!TypeOK'
    BY <1>0, <2>2, <2>3 DEF G!IInv, G!TypeOK, G!CollectorPC
  <2>5. G!HoldingSlots' = G!HoldingSlots /\ \A p : G!Counted(p)' = G!Counted(p)
    BY <2>3 DEF G!HoldingSlots, G!Counted, G!Holders
  <2>6. G!SlotsBound' /\ G!WordCounts'
    BY <1>0, <2>2, <2>3, <2>5
    DEF G!IInv, G!SlotsBound, G!WordCounts, G!Hold, G!Pred, G!Succ
  <2>7. G!OneBehind' /\ G!InStep' /\ G!InSafePoint' /\ G!Holding' /\ G!Gated'
    BY <1>0, <2>3
    DEF G!IInv, G!Holders, G!Pred, G!Succ, G!OneBehind, G!InStep, G!InSafePoint,
        G!Holding, G!Gated, G!Following, G!Running
  <2> QED
    BY <2>4, <2>6, <2>7 DEF G!IInv
<1>5. CASE Collecting
  BY <1>0, <1>5, MapsCollecting, SameAssumption, G!InvariantStep DEF G!Next
<1>6. ASSUME NEW t \in Threads, OtherThread(t) PROVE G!IInv'
  BY <1>0, <1>6, MapsThread, SameAssumption, G!InvariantStep DEF G!Next
<1>7. CASE MainShutdown
  BY <1>7 DEF MainShutdown, Kept
<1> QED
  BY <1>2, <1>3, <1>4, <1>5, <1>6, <1>7 DEF CombinedNext

(* Neither a miscount nor the beginning of the shutdown is taken back.     *)
LEMMA KeptBefore ==
  ASSUME [CombinedNext]_combinedVars, Kept'
  PROVE  Kept
<1> SUFFICES /\ miscounted => miscounted'
             /\ exit_program_flag => exit_program_flag'
  BY DEF Kept
<1>1. CASE UNCHANGED combinedVars
  BY <1>1 DEF combinedVars, vars, wordVars
<1>2. CASE MainTrigger \/ MainLeave \/ MainEnter \/ MainLeaveNested \/ MainEnterNested
  <2>1. UNCHANGED <<miscounted, exit_program_flag>>
    BY <1>2
    DEF MainTrigger, MainLeave, MainEnter, MainLeaveNested, MainEnterNested, vars,
        wordVars
  <2> QED
    BY <2>1
<1>3. CASE MainSafePoint
  BY <1>3, Zenon DEF MainSafePoint, Miscounts
<1>4. CASE MainShutdown
  <2>1. exit_program_flag' /\ UNCHANGED miscounted
    BY <1>4 DEF MainShutdown, wordVars
  <2> QED
    BY <2>1
<1>5. CASE Collecting
  <2>1. UNCHANGED <<miscounted, exit_program_flag>>
    BY <1>5
    DEF Collecting, MainRelease, MainReturns, Release, Raise, Quiesce, WorkDone, Stop,
        wordVars
  <2> QED
    BY <2>1
<1>6. ASSUME NEW t \in Threads, OtherThread(t)
      PROVE  /\ miscounted => miscounted'
             /\ exit_program_flag => exit_program_flag'
  <2>1. CASE ClaimSlot(t) \/ LeaveMutation(t) \/ ExitThread(t)
    <3>1. UNCHANGED exit_program_flag
      BY <2>1 DEF ClaimSlot, LeaveMutation, ExitThread
    <3>2. miscounted => miscounted'
      BY <2>1, Zenon DEF ClaimSlot, LeaveMutation, ExitThread, Miscounts
    <3> QED
      BY <3>1, <3>2
  <2>2. CASE EnterMutation(t) \/ EnterNested(t) \/ LeaveNested(t) \/ SafePoint(t)
             \/ CountOver(t) \/ WaitDone(t) \/ ReleaseSlot(t)
    <3>1. UNCHANGED <<miscounted, exit_program_flag>>
      BY <2>2
      DEF EnterMutation, EnterNested, LeaveNested, SafePoint, CountOver, WaitDone,
          ReleaseSlot, wordVars
    <3> QED
      BY <3>1
  <2> QED
    BY <1>6, <2>1, <2>2 DEF OtherThread
<1> QED
  BY <1>1, <1>2, <1>3, <1>4, <1>5, <1>6 DEF CombinedNext

(* The mode starts as GCPhases does, and keeps its invariant.              *)
LEMMA CombinedInvariance == CombinedSpec => []KeptInv
<1>1. CombinedInit => KeptInv
  <2> SUFFICES ASSUME CombinedInit PROVE CombinedInv
    BY DEF KeptInv
  <2>1. Others = threads
    BY DEF CombinedInit, Others
  <2>2. G!Init
    BY <2>1, SameOperators DEF CombinedInit, Init, G!Init
  <2>3. MainInv
    BY ConstantsAssumption
    DEF CombinedInit, Init, MainInv, Counters, Regime, Phase, NOT_MUTATING,
        NOT_COLLECTING, COLLECTING, RESTORING_SNAPSHOT
  <2> QED
    BY <2>2, <2>3, SameAssumption, G!InvariantInit DEF CombinedInv
<1>2. KeptInv /\ [CombinedNext]_combinedVars => KeptInv'
  BY KeptBefore, MainInvStep, ProtocolStep DEF KeptInv, CombinedInv
<1> QED
  BY <1>1, <1>2, PTL DEF CombinedSpec

-----------------------------------------------------------------------------
(* The word counts exactly the other threads, whatever they do while the   *)
(* combined thread opts out and in, for any number of threads, slots and   *)
(* counter values (init_thread, thread_leave_mutation,                     *)
(* thread_enter_mutation with combine_thread), until one of them makes it  *)
(* lose count, the combined thread collects while it has opted out, or the *)
(* program shuts down.                                                     *)
THEOREM CombinedCountsCorrect == CombinedSpec => []CombinedCounts
<1>1. KeptInv => CombinedCounts
  <2> SUFFICES ASSUME CombinedInv, NEW p \in Regime
               PROVE  threads[p] = (Cardinality(Counted(p)) + Hold(p) + MainCount(p))
                                     % CounterMod
    BY DEF KeptInv, CombinedCounts
  <2> DEFINE n == Cardinality(Counted(p)) + Hold(p)
  <2>1. Others[p] = n % CounterMod
    BY SameOperators, SameCardinality
    DEF CombinedInv, G!IInv, G!WordCounts, G!Counted, Counted, G!Holders, Holders,
        G!Hold, Hold
  <2>2. Cardinality(Counted(p)) \in 0 .. CounterMod - 1
    <3>1. SlotsBound
      BY SameCardinality
      DEF CombinedInv, G!IInv, G!SlotsBound, SlotsBound, G!HoldingSlots, HoldingSlots
    <3> QED
      BY <3>1, CountedBound
  <2>3. n \in 0 .. CounterMod
    BY <2>2, HoldType, ConstantsAssumption
  <2>4. CASE mainCount = 0
    BY <2>1, <2>3, <2>4, ConstantsAssumption DEF Others, MainCount
  <2>5. CASE mainCount # 0
    <3>1. released /\ threads \in Counters
      BY <2>5 DEF CombinedInv, MainInv, G!IInv, G!Holding
    <3>2. n \in 0 .. CounterMod - 1
      BY <2>2, <3>1, ConstantsAssumption DEF Hold
    <3>3. n % CounterMod = n
      BY <3>2, ModUpTo, ConstantsAssumption
    <3>4. PutBack(threads)[p] = n
      BY <2>1, <2>5, <3>3 DEF Others
    <3>5. threads[p] \in 0 .. CounterMod - 1
      BY <3>1 DEF Counters
    <3> HIDE DEF n
    <3>6. CASE p = NOT_COLLECTING
      <4>1. IF n = 0 THEN threads[p] = CounterMod - 1 ELSE threads[p] = n - 1
        BY <3>1, <3>2, <3>4, <3>5, <3>6, ConstantsAssumption
        DEF PutBack, Inc, Dec, Counters, NOT_COLLECTING, NOT_MUTATING
      <4>2. MainCount(p) = CounterMod - 1
        BY <2>5, <3>6 DEF MainCount
      <4>3. (n + (CounterMod - 1)) % CounterMod = threads[p]
        BY <3>2, <4>1, ModOver
      <4> QED
        BY <4>2, <4>3 DEF n
    <3>7. CASE p = NOT_MUTATING
      <4>1. IF n = CounterMod - 1 THEN threads[p] = 0 ELSE threads[p] = n + 1
        BY <3>1, <3>2, <3>4, <3>5, <3>7, ConstantsAssumption
        DEF PutBack, Inc, Dec, Counters, NOT_COLLECTING, NOT_MUTATING
      <4>2. MainCount(p) = 1
        BY <2>5, <3>7 DEF MainCount, NOT_COLLECTING, NOT_MUTATING
      <4>3. n + 1 \in 0 .. CounterMod
        BY <3>2, ConstantsAssumption
      <4>4. (n + 1) % CounterMod = IF n + 1 = CounterMod THEN 0 ELSE n + 1
        BY <4>3, ModUpTo, ConstantsAssumption
      <4>5. (n + 1) % CounterMod = threads[p]
        BY <3>2, <4>1, <4>4, ConstantsAssumption
      <4> QED
        BY <4>2, <4>5 DEF n
    <3>8. CASE p \notin {NOT_COLLECTING, NOT_MUTATING}
      <4>1. threads[p] = n
        BY <3>1, <3>4, <3>8 DEF PutBack, Inc, Dec, Counters
      <4>2. MainCount(p) = 0
        BY <3>8 DEF MainCount
      <4> QED
        BY <3>2, <3>3, <4>1, <4>2 DEF n
    <3> QED
      BY <3>6, <3>7, <3>8
  <2> QED
    BY <2>4, <2>5
<1> QED
  BY <1>1, CombinedInvariance, PTL

(* Back in the program, the combined thread and all that run act under the *)
(* same phase (safe_point with combine_thread, one_collect), under the     *)
(* same conditions.                                                        *)
THEOREM CombinedInStep == CombinedSpec => []MainInStep
<1>1. KeptInv => MainInStep
  <2> SUFFICES ASSUME CombinedInv, cpc = "loop", mainState # NOT_MUTATING
               PROVE  /\ mainState = phase
                      /\ \A t \in Threads : Running(t) => ThreadState[t] = phase
    BY DEF KeptInv, MainInStep, InProgram
  <2>1. mainState = phase
    BY DEF CombinedInv, MainInv
  <2>2. G!InStep
    BY DEF CombinedInv, G!IInv
  <2> QED
    BY <2>1, <2>2, SameOperators DEF G!InStep, G!Following, G!Holders, Running
<1> QED
  BY <1>1, CombinedInvariance, PTL
=============================================================================
