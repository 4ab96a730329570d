--------------------------- MODULE GCPhasesProofs ---------------------------
(***************************************************************************)
(* Proofs about GCPhases, for any finite set of threads, any number of     *)
(* slots and any counter width: its types, that the counters of State      *)
(* count the threads until a step that makes them lose count, from that    *)
(* the safety of the borders, and that it implements Handshake.            *)
(***************************************************************************)
EXTENDS GCPhases, FiniteSetTheorems, TLAPS

(* What the four counters of State can hold.                               *)
Counters == [Regime -> 0 .. CounterMod - 1]

(* The three phases follow each other round: the successor and the         *)
(* predecessor of a phase are the two other phases.                        *)
LEMMA SuccType ==
  ASSUME NEW p \in Phase
  PROVE  /\ Succ(p) \in Phase /\ Pred(p) \in Phase
         /\ Succ(p) # p /\ Pred(p) # p /\ Succ(p) # Pred(p)
         /\ Pred(Succ(p)) = p /\ Succ(Pred(p)) = p
  BY DEF Phase, Pred, Succ, NOT_COLLECTING, COLLECTING, RESTORING_SNAPSHOT

(* The wrapping increment and decrement of a counter keep the word a word  *)
(* of eight-bit counters.                                                  *)
LEMMA CountersType ==
  ASSUME NEW f \in Counters, NEW p \in Regime
  PROVE  Inc(f, p) \in Counters /\ Dec(f, p) \in Counters
  BY ConstantsAssumption DEF Counters, Inc, Dec

(* The initial state is typed.                                             *)
LEMMA TypeInit ==
  ASSUME Init
  PROVE  TypeOK
<1> USE ConstantsAssumption DEF Init
<1>1. phase \in Phase /\ NOT_MUTATING \in Regime
  BY DEF Phase, Regime
<1>2. threads \in [Regime -> 0 .. CounterMod - 1]
  BY SMT
<1>3. NotMutatingCount \in [Threads -> 0 .. MaxNest]
  BY SMT
<1> QED
  BY <1>1, <1>2, <1>3 DEF TypeOK, ThreadPC, CollectorPC

(* Every step keeps the types, whatever the program does with the library. *)
LEMMA TypeStep ==
  ASSUME TypeOK, [Next]_vars
  PROVE  TypeOK'
<1> USE ConstantsAssumption
<1>0. /\ Phase \subseteq Regime /\ NOT_MUTATING \in Regime
      /\ NOT_COLLECTING \in Phase /\ COLLECTING \in Phase
  BY DEF Regime, Phase
<1>1. CASE CollectLoop
  BY <1>1 DEF CollectLoop, TypeOK, CollectorPC, wordVars, threadVars
<1>2. CASE WakeUp
  BY <1>2 DEF WakeUp, TypeOK, CollectorPC, wordVars, threadVars
<1>3. CASE Stop
  BY <1>3 DEF Stop, TypeOK, CollectorPC, wordVars, threadVars
<1>4. CASE Raise
  BY <1>4, <1>0, SuccType, CountersType
  DEF Raise, TypeOK, CollectorPC, threadVars, Counters
<1>5. CASE Quiesce
  BY <1>5 DEF Quiesce, TypeOK, CollectorPC, wordVars, threadVars
<1>6. CASE Release
  BY <1>6, <1>0, SuccType, CountersType
  DEF Release, TypeOK, CollectorPC, threadVars, Counters
<1>7. CASE WorkDone
  BY <1>7 DEF WorkDone, TypeOK, CollectorPC, wordVars, threadVars
<1>8. ASSUME NEW t \in Threads, ThreadNext(t) PROVE TypeOK'
  <2>1. CASE ClaimSlot(t)
    BY <2>1 DEF ClaimSlot, Miscounts, TypeOK, Go, ThreadPC, collectorVars
  <2>2. CASE EnterMutation(t)
    <3>1. threads' \in Counters
      BY <2>2, <1>0, CountersType DEF EnterMutation, TypeOK, Counters
    <3>2. ThreadState' \in [Threads -> Regime]
      BY <2>2, <1>0 DEF EnterMutation, TypeOK
    <3>3. NotMutatingCount' \in [Threads -> 0 .. MaxNest]
      BY <2>2 DEF EnterMutation, TypeOK
    <3> QED
      BY <2>2, <3>1, <3>2, <3>3
      DEF EnterMutation, TypeOK, Go, ThreadPC, collectorVars, Counters
  <2>3. CASE EnterNested(t)
    BY <2>3 DEF EnterNested, TypeOK, wordVars, collectorVars
  <2>4. CASE LeaveMutation(t)
    <3>1. threads' \in Counters
      BY <2>4, <1>0, CountersType DEF LeaveMutation, TypeOK, Counters
    <3>2. ThreadState' \in [Threads -> Regime]
      BY <2>4, <1>0 DEF LeaveMutation, TypeOK
    <3>3. NotMutatingCount' \in [Threads -> 0 .. MaxNest]
      BY <2>4 DEF LeaveMutation, TypeOK
    <3> QED
      BY <2>4, <3>1, <3>2, <3>3
      DEF LeaveMutation, Miscounts, TypeOK, collectorVars, Counters
  <2>5. CASE LeaveNested(t)
    BY <2>5 DEF LeaveNested, TypeOK, wordVars, collectorVars
  <2>6. CASE SafePoint(t)
    BY <2>6 DEF SafePoint, TypeOK, Go, ThreadPC, wordVars, collectorVars
  <2>7. CASE CountOver(t)
    <3>1. Succ(ThreadState[t]) \in Regime
      BY SuccType DEF Succ, Regime, Phase
    <3>2. threads' \in Counters
      <4>1. CASE GivesUp(t)
        BY <2>7, <4>1 DEF CountOver, TypeOK, Counters
      <4>2. CASE ~GivesUp(t)
        <5>1. ThreadState[t] \in Regime /\ threads \in Counters
          BY DEF TypeOK, Counters
        <5> QED
          BY <2>7, <4>2, <5>1, <3>1, CountersType DEF CountOver
      <4> QED
        BY <4>1, <4>2
    <3>3. ThreadState' \in [Threads -> Regime]
      BY <2>7, <3>1 DEF CountOver, TypeOK
    <3>4. pc' \in [Threads -> ThreadPC]
      BY <2>7 DEF CountOver, TypeOK, Go, ThreadPC
    <3> QED
      BY <2>7, <3>2, <3>3, <3>4
      DEF CountOver, TypeOK, collectorVars, Counters
  <2>8. CASE WaitDone(t)
    BY <2>8 DEF WaitDone, TypeOK, Go, ThreadPC, wordVars, collectorVars
  <2>9. CASE ExitThread(t)
    BY <2>9, <1>0, CountersType
    DEF ExitThread, Miscounts, TypeOK, Go, ThreadPC, collectorVars, Counters, ExitCounter
  <2>10. CASE ReleaseSlot(t)
    BY <2>10 DEF ReleaseSlot, TypeOK, Go, ThreadPC, wordVars, collectorVars
  <2>11. CASE Trigger(t)
    BY <2>11 DEF Trigger, TypeOK, wordVars, threadVars, collectorVars
  <2>12. CASE Shutdown(t)
    BY <2>12 DEF Shutdown, TypeOK, Go, ThreadPC, wordVars, collectorVars
  <2>13. CASE SignalExit(t)
    BY <2>13 DEF SignalExit, TypeOK, Go, ThreadPC, wordVars, collectorVars
  <2>14. CASE Joined(t)
    BY <2>14 DEF Joined, TypeOK, Go, ThreadPC, wordVars, collectorVars
  <2> QED
    BY <1>8, <2>1, <2>2, <2>3, <2>4, <2>5, <2>6, <2>7, <2>8, <2>9, <2>10,
       <2>11, <2>12, <2>13, <2>14 DEF ThreadNext
<1>9. CASE UNCHANGED vars
  BY <1>9 DEF vars, wordVars, threadVars, collectorVars, TypeOK
<1> QED
  BY <1>1, <1>2, <1>3, <1>4, <1>5, <1>6, <1>7, <1>8, <1>9
  DEF Next, CollectorNext

(* Every variable keeps its type: in particular no counter of State ever   *)
(* leaves its eight bits, whatever the program does.                       *)
THEOREM TypeCorrect == Spec => []TypeOK
<1>1. Init => TypeOK
  BY TypeInit
<1>2. TypeOK /\ [Next]_vars => TypeOK'
  BY TypeStep
<1> QED
  BY <1>1, <1>2, PTL DEF Spec

-----------------------------------------------------------------------------
(* The inductive invariant.                                                *)

(* A mutator of some phase.                                                *)
Following(t) == pc[t] \in Holders /\ ThreadState[t] # NOT_MUTATING

(* Fewer threads hold slots than a counter has values.                     *)
SlotsBound == Cardinality(HoldingSlots) < CounterMod

(* A mutator is in the announced phase or in the one before it.            *)
OneBehind == \A t \in Threads : Following(t) => ThreadState[t] \in {phase, Pred(phase)}

(* It lags behind only while the collector waits for it.                   *)
InStep == cpc \notin {"quiesce", "stopped"} =>
            \A t \in Threads : Following(t) => ThreadState[t] = phase

(* A thread in safe_point or in a spin loop is mutating, and one that is   *)
(* about to count itself over still is in the old phase.                   *)
InSafePoint ==
  \A t \in Threads :
    /\ pc[t] \in {"count", "wait"} => ThreadState[t] # NOT_MUTATING
    /\ pc[t] = "count" => ThreadState[t] = Pred(phase)

(* The collector holds the old phase exactly from raising a border to its  *)
(* release.                                                                *)
Holding ==
  /\ cpc \in {"quiesce", "release"} => ~released
  /\ cpc \in {"loop", "wait_event", "raise", "work"} => released
  /\ cpc = "stopped" => exit_program_flag

(* No thread runs in the new phase before the collector has let go.        *)
Gated == ~exit_program_flag =>
           \A t \in Threads : Running(t) /\ ThreadState[t] = phase => released

(* WordCounts alone is not inductive: that a spin loop which reads         *)
(* zero, or a collector that reads one, has really seen everybody depends  *)
(* on where the threads are (OneBehind, InStep, InSafePoint), on whether   *)
(* the collector is counted (Holding), and on the count never having       *)
(* wrapped (SlotsBound).                                                   *)
IInv == /\ TypeOK /\ SlotsBound /\ WordCounts /\ OneBehind /\ InStep
        /\ InSafePoint /\ Holding /\ Gated
-----------------------------------------------------------------------------
(* Counting modulo the counter width.  With fewer slots than counter       *)
(* values the true count never exceeds the width itself.                   *)
LEMMA ModUpTo ==
  ASSUME NEW m \in Nat \ {0, 1}, NEW n \in 0 .. m
  PROVE  n % m = IF n = m THEN 0 ELSE n
<1>1. CASE n = m
  BY <1>1, SMTT(20)
<1>2. CASE n < m
  BY <1>2, SMTT(20)
<1> QED
  BY <1>1, <1>2

(* A counter that agrees with a true count n goes on agreeing when both    *)
(* grow by one, as long as n had not reached the width.                    *)
LEMMA IncCounts ==
  ASSUME NEW f \in Counters, NEW p \in Regime, NEW n \in 0 .. CounterMod - 1,
         f[p] = n % CounterMod
  PROVE  /\ Inc(f, p)[p] = (n + 1) % CounterMod
         /\ \A q \in Regime \ {p} : Inc(f, p)[q] = f[q]
<1>0. \A k \in 0 .. CounterMod : k % CounterMod = IF k = CounterMod THEN 0 ELSE k
  BY ModUpTo, ConstantsAssumption
<1>1. n % CounterMod = n
  BY <1>0, ConstantsAssumption
<1>2. (n + 1) % CounterMod = IF n + 1 = CounterMod THEN 0 ELSE n + 1
  <2>1. n + 1 \in 0 .. CounterMod
    BY ConstantsAssumption
  <2> QED
    BY <1>0, <2>1
<1> QED
  BY <1>1, <1>2, ConstantsAssumption DEF Inc, Counters

(* The same for the wrapping decrement.                                    *)
LEMMA DecCounts ==
  ASSUME NEW f \in Counters, NEW p \in Regime, NEW n \in 1 .. CounterMod,
         f[p] = n % CounterMod
  PROVE  /\ Dec(f, p)[p] = (n - 1) % CounterMod
         /\ \A q \in Regime \ {p} : Dec(f, p)[q] = f[q]
<1>0. \A k \in 0 .. CounterMod : k % CounterMod = IF k = CounterMod THEN 0 ELSE k
  BY ModUpTo, ConstantsAssumption
<1>1. (n - 1) % CounterMod = n - 1
  <2>1. n - 1 \in 0 .. CounterMod /\ n - 1 # CounterMod
    BY ConstantsAssumption
  <2> QED
    BY <1>0, <2>1
<1>2. n % CounterMod = IF n = CounterMod THEN 0 ELSE n
  BY <1>0, ConstantsAssumption
<1> QED
  BY <1>1, <1>2, ConstantsAssumption DEF Dec, Counters

(* No more threads can be counted under one phase than hold slots, hence   *)
(* than there are slots.                                                   *)
LEMMA CountedBound ==
  ASSUME SlotsBound
  PROVE  /\ IsFiniteSet(HoldingSlots)
         /\ \A p : /\ IsFiniteSet(Counted(p))
                  /\ Cardinality(Counted(p)) \in 0 .. CounterMod - 1
<1>1. IsFiniteSet(HoldingSlots)
  BY FS_Subset, ConstantsAssumption DEF HoldingSlots
<1>2. ASSUME NEW p
      PROVE  /\ IsFiniteSet(Counted(p))
             /\ Cardinality(Counted(p)) \in 0 .. CounterMod - 1
  <2>1. Counted(p) \subseteq HoldingSlots
    BY DEF Counted, Holders, HoldingSlots
  <2>2. /\ IsFiniteSet(Counted(p))
        /\ Cardinality(Counted(p)) <= Cardinality(HoldingSlots)
    BY <1>1, <2>1, FS_Subset
  <2>3. Cardinality(Counted(p)) \in Nat /\ Cardinality(HoldingSlots) \in Nat
    BY <1>1, <2>2, FS_CardinalityType
  <2> QED
    BY <2>2, <2>3, ConstantsAssumption DEF SlotsBound
<1> QED
  BY <1>1, <1>2

(* One thread moves: how the number counted under p changes.               *)
LEMMA Recount ==
  ASSUME NEW t \in Threads, NEW p, SlotsBound,
         \A u \in Threads \ {t} : /\ pc'[u] = pc[u]
                                  /\ ThreadState'[u] = ThreadState[u]
  PROVE  Cardinality(Counted(p)') =
           IF (t \in Counted(p)) = (t \in Counted(p)')
           THEN Cardinality(Counted(p))
           ELSE IF t \in Counted(p)' THEN Cardinality(Counted(p)) + 1
           ELSE Cardinality(Counted(p)) - 1
<1>1. CASE t \in Counted(p) /\ t \notin Counted(p)'
  <2>1. Counted(p)' = Counted(p) \ {t}
    BY <1>1 DEF Counted
  <2> QED
    BY <1>1, <2>1, FS_RemoveElement, CountedBound
<1>2. CASE t \notin Counted(p) /\ t \in Counted(p)'
  <2>1. Counted(p)' = Counted(p) \cup {t}
    BY <1>2 DEF Counted
  <2> QED
    BY <1>2, <2>1, FS_AddElement, CountedBound
<1>3. CASE (t \in Counted(p)) = (t \in Counted(p)')
  <2>1. Counted(p)' = Counted(p)
    BY <1>3 DEF Counted
  <2> QED
    BY <1>3, <2>1
<1> QED
  BY <1>1, <1>2, <1>3

(* A registered thread is one of those counted under p, or else leaves     *)
(* room there for one more.                                                *)
LEMMA CountedBelow ==
  ASSUME NEW t \in HoldingSlots, NEW p, SlotsBound
  PROVE  Cardinality(Counted(p)) \in IF t \in Counted(p)
                                     THEN 1 .. CounterMod - 1
                                     ELSE 0 .. CounterMod - 2
<1>1. Cardinality(Counted(p)) \in 0 .. CounterMod - 1
  BY CountedBound
<1>2. CASE t \in Counted(p)
  <2>1. Cardinality(Counted(p)) # 0
    BY <1>2, CountedBound, FS_EmptySet
  <2> QED
    BY <1>1, <1>2, <2>1, ConstantsAssumption
<1>3. CASE t \notin Counted(p)
  <2>1. Counted(p) \subseteq HoldingSlots \ {t}
    BY <1>3 DEF Counted, Holders, HoldingSlots
  <2>2. /\ IsFiniteSet(HoldingSlots \ {t})
        /\ Cardinality(HoldingSlots \ {t}) = Cardinality(HoldingSlots) - 1
    BY CountedBound, FS_RemoveElement
  <2>3. Cardinality(Counted(p)) <= Cardinality(HoldingSlots) - 1
    BY <2>1, <2>2, FS_Subset
  <2>4. Cardinality(HoldingSlots) \in Nat
    BY CountedBound, FS_CardinalityType
  <2> QED
    BY <1>1, <1>3, <2>3, <2>4, ConstantsAssumption DEF SlotsBound
<1> QED
  BY <1>2, <1>3

(* The collector holds a phase once or not at all.                         *)
LEMMA HoldType ==
  ASSUME NEW p
  PROVE  Hold(p) \in 0 .. 1
  BY DEF Hold

(* Counting a thread out of p, and into p, in a word f that agrees with    *)
(* State about p.                                                          *)
LEMMA CountOut ==
  ASSUME SlotsBound, WordCounts,
         NEW p \in Regime, NEW t \in HoldingSlots, t \in Counted(p),
         NEW f \in Counters, f[p] = threads[p]
  PROVE  /\ Dec(f, p)[p] = (Cardinality(Counted(p)) - 1 + Hold(p)) % CounterMod
         /\ \A q \in Regime \ {p} : Dec(f, p)[q] = f[q]
<1> DEFINE n == Cardinality(Counted(p)) + Hold(p)
<1>1. n \in 1 .. CounterMod
  BY CountedBelow, HoldType, ConstantsAssumption
<1>2. f[p] = n % CounterMod
  BY DEF WordCounts
<1>3. n - 1 = Cardinality(Counted(p)) - 1 + Hold(p)
  BY CountedBelow, HoldType, ConstantsAssumption
<1> HIDE DEF n
<1>4. /\ Dec(f, p)[p] = (n - 1) % CounterMod
      /\ \A q \in Regime \ {p} : Dec(f, p)[q] = f[q]
  BY <1>1, <1>2, DecCounts
<1> QED
  BY <1>3, <1>4

(* The same for counting a thread into p.                                  *)
LEMMA CountIn ==
  ASSUME SlotsBound, WordCounts,
         NEW p \in Regime, NEW t \in HoldingSlots, t \notin Counted(p),
         NEW f \in Counters, f[p] = threads[p]
  PROVE  /\ Inc(f, p)[p] = (Cardinality(Counted(p)) + 1 + Hold(p)) % CounterMod
         /\ \A q \in Regime \ {p} : Inc(f, p)[q] = f[q]
<1> DEFINE n == Cardinality(Counted(p)) + Hold(p)
<1>1. n \in 0 .. CounterMod - 1
  BY CountedBelow, HoldType, ConstantsAssumption
<1>2. f[p] = n % CounterMod
  BY DEF WordCounts
<1>3. n + 1 = Cardinality(Counted(p)) + 1 + Hold(p)
  BY CountedBelow, HoldType, ConstantsAssumption
<1> HIDE DEF n
<1>4. /\ Inc(f, p)[p] = (n + 1) % CounterMod
      /\ \A q \in Regime \ {p} : Inc(f, p)[q] = f[q]
  BY <1>1, <1>2, IncCounts
<1> QED
  BY <1>3, <1>4

-----------------------------------------------------------------------------
(* The step in which as many threads come to hold slots as a counter has   *)
(* values is a miscount; every other step keeps fewer.                     *)
LEMMA SlotsBoundStep ==
  ASSUME TypeOK, SlotsBound, [Next]_vars, ~miscounted'
  PROVE  SlotsBound'
<1>1. CASE \E t \in Threads : ClaimSlot(t)
  <2>1. PICK t \in Threads : ClaimSlot(t)
    BY <1>1
  <2>2. HoldingSlots' = HoldingSlots \cup {t}
    BY <2>1 DEF ClaimSlot, Go, HoldingSlots, TypeOK
  <2>3. ~(Cardinality(HoldingSlots) + 1 >= CounterMod)
    BY <2>1 DEF ClaimSlot, Miscounts
  <2> HIDE DEF HoldingSlots
  <2>a. IsFiniteSet(HoldingSlots)
    BY CountedBound
  <2>4. Cardinality(HoldingSlots) \in Nat
    BY <2>a, FS_CardinalityType
  <2>b. /\ IsFiniteSet(HoldingSlots \cup {t})
        /\ Cardinality(HoldingSlots \cup {t}) =
             IF t \in HoldingSlots THEN Cardinality(HoldingSlots) ELSE Cardinality(HoldingSlots) + 1
    BY <2>a, FS_AddElement
  <2>5. Cardinality(HoldingSlots') <= Cardinality(HoldingSlots) + 1
    BY <2>2, <2>4, <2>b
  <2>6. Cardinality(HoldingSlots') \in Nat
    BY <2>2, <2>4, <2>b
  <2> QED
    BY <2>3, <2>4, <2>5, <2>6, ConstantsAssumption DEF SlotsBound
<1>2. CASE ~\E t \in Threads : ClaimSlot(t)
  <2>1. HoldingSlots' \subseteq HoldingSlots
    <3>1. CASE CollectorNext \/ UNCHANGED vars
      BY <3>1
      DEF CollectorNext, CollectLoop, WakeUp, Stop, Raise, Quiesce, Release,
          WorkDone, HoldingSlots, threadVars, vars
    <3>2. ASSUME NEW t \in Threads, ThreadNext(t), ~ClaimSlot(t)
          PROVE  HoldingSlots' \subseteq HoldingSlots
      BY <3>2
      DEF ThreadNext, EnterMutation, EnterNested, LeaveMutation, LeaveNested,
          SafePoint, CountOver, WaitDone, ExitThread, ReleaseSlot, Trigger,
          Shutdown, SignalExit, Joined, Go, HoldingSlots, threadVars, TypeOK
    <3> QED
      BY <3>1, <3>2, <1>2 DEF Next
  <2>2. Cardinality(HoldingSlots') <= Cardinality(HoldingSlots)
    BY <2>1, CountedBound, FS_Subset
  <2>3. Cardinality(HoldingSlots') \in Nat /\ Cardinality(HoldingSlots) \in Nat
    BY <2>1, CountedBound, FS_Subset, FS_CardinalityType
  <2> QED
    BY <2>2, <2>3, ConstantsAssumption DEF SlotsBound
<1> QED
  BY <1>1, <1>2

(* Every step leaves the counters equal to the numbers of threads: a       *)
(* compare-and-swap that counts a thread out of one phase and into another *)
(* goes with the change of its ThreadState.                                *)
LEMMA CountersStep ==
  ASSUME IInv, TypeOK', [Next]_vars, ~miscounted'
  PROVE  WordCounts'
<1> USE DEF IInv
<1>0. /\ threads \in Counters /\ phase \in Phase /\ Phase \subseteq Regime
      /\ NOT_MUTATING \in Regime \ Phase
  BY DEF TypeOK, Counters, Regime, Phase, NOT_MUTATING, NOT_COLLECTING,
         COLLECTING, RESTORING_SNAPSHOT
<1>1. ASSUME UNCHANGED <<threads, phase, released>>,
             \A p : Counted(p)' = Counted(p)
      PROVE  WordCounts'
  BY <1>1 DEF WordCounts, Hold
<1>2. CASE UNCHANGED vars
  BY <1>1, <1>2 DEF vars, wordVars, threadVars, collectorVars, Counted
<1>3. CASE CollectLoop \/ WakeUp \/ Stop \/ Quiesce \/ WorkDone
  BY <1>1, <1>3
  DEF CollectLoop, WakeUp, Stop, Quiesce, WorkDone, Counted, wordVars, threadVars
<1>4. CASE Raise
  <2>1. SUFFICES ASSUME NEW q \in Regime
                 PROVE  threads'[q] = (Cardinality(Counted(q)') + Hold(q)') % CounterMod
    BY DEF WordCounts
  <2>2. Counted(q)' = Counted(q)
    BY <1>4 DEF Raise, threadVars, Counted
  <2>3. Hold(q) = 0
    BY <1>4 DEF Raise, Holding, Hold
  <2>4. Hold(q)' = IF q = phase THEN 1 ELSE 0
    BY <1>4, <1>0, SuccType DEF Raise, Hold
  <2>5. /\ Cardinality(Counted(q)) \in 0 .. CounterMod - 1
        /\ threads[q] = Cardinality(Counted(q)) % CounterMod
    BY <2>3, CountedBound, ConstantsAssumption DEF WordCounts
  <2>6. threads' = Inc(threads, phase)
    BY <1>4 DEF Raise
  <2>7. CASE q = phase
    <3>1. threads'[q] = (Cardinality(Counted(q)) + 1) % CounterMod
      BY <1>0, <2>5, <2>6, <2>7, IncCounts
    <3> QED
      BY <2>2, <2>4, <2>7, <3>1
  <2>8. CASE q # phase
    <3>1. threads'[q] = threads[q]
      BY <1>0, <2>6, <2>8 DEF Inc, Counters
    <3>2. threads'[q] = (Cardinality(Counted(q)) + 0) % CounterMod
      BY <2>5, <3>1
    <3> QED
      BY <2>2, <2>4, <2>8, <3>2
  <2> QED
    BY <2>7, <2>8
<1>5. CASE Release
  <2>1. SUFFICES ASSUME NEW q \in Regime
                 PROVE  threads'[q] = (Cardinality(Counted(q)') + Hold(q)') % CounterMod
    BY DEF WordCounts
  <2>2. Counted(q)' = Counted(q)
    BY <1>5 DEF Release, threadVars, Counted
  <2>3. Hold(q)' = 0
    BY <1>5 DEF Release, Hold
  <2>4. Hold(q) = IF q = Pred(phase) THEN 1 ELSE 0
    BY <1>5 DEF Release, Holding, Hold
  <2>5. /\ Cardinality(Counted(q)) \in 0 .. CounterMod - 1
        /\ threads[q] = (Cardinality(Counted(q)) + Hold(q)) % CounterMod
    BY CountedBound, ConstantsAssumption DEF WordCounts
  <2>6. threads' = Dec(threads, Pred(phase)) /\ Pred(phase) \in Regime
    BY <1>5, <1>0, SuccType DEF Release, Holding
  <2>7. CASE q = Pred(phase)
    <3> DEFINE n == Cardinality(Counted(q)) + 1
    <3>1. n \in 1 .. CounterMod /\ threads[q] = n % CounterMod
      BY <2>4, <2>5, <2>7, ConstantsAssumption
    <3>2. n - 1 = Cardinality(Counted(q)) /\ Cardinality(Counted(q)) + 0 = n - 1
      BY <2>5
    <3> HIDE DEF n
    <3>3. threads'[q] = (n - 1) % CounterMod
      BY <1>0, <2>6, <2>7, <3>1, DecCounts
    <3> QED
      BY <2>2, <2>3, <3>2, <3>3
  <2>8. CASE q # Pred(phase)
    BY <1>0, <2>2, <2>3, <2>4, <2>5, <2>6, <2>8 DEF Dec, Counters
  <2> QED
    BY <2>7, <2>8
<1>6. ASSUME NEW t \in Threads, ThreadNext(t) PROVE WordCounts'
  <2>1. \A u \in Threads \ {t} : pc'[u] = pc[u] /\ ThreadState'[u] = ThreadState[u]
    BY <1>6
    DEF ThreadNext, ClaimSlot, EnterMutation, EnterNested, LeaveMutation,
        LeaveNested, SafePoint, CountOver, WaitDone, ExitThread, ReleaseSlot,
        Trigger, Shutdown, SignalExit, Joined, Go, threadVars, TypeOK
  <2>2. \A p : Hold(p)' = Hold(p)
    BY <1>6
    DEF ThreadNext, ClaimSlot, EnterMutation, EnterNested, LeaveMutation,
        LeaveNested, SafePoint, CountOver, WaitDone, ExitThread, ReleaseSlot,
        Trigger, Shutdown, SignalExit, Joined, wordVars, collectorVars, Hold
  <2>3. CASE \/ ClaimSlot(t) \/ EnterNested(t) \/ LeaveNested(t) \/ SafePoint(t)
             \/ WaitDone(t) \/ ReleaseSlot(t) \/ Trigger(t) \/ Shutdown(t)
             \/ SignalExit(t) \/ Joined(t) \/ (CountOver(t) /\ GivesUp(t))
    <3>1. /\ UNCHANGED <<threads, phase, released, ThreadState>>
          /\ (pc[t] \in Holders) = (pc'[t] \in Holders)
      BY <2>3
      DEF ClaimSlot, EnterNested, LeaveNested, SafePoint, CountOver, WaitDone,
          ReleaseSlot, Trigger, Shutdown, SignalExit, Joined, Go, Holders,
          wordVars, threadVars, collectorVars, TypeOK
    <3>2. \A p : Counted(p)' = Counted(p)
      BY <2>1, <3>1 DEF Counted
    <3> QED
      BY <1>1, <3>1, <3>2
  <2> DEFINE Moved(q) ==
        threads'[q] = (Cardinality(Counted(q)') + Hold(q)') % CounterMod
  <2>4. SUFFICES ASSUME NEW q \in Regime, ~GivesUp(t) \/ ~CountOver(t),
                        \/ EnterMutation(t) \/ LeaveMutation(t)
                        \/ CountOver(t) \/ ExitThread(t)
                 PROVE  Moved(q)
    BY <1>6, <2>3 DEF ThreadNext, WordCounts
  <2>5. t \in HoldingSlots
    BY <2>4 DEF EnterMutation, LeaveMutation, CountOver, ExitThread, Running,
                HoldingSlots
  <2>6. ASSUME threads'[q] = threads[q], (t \in Counted(q)) = (t \in Counted(q)')
        PROVE  Moved(q)
    BY <2>1, <2>2, <2>6, Recount DEF WordCounts
  <2>7. ASSUME t \in Counted(q), t \notin Counted(q)',
               threads'[q] = (Cardinality(Counted(q)) - 1 + Hold(q)) % CounterMod
        PROVE  Moved(q)
    <3>1. Cardinality(Counted(q)') = Cardinality(Counted(q)) - 1
      BY <2>1, <2>7, Recount
    <3> QED
      BY <2>2, <2>7, <3>1
  <2>8. ASSUME t \notin Counted(q), t \in Counted(q)',
               threads'[q] = (Cardinality(Counted(q)) + 1 + Hold(q)) % CounterMod
        PROVE  Moved(q)
    <3>1. Cardinality(Counted(q)') = Cardinality(Counted(q)) + 1
      BY <2>1, <2>8, Recount
    <3> QED
      BY <2>2, <2>8, <3>1
  <2> HIDE DEF Moved
  <2>9. CASE EnterMutation(t)
    <3>1. \A p : t \in Counted(p)' <=> p = phase
      BY <2>9 DEF EnterMutation, Go, Counted, Holders, TypeOK
    <3>2. CASE pc[t] = "init"
      <4>1. \A p : t \notin Counted(p)
        BY <3>2 DEF Counted, Holders
      <4>2. threads' = Inc(threads, phase)
        BY <2>9, <3>2 DEF EnterMutation
      <4>3. CASE q = phase
        BY <1>0, <2>5, <2>8, <3>1, <4>1, <4>2, <4>3, CountIn
      <4>4. CASE q # phase
        BY <1>0, <2>6, <3>1, <4>1, <4>2, <4>4 DEF Inc, Counters
      <4> QED
        BY <4>3, <4>4
    <3>3. CASE pc[t] # "init"
      <4>1. \A p : t \in Counted(p) <=> p = NOT_MUTATING
        BY <2>9, <3>3 DEF EnterMutation, Counted, Holders
      <4> DEFINE f == Inc(threads, phase)
      <4>2. threads' = Dec(f, NOT_MUTATING)
        BY <2>9, <3>3 DEF EnterMutation
      <4>3. /\ f \in Counters
            /\ f[phase] = (Cardinality(Counted(phase)) + 1 + Hold(phase)) % CounterMod
            /\ \A p \in Regime \ {phase} : f[p] = threads[p]
        BY <1>0, <2>5, <4>1, CountIn, CountersType
      <4> HIDE DEF f
      <4>4. CASE q = NOT_MUTATING
        BY <1>0, <2>5, <2>7, <3>1, <4>1, <4>2, <4>3, <4>4, CountOut
      <4>5. CASE q = phase
        BY <1>0, <2>8, <3>1, <4>1, <4>2, <4>3, <4>5 DEF Dec, Counters
      <4>6. CASE q \notin {phase, NOT_MUTATING}
        BY <1>0, <2>6, <3>1, <4>1, <4>2, <4>3, <4>6 DEF Dec, Counters
      <4> QED
        BY <4>4, <4>5, <4>6
    <3> QED
      BY <3>2, <3>3
  <2>10. CASE LeaveMutation(t)
    <3>1. \A p : t \in Counted(p)' <=> p = NOT_MUTATING
      BY <2>10 DEF LeaveMutation, Counted, Holders, TypeOK
    <3>2. \A p : t \in Counted(p) <=> p = phase
      BY <2>10 DEF LeaveMutation, Miscounts, Counted, Holders
    <3> DEFINE f == Dec(threads, phase)
    <3>3. threads' = Inc(f, NOT_MUTATING)
      BY <2>10 DEF LeaveMutation
    <3>4. /\ f \in Counters
          /\ f[phase] = (Cardinality(Counted(phase)) - 1 + Hold(phase)) % CounterMod
          /\ \A p \in Regime \ {phase} : f[p] = threads[p]
      BY <1>0, <2>5, <3>2, CountOut, CountersType
    <3> HIDE DEF f
    <3>5. CASE q = NOT_MUTATING
      BY <1>0, <2>5, <2>8, <3>1, <3>2, <3>3, <3>4, <3>5, CountIn
    <3>6. CASE q = phase
      BY <1>0, <2>7, <3>1, <3>2, <3>3, <3>4, <3>6 DEF Inc, Counters
    <3>7. CASE q \notin {phase, NOT_MUTATING}
      BY <1>0, <2>6, <3>1, <3>2, <3>3, <3>4, <3>7 DEF Inc, Counters
    <3> QED
      BY <3>5, <3>6, <3>7
  <2>11. CASE CountOver(t)
    <3> DEFINE s == ThreadState[t]
    <3>1. s \in Phase /\ Succ(s) \in Phase /\ Succ(s) # s
      BY <2>11, <1>0, SuccType DEF CountOver, InSafePoint, TypeOK, Regime
    <3>2. /\ threads' = Inc(Dec(threads, s), Succ(s))
          /\ ThreadState'[t] = Succ(s) /\ pc[t] = "count" /\ pc'[t] = "wait"
      BY <2>4, <2>11 DEF CountOver, Go, TypeOK
    <3>3. \A p : (t \in Counted(p) <=> p = s) /\ (t \in Counted(p)' <=> p = Succ(s))
      BY <3>2 DEF Counted, Holders
    <3> HIDE DEF s
    <3> DEFINE f == Dec(threads, s)
    <3>4. /\ f \in Counters
          /\ f[s] = (Cardinality(Counted(s)) - 1 + Hold(s)) % CounterMod
          /\ \A p \in Regime \ {s} : f[p] = threads[p]
      BY <1>0, <2>5, <3>1, <3>3, CountOut, CountersType
    <3>5. threads' = Inc(f, Succ(s))
      BY <3>2
    <3> HIDE DEF f
    <3>6. CASE q = Succ(s)
      BY <1>0, <2>5, <2>8, <3>1, <3>3, <3>4, <3>5, <3>6, CountIn
    <3>7. CASE q = s
      BY <1>0, <2>7, <3>1, <3>3, <3>4, <3>5, <3>7 DEF Inc, Counters
    <3>8. CASE q \notin {s, Succ(s)}
      BY <1>0, <2>6, <3>1, <3>3, <3>4, <3>5, <3>8 DEF Inc, Counters
    <3> QED
      BY <3>6, <3>7, <3>8
  <2>12. CASE ExitThread(t)
    <3> DEFINE s == ThreadState[t]
    <3>1. s \in Regime /\ ExitCounter(s) = s
      BY <2>12 DEF ExitThread, Miscounts, ExitCounter, TypeOK, Regime, Phase
    <3>2. threads' = Dec(threads, s) /\ pc[t] = "run" /\ pc'[t] = "exit"
      BY <2>12, <3>1 DEF ExitThread, Go, TypeOK
    <3>3. \A p : (t \in Counted(p) <=> p = s) /\ t \notin Counted(p)'
      BY <3>2 DEF Counted, Holders
    <3> HIDE DEF s
    <3>4. CASE q = s
      BY <1>0, <2>5, <2>7, <3>1, <3>2, <3>3, <3>4, CountOut
    <3>5. CASE q # s
      BY <1>0, <2>6, <3>2, <3>3, <3>5 DEF Dec, Counters
    <3> QED
      BY <3>4, <3>5
  <2> QED
    BY <2>4, <2>9, <2>10, <2>11, <2>12
<1> QED
  BY <1>2, <1>3, <1>4, <1>5, <1>6 DEF Next, CollectorNext

(* What the two spin loops learn from a counter.                           *)
LEMMA GateMeansEmpty ==
  ASSUME TypeOK, SlotsBound, WordCounts,
         NEW t \in HoldingSlots, NEW p \in Regime, t \notin Counted(p),
         threads[p] = 0
  PROVE  Hold(p) = 0
<1> DEFINE n == Cardinality(Counted(p)) + Hold(p)
<1>1. n \in 0 .. CounterMod - 1
  BY CountedBelow, HoldType, ConstantsAssumption
<1>2. n % CounterMod = 0
  BY DEF WordCounts
<1> HIDE DEF n
<1>3. n = 0
  BY <1>1, <1>2, ModUpTo, ConstantsAssumption
<1> QED
  BY <1>3, CountedBound, HoldType, ConstantsAssumption DEF n

(* A counter of one means that the collector alone is left in the old      *)
(* phase (AllCountedOut).                                                  *)
LEMMA OneMeansCollectorOnly ==
  ASSUME TypeOK, SlotsBound, WordCounts, ~released,
         threads[Pred(phase)] = 1
  PROVE  Counted(Pred(phase)) = {}
<1> DEFINE p == Pred(phase)
           n == Cardinality(Counted(p)) + 1
<1>1. p \in Regime /\ Hold(p) = 1
  BY SuccType DEF TypeOK, Regime, Hold
<1> HIDE DEF p
<1>2. n \in 1 .. CounterMod /\ threads[p] = n % CounterMod
  BY <1>1, CountedBound, ConstantsAssumption DEF WordCounts
<1>3. n % CounterMod = 1
  BY <1>2 DEF p
<1> HIDE DEF n
<1>4. n = 1
  BY <1>2, <1>3, ModUpTo, ConstantsAssumption
<1>5. Cardinality(Counted(p)) = 0
  BY <1>4, CountedBound, ConstantsAssumption DEF n
<1> QED
  BY <1>5, CountedBound, FS_EmptySet DEF p

(* The hold is the last thing to go: Release always ends the border.       *)
LEMMA ReleaseEmpties ==
  ASSUME TypeOK, SlotsBound, WordCounts, InStep, Holding, Release
  PROVE  cpc' = "work"
<1>1. ~released /\ cpc = "release"
  BY DEF Release, Holding
<1>2. Pred(phase) \in Phase /\ Pred(phase) # phase
  BY SuccType DEF TypeOK
<1>3. Counted(Pred(phase)) = {}
  BY <1>1, <1>2 DEF InStep, Following, Counted, Phase, NOT_MUTATING,
                    NOT_COLLECTING, COLLECTING, RESTORING_SNAPSHOT
<1>4. Cardinality(Counted(Pred(phase))) = 0 /\ Hold(Pred(phase)) = 1
  BY <1>1, <1>3, FS_EmptySet DEF Hold
<1>5. 1 % CounterMod = 1
  BY ModUpTo, ConstantsAssumption
<1>6. Pred(phase) \in Regime /\ threads[Pred(phase)] = 1
  BY <1>2, <1>4, <1>5 DEF WordCounts, Regime
<1>7. threads'[Pred(phase)] = 0
  BY <1>1, <1>6, ConstantsAssumption DEF Release, Dec, TypeOK
<1> QED
  BY <1>7 DEF Release

-----------------------------------------------------------------------------
(* Every step preserves the parts of the invariant about borders: threads  *)
(* are at most one phase behind, behind only while the collector waits for *)
(* them, and held in their spin loops until it lets go.                    *)
LEMMA BorderStep ==
  ASSUME IInv, TypeOK', [Next]_vars
  PROVE  OneBehind' /\ InStep' /\ InSafePoint' /\ Holding' /\ Gated'
<1> USE DEF IInv
<1> DEFINE Goal == OneBehind' /\ InStep' /\ InSafePoint' /\ Holding' /\ Gated'
<1>0. /\ phase \in Phase /\ Phase \subseteq Regime /\ NOT_MUTATING \notin Phase
      /\ Pred(phase) \in Phase /\ Succ(phase) \in Phase
      /\ Pred(phase) # phase /\ Succ(phase) # phase
      /\ Pred(Succ(phase)) = phase /\ Succ(Pred(phase)) = phase
  BY SuccType DEF TypeOK, Regime, Phase, NOT_MUTATING, NOT_COLLECTING,
                  COLLECTING, RESTORING_SNAPSHOT
<1>1. CASE UNCHANGED vars
  BY <1>1 DEF vars, wordVars, threadVars, collectorVars, OneBehind, InStep,
              InSafePoint, Holding, Gated, Following, Running
<1>2. CASE CollectLoop \/ WakeUp \/ WorkDone \/ Stop
  BY <1>2 DEF CollectLoop, WakeUp, WorkDone, Stop, wordVars, threadVars,
              OneBehind, InStep, InSafePoint, Holding, Gated, Following,
              Running, HeedsExit
<1>3. CASE Raise
  BY <1>0, <1>3 DEF Raise, threadVars, OneBehind, InStep, InSafePoint, Holding,
                    Gated, Following, Running, Holders
<1>4. CASE Quiesce
  <2>1. Counted(Pred(phase)) = {}
    BY <1>4, OneMeansCollectorOnly DEF Quiesce, AllCountedOut, Holding
  <2> QED
    BY <1>0, <1>4, <2>1
    DEF Quiesce, wordVars, threadVars, OneBehind, InStep, InSafePoint, Holding,
        Gated, Following, Running, Counted
<1>5. CASE Release
  BY <1>5, ReleaseEmpties
  DEF Release, threadVars, OneBehind, InStep, InSafePoint, Holding, Gated,
      Following, Running
<1>6. ASSUME NEW t \in Threads, ThreadNext(t) PROVE Goal
  <2>1. CASE ClaimSlot(t) \/ EnterNested(t) \/ LeaveNested(t) \/ ReleaseSlot(t)
             \/ Trigger(t) \/ Shutdown(t) \/ SignalExit(t) \/ Joined(t)
             \/ ExitThread(t)
    BY <2>1
    DEF ClaimSlot, EnterNested, LeaveNested, ReleaseSlot, Trigger, Shutdown,
        SignalExit, Joined, ExitThread, Go, wordVars, threadVars, collectorVars,
        TypeOK, OneBehind, InStep, InSafePoint, Holding, Gated, Following,
        Running, Holders
  <2>2. CASE EnterMutation(t) \/ LeaveMutation(t)
    BY <1>0, <2>2
    DEF EnterMutation, LeaveMutation, Go, collectorVars, TypeOK, OneBehind,
        InStep, InSafePoint, Holding, Gated, Following, Running, Holders
  <2>3. CASE SafePoint(t)
    BY <1>0, <2>3
    DEF SafePoint, Go, wordVars, collectorVars, TypeOK, OneBehind, InStep,
        InSafePoint, Holding, Gated, Following, Running, Holders
  <2>4. CASE CountOver(t)
    BY <1>0, <2>4
    DEF CountOver, Go, collectorVars, TypeOK, OneBehind, InStep, InSafePoint,
        Holding, Gated, GivesUp, Following, Running, Holders
  <2>5. CASE WaitDone(t)
    <3>1. ~exit_program_flag /\ ThreadState[t] = phase => released
      <4> SUFFICES ASSUME ~exit_program_flag, ThreadState[t] = phase PROVE released
        OBVIOUS
      <4>1. threads[Pred(phase)] = 0 /\ t \in HoldingSlots
        BY <2>5 DEF WaitDone, GateOpen, HoldingSlots
      <4>2. t \notin Counted(Pred(phase)) /\ Pred(phase) \in Regime
        BY <1>0 DEF Counted
      <4>3. Hold(Pred(phase)) = 0
        BY <4>1, <4>2, GateMeansEmpty
      <4> QED
        BY <4>3 DEF Hold
    <3> QED
      BY <1>0, <2>5, <3>1
      DEF WaitDone, Go, wordVars, collectorVars, TypeOK, OneBehind, InStep,
          InSafePoint, Holding, Gated, Following, Running, Holders
  <2> QED
    BY <1>6, <2>1, <2>2, <2>3, <2>4, <2>5 DEF ThreadNext
<1> QED
  BY <1>1, <1>2, <1>3, <1>4, <1>5, <1>6 DEF Next, CollectorNext
-----------------------------------------------------------------------------
(* The inductive invariant holds initially.                                *)
LEMMA InvariantInit ==
  ASSUME Init
  PROVE  IInv
<1>1. TypeOK
  BY TypeInit
<1>2. HoldingSlots = {} /\ \A p : Counted(p) = {} /\ Hold(p) = 0
  BY DEF Init, HoldingSlots, Counted, Holders, Hold
<1>3. SlotsBound
  BY <1>2, FS_EmptySet, ConstantsAssumption DEF SlotsBound
<1>4. WordCounts
  <2>1. 0 % CounterMod = 0
    BY ModUpTo, ConstantsAssumption
  <2>2. \A p \in Regime : threads[p] = 0
    BY DEF Init
  <2>3. \A p : Cardinality(Counted(p)) + Hold(p) = 0
    BY <1>2, FS_EmptySet
  <2> QED
    BY <2>1, <2>2, <2>3 DEF WordCounts
<1>5. OneBehind /\ InStep /\ InSafePoint /\ Holding /\ Gated
  BY DEF Init, OneBehind, InStep, InSafePoint, Holding, Gated, Following,
         Running, Holders
<1> QED
  BY <1>1, <1>3, <1>4, <1>5 DEF IInv

(* Every step that does not make the word lose count preserves it.         *)
LEMMA InvariantStep ==
  ASSUME IInv, [Next]_vars, ~miscounted'
  PROVE  IInv'
<1>1. TypeOK'
  BY TypeStep DEF IInv
<1>2. SlotsBound'
  BY SlotsBoundStep DEF IInv
<1>3. WordCounts'
  BY <1>1, CountersStep
<1>4. OneBehind' /\ InStep' /\ InSafePoint' /\ Holding' /\ Gated'
  BY <1>1, BorderStep
<1> QED
  BY <1>1, <1>2, <1>3, <1>4 DEF IInv

(* What the word has lost stays lost: miscounted is never taken back.      *)
LEMMA MiscountStays ==
  ASSUME [Next]_vars, miscounted
  PROVE  miscounted'
<1>1. CASE CollectorNext \/ UNCHANGED vars
  BY <1>1
  DEF CollectorNext, CollectLoop, WakeUp, Stop, Raise, Quiesce, Release, WorkDone,
      wordVars, vars
<1>2. ASSUME NEW t \in Threads, ThreadNext(t) PROVE miscounted'
  BY <1>2
  DEF ThreadNext, ClaimSlot, EnterMutation, EnterNested, LeaveMutation, LeaveNested,
      SafePoint, CountOver, WaitDone, ExitThread, ReleaseSlot, Trigger, Shutdown,
      SignalExit, Joined, Miscounts, wordVars
<1> QED
  BY <1>1, <1>2 DEF Next

(* As long as the word has not lost count the invariant holds, whatever    *)
(* the number of threads, slots and counter values.                        *)
Protocol == TypeOK /\ (~miscounted => IInv)

LEMMA Invariance == Spec => []Protocol
<1>1. Init => Protocol
  BY InvariantInit DEF Protocol, IInv
<1>2. Protocol /\ [Next]_vars => Protocol'
  BY TypeStep, InvariantStep, MiscountStays DEF Protocol
<1> QED
  BY <1>1, <1>2, PTL DEF Spec

(* The counters of State are the true numbers of threads, for any number   *)
(* of threads, slots and counter values, until a thread opts out while it  *)
(* lags behind a border, exits in RESTORING_SNAPSHOT, or holds the slot    *)
(* that makes as many as a counter has values (CountersMatch, Miscounts).  *)
THEOREM CountersCorrect == Spec => []CountersMatch
<1>1. Protocol => CountersMatch
  BY DEF Protocol, IInv, CountersMatch
<1> QED
  BY <1>1, Invariance, PTL

(* From the moment the collector sees everyone counted out until it lets   *)
(* go, no thread runs program code: swapping and merging the lists needs   *)
(* no lock, as long as the word counts right and nothing shuts down.       *)
THEOREM BorderIsQuiet == Spec => []BorderQuiet
<1>1. Protocol => BorderQuiet
  BY DEF Protocol, Kept, IInv, BorderQuiet, InStep, Gated, Following, Running, Holders
<1> QED
  BY <1>1, Invariance, PTL

(* Threads that run at the same time use the same write barrier, as long   *)
(* as the word counts right and nothing shuts down.                        *)
THEOREM RunnersAgree == Spec => []RunningAgree
<1>1. Protocol => RunningAgree
  <2> SUFFICES ASSUME IInv, ~exit_program_flag,
                      NEW t \in Threads, NEW u \in Threads,
                      Running(t), Running(u)
               PROVE  ThreadState[t] = ThreadState[u]
    BY DEF Protocol, Kept, RunningAgree
  <2>1. Following(t) /\ Following(u)
    BY DEF Following, Running, Holders
  <2>2. CASE cpc = "quiesce"
    BY <2>1, <2>2 DEF IInv, OneBehind, Gated, Holding
  <2>3. CASE cpc # "quiesce"
    BY <2>1, <2>3 DEF IInv, InStep, Holding
  <2> QED
    BY <2>2, <2>3
<1> QED
  BY <1>1, Invariance, PTL

(* Whoever runs while the collector marks, sweeps or restores does so      *)
(* under the barrier of that phase, as long as the word counts right and   *)
(* nothing shuts down.                                                     *)
THEOREM CollectorWorksInStep == Spec => []WorkInStep
<1>1. Protocol => WorkInStep
  BY DEF Protocol, Kept, IInv, WorkInStep, InStep, Following, Running, Holders
<1> QED
  BY <1>1, Invariance, PTL

-----------------------------------------------------------------------------
(* GCPhases implements Handshake, for any number of threads, slots and     *)
(* counter values, as long as the word counts right and the program is not *)
(* shutting the collector down.                                            *)

(* Nobody is in exit_collect_thread before exit_program_flag is raised.    *)
ExitOrder == ~exit_program_flag =>
               \A t \in Threads : pc[t] \notin {"signal", "join"}

(* The flag goes up in the same step in which Shutdown leaves "run".       *)
LEMMA ExitsInOrder == Spec => []ExitOrder
<1>1. Init => ExitOrder
  BY DEF Init, ExitOrder
<1>2. TypeOK /\ ExitOrder /\ [Next]_vars => ExitOrder'
  <2> SUFFICES ASSUME TypeOK, ExitOrder, [Next]_vars PROVE ExitOrder'
    OBVIOUS
  <2>1. CASE CollectorNext \/ UNCHANGED vars
    BY <2>1
    DEF ExitOrder, CollectorNext, CollectLoop, WakeUp, Stop, Raise, Quiesce,
        Release, WorkDone, threadVars, vars
  <2>2. ASSUME NEW t \in Threads, ThreadNext(t) PROVE ExitOrder'
    BY <2>2
    DEF ExitOrder, ThreadNext, ClaimSlot, EnterMutation, EnterNested,
        LeaveMutation, LeaveNested, SafePoint, CountOver, WaitDone, ExitThread,
        ReleaseSlot, Trigger, Shutdown, SignalExit, Joined, Go, threadVars, TypeOK
  <2> QED
    BY <2>1, <2>2 DEF Next
<1> QED
  BY <1>1, <1>2, TypeCorrect, PTL DEF Spec

-----------------------------------------------------------------------------
(* The mapping of the refinement, spelt out.                               *)
gateBar   == IF cpc = "quiesce" THEN "closed"
             ELSE IF cpc = "release" THEN "turned" ELSE "open"
regimeBar == [t \in Threads |->
                IF pc[t] \in Holders THEN ThreadState[t] ELSE NOT_MUTATING]
parkedBar == {t \in Threads : pc[t] = "wait"}
barVars   == <<phase, gateBar, regimeBar, parkedBar, ActiveIndex>>

(* Both modules name and order the phases alike.                           *)
LEMMA SameNames ==
  /\ HS!NOT_MUTATING = NOT_MUTATING /\ HS!NOT_COLLECTING = NOT_COLLECTING
  /\ HS!COLLECTING = COLLECTING
  /\ \A p : HS!Succ(p) = Succ(p) /\ HS!Pred(p) = Pred(p)
BY DEF HS!NOT_MUTATING, HS!NOT_COLLECTING, HS!COLLECTING, HS!Succ, HS!Pred,
       NOT_MUTATING, NOT_COLLECTING, COLLECTING, Succ, Pred,
       HS!RESTORING_SNAPSHOT, RESTORING_SNAPSHOT

(* GCPhases starts where Handshake starts.                                 *)
LEMMA RefinesInit ==
  ASSUME Init
  PROVE  HS!HandshakeInit
BY SameNames DEF Init, HS!HandshakeInit, Holders

(* Every step of GCPhases is a step of Handshake or leaves its variables   *)
(* alone: Raise announces, Quiesce turns the lists, Release opens the      *)
(* gate; entering mutation joins, CountOver adopts, WaitDone resumes,      *)
(* opting out and exiting part.                                            *)
LEMMA RefinesStep ==
  ASSUME IInv, ExitOrder, TypeOK', [Next]_vars, Kept'
  PROVE  HS!HandshakeNext \/ UNCHANGED barVars
<1> USE DEF IInv
<1>0. /\ phase \in Phase /\ NOT_MUTATING \notin Phase
      /\ Pred(phase) \in Phase /\ Pred(phase) # phase
      /\ Succ(Pred(phase)) = phase
  BY SuccType DEF TypeOK, Phase, NOT_MUTATING, NOT_COLLECTING, COLLECTING,
                  RESTORING_SNAPSHOT
<1>n. ~exit_program_flag
  <2>1. CASE CollectorNext \/ UNCHANGED vars
    BY <2>1
    DEF CollectorNext, CollectLoop, WakeUp, Stop, Raise, Quiesce, Release, WorkDone,
        Kept, vars
  <2>2. ASSUME NEW t \in Threads, ThreadNext(t) PROVE ~exit_program_flag
    BY <2>2
    DEF ThreadNext, ClaimSlot, EnterMutation, EnterNested, LeaveMutation, LeaveNested,
        SafePoint, CountOver, WaitDone, ExitThread, ReleaseSlot, Trigger, Shutdown,
        SignalExit, Joined, Kept
  <2> QED
    BY <2>1, <2>2 DEF Next
<1>m. \A t \in Threads : pc[t] \notin {"signal", "join"}
  BY <1>n DEF ExitOrder
<1>1. CASE UNCHANGED vars \/ CollectLoop \/ WakeUp \/ WorkDone
  BY <1>1 DEF vars, threadVars, wordVars, collectorVars, CollectLoop, WakeUp,
              WorkDone, barVars, gateBar, regimeBar, parkedBar
<1>2. CASE Stop
  BY <1>2, <1>n DEF Stop, HeedsExit
<1>3. CASE Raise
  <2>1. HS!Announce
    BY <1>3, SameNames
    DEF HS!Announce, HS!Mutating, Raise, InStep, Following, threadVars
  <2> QED
    BY <2>1 DEF HS!HandshakeNext
<1>4. CASE Quiesce
  <2>1. Counted(Pred(phase)) = {}
    BY <1>4, OneMeansCollectorOnly DEF Quiesce, AllCountedOut, Holding
  <2>2. ASSUME NEW t \in Threads, pc[t] \in Holders, ThreadState[t] # NOT_MUTATING
        PROVE  ThreadState[t] = phase /\ pc[t] = "wait"
    <3>1. ThreadState[t] = phase
      BY <2>1, <2>2 DEF OneBehind, Following, Counted
    <3>2. ~Running(t)
      BY <1>4, <1>n, <3>1 DEF Quiesce, Holding, Gated
    <3> QED
      BY <1>m, <2>2, <3>1, <3>2 DEF Running, Holders
  <2>3. HS!Turn
    BY <1>4, <2>2, SameNames
    DEF HS!Turn, HS!Mutating, Quiesce, Holding, threadVars, wordVars
  <2> QED
    BY <2>3 DEF HS!HandshakeNext
<1>5. CASE Release
  <2>1. HS!Open
    BY <1>5, ReleaseEmpties, SameNames DEF HS!Open, Release, threadVars
  <2> QED
    BY <2>1 DEF HS!HandshakeNext
<1>6. ASSUME NEW t \in Threads, ThreadNext(t)
      PROVE  HS!HandshakeNext \/ UNCHANGED barVars
  <2>1. CASE ClaimSlot(t) \/ EnterNested(t) \/ LeaveNested(t) \/ SafePoint(t)
             \/ ReleaseSlot(t) \/ Trigger(t)
             \/ (ExitThread(t) /\ ThreadState[t] = NOT_MUTATING)
    BY <2>1
    DEF ClaimSlot, EnterNested, LeaveNested, SafePoint, ReleaseSlot, Trigger,
        ExitThread, Running, Go, Holders, wordVars, threadVars, collectorVars,
        barVars, gateBar, regimeBar, parkedBar, TypeOK
  <2>2. CASE Shutdown(t) \/ SignalExit(t) \/ Joined(t)
    BY <1>m, <2>2 DEF Shutdown, SignalExit, Joined, Kept
  <2>3. CASE EnterMutation(t)
    <3>1. HS!Join(t)
      BY <2>3, SameNames
      DEF HS!Join, EnterMutation, Go, Holders, collectorVars, TypeOK
    <3> QED
      BY <3>1 DEF HS!HandshakeNext
  <2>4. CASE CountOver(t)
    <3>1. HS!Adopt(t)
      BY <1>0, <1>n, <2>4, SameNames
      DEF HS!Adopt, HS!Active, CountOver, GivesUp, Go, Holders, collectorVars,
          TypeOK, InSafePoint
    <3> QED
      BY <3>1 DEF HS!HandshakeNext
  <2>5. CASE WaitDone(t)
    <3>1. ThreadState[t] = phase => released
      <4>1. t \in HoldingSlots
        BY <2>5 DEF WaitDone, HoldingSlots
      <4> QED
        BY <1>0, <1>n, <2>5, <4>1, GateMeansEmpty
        DEF WaitDone, GateOpen, Counted, Hold, Regime
    <3>2. HS!Resume(t)
      BY <2>5, <3>1, SameNames
      DEF HS!Resume, WaitDone, Go, Holders, Holding, collectorVars, wordVars, TypeOK
    <3> QED
      BY <3>2 DEF HS!HandshakeNext
  <2>6. CASE LeaveMutation(t) \/ (ExitThread(t) /\ ThreadState[t] # NOT_MUTATING)
    <3>1. HS!Part(t)
      BY <2>6, SameNames
      DEF HS!Part, HS!Active, LeaveMutation, ExitThread, Running, Go, Holders,
          collectorVars, TypeOK
    <3> QED
      BY <3>1 DEF HS!HandshakeNext
  <2> QED
    BY <1>6, <2>1, <2>2, <2>3, <2>4, <2>5, <2>6 DEF ThreadNext
<1> QED
  BY <1>1, <1>2, <1>3, <1>4, <1>5, <1>6 DEF Next, CollectorNext

(* The counters and spin loops of the code implement the gate of           *)
(* Handshake, up to the step in which the word loses count or the program  *)
(* begins to shut down: the lists are turned round only while all mutators *)
(* wait under the new phase, and none of them leaves before that is done.  *)
THEOREM Refinement == Spec => ImplementsHandshake
<1>1. Init => HS!HandshakeInit
  BY RefinesInit
<1>2. /\ Protocol /\ ExitOrder /\ Protocol'
      /\ [Next]_vars
      => [Kept' => HS!HandshakeNext]_(HS!handshakeVars)
  <2> SUFFICES ASSUME Protocol, ExitOrder, Protocol', [Next]_vars, Kept'
               PROVE  HS!HandshakeNext \/ UNCHANGED HS!handshakeVars
    OBVIOUS
  <2>1. IInv /\ TypeOK'
    BY MiscountStays DEF Protocol, Kept
  <2>2. HS!HandshakeNext \/ UNCHANGED barVars
    BY <2>1, RefinesStep
  <2> QED
    BY <2>2 DEF HS!handshakeVars, barVars, gateBar, regimeBar, parkedBar
<1> QED
  BY <1>1, <1>2, Invariance, ExitsInOrder, PTL DEF Spec, ImplementsHandshake
=============================================================================
