----------------------- MODULE AllocationTriggerProofs -----------------------
(***************************************************************************)
(* Proofs about AllocationTrigger, for any threads, any trigger point, any *)
(* hand-over periods and any sizes with a largest one among them.          *)
(***************************************************************************)
EXTENDS AllocationTrigger, FiniteSetTheorems, TLAPS

(* The sizes have a maximum, as any numbers a size_t holds do.             *)
SizesBounded == \E m \in Logged : \A n \in Logged : n =< m

Biggest == Max(Logged)

(* The threads that will compare Allocated with the trigger point.         *)
Noticing == {t \in Threads : pc[t] \in {"compare", "exchange"}}

Typed ==
  /\ Allocated \in Nat
  /\ ThreadAllocated \in [Threads -> Nat]
  /\ AggregateLogAlloc \in [Threads -> 0 .. LogEvery - 1]
  /\ AggregateArrayLogAlloc \in [Threads -> 0 .. ArrayLogEvery - 1]
  /\ pc \in [Threads -> ThreadPC]
  /\ StartCollectionEvent \in BOOLEAN
  /\ collecting \in BOOLEAN
  /\ unrequested \in Nat

(* A sum is as large as the calls it was made of allow, and what is beyond *)
(* the trigger point was handed over by threads that have yet to compare.  *)
IInv ==
  /\ Typed
  /\ \A t \in Threads :
       ThreadAllocated[t] =< (AggregateLogAlloc[t] + AggregateArrayLogAlloc[t]) * Biggest
  /\ Allocated =< TriggerPoint + Cardinality(Noticing) * Largest

(* What multiplication has to do with it.                                  *)
LEMMA Times ==
  ASSUME NEW a \in Nat, NEW b \in Nat
  PROVE  a * b \in Nat /\ (a + 1) * b = a * b + b /\ 0 * b = 0
OBVIOUS

LEMMA TimesMonotone ==
  ASSUME NEW a \in Nat, NEW c \in Nat, NEW b \in Nat, a =< c
  PROVE  a * b =< c * b
<1>1. PICK d \in Nat : c = a + d
  <2>1. c - a \in Nat /\ c = a + (c - a)
    OBVIOUS
  <2> QED
    BY <2>1
<1>2. d * b \in Nat /\ a * b \in Nat /\ c * b = a * b + d * b
  BY <1>1
<1> QED
  BY <1>2

LEMMA BiggestIs ==
  ASSUME SizesBounded
  PROVE  /\ Biggest \in Nat /\ \A n \in Logged : n \in Nat /\ n =< Biggest
         /\ Largest \in Nat /\ Largest = (LogEvery + ArrayLogEvery) * Biggest
<1>1. \A n \in Logged : n \in Nat
  BY TriggerAssumption DEF Logged, ArrayLogged
<1>2. PICK m \in Logged : \A n \in Logged : n =< m
  BY DEF SizesBounded
<1>3. \A n \in Logged : m >= n
  BY <1>1, <1>2
<1>4. Biggest \in Logged /\ \A n \in Logged : Biggest >= n
  BY <1>2, <1>3 DEF Biggest, Max
<1>5. Biggest \in Nat /\ \A n \in Logged : n =< Biggest
  BY <1>1, <1>4
<1>6. LogEvery + ArrayLogEvery \in Nat
  BY TriggerAssumption
<1>7. (LogEvery + ArrayLogEvery) * Biggest \in Nat
  BY <1>5, <1>6, Times
<1> QED
  BY <1>1, <1>5, <1>7 DEF Largest, Biggest

LEMMA NoticingFinite ==
  IsFiniteSet(Noticing) /\ Cardinality(Noticing) \in Nat
<1>1. Noticing \in SUBSET Threads
  BY DEF Noticing
<1> QED
  BY <1>1, TriggerAssumption, FS_Subset, FS_CardinalityType

LEMMA InvInit ==
  ASSUME SizesBounded, Init
  PROVE  IInv
<1>0. 0 \in 0 .. LogEvery - 1 /\ 0 \in 0 .. ArrayLogEvery - 1 /\ "run" \in ThreadPC
  BY TriggerAssumption DEF ThreadPC
<1>1. Typed
  BY <1>0 DEF Init, Typed
<1>2. \A t \in Threads : ThreadAllocated[t] = 0 /\ AggregateLogAlloc[t] + AggregateArrayLogAlloc[t] = 0
  BY DEF Init
<1>3. 0 * Biggest = 0
  BY BiggestIs, Times
<1>4. Cardinality(Noticing) * Largest \in Nat
  BY BiggestIs, NoticingFinite, Times
<1>5. TriggerPoint \in Nat /\ Allocated = 0
  BY TriggerAssumption DEF Init
<1>6. Allocated =< TriggerPoint + Cardinality(Noticing) * Largest
  BY <1>4, <1>5
<1> QED
  BY <1>1, <1>2, <1>3, <1>6 DEF IInv

(* A thread that has a sum of the given size hands it over, or keeps it.   *)
LEMMA LogStep ==
  ASSUME SizesBounded, IInv, NEW t \in Threads, pc[t] = "run",
         NEW a \in Nat, a =< Biggest, NEW sum, sum = ThreadAllocated[t] + a,
         Typed',
         AggregateLogAlloc[t] + AggregateArrayLogAlloc[t] + 1 =< LogEvery + ArrayLogEvery,
         \A u \in Threads \ {t} : /\ AggregateLogAlloc'[u] = AggregateLogAlloc[u]
                                  /\ AggregateArrayLogAlloc'[u] = AggregateArrayLogAlloc[u],
         \/ HandOver(t, sum)
         \/ /\ Keep(t, sum)
            /\ AggregateLogAlloc'[t] + AggregateArrayLogAlloc'[t] =
                 AggregateLogAlloc[t] + AggregateArrayLogAlloc[t] + 1
  PROVE  IInv'
<1> DEFINE calls(u) == AggregateLogAlloc[u] + AggregateArrayLogAlloc[u]
<1>1. Biggest \in Nat /\ Largest \in Nat /\ Largest = (LogEvery + ArrayLogEvery) * Biggest
  BY BiggestIs
<1>2. /\ \A u \in Threads : calls(u) \in Nat /\ calls(u)' \in Nat
      /\ sum \in Nat /\ Allocated \in Nat /\ TriggerPoint \in Nat
      /\ LogEvery + ArrayLogEvery \in Nat
  BY TriggerAssumption DEF IInv, Typed
<1>3. sum =< (calls(t) + 1) * Biggest
  <2>1. (calls(t) + 1) * Biggest = calls(t) * Biggest + Biggest /\ calls(t) * Biggest \in Nat
    BY <1>1, <1>2, Times
  <2>2. ThreadAllocated[t] =< calls(t) * Biggest /\ ThreadAllocated[t] \in Nat
    BY DEF IInv, Typed
  <2> HIDE DEF calls
  <2> QED
    BY <1>1, <2>1, <2>2
<1>4. sum =< Largest
  <2>1. calls(t) + 1 \in Nat /\ calls(t) + 1 =< LogEvery + ArrayLogEvery
    BY <1>2
  <2>2. (calls(t) + 1) * Biggest =< Largest /\ (calls(t) + 1) * Biggest \in Nat
    BY <1>1, <1>2, <2>1, TimesMonotone, Times
  <2> HIDE DEF calls
  <2> QED
    BY <1>1, <1>2, <1>3, <2>2
<1>5. \A u \in Threads \ {t} : ThreadAllocated'[u] =< calls(u)' * Biggest'
  <2>1. Biggest' = Biggest
    BY DEF Biggest, Logged
  <2>2. \A u \in Threads \ {t} : ThreadAllocated'[u] = ThreadAllocated[u] /\ calls(u)' = calls(u)
    BY DEF HandOver, Keep, IInv, Typed
  <2>3. \A u \in Threads : ThreadAllocated[u] =< calls(u) * Biggest
    BY DEF IInv
  <2> HIDE DEF calls
  <2> QED
    BY <2>1, <2>2, <2>3
<1>6. CASE HandOver(t, sum)
  <2>1. ThreadAllocated'[t] = 0 /\ Allocated' = Allocated + sum
    BY <1>6 DEF HandOver, IInv, Typed
  <2>2. 0 =< calls(t)' * Biggest'
    BY <1>1, <1>2, Times DEF Biggest, Logged
  <2>3. Noticing' = Noticing \cup {t} /\ t \notin Noticing
    BY <1>6 DEF HandOver, Goto, Noticing, IInv, Typed
  <2>4. Cardinality(Noticing') = Cardinality(Noticing) + 1
    BY <2>3, NoticingFinite, FS_AddElement
  <2>5. (Cardinality(Noticing) + 1) * Largest = Cardinality(Noticing) * Largest + Largest
        /\ Cardinality(Noticing) * Largest \in Nat
    BY <1>1, NoticingFinite, Times
  <2>6. Allocated =< TriggerPoint + Cardinality(Noticing) * Largest
    BY DEF IInv
  <2>7. Allocated' =< TriggerPoint + Cardinality(Noticing') * Largest'
    BY <1>1, <1>2, <1>4, <2>1, <2>4, <2>5, <2>6 DEF Largest, Logged
  <2>8. ThreadAllocated'[t] =< calls(t)' * Biggest'
    BY <2>1, <2>2
  <2> QED
    BY <1>5, <2>7, <2>8 DEF IInv
<1>7. CASE /\ Keep(t, sum)
           /\ AggregateLogAlloc'[t] + AggregateArrayLogAlloc'[t] =
                AggregateLogAlloc[t] + AggregateArrayLogAlloc[t] + 1
  <2>1. ThreadAllocated'[t] = sum /\ Allocated' = Allocated /\ pc' = pc
    BY <1>7 DEF Keep, IInv, Typed
  <2>2. ThreadAllocated'[t] =< calls(t)' * Biggest'
    BY <1>3, <1>7, <2>1 DEF Biggest, Logged
  <2>3. Allocated' =< TriggerPoint + Cardinality(Noticing') * Largest'
    BY <2>1 DEF IInv, Noticing, Largest, Logged
  <2> QED
    BY <1>5, <2>2, <2>3 DEF IInv
<1> QED
  BY <1>6, <1>7

(* Every step keeps the types.                                             *)
LEMMA TypedStep ==
  ASSUME Typed, [Next]_vars
  PROVE  Typed'
<1>0. "run" \in ThreadPC /\ "compare" \in ThreadPC /\ "exchange" \in ThreadPC /\ "set" \in ThreadPC
  BY DEF ThreadPC
<1>1. ASSUME NEW t \in Threads, NEW sum \in Nat, HandOver(t, sum)
      PROVE  /\ Allocated' \in Nat /\ ThreadAllocated' \in [Threads -> Nat]
             /\ pc' \in [Threads -> ThreadPC]
  BY <1>0, <1>1 DEF HandOver, Goto, Typed
<1>2. ASSUME NEW t \in Threads, NEW sum \in Nat, Keep(t, sum)
      PROVE  /\ Allocated' \in Nat /\ ThreadAllocated' \in [Threads -> Nat]
             /\ pc' \in [Threads -> ThreadPC]
  BY <1>2 DEF Keep, Typed
<1>3. ASSUME NEW t \in Threads, NEW a \in Sizes, log_alloc(t, a)
      PROVE  Typed'
  <2>1. ThreadAllocated[t] + a \in Nat /\ unrequested + a \in Nat
    BY TriggerAssumption DEF Typed
  <2>2. /\ Allocated' \in Nat /\ ThreadAllocated' \in [Threads -> Nat]
        /\ pc' \in [Threads -> ThreadPC]
    BY <1>1, <1>2, <1>3, <2>1 DEF log_alloc
  <2>3. AggregateLogAlloc' \in [Threads -> 0 .. LogEvery - 1]
    <3>1. AggregateLogAlloc[t] + 1 # LogEvery => AggregateLogAlloc[t] + 1 \in 0 .. LogEvery - 1
      BY TriggerAssumption DEF Typed
    <3>2. 0 \in 0 .. LogEvery - 1
      BY TriggerAssumption
    <3> QED
      BY <1>3, <3>1, <3>2 DEF log_alloc, Typed
  <2> QED
    BY <1>3, <2>1, <2>2, <2>3 DEF log_alloc, Typed
<1>4. ASSUME NEW t \in Threads, NEW array \in Arrays, log_array_alloc(t, array[1], array[2])
      PROVE  Typed'
  <2>1. array[1] \in Nat /\ array[2] \in Nat
    BY TriggerAssumption
  <2>2. /\ ThreadAllocated[t] + ArrayLogged(array[1], array[2]) \in Nat
        /\ unrequested + array[1] * array[2] \in Nat
    BY <2>1, Times DEF Typed, ArrayLogged
  <2>3. /\ Allocated' \in Nat /\ ThreadAllocated' \in [Threads -> Nat]
        /\ pc' \in [Threads -> ThreadPC]
    BY <1>1, <1>2, <1>4, <2>2 DEF log_array_alloc
  <2>4. AggregateArrayLogAlloc' \in [Threads -> 0 .. ArrayLogEvery - 1]
    <3>1. AggregateArrayLogAlloc[t] + 1 # ArrayLogEvery =>
            AggregateArrayLogAlloc[t] + 1 \in 0 .. ArrayLogEvery - 1
      BY TriggerAssumption DEF Typed
    <3>2. 0 \in 0 .. ArrayLogEvery - 1
      BY TriggerAssumption
    <3> QED
      BY <1>4, <3>1, <3>2 DEF log_array_alloc, Typed
  <2> QED
    BY <1>4, <2>2, <2>3, <2>4 DEF log_array_alloc, Typed
<1>5. ASSUME NEW t \in Threads, Logging(t)
      PROVE  Typed'
  <2>1. CASE Compare(t)
    <3>1. pc' \in [Threads -> ThreadPC]
      BY <1>0, <2>1 DEF Compare, Goto, Typed
    <3> QED
      BY <2>1, <3>1 DEF Compare, Typed, localVars
  <2>2. CASE Exchange(t)
    <3>1. pc' \in [Threads -> ThreadPC] /\ unrequested' \in Nat
      BY <1>0, <2>2 DEF Exchange, Goto, Typed
    <3> QED
      BY <2>2, <3>1 DEF Exchange, Typed, localVars
  <2>3. CASE SetStartCollectionEvent(t)
    BY <1>0, <2>3 DEF SetStartCollectionEvent, Asked, Goto, Typed, localVars
  <2> QED
    BY <1>5, <2>1, <2>2, <2>3 DEF Logging
<1>6. CASE WakeUp \/ Collected
  BY <1>6 DEF WakeUp, Collected, Typed, localVars
<1>7. CASE UNCHANGED vars
  BY <1>7 DEF vars, localVars, Typed
<1> QED
  BY <1>3, <1>4, <1>5, <1>6, <1>7 DEF Next

(* A step that hands nothing over keeps the bounds, unless it leaves an    *)
(* Allocated beyond the trigger point with one thread fewer to notice.     *)
LEMMA QuietStep ==
  ASSUME SizesBounded, IInv, Typed',
         UNCHANGED localVars,
         \/ Allocated' = Allocated /\ Noticing \subseteq Noticing'
         \/ Allocated' =< TriggerPoint
  PROVE  IInv'
<1>1. Largest \in Nat /\ Largest' = Largest /\ Biggest' = Biggest
  BY BiggestIs DEF Largest, Biggest, Logged
<1>2. /\ IsFiniteSet(Noticing') /\ Cardinality(Noticing) \in Nat /\ Cardinality(Noticing') \in Nat
  <2>1. Noticing' \in SUBSET Threads
    BY DEF Noticing
  <2> QED
    BY <2>1, NoticingFinite, TriggerAssumption, FS_Subset, FS_CardinalityType
<1>3. \A t \in Threads :
        ThreadAllocated'[t] =< (AggregateLogAlloc'[t] + AggregateArrayLogAlloc'[t]) * Biggest'
  BY <1>1 DEF IInv, localVars
<1>4. CASE Allocated' = Allocated /\ Noticing \subseteq Noticing'
  <2>1. Cardinality(Noticing) =< Cardinality(Noticing')
    BY <1>2, <1>4, FS_Subset
  <2>2. Cardinality(Noticing) * Largest =< Cardinality(Noticing') * Largest
    BY <1>1, <1>2, <2>1, TimesMonotone
  <2>3. Cardinality(Noticing) * Largest \in Nat /\ Cardinality(Noticing') * Largest \in Nat
    BY <1>1, <1>2, Times
  <2>4. Allocated =< TriggerPoint + Cardinality(Noticing) * Largest /\ Allocated \in Nat
    BY DEF IInv, Typed
  <2>5. Allocated' =< TriggerPoint + Cardinality(Noticing') * Largest'
    BY <1>1, <1>4, <2>2, <2>3, <2>4, TriggerAssumption
  <2> QED
    BY <1>3, <2>5 DEF IInv
<1>5. CASE Allocated' =< TriggerPoint
  <2>1. Cardinality(Noticing') * Largest \in Nat
    BY <1>1, <1>2, Times
  <2>2. Allocated' =< TriggerPoint + Cardinality(Noticing') * Largest'
    BY <1>1, <1>5, <2>1, TriggerAssumption DEF Typed
  <2> QED
    BY <1>3, <2>2 DEF IInv
<1> QED
  BY <1>4, <1>5

LEMMA InvStep ==
  ASSUME SizesBounded, IInv, [Next]_vars
  PROVE  IInv'
<1>0. Typed /\ Typed'
  BY TypedStep DEF IInv
<1>1. ASSUME NEW t \in Threads
      PROVE  /\ AggregateLogAlloc[t] + AggregateArrayLogAlloc[t] + 1 =< LogEvery + ArrayLogEvery
             /\ AggregateLogAlloc[t] \in Nat /\ AggregateArrayLogAlloc[t] \in Nat
  BY <1>0, TriggerAssumption DEF Typed
<1>2. ASSUME NEW t \in Threads, NEW a \in Sizes, log_alloc(t, a)
      PROVE  IInv'
  <2>1. a \in Nat /\ a =< Biggest
    BY BiggestIs DEF Logged
  <2>2. \A u \in Threads \ {t} : /\ AggregateLogAlloc'[u] = AggregateLogAlloc[u]
                                 /\ AggregateArrayLogAlloc'[u] = AggregateArrayLogAlloc[u]
    BY <1>0, <1>2 DEF log_alloc, Typed
  <2>3. \/ HandOver(t, ThreadAllocated[t] + a)
        \/ /\ Keep(t, ThreadAllocated[t] + a)
           /\ AggregateLogAlloc'[t] + AggregateArrayLogAlloc'[t] =
                AggregateLogAlloc[t] + AggregateArrayLogAlloc[t] + 1
    BY <1>0, <1>1, <1>2 DEF log_alloc, Typed
  <2> QED
    BY <1>0, <1>1, <1>2, <2>1, <2>2, <2>3, LogStep DEF log_alloc
<1>3. ASSUME NEW t \in Threads, NEW array \in Arrays, log_array_alloc(t, array[1], array[2])
      PROVE  IInv'
  <2> DEFINE a == ArrayLogged(array[1], array[2])
  <2>1. a \in Nat /\ a =< Biggest
    BY BiggestIs DEF Logged
  <2>2. \A u \in Threads \ {t} : /\ AggregateLogAlloc'[u] = AggregateLogAlloc[u]
                                 /\ AggregateArrayLogAlloc'[u] = AggregateArrayLogAlloc[u]
    BY <1>0, <1>3 DEF log_array_alloc, Typed
  <2>3. \/ HandOver(t, ThreadAllocated[t] + a)
        \/ /\ Keep(t, ThreadAllocated[t] + a)
           /\ AggregateLogAlloc'[t] + AggregateArrayLogAlloc'[t] =
                AggregateLogAlloc[t] + AggregateArrayLogAlloc[t] + 1
    BY <1>0, <1>1, <1>3 DEF log_array_alloc, Typed
  <2> HIDE DEF a
  <2> QED
    BY <1>0, <1>1, <1>3, <2>1, <2>2, <2>3, LogStep DEF log_array_alloc
<1>4. ASSUME NEW t \in Threads, Logging(t)
      PROVE  IInv'
  <2>1. CASE Compare(t)
    <3>1. CASE Allocated > TriggerPoint
      BY <1>0, <2>1, <3>1, QuietStep DEF Compare, Goto, Noticing, Typed
    <3>2. CASE ~(Allocated > TriggerPoint)
      BY <1>0, <2>1, <3>2, QuietStep, TriggerAssumption DEF Compare, Typed
    <3> QED
      BY <3>1, <3>2
  <2>2. CASE Exchange(t)
    BY <1>0, <2>2, QuietStep, TriggerAssumption DEF Exchange
  <2>3. CASE SetStartCollectionEvent(t)
    BY <1>0, <2>3, QuietStep DEF SetStartCollectionEvent, Goto, Noticing, Typed
  <2> QED
    BY <1>4, <2>1, <2>2, <2>3 DEF Logging
<1>5. CASE WakeUp \/ Collected \/ UNCHANGED vars
  BY <1>0, <1>5, QuietStep DEF WakeUp, Collected, vars, Noticing
<1> QED
  BY <1>2, <1>3, <1>4, <1>5 DEF Next

LEMMA Invariance ==
  ASSUME SizesBounded
  PROVE  Spec => []IInv
<1>1. Init => IInv
  BY InvInit
<1>2. IInv /\ [Next]_vars => IInv'
  BY InvStep
<1> QED
  BY <1>1, <1>2, PTL DEF Spec

(* The sum of a thread is less than what it hands over at the latest.      *)
LEMMA SumsFit ==
  ASSUME SizesBounded, IInv
  PROVE  ThreadAllocated \in [Threads -> 0 .. Largest]
<1>1. /\ Biggest \in Nat /\ Largest \in Nat
      /\ Largest = (LogEvery + ArrayLogEvery) * Biggest
  BY BiggestIs
<1>2. ASSUME NEW t \in Threads
      PROVE  ThreadAllocated[t] \in 0 .. Largest
  <2> DEFINE calls == AggregateLogAlloc[t] + AggregateArrayLogAlloc[t]
  <2>1. calls \in Nat /\ calls =< LogEvery + ArrayLogEvery /\ LogEvery + ArrayLogEvery \in Nat
    BY TriggerAssumption DEF IInv, Typed
  <2>2. ThreadAllocated[t] \in Nat /\ ThreadAllocated[t] =< calls * Biggest
    BY DEF IInv, Typed
  <2> HIDE DEF calls
  <2>3. calls * Biggest =< Largest /\ calls * Biggest \in Nat
    BY <1>1, <2>1, TimesMonotone, Times
  <2> QED
    BY <1>1, <2>2, <2>3
<1> QED
  BY <1>2 DEF IInv, Typed

(* Allocated never goes far beyond the trigger point.                      *)
LEMMA AllocatedFits ==
  ASSUME SizesBounded, IInv
  PROVE  /\ Allocated \in 0 .. TriggerPoint + Cardinality(Threads) * Largest
         /\ Allocated =< TriggerPoint + Cardinality(Threads) * Largest
<1>1. Largest \in Nat
  BY BiggestIs
<1>2. Noticing \in SUBSET Threads
  BY DEF Noticing
<1>3. Cardinality(Noticing) =< Cardinality(Threads) /\ Cardinality(Threads) \in Nat
  BY <1>2, TriggerAssumption, FS_Subset, FS_CardinalityType
<1>4. Cardinality(Noticing) * Largest =< Cardinality(Threads) * Largest
  BY <1>1, <1>3, NoticingFinite, TimesMonotone
<1>5. Cardinality(Noticing) * Largest \in Nat /\ Cardinality(Threads) * Largest \in Nat
  BY <1>1, <1>3, NoticingFinite, Times
<1>6. Allocated =< TriggerPoint + Cardinality(Noticing) * Largest /\ Allocated \in Nat
  BY DEF IInv, Typed
<1> QED
  BY <1>4, <1>5, <1>6, TriggerAssumption

(* The sums and Allocated never go beyond what all threads together may    *)
(* have handed over since one of them took it.                             *)
THEOREM SumsBounded ==
  ASSUME SizesBounded
  PROVE  Spec => []TypeOK
<1>1. ASSUME IInv
      PROVE  TypeOK
  BY <1>1, SumsFit, AllocatedFits DEF IInv, Typed, TypeOK
<1> QED
  BY <1>1, Invariance, PTL

(* An Allocated beyond the trigger point is never left without a thread    *)
(* that is about to notice.                                                *)
THEOREM SomebodyNotices ==
  ASSUME SizesBounded
  PROVE  Spec => []TriggerDuty
<1>1. ASSUME IInv
      PROVE  TriggerDuty
  <2>1. CASE Noticing = {}
    <3>1. Cardinality(Noticing) = 0
      BY <2>1, FS_EmptySet
    <3>2. Cardinality(Noticing) * Largest = 0
      BY <3>1, BiggestIs, Times
    <3> QED
      BY <1>1, <3>2, TriggerAssumption DEF IInv, Typed, TriggerDuty
  <2>2. CASE Noticing # {}
    BY <2>2 DEF Noticing, TriggerDuty
  <2> QED
    BY <2>1, <2>2
<1> QED
  BY <1>1, Invariance, PTL

-----------------------------------------------------------------------------
(* What the threads hold back, as a set of as many elements: a sum over the*)
(* threads.                                                                *)
Banked(held) == UNION {{u} \X (1 .. held[u]) : u \in Threads}

LEMMA BankOf ==
  ASSUME NEW u, NEW n \in Nat
  PROVE  IsFiniteSet({u} \X (1 .. n)) /\ Cardinality({u} \X (1 .. n)) = n
<1>1. IsFiniteSet(1 .. n) /\ Cardinality(1 .. n) = n
  BY FS_Interval, 1 \in Int, n \in Int
<1>2. IsFiniteSet({u}) /\ Cardinality({u}) = 1
  BY FS_Singleton
<1>3. /\ IsFiniteSet({u} \X (1 .. n))
      /\ Cardinality({u} \X (1 .. n)) = Cardinality({u}) * Cardinality(1 .. n)
  BY <1>1, <1>2, FS_Product
<1> QED
  BY <1>1, <1>2, <1>3

LEMMA BankedBounded ==
  ASSUME NEW b \in Nat, NEW held \in [Threads -> 0 .. b]
  PROVE  /\ IsFiniteSet(Banked(held)) /\ Cardinality(Banked(held)) \in Nat
         /\ Cardinality(Banked(held)) =< Cardinality(Threads) * b
<1>1. IsFiniteSet(1 .. b) /\ Cardinality(1 .. b) = b
  BY FS_Interval, 1 \in Int, b \in Int
<1>2. /\ IsFiniteSet(Threads \X (1 .. b))
      /\ Cardinality(Threads \X (1 .. b)) = Cardinality(Threads) * b
  BY <1>1, TriggerAssumption, FS_Product
<1>3. ASSUME NEW u \in Threads
      PROVE  1 .. held[u] \subseteq 1 .. b
  <2>1. held[u] \in 0 .. b
    OBVIOUS
  <2> QED
    BY <2>1
<1>4. Banked(held) \subseteq Threads \X (1 .. b)
  BY <1>3 DEF Banked
<1> QED
  BY <1>2, <1>4, FS_Subset, FS_CardinalityType

(* One of them has another sum.                                            *)
LEMMA BankedChange ==
  ASSUME NEW b \in Nat, NEW held \in [Threads -> 0 .. b], NEW t \in Threads, NEW n \in Nat,
         NEW held2, \A u \in Threads \ {t} : held2[u] = held[u], held2[t] = n
  PROVE  /\ IsFiniteSet(Banked(held2)) /\ Cardinality(Banked(held2)) \in Nat
         /\ Cardinality(Banked(held)) \in Nat
         /\ Cardinality(Banked(held2)) = Cardinality(Banked(held)) - held[t] + n
<1> DEFINE Others == UNION {{u} \X (1 .. held[u]) : u \in Threads \ {t}}
           Old == {t} \X (1 .. held[t])
           New == {t} \X (1 .. n)
<1>1. Banked(held) = Others \cup Old /\ Others \cap Old = {}
  BY DEF Banked
<1>2. Banked(held2) = Others \cup New /\ Others \cap New = {}
  BY DEF Banked
<1>3. IsFiniteSet(Banked(held)) /\ Cardinality(Banked(held)) \in Nat
  BY BankedBounded
<1>4. IsFiniteSet(Others) /\ Cardinality(Others) \in Nat
  BY <1>1, <1>3, FS_Subset, FS_CardinalityType
<1>5. held[t] \in Nat
  OBVIOUS
<1>6. /\ IsFiniteSet(Old) /\ Cardinality(Old) = held[t]
      /\ IsFiniteSet(New) /\ Cardinality(New) = n
  BY <1>5, BankOf
<1> HIDE DEF Others, Old, New
<1>7. Cardinality({}) = 0
  BY FS_EmptySet
<1>8. Cardinality(Banked(held)) = Cardinality(Others) + held[t]
  BY <1>1, <1>4, <1>5, <1>6, <1>7, FS_Union
<1>9. IsFiniteSet(Banked(held2)) /\ Cardinality(Banked(held2)) = Cardinality(Others) + n
  <2>1. /\ IsFiniteSet(Others \cup New)
        /\ Cardinality(Others \cup New) = Cardinality(Others) + Cardinality(New) - Cardinality(Others \cap New)
    BY <1>4, <1>6, FS_Union
  <2> QED
    BY <1>2, <1>4, <1>6, <1>7, <2>1
<1>10. Cardinality(Banked(held2)) = Cardinality(Banked(held)) - held[t] + n
  BY <1>4, <1>5, <1>8, <1>9
<1>11. Cardinality(Banked(held2)) \in Nat
  BY <1>4, <1>9
<1> QED
  BY <1>3, <1>9, <1>10, <1>11

(* The size of the largest element is a bound for what is not counted.     *)
LEMMA LargestCountsWithin ==
  ASSUME NEW k \in Factors, \A j \in Factors : j =< k
  PROVE  k \in Nat \ {0} /\ CountedWithin(k)
<1>1. Factors \subseteq Nat \ {0}
  BY TriggerAssumption DEF Factors
<1>2. ASSUME NEW array \in Arrays
      PROVE  array[1] * array[2] =< k * ArrayLogged(array[1], array[2])
  <2> DEFINE a == array[1]
             n == array[2]
  <2>1. a \in Nat /\ n \in Nat /\ k \in Nat /\ a =< k
    BY <1>1, TriggerAssumption DEF Factors
  <2> HIDE DEF a, n
  <2>2. a * n =< k * n /\ a * n \in Nat /\ k * n \in Nat /\ k * a \in Nat
    BY <2>1, TimesMonotone, Times
  <2>3. k * (a + n) = k * a + k * n
    BY <2>1
  <2>4. a * n =< k * (a + n)
    BY <2>2, <2>3
  <2> QED
    BY <2>4 DEF ArrayLogged, a, n
<1> QED
  BY <1>1, <1>2 DEF CountedWithin

(* A thread that comes to the exchange when Allocated is passed will ask   *)
(* for a collection, unless another asks first; so only threads that were  *)
(* there when one was last asked for throw anything away, each of them     *)
(* once, and no more than the trigger point.                               *)
Exchanging == {t \in Threads : pc[t] = "exchange"}
Losses(lost, counted) ==
  /\ counted =< Cardinality(Banked(ThreadAllocated)) + Allocated + lost * TriggerPoint
  /\ lost < Cardinality(Threads)
  /\ Allocated =< TriggerPoint => lost + Cardinality(Exchanging) < Cardinality(Threads)
InTime(k) ==
  /\ Threads = {} => unrequested = 0
  /\ Threads # {} => \E lost, counted \in Nat : Losses(lost, counted) /\ unrequested =< k * counted

LEMMA ExchangingFinite ==
  IsFiniteSet(Exchanging) /\ Cardinality(Exchanging) \in Nat /\ Cardinality(Threads) \in Nat
<1>1. Exchanging \in SUBSET Threads
  BY DEF Exchanging
<1> QED
  BY <1>1, TriggerAssumption, FS_Subset, FS_CardinalityType

LEMMA InTimeInit ==
  ASSUME SizesBounded, Init, NEW k \in Nat
  PROVE  InTime(k)
<1>1. unrequested = 0 /\ Allocated = 0 /\ Exchanging = {}
  BY DEF Init, Exchanging
<1>2. SUFFICES ASSUME Threads # {}
               PROVE  Losses(0, 0)
  <2>1. k * 0 = 0
    OBVIOUS
  <2> QED
    BY <1>1, <1>2, <2>1 DEF InTime
<1>3. Cardinality(Threads) \in Nat \ {0}
  BY <1>2, TriggerAssumption, FS_CardinalityType, FS_EmptySet
<1>4. ThreadAllocated \in [Threads -> 0 .. 0]
  BY DEF Init
<1>5. Cardinality(Banked(ThreadAllocated)) \in Nat
  BY <1>4, BankedBounded
<1>6. Cardinality(Exchanging) = 0 /\ 0 * TriggerPoint = 0
  BY <1>1, FS_EmptySet, TriggerAssumption
<1> QED
  BY <1>1, <1>3, <1>5, <1>6 DEF Losses

(* What is logged is kept or handed over.                                  *)
LEMMA LogInTime ==
  ASSUME SizesBounded, IInv, NEW k \in Nat, InTime(k),
         NEW t \in Threads, pc[t] = "run", NEW a \in Nat,
         \/ HandOver(t, ThreadAllocated[t] + a)
         \/ Keep(t, ThreadAllocated[t] + a),
         NEW used \in Nat, used =< k * a, unrequested' = unrequested + used
  PROVE  InTime(k)'
<1>1. PICK lost \in Nat, counted \in Nat : Losses(lost, counted) /\ unrequested =< k * counted
  BY DEF InTime
<1>2. /\ Largest \in Nat /\ ThreadAllocated \in [Threads -> 0 .. Largest]
      /\ ThreadAllocated[t] \in Nat
      /\ Allocated \in Nat /\ unrequested \in Nat /\ TriggerPoint \in Nat
  BY BiggestIs, SumsFit, TriggerAssumption DEF IInv, Typed
<1>3. Exchanging' = Exchanging
  BY DEF HandOver, Keep, Goto, Exchanging, IInv, Typed
<1>4. /\ Cardinality(Banked(ThreadAllocated)) \in Nat
      /\ Cardinality(Banked(ThreadAllocated)') \in Nat
      /\ Cardinality(Banked(ThreadAllocated)') + Allocated' =
           Cardinality(Banked(ThreadAllocated)) + Allocated + a
      /\ Allocated' \in Nat /\ Allocated' >= Allocated
  <2>1. \A u \in Threads \ {t} : ThreadAllocated'[u] = ThreadAllocated[u]
    BY <1>2 DEF HandOver, Keep
  <2>2. CASE HandOver(t, ThreadAllocated[t] + a)
    <3>1. ThreadAllocated'[t] = 0 /\ Allocated' = Allocated + (ThreadAllocated[t] + a)
      BY <1>2, <2>2 DEF HandOver
    <3>2. /\ Cardinality(Banked(ThreadAllocated)) \in Nat
          /\ Cardinality(Banked(ThreadAllocated')) \in Nat
          /\ Cardinality(Banked(ThreadAllocated')) =
               Cardinality(Banked(ThreadAllocated)) - ThreadAllocated[t] + 0
      BY <1>2, <2>1, <3>1, BankedChange
    <3>3. Banked(ThreadAllocated)' = Banked(ThreadAllocated')
      BY DEF Banked
    <3> QED
      BY <1>2, <3>1, <3>2, <3>3
  <2>3. CASE Keep(t, ThreadAllocated[t] + a)
    <3>1. ThreadAllocated'[t] = ThreadAllocated[t] + a /\ Allocated' = Allocated
      BY <1>2, <2>3 DEF Keep
    <3>2. /\ Cardinality(Banked(ThreadAllocated)) \in Nat
          /\ Cardinality(Banked(ThreadAllocated')) \in Nat
          /\ Cardinality(Banked(ThreadAllocated')) =
               Cardinality(Banked(ThreadAllocated)) - ThreadAllocated[t] + (ThreadAllocated[t] + a)
      BY <1>2, <2>1, <3>1, BankedChange
    <3>3. Banked(ThreadAllocated)' = Banked(ThreadAllocated')
      BY DEF Banked
    <3> QED
      BY <1>2, <3>1, <3>2, <3>3
  <2> QED
    BY <2>2, <2>3
<1>5. lost * TriggerPoint \in Nat
  BY <1>2, Times
<1>6. Losses(lost, counted + a)'
  <2>1. counted + a =< Cardinality(Banked(ThreadAllocated)') + Allocated' + lost * TriggerPoint
    BY <1>1, <1>2, <1>4, <1>5 DEF Losses
  <2>2. Allocated' =< TriggerPoint => lost + Cardinality(Exchanging') < Cardinality(Threads)
    BY <1>1, <1>2, <1>3, <1>4 DEF Losses
  <2> QED
    BY <1>1, <2>1, <2>2 DEF Losses
<1>7. unrequested' =< k * (counted + a)
  <2>1. k * (counted + a) = k * counted + k * a /\ k * counted \in Nat /\ k * a \in Nat
    BY Times
  <2> QED
    BY <1>1, <1>2, <2>1
<1>8. counted + a \in Nat
  OBVIOUS
<1> QED
  BY <1>6, <1>7, <1>8 DEF InTime

LEMMA InTimeStep ==
  ASSUME SizesBounded, IInv, [Next]_vars, NEW k \in Nat \ {0}, CountedWithin(k), InTime(k)
  PROVE  InTime(k)'
<1>0. /\ Typed /\ Largest \in Nat /\ TriggerPoint \in Nat /\ Allocated \in Nat
      /\ unrequested \in Nat
      /\ Cardinality(Banked(ThreadAllocated)) \in Nat
  BY BiggestIs, SumsFit, BankedBounded, TriggerAssumption DEF IInv, Typed
<1>1. ASSUME NEW t \in Threads, NEW a \in Sizes, log_alloc(t, a)
      PROVE  InTime(k)'
  <2>1. a \in Nat /\ a =< k * a
    <3>1. a \in Nat
      BY TriggerAssumption
    <3>2. 1 * a =< k * a /\ 1 * a = a
      BY <3>1, TimesMonotone
    <3> QED
      BY <3>1, <3>2
  <2>2. \/ HandOver(t, ThreadAllocated[t] + a)
        \/ Keep(t, ThreadAllocated[t] + a)
    BY <1>1 DEF log_alloc
  <2> QED
    BY <1>1, <2>1, <2>2, LogInTime DEF log_alloc
<1>2. ASSUME NEW t \in Threads, NEW array \in Arrays, log_array_alloc(t, array[1], array[2])
      PROVE  InTime(k)'
  <2> DEFINE a == ArrayLogged(array[1], array[2])
             used == array[1] * array[2]
  <2>1. array[1] \in Nat /\ array[2] \in Nat
    BY TriggerAssumption
  <2>2. a \in Nat /\ used \in Nat /\ used =< k * a
    BY <2>1, Times DEF ArrayLogged, CountedWithin
  <2>3. /\ HandOver(t, ThreadAllocated[t] + a) \/ Keep(t, ThreadAllocated[t] + a)
        /\ unrequested' = unrequested + used /\ pc[t] = "run"
    BY <1>2 DEF log_array_alloc
  <2> HIDE DEF a, used
  <2> QED
    BY <2>2, <2>3, LogInTime
<1>3. ASSUME NEW t \in Threads, Exchange(t), Allocated > TriggerPoint
      PROVE  InTime(k)'
  <2>1. /\ unrequested' = 0 /\ Allocated' = 0 /\ ThreadAllocated' = ThreadAllocated
        /\ t \notin Exchanging'
    BY <1>0, <1>3 DEF Exchange, Goto, localVars, Exchanging, Typed
  <2>2. /\ Cardinality(Exchanging') < Cardinality(Threads) /\ Cardinality(Threads) \in Nat \ {0}
        /\ Cardinality(Exchanging') \in Nat
    <3>1. Exchanging' \subseteq Threads /\ Exchanging' # Threads
      BY <2>1 DEF Exchanging
    <3>2. Cardinality(Exchanging') =< Cardinality(Threads) /\ Cardinality(Exchanging') # Cardinality(Threads)
      BY <3>1, TriggerAssumption, FS_Subset
    <3>3. Cardinality(Exchanging') \in Nat /\ Cardinality(Threads) \in Nat
      BY <3>1, TriggerAssumption, FS_Subset, FS_CardinalityType
    <3> QED
      BY <3>2, <3>3
  <2>3. 0 * TriggerPoint = 0 /\ Banked(ThreadAllocated)' = Banked(ThreadAllocated)
    BY <1>0, <2>1 DEF Banked
  <2>4. Losses(0, 0)'
    <3>1. 0 + Cardinality(Exchanging') < Cardinality(Threads)
      BY <2>2
    <3>2. 0 =< Cardinality(Banked(ThreadAllocated)') + Allocated' + 0 * TriggerPoint
      BY <1>0, <2>1, <2>3
    <3> QED
      BY <2>2, <3>1, <3>2 DEF Losses
  <2>5. k * 0 = 0
    OBVIOUS
  <2> QED
    BY <2>1, <2>4, <2>5 DEF InTime
<1>4. ASSUME NEW t \in Threads, Exchange(t), ~(Allocated > TriggerPoint)
      PROVE  InTime(k)'
  <2>1. /\ unrequested' = unrequested /\ Allocated' = 0 /\ ThreadAllocated' = ThreadAllocated
        /\ Exchanging' = Exchanging \ {t} /\ t \in Exchanging
    BY <1>0, <1>4 DEF Exchange, Goto, localVars, Exchanging, Typed
  <2>2. Cardinality(Exchanging') = Cardinality(Exchanging) - 1
    BY <2>1, ExchangingFinite, FS_RemoveElement
  <2>3. PICK lost \in Nat, counted \in Nat : Losses(lost, counted) /\ unrequested =< k * counted
    BY DEF InTime
  <2>4. /\ (lost + 1) * TriggerPoint = lost * TriggerPoint + TriggerPoint
        /\ lost * TriggerPoint \in Nat
        /\ Banked(ThreadAllocated)' = Banked(ThreadAllocated)
    BY <1>0, <2>1, Times DEF Banked
  <2>5. lost + Cardinality(Exchanging) < Cardinality(Threads) /\ Cardinality(Exchanging) # 0
    BY <1>0, <1>4, <2>1, <2>3, ExchangingFinite, FS_EmptySet DEF Losses
  <2>6. /\ lost + 1 < Cardinality(Threads)
        /\ lost + 1 + Cardinality(Exchanging') < Cardinality(Threads)
    BY <2>2, <2>5, ExchangingFinite
  <2>7. counted =< Cardinality(Banked(ThreadAllocated)') + Allocated' + (lost + 1) * TriggerPoint
    BY <1>0, <1>4, <2>1, <2>3, <2>4 DEF Losses
  <2>8. Losses(lost + 1, counted)'
    BY <2>6, <2>7 DEF Losses
  <2> QED
    BY <2>1, <2>3, <2>8 DEF InTime
<1>5. ASSUME unrequested' = unrequested, Allocated' = Allocated, ThreadAllocated' = ThreadAllocated,
             Allocated > TriggerPoint \/ Exchanging' \subseteq Exchanging
      PROVE  InTime(k)'
  <2>1. Banked(ThreadAllocated)' = Banked(ThreadAllocated)
    BY <1>5 DEF Banked
  <2>2. Allocated =< TriggerPoint => Cardinality(Exchanging') =< Cardinality(Exchanging)
                                     /\ Cardinality(Exchanging') \in Nat
    BY <1>0, <1>5, ExchangingFinite, FS_Subset, FS_CardinalityType
  <2>3. ASSUME NEW lost \in Nat, NEW counted \in Nat, Losses(lost, counted)
        PROVE  Losses(lost, counted)'
    BY <1>5, <2>1, <2>2, <2>3, ExchangingFinite DEF Losses
  <2> QED
    BY <1>5, <2>3 DEF InTime
<1>6. ASSUME NEW t \in Threads, Compare(t) \/ SetStartCollectionEvent(t)
      PROVE  InTime(k)'
  <2>1. Allocated > TriggerPoint \/ Exchanging' \subseteq Exchanging
    BY <1>0, <1>6 DEF Compare, SetStartCollectionEvent, Goto, Exchanging, Typed
  <2> QED
    BY <1>5, <1>6, <2>1 DEF Compare, SetStartCollectionEvent, localVars
<1>7. CASE WakeUp \/ Collected \/ UNCHANGED vars
  BY <1>5, <1>7 DEF WakeUp, Collected, vars, localVars, Exchanging
<1> QED
  BY <1>1, <1>2, <1>3, <1>4, <1>6, <1>7 DEF Next, Logging

(* However the threads race for the exchange, no more than the trigger     *)
(* point and two hand-overs for each thread are counted without a request  *)
(* for a collection, whatever arrays are allocated; no more than k times as*)
(* much is allocated, where no array has more than k times what is counted *)
(* for it.                                                                 *)
THEOREM AlwaysInTime ==
  ASSUME SizesBounded
  PROVE  Spec => []RequestedInTime
<1> DEFINE InTimeForAll == \A k \in Nat \ {0} : CountedWithin(k) => InTime(k)
<1>1. Init => IInv /\ InTimeForAll
  BY InvInit, InTimeInit
<1>2. (IInv /\ InTimeForAll) /\ [Next]_vars => (IInv /\ InTimeForAll)'
  <2> SUFFICES ASSUME IInv, InTimeForAll, [Next]_vars
               PROVE  IInv' /\ InTimeForAll'
    OBVIOUS
  <2>1. ASSUME NEW k \in Nat \ {0}, CountedWithin(k)
        PROVE  InTime(k)'
    BY <2>1, InTimeStep
  <2> QED
    BY <2>1, InvStep DEF CountedWithin
<1>3. ASSUME IInv, InTimeForAll
      PROVE  RequestedInTime
  <2> DEFINE n == Cardinality(Threads)
             most == n * (TriggerPoint + 2 * Largest)
  <2> SUFFICES ASSUME NEW k \in Factors, CountedWithin(k)
               PROVE  unrequested =< k * most
    BY DEF RequestedInTime
  <2>1. Largest \in Nat /\ TriggerPoint \in Nat /\ n \in Nat /\ unrequested \in Nat /\ Allocated \in Nat
    BY <1>3, BiggestIs, ExchangingFinite, TriggerAssumption DEF IInv, Typed
  <2>0. k \in Nat \ {0} /\ InTime(k)
    BY <1>3, TriggerAssumption DEF Factors
  <2>2. CASE Threads = {}
    <3>1. n = 0 /\ unrequested = 0
      BY <2>0, <2>2, FS_EmptySet DEF InTime
    <3>2. 0 * (TriggerPoint + 2 * Largest) = 0 /\ k * 0 = 0
      BY <2>0, <2>1
    <3> QED
      BY <3>1, <3>2
  <2>3. CASE Threads # {}
    <3>1. PICK lost \in Nat, counted \in Nat : Losses(lost, counted) /\ unrequested =< k * counted
      BY <2>0, <2>3 DEF InTime
    <3>2. Cardinality(Banked(ThreadAllocated)) \in Nat /\ Cardinality(Banked(ThreadAllocated)) =< n * Largest
      BY <1>3, <2>1, SumsFit, BankedBounded
    <3>3. Allocated =< TriggerPoint + n * Largest
      BY <1>3, AllocatedFits
    <3>4. lost + 1 =< n /\ lost + 1 \in Nat
      BY <2>1, <3>1 DEF Losses
    <3> HIDE DEF n
    <3>5. (lost + 1) * TriggerPoint =< n * TriggerPoint
      BY <2>1, <3>4, TimesMonotone
    <3>6. /\ (lost + 1) * TriggerPoint = lost * TriggerPoint + TriggerPoint
          /\ lost * TriggerPoint \in Nat /\ n * TriggerPoint \in Nat /\ n * Largest \in Nat
      BY <2>1, Times
    <3>7. n * (TriggerPoint + 2 * Largest) = n * TriggerPoint + n * Largest + n * Largest
      BY <2>1
    <3>8. counted =< Cardinality(Banked(ThreadAllocated)) + Allocated + lost * TriggerPoint
      BY <3>1 DEF Losses
    <3>9. counted =< most /\ most \in Nat
      BY <2>1, <3>2, <3>3, <3>5, <3>6, <3>7, <3>8
    <3> HIDE DEF most
    <3>10. counted * k =< most * k /\ counted * k \in Nat /\ most * k \in Nat
      BY <2>0, <3>9, TimesMonotone, Times
    <3>11. counted * k = k * counted /\ most * k = k * most
      BY <2>0, <3>9
    <3> QED
      BY <2>1, <3>1, <3>10, <3>11
  <2> QED
    BY <2>2, <2>3
<1> QED
  BY <1>1, <1>2, <1>3, PTL DEF Spec
=============================================================================
