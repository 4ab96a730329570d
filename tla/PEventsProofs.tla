---------------------------- MODULE PEventsProofs ----------------------------
(***************************************************************************)
(* Proofs about PEvents, for any threads, events, wfmo objects and calls.  *)
(*                                                                         *)
(* What has to be counted are the registrations with an event that come    *)
(* after those the SetEvent that holds its mutex is through with: the      *)
(* references of a wfmo object follow the ones it has passed, the Status   *)
(* of a wait for all those it has served, one ahead while it signals.      *)
(***************************************************************************)
EXTENDS PEvents, FunctionTheorems, FiniteSetTheorems, SequenceTheorems, TLAPS

Registrations == [Waiter : Wfmos, WaitIndex : Nat]

WaitPlaces == {"wait.lock", "wait.sleep", "wait.timedout"}
Serving == {"set.next", "set.waiter", "set.release"}
SetPlaces == Serving \cup {"set.lock", "set.signal", "pulse.reset"}
Holding == {"multi.register", "multi.done"}
MultiPlaces == Holding \cup {"multi.sleep", "multi.timedout", "multi.unref"}

(* The registrations of w after the first from[e] of each event e.         *)
After(s, n, w) == {k \in DOMAIN s : n < k /\ s[k].Waiter = w}
Regs(waits, from, w) == UNION {{e} \X After(waits[e], from[e], w) : e \in Events}

(* How many its SetEvent has passed, and how many it has served.           *)
Passed == [e \in Events |-> IF Mutex[e] = NULL THEN 0 ELSE i[Mutex[e]]]
Served ==
  [e \in Events |-> IF Mutex[e] # NULL /\ pc[Mutex[e]] = "set.release"
                    THEN Passed[e] + 1 ELSE Passed[e]]
Owed(w) == Regs(RegisteredWaits, Passed, w)
Missing(w) == Regs(RegisteredWaits, Served, w)

-----------------------------------------------------------------------------
(* The inductive invariant.                                                *)
Types ==
  /\ State \in [Events -> BOOLEAN]
  /\ RegisteredWaits \in [Events -> Seq(Registrations)]
  /\ wfmo \in [Wfmos -> Wfmo]
  /\ Mutex \in [Events \cup Wfmos -> Threads \cup {NULL}]
  /\ asleep \in [Events \cup Wfmos -> SUBSET Threads]
  /\ pc \in [Threads -> Pc]
  /\ call \in [Threads -> Call \cup {NULL}]
  /\ i \in [Threads -> Nat] /\ skipped_refs \in [Threads -> Nat]
  /\ mine \in [Threads -> Wfmos \cup {NULL}]
  /\ timedOut \in [Threads -> BOOLEAN]

(* A thread is in a call of its own that leads where it is; only a         *)
(* WaitForMultipleEvents has a wfmo object, and no two have the same.      *)
CallOf(t) ==
  /\ call[t] \in Calls[t] \cup {NULL}
  /\ pc[t] # "idle" => call[t] \in Calls[t]
  /\ pc[t] \in WaitPlaces => call[t].fn = "WaitForEvent"
  /\ pc[t] \in SetPlaces => call[t].fn \in {"SetEvent", "PulseEvent"}
  /\ pc[t] \in MultiPlaces =>
       call[t].fn = "WaitForMultipleEvents" /\ mine[t] # NULL /\ i[t] =< Count(t)
  /\ pc[t] \notin MultiPlaces => mine[t] = NULL /\ skipped_refs[t] = 0
InCall == \A t \in Threads : CallOf(t)
OneOwner == \A t, u \in Threads : mine[t] = mine[u] /\ mine[t] # NULL => t = u

(* The mutexes are held at these places and no others.                     *)
Locks ==
  /\ \A t \in Threads :
       /\ pc[t] \in Serving => Mutex[Ev(t)] = t
       /\ pc[t] \in Holding => Mutex[mine[t]] = t
  /\ \A e \in Events : Mutex[e] # NULL => pc[Mutex[e]] \in Serving /\ Ev(Mutex[e]) = e
  /\ \A w \in Wfmos : Mutex[w] # NULL => pc[Mutex[w]] \in Holding /\ mine[Mutex[w]] = w

Sleepers ==
  /\ \A e \in Events : \A t \in asleep[e] : At(t, "wait.sleep") /\ Ev(t) = e
  /\ \A w \in Wfmos : \A t \in asleep[w] : At(t, "multi.sleep") /\ mine[t] = w

(* How far a SetEvent is.                                                  *)
PlaceOf(t) ==
  pc[t] \in Serving =>
    /\ i[t] =< Len(Waits(t))
    /\ pc[t] # "set.next" => i[t] < Len(Waits(t))
    /\ Ev(t) \in AutoReset => i[t] = 0
InQueue == \A t \in Threads : PlaceOf(t)

(* A wfmo object that is still waited for is somebody's; it is registered  *)
(* with events its owner has come to.                                      *)
Owned ==
  /\ \A w \in Wfmos : wfmo[w].StillWaiting => \E t \in Threads : mine[t] = w
  /\ \A t \in Threads : mine[t] # NULL =>
       /\ wfmo[mine[t]].WaitAll = call[t].waitAll
       /\ At(t, "multi.register") => wfmo[mine[t]].StillWaiting
       /\ At(t, "multi.unref") => ~wfmo[mine[t]].StillWaiting
       /\ \A p \in Owed(mine[t]) : \E j \in 1 .. i[t] : j =< Count(t) /\ p[1] = call[t].events[j]

(* A wait for any of its events that still waits has not been given one,   *)
(* except by itself.                                                       *)
Unfired ==
  \A t \in Threads :
    mine[t] # NULL /\ ~wfmo[mine[t]].WaitAll /\ wfmo[mine[t]].StillWaiting /\ pc[t] # "multi.done" =>
      wfmo[mine[t]].Status = -1

Balanced ==
  /\ \A w \in Wfmos :
       /\ IsFiniteSet(Owed(w))
       /\ (\A t \in Threads : mine[t] # w) => wfmo[w].RefCount = Cardinality(Owed(w))
  /\ \A t \in Threads : mine[t] # NULL =>
       wfmo[mine[t]].RefCount = Cardinality(Owed(mine[t])) + 1 + skipped_refs[t] + Unvisited(t)

(* A wait that is over may be given some of its events, and lose others.   *)
Counted ==
  /\ \A w \in Wfmos : wfmo[w].WaitAll /\ (\A t \in Threads : mine[t] # w) =>
       wfmo[w].Status >= Cardinality(Missing(w))
  /\ \A t \in Threads : mine[t] # NULL /\ wfmo[mine[t]].WaitAll =>
       /\ wfmo[mine[t]].Status >= Cardinality(Missing(mine[t])) + Unvisited(t)
       /\ wfmo[mine[t]].StillWaiting =>
            wfmo[mine[t]].Status = Cardinality(Missing(mine[t])) + Unvisited(t)

IInv ==
  /\ Types /\ InCall /\ OneOwner /\ Locks /\ Sleepers /\ InQueue
  /\ Owned /\ Unfired /\ Balanced /\ Counted /\ NoLostWakeup

(* What keeps threads from waiting in a circle: there are finitely many    *)
(* threads, and there is an order of the events in which every call of     *)
(* WaitForMultipleEvents names the events it waits for, each of them once. *)
OrderedCalls ==
  /\ IsFiniteSet(Threads)
  /\ \E rank \in [Events -> Nat] :
       \A t \in Threads : \A c \in Calls[t] : c.fn = "WaitForMultipleEvents" =>
         \A j, k \in DOMAIN c.events : j < k => rank[c.events[j]] < rank[c.events[k]]

-----------------------------------------------------------------------------
(* Counting registrations.                                                 *)

(* The position k of s, counted among those in K.                          *)
LEMMA RankIsPosition ==
  ASSUME NEW n \in Nat, NEW K \in SUBSET (1 .. n)
  PROVE  /\ IsFiniteSet(K) /\ Cardinality(K) \in Nat
         /\ [k \in K |-> Cardinality(K \cap 1 .. k)] \in Bijection(K, 1 .. Cardinality(K))
<1> DEFINE rank == [k \in K |-> Cardinality(K \cap 1 .. k)]
<1>1. IsFiniteSet(K) /\ Cardinality(K) \in Nat
  <2>1. IsFiniteSet(1 .. n)
    BY FS_Interval, 1 \in Int, n \in Int
  <2> QED
    BY <2>1, FS_Subset, FS_CardinalityType
<1>2. ASSUME NEW k \in K
      PROVE  IsFiniteSet(K \cap 1 .. k) /\ Cardinality(K \cap 1 .. k) \in 1 .. Cardinality(K)
  <2>1. IsFiniteSet(K \cap 1 .. k) /\ Cardinality(K \cap 1 .. k) =< Cardinality(K)
    BY <1>1, FS_Subset
  <2>2. Cardinality(K \cap 1 .. k) \in Nat
    BY <2>1, FS_CardinalityType
  <2>3. k \in K \cap 1 .. k
    OBVIOUS
  <2>4. Cardinality(K \cap 1 .. k) # 0
    BY <2>1, <2>3, FS_EmptySet
  <2> QED
    BY <1>1, <2>1, <2>2, <2>4
<1>3. rank \in [K -> 1 .. Cardinality(K)]
  BY <1>2
<1>4. ASSUME NEW k \in K, NEW l \in K, k < l
      PROVE  Cardinality(K \cap 1 .. k) # Cardinality(K \cap 1 .. l)
  <2>1. K \cap 1 .. k \subseteq K \cap 1 .. l
    BY <1>4
  <2>2. l \in K \cap 1 .. l /\ l \notin K \cap 1 .. k
    BY <1>4
  <2> QED
    BY <1>2, <2>1, <2>2, FS_Subset
<1>5. \A k, l \in K : rank[k] = rank[l] => k = l
  <2> SUFFICES ASSUME NEW k \in K, NEW l \in K, k # l
               PROVE  rank[k] # rank[l]
    OBVIOUS
  <2>1. k < l \/ l < k
    OBVIOUS
  <2> QED
    BY <2>1, <1>4
<1>6. rank \in Injection(K, 1 .. Cardinality(K))
  BY <1>3, <1>5, Fun_IsInj
<1>7. IsFiniteSet(1 .. Cardinality(K)) /\ Cardinality(1 .. Cardinality(K)) = Cardinality(K)
  BY <1>1, FS_Interval, 1 \in Int, Cardinality(K) \in Int
<1>8. rank \in Surjection(K, 1 .. Cardinality(K))
  BY <1>6, <1>7, FS_Injection
<1> QED
  BY <1>1, <1>6, <1>8, Fun_IsBij

(* What moving together the positions in K makes of s.                     *)
Picked(s, K) == [n \in 1 .. Cardinality(K) |-> s[CHOOSE k \in K : Cardinality(K \cap 1 .. k) = n]]
LEMMA PickedCount ==
  ASSUME NEW s \in Seq(Registrations), NEW K \in SUBSET DOMAIN s
  PROVE  /\ Picked(s, K) \in Seq(Registrations)
         /\ \A n \in DOMAIN Picked(s, K) : \E k \in K : Picked(s, K)[n] = s[k]
         /\ \A w : Cardinality(After(Picked(s, K), 0, w)) = Cardinality({k \in K : s[k].Waiter = w})
<1> DEFINE rank == [k \in K |-> Cardinality(K \cap 1 .. k)]
           at(n) == CHOOSE k \in K : Cardinality(K \cap 1 .. k) = n
<1>1. Len(s) \in Nat /\ DOMAIN s = 1 .. Len(s)
  OBVIOUS
<1>2. IsFiniteSet(K) /\ Cardinality(K) \in Nat /\ rank \in Bijection(K, 1 .. Cardinality(K))
  BY <1>1, RankIsPosition
<1> HIDE DEF rank
<1>onto. \A n \in 1 .. Cardinality(K) : \E k \in K : rank[k] = n
  <2>1. rank \in Surjection(K, 1 .. Cardinality(K))
    BY <1>2, Fun_BijectionProperties
  <2> QED
    BY <2>1, Fun_SurjectionProperties
<1> USE DEF rank
<1>3. ASSUME NEW n \in 1 .. Cardinality(K)
      PROVE  at(n) \in K /\ rank[at(n)] = n
  <2>1. \E k \in K : rank[k] = n
    BY <1>onto
  <2> QED
    BY <2>1
<1>4. \A k \in K : rank[k] \in 1 .. Cardinality(K) /\ at(rank[k]) = k
  <2> SUFFICES ASSUME NEW k \in K
               PROVE  rank[k] \in 1 .. Cardinality(K) /\ at(rank[k]) = k
    OBVIOUS
  <2>1. rank[k] \in 1 .. Cardinality(K)
    BY <1>2, Fun_BijectionProperties
  <2>2. at(rank[k]) \in K /\ rank[at(rank[k])] = rank[k]
    BY <2>1, <1>3
  <2> QED
    BY <2>1, <2>2, <1>2, Fun_BijectionProperties
<1> HIDE DEF rank, at
<1>5. Picked(s, K) = [n \in 1 .. Cardinality(K) |-> s[at(n)]]
  BY DEF Picked, at
<1>6. ASSUME NEW n \in 1 .. Cardinality(K)
      PROVE  Picked(s, K)[n] = s[at(n)] /\ s[at(n)] \in Registrations
  BY <1>3, <1>5, <1>1
<1>7. Picked(s, K) \in Seq(Registrations) /\ DOMAIN Picked(s, K) = 1 .. Cardinality(K)
  BY <1>2, <1>5, <1>6
<1>8. ASSUME NEW w
      PROVE  Cardinality(After(Picked(s, K), 0, w)) = Cardinality({k \in K : s[k].Waiter = w})
  <2> DEFINE A == After(Picked(s, K), 0, w)
             B == {k \in K : s[k].Waiter = w}
             g == [k \in B |-> rank[k]]
  <2>1. A = {n \in 1 .. Cardinality(K) : s[at(n)].Waiter = w}
    BY <1>6, <1>7 DEF After
  <2>2. g \in [B -> A]
    BY <2>1, <1>4
  <2>3. \A k, l \in B : g[k] = g[l] => k = l
    BY <1>4
  <2>4. \A n \in A : \E k \in B : g[k] = n
    BY <2>1, <1>3
  <2>5. g \in Bijection(B, A)
    BY <2>2, <2>3, <2>4, Fun_IsBij, Fun_IsInj, Fun_IsSurj
  <2>6. IsFiniteSet(B)
    BY <1>2, FS_Subset
  <2>7. ExistsBijection(B, A)
    BY <2>5, Fun_ExistsBij
  <2> QED
    BY <2>6, <2>7, FS_Bijection
<1> QED
  BY <1>3, <1>5, <1>7, <1>8

LEMMA AfterFinite ==
  ASSUME NEW s \in Seq(Registrations), NEW n, NEW w
  PROVE  IsFiniteSet(After(s, n, w)) /\ Cardinality(After(s, n, w)) \in Nat
<1>1. Len(s) \in Nat /\ After(s, n, w) \subseteq 1 .. Len(s)
  BY DEF After
<1>2. IsFiniteSet(1 .. Len(s))
  BY <1>1, FS_Interval, 1 \in Int, Len(s) \in Int
<1> QED
  BY <1>1, <1>2, FS_Subset, FS_CardinalityType

(* One more is passed.                                                     *)
LEMMA AfterNext ==
  ASSUME NEW s \in Seq(Registrations), NEW n \in Nat, n < Len(s), NEW w
  PROVE  /\ IsFiniteSet(After(s, n, w)) /\ Cardinality(After(s, n, w)) \in Nat
         /\ IsFiniteSet(After(s, n + 1, w)) /\ Cardinality(After(s, n + 1, w)) \in Nat
         /\ Cardinality(After(s, n + 1, w)) =
              Cardinality(After(s, n, w)) - (IF s[n + 1].Waiter = w THEN 1 ELSE 0)
<1>1. After(s, n + 1, w) = After(s, n, w) \ {n + 1}
  BY DEF After
<1>2. n + 1 \in After(s, n, w) <=> s[n + 1].Waiter = w
  BY DEF After
<1>3. IsFiniteSet(After(s, n, w)) /\ Cardinality(After(s, n, w)) \in Nat
  BY AfterFinite
<1>4. IsFiniteSet(After(s, n + 1, w)) /\ Cardinality(After(s, n + 1, w)) \in Nat
  BY AfterFinite
<1> QED
  BY <1>1, <1>2, <1>3, <1>4, FS_RemoveElement

(* The first is taken from the queue.                                      *)
LEMMA AfterTail ==
  ASSUME NEW s \in Seq(Registrations), s # <<>>, NEW w
  PROVE  /\ IsFiniteSet(After(Tail(s), 0, w)) /\ Cardinality(After(Tail(s), 0, w)) \in Nat
         /\ Cardinality(After(Tail(s), 0, w)) = Cardinality(After(s, 1, w))
<1> DEFINE A == After(Tail(s), 0, w)
           B == After(s, 1, w)
           g == [k \in A |-> k + 1]
<1>1. Tail(s) \in Seq(Registrations) /\ Len(Tail(s)) = Len(s) - 1 /\ Len(s) \in Nat \ {0}
  BY EmptySeq
<1>2. \A k \in 1 .. Len(Tail(s)) : Tail(s)[k] = s[k + 1]
  BY <1>1
<1>3. A = {k \in 1 .. Len(s) - 1 : s[k + 1].Waiter = w}
  BY <1>1, <1>2 DEF After
<1>4. B = {k \in 2 .. Len(s) : s[k].Waiter = w}
  BY <1>1 DEF After
<1>5. g \in [A -> B]
  BY <1>3, <1>4, <1>1
<1>6. \A k, l \in A : g[k] = g[l] => k = l
  BY <1>3
<1>7. \A m \in B : \E k \in A : g[k] = m
  <2> SUFFICES ASSUME NEW m \in B
               PROVE  \E k \in A : g[k] = m
    OBVIOUS
  <2>1. m - 1 \in A /\ (m - 1) + 1 = m
    BY <1>1, <1>3, <1>4
  <2> QED
    BY <2>1
<1>8. g \in Bijection(A, B)
  BY <1>5, <1>6, <1>7, Fun_IsBij, Fun_IsInj, Fun_IsSurj
<1>9. IsFiniteSet(A) /\ Cardinality(A) \in Nat
  BY <1>1, AfterFinite
<1>10. ExistsBijection(A, B)
  BY <1>8, Fun_ExistsBij
<1> QED
  BY <1>9, <1>10, FS_Bijection

(* One is added.                                                           *)
LEMMA AfterAppend ==
  ASSUME NEW s \in Seq(Registrations), NEW r \in Registrations, NEW w
  PROVE  /\ IsFiniteSet(After(Append(s, r), 0, w)) /\ Cardinality(After(Append(s, r), 0, w)) \in Nat
         /\ Cardinality(After(Append(s, r), 0, w)) =
              Cardinality(After(s, 0, w)) + (IF r.Waiter = w THEN 1 ELSE 0)
<1>1. /\ Append(s, r) \in Seq(Registrations) /\ Len(s) \in Nat
      /\ Len(Append(s, r)) = Len(s) + 1 /\ Append(s, r)[Len(s) + 1] = r
      /\ \A k \in 1 .. Len(s) : Append(s, r)[k] = s[k]
  OBVIOUS
<1>2. After(Append(s, r), 0, w) = After(s, 0, w) \cup (IF r.Waiter = w THEN {Len(s) + 1} ELSE {})
  BY <1>1 DEF After
<1>3. Len(s) + 1 \notin After(s, 0, w)
  BY <1>1 DEF After
<1>4. IsFiniteSet(After(s, 0, w)) /\ Cardinality(After(s, 0, w)) \in Nat
  BY AfterFinite
<1>5. CASE r.Waiter = w
  <2>1. After(Append(s, r), 0, w) = After(s, 0, w) \cup {Len(s) + 1}
    BY <1>2, <1>5
  <2>2. /\ IsFiniteSet(After(Append(s, r), 0, w))
        /\ Cardinality(After(Append(s, r), 0, w)) = Cardinality(After(s, 0, w)) + 1
    BY <2>1, <1>3, <1>4, FS_AddElement
  <2> QED
    BY <2>2, <1>4, <1>5
<1>6. CASE r.Waiter # w
  <2>1. After(Append(s, r), 0, w) = After(s, 0, w)
    BY <1>2, <1>6
  <2> QED
    BY <2>1, <1>4, <1>6
<1> QED
  BY <1>5, <1>6

(* The registrations with e change and no others.                          *)
LEMMA RegsChange ==
  ASSUME NEW waits, NEW waits2, NEW from, NEW from2, NEW w, NEW e \in Events,
         \A f \in Events \ {e} : waits2[f] = waits[f] /\ from2[f] = from[f],
         IsFiniteSet(Regs(waits, from, w)), IsFiniteSet(After(waits2[e], from2[e], w))
  PROVE  /\ IsFiniteSet(Regs(waits2, from2, w)) /\ Cardinality(Regs(waits2, from2, w)) \in Nat
         /\ Cardinality(After(waits[e], from[e], w)) \in Nat
         /\ Cardinality(Regs(waits, from, w)) >= Cardinality(After(waits[e], from[e], w))
         /\ Cardinality(Regs(waits2, from2, w)) =
              Cardinality(Regs(waits, from, w)) - Cardinality(After(waits[e], from[e], w))
                + Cardinality(After(waits2[e], from2[e], w))
<1> DEFINE A == After(waits[e], from[e], w)
           B == After(waits2[e], from2[e], w)
           R == UNION {{f} \X After(waits[f], from[f], w) : f \in Events \ {e}}
<1>1. Regs(waits, from, w) = R \cup ({e} \X A)
  BY DEF Regs
<1>2. Regs(waits2, from2, w) = R \cup ({e} \X B)
  <2>1. \A f \in Events \ {e} : After(waits2[f], from2[f], w) = After(waits[f], from[f], w)
    OBVIOUS
  <2>2. R = UNION {{f} \X After(waits2[f], from2[f], w) : f \in Events \ {e}}
    BY <2>1
  <2> QED
    BY <2>2 DEF Regs
<1>3. R \cap ({e} \X A) = {} /\ R \cap ({e} \X B) = {}
  OBVIOUS
<1>4. IsFiniteSet(R) /\ IsFiniteSet({e} \X A)
  BY <1>1, FS_Subset
<1>5. IsFiniteSet(A)
  <2> DEFINE g == [p \in {e} \X A |-> p[2]]
  <2>1. g \in Surjection({e} \X A, A)
    <3>1. g \in [{e} \X A -> A]
      OBVIOUS
    <3>2. \A k \in A : \E p \in {e} \X A : g[p] = k
      <4> SUFFICES ASSUME NEW k \in A
                   PROVE  \E p \in {e} \X A : g[p] = k
        OBVIOUS
      <4>1. <<e, k>> \in {e} \X A /\ g[<<e, k>>] = k
        OBVIOUS
      <4> QED
        BY <4>1
    <3> QED
      BY <3>1, <3>2, Fun_IsSurj
  <2> QED
    BY <2>1, <1>4, FS_Surjection
<1>6. IsFiniteSet({e}) /\ Cardinality({e}) = 1
  BY FS_Singleton
<1>7. ASSUME NEW C, IsFiniteSet(C), R \cap ({e} \X C) = {}
      PROVE  /\ IsFiniteSet(R \cup ({e} \X C)) /\ Cardinality(C) \in Nat /\ Cardinality(R) \in Nat
             /\ Cardinality(R \cup ({e} \X C)) = Cardinality(R) + Cardinality(C)
  <2>1. IsFiniteSet({e} \X C) /\ Cardinality({e} \X C) = 1 * Cardinality(C)
    BY <1>6, <1>7, FS_Product
  <2>2. Cardinality(C) \in Nat /\ Cardinality(R) \in Nat
    BY <1>4, <1>7, FS_CardinalityType
  <2>3. Cardinality(R \cap ({e} \X C)) = 0
    BY <1>7, FS_EmptySet
  <2>4. /\ IsFiniteSet(R \cup ({e} \X C))
        /\ Cardinality(R \cup ({e} \X C)) =
             Cardinality(R) + Cardinality({e} \X C) - Cardinality(R \cap ({e} \X C))
    BY <1>4, <2>1, FS_Union
  <2> QED
    BY <2>1, <2>2, <2>3, <2>4
<1>8. IsFiniteSet(B)
  OBVIOUS
<1> HIDE DEF A, B, R
<1>9. /\ Cardinality(A) \in Nat /\ Cardinality(R) \in Nat
      /\ Cardinality(R \cup ({e} \X A)) = Cardinality(R) + Cardinality(A)
  BY <1>3, <1>5, <1>7
<1>10. /\ IsFiniteSet(R \cup ({e} \X B)) /\ Cardinality(B) \in Nat
       /\ Cardinality(R \cup ({e} \X B)) = Cardinality(R) + Cardinality(B)
  BY <1>3, <1>8, <1>7
<1>11. /\ Cardinality(Regs(waits2, from2, w)) \in Nat
       /\ Cardinality(Regs(waits, from, w)) >= Cardinality(A)
       /\ Cardinality(Regs(waits2, from2, w)) =
            Cardinality(Regs(waits, from, w)) - Cardinality(A) + Cardinality(B)
  BY <1>1, <1>2, <1>9, <1>10
<1> QED
  BY <1>1, <1>2, <1>9, <1>10, <1>11 DEF A, B, R

-----------------------------------------------------------------------------
(* Where a thread is.                                                      *)
LEMMA EventCall ==
  ASSUME Types, InCall, NEW t \in Threads, pc[t] \in WaitPlaces \cup SetPlaces
  PROVE  /\ call[t] \in Calls[t] /\ Ev(t) \in Events /\ mine[t] = NULL /\ skipped_refs[t] = 0
         /\ i[t] \in Nat /\ RegisteredWaits[Ev(t)] \in Seq(Registrations)
         /\ Unvisited(t) = 0
<1>1. call[t] \in Calls[t] /\ call[t].fn # "WaitForMultipleEvents" /\ pc[t] \notin MultiPlaces
  BY DEF InCall, CallOf, WaitPlaces, SetPlaces, Serving, MultiPlaces, Holding
<1>2. call[t] \in Call
  BY <1>1, EventsAssumption
<1>3. Ev(t) \in Events
  BY <1>1, <1>2 DEF Call, Ev
<1> QED
  BY <1>1, <1>3 DEF Types, InCall, CallOf, Unvisited, MultiPlaces, Holding

LEMMA MultiCall ==
  ASSUME Types, InCall, NEW t \in Threads, pc[t] \in MultiPlaces
  PROVE  /\ call[t] \in Calls[t] /\ call[t].waitAll \in BOOLEAN /\ call[t].events \in Seq(Events)
         /\ Count(t) \in Nat /\ i[t] \in Nat /\ i[t] =< Count(t) /\ mine[t] \in Wfmos
         /\ i[t] < Count(t) => CurrentEvent(t) \in Events
         /\ Unvisited(t) \in Nat /\ skipped_refs[t] \in Nat
<1>1. /\ call[t] \in Calls[t] /\ call[t].fn = "WaitForMultipleEvents"
      /\ mine[t] # NULL /\ i[t] =< Count(t) /\ i[t] \in Nat
  BY DEF Types, InCall, CallOf, MultiPlaces, Holding
<1>2. call[t] \in Call
  BY <1>1, EventsAssumption
<1>3. call[t].waitAll \in BOOLEAN /\ call[t].events \in Seq(Events)
  BY <1>1, <1>2 DEF Call
<1>4. Count(t) \in Nat
  BY <1>3 DEF Count
<1>5. i[t] < Count(t) => CurrentEvent(t) \in Events
  BY <1>1, <1>3, <1>4 DEF CurrentEvent, Count
<1> QED
  BY <1>1, <1>3, <1>4, <1>5 DEF Types, Unvisited

(* The registration a SetEvent has come to.                                *)
LEMMA ComeTo ==
  ASSUME Types, InCall, NEW t \in Threads, pc[t] \in Serving, InQueue,
         i[t] # Len(Waits(t))
  PROVE  /\ i[t] + 1 \in 1 .. Len(Waits(t)) /\ i[t] < Len(Waits(t)) /\ Waits(t) # <<>>
         /\ Registration(t) \in Registrations /\ Waiter(t) \in Wfmos
<1>1. Ev(t) \in Events /\ i[t] \in Nat /\ Waits(t) \in Seq(Registrations)
  BY EventCall DEF SetPlaces, Waits
<1>2. i[t] =< Len(Waits(t)) /\ Len(Waits(t)) \in Nat
  BY <1>1 DEF InQueue, PlaceOf
<1>3. i[t] + 1 \in 1 .. Len(Waits(t)) /\ i[t] < Len(Waits(t)) /\ Waits(t) # <<>>
  BY <1>1, <1>2
<1>4. Registration(t) \in Registrations
  BY <1>1, <1>3 DEF Registration
<1> QED
  BY <1>3, <1>4 DEF Registrations, Waiter

(* The events' mutexes are held by those that serve them.                  *)
LEMMA Holder ==
  ASSUME Types, InCall, Locks, NEW e \in Events
  PROVE  /\ Passed[e] = (IF Mutex[e] = NULL THEN 0 ELSE i[Mutex[e]]) /\ Passed[e] \in Nat
         /\ Served[e] = (IF Mutex[e] # NULL /\ pc[Mutex[e]] = "set.release"
                         THEN Passed[e] + 1 ELSE Passed[e]) /\ Served[e] \in Nat
         /\ Mutex[e] # NULL => Mutex[e] \in Threads /\ pc[Mutex[e]] \in Serving /\ Ev(Mutex[e]) = e
         /\ \A t \in Threads : pc[t] \in Serving => (Mutex[e] = t <=> Ev(t) = e)
BY EventsAssumption DEF Types, Locks, Passed, Served

-----------------------------------------------------------------------------
(* Control: where the threads are, what they hold, and who sleeps.         *)
Control == InCall /\ OneOwner /\ Locks /\ Sleepers /\ InQueue

(* The step of t changes nothing of another thread.                        *)
Frame(t) ==
  /\ State' \in [Events -> BOOLEAN]
  /\ Mutex' \in [Events \cup Wfmos -> Threads \cup {NULL}]
  /\ asleep' \in [Events \cup Wfmos -> SUBSET Threads]
  /\ pc' \in [Threads -> Pc] /\ call' \in [Threads -> Call \cup {NULL}]
  /\ i' \in [Threads -> Nat] /\ skipped_refs' \in [Threads -> Nat]
  /\ mine' \in [Threads -> Wfmos \cup {NULL}] /\ timedOut' \in [Threads -> BOOLEAN]
  /\ \A u \in Threads \ {t} :
       /\ pc'[u] = pc[u] /\ call'[u] = call[u] /\ i'[u] = i[u]
       /\ mine'[u] = mine[u] /\ skipped_refs'[u] = skipped_refs[u]

LEMMA OneMore ==
  ASSUME NEW S, NEW T, NEW f \in [S -> SUBSET T], NEW t \in T, NEW m
  PROVE  [f EXCEPT ![m] = @ \cup {t}] \in [S -> SUBSET T]
<1>1. [f EXCEPT ![m] = @ \cup {t}] = [x \in S |-> IF x = m THEN f[x] \cup {t} ELSE f[x]]
  OBVIOUS
<1>2. \A x \in S : (IF x = m THEN f[x] \cup {t} ELSE f[x]) \in SUBSET T
  OBVIOUS
<1> QED
  BY <1>1, <1>2

LEMMA WaitLockFrame ==
  ASSUME Types, InCall, NEW t \in Threads, WaitLock(t)
  PROVE  Frame(t)
<1> USE DEF At, Goto, Stay, Return
<1>1. pc[t] \in WaitPlaces \cup SetPlaces => Ev(t) \in Events
  BY EventCall
<1>2. pc[t] \in MultiPlaces =>
        /\ mine[t] \in Wfmos /\ Count(t) \in Nat /\ i[t] \in Nat
        /\ i[t] < Count(t) => CurrentEvent(t) \in Events
  BY MultiCall
<1>3. State' \in [Events -> BOOLEAN] /\ Mutex' \in [Events \cup Wfmos -> Threads \cup {NULL}]
  BY <1>1, <1>2 DEF WaitLock, Types, Obtained, Locked, Unlocked, Pc, WaitPlaces, SetPlaces,
     Serving, MultiPlaces, Holding
<1>4. asleep' \in [Events \cup Wfmos -> SUBSET Threads]
  <2>1. asleep' = asleep \/ asleep' = [asleep EXCEPT ![Ev(t)] = @ \cup {t}]
    BY DEF WaitLock
  <2>2. asleep \in [Events \cup Wfmos -> SUBSET Threads]
    BY DEF Types
  <2>3. [asleep EXCEPT ![Ev(t)] = @ \cup {t}] \in [Events \cup Wfmos -> SUBSET Threads]
    BY <2>2, OneMore
  <2> QED
    BY <2>1, <2>2, <2>3
<1>5. /\ pc' \in [Threads -> Pc]
      /\ \A u \in Threads \ {t} : pc'[u] = pc[u]
  BY DEF WaitLock, Types, AfterSet, Pc, threadVars
<1>6. /\ call' \in [Threads -> Call \cup {NULL}]
      /\ \A u \in Threads \ {t} : call'[u] = call[u]
  BY DEF WaitLock, Types, AfterSet, threadVars
<1>7. /\ i' \in [Threads -> Nat]
      /\ \A u \in Threads \ {t} : i'[u] = i[u]
  <2>1. i' = i \/ i' = [i EXCEPT ![t] = 0] \/ i' = [i EXCEPT ![t] = @ + 1]
    BY DEF WaitLock, AfterSet, Pass
  <2> QED
    BY <2>1 DEF Types
<1>8. /\ skipped_refs' \in [Threads -> Nat] /\ mine' \in [Threads -> Wfmos \cup {NULL}]
      /\ timedOut' \in [Threads -> BOOLEAN]
      /\ \A u \in Threads \ {t} : mine'[u] = mine[u] /\ skipped_refs'[u] = skipped_refs[u]
  BY <1>2 DEF WaitLock, Types, NotRegistered, Pass, threadVars, MultiPlaces, Holding
<1> QED
  BY <1>3, <1>4, <1>5, <1>6, <1>7, <1>8 DEF Frame

LEMMA WaitTimeoutFrame ==
  ASSUME Types, InCall, NEW t \in Threads, WaitTimeout(t)
  PROVE  Frame(t)
<1> USE DEF At, Goto, Stay, Return
<1>1. pc[t] \in WaitPlaces \cup SetPlaces => Ev(t) \in Events
  BY EventCall
<1>2. pc[t] \in MultiPlaces =>
        /\ mine[t] \in Wfmos /\ Count(t) \in Nat /\ i[t] \in Nat
        /\ i[t] < Count(t) => CurrentEvent(t) \in Events
  BY MultiCall
<1>3. State' \in [Events -> BOOLEAN] /\ Mutex' \in [Events \cup Wfmos -> Threads \cup {NULL}]
  BY <1>1, <1>2 DEF WaitTimeout, Types, Obtained, Locked, Unlocked, Pc, WaitPlaces, SetPlaces,
     Serving, MultiPlaces, Holding
<1>4. asleep' \in [Events \cup Wfmos -> SUBSET Threads]
  BY <1>1, <1>2 DEF WaitTimeout, Types, Signal, Broadcast, WaitPlaces, SetPlaces, Serving,
     MultiPlaces, Holding
<1>5. /\ pc' \in [Threads -> Pc]
      /\ \A u \in Threads \ {t} : pc'[u] = pc[u]
  BY DEF WaitTimeout, Types, AfterSet, Pc, threadVars
<1>6. /\ call' \in [Threads -> Call \cup {NULL}]
      /\ \A u \in Threads \ {t} : call'[u] = call[u]
  BY DEF WaitTimeout, Types, AfterSet, threadVars
<1>7. /\ i' \in [Threads -> Nat]
      /\ \A u \in Threads \ {t} : i'[u] = i[u]
  BY DEF WaitTimeout, Types, AfterSet, Pass, threadVars
<1>8. /\ skipped_refs' \in [Threads -> Nat] /\ mine' \in [Threads -> Wfmos \cup {NULL}]
      /\ timedOut' \in [Threads -> BOOLEAN]
      /\ \A u \in Threads \ {t} : mine'[u] = mine[u] /\ skipped_refs'[u] = skipped_refs[u]
  BY <1>2 DEF WaitTimeout, Types, NotRegistered, Pass, threadVars, MultiPlaces, Holding
<1> QED
  BY <1>3, <1>4, <1>5, <1>6, <1>7, <1>8 DEF Frame

LEMMA WaitTimedOutFrame ==
  ASSUME Types, InCall, NEW t \in Threads, WaitTimedOut(t)
  PROVE  Frame(t)
<1> USE DEF At, Goto, Stay, Return
<1>1. pc[t] \in WaitPlaces \cup SetPlaces => Ev(t) \in Events
  BY EventCall
<1>2. pc[t] \in MultiPlaces =>
        /\ mine[t] \in Wfmos /\ Count(t) \in Nat /\ i[t] \in Nat
        /\ i[t] < Count(t) => CurrentEvent(t) \in Events
  BY MultiCall
<1>3. State' \in [Events -> BOOLEAN] /\ Mutex' \in [Events \cup Wfmos -> Threads \cup {NULL}]
  BY <1>1, <1>2 DEF WaitTimedOut, Types, Obtained, Locked, Unlocked, Pc, WaitPlaces, SetPlaces,
     Serving, MultiPlaces, Holding
<1>4. asleep' \in [Events \cup Wfmos -> SUBSET Threads]
  BY <1>1, <1>2 DEF WaitTimedOut, Types, Signal, Broadcast, WaitPlaces, SetPlaces, Serving,
     MultiPlaces, Holding
<1>5. /\ pc' \in [Threads -> Pc]
      /\ \A u \in Threads \ {t} : pc'[u] = pc[u]
  BY DEF WaitTimedOut, Types, AfterSet, Pc, threadVars
<1>6. /\ call' \in [Threads -> Call \cup {NULL}]
      /\ \A u \in Threads \ {t} : call'[u] = call[u]
  BY DEF WaitTimedOut, Types, AfterSet, threadVars
<1>7. /\ i' \in [Threads -> Nat]
      /\ \A u \in Threads \ {t} : i'[u] = i[u]
  BY DEF WaitTimedOut, Types, AfterSet, Pass, threadVars
<1>8. /\ skipped_refs' \in [Threads -> Nat] /\ mine' \in [Threads -> Wfmos \cup {NULL}]
      /\ timedOut' \in [Threads -> BOOLEAN]
      /\ \A u \in Threads \ {t} : mine'[u] = mine[u] /\ skipped_refs'[u] = skipped_refs[u]
  BY <1>2 DEF WaitTimedOut, Types, NotRegistered, Pass, threadVars, MultiPlaces, Holding
<1> QED
  BY <1>3, <1>4, <1>5, <1>6, <1>7, <1>8 DEF Frame

LEMMA SetLockFrame ==
  ASSUME Types, InCall, NEW t \in Threads, SetLock(t)
  PROVE  Frame(t)
<1> USE DEF At, Goto, Stay, Return
<1>1. pc[t] \in WaitPlaces \cup SetPlaces => Ev(t) \in Events
  BY EventCall
<1>2. pc[t] \in MultiPlaces =>
        /\ mine[t] \in Wfmos /\ Count(t) \in Nat /\ i[t] \in Nat
        /\ i[t] < Count(t) => CurrentEvent(t) \in Events
  BY MultiCall
<1>3. State' \in [Events -> BOOLEAN] /\ Mutex' \in [Events \cup Wfmos -> Threads \cup {NULL}]
  BY <1>1, <1>2 DEF SetLock, Types, Obtained, Locked, Unlocked, Pc, WaitPlaces, SetPlaces, Serving,
     MultiPlaces, Holding
<1>4. asleep' \in [Events \cup Wfmos -> SUBSET Threads]
  BY <1>1, <1>2 DEF SetLock, Types, Signal, Broadcast, WaitPlaces, SetPlaces, Serving, MultiPlaces,
     Holding
<1>5. /\ pc' \in [Threads -> Pc]
      /\ \A u \in Threads \ {t} : pc'[u] = pc[u]
  BY DEF SetLock, Types, AfterSet, Pc, threadVars
<1>6. /\ call' \in [Threads -> Call \cup {NULL}]
      /\ \A u \in Threads \ {t} : call'[u] = call[u]
  BY DEF SetLock, Types, AfterSet, threadVars
<1>7. /\ i' \in [Threads -> Nat]
      /\ \A u \in Threads \ {t} : i'[u] = i[u]
  BY DEF SetLock, Types, AfterSet, Pass, threadVars
<1>8. /\ skipped_refs' \in [Threads -> Nat] /\ mine' \in [Threads -> Wfmos \cup {NULL}]
      /\ timedOut' \in [Threads -> BOOLEAN]
      /\ \A u \in Threads \ {t} : mine'[u] = mine[u] /\ skipped_refs'[u] = skipped_refs[u]
  BY <1>2 DEF SetLock, Types, NotRegistered, Pass, threadVars, MultiPlaces, Holding
<1> QED
  BY <1>3, <1>4, <1>5, <1>6, <1>7, <1>8 DEF Frame

LEMMA SetNextFrame ==
  ASSUME Types, InCall, NEW t \in Threads, SetNext(t)
  PROVE  Frame(t)
<1> USE DEF At, Goto, Stay, Return
<1>1. pc[t] \in WaitPlaces \cup SetPlaces => Ev(t) \in Events
  BY EventCall
<1>2. pc[t] \in MultiPlaces =>
        /\ mine[t] \in Wfmos /\ Count(t) \in Nat /\ i[t] \in Nat
        /\ i[t] < Count(t) => CurrentEvent(t) \in Events
  BY MultiCall
<1>3. State' \in [Events -> BOOLEAN] /\ Mutex' \in [Events \cup Wfmos -> Threads \cup {NULL}]
  BY <1>1, <1>2 DEF SetNext, Types, Obtained, Locked, Unlocked, Pc, WaitPlaces, SetPlaces, Serving,
     MultiPlaces, Holding
<1>4. asleep' \in [Events \cup Wfmos -> SUBSET Threads]
  BY <1>1, <1>2 DEF SetNext, Types, Signal, Broadcast, WaitPlaces, SetPlaces, Serving, MultiPlaces,
     Holding
<1>5. /\ pc' \in [Threads -> Pc]
      /\ \A u \in Threads \ {t} : pc'[u] = pc[u]
  BY DEF SetNext, Types, AfterSet, Pc, threadVars
<1>6. /\ call' \in [Threads -> Call \cup {NULL}]
      /\ \A u \in Threads \ {t} : call'[u] = call[u]
  BY DEF SetNext, Types, AfterSet, threadVars
<1>7. /\ i' \in [Threads -> Nat]
      /\ \A u \in Threads \ {t} : i'[u] = i[u]
  <2>1. i' = i \/ i' = [i EXCEPT ![t] = 0] \/ i' = [i EXCEPT ![t] = @ + 1]
    BY DEF SetNext, AfterSet, Pass
  <2> QED
    BY <2>1 DEF Types
<1>8. /\ skipped_refs' \in [Threads -> Nat] /\ mine' \in [Threads -> Wfmos \cup {NULL}]
      /\ timedOut' \in [Threads -> BOOLEAN]
      /\ \A u \in Threads \ {t} : mine'[u] = mine[u] /\ skipped_refs'[u] = skipped_refs[u]
  BY <1>2 DEF SetNext, Types, NotRegistered, Pass, threadVars, MultiPlaces, Holding
<1> QED
  BY <1>3, <1>4, <1>5, <1>6, <1>7, <1>8 DEF Frame

LEMMA SetWaiterFrame ==
  ASSUME Types, InCall, NEW t \in Threads, SetWaiter(t)
  PROVE  Frame(t)
<1> USE DEF At, Goto, Stay, Return
<1>1. pc[t] \in WaitPlaces \cup SetPlaces => Ev(t) \in Events
  BY EventCall
<1>2. pc[t] \in MultiPlaces =>
        /\ mine[t] \in Wfmos /\ Count(t) \in Nat /\ i[t] \in Nat
        /\ i[t] < Count(t) => CurrentEvent(t) \in Events
  BY MultiCall
<1>3. State' \in [Events -> BOOLEAN] /\ Mutex' \in [Events \cup Wfmos -> Threads \cup {NULL}]
  BY <1>1, <1>2 DEF SetWaiter, Types, Obtained, Locked, Unlocked, Pc, WaitPlaces, SetPlaces,
     Serving, MultiPlaces, Holding
<1>4. asleep' \in [Events \cup Wfmos -> SUBSET Threads]
  BY <1>1, <1>2 DEF SetWaiter, Types, Signal, Broadcast, WaitPlaces, SetPlaces, Serving,
     MultiPlaces, Holding
<1>5. /\ pc' \in [Threads -> Pc]
      /\ \A u \in Threads \ {t} : pc'[u] = pc[u]
  BY DEF SetWaiter, Types, AfterSet, Pc, threadVars
<1>6. /\ call' \in [Threads -> Call \cup {NULL}]
      /\ \A u \in Threads \ {t} : call'[u] = call[u]
  BY DEF SetWaiter, Types, AfterSet, threadVars
<1>7. /\ i' \in [Threads -> Nat]
      /\ \A u \in Threads \ {t} : i'[u] = i[u]
  <2>1. i' = i \/ i' = [i EXCEPT ![t] = 0] \/ i' = [i EXCEPT ![t] = @ + 1]
    BY DEF SetWaiter, AfterSet, Pass
  <2> QED
    BY <2>1 DEF Types
<1>8. /\ skipped_refs' \in [Threads -> Nat] /\ mine' \in [Threads -> Wfmos \cup {NULL}]
      /\ timedOut' \in [Threads -> BOOLEAN]
      /\ \A u \in Threads \ {t} : mine'[u] = mine[u] /\ skipped_refs'[u] = skipped_refs[u]
  BY <1>2 DEF SetWaiter, Types, NotRegistered, Pass, threadVars, MultiPlaces, Holding
<1> QED
  BY <1>3, <1>4, <1>5, <1>6, <1>7, <1>8 DEF Frame

LEMMA SetReleaseFrame ==
  ASSUME Types, InCall, NEW t \in Threads, SetRelease(t)
  PROVE  Frame(t)
<1> USE DEF At, Goto, Stay, Return
<1>1. pc[t] \in WaitPlaces \cup SetPlaces => Ev(t) \in Events
  BY EventCall
<1>2. pc[t] \in MultiPlaces =>
        /\ mine[t] \in Wfmos /\ Count(t) \in Nat /\ i[t] \in Nat
        /\ i[t] < Count(t) => CurrentEvent(t) \in Events
  BY MultiCall
<1>3. State' \in [Events -> BOOLEAN] /\ Mutex' \in [Events \cup Wfmos -> Threads \cup {NULL}]
  BY <1>1, <1>2 DEF SetRelease, Types, Obtained, Locked, Unlocked, Pc, WaitPlaces, SetPlaces,
     Serving, MultiPlaces, Holding
<1>4. asleep' \in [Events \cup Wfmos -> SUBSET Threads]
  <2>1. \E m : asleep' = asleep \/ asleep' = [asleep EXCEPT ![m] = {}]
                \/ \E u : asleep' = [asleep EXCEPT ![m] = @ \ {u}]
    BY DEF SetRelease, Signal, Broadcast
  <2> QED
    BY <2>1 DEF Types
<1>5. /\ pc' \in [Threads -> Pc]
      /\ \A u \in Threads \ {t} : pc'[u] = pc[u]
  BY DEF SetRelease, Types, AfterSet, Pc, threadVars
<1>6. /\ call' \in [Threads -> Call \cup {NULL}]
      /\ \A u \in Threads \ {t} : call'[u] = call[u]
  BY DEF SetRelease, Types, AfterSet, threadVars
<1>7. /\ i' \in [Threads -> Nat]
      /\ \A u \in Threads \ {t} : i'[u] = i[u]
  <2>1. i' = i \/ i' = [i EXCEPT ![t] = 0] \/ i' = [i EXCEPT ![t] = @ + 1]
    BY DEF SetRelease, AfterSet, Pass
  <2> QED
    BY <2>1 DEF Types
<1>8. /\ skipped_refs' \in [Threads -> Nat] /\ mine' \in [Threads -> Wfmos \cup {NULL}]
      /\ timedOut' \in [Threads -> BOOLEAN]
      /\ \A u \in Threads \ {t} : mine'[u] = mine[u] /\ skipped_refs'[u] = skipped_refs[u]
  BY <1>2 DEF SetRelease, Types, NotRegistered, Pass, threadVars, MultiPlaces, Holding
<1> QED
  BY <1>3, <1>4, <1>5, <1>6, <1>7, <1>8 DEF Frame

LEMMA SetSignalFrame ==
  ASSUME Types, InCall, NEW t \in Threads, SetSignal(t)
  PROVE  Frame(t)
<1> USE DEF At, Goto, Stay, Return
<1>1. pc[t] \in WaitPlaces \cup SetPlaces => Ev(t) \in Events
  BY EventCall
<1>2. pc[t] \in MultiPlaces =>
        /\ mine[t] \in Wfmos /\ Count(t) \in Nat /\ i[t] \in Nat
        /\ i[t] < Count(t) => CurrentEvent(t) \in Events
  BY MultiCall
<1>3. State' \in [Events -> BOOLEAN] /\ Mutex' \in [Events \cup Wfmos -> Threads \cup {NULL}]
  BY <1>1, <1>2 DEF SetSignal, Types, Obtained, Locked, Unlocked, Pc, WaitPlaces, SetPlaces,
     Serving, MultiPlaces, Holding
<1>4. asleep' \in [Events \cup Wfmos -> SUBSET Threads]
  <2>1. \E m : asleep' = asleep \/ asleep' = [asleep EXCEPT ![m] = {}]
                \/ \E u : asleep' = [asleep EXCEPT ![m] = @ \ {u}]
    BY DEF SetSignal, Signal, Broadcast
  <2> QED
    BY <2>1 DEF Types
<1>5. /\ pc' \in [Threads -> Pc]
      /\ \A u \in Threads \ {t} : pc'[u] = pc[u]
  BY DEF SetSignal, Types, AfterSet, Pc, threadVars
<1>6. /\ call' \in [Threads -> Call \cup {NULL}]
      /\ \A u \in Threads \ {t} : call'[u] = call[u]
  BY DEF SetSignal, Types, AfterSet, threadVars
<1>7. /\ i' \in [Threads -> Nat]
      /\ \A u \in Threads \ {t} : i'[u] = i[u]
  <2>1. i' = i \/ i' = [i EXCEPT ![t] = 0] \/ i' = [i EXCEPT ![t] = @ + 1]
    BY DEF SetSignal, AfterSet, Pass
  <2> QED
    BY <2>1 DEF Types
<1>8. /\ skipped_refs' \in [Threads -> Nat] /\ mine' \in [Threads -> Wfmos \cup {NULL}]
      /\ timedOut' \in [Threads -> BOOLEAN]
      /\ \A u \in Threads \ {t} : mine'[u] = mine[u] /\ skipped_refs'[u] = skipped_refs[u]
  BY <1>2 DEF SetSignal, Types, NotRegistered, Pass, threadVars, MultiPlaces, Holding
<1> QED
  BY <1>3, <1>4, <1>5, <1>6, <1>7, <1>8 DEF Frame

LEMMA PulseResetFrame ==
  ASSUME Types, InCall, NEW t \in Threads, PulseReset(t)
  PROVE  Frame(t)
<1> USE DEF At, Goto, Stay, Return
<1>1. pc[t] \in WaitPlaces \cup SetPlaces => Ev(t) \in Events
  BY EventCall
<1>2. pc[t] \in MultiPlaces =>
        /\ mine[t] \in Wfmos /\ Count(t) \in Nat /\ i[t] \in Nat
        /\ i[t] < Count(t) => CurrentEvent(t) \in Events
  BY MultiCall
<1>3. State' \in [Events -> BOOLEAN] /\ Mutex' \in [Events \cup Wfmos -> Threads \cup {NULL}]
  BY <1>1, <1>2 DEF PulseReset, Types, Obtained, Locked, Unlocked, Pc, WaitPlaces, SetPlaces,
     Serving, MultiPlaces, Holding
<1>4. asleep' \in [Events \cup Wfmos -> SUBSET Threads]
  BY <1>1, <1>2 DEF PulseReset, Types, Signal, Broadcast, WaitPlaces, SetPlaces, Serving,
     MultiPlaces, Holding
<1>5. /\ pc' \in [Threads -> Pc]
      /\ \A u \in Threads \ {t} : pc'[u] = pc[u]
  BY DEF PulseReset, Types, AfterSet, Pc, threadVars
<1>6. /\ call' \in [Threads -> Call \cup {NULL}]
      /\ \A u \in Threads \ {t} : call'[u] = call[u]
  BY DEF PulseReset, Types, AfterSet, threadVars
<1>7. /\ i' \in [Threads -> Nat]
      /\ \A u \in Threads \ {t} : i'[u] = i[u]
  BY DEF PulseReset, Types, AfterSet, Pass, threadVars
<1>8. /\ skipped_refs' \in [Threads -> Nat] /\ mine' \in [Threads -> Wfmos \cup {NULL}]
      /\ timedOut' \in [Threads -> BOOLEAN]
      /\ \A u \in Threads \ {t} : mine'[u] = mine[u] /\ skipped_refs'[u] = skipped_refs[u]
  BY <1>2 DEF PulseReset, Types, NotRegistered, Pass, threadVars, MultiPlaces, Holding
<1> QED
  BY <1>3, <1>4, <1>5, <1>6, <1>7, <1>8 DEF Frame

LEMMA MultiRegisterFrame ==
  ASSUME Types, InCall, NEW t \in Threads, MultiRegister(t)
  PROVE  Frame(t)
<1> USE DEF At, Goto, Stay, Return
<1>1. pc[t] \in WaitPlaces \cup SetPlaces => Ev(t) \in Events
  BY EventCall
<1>2. pc[t] \in MultiPlaces =>
        /\ mine[t] \in Wfmos /\ Count(t) \in Nat /\ i[t] \in Nat
        /\ i[t] < Count(t) => CurrentEvent(t) \in Events
  BY MultiCall
<1>3. State' \in [Events -> BOOLEAN] /\ Mutex' \in [Events \cup Wfmos -> Threads \cup {NULL}]
  BY <1>1, <1>2 DEF MultiRegister, Types, Obtained, Locked, Unlocked, Pc, WaitPlaces, SetPlaces,
     Serving, MultiPlaces, Holding
<1>4. asleep' \in [Events \cup Wfmos -> SUBSET Threads]
  BY <1>1, <1>2 DEF MultiRegister, Types, Signal, Broadcast, WaitPlaces, SetPlaces, Serving,
     MultiPlaces, Holding
<1>5. /\ pc' \in [Threads -> Pc]
      /\ \A u \in Threads \ {t} : pc'[u] = pc[u]
  BY DEF MultiRegister, Types, AfterSet, Pc, threadVars
<1>6. /\ call' \in [Threads -> Call \cup {NULL}]
      /\ \A u \in Threads \ {t} : call'[u] = call[u]
  BY DEF MultiRegister, Types, AfterSet, threadVars
<1>7. /\ i' \in [Threads -> Nat]
      /\ \A u \in Threads \ {t} : i'[u] = i[u]
  BY DEF MultiRegister, Types, AfterSet, Pass, threadVars
<1>8. /\ skipped_refs' \in [Threads -> Nat] /\ mine' \in [Threads -> Wfmos \cup {NULL}]
      /\ timedOut' \in [Threads -> BOOLEAN]
      /\ \A u \in Threads \ {t} : mine'[u] = mine[u] /\ skipped_refs'[u] = skipped_refs[u]
  BY <1>2 DEF MultiRegister, Types, NotRegistered, Pass, threadVars, MultiPlaces, Holding
<1> QED
  BY <1>3, <1>4, <1>5, <1>6, <1>7, <1>8 DEF Frame

LEMMA MultiWaitFrame ==
  ASSUME Types, InCall, NEW t \in Threads, MultiWait(t)
  PROVE  Frame(t)
<1> USE DEF At, Goto, Stay, Return
<1>1. pc[t] \in WaitPlaces \cup SetPlaces => Ev(t) \in Events
  BY EventCall
<1>2. pc[t] \in MultiPlaces =>
        /\ mine[t] \in Wfmos /\ Count(t) \in Nat /\ i[t] \in Nat
        /\ i[t] < Count(t) => CurrentEvent(t) \in Events
  BY MultiCall
<1>3. State' \in [Events -> BOOLEAN] /\ Mutex' \in [Events \cup Wfmos -> Threads \cup {NULL}]
  BY <1>1, <1>2 DEF MultiWait, Types, Obtained, Locked, Unlocked, Pc, WaitPlaces, SetPlaces,
     Serving, MultiPlaces, Holding
<1>4. asleep' \in [Events \cup Wfmos -> SUBSET Threads]
  <2>1. asleep' = asleep \/ asleep' = [asleep EXCEPT ![mine[t]] = @ \cup {t}]
    BY DEF MultiWait
  <2>2. asleep \in [Events \cup Wfmos -> SUBSET Threads]
    BY DEF Types
  <2>3. [asleep EXCEPT ![mine[t]] = @ \cup {t}] \in [Events \cup Wfmos -> SUBSET Threads]
    BY <2>2, OneMore
  <2> QED
    BY <2>1, <2>2, <2>3
<1>5. /\ pc' \in [Threads -> Pc]
      /\ \A u \in Threads \ {t} : pc'[u] = pc[u]
  BY DEF MultiWait, Types, AfterSet, Pc, threadVars
<1>6. /\ call' \in [Threads -> Call \cup {NULL}]
      /\ \A u \in Threads \ {t} : call'[u] = call[u]
  BY DEF MultiWait, Types, AfterSet, threadVars
<1>7. /\ i' \in [Threads -> Nat]
      /\ \A u \in Threads \ {t} : i'[u] = i[u]
  BY DEF MultiWait, Types, AfterSet, Pass, threadVars
<1>8. /\ skipped_refs' \in [Threads -> Nat] /\ mine' \in [Threads -> Wfmos \cup {NULL}]
      /\ timedOut' \in [Threads -> BOOLEAN]
      /\ \A u \in Threads \ {t} : mine'[u] = mine[u] /\ skipped_refs'[u] = skipped_refs[u]
  BY <1>2 DEF MultiWait, Types, NotRegistered, Pass, threadVars, MultiPlaces, Holding
<1> QED
  BY <1>3, <1>4, <1>5, <1>6, <1>7, <1>8 DEF Frame

LEMMA MultiTimeoutFrame ==
  ASSUME Types, InCall, NEW t \in Threads, MultiTimeout(t)
  PROVE  Frame(t)
<1> USE DEF At, Goto, Stay, Return
<1>1. pc[t] \in WaitPlaces \cup SetPlaces => Ev(t) \in Events
  BY EventCall
<1>2. pc[t] \in MultiPlaces =>
        /\ mine[t] \in Wfmos /\ Count(t) \in Nat /\ i[t] \in Nat
        /\ i[t] < Count(t) => CurrentEvent(t) \in Events
  BY MultiCall
<1>3. State' \in [Events -> BOOLEAN] /\ Mutex' \in [Events \cup Wfmos -> Threads \cup {NULL}]
  BY <1>1, <1>2 DEF MultiTimeout, Types, Obtained, Locked, Unlocked, Pc, WaitPlaces, SetPlaces,
     Serving, MultiPlaces, Holding
<1>4. asleep' \in [Events \cup Wfmos -> SUBSET Threads]
  BY <1>1, <1>2 DEF MultiTimeout, Types, Signal, Broadcast, WaitPlaces, SetPlaces, Serving,
     MultiPlaces, Holding
<1>5. /\ pc' \in [Threads -> Pc]
      /\ \A u \in Threads \ {t} : pc'[u] = pc[u]
  BY DEF MultiTimeout, Types, AfterSet, Pc, threadVars
<1>6. /\ call' \in [Threads -> Call \cup {NULL}]
      /\ \A u \in Threads \ {t} : call'[u] = call[u]
  BY DEF MultiTimeout, Types, AfterSet, threadVars
<1>7. /\ i' \in [Threads -> Nat]
      /\ \A u \in Threads \ {t} : i'[u] = i[u]
  BY DEF MultiTimeout, Types, AfterSet, Pass, threadVars
<1>8. /\ skipped_refs' \in [Threads -> Nat] /\ mine' \in [Threads -> Wfmos \cup {NULL}]
      /\ timedOut' \in [Threads -> BOOLEAN]
      /\ \A u \in Threads \ {t} : mine'[u] = mine[u] /\ skipped_refs'[u] = skipped_refs[u]
  BY <1>2 DEF MultiTimeout, Types, NotRegistered, Pass, threadVars, MultiPlaces, Holding
<1> QED
  BY <1>3, <1>4, <1>5, <1>6, <1>7, <1>8 DEF Frame

LEMMA MultiTimedOutFrame ==
  ASSUME Types, InCall, NEW t \in Threads, MultiTimedOut(t)
  PROVE  Frame(t)
<1> USE DEF At, Goto, Stay, Return
<1>1. pc[t] \in WaitPlaces \cup SetPlaces => Ev(t) \in Events
  BY EventCall
<1>2. pc[t] \in MultiPlaces =>
        /\ mine[t] \in Wfmos /\ Count(t) \in Nat /\ i[t] \in Nat
        /\ i[t] < Count(t) => CurrentEvent(t) \in Events
  BY MultiCall
<1>3. State' \in [Events -> BOOLEAN] /\ Mutex' \in [Events \cup Wfmos -> Threads \cup {NULL}]
  BY <1>1, <1>2 DEF MultiTimedOut, Types, Obtained, Locked, Unlocked, Pc, WaitPlaces, SetPlaces,
     Serving, MultiPlaces, Holding
<1>4. asleep' \in [Events \cup Wfmos -> SUBSET Threads]
  BY <1>1, <1>2 DEF MultiTimedOut, Types, Signal, Broadcast, WaitPlaces, SetPlaces, Serving,
     MultiPlaces, Holding
<1>5. /\ pc' \in [Threads -> Pc]
      /\ \A u \in Threads \ {t} : pc'[u] = pc[u]
  BY DEF MultiTimedOut, Types, AfterSet, Pc, threadVars
<1>6. /\ call' \in [Threads -> Call \cup {NULL}]
      /\ \A u \in Threads \ {t} : call'[u] = call[u]
  BY DEF MultiTimedOut, Types, AfterSet, threadVars
<1>7. /\ i' \in [Threads -> Nat]
      /\ \A u \in Threads \ {t} : i'[u] = i[u]
  BY DEF MultiTimedOut, Types, AfterSet, Pass, threadVars
<1>8. /\ skipped_refs' \in [Threads -> Nat] /\ mine' \in [Threads -> Wfmos \cup {NULL}]
      /\ timedOut' \in [Threads -> BOOLEAN]
      /\ \A u \in Threads \ {t} : mine'[u] = mine[u] /\ skipped_refs'[u] = skipped_refs[u]
  BY <1>2 DEF MultiTimedOut, Types, NotRegistered, Pass, threadVars, MultiPlaces, Holding
<1> QED
  BY <1>3, <1>4, <1>5, <1>6, <1>7, <1>8 DEF Frame

LEMMA MultiDoneFrame ==
  ASSUME Types, InCall, NEW t \in Threads, MultiDone(t)
  PROVE  Frame(t)
<1> USE DEF At, Goto, Stay, Return
<1>1. pc[t] \in WaitPlaces \cup SetPlaces => Ev(t) \in Events
  BY EventCall
<1>2. pc[t] \in MultiPlaces =>
        /\ mine[t] \in Wfmos /\ Count(t) \in Nat /\ i[t] \in Nat
        /\ i[t] < Count(t) => CurrentEvent(t) \in Events
  BY MultiCall
<1>3. State' \in [Events -> BOOLEAN] /\ Mutex' \in [Events \cup Wfmos -> Threads \cup {NULL}]
  BY <1>1, <1>2 DEF MultiDone, Types, Obtained, Locked, Unlocked, Pc, WaitPlaces, SetPlaces,
     Serving, MultiPlaces, Holding
<1>4. asleep' \in [Events \cup Wfmos -> SUBSET Threads]
  BY <1>1, <1>2 DEF MultiDone, Types, Signal, Broadcast, WaitPlaces, SetPlaces, Serving,
     MultiPlaces, Holding
<1>5. /\ pc' \in [Threads -> Pc]
      /\ \A u \in Threads \ {t} : pc'[u] = pc[u]
  BY DEF MultiDone, Types, AfterSet, Pc, threadVars
<1>6. /\ call' \in [Threads -> Call \cup {NULL}]
      /\ \A u \in Threads \ {t} : call'[u] = call[u]
  BY DEF MultiDone, Types, AfterSet, threadVars
<1>7. /\ i' \in [Threads -> Nat]
      /\ \A u \in Threads \ {t} : i'[u] = i[u]
  BY DEF MultiDone, Types, AfterSet, Pass, threadVars
<1>8. /\ skipped_refs' \in [Threads -> Nat] /\ mine' \in [Threads -> Wfmos \cup {NULL}]
      /\ timedOut' \in [Threads -> BOOLEAN]
      /\ \A u \in Threads \ {t} : mine'[u] = mine[u] /\ skipped_refs'[u] = skipped_refs[u]
  BY <1>2 DEF MultiDone, Types, NotRegistered, Pass, threadVars, MultiPlaces, Holding
<1> QED
  BY <1>3, <1>4, <1>5, <1>6, <1>7, <1>8 DEF Frame

LEMMA MultiUnrefFrame ==
  ASSUME Types, InCall, NEW t \in Threads, MultiUnref(t)
  PROVE  Frame(t)
<1> USE DEF At, Goto, Stay, Return
<1>1. pc[t] \in WaitPlaces \cup SetPlaces => Ev(t) \in Events
  BY EventCall
<1>2. pc[t] \in MultiPlaces =>
        /\ mine[t] \in Wfmos /\ Count(t) \in Nat /\ i[t] \in Nat
        /\ i[t] < Count(t) => CurrentEvent(t) \in Events
  BY MultiCall
<1>3. State' \in [Events -> BOOLEAN] /\ Mutex' \in [Events \cup Wfmos -> Threads \cup {NULL}]
  BY <1>1, <1>2 DEF MultiUnref, Types, Obtained, Locked, Unlocked, Pc, WaitPlaces, SetPlaces,
     Serving, MultiPlaces, Holding
<1>4. asleep' \in [Events \cup Wfmos -> SUBSET Threads]
  BY <1>1, <1>2 DEF MultiUnref, Types, Signal, Broadcast, WaitPlaces, SetPlaces, Serving,
     MultiPlaces, Holding
<1>5. /\ pc' \in [Threads -> Pc]
      /\ \A u \in Threads \ {t} : pc'[u] = pc[u]
  BY DEF MultiUnref, Types, AfterSet, Pc, threadVars
<1>6. /\ call' \in [Threads -> Call \cup {NULL}]
      /\ \A u \in Threads \ {t} : call'[u] = call[u]
  BY DEF MultiUnref, Types, AfterSet, threadVars
<1>7. /\ i' \in [Threads -> Nat]
      /\ \A u \in Threads \ {t} : i'[u] = i[u]
  BY DEF MultiUnref, Types, AfterSet, Pass, threadVars
<1>8. /\ skipped_refs' \in [Threads -> Nat] /\ mine' \in [Threads -> Wfmos \cup {NULL}]
      /\ timedOut' \in [Threads -> BOOLEAN]
      /\ \A u \in Threads \ {t} : mine'[u] = mine[u] /\ skipped_refs'[u] = skipped_refs[u]
  BY <1>2 DEF MultiUnref, Types, NotRegistered, Pass, threadVars, MultiPlaces, Holding
<1> QED
  BY <1>3, <1>4, <1>5, <1>6, <1>7, <1>8 DEF Frame

-----------------------------------------------------------------------------
(* A step of t takes and releases t's mutexes only, puts nobody else to    *)
(* sleep, and leaves alone the queues others go through.                   *)
MutexesMove(t) ==
  \A m \in Events \cup Wfmos :
    \/ Mutex'[m] = Mutex[m] /\ Mutex[m] # t
    \/ Mutex'[m] = NULL /\ Mutex[m] \in {NULL, t}
    \/ /\ Mutex'[m] = t /\ Mutex[m] \in {NULL, t}
       /\ m \in Events => pc'[t] \in Serving /\ Ev(t)' = m
       /\ m \in Wfmos => pc'[t] \in Holding /\ mine'[t] = m
SleepersMove(t) ==
  \A m \in Events \cup Wfmos :
    /\ asleep'[m] \subseteq asleep[m] \cup {t}
    /\ t \in asleep'[m] =>
         /\ m \in Events => pc'[t] = "wait.sleep" /\ Ev(t)' = m
         /\ m \in Wfmos => pc'[t] = "multi.sleep" /\ mine'[t] = m
Moves(t) ==
  /\ Frame(t) /\ MutexesMove(t) /\ SleepersMove(t) /\ CallOf(t)' /\ PlaceOf(t)'
  /\ mine'[t] # NULL => \A u \in Threads \ {t} : mine[u] # mine'[t]
  /\ pc'[t] \in Serving => Mutex'[Ev(t)'] = t
  /\ pc'[t] \in Holding => Mutex'[mine'[t]] = t
  /\ \A u \in Threads \ {t} : pc[u] \in Serving => RegisteredWaits'[Ev(u)] = RegisteredWaits[Ev(u)]

LEMMA ControlKept ==
  ASSUME Types, Control, NEW t \in Threads, Moves(t)
  PROVE  Control'
<1>1. InCall /\ OneOwner /\ Locks /\ Sleepers /\ InQueue /\ Frame(t)
  BY DEF Control, Moves
<1>2. ASSUME NEW u \in Threads, u # t
      PROVE  /\ pc'[u] = pc[u] /\ call'[u] = call[u] /\ i'[u] = i[u]
             /\ mine'[u] = mine[u] /\ skipped_refs'[u] = skipped_refs[u]
             /\ Ev(u)' = Ev(u) /\ Count(u)' = Count(u)
  BY <1>1, <1>2 DEF Frame, Ev, Count
<1>3. InCall'
  <2>1. CallOf(t)'
    BY DEF Moves
  <2>2. ASSUME NEW u \in Threads, u # t
        PROVE  CallOf(u)'
    BY <1>1, <1>2, <2>2 DEF InCall, CallOf
  <2> QED
    BY <2>1, <2>2 DEF InCall
<1>4. OneOwner'
  BY <1>1, <1>2 DEF OneOwner, Moves
<1>5. Locks'
  <2>1. ASSUME NEW u \in Threads
        PROVE  /\ pc'[u] \in Serving => Mutex'[Ev(u)'] = u
               /\ pc'[u] \in Holding => Mutex'[mine'[u]] = u
    <3>1. CASE u = t
      BY <3>1 DEF Moves
    <3>2. CASE u # t
      <4>1. pc[u] \in Serving => Ev(u) \in Events /\ Mutex[Ev(u)] = u
        BY <1>1, EventCall DEF Locks, SetPlaces
      <4>2. pc[u] \in Holding => mine[u] \in Wfmos /\ Mutex[mine[u]] = u
        BY <1>1, MultiCall DEF Locks, MultiPlaces
      <4> QED
        BY <1>2, <3>2, <4>1, <4>2, EventsAssumption DEF Moves, MutexesMove
    <3> QED
      BY <3>1, <3>2
  <2>2. ASSUME NEW e \in Events, Mutex'[e] # NULL
        PROVE  pc'[Mutex'[e]] \in Serving /\ Ev(Mutex[e])' = e
    <3>1. CASE Mutex'[e] = t
      BY <2>2, <3>1, EventsAssumption DEF Moves, MutexesMove, Ev
    <3>2. CASE Mutex'[e] # t
      <4>1. Mutex'[e] = Mutex[e] /\ Mutex[e] \in Threads \ {t}
        BY <2>2, <3>2 DEF Moves, MutexesMove, Types
      <4> QED
        BY <2>2, <4>1, <1>1, <1>2 DEF Locks, Ev
    <3> QED
      BY <3>1, <3>2
  <2>3. ASSUME NEW w \in Wfmos, Mutex'[w] # NULL
        PROVE  pc'[Mutex'[w]] \in Holding /\ mine'[Mutex'[w]] = w
    <3>1. CASE Mutex'[w] = t
      BY <2>3, <3>1, EventsAssumption DEF Moves, MutexesMove
    <3>2. CASE Mutex'[w] # t
      <4>1. Mutex'[w] = Mutex[w] /\ Mutex[w] \in Threads \ {t}
        BY <2>3, <3>2 DEF Moves, MutexesMove, Types
      <4> QED
        BY <2>3, <4>1, <1>1, <1>2 DEF Locks
    <3> QED
      BY <3>1, <3>2
  <2> QED
    BY <2>1, <2>2, <2>3 DEF Locks
<1>6. Sleepers'
  <2>1. ASSUME NEW m \in Events \cup Wfmos, NEW u \in asleep'[m]
        PROVE  /\ m \in Events => pc'[u] = "wait.sleep" /\ Ev(u)' = m
               /\ m \in Wfmos => pc'[u] = "multi.sleep" /\ mine'[u] = m
    <3>1. CASE u = t
      BY <2>1, <3>1 DEF Moves, SleepersMove
    <3>2. CASE u # t
      <4>1. u \in asleep[m] /\ u \in Threads
        BY <2>1, <3>2 DEF Moves, SleepersMove, Types
      <4> QED
        BY <4>1, <1>1, <1>2, <3>2 DEF Sleepers, At
    <3> QED
      BY <3>1, <3>2
  <2> QED
    BY <2>1 DEF Sleepers, At
<1>7. InQueue'
  <2>1. PlaceOf(t)'
    BY DEF Moves
  <2>2. ASSUME NEW u \in Threads, u # t
        PROVE  PlaceOf(u)'
    <3>1. pc[u] \in Serving => Waits(u)' = Waits(u)
      BY <1>2, <2>2 DEF Moves, Waits
    <3> QED
      BY <1>1, <1>2, <2>2, <3>1 DEF InQueue, PlaceOf
  <2> QED
    BY <2>1, <2>2 DEF InQueue
<1> QED
  BY <1>3, <1>4, <1>5, <1>6, <1>7 DEF Control

LEMMA WaitLockMoves ==
  ASSUME Types, Control, NEW t \in Threads, WaitLock(t)
  PROVE  Moves(t)
<1> USE DEF At, Goto, Stay, Return, Locked, Unlocked, IsFree
<1>1. InCall /\ OneOwner /\ Locks /\ Sleepers /\ InQueue /\ CallOf(t) /\ PlaceOf(t)
  BY DEF Control, InCall, InQueue
<1>2. pc[t] \in WaitPlaces \cup SetPlaces => Ev(t) \in Events
  BY <1>1, EventCall
<1>3. pc[t] \in MultiPlaces =>
        /\ mine[t] \in Wfmos /\ Count(t) \in Nat /\ i[t] \in Nat
        /\ i[t] < Count(t) => CurrentEvent(t) \in Events
  BY <1>1, MultiCall
<1>4. Frame(t)
  BY <1>1, WaitLockFrame
<1>5. CallOf(t)'
  BY <1>1 DEF WaitLock, CallOf, Types, AfterSet, Pass, Count, WaitPlaces, SetPlaces, MultiPlaces,
     Serving, Holding, threadVars
<1>6. mine'[t] # NULL => \A u \in Threads \ {t} : mine[u] # mine'[t]
  BY <1>1 DEF WaitLock, OneOwner, Types, Pass, AfterSet, threadVars
<1>7. /\ pc'[t] \in Serving => Mutex'[Ev(t)'] = t
      /\ pc'[t] \in Holding => Mutex'[mine'[t]] = t
  BY <1>1, <1>2, <1>3 DEF WaitLock, Locks, Types, AfterSet, Pass, Ev, WaitPlaces, SetPlaces,
     MultiPlaces, Serving, Holding, threadVars
<1>8. MutexesMove(t)
  BY <1>1, <1>2, <1>3, EventsAssumption DEF WaitLock, MutexesMove, Locks, Types, AfterSet, Pass,
     Ev, WaitPlaces, SetPlaces, MultiPlaces, Serving, Holding, threadVars
<1>9. SleepersMove(t)
  <2>1. \A m \in Events \cup Wfmos : t \notin asleep[m]
    BY <1>1, EventsAssumption DEF WaitLock, Sleepers, Woken
  <2>2. \/ asleep' = asleep
        \/ /\ asleep' = [asleep EXCEPT ![Ev(t)] = @ \cup {t}]
           /\ pc' = [pc EXCEPT ![t] = "wait.sleep"] /\ call' = call /\ mine' = mine
    BY DEF WaitLock
  <2>3. CASE asleep' = asleep
    BY <2>1, <2>3 DEF SleepersMove
  <2>4. CASE asleep' # asleep
    <3>1. /\ asleep' = [asleep EXCEPT ![Ev(t)] = @ \cup {t}]
          /\ pc'[t] = "wait.sleep" /\ Ev(t)' = Ev(t) /\ mine'[t] = mine[t]
      BY <2>2, <2>4 DEF Types, Ev
    <3>2. \A m \in Events \cup Wfmos : asleep'[m] = IF m = Ev(t) THEN asleep[m] \cup {t} ELSE asleep[m]
      BY <3>1 DEF Types
    <3>3. Ev(t) \in Events
      BY <1>2, <1>3 DEF WaitLock, WaitPlaces, MultiPlaces, Holding
    <3> QED
      BY <2>1, <3>1, <3>2, <3>3, EventsAssumption DEF SleepersMove
  <2> QED
    BY <2>3, <2>4
<1>10. PlaceOf(t)'
  BY <1>1, <1>2 DEF WaitLock, PlaceOf, Types, AfterSet, Pass, Waits, Ev, WaitPlaces, SetPlaces,
     Serving, threadVars
<1>11. \A u \in Threads \ {t} : pc[u] \in Serving =>
         RegisteredWaits'[Ev(u)] = RegisteredWaits[Ev(u)]
  BY <1>1, <1>2, <1>3, EventsAssumption DEF WaitLock, Locks, Types, Pass, Waits, Cleared, Serving,
     SetPlaces, threadVars
<1> QED
  BY <1>4, <1>5, <1>6, <1>7, <1>8, <1>9, <1>10, <1>11 DEF Moves

LEMMA WaitTimeoutMoves ==
  ASSUME Types, Control, NEW t \in Threads, WaitTimeout(t)
  PROVE  Moves(t)
<1> USE DEF At, Goto, Stay, Return, Locked, Unlocked, IsFree
<1>1. InCall /\ OneOwner /\ Locks /\ Sleepers /\ InQueue /\ CallOf(t) /\ PlaceOf(t)
  BY DEF Control, InCall, InQueue
<1>2. pc[t] \in WaitPlaces \cup SetPlaces => Ev(t) \in Events
  BY <1>1, EventCall
<1>3. pc[t] \in MultiPlaces =>
        /\ mine[t] \in Wfmos /\ Count(t) \in Nat /\ i[t] \in Nat
        /\ i[t] < Count(t) => CurrentEvent(t) \in Events
  BY <1>1, MultiCall
<1>4. Frame(t)
  BY <1>1, WaitTimeoutFrame
<1>5. CallOf(t)'
  BY <1>1 DEF WaitTimeout, CallOf, Types, AfterSet, Pass, Count, WaitPlaces, SetPlaces,
     MultiPlaces, Serving, Holding, threadVars
<1>6. mine'[t] # NULL => \A u \in Threads \ {t} : mine[u] # mine'[t]
  BY <1>1 DEF WaitTimeout, OneOwner, Types, Pass, AfterSet, threadVars
<1>7. /\ pc'[t] \in Serving => Mutex'[Ev(t)'] = t
      /\ pc'[t] \in Holding => Mutex'[mine'[t]] = t
  BY <1>1, <1>2, <1>3 DEF WaitTimeout, Locks, Types, AfterSet, Pass, Ev, WaitPlaces, SetPlaces,
     MultiPlaces, Serving, Holding, threadVars
<1>8. MutexesMove(t)
  BY <1>1, <1>2, <1>3, EventsAssumption DEF WaitTimeout, MutexesMove, Locks, Types, AfterSet, Pass,
     Ev, WaitPlaces, SetPlaces, MultiPlaces, Serving, Holding, threadVars
<1>9. SleepersMove(t)
  BY <1>1, <1>2, <1>3, EventsAssumption DEF WaitTimeout, SleepersMove, Sleepers, Types, Ev, Woken,
     Signal, Broadcast, AfterSet, WaitPlaces, SetPlaces, MultiPlaces, Serving, Holding, threadVars
<1>10. PlaceOf(t)'
  BY <1>1, <1>2 DEF WaitTimeout, PlaceOf, Types, AfterSet, Pass, Waits, Ev, WaitPlaces, SetPlaces,
     Serving, threadVars
<1>11. \A u \in Threads \ {t} : pc[u] \in Serving =>
         RegisteredWaits'[Ev(u)] = RegisteredWaits[Ev(u)]
  BY <1>1, <1>2, <1>3, EventsAssumption DEF WaitTimeout, Locks, Types, Pass, Waits, Cleared,
     Serving, SetPlaces, threadVars
<1> QED
  BY <1>4, <1>5, <1>6, <1>7, <1>8, <1>9, <1>10, <1>11 DEF Moves

LEMMA WaitTimedOutMoves ==
  ASSUME Types, Control, NEW t \in Threads, WaitTimedOut(t)
  PROVE  Moves(t)
<1> USE DEF At, Goto, Stay, Return, Locked, Unlocked, IsFree
<1>1. InCall /\ OneOwner /\ Locks /\ Sleepers /\ InQueue /\ CallOf(t) /\ PlaceOf(t)
  BY DEF Control, InCall, InQueue
<1>2. pc[t] \in WaitPlaces \cup SetPlaces => Ev(t) \in Events
  BY <1>1, EventCall
<1>3. pc[t] \in MultiPlaces =>
        /\ mine[t] \in Wfmos /\ Count(t) \in Nat /\ i[t] \in Nat
        /\ i[t] < Count(t) => CurrentEvent(t) \in Events
  BY <1>1, MultiCall
<1>4. Frame(t)
  BY <1>1, WaitTimedOutFrame
<1>5. CallOf(t)'
  BY <1>1 DEF WaitTimedOut, CallOf, Types, AfterSet, Pass, Count, WaitPlaces, SetPlaces,
     MultiPlaces, Serving, Holding, threadVars
<1>6. mine'[t] # NULL => \A u \in Threads \ {t} : mine[u] # mine'[t]
  BY <1>1 DEF WaitTimedOut, OneOwner, Types, Pass, AfterSet, threadVars
<1>7. /\ pc'[t] \in Serving => Mutex'[Ev(t)'] = t
      /\ pc'[t] \in Holding => Mutex'[mine'[t]] = t
  BY <1>1, <1>2, <1>3 DEF WaitTimedOut, Locks, Types, AfterSet, Pass, Ev, WaitPlaces, SetPlaces,
     MultiPlaces, Serving, Holding, threadVars
<1>8. MutexesMove(t)
  BY <1>1, <1>2, <1>3, EventsAssumption DEF WaitTimedOut, MutexesMove, Locks, Types, AfterSet,
     Pass, Ev, WaitPlaces, SetPlaces, MultiPlaces, Serving, Holding, threadVars
<1>9. SleepersMove(t)
  BY <1>1, <1>2, <1>3, EventsAssumption DEF WaitTimedOut, SleepersMove, Sleepers, Types, Ev, Woken,
     Signal, Broadcast, AfterSet, WaitPlaces, SetPlaces, MultiPlaces, Serving, Holding, threadVars
<1>10. PlaceOf(t)'
  BY <1>1, <1>2 DEF WaitTimedOut, PlaceOf, Types, AfterSet, Pass, Waits, Ev, WaitPlaces, SetPlaces,
     Serving, threadVars
<1>11. \A u \in Threads \ {t} : pc[u] \in Serving =>
         RegisteredWaits'[Ev(u)] = RegisteredWaits[Ev(u)]
  BY <1>1, <1>2, <1>3, EventsAssumption DEF WaitTimedOut, Locks, Types, Pass, Waits, Cleared,
     Serving, SetPlaces, threadVars
<1> QED
  BY <1>4, <1>5, <1>6, <1>7, <1>8, <1>9, <1>10, <1>11 DEF Moves

LEMMA SetLockMoves ==
  ASSUME Types, Control, NEW t \in Threads, SetLock(t)
  PROVE  Moves(t)
<1> USE DEF At, Goto, Stay, Return, Locked, Unlocked, IsFree
<1>1. InCall /\ OneOwner /\ Locks /\ Sleepers /\ InQueue /\ CallOf(t) /\ PlaceOf(t)
  BY DEF Control, InCall, InQueue
<1>2. pc[t] \in WaitPlaces \cup SetPlaces => Ev(t) \in Events
  BY <1>1, EventCall
<1>3. pc[t] \in MultiPlaces =>
        /\ mine[t] \in Wfmos /\ Count(t) \in Nat /\ i[t] \in Nat
        /\ i[t] < Count(t) => CurrentEvent(t) \in Events
  BY <1>1, MultiCall
<1>4. Frame(t)
  BY <1>1, SetLockFrame
<1>5. CallOf(t)'
  BY <1>1 DEF SetLock, CallOf, Types, AfterSet, Pass, Count, WaitPlaces, SetPlaces, MultiPlaces,
     Serving, Holding, threadVars
<1>6. mine'[t] # NULL => \A u \in Threads \ {t} : mine[u] # mine'[t]
  BY <1>1 DEF SetLock, OneOwner, Types, Pass, AfterSet, threadVars
<1>7. /\ pc'[t] \in Serving => Mutex'[Ev(t)'] = t
      /\ pc'[t] \in Holding => Mutex'[mine'[t]] = t
  BY <1>1, <1>2, <1>3 DEF SetLock, Locks, Types, AfterSet, Pass, Ev, WaitPlaces, SetPlaces,
     MultiPlaces, Serving, Holding, threadVars
<1>8. MutexesMove(t)
  <2>1. Ev(t) \in Events /\ pc[t] \in SetPlaces
    BY <1>2 DEF SetLock, SetPlaces, Serving
  <2>2. Mutex' = [Mutex EXCEPT ![Ev(t)] = t] /\ Mutex[Ev(t)] = NULL /\ pc'[t] \in Serving /\ call' = call
    BY DEF SetLock, Types, Serving
  <2>3. \A m \in Events \cup Wfmos : Mutex[m] = t => m = Ev(t)
    BY <1>1, <2>1, EventsAssumption DEF Locks, Serving, Holding, SetPlaces
  <2>4. Mutex[Ev(t)] = t \/ Mutex[Ev(t)] = NULL
    BY <1>1 DEF SetLock, Locks, Serving
  <2> QED
    BY <2>1, <2>2, <2>3, <2>4, EventsAssumption DEF MutexesMove, Types, Ev
<1>9. SleepersMove(t)
  BY <1>1, <1>2, <1>3, EventsAssumption DEF SetLock, SleepersMove, Sleepers, Types, Ev, Woken,
     Signal, Broadcast, AfterSet, WaitPlaces, SetPlaces, MultiPlaces, Serving, Holding, threadVars
<1>10. PlaceOf(t)'
  BY <1>1, <1>2 DEF SetLock, PlaceOf, Types, AfterSet, Pass, Waits, Ev, WaitPlaces, SetPlaces,
     Serving, threadVars
<1>11. \A u \in Threads \ {t} : pc[u] \in Serving =>
         RegisteredWaits'[Ev(u)] = RegisteredWaits[Ev(u)]
  BY <1>1, <1>2, <1>3, EventsAssumption DEF SetLock, Locks, Types, Pass, Waits, Cleared, Serving,
     SetPlaces, threadVars
<1> QED
  BY <1>4, <1>5, <1>6, <1>7, <1>8, <1>9, <1>10, <1>11 DEF Moves

LEMMA SetNextMoves ==
  ASSUME Types, Control, NEW t \in Threads, SetNext(t)
  PROVE  Moves(t)
<1> USE DEF At, Goto, Stay, Return, Locked, Unlocked, IsFree
<1>1. InCall /\ OneOwner /\ Locks /\ Sleepers /\ InQueue /\ CallOf(t) /\ PlaceOf(t)
  BY DEF Control, InCall, InQueue
<1>2. pc[t] \in WaitPlaces \cup SetPlaces => Ev(t) \in Events
  BY <1>1, EventCall
<1>3. pc[t] \in MultiPlaces =>
        /\ mine[t] \in Wfmos /\ Count(t) \in Nat /\ i[t] \in Nat
        /\ i[t] < Count(t) => CurrentEvent(t) \in Events
  BY <1>1, MultiCall
<1>4. Frame(t)
  BY <1>1, SetNextFrame
<1>5. CallOf(t)'
  BY <1>1 DEF SetNext, CallOf, Types, AfterSet, Pass, Count, WaitPlaces, SetPlaces, MultiPlaces,
     Serving, Holding, threadVars
<1>6. mine'[t] # NULL => \A u \in Threads \ {t} : mine[u] # mine'[t]
  BY <1>1 DEF SetNext, OneOwner, Types, Pass, AfterSet, threadVars
<1>7. /\ pc'[t] \in Serving => Mutex'[Ev(t)'] = t
      /\ pc'[t] \in Holding => Mutex'[mine'[t]] = t
  BY <1>1, <1>2, <1>3 DEF SetNext, Locks, Types, AfterSet, Pass, Ev, WaitPlaces, SetPlaces,
     MultiPlaces, Serving, Holding, threadVars
<1>8. MutexesMove(t)
  <2>1. Ev(t) \in Events /\ pc[t] \in SetPlaces
    BY <1>2 DEF SetNext, SetPlaces, Serving
  <2>2. (Mutex' = Mutex /\ pc'[t] \in Serving /\ call' = call) \/ Mutex' = [Mutex EXCEPT ![Ev(t)] = NULL]
    BY DEF SetNext, Types, Serving
  <2>3. \A m \in Events \cup Wfmos : Mutex[m] = t => m = Ev(t)
    BY <1>1, <2>1, EventsAssumption DEF Locks, Serving, Holding, SetPlaces
  <2>4. Mutex[Ev(t)] = t \/ Mutex[Ev(t)] = NULL
    BY <1>1 DEF SetNext, Locks, Serving
  <2> QED
    BY <2>1, <2>2, <2>3, <2>4, EventsAssumption DEF MutexesMove, Types, Ev
<1>9. SleepersMove(t)
  BY <1>1, <1>2, <1>3, EventsAssumption DEF SetNext, SleepersMove, Sleepers, Types, Ev, Woken,
     Signal, Broadcast, AfterSet, WaitPlaces, SetPlaces, MultiPlaces, Serving, Holding, threadVars
<1>10. PlaceOf(t)'
  BY <1>1, <1>2 DEF SetNext, PlaceOf, Types, AfterSet, Pass, Waits, Ev, WaitPlaces, SetPlaces,
     Serving, threadVars
<1>11. \A u \in Threads \ {t} : pc[u] \in Serving =>
         RegisteredWaits'[Ev(u)] = RegisteredWaits[Ev(u)]
  <2>1. pc[t] \in Serving /\ Ev(t) \in Events
    BY <1>2 DEF SetNext, Serving, SetPlaces
  <2>2. \A u \in Threads \ {t} : pc[u] \in Serving => Ev(u) # Ev(t)
    BY <1>1, <2>1 DEF Locks
  <2>3. \E q : RegisteredWaits' = [RegisteredWaits EXCEPT ![Ev(t)] = q]
    <3>1. RegisteredWaits = [RegisteredWaits EXCEPT ![Ev(t)] = RegisteredWaits[Ev(t)]]
      BY DEF Types
    <3> QED
      BY <3>1 DEF SetNext, Pass
  <2> QED
    BY <2>1, <2>2, <2>3 DEF Types
<1> QED
  BY <1>4, <1>5, <1>6, <1>7, <1>8, <1>9, <1>10, <1>11 DEF Moves

LEMMA SetWaiterMoves ==
  ASSUME Types, Control, NEW t \in Threads, SetWaiter(t)
  PROVE  Moves(t)
<1> USE DEF At, Goto, Stay, Return, Locked, Unlocked, IsFree
<1>1. InCall /\ OneOwner /\ Locks /\ Sleepers /\ InQueue /\ CallOf(t) /\ PlaceOf(t)
  BY DEF Control, InCall, InQueue
<1>2. pc[t] \in WaitPlaces \cup SetPlaces => Ev(t) \in Events
  BY <1>1, EventCall
<1>3. pc[t] \in MultiPlaces =>
        /\ mine[t] \in Wfmos /\ Count(t) \in Nat /\ i[t] \in Nat
        /\ i[t] < Count(t) => CurrentEvent(t) \in Events
  BY <1>1, MultiCall
<1>4. Frame(t)
  BY <1>1, SetWaiterFrame
<1>5. CallOf(t)'
  BY <1>1 DEF SetWaiter, CallOf, Types, AfterSet, Pass, Count, WaitPlaces, SetPlaces, MultiPlaces,
     Serving, Holding, threadVars
<1>6. mine'[t] # NULL => \A u \in Threads \ {t} : mine[u] # mine'[t]
  BY <1>1 DEF SetWaiter, OneOwner, Types, Pass, AfterSet, threadVars
<1>7. /\ pc'[t] \in Serving => Mutex'[Ev(t)'] = t
      /\ pc'[t] \in Holding => Mutex'[mine'[t]] = t
  BY <1>1, <1>2, <1>3 DEF SetWaiter, Locks, Types, AfterSet, Pass, Ev, WaitPlaces, SetPlaces,
     MultiPlaces, Serving, Holding, threadVars
<1>8. MutexesMove(t)
  BY <1>1, <1>2, <1>3, EventsAssumption DEF SetWaiter, MutexesMove, Locks, Types, AfterSet, Pass,
     Ev, WaitPlaces, SetPlaces, MultiPlaces, Serving, Holding, threadVars
<1>9. SleepersMove(t)
  BY <1>1, <1>2, <1>3, EventsAssumption DEF SetWaiter, SleepersMove, Sleepers, Types, Ev, Woken,
     Signal, Broadcast, AfterSet, WaitPlaces, SetPlaces, MultiPlaces, Serving, Holding, threadVars
<1>10. PlaceOf(t)'
  BY <1>1, <1>2 DEF SetWaiter, PlaceOf, Types, AfterSet, Pass, Waits, Ev, WaitPlaces, SetPlaces,
     Serving, threadVars
<1>11. \A u \in Threads \ {t} : pc[u] \in Serving =>
         RegisteredWaits'[Ev(u)] = RegisteredWaits[Ev(u)]
  <2>1. pc[t] \in Serving /\ Ev(t) \in Events
    BY <1>2 DEF SetWaiter, Serving, SetPlaces
  <2>2. \A u \in Threads \ {t} : pc[u] \in Serving => Ev(u) # Ev(t)
    BY <1>1, <2>1 DEF Locks
  <2>3. \E q : RegisteredWaits' = [RegisteredWaits EXCEPT ![Ev(t)] = q]
    <3>1. RegisteredWaits = [RegisteredWaits EXCEPT ![Ev(t)] = RegisteredWaits[Ev(t)]]
      BY DEF Types
    <3> QED
      BY <3>1 DEF SetWaiter, Pass
  <2> QED
    BY <2>1, <2>2, <2>3 DEF Types
<1> QED
  BY <1>4, <1>5, <1>6, <1>7, <1>8, <1>9, <1>10, <1>11 DEF Moves

LEMMA SetReleaseMoves ==
  ASSUME Types, Control, NEW t \in Threads, SetRelease(t)
  PROVE  Moves(t)
<1> USE DEF At, Goto, Stay, Return, Locked, Unlocked, IsFree
<1>1. InCall /\ OneOwner /\ Locks /\ Sleepers /\ InQueue /\ CallOf(t) /\ PlaceOf(t)
  BY DEF Control, InCall, InQueue
<1>2. pc[t] \in WaitPlaces \cup SetPlaces => Ev(t) \in Events
  BY <1>1, EventCall
<1>3. pc[t] \in MultiPlaces =>
        /\ mine[t] \in Wfmos /\ Count(t) \in Nat /\ i[t] \in Nat
        /\ i[t] < Count(t) => CurrentEvent(t) \in Events
  BY <1>1, MultiCall
<1>4. Frame(t)
  BY <1>1, SetReleaseFrame
<1>5. CallOf(t)'
  <2>1. /\ mine' = mine /\ skipped_refs' = skipped_refs /\ pc[t] = "set.release"
        /\ \/ pc'[t] = "idle" /\ call'[t] = NULL
           \/ pc'[t] \in {"pulse.reset", "set.next"} /\ call' = call
    BY DEF SetRelease, Types, AfterSet
  <2>2. /\ call[t] \in Calls[t] /\ call[t].fn \in {"SetEvent", "PulseEvent"}
        /\ mine[t] = NULL /\ skipped_refs[t] = 0
    BY <1>1, <2>1 DEF CallOf, SetPlaces, Serving, MultiPlaces, Holding
  <2> HIDE DEF At, Goto, Stay, Return
  <2>3. /\ call'[t] \in Calls[t] \cup {NULL}
        /\ pc'[t] # "idle" => call'[t] \in Calls[t]
        /\ pc'[t] \notin WaitPlaces /\ pc'[t] \notin MultiPlaces
    BY <2>1, <2>2 DEF WaitPlaces, MultiPlaces, Holding
  <2>4. pc'[t] \in SetPlaces => call'[t].fn \in {"SetEvent", "PulseEvent"}
    BY <2>1, <2>2 DEF SetPlaces, Serving
  <2>5. mine'[t] = NULL /\ skipped_refs'[t] = 0
    BY <2>1, <2>2
  <2> QED
    BY <2>3, <2>4, <2>5 DEF CallOf
<1>6. mine'[t] # NULL => \A u \in Threads \ {t} : mine[u] # mine'[t]
  BY <1>1 DEF SetRelease, OneOwner, Types, Pass, AfterSet, threadVars
<1>7. /\ pc'[t] \in Serving => Mutex'[Ev(t)'] = t
      /\ pc'[t] \in Holding => Mutex'[mine'[t]] = t
  BY <1>1, <1>2, <1>3 DEF SetRelease, Locks, Types, AfterSet, Pass, Ev, WaitPlaces, SetPlaces,
     MultiPlaces, Serving, Holding, threadVars
<1>8. MutexesMove(t)
  <2>1. Ev(t) \in Events /\ pc[t] \in SetPlaces
    BY <1>2 DEF SetRelease, SetPlaces, Serving
  <2>2. (Mutex' = Mutex /\ pc'[t] \in Serving /\ call' = call) \/ Mutex' = [Mutex EXCEPT ![Ev(t)] = NULL]
    BY DEF SetRelease, Types, Serving
  <2>3. \A m \in Events \cup Wfmos : Mutex[m] = t => m = Ev(t)
    BY <1>1, <2>1, EventsAssumption DEF Locks, Serving, Holding, SetPlaces
  <2>4. Mutex[Ev(t)] = t \/ Mutex[Ev(t)] = NULL
    BY <1>1 DEF SetRelease, Locks, Serving
  <2> QED
    BY <2>1, <2>2, <2>3, <2>4, EventsAssumption DEF MutexesMove, Types, Ev
<1>9. SleepersMove(t)
  <2>1. \A m \in Events \cup Wfmos : t \notin asleep[m]
    BY <1>1 DEF SetRelease, Sleepers
  <2>2. \E m, u : asleep' = asleep \/ asleep' = [asleep EXCEPT ![m] = @ \ {u}]
    BY DEF SetRelease, Signal
  <2>3. \A m \in Events \cup Wfmos : asleep'[m] \subseteq asleep[m]
    BY <2>2 DEF Types
  <2> QED
    BY <2>1, <2>3 DEF SleepersMove
<1>10. PlaceOf(t)'
  BY <1>1, <1>2 DEF SetRelease, PlaceOf, Types, AfterSet, Pass, Waits, Ev, WaitPlaces, SetPlaces,
     Serving, threadVars
<1>11. \A u \in Threads \ {t} : pc[u] \in Serving =>
         RegisteredWaits'[Ev(u)] = RegisteredWaits[Ev(u)]
  <2>1. pc[t] \in Serving /\ Ev(t) \in Events
    BY <1>2 DEF SetRelease, Serving, SetPlaces
  <2>2. \A u \in Threads \ {t} : pc[u] \in Serving => Ev(u) # Ev(t)
    BY <1>1, <2>1 DEF Locks
  <2>3. \E q : RegisteredWaits' = [RegisteredWaits EXCEPT ![Ev(t)] = q]
    <3>1. RegisteredWaits = [RegisteredWaits EXCEPT ![Ev(t)] = RegisteredWaits[Ev(t)]]
      BY DEF Types
    <3> QED
      BY <3>1 DEF SetRelease, Pass
  <2> QED
    BY <2>1, <2>2, <2>3 DEF Types
<1> QED
  BY <1>4, <1>5, <1>6, <1>7, <1>8, <1>9, <1>10, <1>11 DEF Moves

LEMMA SetSignalMoves ==
  ASSUME Types, Control, NEW t \in Threads, SetSignal(t)
  PROVE  Moves(t)
<1> USE DEF At, Goto, Stay, Return, Locked, Unlocked, IsFree
<1>1. InCall /\ OneOwner /\ Locks /\ Sleepers /\ InQueue /\ CallOf(t) /\ PlaceOf(t)
  BY DEF Control, InCall, InQueue
<1>2. pc[t] \in WaitPlaces \cup SetPlaces => Ev(t) \in Events
  BY <1>1, EventCall
<1>3. pc[t] \in MultiPlaces =>
        /\ mine[t] \in Wfmos /\ Count(t) \in Nat /\ i[t] \in Nat
        /\ i[t] < Count(t) => CurrentEvent(t) \in Events
  BY <1>1, MultiCall
<1>4. Frame(t)
  BY <1>1, SetSignalFrame
<1>5. CallOf(t)'
  BY <1>1 DEF SetSignal, CallOf, Types, AfterSet, Pass, Count, WaitPlaces, SetPlaces, MultiPlaces,
     Serving, Holding, threadVars
<1>6. mine'[t] # NULL => \A u \in Threads \ {t} : mine[u] # mine'[t]
  BY <1>1 DEF SetSignal, OneOwner, Types, Pass, AfterSet, threadVars
<1>7. /\ pc'[t] \in Serving => Mutex'[Ev(t)'] = t
      /\ pc'[t] \in Holding => Mutex'[mine'[t]] = t
  BY <1>1, <1>2, <1>3 DEF SetSignal, Locks, Types, AfterSet, Pass, Ev, WaitPlaces, SetPlaces,
     MultiPlaces, Serving, Holding, threadVars
<1>8. MutexesMove(t)
  BY <1>1, <1>2, <1>3, EventsAssumption DEF SetSignal, MutexesMove, Locks, Types, AfterSet, Pass,
     Ev, WaitPlaces, SetPlaces, MultiPlaces, Serving, Holding, threadVars
<1>9. SleepersMove(t)
  BY <1>1, <1>2, <1>3, EventsAssumption DEF SetSignal, SleepersMove, Sleepers, Types, Ev, Woken,
     Signal, Broadcast, AfterSet, WaitPlaces, SetPlaces, MultiPlaces, Serving, Holding, threadVars
<1>10. PlaceOf(t)'
  BY <1>1, <1>2 DEF SetSignal, PlaceOf, Types, AfterSet, Pass, Waits, Ev, WaitPlaces, SetPlaces,
     Serving, threadVars
<1>11. \A u \in Threads \ {t} : pc[u] \in Serving =>
         RegisteredWaits'[Ev(u)] = RegisteredWaits[Ev(u)]
  BY <1>1, <1>2, <1>3, EventsAssumption DEF SetSignal, Locks, Types, Pass, Waits, Cleared, Serving,
     SetPlaces, threadVars
<1> QED
  BY <1>4, <1>5, <1>6, <1>7, <1>8, <1>9, <1>10, <1>11 DEF Moves

LEMMA PulseResetMoves ==
  ASSUME Types, Control, NEW t \in Threads, PulseReset(t)
  PROVE  Moves(t)
<1> USE DEF At, Goto, Stay, Return, Locked, Unlocked, IsFree
<1>1. InCall /\ OneOwner /\ Locks /\ Sleepers /\ InQueue /\ CallOf(t) /\ PlaceOf(t)
  BY DEF Control, InCall, InQueue
<1>2. pc[t] \in WaitPlaces \cup SetPlaces => Ev(t) \in Events
  BY <1>1, EventCall
<1>3. pc[t] \in MultiPlaces =>
        /\ mine[t] \in Wfmos /\ Count(t) \in Nat /\ i[t] \in Nat
        /\ i[t] < Count(t) => CurrentEvent(t) \in Events
  BY <1>1, MultiCall
<1>4. Frame(t)
  BY <1>1, PulseResetFrame
<1>5. CallOf(t)'
  BY <1>1 DEF PulseReset, CallOf, Types, AfterSet, Pass, Count, WaitPlaces, SetPlaces, MultiPlaces,
     Serving, Holding, threadVars
<1>6. mine'[t] # NULL => \A u \in Threads \ {t} : mine[u] # mine'[t]
  BY <1>1 DEF PulseReset, OneOwner, Types, Pass, AfterSet, threadVars
<1>7. /\ pc'[t] \in Serving => Mutex'[Ev(t)'] = t
      /\ pc'[t] \in Holding => Mutex'[mine'[t]] = t
  BY <1>1, <1>2, <1>3 DEF PulseReset, Locks, Types, AfterSet, Pass, Ev, WaitPlaces, SetPlaces,
     MultiPlaces, Serving, Holding, threadVars
<1>8. MutexesMove(t)
  BY <1>1, <1>2, <1>3, EventsAssumption DEF PulseReset, MutexesMove, Locks, Types, AfterSet, Pass,
     Ev, WaitPlaces, SetPlaces, MultiPlaces, Serving, Holding, threadVars
<1>9. SleepersMove(t)
  BY <1>1, <1>2, <1>3, EventsAssumption DEF PulseReset, SleepersMove, Sleepers, Types, Ev, Woken,
     Signal, Broadcast, AfterSet, WaitPlaces, SetPlaces, MultiPlaces, Serving, Holding, threadVars
<1>10. PlaceOf(t)'
  BY <1>1, <1>2 DEF PulseReset, PlaceOf, Types, AfterSet, Pass, Waits, Ev, WaitPlaces, SetPlaces,
     Serving, threadVars
<1>11. \A u \in Threads \ {t} : pc[u] \in Serving =>
         RegisteredWaits'[Ev(u)] = RegisteredWaits[Ev(u)]
  BY <1>1, <1>2, <1>3, EventsAssumption DEF PulseReset, Locks, Types, Pass, Waits, Cleared,
     Serving, SetPlaces, threadVars
<1> QED
  BY <1>4, <1>5, <1>6, <1>7, <1>8, <1>9, <1>10, <1>11 DEF Moves

LEMMA MultiRegisterMoves ==
  ASSUME Types, Control, NEW t \in Threads, MultiRegister(t)
  PROVE  Moves(t)
<1> USE DEF At, Goto, Stay, Return, Locked, Unlocked, IsFree
<1>1. InCall /\ OneOwner /\ Locks /\ Sleepers /\ InQueue /\ CallOf(t) /\ PlaceOf(t)
  BY DEF Control, InCall, InQueue
<1>2. pc[t] \in WaitPlaces \cup SetPlaces => Ev(t) \in Events
  BY <1>1, EventCall
<1>3. pc[t] \in MultiPlaces =>
        /\ mine[t] \in Wfmos /\ Count(t) \in Nat /\ i[t] \in Nat
        /\ i[t] < Count(t) => CurrentEvent(t) \in Events
  BY <1>1, MultiCall
<1>4. Frame(t)
  BY <1>1, MultiRegisterFrame
<1>5. CallOf(t)'
  BY <1>1 DEF MultiRegister, CallOf, Types, AfterSet, Pass, Count, WaitPlaces, SetPlaces,
     MultiPlaces, Serving, Holding, threadVars
<1>6. mine'[t] # NULL => \A u \in Threads \ {t} : mine[u] # mine'[t]
  BY <1>1 DEF MultiRegister, OneOwner, Types, Pass, AfterSet, threadVars
<1>7. /\ pc'[t] \in Serving => Mutex'[Ev(t)'] = t
      /\ pc'[t] \in Holding => Mutex'[mine'[t]] = t
  BY <1>1, <1>2, <1>3 DEF MultiRegister, Locks, Types, AfterSet, Pass, Ev, WaitPlaces, SetPlaces,
     MultiPlaces, Serving, Holding, threadVars
<1>8. MutexesMove(t)
  BY <1>1, <1>2, <1>3, EventsAssumption DEF MultiRegister, MutexesMove, Locks, Types, AfterSet,
     Pass, Ev, WaitPlaces, SetPlaces, MultiPlaces, Serving, Holding, threadVars
<1>9. SleepersMove(t)
  BY <1>1, <1>2, <1>3, EventsAssumption DEF MultiRegister, SleepersMove, Sleepers, Types, Ev,
     Woken, Signal, Broadcast, AfterSet, WaitPlaces, SetPlaces, MultiPlaces, Serving, Holding,
     threadVars
<1>10. PlaceOf(t)'
  BY <1>1, <1>2 DEF MultiRegister, PlaceOf, Types, AfterSet, Pass, Waits, Ev, WaitPlaces,
     SetPlaces, Serving, threadVars
<1>11. \A u \in Threads \ {t} : pc[u] \in Serving =>
         RegisteredWaits'[Ev(u)] = RegisteredWaits[Ev(u)]
  <2> DEFINE e == CurrentEvent(t)
  <2>1. e \in Events
    BY <1>3 DEF MultiRegister, MultiPlaces, Holding
  <2>2. \A u \in Threads : pc[u] \in Serving /\ Ev(u) = e => Mutex[e] # NULL
    BY <1>1, EventsAssumption DEF Locks
  <2>3. \/ RegisteredWaits' = [RegisteredWaits EXCEPT ![e] = RegisteredWaits[e]]
        \/ Mutex[e] = NULL /\ \E q : RegisteredWaits' = [RegisteredWaits EXCEPT ![e] = q]
    BY DEF MultiRegister
  <2> HIDE DEF e
  <2>4. \A f \in Events \ {e} : RegisteredWaits'[f] = RegisteredWaits[f]
    BY <2>1, <2>3 DEF Types
  <2>5. Mutex[e] # NULL => RegisteredWaits'[e] = RegisteredWaits[e]
    BY <2>1, <2>3 DEF Types
  <2>6. \A u \in Threads : pc[u] \in Serving => Ev(u) \in Events
    BY <1>1, EventCall DEF SetPlaces
  <2> QED
    BY <2>2, <2>4, <2>5, <2>6
<1> QED
  BY <1>4, <1>5, <1>6, <1>7, <1>8, <1>9, <1>10, <1>11 DEF Moves

LEMMA MultiWaitMoves ==
  ASSUME Types, Control, NEW t \in Threads, MultiWait(t)
  PROVE  Moves(t)
<1> USE DEF At, Goto, Stay, Return, Locked, Unlocked, IsFree
<1>1. InCall /\ OneOwner /\ Locks /\ Sleepers /\ InQueue /\ CallOf(t) /\ PlaceOf(t)
  BY DEF Control, InCall, InQueue
<1>2. pc[t] \in WaitPlaces \cup SetPlaces => Ev(t) \in Events
  BY <1>1, EventCall
<1>3. pc[t] \in MultiPlaces =>
        /\ mine[t] \in Wfmos /\ Count(t) \in Nat /\ i[t] \in Nat
        /\ i[t] < Count(t) => CurrentEvent(t) \in Events
  BY <1>1, MultiCall
<1>4. Frame(t)
  BY <1>1, MultiWaitFrame
<1>5. CallOf(t)'
  BY <1>1 DEF MultiWait, CallOf, Types, AfterSet, Pass, Count, WaitPlaces, SetPlaces, MultiPlaces,
     Serving, Holding, threadVars
<1>6. mine'[t] # NULL => \A u \in Threads \ {t} : mine[u] # mine'[t]
  BY <1>1 DEF MultiWait, OneOwner, Types, Pass, AfterSet, threadVars
<1>7. /\ pc'[t] \in Serving => Mutex'[Ev(t)'] = t
      /\ pc'[t] \in Holding => Mutex'[mine'[t]] = t
  BY <1>1, <1>2, <1>3 DEF MultiWait, Locks, Types, AfterSet, Pass, Ev, WaitPlaces, SetPlaces,
     MultiPlaces, Serving, Holding, threadVars
<1>8. MutexesMove(t)
  BY <1>1, <1>2, <1>3, EventsAssumption DEF MultiWait, MutexesMove, Locks, Types, AfterSet, Pass,
     Ev, WaitPlaces, SetPlaces, MultiPlaces, Serving, Holding, threadVars
<1>9. SleepersMove(t)
  <2>1. \A m \in Events \cup Wfmos : t \notin asleep[m]
    BY <1>1, EventsAssumption DEF MultiWait, Sleepers, Woken
  <2>2. \/ asleep' = asleep
        \/ /\ asleep' = [asleep EXCEPT ![mine[t]] = @ \cup {t}]
           /\ pc' = [pc EXCEPT ![t] = "multi.sleep"] /\ call' = call /\ mine' = mine
    BY DEF MultiWait
  <2>3. CASE asleep' = asleep
    BY <2>1, <2>3 DEF SleepersMove
  <2>4. CASE asleep' # asleep
    <3>1. /\ asleep' = [asleep EXCEPT ![mine[t]] = @ \cup {t}]
          /\ pc'[t] = "multi.sleep" /\ Ev(t)' = Ev(t) /\ mine'[t] = mine[t]
      BY <2>2, <2>4 DEF Types, Ev
    <3>2. \A m \in Events \cup Wfmos : asleep'[m] = IF m = mine[t] THEN asleep[m] \cup {t} ELSE asleep[m]
      BY <3>1 DEF Types
    <3>3. mine[t] \in Wfmos
      BY <1>2, <1>3 DEF MultiWait, WaitPlaces, MultiPlaces, Holding
    <3> QED
      BY <2>1, <3>1, <3>2, <3>3, EventsAssumption DEF SleepersMove
  <2> QED
    BY <2>3, <2>4
<1>10. PlaceOf(t)'
  BY <1>1, <1>2 DEF MultiWait, PlaceOf, Types, AfterSet, Pass, Waits, Ev, WaitPlaces, SetPlaces,
     Serving, threadVars
<1>11. \A u \in Threads \ {t} : pc[u] \in Serving =>
         RegisteredWaits'[Ev(u)] = RegisteredWaits[Ev(u)]
  BY <1>1, <1>2, <1>3, EventsAssumption DEF MultiWait, Locks, Types, Pass, Waits, Cleared, Serving,
     SetPlaces, threadVars
<1> QED
  BY <1>4, <1>5, <1>6, <1>7, <1>8, <1>9, <1>10, <1>11 DEF Moves

LEMMA MultiTimeoutMoves ==
  ASSUME Types, Control, NEW t \in Threads, MultiTimeout(t)
  PROVE  Moves(t)
<1> USE DEF At, Goto, Stay, Return, Locked, Unlocked, IsFree
<1>1. InCall /\ OneOwner /\ Locks /\ Sleepers /\ InQueue /\ CallOf(t) /\ PlaceOf(t)
  BY DEF Control, InCall, InQueue
<1>2. pc[t] \in WaitPlaces \cup SetPlaces => Ev(t) \in Events
  BY <1>1, EventCall
<1>3. pc[t] \in MultiPlaces =>
        /\ mine[t] \in Wfmos /\ Count(t) \in Nat /\ i[t] \in Nat
        /\ i[t] < Count(t) => CurrentEvent(t) \in Events
  BY <1>1, MultiCall
<1>4. Frame(t)
  BY <1>1, MultiTimeoutFrame
<1>5. CallOf(t)'
  BY <1>1 DEF MultiTimeout, CallOf, Types, AfterSet, Pass, Count, WaitPlaces, SetPlaces,
     MultiPlaces, Serving, Holding, threadVars
<1>6. mine'[t] # NULL => \A u \in Threads \ {t} : mine[u] # mine'[t]
  BY <1>1 DEF MultiTimeout, OneOwner, Types, Pass, AfterSet, threadVars
<1>7. /\ pc'[t] \in Serving => Mutex'[Ev(t)'] = t
      /\ pc'[t] \in Holding => Mutex'[mine'[t]] = t
  BY <1>1, <1>2, <1>3 DEF MultiTimeout, Locks, Types, AfterSet, Pass, Ev, WaitPlaces, SetPlaces,
     MultiPlaces, Serving, Holding, threadVars
<1>8. MutexesMove(t)
  BY <1>1, <1>2, <1>3, EventsAssumption DEF MultiTimeout, MutexesMove, Locks, Types, AfterSet,
     Pass, Ev, WaitPlaces, SetPlaces, MultiPlaces, Serving, Holding, threadVars
<1>9. SleepersMove(t)
  BY <1>1, <1>2, <1>3, EventsAssumption DEF MultiTimeout, SleepersMove, Sleepers, Types, Ev, Woken,
     Signal, Broadcast, AfterSet, WaitPlaces, SetPlaces, MultiPlaces, Serving, Holding, threadVars
<1>10. PlaceOf(t)'
  BY <1>1, <1>2 DEF MultiTimeout, PlaceOf, Types, AfterSet, Pass, Waits, Ev, WaitPlaces, SetPlaces,
     Serving, threadVars
<1>11. \A u \in Threads \ {t} : pc[u] \in Serving =>
         RegisteredWaits'[Ev(u)] = RegisteredWaits[Ev(u)]
  BY <1>1, <1>2, <1>3, EventsAssumption DEF MultiTimeout, Locks, Types, Pass, Waits, Cleared,
     Serving, SetPlaces, threadVars
<1> QED
  BY <1>4, <1>5, <1>6, <1>7, <1>8, <1>9, <1>10, <1>11 DEF Moves

LEMMA MultiTimedOutMoves ==
  ASSUME Types, Control, NEW t \in Threads, MultiTimedOut(t)
  PROVE  Moves(t)
<1> USE DEF At, Goto, Stay, Return, Locked, Unlocked, IsFree
<1>1. InCall /\ OneOwner /\ Locks /\ Sleepers /\ InQueue /\ CallOf(t) /\ PlaceOf(t)
  BY DEF Control, InCall, InQueue
<1>2. pc[t] \in WaitPlaces \cup SetPlaces => Ev(t) \in Events
  BY <1>1, EventCall
<1>3. pc[t] \in MultiPlaces =>
        /\ mine[t] \in Wfmos /\ Count(t) \in Nat /\ i[t] \in Nat
        /\ i[t] < Count(t) => CurrentEvent(t) \in Events
  BY <1>1, MultiCall
<1>4. Frame(t)
  BY <1>1, MultiTimedOutFrame
<1>5. CallOf(t)'
  BY <1>1 DEF MultiTimedOut, CallOf, Types, AfterSet, Pass, Count, WaitPlaces, SetPlaces,
     MultiPlaces, Serving, Holding, threadVars
<1>6. mine'[t] # NULL => \A u \in Threads \ {t} : mine[u] # mine'[t]
  BY <1>1 DEF MultiTimedOut, OneOwner, Types, Pass, AfterSet, threadVars
<1>7. /\ pc'[t] \in Serving => Mutex'[Ev(t)'] = t
      /\ pc'[t] \in Holding => Mutex'[mine'[t]] = t
  BY <1>1, <1>2, <1>3 DEF MultiTimedOut, Locks, Types, AfterSet, Pass, Ev, WaitPlaces, SetPlaces,
     MultiPlaces, Serving, Holding, threadVars
<1>8. MutexesMove(t)
  <2>1. \A m \in Events \cup Wfmos : Mutex[m] # t
    BY <1>1, EventsAssumption DEF MultiTimedOut, Locks, Serving, Holding
  <2>2. /\ Mutex' = [Mutex EXCEPT ![mine[t]] = t] /\ Mutex[mine[t]] = NULL
        /\ pc'[t] \in Holding /\ mine'[t] = mine[t] /\ mine[t] \in Wfmos
    BY <1>3 DEF MultiTimedOut, Types, Holding, MultiPlaces
  <2> QED
    BY <2>1, <2>2, EventsAssumption DEF MutexesMove, Types
<1>9. SleepersMove(t)
  BY <1>1, <1>2, <1>3, EventsAssumption DEF MultiTimedOut, SleepersMove, Sleepers, Types, Ev,
     Woken, Signal, Broadcast, AfterSet, WaitPlaces, SetPlaces, MultiPlaces, Serving, Holding,
     threadVars
<1>10. PlaceOf(t)'
  BY <1>1, <1>2 DEF MultiTimedOut, PlaceOf, Types, AfterSet, Pass, Waits, Ev, WaitPlaces,
     SetPlaces, Serving, threadVars
<1>11. \A u \in Threads \ {t} : pc[u] \in Serving =>
         RegisteredWaits'[Ev(u)] = RegisteredWaits[Ev(u)]
  BY <1>1, <1>2, <1>3, EventsAssumption DEF MultiTimedOut, Locks, Types, Pass, Waits, Cleared,
     Serving, SetPlaces, threadVars
<1> QED
  BY <1>4, <1>5, <1>6, <1>7, <1>8, <1>9, <1>10, <1>11 DEF Moves

LEMMA MultiDoneMoves ==
  ASSUME Types, Control, NEW t \in Threads, MultiDone(t)
  PROVE  Moves(t)
<1> USE DEF At, Goto, Stay, Return, Locked, Unlocked, IsFree
<1>1. InCall /\ OneOwner /\ Locks /\ Sleepers /\ InQueue /\ CallOf(t) /\ PlaceOf(t)
  BY DEF Control, InCall, InQueue
<1>2. pc[t] \in WaitPlaces \cup SetPlaces => Ev(t) \in Events
  BY <1>1, EventCall
<1>3. pc[t] \in MultiPlaces =>
        /\ mine[t] \in Wfmos /\ Count(t) \in Nat /\ i[t] \in Nat
        /\ i[t] < Count(t) => CurrentEvent(t) \in Events
  BY <1>1, MultiCall
<1>4. Frame(t)
  BY <1>1, MultiDoneFrame
<1>5. CallOf(t)'
  BY <1>1 DEF MultiDone, CallOf, Types, AfterSet, Pass, Count, WaitPlaces, SetPlaces, MultiPlaces,
     Serving, Holding, threadVars
<1>6. mine'[t] # NULL => \A u \in Threads \ {t} : mine[u] # mine'[t]
  BY <1>1 DEF MultiDone, OneOwner, Types, Pass, AfterSet, threadVars
<1>7. /\ pc'[t] \in Serving => Mutex'[Ev(t)'] = t
      /\ pc'[t] \in Holding => Mutex'[mine'[t]] = t
  BY <1>1, <1>2, <1>3 DEF MultiDone, Locks, Types, AfterSet, Pass, Ev, WaitPlaces, SetPlaces,
     MultiPlaces, Serving, Holding, threadVars
<1>8. MutexesMove(t)
  <2>1. /\ Mutex' = [Mutex EXCEPT ![mine[t]] = NULL] /\ pc[t] = "multi.done"
        /\ Mutex \in [Events \cup Wfmos -> Threads \cup {NULL}]
    BY DEF MultiDone, Types
  <2>2. Mutex[mine[t]] = t /\ mine[t] \in Wfmos
    BY <1>1, <1>3, <2>1 DEF Locks, Holding, MultiPlaces
  <2>3. \A m \in Events \cup Wfmos : Mutex[m] = t => m = mine[t]
    BY <1>1, <2>1, EventsAssumption DEF Locks, Serving, Holding
  <2> QED
    BY <2>1, <2>2, <2>3 DEF MutexesMove
<1>9. SleepersMove(t)
  BY <1>1, <1>2, <1>3, EventsAssumption DEF MultiDone, SleepersMove, Sleepers, Types, Ev, Woken,
     Signal, Broadcast, AfterSet, WaitPlaces, SetPlaces, MultiPlaces, Serving, Holding, threadVars
<1>10. PlaceOf(t)'
  BY <1>1, <1>2 DEF MultiDone, PlaceOf, Types, AfterSet, Pass, Waits, Ev, WaitPlaces, SetPlaces,
     Serving, threadVars
<1>11. \A u \in Threads \ {t} : pc[u] \in Serving =>
         RegisteredWaits'[Ev(u)] = RegisteredWaits[Ev(u)]
  BY <1>1, <1>2, <1>3, EventsAssumption DEF MultiDone, Locks, Types, Pass, Waits, Cleared, Serving,
     SetPlaces, threadVars
<1> QED
  BY <1>4, <1>5, <1>6, <1>7, <1>8, <1>9, <1>10, <1>11 DEF Moves

LEMMA MultiUnrefMoves ==
  ASSUME Types, Control, NEW t \in Threads, MultiUnref(t)
  PROVE  Moves(t)
<1> USE DEF At, Goto, Stay, Return, Locked, Unlocked, IsFree
<1>1. InCall /\ OneOwner /\ Locks /\ Sleepers /\ InQueue /\ CallOf(t) /\ PlaceOf(t)
  BY DEF Control, InCall, InQueue
<1>2. pc[t] \in WaitPlaces \cup SetPlaces => Ev(t) \in Events
  BY <1>1, EventCall
<1>3. pc[t] \in MultiPlaces =>
        /\ mine[t] \in Wfmos /\ Count(t) \in Nat /\ i[t] \in Nat
        /\ i[t] < Count(t) => CurrentEvent(t) \in Events
  BY <1>1, MultiCall
<1>4. Frame(t)
  BY <1>1, MultiUnrefFrame
<1>5. CallOf(t)'
  BY <1>1 DEF MultiUnref, CallOf, Types, AfterSet, Pass, Count, WaitPlaces, SetPlaces, MultiPlaces,
     Serving, Holding, threadVars
<1>6. mine'[t] # NULL => \A u \in Threads \ {t} : mine[u] # mine'[t]
  BY <1>1 DEF MultiUnref, OneOwner, Types, Pass, AfterSet, threadVars
<1>7. /\ pc'[t] \in Serving => Mutex'[Ev(t)'] = t
      /\ pc'[t] \in Holding => Mutex'[mine'[t]] = t
  BY <1>1, <1>2, <1>3 DEF MultiUnref, Locks, Types, AfterSet, Pass, Ev, WaitPlaces, SetPlaces,
     MultiPlaces, Serving, Holding, threadVars
<1>8. MutexesMove(t)
  BY <1>1, <1>2, <1>3, EventsAssumption DEF MultiUnref, MutexesMove, Locks, Types, AfterSet, Pass,
     Ev, WaitPlaces, SetPlaces, MultiPlaces, Serving, Holding, threadVars
<1>9. SleepersMove(t)
  BY <1>1, <1>2, <1>3, EventsAssumption DEF MultiUnref, SleepersMove, Sleepers, Types, Ev, Woken,
     Signal, Broadcast, AfterSet, WaitPlaces, SetPlaces, MultiPlaces, Serving, Holding, threadVars
<1>10. PlaceOf(t)'
  BY <1>1, <1>2 DEF MultiUnref, PlaceOf, Types, AfterSet, Pass, Waits, Ev, WaitPlaces, SetPlaces,
     Serving, threadVars
<1>11. \A u \in Threads \ {t} : pc[u] \in Serving =>
         RegisteredWaits'[Ev(u)] = RegisteredWaits[Ev(u)]
  BY <1>1, <1>2, <1>3, EventsAssumption DEF MultiUnref, Locks, Types, Pass, Waits, Cleared,
     Serving, SetPlaces, threadVars
<1> QED
  BY <1>4, <1>5, <1>6, <1>7, <1>8, <1>9, <1>10, <1>11 DEF Moves

-----------------------------------------------------------------------------
(* The calls begin.                                                        *)
LEMMA Fresh ==
  ASSUME Types, InCall, Balanced, NEW w \in Wfmos, wfmo[w].RefCount = 0
  PROVE  Owed(w) = {} /\ \A t \in Threads : mine[t] # w
<1>1. IsFiniteSet(Owed(w)) /\ Cardinality(Owed(w)) \in Nat
  BY FS_CardinalityType DEF Balanced
<1>2. ASSUME NEW t \in Threads, mine[t] = w
      PROVE  FALSE
  <2>1. mine[t] # NULL /\ pc[t] \in MultiPlaces
    BY <1>2, EventsAssumption DEF InCall, CallOf
  <2>2. Unvisited(t) \in Nat /\ skipped_refs[t] \in Nat
    BY <2>1, MultiCall
  <2> QED
    BY <1>1, <1>2, <2>1, <2>2 DEF Balanced
<1>3. Cardinality(Owed(w)) = 0
  BY <1>2 DEF Balanced
<1> QED
  BY <1>1, <1>2, <1>3, FS_EmptySet

LEMMA CallWaitMoves ==
  ASSUME Types, Control, Balanced, NEW t \in Threads, NEW c \in Calls[t], CallWait(t, c)
  PROVE  Moves(t)
<1> USE DEF Began, At, Goto, Locked
<1>1. InCall /\ OneOwner /\ Locks /\ Sleepers /\ InQueue /\ CallOf(t) /\ PlaceOf(t)
  BY DEF Control, InCall, InQueue
<1>2. c \in Call /\ pc[t] = "idle" /\ mine[t] = NULL /\ skipped_refs[t] = 0
  BY <1>1, EventsAssumption DEF CallWait, CallOf, MultiPlaces, Holding
<1>3. \A m \in Events \cup Wfmos : Mutex[m] # t /\ t \notin asleep[m]
  BY <1>1, <1>2, EventsAssumption DEF Locks, Sleepers, Serving, Holding
<1>4. Frame(t)
  BY <1>2 DEF CallWait, Frame, Types, Pc, threadVars
<1>5. CallOf(t)'
  BY <1>1, <1>2 DEF CallWait, CallOf, Types, WaitPlaces, SetPlaces, MultiPlaces, Serving, Holding,
     threadVars
<1>6. mine'[t] # NULL => \A u \in Threads \ {t} : mine[u] # mine'[t]
  BY <1>1, <1>2 DEF CallWait, Types, threadVars
<1>7. /\ pc'[t] \in Serving => Mutex'[Ev(t)'] = t
      /\ pc'[t] \in Holding => Mutex'[mine'[t]] = t
  BY <1>2 DEF CallWait, Types, Serving, Holding, threadVars
<1>8. MutexesMove(t)
  BY <1>1, <1>2, <1>3, EventsAssumption DEF CallWait, MutexesMove, Types, threadVars
<1>9. SleepersMove(t)
  BY <1>2, <1>3 DEF CallWait, SleepersMove, Types, threadVars
<1>10. PlaceOf(t)'
  BY <1>2 DEF CallWait, PlaceOf, Types, Serving, threadVars
<1>11. \A u \in Threads \ {t} : pc[u] \in Serving =>
         RegisteredWaits'[Ev(u)] = RegisteredWaits[Ev(u)]
  BY <1>1 DEF CallWait, Types, threadVars
<1> QED
  BY <1>4, <1>5, <1>6, <1>7, <1>8, <1>9, <1>10, <1>11 DEF Moves

LEMMA CallSetMoves ==
  ASSUME Types, Control, Balanced, NEW t \in Threads, NEW c \in Calls[t], CallSet(t, c)
  PROVE  Moves(t)
<1> USE DEF Began, At, Goto, Locked
<1>1. InCall /\ OneOwner /\ Locks /\ Sleepers /\ InQueue /\ CallOf(t) /\ PlaceOf(t)
  BY DEF Control, InCall, InQueue
<1>2. c \in Call /\ pc[t] = "idle" /\ mine[t] = NULL /\ skipped_refs[t] = 0
  BY <1>1, EventsAssumption DEF CallSet, CallOf, MultiPlaces, Holding
<1>3. \A m \in Events \cup Wfmos : Mutex[m] # t /\ t \notin asleep[m]
  BY <1>1, <1>2, EventsAssumption DEF Locks, Sleepers, Serving, Holding
<1>4. Frame(t)
  BY <1>2 DEF CallSet, Frame, Types, Pc, threadVars
<1>5. CallOf(t)'
  BY <1>1, <1>2 DEF CallSet, CallOf, Types, WaitPlaces, SetPlaces, MultiPlaces, Serving, Holding,
     threadVars
<1>6. mine'[t] # NULL => \A u \in Threads \ {t} : mine[u] # mine'[t]
  BY <1>1, <1>2 DEF CallSet, Types, threadVars
<1>7. /\ pc'[t] \in Serving => Mutex'[Ev(t)'] = t
      /\ pc'[t] \in Holding => Mutex'[mine'[t]] = t
  BY <1>2 DEF CallSet, Types, Serving, Holding, threadVars
<1>8. MutexesMove(t)
  BY <1>1, <1>2, <1>3, EventsAssumption DEF CallSet, MutexesMove, Types, threadVars
<1>9. SleepersMove(t)
  BY <1>2, <1>3 DEF CallSet, SleepersMove, Types, threadVars
<1>10. PlaceOf(t)'
  BY <1>2 DEF CallSet, PlaceOf, Types, Serving, threadVars
<1>11. \A u \in Threads \ {t} : pc[u] \in Serving =>
         RegisteredWaits'[Ev(u)] = RegisteredWaits[Ev(u)]
  BY <1>1 DEF CallSet, Types, threadVars
<1> QED
  BY <1>4, <1>5, <1>6, <1>7, <1>8, <1>9, <1>10, <1>11 DEF Moves

LEMMA ResetEventMoves ==
  ASSUME Types, Control, Balanced, NEW t \in Threads, NEW c \in Calls[t], ResetEvent(t, c)
  PROVE  Moves(t)
<1> USE DEF Began, At, Goto, Locked
<1>1. InCall /\ OneOwner /\ Locks /\ Sleepers /\ InQueue /\ CallOf(t) /\ PlaceOf(t)
  BY DEF Control, InCall, InQueue
<1>2. c \in Call /\ pc[t] = "idle" /\ mine[t] = NULL /\ skipped_refs[t] = 0
  BY <1>1, EventsAssumption DEF ResetEvent, CallOf, MultiPlaces, Holding
<1>3. \A m \in Events \cup Wfmos : Mutex[m] # t /\ t \notin asleep[m]
  BY <1>1, <1>2, EventsAssumption DEF Locks, Sleepers, Serving, Holding
<1>c. c.event \in Events
  BY <1>2 DEF ResetEvent, Call
<1>4. Frame(t)
  BY <1>2, <1>c DEF ResetEvent, Frame, Types, Pc, threadVars
<1>5. CallOf(t)'
  BY <1>1, <1>2 DEF ResetEvent, CallOf, Types, WaitPlaces, SetPlaces, MultiPlaces, Serving,
     Holding, threadVars
<1>6. mine'[t] # NULL => \A u \in Threads \ {t} : mine[u] # mine'[t]
  BY <1>1, <1>2 DEF ResetEvent, Types, threadVars
<1>7. /\ pc'[t] \in Serving => Mutex'[Ev(t)'] = t
      /\ pc'[t] \in Holding => Mutex'[mine'[t]] = t
  BY <1>2 DEF ResetEvent, Types, Serving, Holding, threadVars
<1>8. MutexesMove(t)
  BY <1>1, <1>2, <1>3, EventsAssumption DEF ResetEvent, MutexesMove, Types, threadVars
<1>9. SleepersMove(t)
  BY <1>2, <1>3 DEF ResetEvent, SleepersMove, Types, threadVars
<1>10. PlaceOf(t)'
  BY <1>2 DEF ResetEvent, PlaceOf, Types, Serving, threadVars
<1>11. \A u \in Threads \ {t} : pc[u] \in Serving =>
         RegisteredWaits'[Ev(u)] = RegisteredWaits[Ev(u)]
  BY <1>1 DEF ResetEvent, Types, threadVars
<1> QED
  BY <1>4, <1>5, <1>6, <1>7, <1>8, <1>9, <1>10, <1>11 DEF Moves

LEMMA CallMultiMoves ==
  ASSUME Types, Control, Balanced, NEW t \in Threads, NEW c \in Calls[t], CallMulti(t, c)
  PROVE  Moves(t)
<1> USE DEF Began, At, Goto, Locked
<1>1. InCall /\ OneOwner /\ Locks /\ Sleepers /\ InQueue /\ CallOf(t) /\ PlaceOf(t)
  BY DEF Control, InCall, InQueue
<1>2. c \in Call /\ pc[t] = "idle" /\ mine[t] = NULL /\ skipped_refs[t] = 0
  BY <1>1, EventsAssumption DEF CallMulti, CallOf, MultiPlaces, Holding
<1>3. \A m \in Events \cup Wfmos : Mutex[m] # t /\ t \notin asleep[m]
  BY <1>1, <1>2, EventsAssumption DEF Locks, Sleepers, Serving, Holding
<1>w. PICK w \in Wfmos :
        /\ wfmo[w].RefCount = 0
        /\ Mutex' = [Mutex EXCEPT ![w] = t]
        /\ mine' = [mine EXCEPT ![t] = w]
  BY DEF CallMulti
<1>f. \A u \in Threads : mine[u] # w
  BY <1>w, <1>1, Fresh
<1>n. Mutex[w] = NULL
  BY <1>f, <1>1 DEF Locks, Types
<1>e. c.events \in Seq(Events)
  BY <1>2 DEF CallMulti, Call
<1>4. Frame(t)
  BY <1>w, <1>2 DEF CallMulti, Frame, Types, Pc, threadVars
<1>5. CallOf(t)'
  BY <1>1, <1>2, <1>w, <1>e, EventsAssumption DEF CallMulti, CallOf, Count, Types, WaitPlaces,
     SetPlaces, MultiPlaces, Serving, Holding, threadVars
<1>6. mine'[t] # NULL => \A u \in Threads \ {t} : mine[u] # mine'[t]
  BY <1>f, <1>w DEF Types, threadVars
<1>7. /\ pc'[t] \in Serving => Mutex'[Ev(t)'] = t
      /\ pc'[t] \in Holding => Mutex'[mine'[t]] = t
  BY <1>2, <1>w DEF CallMulti, Types, Serving, Holding, threadVars
<1>8. MutexesMove(t)
  BY <1>2, <1>3, <1>w, <1>n, EventsAssumption DEF CallMulti, Holding, MutexesMove, Types, threadVars
<1>9. SleepersMove(t)
  BY <1>2, <1>3 DEF CallMulti, SleepersMove, Types, threadVars
<1>10. PlaceOf(t)'
  BY <1>2 DEF CallMulti, PlaceOf, Types, Serving, threadVars
<1>11. \A u \in Threads \ {t} : pc[u] \in Serving =>
         RegisteredWaits'[Ev(u)] = RegisteredWaits[Ev(u)]
  BY <1>1 DEF CallMulti, Types, threadVars
<1> QED
  BY <1>4, <1>5, <1>6, <1>7, <1>8, <1>9, <1>10, <1>11 DEF Moves

LEMMA DestroyEventMoves ==
  ASSUME Types, Control, Balanced, NEW t \in Threads, NEW c \in Calls[t], DestroyEvent(t, c)
  PROVE  Moves(t)
<1> USE DEF Began, At, Goto, Locked
<1>1. InCall /\ OneOwner /\ Locks /\ Sleepers /\ InQueue /\ CallOf(t) /\ PlaceOf(t)
  BY DEF Control, InCall, InQueue
<1>2. c \in Call /\ pc[t] = "idle" /\ mine[t] = NULL /\ skipped_refs[t] = 0
  BY <1>1, EventsAssumption DEF DestroyEvent, CallOf, MultiPlaces, Holding
<1>3. \A m \in Events \cup Wfmos : Mutex[m] # t /\ t \notin asleep[m]
  BY <1>1, <1>2, EventsAssumption DEF Locks, Sleepers, Serving, Holding
<1>c. c.event \in Events
  BY <1>2 DEF DestroyEvent, Call
<1>4. Frame(t)
  BY <1>2, <1>c DEF DestroyEvent, Frame, Types, Pc, threadVars
<1>5. CallOf(t)'
  BY <1>1, <1>2 DEF DestroyEvent, CallOf, Types, WaitPlaces, SetPlaces, MultiPlaces, Serving,
     Holding, threadVars
<1>6. mine'[t] # NULL => \A u \in Threads \ {t} : mine[u] # mine'[t]
  BY <1>1, <1>2 DEF DestroyEvent, Types, threadVars
<1>7. /\ pc'[t] \in Serving => Mutex'[Ev(t)'] = t
      /\ pc'[t] \in Holding => Mutex'[mine'[t]] = t
  BY <1>2 DEF DestroyEvent, Types, Serving, Holding, threadVars
<1>8. MutexesMove(t)
  BY <1>1, <1>2, <1>3, EventsAssumption DEF DestroyEvent, MutexesMove, Types, threadVars
<1>9. SleepersMove(t)
  BY <1>2, <1>3 DEF DestroyEvent, SleepersMove, Types, threadVars
<1>10. PlaceOf(t)'
  BY <1>2 DEF DestroyEvent, PlaceOf, Types, Serving, threadVars
<1>11. \A u \in Threads \ {t} : pc[u] \in Serving =>
         RegisteredWaits'[Ev(u)] = RegisteredWaits[Ev(u)]
  <2>1. \A u \in Threads : pc[u] \in Serving => Ev(u) # c.event
    BY <1>1 DEF DestroyEvent, Uses, InCall, CallOf, Serving, SetPlaces
  <2> QED
    BY <2>1 DEF DestroyEvent, Types
<1> QED
  BY <1>4, <1>5, <1>6, <1>7, <1>8, <1>9, <1>10, <1>11 DEF Moves

-----------------------------------------------------------------------------
(* What the queues and the counts of a step come to.                       *)

LEMMA RegsMember ==
  ASSUME NEW waits, NEW from, NEW w, NEW p
  PROVE  p \in Regs(waits, from, w) <=>
           \E e \in Events : \E k \in DOMAIN waits[e] :
             p = <<e, k>> /\ from[e] < k /\ waits[e][k].Waiter = w
BY DEF Regs, After

(* The registration a SetEvent has come to is passed by index, or taken    *)
(* from the front of the queue.                                            *)
Passes(waits, from, waits2, from2, e) ==
  /\ waits \in [Events -> Seq(Registrations)] /\ from \in [Events -> Nat]
  /\ e \in Events /\ from[e] < Len(waits[e])
  /\ \/ waits2 = waits /\ from2 = [from EXCEPT ![e] = @ + 1]
     \/ waits2 = [waits EXCEPT ![e] = Tail(@)] /\ from2 = from /\ from[e] = 0
LEMMA OneLess ==
  ASSUME NEW waits, NEW from, NEW waits2, NEW from2, NEW e, Passes(waits, from, waits2, from2, e),
         NEW w, IsFiniteSet(Regs(waits, from, w))
  PROVE  /\ IsFiniteSet(Regs(waits2, from2, w)) /\ Cardinality(Regs(waits2, from2, w)) \in Nat
         /\ Cardinality(Regs(waits2, from2, w)) =
              Cardinality(Regs(waits, from, w)) - (IF waits[e][from[e] + 1].Waiter = w THEN 1 ELSE 0)
         /\ \A p \in Regs(waits2, from2, w) : \E q \in Regs(waits, from, w) : q[1] = p[1]
<1> DEFINE s == waits[e]
           n == from[e]
           A == After(s, n, w)
           B == After(waits2[e], from2[e], w)
           one == IF s[n + 1].Waiter = w THEN 1 ELSE 0
<1>0. /\ waits \in [Events -> Seq(Registrations)] /\ from \in [Events -> Nat]
      /\ e \in Events /\ from[e] < Len(waits[e])
      /\ \/ waits2 = waits /\ from2 = [from EXCEPT ![e] = @ + 1]
         \/ waits2 = [waits EXCEPT ![e] = Tail(@)] /\ from2 = from /\ from[e] = 0
  BY DEF Passes
<1>1. s \in Seq(Registrations) /\ n \in Nat /\ n < Len(s) /\ s # <<>>
  BY <1>0, EmptySeq
<1>2. IsFiniteSet(B) /\ Cardinality(B) \in Nat /\ Cardinality(B) = Cardinality(A) - one
  <2>1. Cardinality(After(s, n + 1, w)) = Cardinality(A) - one
    BY <1>1, AfterNext
  <2>2. CASE waits2 = waits /\ from2 = [from EXCEPT ![e] = @ + 1]
    <3>1. B = After(s, n + 1, w)
      BY <2>2, <1>0
    <3> QED
      BY <3>1, <2>1, <1>1, AfterNext
  <2>3. CASE waits2 = [waits EXCEPT ![e] = Tail(@)] /\ from2 = from /\ from[e] = 0
    <3>1. B = After(Tail(s), 0, w)
      BY <2>3, <1>0
    <3>2. After(s, n + 1, w) = After(s, 1, w)
      BY <2>3
    <3> HIDE DEF s, n, A, B, one
    <3> QED
      BY <3>1, <3>2, <2>1, <1>1, AfterTail
  <2> QED
    BY <2>2, <2>3, <1>0
<1>3. e \in Events /\ \A f \in Events \ {e} : waits2[f] = waits[f] /\ from2[f] = from[f]
  BY <1>0
<1>4. Cardinality(A) \in Nat
  BY <1>1, AfterFinite
<1>5. /\ IsFiniteSet(Regs(waits2, from2, w)) /\ Cardinality(Regs(waits2, from2, w)) \in Nat
      /\ Cardinality(Regs(waits2, from2, w)) =
           Cardinality(Regs(waits, from, w)) - Cardinality(A) + Cardinality(B)
  BY <1>2, <1>3, RegsChange
<1>6. Cardinality(Regs(waits, from, w)) \in Nat
  BY FS_CardinalityType
<1>7. ASSUME NEW p \in Regs(waits2, from2, w)
      PROVE  \E q \in Regs(waits, from, w) : q[1] = p[1]
  <2>0. PICK f \in Events :
          \E k \in DOMAIN waits2[f] : p = <<f, k>> /\ from2[f] < k /\ waits2[f][k].Waiter = w
    BY RegsMember
  <2>1. PICK k \in DOMAIN waits2[f] : p = <<f, k>> /\ from2[f] < k /\ waits2[f][k].Waiter = w
    BY <2>0
  <2>2. \E l \in DOMAIN waits[f] : from[f] < l /\ waits[f][l].Waiter = w
    <3>1. CASE waits2[f] = waits[f]
      <4>1. from2[f] = from[f] \/ from2[f] = from[f] + 1
        BY <1>0
      <4>2. from[f] \in Nat /\ k \in Nat
        BY <1>0, <2>1, <3>1
      <4>3. from[f] < k
        BY <2>1, <4>1, <4>2
      <4> QED
        BY <2>1, <3>1, <4>3
    <3>2. CASE waits2[f] # waits[f]
      <4>1. f = e /\ waits2[f] = Tail(s) /\ from[f] = 0
        BY <3>2, <1>0, <1>3
      <4>2. k + 1 \in DOMAIN s /\ s[k + 1] = Tail(s)[k] /\ k \in Nat
        BY <4>1, <2>1, <1>1
      <4> QED
        BY <4>1, <4>2, <2>1
    <3> QED
      BY <3>1, <3>2
  <2>3. PICK l \in DOMAIN waits[f] : from[f] < l /\ waits[f][l].Waiter = w
    BY <2>2
  <2>4. <<f, l>> \in Regs(waits, from, w)
    BY <2>3, RegsMember
  <2> QED
    BY <2>1, <2>4
<1> HIDE DEF A, B, one
<1>8. one \in Int
  BY DEF one
<1>9. Cardinality(Regs(waits2, from2, w)) = Cardinality(Regs(waits, from, w)) - one
  BY <1>2, <1>4, <1>5, <1>6, <1>8
<1> QED
  BY <1>5, <1>7, <1>9 DEF one

(* The first is taken from the queue after it was served.                  *)
LEMMA FrontGone ==
  ASSUME NEW waits, NEW from,
         NEW waits2, NEW from2, NEW e \in Events, NEW w,
         \A f \in Events \ {e} : waits2[f] = waits[f] /\ from2[f] = from[f],
         IsFiniteSet(Regs(waits, from, w))
  PROVE  (/\ waits[e] \in Seq(Registrations) /\ waits[e] # <<>>
          /\ waits2[e] = Tail(waits[e]) /\ from[e] = 1 /\ from2[e] = 0) =>
           Cardinality(Regs(waits2, from2, w)) = Cardinality(Regs(waits, from, w))
<1> DEFINE A == After(waits[e], from[e], w)
           B == After(waits2[e], from2[e], w)
<1>1. ASSUME waits[e] \in Seq(Registrations), waits[e] # <<>>, waits2[e] = Tail(waits[e]),
             from[e] = 1, from2[e] = 0
      PROVE  IsFiniteSet(B) /\ Cardinality(B) \in Nat /\ Cardinality(B) = Cardinality(A)
  BY <1>1, AfterTail
<1>2. ASSUME IsFiniteSet(B)
      PROVE  Cardinality(Regs(waits2, from2, w)) =
               Cardinality(Regs(waits, from, w)) - Cardinality(A) + Cardinality(B)
  BY <1>2, RegsChange
<1>3. Cardinality(Regs(waits, from, w)) \in Nat
  BY FS_CardinalityType
<1> HIDE DEF A, B
<1> QED
  BY <1>1, <1>2, <1>3

(* A queue is cleared that a SetEvent is through with.                     *)
LEMMA NoneLeft ==
  ASSUME NEW waits \in [Events -> Seq(Registrations)], NEW from \in [Events -> Nat],
         NEW e \in Events, from[e] >= Len(waits[e]), NEW w
  PROVE  Regs([waits EXCEPT ![e] = <<>>], [from EXCEPT ![e] = 0], w) = Regs(waits, from, w)
<1> DEFINE waits2 == [waits EXCEPT ![e] = <<>>]
           from2 == [from EXCEPT ![e] = 0]
<1>1. \A f \in Events \ {e} : After(waits2[f], from2[f], w) = After(waits[f], from[f], w)
  OBVIOUS
<1>2. waits[e] \in Seq(Registrations) /\ waits2[e] = <<>>
  OBVIOUS
<1>3. After(waits[e], from[e], w) = {}
  BY <1>2 DEF After
<1>4. After(waits2[e], from2[e], w) = {}
  BY <1>2 DEF After
<1>5. \A f \in Events : After(waits2[f], from2[f], w) = After(waits[f], from[f], w)
  BY <1>1, <1>3, <1>4
<1> QED
  BY <1>5 DEF Regs

(* What is missing is owed; both counts are bounded.                       *)
Counts == Owned /\ Unfired /\ Balanced /\ Counted

LEMMA CountTypes ==
  ASSUME Types, Control, Balanced, NEW w \in Wfmos
  PROVE  /\ Passed \in [Events -> Nat] /\ Served \in [Events -> Nat]
         /\ IsFiniteSet(Owed(w)) /\ Cardinality(Owed(w)) \in Nat
         /\ IsFiniteSet(Missing(w)) /\ Cardinality(Missing(w)) \in Nat
         /\ Missing(w) \subseteq Owed(w)
         /\ wfmo[w].RefCount >= Cardinality(Owed(w)) /\ wfmo[w] \in Wfmo
<1>1. InCall /\ Locks
  BY DEF Control
<1>2. \A e \in Events : Passed[e] \in Nat /\ Served[e] \in Nat /\ Passed[e] =< Served[e]
  BY <1>1, Holder
<1>3. Passed \in [Events -> Nat] /\ Served \in [Events -> Nat]
  BY <1>2 DEF Passed, Served
<1>4. Missing(w) \subseteq Owed(w)
  <2>1. ASSUME NEW e \in Events
        PROVE  After(RegisteredWaits[e], Served[e], w) \subseteq After(RegisteredWaits[e], Passed[e], w)
    <3>1. RegisteredWaits[e] \in Seq(Registrations)
      BY DEF Types
    <3> QED
      BY <1>2, <3>1 DEF After
  <2> QED
    BY <2>1 DEF Missing, Owed, Regs
<1>5. IsFiniteSet(Owed(w)) /\ Cardinality(Owed(w)) \in Nat
  BY FS_CardinalityType DEF Balanced
<1>6. IsFiniteSet(Missing(w)) /\ Cardinality(Missing(w)) \in Nat
  BY <1>4, <1>5, FS_Subset, FS_CardinalityType
<1>7. wfmo[w].RefCount >= Cardinality(Owed(w))
  <2>1. ASSUME NEW t \in Threads, mine[t] = w
        PROVE  Unvisited(t) \in Nat /\ skipped_refs[t] \in Nat /\ mine[t] # NULL
    BY <2>1, <1>1, MultiCall, EventsAssumption DEF InCall, CallOf
  <2> QED
    BY <2>1, <1>5 DEF Balanced
<1> QED
  BY <1>3, <1>4, <1>5, <1>6, <1>7 DEF Types

-----------------------------------------------------------------------------
(* The counts under the steps of SetEvent and of threads that only wait.   *)

(* A step of t, who has no wfmo object, that takes owed references to v    *)
(* from it, and serves given of its registrations.                         *)
Gives(t, v, owed, given) ==
  /\ owed \in {0, 1} /\ given \in {0, 1}
  /\ mine' = mine /\ skipped_refs' = skipped_refs /\ mine[t] = NULL
  /\ v \in Wfmos
  /\ \A w \in Wfmos :
       /\ IsFiniteSet(Owed(w)')
       /\ Cardinality(Owed(w)') = Cardinality(Owed(w)) - (IF w = v THEN owed ELSE 0)
       /\ Cardinality(Missing(w)') = Cardinality(Missing(w)) - (IF w = v THEN given ELSE 0)
       /\ Cardinality(Owed(w)') \in Nat /\ Cardinality(Missing(w)') \in Nat
       /\ \A p \in Owed(w)' : \E q \in Owed(w) : q[1] = p[1]
  /\ \A w \in Wfmos \ {v} : wfmo'[w] = wfmo[w]
  /\ wfmo'[v].WaitAll = wfmo[v].WaitAll
  /\ wfmo'[v].RefCount = wfmo[v].RefCount - owed
  /\ wfmo'[v].StillWaiting => wfmo[v].StillWaiting
  /\ wfmo[v].StillWaiting => wfmo'[v].StillWaiting \/ Mutex[v] = NULL
  /\ wfmo[v].WaitAll =>
       \/ wfmo'[v].Status = wfmo[v].Status - given
       \/ wfmo'[v].Status = wfmo[v].Status /\ ~wfmo[v].StillWaiting
  /\ ~wfmo[v].WaitAll /\ wfmo'[v].StillWaiting => wfmo'[v].Status = wfmo[v].Status

LEMMA GivesCounts ==
  ASSUME Types, Control, Counts, NEW t \in Threads, Moves(t), NEW v, NEW owed, NEW given,
         Gives(t, v, owed, given)
  PROVE  Counts'
<1>1. InCall /\ OneOwner /\ Locks /\ Owned /\ Unfired /\ Balanced /\ Counted
  BY DEF Control, Counts
<1>2. mine' = mine /\ skipped_refs' = skipped_refs /\ mine[t] = NULL /\ v \in Wfmos
  BY DEF Gives
<1>3. ASSUME NEW u \in Threads, mine[u] # NULL
      PROVE  /\ pc'[u] = pc[u] /\ call'[u] = call[u] /\ i'[u] = i[u] /\ mine[u] \in Wfmos
             /\ Unvisited(u)' = Unvisited(u) /\ Unvisited(u) \in Nat /\ skipped_refs[u] \in Nat
             /\ Count(u)' = Count(u)
  <2>1. u # t /\ pc[u] \in MultiPlaces
    BY <1>1, <1>2, <1>3 DEF InCall, CallOf
  <2>2. pc'[u] = pc[u] /\ call'[u] = call[u] /\ i'[u] = i[u]
    BY <2>1 DEF Moves, Frame
  <2>3. Unvisited(u) \in Nat /\ skipped_refs[u] \in Nat /\ mine[u] \in Wfmos
    BY <1>1, <2>1, MultiCall
  <2>4. Unvisited(u)' = Unvisited(u) /\ Count(u)' = Count(u)
    BY <2>2 DEF Unvisited, Count
  <2> QED
    BY <2>2, <2>3, <2>4
<1>4. ASSUME NEW w \in Wfmos
      PROVE  /\ wfmo'[w].WaitAll = wfmo[w].WaitAll
             /\ wfmo'[w].StillWaiting => wfmo[w].StillWaiting
             /\ IsFiniteSet(Owed(w)')
             /\ wfmo'[w].RefCount - Cardinality(Owed(w)') = wfmo[w].RefCount - Cardinality(Owed(w))
             /\ Cardinality(Owed(w)') \in Nat /\ wfmo'[w].RefCount \in Int
             /\ wfmo[w].WaitAll =>
                  /\ wfmo'[w].Status - Cardinality(Missing(w)') >= wfmo[w].Status - Cardinality(Missing(w))
                  /\ wfmo'[w].StillWaiting =>
                       wfmo'[w].Status - Cardinality(Missing(w)') = wfmo[w].Status - Cardinality(Missing(w))
                  /\ wfmo'[w].Status \in Int
             /\ ~wfmo[w].WaitAll /\ wfmo'[w].StillWaiting => wfmo'[w].Status = wfmo[w].Status
             /\ \A p \in Owed(w)' : \E q \in Owed(w) : q[1] = p[1]
  <2>1. /\ wfmo[w].RefCount \in Nat /\ wfmo[w].Status \in Int
        /\ Cardinality(Owed(w)) \in Nat /\ Cardinality(Missing(w)) \in Nat
    BY <1>1, CountTypes DEF Wfmo
  <2>2. owed \in {0, 1} /\ given \in {0, 1}
    BY DEF Gives
  <2>3. CASE w = v
    <3>1. /\ IsFiniteSet(Owed(w)') /\ Cardinality(Owed(w)') \in Nat
          /\ Cardinality(Missing(w)') \in Nat
          /\ Cardinality(Owed(w)') = Cardinality(Owed(w)) - owed
          /\ Cardinality(Missing(w)') = Cardinality(Missing(w)) - given
          /\ \A p \in Owed(w)' : \E q \in Owed(w) : q[1] = p[1]
      BY <2>3 DEF Gives
    <3>2. /\ wfmo'[w].WaitAll = wfmo[w].WaitAll /\ wfmo'[w].RefCount = wfmo[w].RefCount - owed
          /\ wfmo'[w].StillWaiting => wfmo[w].StillWaiting
          /\ wfmo[w].WaitAll =>
               \/ wfmo'[w].Status = wfmo[w].Status - given
               \/ wfmo'[w].Status = wfmo[w].Status /\ ~wfmo[w].StillWaiting
          /\ ~wfmo[w].WaitAll /\ wfmo'[w].StillWaiting => wfmo'[w].Status = wfmo[w].Status
      BY <2>3 DEF Gives
    <3>3. /\ wfmo'[w].RefCount - Cardinality(Owed(w)') = wfmo[w].RefCount - Cardinality(Owed(w))
          /\ wfmo'[w].RefCount \in Int
      BY <2>1, <2>2, <3>1, <3>2
    <3>4. wfmo[w].WaitAll =>
            /\ wfmo'[w].Status - Cardinality(Missing(w)') >= wfmo[w].Status - Cardinality(Missing(w))
            /\ wfmo'[w].StillWaiting =>
                 wfmo'[w].Status - Cardinality(Missing(w)') = wfmo[w].Status - Cardinality(Missing(w))
            /\ wfmo'[w].Status \in Int
      BY <2>1, <2>2, <3>1, <3>2
    <3> QED
      BY <3>1, <3>2, <3>3, <3>4
  <2>4. CASE w # v
    BY <2>1, <2>2, <2>4 DEF Gives
  <2> QED
    BY <2>3, <2>4
<1>5. ASSUME NEW w \in Wfmos
      PROVE  /\ wfmo[w].RefCount \in Nat /\ wfmo[w].Status \in Int
             /\ Cardinality(Owed(w)) \in Nat /\ Cardinality(Missing(w)) \in Nat
             /\ Cardinality(Owed(w)') \in Nat /\ Cardinality(Missing(w)') \in Nat
  BY <1>1, CountTypes DEF Wfmo, Gives
<1>6. Balanced'
  <2>1. ASSUME NEW w \in Wfmos
        PROVE  /\ IsFiniteSet(Owed(w)')
               /\ (\A u \in Threads : mine'[u] # w) => wfmo'[w].RefCount = Cardinality(Owed(w)')
    BY <1>1, <1>2, <1>4, <1>5 DEF Balanced
  <2>2. ASSUME NEW u \in Threads, NEW w \in Wfmos, mine[u] = w
        PROVE  wfmo'[w].RefCount = Cardinality(Owed(w)') + 1 + skipped_refs'[u] + Unvisited(u)'
    <3>1. w # NULL
      BY EventsAssumption
    <3>2. wfmo[w].RefCount = Cardinality(Owed(w)) + 1 + skipped_refs[u] + Unvisited(u)
      BY <2>2, <3>1, <1>1 DEF Balanced
    <3>3. skipped_refs'[u] = skipped_refs[u] /\ skipped_refs[u] \in Nat
          /\ Unvisited(u)' = Unvisited(u) /\ Unvisited(u) \in Nat
      BY <2>2, <3>1, <1>2, <1>3
    <3>4. /\ wfmo'[w].RefCount - Cardinality(Owed(w)') = wfmo[w].RefCount - Cardinality(Owed(w))
          /\ wfmo'[w].RefCount \in Int
      BY <1>4
    <3>5. /\ wfmo[w].RefCount \in Nat /\ Cardinality(Owed(w)) \in Nat
          /\ Cardinality(Owed(w)') \in Nat
      BY <1>5
    <3> QED
      BY <3>2, <3>3, <3>4, <3>5
  <2>3. \A u \in Threads : mine'[u] # NULL => mine'[u] \in Wfmos /\ mine[u] = mine'[u]
    BY <1>2, <1>3
  <2> QED
    BY <2>1, <2>2, <2>3 DEF Balanced
<1>7. Counted'
  <2>1. ASSUME NEW w \in Wfmos, wfmo'[w].WaitAll, \A u \in Threads : mine'[u] # w
        PROVE  wfmo'[w].Status >= Cardinality(Missing(w)')
    <3>1. wfmo[w].WaitAll /\ wfmo[w].Status >= Cardinality(Missing(w))
      BY <2>1, <1>1, <1>2, <1>4 DEF Counted
    <3> QED
      BY <3>1, <1>4, <1>5
  <2>2. ASSUME NEW u \in Threads, NEW w \in Wfmos, mine[u] = w, wfmo'[w].WaitAll
        PROVE  /\ wfmo'[w].Status >= Cardinality(Missing(w)') + Unvisited(u)'
               /\ wfmo'[w].StillWaiting =>
                    wfmo'[w].Status = Cardinality(Missing(w)') + Unvisited(u)'
    <3>1. w # NULL
      BY EventsAssumption
    <3>2. wfmo[w].WaitAll
      BY <2>2, <1>4
    <3>3. /\ wfmo[w].Status >= Cardinality(Missing(w)) + Unvisited(u)
          /\ wfmo[w].StillWaiting => wfmo[w].Status = Cardinality(Missing(w)) + Unvisited(u)
      BY <2>2, <3>1, <3>2, <1>1 DEF Counted
    <3>4. Unvisited(u)' = Unvisited(u) /\ Unvisited(u) \in Nat
      BY <2>2, <3>1, <1>3
    <3>5. /\ wfmo'[w].Status - Cardinality(Missing(w)') >= wfmo[w].Status - Cardinality(Missing(w))
          /\ wfmo'[w].StillWaiting =>
               wfmo'[w].Status - Cardinality(Missing(w)') = wfmo[w].Status - Cardinality(Missing(w))
          /\ wfmo'[w].Status \in Int
          /\ wfmo'[w].StillWaiting => wfmo[w].StillWaiting
      BY <3>2, <1>4
    <3>6. /\ wfmo[w].Status \in Int
          /\ Cardinality(Missing(w)) \in Nat /\ Cardinality(Missing(w)') \in Nat
      BY <1>5
    <3> QED
      BY <3>3, <3>4, <3>5, <3>6
  <2>3. \A u \in Threads : mine'[u] # NULL => mine'[u] \in Wfmos /\ mine[u] = mine'[u]
    BY <1>2, <1>3
  <2> QED
    BY <2>1, <2>2, <2>3 DEF Counted
<1>8. Unfired'
  <2> SUFFICES ASSUME NEW u \in Threads, mine'[u] # NULL, ~wfmo'[mine'[u]].WaitAll,
                      wfmo'[mine'[u]].StillWaiting, pc'[u] # "multi.done"
               PROVE  wfmo'[mine'[u]].Status = -1
    BY DEF Unfired
  <2>1. mine[u] # NULL /\ mine[u] \in Wfmos /\ mine'[u] = mine[u] /\ pc[u] # "multi.done"
    BY <1>2, <1>3
  <2>2. ~wfmo[mine[u]].WaitAll /\ wfmo[mine[u]].StillWaiting
    BY <2>1, <1>4
  <2> QED
    BY <2>1, <2>2, <1>1, <1>4 DEF Unfired
<1>9. Owned'
  <2>1. ASSUME NEW w \in Wfmos, wfmo'[w].StillWaiting
        PROVE  \E u \in Threads : mine'[u] = w
    BY <2>1, <1>1, <1>2, <1>4 DEF Owned
  <2>2. ASSUME NEW u \in Threads, mine'[u] # NULL
        PROVE  /\ wfmo'[mine'[u]].WaitAll = call'[u].waitAll
               /\ pc'[u] = "multi.register" => wfmo'[mine'[u]].StillWaiting
               /\ pc'[u] = "multi.unref" => ~wfmo'[mine'[u]].StillWaiting
               /\ \A p \in Owed(mine[u])' : \E j \in 1 .. i'[u] :
                    j =< Count(u)' /\ p[1] = call'[u].events[j]
    <3>1. mine[u] # NULL /\ mine[u] \in Wfmos /\ mine'[u] = mine[u]
      BY <2>2, <1>2, <1>3
    <3>2. wfmo'[mine'[u]].WaitAll = call'[u].waitAll
      BY <3>1, <1>1, <1>3, <1>4 DEF Owned
    <3>3. pc'[u] = "multi.register" => wfmo'[mine'[u]].StillWaiting
      <4> SUFFICES ASSUME pc'[u] = "multi.register"
                   PROVE  wfmo'[mine[u]].StillWaiting
        BY <3>1
      <4>1. pc[u] = "multi.register" /\ wfmo[mine[u]].StillWaiting /\ Mutex[mine[u]] = u
        BY <3>1, <1>1, <1>3 DEF Owned, At, Locks, Holding
      <4> QED
        BY <4>1, <3>1, EventsAssumption DEF Gives
    <3>unref. pc'[u] = "multi.unref" => ~wfmo'[mine'[u]].StillWaiting
      BY <3>1, <1>1, <1>3, <1>4 DEF Owned, At
    <3>4. \A p \in Owed(mine[u])' : \E j \in 1 .. i'[u] :
            j =< Count(u)' /\ p[1] = call'[u].events[j]
      <4>1. \A q \in Owed(mine[u]) : \E j \in 1 .. i[u] : j =< Count(u) /\ q[1] = call[u].events[j]
        BY <3>1, <1>1 DEF Owned
      <4>2. i'[u] = i[u] /\ call'[u] = call[u] /\ Count(u)' = Count(u)
        BY <3>1, <1>3
      <4>3. \A p \in Owed(mine[u])' : \E q \in Owed(mine[u]) : q[1] = p[1]
        BY <3>1, <1>4
      <4> QED
        BY <4>1, <4>2, <4>3
    <3> QED
      BY <3>2, <3>3, <3>unref, <3>4
  <2> QED
    BY <2>1, <2>2 DEF Owned, At
<1> QED
  BY <1>6, <1>7, <1>8, <1>9 DEF Counts

(* Who holds no event before nor after changes no count.                   *)
LEMMA HeldStill ==
  ASSUME Types, Control, NEW t \in Threads, Moves(t), pc[t] \notin Serving, pc'[t] \notin Serving
  PROVE  Passed' = Passed /\ Served' = Served
<1>1. InCall /\ Locks /\ Frame(t)
  BY DEF Control, Moves
<1>2. ASSUME NEW e \in Events
      PROVE  Mutex'[e] = Mutex[e] /\ Mutex[e] # t /\ (Mutex[e] # NULL => Mutex[e] \in Threads)
  <2>1. Mutex[e] # t /\ (Mutex[e] # NULL => Mutex[e] \in Threads)
    BY <1>1, EventsAssumption DEF Locks, Types
  <2> QED
    BY <2>1 DEF Moves, MutexesMove
<1>3. ASSUME NEW e \in Events
      PROVE  Mutex[e] # NULL => i'[Mutex[e]] = i[Mutex[e]] /\ pc'[Mutex[e]] = pc[Mutex[e]]
  BY <1>1, <1>2 DEF Frame
<1>4. Passed' = Passed
  BY <1>2, <1>3 DEF Passed
<1> QED
  BY <1>2, <1>3, <1>4 DEF Served

LEMMA TypesKept ==
  ASSUME NEW t \in Threads, Moves(t),
         RegisteredWaits' \in [Events -> Seq(Registrations)], wfmo' \in [Wfmos -> Wfmo]
  PROVE  Types'
BY DEF Moves, Frame, Types

(* Nobody's registrations change that are still counted.                   *)
LEMMA SameRegs ==
  ASSUME Types, Control, Counts, NEW t \in Threads, Moves(t),
         RegisteredWaits' \in [Events -> Seq(Registrations)],
         \A w \in Wfmos : Owed(w)' = Owed(w) /\ Missing(w)' = Missing(w),
         wfmo' = wfmo, mine' = mine, skipped_refs' = skipped_refs,
         mine[t] # NULL =>
           /\ call'[t] = call[t] /\ i'[t] = i[t] /\ Unvisited(t)' = Unvisited(t)
           /\ pc'[t] = "multi.register" => pc[t] = "multi.register"
           /\ pc'[t] # "multi.unref"
           /\ pc[t] = "multi.done" => pc'[t] = "multi.done"
  PROVE  Types' /\ Counts'
<1>1. Types'
  BY TypesKept DEF Types
<1>2. ASSUME NEW w \in Wfmos
      PROVE  Owed(w)' = Owed(w) /\ Missing(w)' = Missing(w)
  OBVIOUS
<1>3. ASSUME NEW u \in Threads, mine[u] # NULL
      PROVE  /\ call'[u] = call[u] /\ i'[u] = i[u] /\ Unvisited(u)' = Unvisited(u)
             /\ Count(u)' = Count(u)
             /\ pc'[u] = "multi.register" => pc[u] = "multi.register"
             /\ pc'[u] = "multi.unref" => pc[u] = "multi.unref"
             /\ pc[u] = "multi.done" => pc'[u] = "multi.done"
             /\ mine[u] \in Wfmos
  <2>1. mine[u] \in Wfmos
    BY <1>3 DEF Types
  <2>2. CASE u = t
    BY <2>1, <2>2, <1>3 DEF Count
  <2>3. CASE u # t
    <3>1. pc'[u] = pc[u] /\ call'[u] = call[u] /\ i'[u] = i[u]
      BY <2>3 DEF Moves, Frame
    <3> QED
      BY <2>1, <3>1 DEF Count, Unvisited
  <2> QED
    BY <2>2, <2>3
<1>4. ASSUME NEW u \in Threads, mine[u] # NULL
      PROVE  /\ wfmo[mine[u]].WaitAll = call[u].waitAll
             /\ At(u, "multi.register") => wfmo[mine[u]].StillWaiting
             /\ At(u, "multi.unref") => ~wfmo[mine[u]].StillWaiting
             /\ \A p \in Owed(mine[u]) : \E j \in 1 .. i[u] : j =< Count(u) /\ p[1] = call[u].events[j]
  BY <1>4 DEF Counts, Owned
<1>5. Owned'
  <2>1. ASSUME NEW u \in Threads, NEW w \in Wfmos, mine[u] = w
        PROVE  /\ wfmo'[w].WaitAll = call'[u].waitAll
               /\ pc'[u] = "multi.register" => wfmo'[w].StillWaiting
               /\ pc'[u] = "multi.unref" => ~wfmo'[w].StillWaiting
               /\ \A p \in Owed(w)' : \E j \in 1 .. i'[u] : j =< Count(u)' /\ p[1] = call'[u].events[j]
    <3>1. w # NULL
      BY EventsAssumption
    <3> QED
      BY <2>1, <3>1, <1>2, <1>3, <1>4 DEF At
  <2>2. \A w \in Wfmos : wfmo'[w].StillWaiting => \E u \in Threads : mine'[u] = w
    BY DEF Counts, Owned
  <2>3. \A u \in Threads : mine'[u] # NULL => mine'[u] \in Wfmos /\ mine[u] = mine'[u]
    BY <1>3
  <2> QED
    BY <2>1, <2>2, <2>3 DEF Owned, At
<1>6. Unfired'
  BY <1>3 DEF Counts, Unfired
<1>7. Balanced'
  <2>1. ASSUME NEW u \in Threads, NEW w \in Wfmos, mine[u] = w
        PROVE  wfmo'[w].RefCount = Cardinality(Owed(w)') + 1 + skipped_refs'[u] + Unvisited(u)'
    <3>1. w # NULL
      BY EventsAssumption
    <3> QED
      BY <2>1, <3>1, <1>2, <1>3 DEF Counts, Balanced
  <2>2. \A u \in Threads : mine'[u] # NULL => mine'[u] \in Wfmos /\ mine[u] = mine'[u]
    BY <1>3
  <2>3. ASSUME NEW w \in Wfmos
        PROVE  /\ IsFiniteSet(Owed(w)')
               /\ (\A u \in Threads : mine'[u] # w) => wfmo'[w].RefCount = Cardinality(Owed(w)')
    BY <1>2 DEF Counts, Balanced
  <2> QED
    BY <2>1, <2>2, <2>3 DEF Balanced
<1>8. Counted'
  <2>1. ASSUME NEW u \in Threads, NEW w \in Wfmos, mine[u] = w, wfmo[w].WaitAll
        PROVE  /\ wfmo'[w].Status >= Cardinality(Missing(w)') + Unvisited(u)'
               /\ wfmo'[w].StillWaiting => wfmo'[w].Status = Cardinality(Missing(w)') + Unvisited(u)'
    <3>1. w # NULL
      BY EventsAssumption
    <3> QED
      BY <2>1, <3>1, <1>2, <1>3 DEF Counts, Counted
  <2>2. \A u \in Threads : mine'[u] # NULL => mine'[u] \in Wfmos /\ mine[u] = mine'[u]
    BY <1>3
  <2>3. ASSUME NEW w \in Wfmos, wfmo'[w].WaitAll, \A u \in Threads : mine'[u] # w
        PROVE  wfmo'[w].Status >= Cardinality(Missing(w)')
    BY <2>3, <1>2 DEF Counts, Counted
  <2> QED
    BY <2>1, <2>2, <2>3 DEF Counted
<1> QED
  BY <1>1, <1>5, <1>6, <1>7, <1>8 DEF Counts

LEMMA QuietCounts ==
  ASSUME Types, Control, Counts, NEW t \in Threads, Moves(t), Passed' = Passed, Served' = Served,
         RegisteredWaits' = RegisteredWaits, wfmo' = wfmo, mine' = mine, skipped_refs' = skipped_refs,
         mine[t] # NULL =>
           /\ call'[t] = call[t] /\ i'[t] = i[t] /\ Unvisited(t)' = Unvisited(t)
           /\ pc'[t] = "multi.register" => pc[t] = "multi.register"
           /\ pc'[t] # "multi.unref"
           /\ pc[t] = "multi.done" => pc'[t] = "multi.done"
  PROVE  Types' /\ Counts'
<1>1. \A w \in Wfmos : Owed(w)' = Owed(w) /\ Missing(w)' = Missing(w)
  BY DEF Owed, Missing
<1>2. RegisteredWaits' \in [Events -> Seq(Registrations)]
  BY DEF Types
<1> QED
  BY <1>1, <1>2, SameRegs

LEMMA WaitLockKeeps ==
  ASSUME Types, Control, Counts, NEW t \in Threads, WaitLock(t)
  PROVE  Types' /\ Control' /\ Counts'
<1>1. Moves(t)
  BY WaitLockMoves DEF Counts
<1>2. pc[t] \notin Serving /\ pc'[t] \notin Serving
  BY DEF WaitLock, Types, At, Goto, Stay, Return, AfterSet, Began, Serving, threadVars
<1>3. RegisteredWaits' = RegisteredWaits /\ wfmo' = wfmo /\ mine' = mine /\ skipped_refs' = skipped_refs
  BY DEF WaitLock, threadVars
<1>4. mine[t] = NULL
  BY DEF Control, InCall, CallOf, WaitLock, At, Began, MultiPlaces, Holding, threadVars
<1> QED
  BY <1>1, <1>2, <1>3, <1>4, HeldStill, QuietCounts, ControlKept

LEMMA WaitTimeoutKeeps ==
  ASSUME Types, Control, Counts, NEW t \in Threads, WaitTimeout(t)
  PROVE  Types' /\ Control' /\ Counts'
<1>1. Moves(t)
  BY WaitTimeoutMoves DEF Counts
<1>2. pc[t] \notin Serving /\ pc'[t] \notin Serving
  BY DEF WaitTimeout, Types, At, Goto, Stay, Return, AfterSet, Began, Serving, threadVars
<1>3. RegisteredWaits' = RegisteredWaits /\ wfmo' = wfmo /\ mine' = mine /\ skipped_refs' = skipped_refs
  BY DEF WaitTimeout, threadVars
<1>4. mine[t] = NULL
  BY DEF Control, InCall, CallOf, WaitTimeout, At, Began, MultiPlaces, Holding, threadVars
<1> QED
  BY <1>1, <1>2, <1>3, <1>4, HeldStill, QuietCounts, ControlKept

LEMMA WaitTimedOutKeeps ==
  ASSUME Types, Control, Counts, NEW t \in Threads, WaitTimedOut(t)
  PROVE  Types' /\ Control' /\ Counts'
<1>1. Moves(t)
  BY WaitTimedOutMoves DEF Counts
<1>2. pc[t] \notin Serving /\ pc'[t] \notin Serving
  BY DEF WaitTimedOut, Types, At, Goto, Stay, Return, AfterSet, Began, Serving, threadVars
<1>3. RegisteredWaits' = RegisteredWaits /\ wfmo' = wfmo /\ mine' = mine /\ skipped_refs' = skipped_refs
  BY DEF WaitTimedOut, threadVars
<1>4. mine[t] = NULL
  BY DEF Control, InCall, CallOf, WaitTimedOut, At, Began, MultiPlaces, Holding, threadVars
<1> QED
  BY <1>1, <1>2, <1>3, <1>4, HeldStill, QuietCounts, ControlKept

LEMMA SetSignalKeeps ==
  ASSUME Types, Control, Counts, NEW t \in Threads, SetSignal(t)
  PROVE  Types' /\ Control' /\ Counts'
<1>1. Moves(t)
  BY SetSignalMoves DEF Counts
<1>2. pc[t] \notin Serving /\ pc'[t] \notin Serving
  BY DEF SetSignal, Types, At, Goto, Stay, Return, AfterSet, Began, Serving, threadVars
<1>3. RegisteredWaits' = RegisteredWaits /\ wfmo' = wfmo /\ mine' = mine /\ skipped_refs' = skipped_refs
  BY DEF SetSignal, threadVars
<1>4. mine[t] = NULL
  BY DEF Control, InCall, CallOf, SetSignal, At, Began, MultiPlaces, Holding, threadVars
<1> QED
  BY <1>1, <1>2, <1>3, <1>4, HeldStill, QuietCounts, ControlKept

LEMMA PulseResetKeeps ==
  ASSUME Types, Control, Counts, NEW t \in Threads, PulseReset(t)
  PROVE  Types' /\ Control' /\ Counts'
<1>1. Moves(t)
  BY PulseResetMoves DEF Counts
<1>2. pc[t] \notin Serving /\ pc'[t] \notin Serving
  BY DEF PulseReset, Types, At, Goto, Stay, Return, AfterSet, Began, Serving, threadVars
<1>3. RegisteredWaits' = RegisteredWaits /\ wfmo' = wfmo /\ mine' = mine /\ skipped_refs' = skipped_refs
  BY DEF PulseReset, threadVars
<1>4. mine[t] = NULL
  BY DEF Control, InCall, CallOf, PulseReset, At, Began, MultiPlaces, Holding, threadVars
<1> QED
  BY <1>1, <1>2, <1>3, <1>4, HeldStill, QuietCounts, ControlKept

LEMMA MultiWaitKeeps ==
  ASSUME Types, Control, Counts, NEW t \in Threads, MultiWait(t)
  PROVE  Types' /\ Control' /\ Counts'
<1>1. Moves(t)
  BY MultiWaitMoves DEF Counts
<1>2. pc[t] \notin Serving /\ pc'[t] \notin Serving
  BY DEF MultiWait, Types, At, Goto, Stay, Return, AfterSet, Began, Serving, threadVars
<1>3. RegisteredWaits' = RegisteredWaits /\ wfmo' = wfmo /\ mine' = mine /\ skipped_refs' = skipped_refs
  BY DEF MultiWait, threadVars
<1>4. /\ call'[t] = call[t] /\ i'[t] = i[t] /\ Unvisited(t)' = Unvisited(t)
      /\ pc'[t] = "multi.register" => pc[t] = "multi.register"
      /\ pc'[t] # "multi.unref"
      /\ pc[t] = "multi.done" => pc'[t] = "multi.done"
  <2>1. call' = call /\ i' = i
    BY DEF MultiWait, threadVars
  <2>2. pc[t] # "multi.done" /\ pc'[t] \notin {"multi.register", "multi.unref"} /\ (pc[t] = "multi.register" => i[t] = Count(t))
    BY DEF MultiWait, At, Goto, Types
  <2>3. pc[t] \in MultiPlaces
    BY DEF MultiWait, At, MultiPlaces, Holding
  <2>4. Count(t) \in Nat
    BY <2>3, MultiCall DEF Control
  <2> QED
    BY <2>1, <2>2, <2>4 DEF Unvisited
<1> QED
  BY <1>1, <1>2, <1>3, <1>4, HeldStill, QuietCounts, ControlKept

LEMMA MultiTimeoutKeeps ==
  ASSUME Types, Control, Counts, NEW t \in Threads, MultiTimeout(t)
  PROVE  Types' /\ Control' /\ Counts'
<1>1. Moves(t)
  BY MultiTimeoutMoves DEF Counts
<1>2. pc[t] \notin Serving /\ pc'[t] \notin Serving
  BY DEF MultiTimeout, Types, At, Goto, Stay, Return, AfterSet, Began, Serving, threadVars
<1>3. RegisteredWaits' = RegisteredWaits /\ wfmo' = wfmo /\ mine' = mine /\ skipped_refs' = skipped_refs
  BY DEF MultiTimeout, threadVars
<1>4. /\ call'[t] = call[t] /\ i'[t] = i[t] /\ Unvisited(t)' = Unvisited(t)
      /\ pc'[t] = "multi.register" => pc[t] = "multi.register"
      /\ pc'[t] # "multi.unref"
      /\ pc[t] = "multi.done" => pc'[t] = "multi.done"
  <2>1. call' = call /\ i' = i
    BY DEF MultiTimeout, threadVars
  <2>2. pc[t] # "multi.done" /\ pc'[t] \notin {"multi.register", "multi.unref"} /\ (pc[t] = "multi.register" => i[t] = Count(t))
    BY DEF MultiTimeout, At, Goto, Types
  <2>3. pc[t] \in MultiPlaces
    BY DEF MultiTimeout, At, MultiPlaces, Holding
  <2>4. Count(t) \in Nat
    BY <2>3, MultiCall DEF Control
  <2> QED
    BY <2>1, <2>2, <2>4 DEF Unvisited
<1> QED
  BY <1>1, <1>2, <1>3, <1>4, HeldStill, QuietCounts, ControlKept

LEMMA MultiTimedOutKeeps ==
  ASSUME Types, Control, Counts, NEW t \in Threads, MultiTimedOut(t)
  PROVE  Types' /\ Control' /\ Counts'
<1>1. Moves(t)
  BY MultiTimedOutMoves DEF Counts
<1>2. pc[t] \notin Serving /\ pc'[t] \notin Serving
  BY DEF MultiTimedOut, Types, At, Goto, Stay, Return, AfterSet, Began, Serving, threadVars
<1>3. RegisteredWaits' = RegisteredWaits /\ wfmo' = wfmo /\ mine' = mine /\ skipped_refs' = skipped_refs
  BY DEF MultiTimedOut, threadVars
<1>4. /\ call'[t] = call[t] /\ i'[t] = i[t] /\ Unvisited(t)' = Unvisited(t)
      /\ pc'[t] = "multi.register" => pc[t] = "multi.register"
      /\ pc'[t] # "multi.unref"
      /\ pc[t] = "multi.done" => pc'[t] = "multi.done"
  <2>1. call' = call /\ i' = i
    BY DEF MultiTimedOut, threadVars
  <2>2. pc[t] # "multi.done" /\ pc'[t] \notin {"multi.register", "multi.unref"} /\ (pc[t] = "multi.register" => i[t] = Count(t))
    BY DEF MultiTimedOut, At, Goto, Types
  <2>3. pc[t] \in MultiPlaces
    BY DEF MultiTimedOut, At, MultiPlaces, Holding
  <2>4. Count(t) \in Nat
    BY <2>3, MultiCall DEF Control
  <2> QED
    BY <2>1, <2>2, <2>4 DEF Unvisited
<1> QED
  BY <1>1, <1>2, <1>3, <1>4, HeldStill, QuietCounts, ControlKept

LEMMA CallWaitKeeps ==
  ASSUME Types, Control, Counts, NEW t \in Threads, NEW c \in Calls[t], CallWait(t, c)
  PROVE  Types' /\ Control' /\ Counts'
<1>1. Moves(t)
  BY CallWaitMoves DEF Counts
<1>2. pc[t] \notin Serving /\ pc'[t] \notin Serving
  BY DEF CallWait, Types, At, Goto, Stay, Return, AfterSet, Began, Serving, threadVars
<1>3. RegisteredWaits' = RegisteredWaits /\ wfmo' = wfmo /\ mine' = mine /\ skipped_refs' = skipped_refs
  BY DEF CallWait, threadVars
<1>4. mine[t] = NULL
  BY DEF Control, InCall, CallOf, CallWait, At, Began, MultiPlaces, Holding, threadVars
<1> QED
  BY <1>1, <1>2, <1>3, <1>4, HeldStill, QuietCounts, ControlKept

LEMMA CallSetKeeps ==
  ASSUME Types, Control, Counts, NEW t \in Threads, NEW c \in Calls[t], CallSet(t, c)
  PROVE  Types' /\ Control' /\ Counts'
<1>1. Moves(t)
  BY CallSetMoves DEF Counts
<1>2. pc[t] \notin Serving /\ pc'[t] \notin Serving
  BY DEF CallSet, Types, At, Goto, Stay, Return, AfterSet, Began, Serving, threadVars
<1>3. RegisteredWaits' = RegisteredWaits /\ wfmo' = wfmo /\ mine' = mine /\ skipped_refs' = skipped_refs
  BY DEF CallSet, threadVars
<1>4. mine[t] = NULL
  BY DEF Control, InCall, CallOf, CallSet, At, Began, MultiPlaces, Holding, threadVars
<1> QED
  BY <1>1, <1>2, <1>3, <1>4, HeldStill, QuietCounts, ControlKept

LEMMA ResetEventKeeps ==
  ASSUME Types, Control, Counts, NEW t \in Threads, NEW c \in Calls[t], ResetEvent(t, c)
  PROVE  Types' /\ Control' /\ Counts'
<1>1. Moves(t)
  BY ResetEventMoves DEF Counts
<1>2. pc[t] \notin Serving /\ pc'[t] \notin Serving
  BY DEF ResetEvent, Types, At, Goto, Stay, Return, AfterSet, Began, Serving, threadVars
<1>3. RegisteredWaits' = RegisteredWaits /\ wfmo' = wfmo /\ mine' = mine /\ skipped_refs' = skipped_refs
  BY DEF ResetEvent, threadVars
<1>4. mine[t] = NULL
  BY DEF Control, InCall, CallOf, ResetEvent, At, Began, MultiPlaces, Holding, threadVars
<1> QED
  BY <1>1, <1>2, <1>3, <1>4, HeldStill, QuietCounts, ControlKept

(* It has passed nothing yet.                                              *)
LEMMA SetLockKeeps ==
  ASSUME Types, Control, Counts, NEW t \in Threads, SetLock(t)
  PROVE  Types' /\ Control' /\ Counts'
<1>1. Moves(t)
  BY SetLockMoves
<1>2. RegisteredWaits' = RegisteredWaits /\ wfmo' = wfmo /\ mine' = mine /\ skipped_refs' = skipped_refs
  BY DEF SetLock
<1>3. mine[t] = NULL /\ Ev(t) \in Events
  BY EventCall DEF Control, SetLock, At, SetPlaces
<1>4. /\ Mutex[Ev(t)] = NULL /\ Mutex' = [Mutex EXCEPT ![Ev(t)] = t]
      /\ i' = [i EXCEPT ![t] = 0] /\ pc' = [pc EXCEPT ![t] = "set.next"] /\ pc[t] = "set.lock"
  BY DEF SetLock, IsFree, Locked, At, Goto
<1>5. \A e \in Events : Mutex[e] # t /\ (Mutex[e] # NULL => Mutex[e] \in Threads)
  BY <1>4, EventsAssumption DEF Control, Locks, Types, Serving
<1>6. ASSUME NEW e \in Events
      PROVE  /\ (IF Mutex'[e] = NULL THEN 0 ELSE i'[Mutex'[e]]) = (IF Mutex[e] = NULL THEN 0 ELSE i[Mutex[e]])
             /\ (Mutex'[e] # NULL /\ pc'[Mutex'[e]] = "set.release") <=>
                  (Mutex[e] # NULL /\ pc[Mutex[e]] = "set.release")
  <2>1. CASE e = Ev(t)
    BY <2>1, <1>4, EventsAssumption DEF Types
  <2>2. CASE e # Ev(t)
    BY <2>2, <1>4, <1>5 DEF Types
  <2> QED
    BY <2>1, <2>2
<1>7. Passed' = Passed
  BY <1>6 DEF Passed
<1>8. Served' = Served
  BY <1>6, <1>7 DEF Served
<1> QED
  BY <1>1, <1>2, <1>3, <1>7, <1>8, QuietCounts, ControlKept

(* The queue of the event t serves.                                        *)
LEMMA ServerCounts ==
  ASSUME Types, Control, NEW t \in Threads, pc[t] \in Serving, Frame(t)
  PROVE  /\ Passed[Ev(t)] = i[t]
         /\ Served[Ev(t)] = IF pc[t] = "set.release" THEN i[t] + 1 ELSE i[t]
         /\ Mutex' = Mutex =>
              /\ Passed' = [Passed EXCEPT ![Ev(t)] = i'[t]]
              /\ Served' = [Served EXCEPT ![Ev(t)] = IF pc'[t] = "set.release" THEN i'[t] + 1 ELSE i'[t]]
         /\ Mutex' = [Mutex EXCEPT ![Ev(t)] = NULL] =>
              /\ Passed' = [Passed EXCEPT ![Ev(t)] = 0]
              /\ Served' = [Served EXCEPT ![Ev(t)] = 0]
<1>1. InCall /\ Locks /\ t # NULL
  BY EventsAssumption DEF Control
<1>2. Ev(t) \in Events /\ Mutex[Ev(t)] = t
  BY <1>1, EventCall DEF Locks, SetPlaces
<1>3. Passed[Ev(t)] = i[t] /\ Served[Ev(t)] = IF pc[t] = "set.release" THEN i[t] + 1 ELSE i[t]
  BY <1>1, <1>2, Holder
<1>4. ASSUME NEW f \in Events, f # Ev(t)
      PROVE  /\ Mutex[f] # NULL => i'[Mutex[f]] = i[Mutex[f]] /\ pc'[Mutex[f]] = pc[Mutex[f]]
  <2>1. Mutex[f] # NULL => Mutex[f] \in Threads \ {t}
    BY <1>1, <1>4 DEF Locks, Types
  <2> QED
    BY <2>1 DEF Frame
<1>5. ASSUME Mutex' = Mutex
      PROVE  Passed' = [Passed EXCEPT ![Ev(t)] = i'[t]]
  BY <1>1, <1>2, <1>4, <1>5 DEF Passed
<1>6. ASSUME Mutex' = Mutex
      PROVE  Served' = [Served EXCEPT ![Ev(t)] = IF pc'[t] = "set.release" THEN i'[t] + 1 ELSE i'[t]]
  <2>1. \A e \in Events : Served'[e] = IF Mutex[e] # NULL /\ pc'[Mutex[e]] = "set.release"
                                       THEN Passed'[e] + 1 ELSE Passed'[e]
    BY <1>6 DEF Served
  <2>2. Passed' = [Passed EXCEPT ![Ev(t)] = i'[t]] /\ DOMAIN Passed = Events
    BY <1>5, <1>6 DEF Passed
  <2>3. \A e \in Events : Served'[e] = IF e = Ev(t) THEN (IF pc'[t] = "set.release" THEN i'[t] + 1 ELSE i'[t])
                                       ELSE Served[e]
    BY <1>1, <1>2, <1>4, <2>1, <2>2 DEF Served
  <2> QED
    BY <2>3 DEF Served
<1>7. ASSUME Mutex' = [Mutex EXCEPT ![Ev(t)] = NULL]
      PROVE  Passed' = [Passed EXCEPT ![Ev(t)] = 0] /\ Served' = [Served EXCEPT ![Ev(t)] = 0]
  <2>1. \A e \in Events : Mutex'[e] = IF e = Ev(t) THEN NULL ELSE Mutex[e]
    BY <1>7 DEF Types
  <2>2. \A e \in Events : Passed'[e] = IF e = Ev(t) THEN 0 ELSE Passed[e]
    BY <2>1, <1>4 DEF Passed
  <2>3. \A e \in Events : Served'[e] = IF e = Ev(t) THEN 0 ELSE Served[e]
    BY <2>1, <2>2, <1>4 DEF Served
  <2> QED
    BY <2>2, <2>3 DEF Passed, Served
<1> QED
  BY <1>3, <1>5, <1>6, <1>7

(* The registration t has come to is passed, or taken from the queue.      *)
LEMMA PassedOne ==
  ASSUME NEW t \in Threads, NEW from, NEW from2, NEW waits2, NEW w, from[Ev(t)] = i[t],
         Passes(RegisteredWaits, from, waits2, from2, Ev(t)), IsFiniteSet(Regs(RegisteredWaits, from, w))
  PROVE  /\ waits2 \in [Events -> Seq(Registrations)]
         /\ IsFiniteSet(Regs(waits2, from2, w)) /\ Cardinality(Regs(waits2, from2, w)) \in Nat
         /\ Cardinality(Regs(waits2, from2, w)) =
              Cardinality(Regs(RegisteredWaits, from, w)) - (IF w = Waiter(t) THEN 1 ELSE 0)
         /\ \A p \in Regs(waits2, from2, w) : \E q \in Regs(RegisteredWaits, from, w) : q[1] = p[1]
<1>1. RegisteredWaits[Ev(t)][from[Ev(t)] + 1].Waiter = Waiter(t)
  BY DEF Waiter, Registration, Waits
<1>2. waits2 \in [Events -> Seq(Registrations)]
  <2>1. RegisteredWaits[Ev(t)] \in Seq(Registrations) /\ RegisteredWaits[Ev(t)] # <<>>
    BY EmptySeq DEF Passes
  <2>2. Tail(RegisteredWaits[Ev(t)]) \in Seq(Registrations)
    BY <2>1, EmptySeq
  <2> QED
    BY <2>2 DEF Passes
<1>3. /\ IsFiniteSet(Regs(waits2, from2, w)) /\ Cardinality(Regs(waits2, from2, w)) \in Nat
      /\ Cardinality(Regs(waits2, from2, w)) =
           Cardinality(Regs(RegisteredWaits, from, w))
             - (IF RegisteredWaits[Ev(t)][from[Ev(t)] + 1].Waiter = w THEN 1 ELSE 0)
      /\ \A p \in Regs(waits2, from2, w) :
           \E q \in Regs(RegisteredWaits, from, w) : q[1] = p[1]
  BY OneLess
<1> QED
  BY <1>1, <1>2, <1>3

(* A wfmo object keeps its type when a reference is given back that it is  *)
(* owed, or an event it misses is handed to it.                            *)
LEMMA UnrefType ==
  ASSUME Types, Control, Balanced, NEW v \in Wfmos, Cardinality(Owed(v)) - 1 \in Nat
  PROVE  Unref(wfmo, v, 1) \in [Wfmos -> Wfmo]
<1>1. wfmo[v] \in Wfmo /\ wfmo[v].RefCount >= Cardinality(Owed(v)) /\ Cardinality(Owed(v)) \in Nat
  BY CountTypes
<1>2. wfmo[v].RefCount - 1 \in Nat
  BY <1>1 DEF Wfmo
<1>3. [wfmo[v] EXCEPT !.RefCount = @ - 1] \in Wfmo
  BY <1>1, <1>2 DEF Wfmo
<1> QED
  BY <1>3 DEF Unref, Types

LEMMA FireType ==
  ASSUME Types, Control, Counts, NEW v \in Wfmos, NEW index \in Nat,
         Cardinality(Missing(v)) - 1 \in Nat
  PROVE  Fire(v, index) \in [Wfmos -> Wfmo]
<1>1. wfmo[v] \in Wfmo /\ Cardinality(Missing(v)) \in Nat
  BY CountTypes DEF Counts
<1>2. ASSUME wfmo[v].WaitAll
      PROVE  wfmo[v].Status >= Cardinality(Missing(v))
  <2>1. CASE \A u \in Threads : mine[u] # v
    BY <1>2, <2>1 DEF Counts, Counted
  <2>2. ASSUME NEW u \in Threads, mine[u] = v
        PROVE  wfmo[v].Status >= Cardinality(Missing(v))
    <3>1. mine[u] # NULL /\ pc[u] \in MultiPlaces
      BY <2>2, EventsAssumption DEF Control, InCall, CallOf
    <3>2. Unvisited(u) \in Nat
      BY <3>1, MultiCall DEF Control
    <3>3. wfmo[v].Status >= Cardinality(Missing(v)) + Unvisited(u)
      BY <1>2, <2>2, <3>1 DEF Counts, Counted
    <3>4. wfmo[v].Status \in Int
      BY <1>1 DEF Wfmo
    <3> QED
      BY <1>1, <3>2, <3>3, <3>4
  <2> QED
    BY <2>1, <2>2
<1>3. (IF wfmo[v].WaitAll THEN wfmo[v].Status - 1 ELSE index) \in Nat \cup {-1}
  <2>1. wfmo[v].Status \in Int
    BY <1>1 DEF Wfmo
  <2> QED
    BY <1>1, <1>2, <2>1
<1> DEFINE fired == [wfmo[v] EXCEPT !.Status = IF wfmo[v].WaitAll THEN wfmo[v].Status - 1 ELSE index,
                                    !.StillWaiting = wfmo[v].StillWaiting /\ wfmo[v].WaitAll]
<1>4. fired \in Wfmo
  BY <1>1, <1>3 DEF Wfmo
<1>5. Fire(v, index) = [wfmo EXCEPT ![v] = fired]
  BY <1>1 DEF Fire, Given, Types, Wfmo
<1> QED
  BY <1>4, <1>5 DEF Types

(* The counts, when t passes the registration it has come to.              *)
LEMMA OwedOne ==
  ASSUME Types, Control, Counts, NEW t \in Threads, pc[t] \in Serving, Frame(t),
         Passes(RegisteredWaits, Passed, RegisteredWaits', Passed', Ev(t)), NEW w \in Wfmos
  PROVE  /\ RegisteredWaits' \in [Events -> Seq(Registrations)]
         /\ IsFiniteSet(Owed(w)') /\ Cardinality(Owed(w)') \in Nat
         /\ Cardinality(Owed(w)') = Cardinality(Owed(w)) - (IF w = Waiter(t) THEN 1 ELSE 0)
         /\ \A p \in Owed(w)' : \E q \in Owed(w) : q[1] = p[1]
<1>1. IsFiniteSet(Regs(RegisteredWaits, Passed, w)) /\ Passed[Ev(t)] = i[t]
  BY ServerCounts DEF Counts, Balanced, Owed
<1>2. /\ IsFiniteSet(Regs(RegisteredWaits', Passed', w))
      /\ Cardinality(Regs(RegisteredWaits', Passed', w)) \in Nat
      /\ Cardinality(Regs(RegisteredWaits', Passed', w)) =
           Cardinality(Regs(RegisteredWaits, Passed, w)) - (IF w = Waiter(t) THEN 1 ELSE 0)
  BY <1>1, PassedOne
<1>3. RegisteredWaits' \in [Events -> Seq(Registrations)]
  BY <1>1, PassedOne
<1>4. \A p \in Regs(RegisteredWaits', Passed', w) :
        \E q \in Regs(RegisteredWaits, Passed, w) : q[1] = p[1]
  BY <1>1, PassedOne
<1> QED
  BY <1>2, <1>3, <1>4 DEF Owed

LEMMA MissingOne ==
  ASSUME Types, Control, Counts, NEW t \in Threads, Served[Ev(t)] = i[t],
         Passes(RegisteredWaits, Served, RegisteredWaits', Served', Ev(t)), NEW w \in Wfmos
  PROVE  /\ Cardinality(Missing(w)') \in Nat
         /\ Cardinality(Missing(w)') = Cardinality(Missing(w)) - (IF w = Waiter(t) THEN 1 ELSE 0)
<1>1. IsFiniteSet(Regs(RegisteredWaits, Served, w))
  BY CountTypes DEF Counts, Missing
<1>2. /\ Cardinality(Regs(RegisteredWaits', Served', w)) \in Nat
      /\ Cardinality(Regs(RegisteredWaits', Served', w)) =
           Cardinality(Regs(RegisteredWaits, Served, w)) - (IF w = Waiter(t) THEN 1 ELSE 0)
  BY <1>1, PassedOne
<1> QED
  BY <1>2 DEF Missing

(* A SetEvent drops a registration whose waiter waits no longer.           *)
LEMMA DropKeeps ==
  ASSUME Types, Control, Counts, NEW t \in Threads, Moves(t),
         pc[t] \in {"set.next", "set.waiter"}, i[t] # Len(Waits(t)), pc'[t] = "set.next",
         ~wfmo[Waiter(t)].StillWaiting, wfmo' = Unref(wfmo, Waiter(t), 1), Pass(t),
         Mutex' = Mutex, mine' = mine, skipped_refs' = skipped_refs
  PROVE  Types' /\ Control' /\ Counts'
<1>1. InCall /\ Locks /\ InQueue /\ Balanced /\ pc[t] \in Serving /\ Frame(t)
  BY DEF Control, Counts, Serving, Moves
<1>2. /\ Ev(t) \in Events /\ mine[t] = NULL /\ i[t] \in Nat
      /\ Waiter(t) \in Wfmos /\ (Ev(t) \in AutoReset => i[t] = 0)
  BY <1>1, EventCall, ComeTo DEF SetPlaces, InQueue, PlaceOf
<1>len. i[t] < Len(RegisteredWaits[Ev(t)]) /\ RegisteredWaits \in [Events -> Seq(Registrations)]
  BY <1>1, ComeTo DEF Waits, Types
<1>3. /\ Passed \in [Events -> Nat] /\ Served \in [Events -> Nat]
      /\ \A w \in Wfmos : IsFiniteSet(Owed(w)) /\ IsFiniteSet(Missing(w))
  BY <1>1, <1>2, CountTypes
<1>4. /\ Passed[Ev(t)] = i[t] /\ Served[Ev(t)] = i[t]
      /\ Passed' = [Passed EXCEPT ![Ev(t)] = i'[t]] /\ Served' = [Served EXCEPT ![Ev(t)] = i'[t]]
  BY <1>1, ServerCounts
<1>5. ASSUME Ev(t) \in AutoReset
      PROVE  /\ RegisteredWaits' = [RegisteredWaits EXCEPT ![Ev(t)] = Tail(@)]
             /\ Passed' = Passed /\ Served' = Served /\ i[t] = 0
  BY <1>2, <1>3, <1>4, <1>5 DEF Pass
<1>6. ASSUME Ev(t) \notin AutoReset
      PROVE  /\ RegisteredWaits' = RegisteredWaits
             /\ Passed' = [Passed EXCEPT ![Ev(t)] = @ + 1]
             /\ Served' = [Served EXCEPT ![Ev(t)] = @ + 1]
  <2>1. RegisteredWaits' = RegisteredWaits /\ i'[t] = i[t] + 1
    BY <1>6 DEF Pass, Types
  <2> QED
    BY <2>1, <1>3, <1>4
<1>7. ASSUME NEW w \in Wfmos
      PROVE  /\ RegisteredWaits' \in [Events -> Seq(Registrations)]
             /\ IsFiniteSet(Owed(w)') /\ Cardinality(Owed(w)') \in Nat
             /\ Cardinality(Owed(w)') = Cardinality(Owed(w)) - (IF w = Waiter(t) THEN 1 ELSE 0)
             /\ \A p \in Owed(w)' : \E q \in Owed(w) : q[1] = p[1]
  <2>1. Passes(RegisteredWaits, Passed, RegisteredWaits', Passed', Ev(t))
    BY <1>2, <1>3, <1>4, <1>5, <1>6, <1>len DEF Passes
  <2> QED
    BY <1>1, <2>1, OwedOne
<1>8. ASSUME NEW w \in Wfmos
      PROVE  /\ Cardinality(Missing(w)') \in Nat
             /\ Cardinality(Missing(w)') = Cardinality(Missing(w)) - (IF w = Waiter(t) THEN 1 ELSE 0)
  <2>1. Passes(RegisteredWaits, Served, RegisteredWaits', Served', Ev(t))
    BY <1>2, <1>3, <1>4, <1>5, <1>6, <1>len DEF Passes
  <2> QED
    BY <1>4, <2>1, MissingOne
<1>9. /\ \A w \in Wfmos \ {Waiter(t)} : wfmo'[w] = wfmo[w]
      /\ wfmo'[Waiter(t)] = [wfmo[Waiter(t)] EXCEPT !.RefCount = @ - 1]
      /\ wfmo[Waiter(t)] \in Wfmo
  BY <1>2 DEF Unref, Types
<1>10. Gives(t, Waiter(t), 1, 1)
  BY <1>2, <1>7, <1>8, <1>9 DEF Gives, Wfmo
<1>11. wfmo' \in [Wfmos -> Wfmo]
  BY <1>1, <1>2, <1>7, UnrefType
<1> QED
  BY <1>2, <1>7, <1>10, <1>11, GivesCounts, TypesKept, ControlKept

LEMMA SetNextKeeps ==
  ASSUME Types, Control, Counts, NEW t \in Threads, SetNext(t)
  PROVE  Types' /\ Control' /\ Counts'
<1>1. Moves(t) /\ Frame(t) /\ pc[t] = "set.next" /\ mine' = mine /\ skipped_refs' = skipped_refs
  BY SetNextMoves DEF SetNext, At, Moves
<1>2. InCall /\ Locks /\ InQueue /\ pc[t] \in Serving
  BY <1>1 DEF Control, Serving
<1>3. Ev(t) \in Events /\ mine[t] = NULL
  BY <1>2, EventCall DEF SetPlaces
<1>4. CASE i[t] = Len(Waits(t))
  <2>1. /\ RegisteredWaits' = [RegisteredWaits EXCEPT ![Ev(t)] = <<>>]
        /\ Mutex' = [Mutex EXCEPT ![Ev(t)] = NULL] /\ wfmo' = wfmo
    BY <1>4 DEF SetNext, Cleared, Unlocked
  <2>2. /\ Passed[Ev(t)] = Len(RegisteredWaits[Ev(t)])
        /\ Served[Ev(t)] = Len(RegisteredWaits[Ev(t)])
        /\ Passed' = [Passed EXCEPT ![Ev(t)] = 0] /\ Served' = [Served EXCEPT ![Ev(t)] = 0]
    BY <1>1, <1>2, <1>4, <2>1, ServerCounts DEF Waits
  <2>3. RegisteredWaits \in [Events -> Seq(Registrations)] /\ Len(RegisteredWaits[Ev(t)]) \in Nat
    BY <1>3 DEF Types
  <2>4. ASSUME NEW w \in Wfmos
        PROVE  Owed(w)' = Owed(w) /\ Missing(w)' = Missing(w)
    <3>1. Passed \in [Events -> Nat] /\ Served \in [Events -> Nat]
      BY CountTypes DEF Counts
    <3>2. Passed[Ev(t)] >= Len(RegisteredWaits[Ev(t)]) /\ Served[Ev(t)] >= Len(RegisteredWaits[Ev(t)])
      BY <2>2, <2>3
    <3>3. ASSUME NEW from \in [Events -> Nat], from[Ev(t)] >= Len(RegisteredWaits[Ev(t)])
          PROVE  Regs([RegisteredWaits EXCEPT ![Ev(t)] = <<>>], [from EXCEPT ![Ev(t)] = 0], w)
                   = Regs(RegisteredWaits, from, w)
      <4> DEFINE waits == RegisteredWaits
                 e == Ev(t)
      <4>1. /\ waits \in [Events -> Seq(Registrations)] /\ e \in Events
            /\ from[e] >= Len(waits[e])
        BY <1>3, <2>3, <3>3
      <4> HIDE DEF waits, e
      <4>2. Regs([waits EXCEPT ![e] = <<>>], [from EXCEPT ![e] = 0], w) = Regs(waits, from, w)
        BY <3>3, <4>1, NoneLeft
      <4> QED
        BY <4>2 DEF waits, e
    <3>4. /\ Regs([RegisteredWaits EXCEPT ![Ev(t)] = <<>>], [Passed EXCEPT ![Ev(t)] = 0], w)
                = Regs(RegisteredWaits, Passed, w)
          /\ Regs([RegisteredWaits EXCEPT ![Ev(t)] = <<>>], [Served EXCEPT ![Ev(t)] = 0], w)
                = Regs(RegisteredWaits, Served, w)
      BY <3>1, <3>2, <3>3
    <3>5. Owed(w)' = Owed(w)
      <4>1. Owed(w)' = Regs(RegisteredWaits', Passed', w)
        BY DEF Owed
      <4> QED
        BY <2>1, <2>2, <3>4, <4>1 DEF Owed
    <3>6. Missing(w)' = Missing(w)
      <4>1. Missing(w)' = Regs(RegisteredWaits', Served', w)
        BY DEF Missing
      <4> QED
        BY <2>1, <2>2, <3>4, <4>1 DEF Missing
    <3> QED
      BY <3>5, <3>6
  <2>5. RegisteredWaits' \in [Events -> Seq(Registrations)]
    <3>1. <<>> \in Seq(Registrations)
      BY EmptySeq
    <3> QED
      BY <2>1, <2>3, <3>1
  <2> QED
    BY <1>1, <1>3, <2>1, <2>4, <2>5, SameRegs, ControlKept
<1>5. CASE i[t] # Len(Waits(t)) /\ wfmo[Waiter(t)].StillWaiting
  <2>1. /\ RegisteredWaits' = RegisteredWaits /\ Mutex' = Mutex /\ wfmo' = wfmo /\ i' = i
        /\ pc' = [pc EXCEPT ![t] = "set.waiter"]
    BY <1>5 DEF SetNext, Goto
  <2>2. Passed' = Passed /\ Served' = Served
    <3>1. /\ Passed[Ev(t)] = i[t] /\ Served[Ev(t)] = i[t] /\ pc'[t] = "set.waiter" /\ i'[t] = i[t]
          /\ Passed' = [Passed EXCEPT ![Ev(t)] = i[t]] /\ Served' = [Served EXCEPT ![Ev(t)] = i[t]]
      BY <1>1, <1>2, <2>1, ServerCounts DEF Types
    <3> QED
      BY <3>1 DEF Passed, Served
  <2> QED
    BY <1>1, <1>3, <2>1, <2>2, QuietCounts, ControlKept
<1>6. CASE i[t] # Len(Waits(t)) /\ ~wfmo[Waiter(t)].StillWaiting
  <2>1. wfmo' = Unref(wfmo, Waiter(t), 1) /\ Pass(t) /\ pc' = pc /\ Mutex' = Mutex
    BY <1>6 DEF SetNext
  <2> QED
    BY <1>1, <1>6, <2>1, DropKeeps
<1> QED
  BY <1>4, <1>5, <1>6

LEMMA SetWaiterKeeps ==
  ASSUME Types, Control, Counts, NEW t \in Threads, SetWaiter(t)
  PROVE  Types' /\ Control' /\ Counts'
<1>1. /\ Moves(t) /\ Frame(t) /\ pc[t] = "set.waiter" /\ mine' = mine
      /\ skipped_refs' = skipped_refs
      /\ Mutex' = Mutex /\ IsFree(Waiter(t))
  BY SetWaiterMoves DEF SetWaiter, At, Moves
<1>2. InCall /\ Locks /\ InQueue /\ pc[t] \in Serving
  BY <1>1 DEF Control, Serving
<1>3. /\ Ev(t) \in Events /\ mine[t] = NULL /\ i[t] \in Nat /\ i[t] < Len(Waits(t))
      /\ RegisteredWaits[Ev(t)] \in Seq(Registrations) /\ Len(Waits(t)) \in Nat
  BY <1>1, <1>2, EventCall DEF SetPlaces, InQueue, PlaceOf, Waits
<1>4. /\ Waiter(t) \in Wfmos /\ Registration(t) \in Registrations /\ i[t] # Len(Waits(t))
      /\ Registration(t).WaitIndex \in Nat
  BY <1>2, <1>3, ComeTo DEF Registrations
<1>5. CASE EndedMeanwhile(t)
  <2>1. wfmo' = Unref(wfmo, Waiter(t), 1) /\ Pass(t) /\ pc'[t] = "set.next" /\ ~wfmo[Waiter(t)].StillWaiting
    BY <1>5 DEF SetWaiter, Goto, Types, EndedMeanwhile
  <2> QED
    BY <1>1, <1>4, <2>1, DropKeeps
<1>6. CASE ~EndedMeanwhile(t)
  <2>1. /\ wfmo' = Fire(Waiter(t), Registration(t).WaitIndex) /\ RegisteredWaits' = RegisteredWaits
        /\ i' = i /\ pc'[t] = "set.release"
    BY <1>6 DEF SetWaiter, Goto, Types
  <2>2. /\ Served[Ev(t)] = i[t] /\ Passed[Ev(t)] = i[t]
        /\ Passed' = [Passed EXCEPT ![Ev(t)] = i[t]]
        /\ Served' = [Served EXCEPT ![Ev(t)] = i[t] + 1]
    BY <1>1, <1>2, <2>1, ServerCounts
  <2>3. Passed' = Passed /\ Served' = [Served EXCEPT ![Ev(t)] = @ + 1]
    BY <2>2 DEF Passed, Served
  <2>4. ASSUME NEW w \in Wfmos
        PROVE  /\ Cardinality(Missing(w)') \in Nat
               /\ Cardinality(Missing(w)') = Cardinality(Missing(w)) - (IF w = Waiter(t) THEN 1 ELSE 0)
    <3>1. Served \in [Events -> Nat]
      BY CountTypes DEF Counts
    <3>2. Passes(RegisteredWaits, Served, RegisteredWaits', Served', Ev(t))
      BY <1>3, <2>1, <2>2, <2>3, <3>1 DEF Passes, Types, Waits
    <3> QED
      BY <2>2, <3>2, MissingOne
  <2>5. ASSUME NEW w \in Wfmos
        PROVE  Owed(w)' = Owed(w) /\ IsFiniteSet(Owed(w)) /\ Cardinality(Owed(w)) \in Nat
    BY <2>1, <2>3, CountTypes DEF Owed, Counts
  <2>6. /\ \A w \in Wfmos \ {Waiter(t)} : wfmo'[w] = wfmo[w]
        /\ wfmo'[Waiter(t)].WaitAll = wfmo[Waiter(t)].WaitAll
        /\ wfmo'[Waiter(t)].RefCount = wfmo[Waiter(t)].RefCount
        /\ wfmo'[Waiter(t)].StillWaiting => wfmo[Waiter(t)].StillWaiting /\ wfmo[Waiter(t)].WaitAll
        /\ wfmo[Waiter(t)].WaitAll => wfmo'[Waiter(t)].Status = wfmo[Waiter(t)].Status - 1
        /\ wfmo[Waiter(t)].RefCount \in Nat
    BY <1>4, <2>1 DEF Fire, Given, Types, Wfmo
  <2>7. Gives(t, Waiter(t), 0, 1)
    <3> DEFINE v == Waiter(t)
    <3>1. \A w \in Wfmos :
            /\ IsFiniteSet(Owed(w)')
            /\ Cardinality(Owed(w)') = Cardinality(Owed(w)) - (IF w = v THEN 0 ELSE 0)
            /\ Cardinality(Missing(w)') = Cardinality(Missing(w)) - (IF w = v THEN 1 ELSE 0)
            /\ Cardinality(Owed(w)') \in Nat /\ Cardinality(Missing(w)') \in Nat
            /\ \A p \in Owed(w)' : \E q \in Owed(w) : q[1] = p[1]
      BY <2>4, <2>5
    <3>2. /\ v \in Wfmos
          /\ \A w \in Wfmos \ {v} : wfmo'[w] = wfmo[w]
          /\ wfmo'[v].WaitAll = wfmo[v].WaitAll
          /\ wfmo'[v].RefCount = wfmo[v].RefCount - 0
          /\ wfmo'[v].StillWaiting => wfmo[v].StillWaiting
          /\ Mutex[v] = NULL
          /\ wfmo[v].WaitAll => wfmo'[v].Status = wfmo[v].Status - 1
          /\ ~wfmo[v].WaitAll => ~wfmo'[v].StillWaiting
      BY <1>1, <1>4, <2>6 DEF IsFree
    <3> HIDE DEF v
    <3> QED
      BY <1>1, <1>3, <3>1, <3>2 DEF Gives, v
  <2>8. wfmo' \in [Wfmos -> Wfmo]
    <3>1. Cardinality(Missing(Waiter(t))) - 1 \in Nat
      BY <1>4, <2>4
    <3> QED
      BY <1>4, <2>1, <3>1, FireType
  <2> QED
    BY <1>1, <2>1, <2>7, <2>8, GivesCounts, TypesKept, ControlKept DEF Types
<1> QED
  BY <1>5, <1>6

LEMMA SetReleaseKeeps ==
  ASSUME Types, Control, Counts, NEW t \in Threads, SetRelease(t)
  PROVE  Types' /\ Control' /\ Counts'
<1>1. /\ Moves(t) /\ Frame(t) /\ pc[t] = "set.release" /\ mine' = mine
      /\ skipped_refs' = skipped_refs
      /\ wfmo' = Unref(wfmo, Waiter(t), 1)
  BY SetReleaseMoves DEF SetRelease, At, Moves
<1>2. InCall /\ Locks /\ InQueue /\ pc[t] \in Serving
  BY <1>1 DEF Control, Serving
<1>3. /\ Ev(t) \in Events /\ mine[t] = NULL /\ i[t] \in Nat /\ i[t] < Len(Waits(t))
      /\ RegisteredWaits[Ev(t)] \in Seq(Registrations) /\ Len(Waits(t)) \in Nat
      /\ Ev(t) \in AutoReset => i[t] = 0
  BY <1>1, <1>2, EventCall DEF SetPlaces, InQueue, PlaceOf, Waits
<1>4. Waiter(t) \in Wfmos /\ i[t] # Len(Waits(t)) /\ Waits(t) # <<>>
  BY <1>2, <1>3, ComeTo
<1>5. Passed \in [Events -> Nat] /\ Served \in [Events -> Nat]
  BY <1>4, CountTypes DEF Counts
<1>6. Passed[Ev(t)] = i[t] /\ Served[Ev(t)] = i[t] + 1
  BY <1>1, <1>2, ServerCounts
<1>7. /\ Passes(RegisteredWaits, Passed, RegisteredWaits', Passed', Ev(t))
      /\ \A w \in Wfmos : Cardinality(Missing(w)') = Cardinality(Missing(w))
  <2>1. CASE Ev(t) \in AutoReset
    <3>1. RegisteredWaits' = [RegisteredWaits EXCEPT ![Ev(t)] = Tail(@)] /\ Mutex' = [Mutex EXCEPT ![Ev(t)] = NULL]
      BY <2>1 DEF SetRelease, Unlocked
    <3>2. Passed' = [Passed EXCEPT ![Ev(t)] = 0] /\ Served' = [Served EXCEPT ![Ev(t)] = 0]
      BY <1>1, <1>2, <3>1, ServerCounts
    <3>3. i[t] = 0 /\ Passed[Ev(t)] = 0 /\ Served[Ev(t)] = 1 /\ Passed' = Passed
      BY <1>3, <1>5, <1>6, <2>1, <3>2
    <3>4. Passes(RegisteredWaits, Passed, RegisteredWaits', Passed', Ev(t))
      BY <1>3, <1>5, <3>1, <3>3 DEF Passes, Types, Waits
    <3>5. /\ \A f \in Events \ {Ev(t)} : RegisteredWaits'[f] = RegisteredWaits[f] /\ Served'[f] = Served[f]
          /\ RegisteredWaits'[Ev(t)] = Tail(RegisteredWaits[Ev(t)]) /\ Served'[Ev(t)] = 0
          /\ RegisteredWaits[Ev(t)] # <<>>
      BY <1>3, <1>4, <1>5, <3>1, <3>2 DEF Types, Waits
    <3>6. ASSUME NEW w \in Wfmos
          PROVE  Cardinality(Missing(w)') = Cardinality(Missing(w))
      <4>1. IsFiniteSet(Regs(RegisteredWaits, Served, w))
        BY CountTypes DEF Counts, Missing
      <4>2. Cardinality(Regs(RegisteredWaits', Served', w)) = Cardinality(Regs(RegisteredWaits, Served, w))
        BY <1>3, <3>3, <3>5, <4>1, FrontGone
      <4> QED
        BY <4>2 DEF Missing
    <3> QED
      BY <3>4, <3>6
  <2>2. CASE Ev(t) \notin AutoReset
    <3>1. /\ RegisteredWaits' = RegisteredWaits /\ Mutex' = Mutex
          /\ i' = [i EXCEPT ![t] = @ + 1] /\ pc'[t] = "set.next"
      BY <2>2 DEF SetRelease, Pass, Goto, Types
    <3>2. i'[t] = i[t] + 1
      BY <3>1 DEF Types
    <3>3. Passed' = [Passed EXCEPT ![Ev(t)] = i[t] + 1] /\ Served' = [Served EXCEPT ![Ev(t)] = i[t] + 1]
      BY <1>1, <1>2, <3>1, <3>2, ServerCounts
    <3>4. Served' = Served /\ Passed' = [Passed EXCEPT ![Ev(t)] = @ + 1]
      BY <1>5, <1>6, <3>3
    <3>5. Passes(RegisteredWaits, Passed, RegisteredWaits', Passed', Ev(t))
      BY <1>3, <1>5, <1>6, <3>1, <3>4 DEF Passes, Types, Waits
    <3>6. \A w \in Wfmos : Cardinality(Missing(w)') = Cardinality(Missing(w))
      BY <3>1, <3>4 DEF Missing
    <3> QED
      BY <3>5, <3>6
  <2> QED
    BY <2>1, <2>2
<1>8. ASSUME NEW w \in Wfmos
      PROVE  /\ RegisteredWaits' \in [Events -> Seq(Registrations)]
             /\ IsFiniteSet(Owed(w)') /\ Cardinality(Owed(w)') \in Nat
             /\ Cardinality(Owed(w)') = Cardinality(Owed(w)) - (IF w = Waiter(t) THEN 1 ELSE 0)
             /\ \A p \in Owed(w)' : \E q \in Owed(w) : q[1] = p[1]
             /\ Cardinality(Missing(w)) \in Nat
  BY <1>1, <1>2, <1>7, OwedOne, CountTypes DEF Counts
<1>9. /\ \A w \in Wfmos \ {Waiter(t)} : wfmo'[w] = wfmo[w]
      /\ wfmo'[Waiter(t)] = [wfmo[Waiter(t)] EXCEPT !.RefCount = @ - 1]
      /\ wfmo[Waiter(t)] \in Wfmo
  BY <1>1, <1>4 DEF Unref, Types
<1>10. Gives(t, Waiter(t), 1, 0)
  <2> DEFINE v == Waiter(t)
  <2>1. \A w \in Wfmos :
          /\ IsFiniteSet(Owed(w)')
          /\ Cardinality(Owed(w)') = Cardinality(Owed(w)) - (IF w = v THEN 1 ELSE 0)
          /\ Cardinality(Missing(w)') = Cardinality(Missing(w)) - (IF w = v THEN 0 ELSE 0)
          /\ Cardinality(Owed(w)') \in Nat /\ Cardinality(Missing(w)') \in Nat
          /\ \A p \in Owed(w)' : \E q \in Owed(w) : q[1] = p[1]
    BY <1>7, <1>8
  <2>2. /\ v \in Wfmos
        /\ \A w \in Wfmos \ {v} : wfmo'[w] = wfmo[w]
        /\ wfmo'[v].WaitAll = wfmo[v].WaitAll
        /\ wfmo'[v].RefCount = wfmo[v].RefCount - 1
        /\ wfmo'[v].StillWaiting = wfmo[v].StillWaiting
        /\ wfmo'[v].Status = wfmo[v].Status - 0
        /\ wfmo'[v].Status = wfmo[v].Status
    BY <1>4, <1>9 DEF Wfmo
  <2> HIDE DEF v
  <2> QED
    BY <1>1, <1>3, <2>1, <2>2 DEF Gives, v
<1>11. wfmo' \in [Wfmos -> Wfmo]
  BY <1>1, <1>4, <1>8, UnrefType DEF Counts
<1> QED
  BY <1>1, <1>4, <1>8, <1>10, <1>11, GivesCounts, TypesKept, ControlKept

-----------------------------------------------------------------------------
(* The counts under the steps of WaitForMultipleEvents and DestroyEvent.   *)

(* A wfmo object the step has nothing to do with, except that registrations*)
(* of it may be dropped when it is waited for no longer.                   *)
Keeps(v) ==
  /\ wfmo'[v].WaitAll = wfmo[v].WaitAll /\ wfmo'[v].StillWaiting = wfmo[v].StillWaiting
  /\ wfmo'[v].Status = wfmo[v].Status /\ wfmo'[v].RefCount \in Int
  /\ IsFiniteSet(Owed(v)') /\ Cardinality(Owed(v)') \in Nat /\ Cardinality(Missing(v)') \in Nat
  /\ wfmo'[v].RefCount - Cardinality(Owed(v)') = wfmo[v].RefCount - Cardinality(Owed(v))
  /\ Cardinality(Missing(v)') =< Cardinality(Missing(v))
  /\ wfmo[v].StillWaiting => Cardinality(Missing(v)') = Cardinality(Missing(v))
  /\ \A p \in Owed(v)' : \E q \in Owed(v) : q[1] = p[1]

(* What the counts are to the owner of a wfmo object, and without one.     *)
OwnedBy(t, w) ==
  /\ IsFiniteSet(Owed(w))
  /\ wfmo[w].WaitAll = call[t].waitAll
  /\ pc[t] = "multi.register" => wfmo[w].StillWaiting
  /\ pc[t] = "multi.unref" => ~wfmo[w].StillWaiting
  /\ \A p \in Owed(w) : \E j \in 1 .. i[t] : j =< Count(t) /\ p[1] = call[t].events[j]
  /\ ~wfmo[w].WaitAll /\ wfmo[w].StillWaiting /\ pc[t] # "multi.done" => wfmo[w].Status = -1
  /\ wfmo[w].RefCount = Cardinality(Owed(w)) + 1 + skipped_refs[t] + Unvisited(t)
  /\ wfmo[w].WaitAll =>
       /\ wfmo[w].Status >= Cardinality(Missing(w)) + Unvisited(t)
       /\ wfmo[w].StillWaiting => wfmo[w].Status = Cardinality(Missing(w)) + Unvisited(t)
Unowned(w) ==
  /\ IsFiniteSet(Owed(w)) /\ ~wfmo[w].StillWaiting
  /\ wfmo[w].RefCount = Cardinality(Owed(w))
  /\ wfmo[w].WaitAll => wfmo[w].Status >= Cardinality(Missing(w))

LEMMA ToTheOwner ==
  ASSUME Counts, NEW t \in Threads, NEW w \in Wfmos, mine[t] = w
  PROVE  OwnedBy(t, w)
<1>1. w # NULL
  BY EventsAssumption
<1> QED
  BY <1>1 DEF Counts, Owned, Unfired, Balanced, Counted, OwnedBy, At

LEMMA WithoutOwner ==
  ASSUME Counts, NEW w \in Wfmos, \A t \in Threads : mine[t] # w
  PROVE  Unowned(w)
BY DEF Counts, Owned, Balanced, Counted, Unowned

(* A step of t that changes the counts of its own wfmo object w only.      *)
LEMMA OwnCounts ==
  ASSUME Types, Control, Counts, NEW t \in Threads, Moves(t), NEW w \in Wfmos \cup {NULL},
         mine[t] \in {w, NULL}, mine'[t] \in {w, NULL},
         \A u \in Threads \ {t} : mine[u] # w \/ w = NULL,
         \A v \in Wfmos \ {w} : Keeps(v),
         mine'[t] # NULL => OwnedBy(t, w)',
         w # NULL /\ mine'[t] = NULL =>
           Unowned(w)' /\ wfmo'[w].WaitAll = wfmo[w].WaitAll /\ Owed(w)' = Owed(w)
  PROVE  Counts'
<1>1. InCall /\ Frame(t) /\ Balanced
  BY DEF Control, Counts, Moves
<1>2. ASSUME NEW u \in Threads, u # t
      PROVE  /\ mine'[u] = mine[u] /\ pc'[u] = pc[u] /\ i'[u] = i[u] /\ call'[u] = call[u]
             /\ skipped_refs'[u] = skipped_refs[u]
             /\ Unvisited(u)' = Unvisited(u) /\ Count(u)' = Count(u)
             /\ mine[u] # NULL => Unvisited(u) \in Nat /\ skipped_refs[u] \in Nat
  <2>1. /\ mine'[u] = mine[u] /\ pc'[u] = pc[u] /\ i'[u] = i[u] /\ call'[u] = call[u]
        /\ skipped_refs'[u] = skipped_refs[u]
    BY <1>1, <1>2 DEF Frame
  <2>2. mine[u] # NULL => Unvisited(u) \in Nat /\ skipped_refs[u] \in Nat
    BY <1>1, MultiCall DEF InCall, CallOf
  <2> QED
    BY <2>1, <2>2 DEF Unvisited, Count
<1>3. ASSUME NEW v \in Wfmos
      PROVE  /\ wfmo[v].Status \in Int /\ wfmo[v].RefCount \in Int
             /\ Cardinality(Owed(v)) \in Nat /\ Cardinality(Missing(v)) \in Nat
  BY <1>1, CountTypes DEF Wfmo
<1>4. ASSUME NEW u \in Threads, NEW v \in Wfmos, mine'[u] = v
      PROVE  OwnedBy(u, v)'
  <2>1. v # NULL
    BY EventsAssumption
  <2>2. CASE u = t
    BY <1>4, <2>1, <2>2
  <2>3. CASE u # t
    <3>1. mine[u] = v /\ v # w
      BY <1>2, <1>4, <2>1, <2>3
    <3>2. OwnedBy(u, v) /\ Keeps(v)
      BY <3>1, ToTheOwner
    <3>3. /\ IsFiniteSet(Owed(v)')
          /\ wfmo'[v].WaitAll = call'[u].waitAll
          /\ pc'[u] = "multi.register" => wfmo'[v].StillWaiting
          /\ pc'[u] = "multi.unref" => ~wfmo'[v].StillWaiting
          /\ ~wfmo'[v].WaitAll /\ wfmo'[v].StillWaiting /\ pc'[u] # "multi.done" => wfmo'[v].Status = -1
      BY <1>2, <2>3, <3>2 DEF OwnedBy, Keeps
    <3>4. \A p \in Owed(v)' : \E j \in 1 .. i'[u] : j =< Count(u)' /\ p[1] = call'[u].events[j]
      BY <1>2, <2>3, <3>2 DEF OwnedBy, Keeps
    <3>5. /\ Unvisited(u)' = Unvisited(u) /\ skipped_refs'[u] = skipped_refs[u]
          /\ Unvisited(u) \in Nat /\ skipped_refs[u] \in Nat
      BY <1>2, <2>1, <2>3, <3>1
    <3>6. wfmo'[v].RefCount = Cardinality(Owed(v)') + 1 + skipped_refs'[u] + Unvisited(u)'
      <4>1. wfmo[v].RefCount = Cardinality(Owed(v)) + 1 + skipped_refs[u] + Unvisited(u)
        BY <3>2 DEF OwnedBy
      <4>2. /\ wfmo'[v].RefCount \in Int /\ Cardinality(Owed(v)') \in Nat
            /\ wfmo'[v].RefCount - Cardinality(Owed(v)') = wfmo[v].RefCount - Cardinality(Owed(v))
        BY <3>2 DEF Keeps
      <4> QED
        BY <1>3, <3>5, <4>1, <4>2
    <3>7. wfmo'[v].WaitAll =>
            /\ wfmo'[v].Status >= Cardinality(Missing(v)') + Unvisited(u)'
            /\ wfmo'[v].StillWaiting => wfmo'[v].Status = Cardinality(Missing(v)') + Unvisited(u)'
      <4>1. wfmo[v].WaitAll =>
              /\ wfmo[v].Status >= Cardinality(Missing(v)) + Unvisited(u)
              /\ wfmo[v].StillWaiting => wfmo[v].Status = Cardinality(Missing(v)) + Unvisited(u)
        BY <3>2 DEF OwnedBy
      <4>2. /\ wfmo'[v].WaitAll = wfmo[v].WaitAll /\ wfmo'[v].StillWaiting = wfmo[v].StillWaiting
            /\ wfmo'[v].Status = wfmo[v].Status /\ Cardinality(Missing(v)') \in Nat
            /\ Cardinality(Missing(v)') =< Cardinality(Missing(v))
            /\ wfmo[v].StillWaiting => Cardinality(Missing(v)') = Cardinality(Missing(v))
        BY <3>2 DEF Keeps
      <4> QED
        BY <1>3, <3>5, <4>1, <4>2
    <3> QED
      BY <3>3, <3>4, <3>6, <3>7 DEF OwnedBy
  <2> QED
    BY <2>2, <2>3
<1>5. ASSUME NEW v \in Wfmos, \A u \in Threads : mine'[u] # v
      PROVE  Unowned(v)'
  <2>1. CASE v = w
    BY <1>5, <2>1, EventsAssumption
  <2>2. CASE v # w
    <3>1. \A u \in Threads : mine[u] # v
      BY <1>2, <1>5, <2>2, EventsAssumption
    <3>2. Unowned(v) /\ Keeps(v)
      BY <2>2, <3>1, WithoutOwner
    <3> QED
      BY <1>3, <3>2 DEF Unowned, Keeps
  <2> QED
    BY <2>1, <2>2
<1>6. \A u \in Threads : mine'[u] # NULL => mine'[u] \in Wfmos
  BY <1>1 DEF Frame
<1>7. Owned'
  <2>1. \A v \in Wfmos : wfmo'[v].StillWaiting => \E u \in Threads : mine'[u] = v
    BY <1>5 DEF Unowned
  <2> QED
    BY <1>4, <1>6, <2>1 DEF Owned, OwnedBy, At
<1>8. Unfired'
  BY <1>4, <1>6 DEF Unfired, OwnedBy
<1>9. Balanced'
  <2>1. \A v \in Wfmos : IsFiniteSet(Owed(v)')
    BY <1>4, <1>5 DEF OwnedBy, Unowned
  <2> QED
    BY <1>4, <1>5, <1>6, <2>1 DEF Balanced, OwnedBy, Unowned
<1>10. Counted'
  BY <1>4, <1>5, <1>6 DEF Counted, OwnedBy, Unowned
<1> QED
  BY <1>7, <1>8, <1>9, <1>10 DEF Counts

LEMMA KeepsSame ==
  ASSUME Types, Control, Counts, NEW v \in Wfmos, wfmo'[v] = wfmo[v],
         Owed(v)' = Owed(v), Missing(v)' = Missing(v)
  PROVE  Keeps(v)
<1>1. /\ IsFiniteSet(Owed(v)) /\ Cardinality(Owed(v)) \in Nat /\ Cardinality(Missing(v)) \in Nat
      /\ wfmo[v] \in Wfmo
  BY CountTypes DEF Counts
<1> QED
  BY <1>1 DEF Keeps, Wfmo

LEMMA MultiDoneKeeps ==
  ASSUME Types, Control, Counts, NEW t \in Threads, MultiDone(t)
  PROVE  Types' /\ Control' /\ Counts'
<1>1. Moves(t) /\ Frame(t) /\ pc[t] = "multi.done"
  BY MultiDoneMoves DEF MultiDone, At, Moves
<1>2. /\ RegisteredWaits' = RegisteredWaits /\ call' = call /\ i' = i
      /\ skipped_refs' = skipped_refs
      /\ mine' = mine /\ pc'[t] = "multi.unref"
      /\ wfmo' = [wfmo EXCEPT ![mine[t]].StillWaiting = FALSE]
  BY DEF MultiDone, threadVars, Goto, Types
<1>3. mine[t] \in Wfmos /\ mine[t] # NULL
  BY <1>1, MultiCall, EventsAssumption DEF Control, MultiPlaces, Holding
<1>4. \A w \in Wfmos : Owed(w)' = Owed(w) /\ Missing(w)' = Missing(w)
  <2>1. Passed' = Passed /\ Served' = Served
    BY <1>1, <1>2, HeldStill DEF Serving
  <2> QED
    BY <1>2, <2>1 DEF Owed, Missing
<1>5. wfmo' \in [Wfmos -> Wfmo]
  <2>1. wfmo \in [Wfmos -> Wfmo]
    BY DEF Types
  <2>2. [wfmo[mine[t]] EXCEPT !.StillWaiting = FALSE] \in Wfmo
    BY <1>3, <2>1 DEF Wfmo
  <2>3. wfmo' = [wfmo EXCEPT ![mine[t]] = [wfmo[mine[t]] EXCEPT !.StillWaiting = FALSE]]
    BY <1>2
  <2> QED
    BY <2>1, <2>2, <2>3
<1>6. ASSUME NEW w \in Wfmos, mine[t] = w
      PROVE  OwnedBy(t, w)'
  <2>1. OwnedBy(t, w)
    BY <1>6, ToTheOwner
  <2>2. /\ wfmo'[w].WaitAll = wfmo[w].WaitAll /\ wfmo'[w].RefCount = wfmo[w].RefCount
        /\ wfmo'[w].Status = wfmo[w].Status /\ wfmo'[w].StillWaiting = FALSE
    BY <1>2, <1>6 DEF Types, Wfmo
  <2>3. /\ Owed(w)' = Owed(w) /\ Missing(w)' = Missing(w) /\ Count(t)' = Count(t)
        /\ Unvisited(t) = 0 /\ Unvisited(t)' = 0
    BY <1>1, <1>2, <1>4 DEF Count, Unvisited
  <2> QED
    BY <1>2, <2>1, <2>2, <2>3 DEF OwnedBy
<1>7. \A v \in Wfmos : v # mine[t] => Keeps(v)
  BY <1>2, <1>4, KeepsSame DEF Types
<1>8. \A u \in Threads \ {t} : mine[u] # mine[t]
  BY <1>3 DEF Control, OneOwner
<1>9. ASSUME NEW w \in Wfmos, mine[t] = w
      PROVE  Counts'
  BY <1>1, <1>2, <1>3, <1>6, <1>7, <1>8, <1>9, OwnCounts
<1> QED
  BY <1>1, <1>2, <1>3, <1>5, <1>9, TypesKept, ControlKept DEF Types

LEMMA MultiUnrefKeeps ==
  ASSUME Types, Control, Counts, NEW t \in Threads, MultiUnref(t)
  PROVE  Types' /\ Control' /\ Counts'
<1>1. Moves(t) /\ Frame(t) /\ pc[t] = "multi.unref"
  BY MultiUnrefMoves DEF MultiUnref, At, Moves
<1>2. /\ RegisteredWaits' = RegisteredWaits /\ mine'[t] = NULL /\ pc'[t] = "idle"
      /\ wfmo' = Unref(wfmo, mine[t], 1 + skipped_refs[t])
  BY DEF MultiUnref, Goto, Return, Types
<1>3. mine[t] \in Wfmos /\ mine[t] # NULL /\ skipped_refs[t] \in Nat
  BY <1>1, MultiCall, EventsAssumption DEF Control, MultiPlaces, Holding
<1>4. \A w \in Wfmos : Owed(w)' = Owed(w) /\ Missing(w)' = Missing(w)
  <2>1. Passed' = Passed /\ Served' = Served
    BY <1>1, <1>2, HeldStill DEF Serving
  <2> QED
    BY <1>2, <2>1 DEF Owed, Missing
<1>5. ASSUME NEW w \in Wfmos, mine[t] = w
      PROVE  Unowned(w)' /\ wfmo'[w].WaitAll = wfmo[w].WaitAll /\ wfmo' \in [Wfmos -> Wfmo]
  <2>1. OwnedBy(t, w) /\ Unvisited(t) = 0
    BY <1>1, <1>5, ToTheOwner DEF Unvisited
  <2>2. /\ Cardinality(Owed(w)) \in Nat /\ Cardinality(Missing(w)) \in Nat /\ wfmo[w] \in Wfmo
    BY CountTypes DEF Counts
  <2>3. wfmo[w].RefCount = Cardinality(Owed(w)) + 1 + skipped_refs[t]
    BY <2>1, <2>2, <1>3 DEF OwnedBy
  <2>4. wfmo[w].RefCount - (1 + skipped_refs[t]) = Cardinality(Owed(w))
    BY <2>2, <2>3, <1>3
  <2>5. wfmo' = [wfmo EXCEPT ![w].RefCount = Cardinality(Owed(w))]
    BY <1>2, <1>5, <2>4 DEF Unref
  <2>6. /\ wfmo'[w].WaitAll = wfmo[w].WaitAll /\ wfmo'[w].RefCount = Cardinality(Owed(w))
        /\ wfmo'[w].Status = wfmo[w].Status /\ wfmo'[w].StillWaiting = wfmo[w].StillWaiting
    BY <2>2, <2>5 DEF Types, Wfmo
  <2>7. wfmo' \in [Wfmos -> Wfmo]
    BY <2>2, <2>5 DEF Types, Wfmo
  <2>8. wfmo[w].WaitAll => wfmo[w].Status >= Cardinality(Missing(w))
    BY <2>1, <2>2 DEF OwnedBy, Wfmo
  <2> QED
    BY <1>1, <1>4, <2>1, <2>6, <2>7, <2>8 DEF Unowned, OwnedBy
<1>6. \A v \in Wfmos : v # mine[t] => Keeps(v)
  BY <1>2, <1>4, KeepsSame DEF Types, Unref
<1>7. \A u \in Threads \ {t} : mine[u] # mine[t]
  BY <1>3 DEF Control, OneOwner
<1>8. ASSUME NEW w \in Wfmos, mine[t] = w
      PROVE  Counts'
  BY <1>1, <1>2, <1>3, <1>4, <1>5, <1>6, <1>7, <1>8, OwnCounts
<1> QED
  BY <1>1, <1>2, <1>3, <1>5, <1>8, TypesKept, ControlKept DEF Types

LEMMA CallMultiKeeps ==
  ASSUME Types, Control, Counts, NEW t \in Threads, NEW c \in Calls[t], CallMulti(t, c)
  PROVE  Types' /\ Control' /\ Counts'
<1>1. Moves(t) /\ Frame(t) /\ pc[t] = "idle" /\ InCall /\ Balanced
  BY CallMultiMoves DEF CallMulti, Began, At, Moves, Counts, Control
<1>2. PICK w \in Wfmos :
        /\ wfmo[w].RefCount = 0 /\ wfmo' = [wfmo EXCEPT ![w] = NewWfmo(c)]
        /\ mine' = [mine EXCEPT ![t] = w]
  BY DEF CallMulti
<1>3. /\ RegisteredWaits' = RegisteredWaits /\ mine'[t] = w /\ pc'[t] = "multi.register"
      /\ i'[t] = 0 /\ call'[t] = c /\ skipped_refs' = skipped_refs /\ w # NULL
  BY <1>2, EventsAssumption DEF CallMulti, Began, Goto, Types
<1>4. mine[t] = NULL /\ skipped_refs[t] = 0
  BY <1>1 DEF InCall, CallOf, MultiPlaces, Holding
<1>5. c.events \in Seq(Events) /\ c.waitAll \in BOOLEAN /\ Len(c.events) \in Nat
  BY EventsAssumption DEF CallMulti, Call
<1>6. \A v \in Wfmos : Owed(v)' = Owed(v) /\ Missing(v)' = Missing(v)
  <2>1. Passed' = Passed /\ Served' = Served
    BY <1>1, <1>3, HeldStill DEF Serving
  <2> QED
    BY <1>3, <2>1 DEF Owed, Missing
<1>7. NewWfmo(c) \in Wfmo /\ wfmo' \in [Wfmos -> Wfmo] /\ wfmo'[w] = NewWfmo(c)
  <2>1. (IF c.waitAll THEN Len(c.events) ELSE -1) \in Nat \cup {-1} /\ 1 + Len(c.events) \in Nat
    BY <1>5
  <2>2. NewWfmo(c) \in Wfmo
    BY <1>5, <2>1 DEF NewWfmo, Wfmo
  <2> QED
    BY <1>2, <2>2 DEF Types
<1>8. Owed(w) = {} /\ Missing(w) = {} /\ \A u \in Threads : mine[u] # w
  BY <1>1, <1>2, Fresh, CountTypes
<1>9. IsFiniteSet({}) /\ Cardinality({}) = 0
  BY FS_EmptySet
<1>10. Count(t)' = Len(c.events) /\ Unvisited(t)' = Len(c.events)
  BY <1>3, <1>5 DEF Unvisited, Count
<1>11. OwnedBy(t, w)'
  <2>1. /\ wfmo'[w].WaitAll = c.waitAll /\ wfmo'[w].StillWaiting
        /\ wfmo'[w].RefCount = 1 + Len(c.events)
        /\ wfmo'[w].Status = IF c.waitAll THEN Len(c.events) ELSE -1
    BY <1>7 DEF NewWfmo
  <2>2. Owed(w)' = {} /\ Cardinality(Owed(w)') = 0 /\ Cardinality(Missing(w)') = 0
    BY <1>6, <1>8, <1>9
  <2> QED
    BY <1>3, <1>4, <1>5, <1>9, <1>10, <2>1, <2>2 DEF OwnedBy
<1>12. \A v \in Wfmos \ {w} : Keeps(v)
  BY <1>2, <1>6, KeepsSame DEF Types
<1>13. Counts'
  BY <1>1, <1>3, <1>4, <1>8, <1>11, <1>12, OwnCounts
<1> QED
  BY <1>1, <1>3, <1>7, <1>13, TypesKept, ControlKept DEF Types

(* What RemoveExpiredWaitHelper leaves of the objects and of the queues.   *)
Intact(v, objects, waits) ==
  /\ objects[v] \in Wfmo
  /\ objects[v].WaitAll = wfmo[v].WaitAll /\ objects[v].StillWaiting = wfmo[v].StillWaiting
  /\ objects[v].Status = wfmo[v].Status
  /\ IsFiniteSet(Regs(waits, Passed, v)) /\ Cardinality(Regs(waits, Passed, v)) \in Nat
  /\ IsFiniteSet(Regs(waits, Served, v)) /\ Cardinality(Regs(waits, Served, v)) \in Nat
  /\ objects[v].RefCount - Cardinality(Regs(waits, Passed, v)) =
       wfmo[v].RefCount - Cardinality(Owed(v))
  /\ Cardinality(Regs(waits, Served, v)) =< Cardinality(Missing(v))
  /\ wfmo[v].StillWaiting => Cardinality(Regs(waits, Served, v)) = Cardinality(Missing(v))
  /\ \A p \in Regs(waits, Passed, v) : \E q \in Owed(v) : q[1] = p[1]

LEMMA IntactSelf ==
  ASSUME Types, Control, Counts, NEW v \in Wfmos
  PROVE  Intact(v, wfmo, RegisteredWaits)
<1>1. /\ IsFiniteSet(Owed(v)) /\ Cardinality(Owed(v)) \in Nat
      /\ IsFiniteSet(Missing(v)) /\ Cardinality(Missing(v)) \in Nat /\ wfmo[v] \in Wfmo
  BY CountTypes DEF Counts
<1> QED
  BY <1>1 DEF Intact, Owed, Missing, Wfmo

LEMMA IntactKeeps ==
  ASSUME NEW v \in Wfmos, Passed' = Passed, Served' = Served, Intact(v, wfmo', RegisteredWaits')
  PROVE  Keeps(v)
BY DEF Intact, Keeps, Owed, Missing, Wfmo

(* The registrations of v with e that are removed, and those that are left.*)
LEMMA Cleaning ==
  ASSUME Types, NEW e \in Events, NEW v \in Wfmos
  PROVE  /\ Remaining(e) \in Seq(Registrations)
         /\ IsFiniteSet(After(Remaining(e), 0, v)) /\ Cardinality(After(Remaining(e), 0, v)) \in Nat
         /\ IsFiniteSet(Expired(e, v)) /\ Cardinality(Expired(e, v)) \in Nat
         /\ Cardinality(After(Remaining(e), 0, v)) + Cardinality(Expired(e, v)) =
              Cardinality(After(RegisteredWaits[e], 0, v))
         /\ wfmo[v].StillWaiting => Cardinality(Expired(e, v)) = 0
         /\ After(Remaining(e), 0, v) # {} => After(RegisteredWaits[e], 0, v) # {}
<1> DEFINE s == RegisteredWaits[e]
           K == Kept(e)
<1>1. s \in Seq(Registrations) /\ DOMAIN s = 1 .. Len(s) /\ K \subseteq DOMAIN s
  BY DEF Types, Kept
<1>2. Remaining(e) = Picked(s, K)
  BY DEF Remaining, Picked
<1>3. /\ Picked(s, K) \in Seq(Registrations)
      /\ Cardinality(After(Picked(s, K), 0, v)) = Cardinality({k \in K : s[k].Waiter = v})
  BY <1>1, PickedCount
<1>4. IsFiniteSet(After(Remaining(e), 0, v)) /\ Cardinality(After(Remaining(e), 0, v)) \in Nat
  BY <1>2, <1>3, AfterFinite
<1>5. IsFiniteSet(After(s, 0, v)) /\ Cardinality(After(s, 0, v)) \in Nat
  BY <1>1, AfterFinite
<1>6. After(s, 0, v) = {k \in DOMAIN s : s[k].Waiter = v}
  BY <1>1 DEF After
<1>7. IsFiniteSet({}) /\ Cardinality({}) = 0
  BY FS_EmptySet
<1>8. CASE wfmo[v].StillWaiting
  <2>1. Expired(e, v) = {} /\ {k \in K : s[k].Waiter = v} = After(s, 0, v)
    BY <1>6, <1>8 DEF Expired, Waiting, Kept
  <2>2. Cardinality(After(Remaining(e), 0, v)) = Cardinality(After(s, 0, v))
    BY <1>2, <1>3, <2>1
  <2>3. After(Remaining(e), 0, v) # {} => After(s, 0, v) # {}
    BY <1>4, <1>5, <2>2, FS_EmptySet
  <2> QED
    BY <1>2, <1>3, <1>4, <1>5, <1>7, <2>1, <2>2, <2>3
<1>9. CASE ~wfmo[v].StillWaiting
  <2>1. Expired(e, v) = After(s, 0, v) /\ {k \in K : s[k].Waiter = v} = {}
    BY <1>6, <1>9 DEF Expired, Waiting, Kept
  <2>2. Cardinality(After(Remaining(e), 0, v)) = 0
    BY <1>2, <1>3, <1>7, <2>1
  <2>3. After(Remaining(e), 0, v) = {}
    BY <1>4, <2>2, FS_EmptySet
  <2> QED
    BY <1>2, <1>3, <1>4, <1>5, <1>7, <1>9, <2>1, <2>2, <2>3
<1> QED
  BY <1>8, <1>9

LEMMA IntactClean ==
  ASSUME Types, Control, Counts, NEW e \in Events, Mutex[e] = NULL, NEW v \in Wfmos
  PROVE  Intact(v, Cleaned(e), [RegisteredWaits EXCEPT ![e] = Remaining(e)])
<1> DEFINE waits == [RegisteredWaits EXCEPT ![e] = Remaining(e)]
           A == After(RegisteredWaits[e], 0, v)
           B == After(Remaining(e), 0, v)
           X == Expired(e, v)
<1>1. RegisteredWaits \in [Events -> Seq(Registrations)] /\ wfmo \in [Wfmos -> Wfmo]
  BY DEF Types
<1>2. Passed[e] = 0 /\ Served[e] = 0
  BY Holder DEF Control
<1>3. /\ Remaining(e) \in Seq(Registrations) /\ IsFiniteSet(B) /\ Cardinality(B) \in Nat
      /\ Cardinality(X) \in Nat /\ Cardinality(B) + Cardinality(X) = Cardinality(A)
      /\ wfmo[v].StillWaiting => Cardinality(X) = 0
      /\ B # {} => A # {}
  BY Cleaning
<1>4. waits[e] = Remaining(e) /\ \A f \in Events \ {e} : waits[f] = RegisteredWaits[f]
  BY <1>1
<1>5. /\ IsFiniteSet(Owed(v)) /\ Cardinality(Owed(v)) \in Nat
      /\ IsFiniteSet(Missing(v)) /\ Cardinality(Missing(v)) \in Nat
      /\ wfmo[v].RefCount >= Cardinality(Owed(v)) /\ wfmo[v] \in Wfmo
  BY CountTypes DEF Counts
<1>6. ASSUME NEW from, from[e] = 0, IsFiniteSet(Regs(RegisteredWaits, from, v))
      PROVE  /\ IsFiniteSet(Regs(waits, from, v)) /\ Cardinality(Regs(waits, from, v)) \in Nat
             /\ Cardinality(Regs(RegisteredWaits, from, v)) \in Nat
             /\ Cardinality(Regs(RegisteredWaits, from, v)) >= Cardinality(X)
             /\ Cardinality(Regs(waits, from, v)) =
                  Cardinality(Regs(RegisteredWaits, from, v)) - Cardinality(X)
  <2>1. After(RegisteredWaits[e], from[e], v) = A /\ After(waits[e], from[e], v) = B
    BY <1>4, <1>6
  <2>2. IsFiniteSet(After(waits[e], from[e], v))
    BY <1>3, <2>1
  <2>3. /\ IsFiniteSet(Regs(waits, from, v)) /\ Cardinality(Regs(waits, from, v)) \in Nat
        /\ Cardinality(Regs(RegisteredWaits, from, v)) >= Cardinality(After(RegisteredWaits[e], from[e], v))
        /\ Cardinality(Regs(waits, from, v)) =
             Cardinality(Regs(RegisteredWaits, from, v))
               - Cardinality(After(RegisteredWaits[e], from[e], v)) + Cardinality(After(waits[e], from[e], v))
    <3> HIDE DEF waits, A, B, X
    <3> QED
      BY <1>4, <1>6, <2>2, RegsChange
  <2>4. Cardinality(Regs(RegisteredWaits, from, v)) \in Nat
    BY <1>6, FS_CardinalityType
  <2> HIDE DEF waits, A, B, X
  <2> QED
    BY <1>3, <2>1, <2>3, <2>4
<1>7. /\ IsFiniteSet(Regs(waits, Passed, v)) /\ Cardinality(Regs(waits, Passed, v)) \in Nat
      /\ Cardinality(Owed(v)) >= Cardinality(X)
      /\ Cardinality(Regs(waits, Passed, v)) = Cardinality(Owed(v)) - Cardinality(X)
  <2> HIDE DEF waits, X
  <2> QED
    BY <1>2, <1>5, <1>6 DEF Owed
<1>8. /\ IsFiniteSet(Regs(waits, Served, v)) /\ Cardinality(Regs(waits, Served, v)) \in Nat
      /\ Cardinality(Regs(waits, Served, v)) = Cardinality(Missing(v)) - Cardinality(X)
  <2> HIDE DEF waits, X
  <2> QED
    BY <1>2, <1>5, <1>6 DEF Missing
<1>9. ASSUME NEW p \in Regs(waits, Passed, v)
      PROVE  \E q \in Owed(v) : q[1] = p[1]
  <2> HIDE DEF waits, A, B, X
  <2>1. PICK f \in Events :
          \E k \in DOMAIN waits[f] : p = <<f, k>> /\ Passed[f] < k /\ waits[f][k].Waiter = v
    BY RegsMember
  <2>2. PICK k \in DOMAIN waits[f] : p = <<f, k>> /\ Passed[f] < k /\ waits[f][k].Waiter = v
    BY <2>1
  <2>3. \E l \in DOMAIN RegisteredWaits[f] : Passed[f] < l /\ RegisteredWaits[f][l].Waiter = v
    <3>1. CASE f # e
      BY <1>4, <2>2, <3>1
    <3>2. CASE f = e
      <4>1. k \in B
        BY <1>2, <1>4, <2>2, <3>2 DEF After, B
      <4>2. PICK l \in A : TRUE
        BY <1>3, <4>1
      <4> QED
        BY <1>2, <3>2, <4>2 DEF After, A
    <3> QED
      BY <3>1, <3>2
  <2>4. PICK l \in DOMAIN RegisteredWaits[f] : Passed[f] < l /\ RegisteredWaits[f][l].Waiter = v
    BY <2>3
  <2>5. <<f, l>> \in Owed(v)
    BY <2>4, RegsMember DEF Owed
  <2> QED
    BY <2>2, <2>5
<1>10. /\ Cleaned(e)[v] = [wfmo[v] EXCEPT !.RefCount = @ - Cardinality(X)]
       /\ Cleaned(e)[v] \in Wfmo
  <2>1. Cleaned(e)[v] = [wfmo[v] EXCEPT !.RefCount = @ - Cardinality(X)]
    BY DEF Cleaned
  <2>2. wfmo[v].RefCount - Cardinality(X) \in Nat
    <3> HIDE DEF X
    <3> QED
      BY <1>3, <1>5, <1>7 DEF Wfmo
  <2> HIDE DEF X
  <2> QED
    BY <1>5, <2>1, <2>2 DEF Wfmo
<1> HIDE DEF X, A, B, waits
<1>11. /\ Cleaned(e)[v].WaitAll = wfmo[v].WaitAll
       /\ Cleaned(e)[v].StillWaiting = wfmo[v].StillWaiting
       /\ Cleaned(e)[v].Status = wfmo[v].Status
       /\ Cleaned(e)[v].RefCount = wfmo[v].RefCount - Cardinality(X) /\ wfmo[v].RefCount \in Nat
  BY <1>5, <1>10 DEF Wfmo
<1>12. Intact(v, Cleaned(e), waits)
  BY <1>3, <1>5, <1>7, <1>8, <1>9, <1>10, <1>11 DEF Intact
<1> QED
  BY <1>12 DEF waits

(* Nobody waits for an event that is destroyed.                            *)
LEMMA DestroyEventKeeps ==
  ASSUME Types, Control, Counts, NEW t \in Threads, NEW c \in Calls[t], DestroyEvent(t, c)
  PROVE  Types' /\ Control' /\ Counts'
<1>1. Moves(t) /\ Frame(t) /\ pc[t] = "idle" /\ InCall /\ Locks /\ Owned
  BY DestroyEventMoves DEF DestroyEvent, At, Moves, Counts, Control
<1>2. /\ mine' = mine /\ pc' = pc /\ wfmo' = Cleaned(c.event)
      /\ RegisteredWaits' = [RegisteredWaits EXCEPT ![c.event] = <<>>]
      /\ \A u \in Threads : ~Uses(u, c.event)
  BY DEF DestroyEvent, threadVars
<1>3. mine[t] = NULL
  BY <1>1 DEF InCall, CallOf, MultiPlaces, Holding
<1>4. c.event \in Events
  BY EventsAssumption DEF DestroyEvent, Call
<1>5. Mutex[c.event] = NULL
  <2> SUFFICES ASSUME Mutex[c.event] # NULL
               PROVE  FALSE
    OBVIOUS
  <2>1. /\ Mutex[c.event] \in Threads /\ pc[Mutex[c.event]] \in Serving
        /\ Ev(Mutex[c.event]) = c.event
    BY <1>1, <1>4, Holder
  <2>2. pc[Mutex[c.event]] # "idle" /\ call[Mutex[c.event]].fn # "WaitForMultipleEvents"
    BY <1>1, <2>1 DEF InCall, CallOf, Serving, SetPlaces
  <2> QED
    BY <1>2, <2>1, <2>2 DEF Uses
<1>6. Kept(c.event) = {}
  <2> SUFFICES ASSUME NEW k \in DOMAIN RegisteredWaits[c.event],
                      wfmo[RegisteredWaits[c.event][k].Waiter].StillWaiting
               PROVE  FALSE
    BY DEF Kept, Waiting
  <2>1. RegisteredWaits[c.event] \in Seq(Registrations)
    BY <1>4 DEF Types
  <2>2. RegisteredWaits[c.event][k].Waiter \in Wfmos /\ k \in Nat \ {0}
    <3>1. RegisteredWaits[c.event][k] \in Registrations /\ k \in 1 .. Len(RegisteredWaits[c.event])
      BY <2>1
    <3> QED
      BY <2>1, <3>1 DEF Registrations
  <2>3. PICK u \in Threads : mine[u] = RegisteredWaits[c.event][k].Waiter
    BY <1>1, <2>2 DEF Owned
  <2>4. mine[u] # NULL /\ mine[u] \in Wfmos
    BY <2>2, <2>3, EventsAssumption
  <2>5. <<c.event, k>> \in Owed(mine[u])
    <3>1. Passed[c.event] = 0
      BY <1>1, <1>4, <1>5, Holder
    <3> QED
      BY <1>4, <2>2, <2>3, <3>1, RegsMember DEF Owed
  <2>6. PICK j \in 1 .. i[u] : j =< Count(u) /\ c.event = call[u].events[j]
    BY <1>1, <2>4, <2>5 DEF Owned
  <2>7. pc[u] \in MultiPlaces
    BY <1>1, <2>4 DEF InCall, CallOf
  <2>8. /\ call[u].events \in Seq(Events) /\ i[u] \in Nat /\ Count(u) \in Nat
        /\ call[u].fn = "WaitForMultipleEvents" /\ pc[u] # "idle"
    BY <1>1, <2>7, MultiCall DEF InCall, CallOf, MultiPlaces, Holding
  <2>9. c.event \in Range(call[u].events)
    BY <2>6, <2>8 DEF Range, Count
  <2> QED
    BY <1>2, <2>8, <2>9 DEF Uses
<1>7. Remaining(c.event) = <<>>
  <2>1. Cardinality(Kept(c.event)) = 0
    BY <1>6, FS_EmptySet
  <2>2. Remaining(c.event) \in Seq(Registrations) /\ DOMAIN Remaining(c.event) = 1 .. 0
    BY <1>4, <2>1, Cleaning DEF Remaining
  <2> QED
    BY <2>2, EmptySeq
<1>8. Passed' = Passed /\ Served' = Served
  BY <1>1, <1>2, HeldStill DEF Serving
<1>9. ASSUME NEW v \in Wfmos
      PROVE  Intact(v, wfmo', RegisteredWaits')
  BY <1>2, <1>4, <1>5, <1>7, IntactClean
<1>10. \A v \in Wfmos \ {NULL} : Keeps(v)
  BY <1>8, <1>9, IntactKeeps
<1>11. wfmo' \in [Wfmos -> Wfmo]
  BY <1>2, <1>9 DEF Intact, Cleaned
<1>12. RegisteredWaits' \in [Events -> Seq(Registrations)]
  BY <1>2, EmptySeq DEF Types
<1>13. Counts'
  BY <1>1, <1>2, <1>3, <1>10, OwnCounts
<1> QED
  BY <1>1, <1>11, <1>12, <1>13, TypesKept, ControlKept

(* A registration with e is added.                                         *)
Adds(waits, from, waits2, e, r) ==
  /\ waits \in [Events -> Seq(Registrations)] /\ e \in Events /\ from[e] = 0
  /\ r \in Registrations /\ waits2 = [waits EXCEPT ![e] = Append(@, r)]
LEMMA Appended ==
  ASSUME NEW waits, NEW from, NEW waits2, NEW e, NEW r, Adds(waits, from, waits2, e, r),
         NEW v, IsFiniteSet(Regs(waits, from, v))
  PROVE  /\ IsFiniteSet(Regs(waits2, from, v)) /\ Cardinality(Regs(waits2, from, v)) \in Nat
         /\ Cardinality(Regs(waits2, from, v)) =
              Cardinality(Regs(waits, from, v)) + (IF r.Waiter = v THEN 1 ELSE 0)
         /\ \A p \in Regs(waits2, from, v) :
              (\E q \in Regs(waits, from, v) : q[1] = p[1]) \/ (r.Waiter = v /\ p[1] = e)
<1> DEFINE A == After(waits[e], from[e], v)
           B == After(waits2[e], from[e], v)
           one == IF r.Waiter = v THEN 1 ELSE 0
<1>0. e \in Events
  BY DEF Adds
<1>1. /\ waits[e] \in Seq(Registrations) /\ waits2[e] = Append(waits[e], r) /\ r \in Registrations
      /\ from[e] = 0
  BY DEF Adds
<1>2. IsFiniteSet(B) /\ Cardinality(B) \in Nat /\ Cardinality(B) = Cardinality(A) + one
  BY <1>1, AfterAppend
<1>3. \A f \in Events \ {e} : waits2[f] = waits[f]
  BY DEF Adds
<1>4. Cardinality(A) \in Nat
  BY <1>1, AfterFinite
<1>5. /\ IsFiniteSet(Regs(waits2, from, v)) /\ Cardinality(Regs(waits2, from, v)) \in Nat
      /\ Cardinality(Regs(waits2, from, v)) =
           Cardinality(Regs(waits, from, v)) - Cardinality(A) + Cardinality(B)
  BY <1>0, <1>2, <1>3, RegsChange
<1>6. Cardinality(Regs(waits, from, v)) \in Nat
  BY FS_CardinalityType
<1>7. ASSUME NEW p \in Regs(waits2, from, v)
      PROVE  (\E q \in Regs(waits, from, v) : q[1] = p[1]) \/ (r.Waiter = v /\ p[1] = e)
  <2> HIDE DEF A, B, one
  <2>1. PICK f \in Events :
          \E k \in DOMAIN waits2[f] : p = <<f, k>> /\ from[f] < k /\ waits2[f][k].Waiter = v
    BY RegsMember
  <2>2. PICK k \in DOMAIN waits2[f] : p = <<f, k>> /\ from[f] < k /\ waits2[f][k].Waiter = v
    BY <2>1
  <2>3. \/ k \in DOMAIN waits[f] /\ waits2[f][k] = waits[f][k]
        \/ f = e /\ waits2[f][k] = r
    <3>1. CASE f = e
      BY <1>1, <2>2, <3>1
    <3>2. CASE f # e
      BY <1>3, <2>2, <3>2
    <3> QED
      BY <3>1, <3>2
  <2>4. ASSUME k \in DOMAIN waits[f], waits2[f][k] = waits[f][k]
        PROVE  <<f, k>> \in Regs(waits, from, v)
    BY <2>2, <2>4, RegsMember
  <2> QED
    BY <2>2, <2>3, <2>4
<1>8. one \in Nat
  OBVIOUS
<1> HIDE DEF A, B, one
<1>9. Cardinality(Regs(waits2, from, v)) = Cardinality(Regs(waits, from, v)) + one
  BY <1>2, <1>4, <1>5, <1>6, <1>8
<1> QED
  BY <1>5, <1>7, <1>9 DEF one

(* What WaitForMultipleEvents does about the event it has come to, after   *)
(* the expired registrations with it are removed.                          *)
Own(t) == [Waiter |-> mine[t], WaitIndex |-> i[t]]
Registers(t, objects, waits) ==
  /\ Adds(waits, Passed, RegisteredWaits', CurrentEvent(t), Own(t))
  /\ Adds(waits, Served, RegisteredWaits', CurrentEvent(t), Own(t))
  /\ wfmo' = objects /\ skipped_refs' = skipped_refs
  /\ i'[t] = i[t] + 1 /\ pc' = pc
IsGiven(t, objects, waits) ==
  /\ RegisteredWaits' = waits /\ wfmo' = Given(objects, mine[t], i[t])
  /\ IF call[t].waitAll
     THEN skipped_refs'[t] = skipped_refs[t] + 1 /\ i'[t] = i[t] + 1 /\ pc' = pc
     ELSE /\ skipped_refs'[t] = skipped_refs[t] + NotRegistered(t)
          /\ i'[t] = i[t] /\ pc'[t] = "multi.done"

LEMMA MultiRegisterEffect ==
  ASSUME Types, Control, Counts, NEW t \in Threads, MultiRegister(t)
  PROVE  \E objects \in [Wfmos -> Wfmo], waits \in [Events -> Seq(Registrations)] :
           /\ \A v \in Wfmos : Intact(v, objects, waits)
           /\ Registers(t, objects, waits) \/ IsGiven(t, objects, waits)
<1> DEFINE e == CurrentEvent(t)
<1>1. pc[t] = "multi.register" /\ i[t] < Count(t)
  BY DEF MultiRegister, At
<1>2. e \in Events /\ mine[t] \in Wfmos /\ i[t] \in Nat /\ skipped_refs[t] \in Nat
  BY <1>1, MultiCall DEF Control, MultiPlaces, Holding
<1>3. PICK skipLock \in {FALSE, e \notin AutoReset /\ State[e]} :
        /\ skipLock \/ IsFree(e)
        /\ IF State[e]
           THEN /\ RegisteredWaits' = [RegisteredWaits EXCEPT ![e] =
                                         IF skipLock THEN RegisteredWaits[e] ELSE Remaining(e)]
                /\ wfmo' = Given(IF skipLock THEN wfmo ELSE Cleaned(e), mine[t], i[t])
                /\ IF call[t].waitAll
                   THEN /\ skipped_refs' = [skipped_refs EXCEPT ![t] = @ + 1]
                        /\ i' = [i EXCEPT ![t] = @ + 1]
                        /\ UNCHANGED pc
                   ELSE /\ skipped_refs' = [skipped_refs EXCEPT ![t] = @ + NotRegistered(t)]
                        /\ Goto(t, "multi.done")
                        /\ UNCHANGED i
           ELSE /\ RegisteredWaits' = [RegisteredWaits EXCEPT ![e] =
                                         Append(IF skipLock THEN RegisteredWaits[e] ELSE Remaining(e), Own(t))]
                /\ wfmo' = IF skipLock THEN wfmo ELSE Cleaned(e)
                /\ i' = [i EXCEPT ![t] = @ + 1]
                /\ UNCHANGED <<State, skipped_refs, pc>>
  BY DEF MultiRegister, Own
<1> DEFINE objects == IF skipLock THEN wfmo ELSE Cleaned(e)
           waits == [RegisteredWaits EXCEPT ![e] = IF skipLock THEN RegisteredWaits[e] ELSE Remaining(e)]
<1>4. ASSUME NEW v \in Wfmos
      PROVE  Intact(v, objects, waits)
  <2>1. CASE skipLock
    <3>1. objects = wfmo /\ waits = RegisteredWaits
      BY <2>1 DEF Types
    <3> QED
      BY <3>1, IntactSelf
  <2>2. CASE ~skipLock
    <3>1. objects = Cleaned(e) /\ waits = [RegisteredWaits EXCEPT ![e] = Remaining(e)] /\ Mutex[e] = NULL
      BY <1>3, <2>2 DEF IsFree
    <3> QED
      BY <1>2, <3>1, IntactClean
  <2> QED
    BY <2>1, <2>2
<1>5. objects \in [Wfmos -> Wfmo]
  <2>1. objects = [v \in Wfmos |-> objects[v]]
    BY DEF Types, Cleaned
  <2>2. \A v \in Wfmos : objects[v] \in Wfmo
    BY <1>4 DEF Intact
  <2> HIDE DEF objects
  <2> QED
    BY <2>1, <2>2
<1>6. waits \in [Events -> Seq(Registrations)]
  <2>1. mine[t] \in Wfmos /\ Remaining(e) \in Seq(Registrations)
    BY <1>2, Cleaning
  <2> QED
    BY <2>1 DEF Types
<1>7. CASE State[e]
  <2>1. /\ RegisteredWaits' = waits /\ wfmo' = Given(objects, mine[t], i[t])
        /\ IF call[t].waitAll
           THEN skipped_refs'[t] = skipped_refs[t] + 1 /\ i'[t] = i[t] + 1 /\ pc' = pc
           ELSE /\ skipped_refs'[t] = skipped_refs[t] + NotRegistered(t)
                /\ i'[t] = i[t] /\ pc'[t] = "multi.done"
    BY <1>3, <1>7 DEF Types, Goto
  <2>2. IsGiven(t, objects, waits)
    BY <2>1 DEF IsGiven
  <2> QED
    BY <1>4, <1>5, <1>6, <2>2
<1>8. CASE ~State[e]
  <2>1. /\ RegisteredWaits' = [RegisteredWaits EXCEPT ![e] = Append(waits[e], Own(t))]
        /\ wfmo' = objects /\ skipped_refs' = skipped_refs /\ i'[t] = i[t] + 1 /\ pc' = pc
        /\ Mutex[e] = NULL
    BY <1>2, <1>3, <1>8 DEF Types, IsFree
  <2>2. RegisteredWaits' = [waits EXCEPT ![e] = Append(@, Own(t))]
    BY <1>2, <2>1 DEF Types
  <2>3. Passed[e] = 0 /\ Served[e] = 0
    BY <1>2, <2>1, Holder DEF Control
  <2>4. Own(t) \in Registrations
    BY <1>2 DEF Own, Registrations
  <2> HIDE DEF e, objects, waits
  <2>5. Adds(waits, Passed, RegisteredWaits', e, Own(t)) /\ Adds(waits, Served, RegisteredWaits', e, Own(t))
    BY <1>2, <1>6, <2>2, <2>3, <2>4 DEF Adds
  <2>6. Registers(t, objects, waits)
    BY <2>1, <2>5 DEF Registers, e
  <2> QED
    BY <1>4, <1>5, <1>6, <2>6
<1> QED
  BY <1>7, <1>8

LEMMA RegistersKeeps ==
  ASSUME Types, Control, Counts, NEW t \in Threads, Moves(t), pc[t] = "multi.register", i[t] < Count(t),
         mine' = mine, call' = call, Passed' = Passed, Served' = Served,
         NEW objects \in [Wfmos -> Wfmo], NEW waits, \A v \in Wfmos : Intact(v, objects, waits),
         Registers(t, objects, waits), NEW w \in Wfmos, mine[t] = w
  PROVE  OwnedBy(t, w)' /\ \A v \in Wfmos \ {w} : Keeps(v)
<1>1. /\ i[t] \in Nat /\ Count(t) \in Nat /\ skipped_refs[t] \in Nat
      /\ Unvisited(t) = Count(t) - i[t]
      /\ CurrentEvent(t) = call[t].events[i[t] + 1]
  BY MultiCall DEF Control, MultiPlaces, Holding, Unvisited, CurrentEvent
<1>2. /\ wfmo' = objects /\ skipped_refs' = skipped_refs /\ i'[t] = i[t] + 1 /\ pc' = pc
      /\ Adds(waits, Passed, RegisteredWaits', CurrentEvent(t), Own(t))
      /\ Adds(waits, Served, RegisteredWaits', CurrentEvent(t), Own(t))
      /\ Own(t).Waiter = w
  BY DEF Registers, Own
<1>3. Count(t)' = Count(t) /\ Unvisited(t)' = Count(t) - (i[t] + 1)
  BY <1>2 DEF Unvisited, Count
<1>4. ASSUME NEW v \in Wfmos
      PROVE  /\ IsFiniteSet(Owed(v)') /\ Cardinality(Owed(v)') \in Nat
             /\ Cardinality(Missing(v)') \in Nat
             /\ Cardinality(Owed(v)') = Cardinality(Regs(waits, Passed, v)) + (IF w = v THEN 1 ELSE 0)
             /\ Cardinality(Missing(v)') = Cardinality(Regs(waits, Served, v)) + (IF w = v THEN 1 ELSE 0)
             /\ \A p \in Owed(v)' : (\E q \in Owed(v) : q[1] = p[1]) \/ (w = v /\ p[1] = CurrentEvent(t))
             /\ Intact(v, objects, waits)
  <2>1. Intact(v, objects, waits)
    OBVIOUS
  <2>2. /\ IsFiniteSet(Regs(waits, Passed, v)) /\ IsFiniteSet(Regs(waits, Served, v))
        /\ \A p \in Regs(waits, Passed, v) : \E q \in Owed(v) : q[1] = p[1]
    BY <2>1 DEF Intact
  <2>3. /\ IsFiniteSet(Regs(RegisteredWaits', Passed, v))
        /\ Cardinality(Regs(RegisteredWaits', Passed, v)) \in Nat
        /\ Cardinality(Regs(RegisteredWaits', Passed, v)) =
             Cardinality(Regs(waits, Passed, v)) + (IF Own(t).Waiter = v THEN 1 ELSE 0)
    BY <1>2, <2>2, Appended
  <2>4. \A p \in Regs(RegisteredWaits', Passed, v) :
          (\E q \in Regs(waits, Passed, v) : q[1] = p[1]) \/ (Own(t).Waiter = v /\ p[1] = CurrentEvent(t))
    BY <1>2, <2>2, Appended
  <2>5. /\ Cardinality(Regs(RegisteredWaits', Served, v)) \in Nat
        /\ Cardinality(Regs(RegisteredWaits', Served, v)) =
             Cardinality(Regs(waits, Served, v)) + (IF Own(t).Waiter = v THEN 1 ELSE 0)
    BY <1>2, <2>2, Appended
  <2>6. Owed(v)' = Regs(RegisteredWaits', Passed, v) /\ Missing(v)' = Regs(RegisteredWaits', Served, v)
    BY DEF Owed, Missing
  <2>7. \A p \in Owed(v)' : (\E q \in Owed(v) : q[1] = p[1]) \/ (w = v /\ p[1] = CurrentEvent(t))
    BY <1>2, <2>2, <2>4, <2>6
  <2> QED
    BY <1>2, <2>1, <2>3, <2>5, <2>6, <2>7
<1>5. ASSUME NEW v \in Wfmos \ {w}
      PROVE  Keeps(v)
  <2>1. /\ Cardinality(Owed(v)') = Cardinality(Regs(waits, Passed, v))
        /\ Cardinality(Missing(v)') = Cardinality(Regs(waits, Served, v))
        /\ \A p \in Owed(v)' : \E q \in Owed(v) : q[1] = p[1]
        /\ IsFiniteSet(Owed(v)') /\ Cardinality(Owed(v)') \in Nat
        /\ Cardinality(Missing(v)') \in Nat
        /\ Intact(v, objects, waits)
    BY <1>4 DEF Intact
  <2> QED
    BY <1>2, <2>1 DEF Intact, Keeps, Wfmo
<1>6. OwnedBy(t, w)'
  <2>1. OwnedBy(t, w)
    BY ToTheOwner
  <2>2. /\ wfmo'[w].WaitAll = wfmo[w].WaitAll /\ wfmo'[w].StillWaiting = wfmo[w].StillWaiting
        /\ wfmo'[w].Status = wfmo[w].Status /\ wfmo'[w].RefCount \in Nat /\ wfmo'[w].Status \in Int
        /\ wfmo[w].RefCount \in Nat
    BY <1>2, <1>4 DEF Intact, Wfmo, Types
  <2>3. /\ Cardinality(Owed(w)) \in Nat /\ Cardinality(Missing(w)) \in Nat
    BY CountTypes DEF Counts
  <2>4. wfmo'[w].RefCount = Cardinality(Owed(w)') + 1 + skipped_refs[t] + (Count(t) - (i[t] + 1))
    <3>1. wfmo'[w].RefCount - Cardinality(Regs(waits, Passed, w)) = wfmo[w].RefCount - Cardinality(Owed(w))
      BY <1>2, <1>4 DEF Intact
    <3>2. Cardinality(Owed(w)') = Cardinality(Regs(waits, Passed, w)) + 1
      BY <1>4
    <3>3. Cardinality(Regs(waits, Passed, w)) \in Nat
      BY <1>4 DEF Intact
    <3>4. wfmo[w].RefCount = Cardinality(Owed(w)) + 1 + skipped_refs[t] + (Count(t) - i[t])
      BY <1>1, <2>1 DEF OwnedBy
    <3> QED
      BY <1>1, <2>2, <2>3, <3>1, <3>2, <3>3, <3>4
  <2>5. wfmo[w].StillWaiting
    BY <2>1 DEF OwnedBy
  <2>6. wfmo[w].WaitAll => wfmo'[w].Status = Cardinality(Missing(w)') + (Count(t) - (i[t] + 1))
    <3>1. Cardinality(Regs(waits, Served, w)) = Cardinality(Missing(w))
      BY <1>4, <2>5 DEF Intact
    <3>2. Cardinality(Missing(w)') = Cardinality(Regs(waits, Served, w)) + 1
      BY <1>4
    <3>3. wfmo[w].WaitAll => wfmo[w].Status = Cardinality(Missing(w)) + (Count(t) - i[t])
      BY <1>1, <2>1, <2>5 DEF OwnedBy
    <3> QED
      BY <1>1, <2>2, <2>3, <3>1, <3>2, <3>3
  <2>7. ASSUME NEW p \in Owed(w)'
        PROVE  \E j \in 1 .. i'[t] : j =< Count(t)' /\ p[1] = call'[t].events[j]
    <3>1. CASE \E q \in Owed(w) : q[1] = p[1]
      <4>1. PICK j \in 1 .. i[t] : j =< Count(t) /\ p[1] = call[t].events[j]
        BY <2>1, <3>1 DEF OwnedBy
      <4>2. j \in 1 .. i'[t]
        BY <1>1, <1>2
      <4> QED
        BY <1>3, <4>1, <4>2
    <3>2. CASE p[1] = CurrentEvent(t)
      <4>1. i[t] + 1 \in 1 .. i'[t] /\ i[t] + 1 =< Count(t)
        BY <1>1, <1>2
      <4> QED
        BY <1>1, <1>3, <3>2, <4>1
    <3> QED
      BY <1>4, <3>1, <3>2
  <2>8. Cardinality(Missing(w)') \in Nat /\ Count(t) - (i[t] + 1) \in Nat
    BY <1>1, <1>4
  <2>9. wfmo'[w].WaitAll =>
          /\ wfmo'[w].Status >= Cardinality(Missing(w)') + Unvisited(t)'
          /\ wfmo'[w].StillWaiting => wfmo'[w].Status = Cardinality(Missing(w)') + Unvisited(t)'
    BY <1>3, <2>2, <2>6, <2>8
  <2>10. /\ IsFiniteSet(Owed(w)') /\ wfmo'[w].WaitAll = call'[t].waitAll
         /\ wfmo'[w].StillWaiting /\ pc'[t] = "multi.register"
         /\ ~wfmo'[w].WaitAll => wfmo'[w].Status = -1
         /\ wfmo'[w].RefCount = Cardinality(Owed(w)') + 1 + skipped_refs'[t] + Unvisited(t)'
    BY <1>2, <1>3, <1>4, <2>1, <2>2, <2>4, <2>5 DEF OwnedBy
  <2> QED
    BY <2>7, <2>9, <2>10 DEF OwnedBy
<1> QED
  BY <1>5, <1>6

LEMMA IsGivenKeeps ==
  ASSUME Types, Control, Counts, NEW t \in Threads, Moves(t), pc[t] = "multi.register", i[t] < Count(t),
         mine' = mine, call' = call, Passed' = Passed, Served' = Served,
         NEW objects \in [Wfmos -> Wfmo], NEW waits, \A v \in Wfmos : Intact(v, objects, waits),
         IsGiven(t, objects, waits), NEW w \in Wfmos, mine[t] = w
  PROVE  OwnedBy(t, w)' /\ wfmo' \in [Wfmos -> Wfmo] /\ \A v \in Wfmos \ {w} : Keeps(v)
<1>1. /\ i[t] \in Nat /\ Count(t) \in Nat /\ skipped_refs[t] \in Nat
      /\ Unvisited(t) = Count(t) - i[t]
  BY MultiCall DEF Control, MultiPlaces, Holding, Unvisited
<1>2. /\ RegisteredWaits' = waits
      /\ wfmo' = [objects EXCEPT ![w].Status = IF objects[w].WaitAll THEN @ - 1 ELSE i[t]]
      /\ IF call[t].waitAll
         THEN skipped_refs'[t] = skipped_refs[t] + 1 /\ i'[t] = i[t] + 1 /\ pc' = pc
         ELSE /\ skipped_refs'[t] = skipped_refs[t] + (Count(t) - i[t])
              /\ i'[t] = i[t] /\ pc'[t] = "multi.done"
  BY DEF IsGiven, Given, NotRegistered
<1>3. ASSUME NEW v \in Wfmos
      PROVE  /\ Owed(v)' = Regs(waits, Passed, v) /\ Missing(v)' = Regs(waits, Served, v)
             /\ Intact(v, objects, waits)
  BY <1>2 DEF Owed, Missing
<1>4. ASSUME NEW v \in Wfmos \ {w}
      PROVE  Keeps(v)
  <2>1. wfmo'[v] = objects[v]
    BY <1>2
  <2> QED
    BY <1>3, <2>1 DEF Intact, Keeps, Wfmo
<1>5. OwnedBy(t, w)
  BY ToTheOwner
<1>6. /\ wfmo[w].StillWaiting /\ wfmo[w].WaitAll = call[t].waitAll
      /\ wfmo[w].RefCount = Cardinality(Owed(w)) + 1 + skipped_refs[t] + (Count(t) - i[t])
      /\ wfmo[w].WaitAll => wfmo[w].Status = Cardinality(Missing(w)) + (Count(t) - i[t])
  BY <1>1, <1>5 DEF OwnedBy
<1>7. /\ objects[w] \in Wfmo /\ objects[w].WaitAll = wfmo[w].WaitAll
      /\ objects[w].Status = wfmo[w].Status
      /\ objects[w].StillWaiting = wfmo[w].StillWaiting
      /\ IsFiniteSet(Owed(w)') /\ Cardinality(Owed(w)') \in Nat
      /\ objects[w].RefCount - Cardinality(Owed(w)') = wfmo[w].RefCount - Cardinality(Owed(w))
      /\ Cardinality(Missing(w)') = Cardinality(Missing(w))
      /\ Cardinality(Missing(w)) \in Nat /\ Cardinality(Owed(w)) \in Nat /\ wfmo[w] \in Wfmo
      /\ \A p \in Owed(w)' : \E q \in Owed(w) : q[1] = p[1]
  <2>1. /\ Intact(w, objects, waits)
        /\ Owed(w)' = Regs(waits, Passed, w) /\ Missing(w)' = Regs(waits, Served, w)
    BY <1>3
  <2>2. /\ Cardinality(Missing(w)) \in Nat /\ Cardinality(Owed(w)) \in Nat /\ wfmo[w] \in Wfmo
        /\ objects[w] \in Wfmo
    BY CountTypes DEF Counts
  <2> HIDE DEF Intact
  <2>3. /\ objects[w].WaitAll = wfmo[w].WaitAll /\ objects[w].Status = wfmo[w].Status
        /\ objects[w].StillWaiting = wfmo[w].StillWaiting
    BY <2>1 DEF Intact
  <2>4. /\ IsFiniteSet(Owed(w)') /\ Cardinality(Owed(w)') \in Nat
        /\ objects[w].RefCount - Cardinality(Owed(w)') = wfmo[w].RefCount - Cardinality(Owed(w))
    BY <2>1 DEF Intact
  <2>5. Cardinality(Missing(w)') = Cardinality(Missing(w))
    BY <1>6, <2>1 DEF Intact
  <2>6. \A p \in Owed(w)' : \E q \in Owed(w) : q[1] = p[1]
    BY <2>1 DEF Intact
  <2> QED
    BY <2>2, <2>3, <2>4, <2>5, <2>6
<1>8. /\ wfmo'[w].WaitAll = wfmo[w].WaitAll /\ wfmo'[w].StillWaiting = wfmo[w].StillWaiting
      /\ wfmo'[w].RefCount = objects[w].RefCount
      /\ wfmo'[w].Status = IF wfmo[w].WaitAll THEN wfmo[w].Status - 1 ELSE i[t]
  BY <1>2, <1>7 DEF Wfmo
<1>9. objects[w].RefCount = Cardinality(Owed(w)') + 1 + skipped_refs[t] + (Count(t) - i[t])
  <2>1. objects[w].RefCount \in Nat /\ wfmo[w].RefCount \in Nat
    BY <1>7 DEF Wfmo
  <2> QED
    BY <1>1, <1>6, <1>7, <2>1
<1>10. Count(t)' = Count(t)
  BY DEF Count
<1>11. ASSUME NEW p \in Owed(w)'
       PROVE  \E j \in 1 .. i'[t] : j =< Count(t)' /\ p[1] = call'[t].events[j]
  <2>1. PICK q \in Owed(w) : q[1] = p[1]
    BY <1>7
  <2>2. PICK j \in 1 .. i[t] : j =< Count(t) /\ q[1] = call[t].events[j]
    BY <1>5 DEF OwnedBy
  <2>3. j \in 1 .. i'[t]
    BY <1>1, <1>2
  <2> QED
    BY <1>10, <2>1, <2>2, <2>3
<1>12. CASE call[t].waitAll
  <2>1. /\ skipped_refs'[t] = skipped_refs[t] + 1 /\ i'[t] = i[t] + 1 /\ pc'[t] = "multi.register"
        /\ wfmo[w].WaitAll /\ wfmo'[w].Status = wfmo[w].Status - 1
    BY <1>2, <1>6, <1>8, <1>12
  <2>2. Unvisited(t)' = Count(t) - (i[t] + 1)
    BY <1>10, <2>1 DEF Unvisited
  <2>3. wfmo'[w].RefCount = Cardinality(Owed(w)') + 1 + skipped_refs'[t] + Unvisited(t)'
    BY <1>1, <1>7, <1>8, <1>9, <2>1, <2>2
  <2>4. /\ wfmo'[w].Status = Cardinality(Missing(w)') + Unvisited(t)' /\ wfmo'[w].Status \in Nat
        /\ wfmo'[w].Status >= Cardinality(Missing(w)') + Unvisited(t)'
    BY <1>1, <1>6, <1>7, <2>1, <2>2
  <2>5. wfmo'[w].WaitAll = call'[t].waitAll /\ wfmo'[w].WaitAll /\ wfmo'[w].StillWaiting
    BY <1>6, <1>8, <2>1
  <2>6. OwnedBy(t, w)'
    BY <1>7, <1>11, <2>1, <2>3, <2>4, <2>5 DEF OwnedBy
  <2>7. [objects[w] EXCEPT !.Status = wfmo[w].Status - 1] \in Wfmo
    BY <1>7, <2>1, <2>4 DEF Wfmo
  <2>8. wfmo' = [objects EXCEPT ![w] = [objects[w] EXCEPT !.Status = wfmo[w].Status - 1]]
    BY <1>2, <1>7, <2>1
  <2> QED
    BY <1>4, <2>6, <2>7, <2>8
<1>13. CASE ~call[t].waitAll
  <2>1. /\ skipped_refs'[t] = skipped_refs[t] + (Count(t) - i[t]) /\ pc'[t] = "multi.done"
        /\ ~wfmo[w].WaitAll
    BY <1>2, <1>6, <1>13
  <2>2. Unvisited(t)' = 0
    BY <2>1 DEF Unvisited
  <2>3. wfmo'[w].RefCount = Cardinality(Owed(w)') + 1 + skipped_refs'[t] + Unvisited(t)'
    BY <1>1, <1>7, <1>8, <1>9, <2>1, <2>2
  <2>4. wfmo'[w].WaitAll = call'[t].waitAll /\ ~wfmo'[w].WaitAll /\ wfmo'[w].StillWaiting
    BY <1>6, <1>8, <2>1
  <2>5. OwnedBy(t, w)'
    BY <1>7, <1>11, <2>1, <2>3, <2>4 DEF OwnedBy
  <2>6. [objects[w] EXCEPT !.Status = i[t]] \in Wfmo
    BY <1>1, <1>7 DEF Wfmo
  <2>7. wfmo' = [objects EXCEPT ![w] = [objects[w] EXCEPT !.Status = i[t]]]
    BY <1>2, <1>7, <2>1
  <2> QED
    BY <1>4, <2>5, <2>6, <2>7
<1> QED
  BY <1>12, <1>13

LEMMA MultiRegisterKeeps ==
  ASSUME Types, Control, Counts, NEW t \in Threads, MultiRegister(t)
  PROVE  Types' /\ Control' /\ Counts'
<1>1. /\ Moves(t) /\ Frame(t) /\ pc[t] = "multi.register" /\ i[t] < Count(t)
      /\ mine' = mine /\ call' = call
  BY MultiRegisterMoves DEF MultiRegister, At, Moves
<1>2. mine[t] \in Wfmos /\ mine[t] # NULL /\ pc'[t] \in {"multi.register", "multi.done"}
  <2>1. mine[t] \in Wfmos
    BY <1>1, MultiCall DEF Control, MultiPlaces, Holding
  <2> QED
    BY <1>1, <2>1, EventsAssumption DEF MultiRegister, Goto, Types
<1>3. Passed' = Passed /\ Served' = Served
  BY <1>1, <1>2, HeldStill DEF Serving
<1>4. PICK objects \in [Wfmos -> Wfmo] :
        \E waits \in [Events -> Seq(Registrations)] :
           /\ \A v \in Wfmos : Intact(v, objects, waits)
           /\ Registers(t, objects, waits) \/ IsGiven(t, objects, waits)
  BY MultiRegisterEffect
<1>5. PICK waits \in [Events -> Seq(Registrations)] :
           /\ \A v \in Wfmos : Intact(v, objects, waits)
           /\ Registers(t, objects, waits) \/ IsGiven(t, objects, waits)
  BY <1>4
<1>6. RegisteredWaits' \in [Events -> Seq(Registrations)]
  <2>1. CASE Registers(t, objects, waits)
    <3>1. Adds(waits, Passed, RegisteredWaits', CurrentEvent(t), Own(t))
      BY <2>1 DEF Registers
    <3>2. Append(waits[CurrentEvent(t)], Own(t)) \in Seq(Registrations)
      BY <3>1 DEF Adds
    <3> QED
      BY <3>1, <3>2 DEF Adds
  <2> QED
    BY <1>5, <2>1 DEF IsGiven
<1>7. ASSUME NEW w \in Wfmos, mine[t] = w
      PROVE  wfmo' \in [Wfmos -> Wfmo] /\ OwnedBy(t, w)' /\ \A v \in Wfmos \ {w} : Keeps(v)
  <2>1. CASE Registers(t, objects, waits)
    <3>1. OwnedBy(t, w)' /\ \A v \in Wfmos \ {w} : Keeps(v)
      BY <1>1, <1>3, <1>5, <1>7, <2>1, RegistersKeeps
    <3> QED
      BY <2>1, <3>1 DEF Registers
  <2>2. CASE IsGiven(t, objects, waits)
    BY <1>1, <1>3, <1>5, <1>7, <2>2, IsGivenKeeps
  <2> QED
    BY <1>5, <2>1, <2>2
<1>8. \A u \in Threads \ {t} : mine[u] # mine[t]
  BY <1>2 DEF Control, OneOwner
<1>9. ASSUME NEW w \in Wfmos, mine[t] = w
      PROVE  Counts'
  BY <1>1, <1>2, <1>7, <1>8, <1>9, OwnCounts
<1> QED
  BY <1>1, <1>2, <1>6, <1>7, <1>9, TypesKept, ControlKept

-----------------------------------------------------------------------------
(* Nobody sleeps through a step.                                           *)
Signalling == Serving \cup {"set.signal"}
WillTake(t, e) ==
  \/ pc[t] \in Signalling /\ Ev(t) = e
  \/ e \in AutoReset /\ At(t, "wait.sleep") /\ Ev(t) = e /\ Woken(t, e)
SignalsTo(t, w) == pc[t] = "set.release" /\ Waiter(t) = w

(* After a step of t an event that is set and slept through is one that t  *)
(* will signal, or that somebody was woken for, or it was before and t is  *)
(* not the one to do something about it; the same for wfmo objects.        *)
Wakes(t) ==
  /\ \A e \in Events : State'[e] /\ asleep'[e] # {} =>
       \/ WillTake(t, e)'
       \/ e \in AutoReset /\ \E u \in Threads \ {t} : u \in asleep[e] /\ u \notin asleep'[e]
       \/ State[e] /\ asleep[e] # {} /\ asleep'[e] \subseteq asleep[e] /\ ~WillTake(t, e)
  /\ \A e \in AutoReset : State'[e] => RegisteredWaits'[e] = <<>>
  /\ \A w \in Wfmos : asleep'[w] # {} /\ Ended(w)' =>
       \/ SignalsTo(t, w)'
       \/ asleep[w] # {} /\ Ended(w) /\ ~SignalsTo(t, w)

LEMMA NobodySleepsThrough ==
  ASSUME Types, Control, NoLostWakeup, NEW t \in Threads, Moves(t), Wakes(t)
  PROVE  NoLostWakeup'
<1>1. ASSUME NEW u \in Threads, u # t
      PROVE  /\ pc'[u] = pc[u] /\ call'[u] = call[u] /\ i'[u] = i[u] /\ Ev(u)' = Ev(u)
             /\ pc[u] \in Serving => Waiter(u)' = Waiter(u)
  <2>1. pc'[u] = pc[u] /\ call'[u] = call[u] /\ i'[u] = i[u] /\ Ev(u)' = Ev(u)
    BY <1>1 DEF Moves, Frame, Ev
  <2>2. pc[u] \in Serving => RegisteredWaits'[Ev(u)] = RegisteredWaits[Ev(u)]
    BY <1>1 DEF Moves
  <2> QED
    BY <2>1, <2>2 DEF Waiter, Registration, Waits
<1>2. ASSUME NEW e \in Events, State'[e], asleep'[e] # {}
      PROVE  \E u \in Threads : WillTake(u, e)'
  <2>1. CASE WillTake(t, e)'
    BY <2>1
  <2>2. ASSUME e \in AutoReset, NEW u \in Threads \ {t}, u \in asleep[e], u \notin asleep'[e]
        PROVE  WillTake(u, e)'
    <3>1. At(u, "wait.sleep") /\ Ev(u) = e
      BY <2>2 DEF Control, Sleepers
    <3> QED
      BY <1>1, <2>2, <3>1 DEF WillTake, At, Woken
  <2>3. ASSUME State[e], asleep[e] # {}, asleep'[e] \subseteq asleep[e], ~WillTake(t, e)
        PROVE  \E u \in Threads : WillTake(u, e)'
    <3>1. PICK u \in Threads : WillTake(u, e)
      BY <2>3 DEF NoLostWakeup, WillTake, Signalling, Serving
    <3>2. u # t
      BY <2>3, <3>1
    <3>3. WillTake(u, e)'
      BY <1>1, <2>3, <3>1, <3>2 DEF WillTake, At, Woken
    <3> QED
      BY <3>3
  <2> QED
    BY <1>2, <2>1, <2>2, <2>3 DEF Wakes
<1>3. ASSUME NEW w \in Wfmos, asleep'[w] # {}, Ended(w)'
      PROVE  \E u \in Threads : SignalsTo(u, w)'
  <2>1. CASE SignalsTo(t, w)'
    BY <2>1
  <2>2. ASSUME asleep[w] # {}, Ended(w), ~SignalsTo(t, w)
        PROVE  \E u \in Threads : SignalsTo(u, w)'
    <3>1. PICK u \in Threads : SignalsTo(u, w)
      BY <2>2 DEF NoLostWakeup, BeingSignalled, SignalsTo
    <3>2. u # t
      BY <2>2, <3>1
    <3>3. SignalsTo(u, w)'
      BY <1>1, <3>1, <3>2 DEF SignalsTo, Serving
    <3> QED
      BY <3>3
  <2> QED
    BY <1>3, <2>1, <2>2 DEF Wakes
<1>4. \A e \in AutoReset : State'[e] => RegisteredWaits'[e] = <<>>
  BY DEF Wakes
<1>5. \A e \in Events : State'[e] /\ asleep'[e] # {} =>
        \E u \in Threads :
          \/ pc'[u] \in {"set.next", "set.waiter", "set.release", "set.signal"} /\ Ev(u)' = e
          \/ e \in AutoReset /\ At(u, "wait.sleep")' /\ Ev(u)' = e /\ Woken(u, e)'
  BY <1>2 DEF WillTake, Signalling, Serving
<1>6. \A w \in Wfmos : asleep'[w] # {} /\ Ended(w)' => BeingSignalled(w)' # {}
  BY <1>3 DEF SignalsTo, BeingSignalled
<1> QED
  BY <1>4, <1>5, <1>6 DEF NoLostWakeup

(* Who sets nothing and signals nobody.                                    *)
LEMMA QuietWakes ==
  ASSUME Types, NoLostWakeup, NEW t \in Threads, pc[t] # "set.release",
         \A e \in Events : State'[e] => State[e] /\ asleep'[e] \subseteq asleep[e] /\ ~WillTake(t, e),
         \A e \in AutoReset : State'[e] => RegisteredWaits'[e] \in {RegisteredWaits[e], <<>>},
         \A w \in Wfmos : asleep'[w] # {} =>
           /\ wfmo'[w].WaitAll = wfmo[w].WaitAll /\ wfmo'[w].Status = wfmo[w].Status
           /\ Ended(w) => asleep'[w] \subseteq asleep[w]
  PROVE  Wakes(t)
<1>1. \A e \in AutoReset : State'[e] => RegisteredWaits'[e] = <<>>
  BY EventsAssumption DEF NoLostWakeup
<1>2. ASSUME NEW w \in Wfmos, asleep'[w] # {}, Ended(w)'
      PROVE  asleep[w] # {} /\ Ended(w) /\ ~SignalsTo(t, w)
  <2>1. Ended(w)
    BY <1>2 DEF Ended
  <2> QED
    BY <1>2, <2>1 DEF SignalsTo
<1> QED
  BY <1>1, <1>2 DEF Wakes

(* A wfmo object is slept on by its owner only.                            *)
LEMMA OwnSleep ==
  ASSUME Types, Control, NEW w \in Wfmos, NEW u \in asleep[w]
  PROVE  /\ u \in Threads /\ mine[u] = w /\ pc[u] = "multi.sleep"
         /\ \A s \in Threads : mine[s] = w => s = u
         /\ asleep[w] \ {u} = {}
<1>1. u \in Threads /\ mine[u] = w /\ pc[u] = "multi.sleep"
  BY DEF Types, Control, Sleepers, At
<1>2. \A s \in Threads : mine[s] = w => s = u
  BY <1>1, EventsAssumption DEF Control, OneOwner
<1>3. \A s \in asleep[w] : s \in Threads /\ mine[s] = w
  BY DEF Types, Control, Sleepers
<1> QED
  BY <1>1, <1>2, <1>3

LEMMA WaitTimeoutWakes ==
  ASSUME Types, Control, NoLostWakeup, NEW t \in Threads, WaitTimeout(t)
  PROVE  Wakes(t)
<1>1. pc[t] # "set.release"
  BY DEF WaitTimeout, At, Began
<1>2. ASSUME NEW e \in Events, State'[e]
      PROVE  State[e] /\ asleep'[e] \subseteq asleep[e] /\ ~WillTake(t, e)
  <2>1. State[e]
    BY <1>2 DEF WaitTimeout, Types
  <2>2. asleep'[e] \subseteq asleep[e]
    BY DEF WaitTimeout, Types
  <2>3. ~WillTake(t, e)
    BY <1>2, EventsAssumption DEF WaitTimeout, WillTake, At, Woken, Began, Signalling, Serving,
       Types
  <2> QED
    BY <2>1, <2>2, <2>3
<1>3. \A e \in AutoReset : State'[e] => RegisteredWaits'[e] \in {RegisteredWaits[e], <<>>}
  BY DEF WaitTimeout
<1>4. ASSUME NEW w \in Wfmos, asleep'[w] # {}
      PROVE  /\ wfmo'[w].WaitAll = wfmo[w].WaitAll /\ wfmo'[w].Status = wfmo[w].Status
             /\ asleep'[w] \subseteq asleep[w]
  BY EventsAssumption DEF WaitTimeout, Types, Wfmo, Unref
<1> QED
  BY <1>1, <1>2, <1>3, <1>4, QuietWakes

LEMMA WaitTimedOutWakes ==
  ASSUME Types, Control, NoLostWakeup, NEW t \in Threads, WaitTimedOut(t)
  PROVE  Wakes(t)
<1>1. pc[t] # "set.release"
  BY DEF WaitTimedOut, At, Began
<1>2. ASSUME NEW e \in Events, State'[e]
      PROVE  State[e] /\ asleep'[e] \subseteq asleep[e] /\ ~WillTake(t, e)
  <2>1. State[e]
    BY <1>2 DEF WaitTimedOut, Types
  <2>2. asleep'[e] \subseteq asleep[e]
    BY DEF WaitTimedOut, Types
  <2>3. ~WillTake(t, e)
    BY <1>2, EventsAssumption DEF WaitTimedOut, WillTake, At, Woken, Began, Signalling, Serving,
       Types
  <2> QED
    BY <2>1, <2>2, <2>3
<1>3. \A e \in AutoReset : State'[e] => RegisteredWaits'[e] \in {RegisteredWaits[e], <<>>}
  BY DEF WaitTimedOut
<1>4. ASSUME NEW w \in Wfmos, asleep'[w] # {}
      PROVE  /\ wfmo'[w].WaitAll = wfmo[w].WaitAll /\ wfmo'[w].Status = wfmo[w].Status
             /\ asleep'[w] \subseteq asleep[w]
  BY EventsAssumption DEF WaitTimedOut, Types, Wfmo, Unref
<1> QED
  BY <1>1, <1>2, <1>3, <1>4, QuietWakes

LEMMA PulseResetWakes ==
  ASSUME Types, Control, NoLostWakeup, NEW t \in Threads, PulseReset(t)
  PROVE  Wakes(t)
<1>1. pc[t] # "set.release"
  BY DEF PulseReset, At, Began
<1>2. ASSUME NEW e \in Events, State'[e]
      PROVE  State[e] /\ asleep'[e] \subseteq asleep[e] /\ ~WillTake(t, e)
  <2>1. State[e]
    BY <1>2 DEF PulseReset, Types
  <2>2. asleep'[e] \subseteq asleep[e]
    BY DEF PulseReset, Types
  <2>3. ~WillTake(t, e)
    BY <1>2, EventsAssumption DEF PulseReset, WillTake, At, Woken, Began, Signalling, Serving, Types
  <2> QED
    BY <2>1, <2>2, <2>3
<1>3. \A e \in AutoReset : State'[e] => RegisteredWaits'[e] \in {RegisteredWaits[e], <<>>}
  BY DEF PulseReset
<1>4. ASSUME NEW w \in Wfmos, asleep'[w] # {}
      PROVE  /\ wfmo'[w].WaitAll = wfmo[w].WaitAll /\ wfmo'[w].Status = wfmo[w].Status
             /\ asleep'[w] \subseteq asleep[w]
  BY EventsAssumption DEF PulseReset, Types, Wfmo, Unref
<1> QED
  BY <1>1, <1>2, <1>3, <1>4, QuietWakes

LEMMA MultiTimeoutWakes ==
  ASSUME Types, Control, NoLostWakeup, NEW t \in Threads, MultiTimeout(t)
  PROVE  Wakes(t)
<1>1. pc[t] # "set.release"
  BY DEF MultiTimeout, At, Began
<1>2. ASSUME NEW e \in Events, State'[e]
      PROVE  State[e] /\ asleep'[e] \subseteq asleep[e] /\ ~WillTake(t, e)
  <2>1. State[e]
    BY <1>2 DEF MultiTimeout, Types
  <2>2. asleep'[e] \subseteq asleep[e]
    BY DEF MultiTimeout, Types
  <2>3. ~WillTake(t, e)
    BY <1>2, EventsAssumption DEF MultiTimeout, WillTake, At, Woken, Began, Signalling, Serving,
       Types
  <2> QED
    BY <2>1, <2>2, <2>3
<1>3. \A e \in AutoReset : State'[e] => RegisteredWaits'[e] \in {RegisteredWaits[e], <<>>}
  BY DEF MultiTimeout
<1>4. ASSUME NEW w \in Wfmos, asleep'[w] # {}
      PROVE  /\ wfmo'[w].WaitAll = wfmo[w].WaitAll /\ wfmo'[w].Status = wfmo[w].Status
             /\ asleep'[w] \subseteq asleep[w]
  BY EventsAssumption DEF MultiTimeout, Types, Wfmo, Unref
<1> QED
  BY <1>1, <1>2, <1>3, <1>4, QuietWakes

LEMMA MultiTimedOutWakes ==
  ASSUME Types, Control, NoLostWakeup, NEW t \in Threads, MultiTimedOut(t)
  PROVE  Wakes(t)
<1>1. pc[t] # "set.release"
  BY DEF MultiTimedOut, At, Began
<1>2. ASSUME NEW e \in Events, State'[e]
      PROVE  State[e] /\ asleep'[e] \subseteq asleep[e] /\ ~WillTake(t, e)
  <2>1. State[e]
    BY <1>2 DEF MultiTimedOut, Types
  <2>2. asleep'[e] \subseteq asleep[e]
    BY DEF MultiTimedOut, Types
  <2>3. ~WillTake(t, e)
    BY <1>2, EventsAssumption DEF MultiTimedOut, WillTake, At, Woken, Began, Signalling, Serving,
       Types
  <2> QED
    BY <2>1, <2>2, <2>3
<1>3. \A e \in AutoReset : State'[e] => RegisteredWaits'[e] \in {RegisteredWaits[e], <<>>}
  BY DEF MultiTimedOut
<1>4. ASSUME NEW w \in Wfmos, asleep'[w] # {}
      PROVE  /\ wfmo'[w].WaitAll = wfmo[w].WaitAll /\ wfmo'[w].Status = wfmo[w].Status
             /\ asleep'[w] \subseteq asleep[w]
  BY EventsAssumption DEF MultiTimedOut, Types, Wfmo, Unref
<1> QED
  BY <1>1, <1>2, <1>3, <1>4, QuietWakes

LEMMA MultiDoneWakes ==
  ASSUME Types, Control, NoLostWakeup, NEW t \in Threads, MultiDone(t)
  PROVE  Wakes(t)
<1>1. pc[t] # "set.release"
  BY DEF MultiDone, At, Began
<1>2. ASSUME NEW e \in Events, State'[e]
      PROVE  State[e] /\ asleep'[e] \subseteq asleep[e] /\ ~WillTake(t, e)
  <2>1. State[e]
    BY <1>2 DEF MultiDone, Types
  <2>2. asleep'[e] \subseteq asleep[e]
    BY DEF MultiDone, Types
  <2>3. ~WillTake(t, e)
    BY <1>2, EventsAssumption DEF MultiDone, WillTake, At, Woken, Began, Signalling, Serving, Types
  <2> QED
    BY <2>1, <2>2, <2>3
<1>3. \A e \in AutoReset : State'[e] => RegisteredWaits'[e] \in {RegisteredWaits[e], <<>>}
  BY DEF MultiDone
<1>4. ASSUME NEW w \in Wfmos, asleep'[w] # {}
      PROVE  /\ wfmo'[w].WaitAll = wfmo[w].WaitAll /\ wfmo'[w].Status = wfmo[w].Status
             /\ asleep'[w] \subseteq asleep[w]
  BY EventsAssumption DEF MultiDone, Types, Wfmo, Unref
<1> QED
  BY <1>1, <1>2, <1>3, <1>4, QuietWakes

LEMMA MultiUnrefWakes ==
  ASSUME Types, Control, NoLostWakeup, NEW t \in Threads, MultiUnref(t)
  PROVE  Wakes(t)
<1>1. pc[t] # "set.release"
  BY DEF MultiUnref, At, Began
<1>2. ASSUME NEW e \in Events, State'[e]
      PROVE  State[e] /\ asleep'[e] \subseteq asleep[e] /\ ~WillTake(t, e)
  <2>1. State[e]
    BY <1>2 DEF MultiUnref, Types
  <2>2. asleep'[e] \subseteq asleep[e]
    BY DEF MultiUnref, Types
  <2>3. ~WillTake(t, e)
    BY <1>2, EventsAssumption DEF MultiUnref, WillTake, At, Woken, Began, Signalling, Serving, Types
  <2> QED
    BY <2>1, <2>2, <2>3
<1>3. \A e \in AutoReset : State'[e] => RegisteredWaits'[e] \in {RegisteredWaits[e], <<>>}
  BY DEF MultiUnref
<1>4. ASSUME NEW w \in Wfmos, asleep'[w] # {}
      PROVE  /\ wfmo'[w].WaitAll = wfmo[w].WaitAll /\ wfmo'[w].Status = wfmo[w].Status
             /\ asleep'[w] \subseteq asleep[w]
  BY EventsAssumption DEF MultiUnref, Types, Wfmo, Unref
<1> QED
  BY <1>1, <1>2, <1>3, <1>4, QuietWakes

LEMMA CallWaitWakes ==
  ASSUME Types, Control, NoLostWakeup, NEW t \in Threads, NEW c \in Calls[t], CallWait(t, c)
  PROVE  Wakes(t)
<1>1. pc[t] # "set.release"
  BY DEF CallWait, At, Began
<1>2. ASSUME NEW e \in Events, State'[e]
      PROVE  State[e] /\ asleep'[e] \subseteq asleep[e] /\ ~WillTake(t, e)
  <2>1. State[e]
    BY <1>2 DEF CallWait, Types
  <2>2. asleep'[e] \subseteq asleep[e]
    BY DEF CallWait, Types
  <2>3. ~WillTake(t, e)
    BY <1>2, EventsAssumption DEF CallWait, WillTake, At, Woken, Began, Signalling, Serving, Types
  <2> QED
    BY <2>1, <2>2, <2>3
<1>3. \A e \in AutoReset : State'[e] => RegisteredWaits'[e] \in {RegisteredWaits[e], <<>>}
  BY DEF CallWait
<1>4. ASSUME NEW w \in Wfmos, asleep'[w] # {}
      PROVE  /\ wfmo'[w].WaitAll = wfmo[w].WaitAll /\ wfmo'[w].Status = wfmo[w].Status
             /\ asleep'[w] \subseteq asleep[w]
  BY EventsAssumption DEF CallWait, Types, Wfmo, Unref
<1> QED
  BY <1>1, <1>2, <1>3, <1>4, QuietWakes

LEMMA CallSetWakes ==
  ASSUME Types, Control, NoLostWakeup, NEW t \in Threads, NEW c \in Calls[t], CallSet(t, c)
  PROVE  Wakes(t)
<1>1. pc[t] # "set.release"
  BY DEF CallSet, At, Began
<1>2. ASSUME NEW e \in Events, State'[e]
      PROVE  State[e] /\ asleep'[e] \subseteq asleep[e] /\ ~WillTake(t, e)
  <2>1. State[e]
    BY <1>2 DEF CallSet, Types
  <2>2. asleep'[e] \subseteq asleep[e]
    BY DEF CallSet, Types
  <2>3. ~WillTake(t, e)
    BY <1>2, EventsAssumption DEF CallSet, WillTake, At, Woken, Began, Signalling, Serving, Types
  <2> QED
    BY <2>1, <2>2, <2>3
<1>3. \A e \in AutoReset : State'[e] => RegisteredWaits'[e] \in {RegisteredWaits[e], <<>>}
  BY DEF CallSet
<1>4. ASSUME NEW w \in Wfmos, asleep'[w] # {}
      PROVE  /\ wfmo'[w].WaitAll = wfmo[w].WaitAll /\ wfmo'[w].Status = wfmo[w].Status
             /\ asleep'[w] \subseteq asleep[w]
  BY EventsAssumption DEF CallSet, Types, Wfmo, Unref
<1> QED
  BY <1>1, <1>2, <1>3, <1>4, QuietWakes

LEMMA ResetEventWakes ==
  ASSUME Types, Control, NoLostWakeup, NEW t \in Threads, NEW c \in Calls[t], ResetEvent(t, c)
  PROVE  Wakes(t)
<1>1. pc[t] # "set.release"
  BY DEF ResetEvent, At, Began
<1>2. ASSUME NEW e \in Events, State'[e]
      PROVE  State[e] /\ asleep'[e] \subseteq asleep[e] /\ ~WillTake(t, e)
  <2>1. State[e]
    BY <1>2 DEF ResetEvent, Types
  <2>2. asleep'[e] \subseteq asleep[e]
    BY DEF ResetEvent, Types
  <2>3. ~WillTake(t, e)
    BY <1>2, EventsAssumption DEF ResetEvent, WillTake, At, Woken, Began, Signalling, Serving, Types
  <2> QED
    BY <2>1, <2>2, <2>3
<1>3. \A e \in AutoReset : State'[e] => RegisteredWaits'[e] \in {RegisteredWaits[e], <<>>}
  BY DEF ResetEvent
<1>4. ASSUME NEW w \in Wfmos, asleep'[w] # {}
      PROVE  /\ wfmo'[w].WaitAll = wfmo[w].WaitAll /\ wfmo'[w].Status = wfmo[w].Status
             /\ asleep'[w] \subseteq asleep[w]
  BY EventsAssumption DEF ResetEvent, Types, Wfmo, Unref
<1> QED
  BY <1>1, <1>2, <1>3, <1>4, QuietWakes

LEMMA CallMultiWakes ==
  ASSUME Types, Control, Balanced, NoLostWakeup,
         NEW t \in Threads, NEW c \in Calls[t], CallMulti(t, c)
  PROVE  Wakes(t)
<1>1. pc[t] = "idle" /\ State' = State /\ asleep' = asleep /\ RegisteredWaits' = RegisteredWaits
  BY DEF CallMulti, At, Began
<1>2. ASSUME NEW e \in Events
      PROVE  ~WillTake(t, e)
  BY <1>1 DEF WillTake, At, Signalling, Serving
<1>3. PICK v \in Wfmos : wfmo[v].RefCount = 0 /\ wfmo' = [wfmo EXCEPT ![v] = NewWfmo(c)]
  BY DEF CallMulti
<1>4. ASSUME NEW w \in Wfmos, asleep'[w] # {}
      PROVE  wfmo'[w].WaitAll = wfmo[w].WaitAll /\ wfmo'[w].Status = wfmo[w].Status
  <2>1. \A u \in Threads : mine[u] # v
    BY <1>3, Fresh DEF Control
  <2>2. PICK u \in asleep[w] : TRUE
    BY <1>1, <1>4
  <2>3. w # v
    BY <2>1, <2>2, OwnSleep
  <2> QED
    BY <1>3, <2>3
<1> QED
  BY <1>1, <1>2, <1>4, QuietWakes

LEMMA DestroyEventWakes ==
  ASSUME Types, Control, NoLostWakeup, NEW t \in Threads, NEW c \in Calls[t], DestroyEvent(t, c)
  PROVE  Wakes(t)
<1>1. pc[t] = "idle" /\ asleep' = asleep /\ State' = [State EXCEPT ![c.event] = FALSE]
  BY DEF DestroyEvent, At
<1>2. ASSUME NEW e \in Events, State'[e]
      PROVE  State[e] /\ ~WillTake(t, e)
  <2>1. State[e]
    BY <1>1, <1>2 DEF Types
  <2> QED
    BY <1>1, <2>1 DEF WillTake, At, Signalling, Serving
<1>3. ASSUME NEW e \in AutoReset, State'[e]
      PROVE  RegisteredWaits'[e] \in {RegisteredWaits[e], <<>>}
  <2>1. e \in Events /\ RegisteredWaits' = [RegisteredWaits EXCEPT ![c.event] = <<>>]
    BY EventsAssumption DEF DestroyEvent
  <2> QED
    BY <2>1 DEF Types
<1>4. ASSUME NEW w \in Wfmos
      PROVE  wfmo'[w].WaitAll = wfmo[w].WaitAll /\ wfmo'[w].Status = wfmo[w].Status
  <2>1. wfmo'[w] = [wfmo[w] EXCEPT !.RefCount = @ - Cardinality(Expired(c.event, w))]
    BY DEF DestroyEvent, Cleaned
  <2> QED
    BY <2>1 DEF Types, Wfmo
<1> QED
  BY <1>1, <1>2, <1>3, <1>4, QuietWakes

(* An auto-reset event is taken by who wakes up for it, or is not set.     *)
LEMMA WaitLockWakes ==
  ASSUME Types, Control, NoLostWakeup, NEW t \in Threads, WaitLock(t)
  PROVE  Wakes(t)
<1>1. /\ pc[t] \in {"wait.lock", "wait.sleep"} /\ Ev(t) \in Events
      /\ RegisteredWaits' = RegisteredWaits /\ wfmo' = wfmo
  BY EventCall DEF WaitLock, At, Control, WaitPlaces
<1>2. \/ /\ State[Ev(t)] /\ asleep' = asleep
         /\ State' = [State EXCEPT ![Ev(t)] = Ev(t) \notin AutoReset]
      \/ /\ ~State[Ev(t)] /\ State' = State
         /\ asleep' = asleep \/ asleep' = [asleep EXCEPT ![Ev(t)] = @ \cup {t}]
  BY DEF WaitLock, Obtained
<1>3. ASSUME NEW e \in Events, State'[e]
      PROVE  State[e] /\ asleep'[e] \subseteq asleep[e] /\ ~WillTake(t, e)
  <2>1. State[e]
    BY <1>1, <1>2, <1>3 DEF Types
  <2>2. asleep'[e] \subseteq asleep[e]
    BY <1>1, <1>2, <1>3 DEF Types
  <2>3. Ev(t) = e => e \notin AutoReset
    BY <1>1, <1>2, <1>3 DEF Types
  <2> QED
    BY <1>1, <2>1, <2>2, <2>3 DEF WillTake, Signalling, Serving
<1>4. ASSUME NEW w \in Wfmos
      PROVE  asleep'[w] \subseteq asleep[w]
  BY <1>1, <1>2, EventsAssumption DEF Types
<1> QED
  BY <1>1, <1>3, <1>4, QuietWakes

(* A wait that has its events does not go to sleep.                        *)
LEMMA MultiWaitWakes ==
  ASSUME Types, Control, NoLostWakeup, NEW t \in Threads, MultiWait(t)
  PROVE  Wakes(t)
<1>1. /\ pc[t] \in {"multi.register", "multi.sleep"} /\ State' = State
      /\ RegisteredWaits' = RegisteredWaits /\ wfmo' = wfmo
  BY DEF MultiWait, At
<1>2. mine[t] \in Wfmos
  BY <1>1, MultiCall DEF Control, MultiPlaces, Holding
<1>3. \/ asleep' = asleep
      \/ ~Ended(mine[t]) /\ asleep' = [asleep EXCEPT ![mine[t]] = @ \cup {t}]
  BY DEF MultiWait
<1>4. ASSUME NEW e \in Events, State'[e]
      PROVE  State[e] /\ asleep'[e] \subseteq asleep[e] /\ ~WillTake(t, e)
  <2>1. asleep'[e] \subseteq asleep[e]
    BY <1>2, <1>3, EventsAssumption DEF Types
  <2> QED
    BY <1>1, <1>4, <2>1 DEF WillTake, At, Signalling, Serving
<1>5. ASSUME NEW w \in Wfmos, Ended(w)
      PROVE  asleep'[w] \subseteq asleep[w]
  BY <1>2, <1>3, <1>5 DEF Types
<1> QED
  BY <1>1, <1>4, <1>5, QuietWakes

LEMMA MultiRegisterWakes ==
  ASSUME Types, Control, Counts, NoLostWakeup, NEW t \in Threads, MultiRegister(t)
  PROVE  Wakes(t)
<1> DEFINE e == CurrentEvent(t)
<1>1. pc[t] = "multi.register" /\ i[t] < Count(t) /\ asleep' = asleep
  BY DEF MultiRegister, At
<1>2. e \in Events /\ mine[t] \in Wfmos
  BY <1>1, MultiCall DEF Control, MultiPlaces, Holding
<1>3. \/ State[e] /\ State' = [State EXCEPT ![e] = e \notin AutoReset]
      \/ ~State[e] /\ State' = State
  BY DEF MultiRegister, Obtained
<1>4. PICK q : RegisteredWaits' = [RegisteredWaits EXCEPT ![e] = q]
  BY DEF MultiRegister
<1> HIDE DEF e
<1>5. ASSUME NEW f \in Events, State'[f]
      PROVE  State[f] /\ ~WillTake(t, f) /\ (f = e => f \notin AutoReset)
  <2>1. State[f] /\ (f = e => f \notin AutoReset)
    BY <1>2, <1>3, <1>5 DEF Types
  <2> QED
    BY <1>1, <2>1 DEF WillTake, At, Signalling, Serving
<1>6. ASSUME NEW f \in AutoReset, State'[f]
      PROVE  RegisteredWaits'[f] = RegisteredWaits[f]
  <2>1. f \in Events /\ f # e
    BY <1>5, <1>6, EventsAssumption
  <2> QED
    BY <1>4, <2>1 DEF Types
<1>7. ASSUME NEW w \in Wfmos, asleep'[w] # {}
      PROVE  wfmo'[w].WaitAll = wfmo[w].WaitAll /\ wfmo'[w].Status = wfmo[w].Status
  <2>1. w # mine[t]
    <3>1. PICK u \in asleep[w] : TRUE
      BY <1>1, <1>7
    <3>2. pc[u] = "multi.sleep" /\ \A s \in Threads : mine[s] = w => s = u
      BY <3>1, OwnSleep
    <3> QED
      BY <1>1, <3>2
  <2>2. PICK objects \in [Wfmos -> Wfmo] :
          \E waits \in [Events -> Seq(Registrations)] :
             /\ \A v \in Wfmos : Intact(v, objects, waits)
             /\ Registers(t, objects, waits) \/ IsGiven(t, objects, waits)
    BY MultiRegisterEffect
  <2>3. PICK waits \in [Events -> Seq(Registrations)] :
             /\ \A v \in Wfmos : Intact(v, objects, waits)
             /\ Registers(t, objects, waits) \/ IsGiven(t, objects, waits)
    BY <2>2
  <2>4. wfmo'[w] = objects[w]
    BY <2>1, <2>3 DEF Registers, IsGiven, Given
  <2>5. Intact(w, objects, waits)
    BY <2>3
  <2> QED
    BY <2>4, <2>5 DEF Intact
<1> QED
  BY <1>1, <1>5, <1>6, <1>7, QuietWakes

(* An event is set that t will signal, or has been passed by while t looks *)
(* through its registrations.                                              *)
LEMMA ServerWakes ==
  ASSUME Types, NoLostWakeup, NEW t \in Threads, pc'[t] \in Signalling, Ev(t)' = Ev(t),
         \A f \in Events \ {Ev(t)} :
           State'[f] = State[f] /\ RegisteredWaits'[f] = RegisteredWaits[f],
         \A f \in Events : asleep'[f] = asleep[f],
         Ev(t) \in AutoReset /\ State'[Ev(t)] => RegisteredWaits'[Ev(t)] = <<>>,
         \A w \in Wfmos : asleep'[w] # {} /\ Ended(w)' =>
           \/ SignalsTo(t, w)'
           \/ asleep[w] # {} /\ Ended(w) /\ ~SignalsTo(t, w),
         pc[t] \notin WaitPlaces, pc[t] \in Signalling \cup {"set.lock"}
  PROVE  Wakes(t)
<1>1. ASSUME NEW f \in Events, State'[f], asleep'[f] # {}
      PROVE  \/ WillTake(t, f)'
             \/ State[f] /\ asleep[f] # {} /\ asleep'[f] \subseteq asleep[f] /\ ~WillTake(t, f)
  <2>1. CASE f = Ev(t)
    BY <2>1 DEF WillTake
  <2>2. CASE f # Ev(t)
    BY <1>1, <2>2 DEF WillTake
  <2> QED
    BY <2>1, <2>2
<1>2. \A f \in AutoReset : State'[f] => RegisteredWaits'[f] = <<>>
  BY EventsAssumption DEF NoLostWakeup
<1> QED
  BY <1>1, <1>2 DEF Wakes

LEMMA SetLockWakes ==
  ASSUME Types, Control, NoLostWakeup, NEW t \in Threads, SetLock(t)
  PROVE  Wakes(t)
<1>1. /\ pc[t] = "set.lock" /\ pc'[t] = "set.next" /\ Ev(t) \in Events /\ Ev(t)' = Ev(t)
      /\ RegisteredWaits' = RegisteredWaits /\ asleep' = asleep /\ wfmo' = wfmo
      /\ State' = [State EXCEPT ![Ev(t)] = @ \/ Ev(t) \notin AutoReset]
  BY EventCall DEF SetLock, At, Goto, Control, SetPlaces, Types, Ev
<1>2. \A f \in Events \ {Ev(t)} : State'[f] = State[f]
  BY <1>1 DEF Types
<1>3. Ev(t) \in AutoReset /\ State'[Ev(t)] => RegisteredWaits'[Ev(t)] = <<>>
  BY <1>1 DEF Types, NoLostWakeup
<1>4. \A w \in Wfmos : Ended(w)' = Ended(w) /\ ~SignalsTo(t, w)
  BY <1>1 DEF Ended, SignalsTo
<1>5. pc'[t] \in Signalling /\ pc[t] \notin WaitPlaces /\ pc[t] \in Signalling \cup {"set.lock"}
  BY <1>1 DEF Signalling, Serving, WaitPlaces
<1> QED
  BY <1>1, <1>2, <1>3, <1>4, <1>5, ServerWakes

LEMMA SetNextWakes ==
  ASSUME Types, Control, NoLostWakeup, NEW t \in Threads, SetNext(t)
  PROVE  Wakes(t)
<1>1. /\ pc[t] = "set.next" /\ pc'[t] \in {"set.next", "set.waiter", "set.signal"}
      /\ Ev(t) \in Events /\ Ev(t)' = Ev(t) /\ asleep' = asleep
  BY EventCall DEF SetNext, At, Goto, Control, SetPlaces, Serving, Types, Ev
<1>2. ASSUME NEW f \in Events \ {Ev(t)}
      PROVE  State'[f] = State[f] /\ RegisteredWaits'[f] = RegisteredWaits[f]
  BY <1>1 DEF SetNext, Pass, Types
<1>3. Ev(t) \in AutoReset /\ State'[Ev(t)] => RegisteredWaits'[Ev(t)] = <<>>
  <2>1. CASE i[t] = Len(Waits(t))
    BY <1>1, <2>1 DEF SetNext, Cleared, Types
  <2>2. CASE i[t] # Len(Waits(t))
    <3>1. State' = State /\ RegisteredWaits[Ev(t)] # <<>>
      BY <1>1, <2>2, ComeTo DEF SetNext, Control, Serving, Waits
    <3> QED
      BY <3>1 DEF NoLostWakeup
  <2> QED
    BY <2>1, <2>2
<1>4. ASSUME NEW w \in Wfmos
      PROVE  Ended(w)' = Ended(w) /\ ~SignalsTo(t, w)
  <2>1. wfmo' = wfmo \/ wfmo' = Unref(wfmo, Waiter(t), 1)
    BY DEF SetNext
  <2>2. wfmo'[w].WaitAll = wfmo[w].WaitAll /\ wfmo'[w].Status = wfmo[w].Status
    <3>1. CASE wfmo' = wfmo
      BY <3>1
    <3>2. CASE wfmo' = Unref(wfmo, Waiter(t), 1)
      BY <3>2 DEF Unref, Types, Wfmo
    <3> QED
      BY <2>1, <3>1, <3>2
  <2> QED
    BY <1>1, <2>2 DEF Ended, SignalsTo
<1>5. pc'[t] \in Signalling /\ pc[t] \notin WaitPlaces /\ pc[t] \in Signalling \cup {"set.lock"}
  BY <1>1 DEF Signalling, Serving, WaitPlaces
<1> QED
  BY <1>1, <1>2, <1>3, <1>4, <1>5, ServerWakes

(* A wait that gets what it waits for is signalled next.                   *)
LEMMA SetWaiterWakes ==
  ASSUME Types, Control, NoLostWakeup, NEW t \in Threads, SetWaiter(t)
  PROVE  Wakes(t)
<1>1. /\ pc[t] = "set.waiter" /\ Ev(t) \in Events /\ Ev(t)' = Ev(t) /\ asleep' = asleep
      /\ State' = State
  BY EventCall DEF SetWaiter, At, Control, SetPlaces, Serving, Types, Ev
<1>2. /\ Waiter(t) \in Wfmos /\ RegisteredWaits[Ev(t)] # <<>>
  BY <1>1, ComeTo DEF Control, Serving, Waits, InQueue, PlaceOf
<1>3. ASSUME NEW f \in Events \ {Ev(t)}
      PROVE  State'[f] = State[f] /\ RegisteredWaits'[f] = RegisteredWaits[f]
  BY <1>1 DEF SetWaiter, Pass, Types
<1>4. Ev(t) \in AutoReset /\ State'[Ev(t)] => RegisteredWaits'[Ev(t)] = <<>>
  BY <1>1, <1>2 DEF NoLostWakeup
<1>5. CASE EndedMeanwhile(t)
  <2>1. wfmo' = Unref(wfmo, Waiter(t), 1) /\ pc'[t] = "set.next"
    BY <1>5 DEF SetWaiter, Goto, Types
  <2>2. ASSUME NEW w \in Wfmos
        PROVE  Ended(w)' = Ended(w) /\ ~SignalsTo(t, w)
    <3>1. wfmo'[w].WaitAll = wfmo[w].WaitAll /\ wfmo'[w].Status = wfmo[w].Status
      BY <2>1 DEF Unref, Types, Wfmo
    <3> QED
      BY <1>1, <3>1 DEF Ended, SignalsTo
  <2>3. pc'[t] \in Signalling /\ pc[t] \notin WaitPlaces /\ pc[t] \in Signalling \cup {"set.lock"}
    BY <1>1, <2>1 DEF Signalling, Serving, WaitPlaces
  <2> QED
    BY <1>1, <1>3, <1>4, <2>2, <2>3, ServerWakes
<1>6. CASE ~EndedMeanwhile(t)
  <2>1. /\ wfmo' = Fire(Waiter(t), Registration(t).WaitIndex) /\ pc'[t] = "set.release"
        /\ RegisteredWaits' = RegisteredWaits /\ i' = i
    BY <1>6 DEF SetWaiter, Goto, Types
  <2>2. Waiter(t)' = Waiter(t)
    BY <1>1, <2>1 DEF Waiter, Registration, Waits
  <2>3. ASSUME NEW w \in Wfmos, Ended(w)'
        PROVE  SignalsTo(t, w)' \/ (Ended(w) /\ ~SignalsTo(t, w))
    <3>1. CASE w = Waiter(t)
      BY <2>1, <2>2, <3>1 DEF SignalsTo
    <3>2. CASE w # Waiter(t)
      <4>1. wfmo'[w] = wfmo[w]
        BY <2>1, <3>2 DEF Fire, Given, Types
      <4> QED
        BY <1>1, <2>3, <4>1 DEF Ended, SignalsTo
    <3> QED
      BY <3>1, <3>2
  <2>4. pc'[t] \in Signalling /\ pc[t] \notin WaitPlaces /\ pc[t] \in Signalling \cup {"set.lock"}
    BY <1>1, <2>1 DEF Signalling, Serving, WaitPlaces
  <2> QED
    BY <1>1, <1>3, <1>4, <2>3, <2>4, ServerWakes
<1> QED
  BY <1>5, <1>6

LEMMA SetReleaseWakes ==
  ASSUME Types, Control, NoLostWakeup, NEW t \in Threads, SetRelease(t)
  PROVE  Wakes(t)
<1>1. /\ pc[t] = "set.release" /\ Ev(t) \in Events /\ State' = State
      /\ wfmo' = Unref(wfmo, Waiter(t), 1) /\ Signal(Waiter(t))
  BY EventCall DEF SetRelease, At, Control, SetPlaces, Serving
<1>2. /\ Waiter(t) \in Wfmos /\ RegisteredWaits[Ev(t)] # <<>>
  BY <1>1, ComeTo DEF Control, Serving, Waits, InQueue, PlaceOf
<1>3. asleep'[Waiter(t)] = {} /\ \A m \in Events \cup Wfmos : m # Waiter(t) => asleep'[m] = asleep[m]
  <2>1. CASE asleep[Waiter(t)] = {}
    BY <1>1, <1>2, <2>1 DEF Signal
  <2>2. CASE asleep[Waiter(t)] # {}
    <3>1. PICK u \in asleep[Waiter(t)] : asleep' = [asleep EXCEPT ![Waiter(t)] = @ \ {u}]
      BY <1>1, <2>2 DEF Signal
    <3>2. asleep[Waiter(t)] \ {u} = {}
      BY <1>2, <3>1, OwnSleep
    <3> QED
      BY <1>2, <3>1, <3>2 DEF Types
  <2> QED
    BY <2>1, <2>2
<1>4. ASSUME NEW w \in Wfmos, asleep'[w] # {}, Ended(w)'
      PROVE  asleep[w] # {} /\ Ended(w) /\ ~SignalsTo(t, w)
  <2>1. w # Waiter(t) /\ asleep'[w] = asleep[w]
    BY <1>3, <1>4
  <2>2. wfmo'[w] = wfmo[w]
    BY <1>1, <2>1 DEF Unref, Types
  <2> QED
    BY <1>4, <2>1, <2>2 DEF Ended, SignalsTo
<1>5. \A f \in Events \ {Ev(t)} : RegisteredWaits'[f] = RegisteredWaits[f]
  BY <1>1 DEF SetRelease, Pass, Types
<1>6. Ev(t) \in AutoReset => ~State[Ev(t)]
  BY <1>2 DEF NoLostWakeup
<1>7. \A f \in Events : asleep'[f] = asleep[f]
  BY <1>2, <1>3, EventsAssumption
<1>8. CASE Ev(t) \in AutoReset
  <2>1. ASSUME NEW f \in Events, State'[f]
        PROVE  State[f] /\ ~WillTake(t, f)
    BY <1>1, <1>6, <1>8, <2>1 DEF WillTake, At
  <2>2. ASSUME NEW f \in AutoReset, State'[f]
        PROVE  RegisteredWaits'[f] = <<>>
    <3>1. f # Ev(t) /\ f \in Events /\ State[f]
      BY <1>1, <1>6, <2>2, EventsAssumption
    <3> QED
      BY <1>5, <3>1, <2>2 DEF NoLostWakeup
  <2> QED
    BY <1>4, <1>7, <2>1, <2>2 DEF Wakes
<1>9. CASE Ev(t) \notin AutoReset
  <2>1. pc'[t] = "set.next" /\ Ev(t)' = Ev(t)
    BY <1>9 DEF SetRelease, Goto, Types, Ev
  <2>2. pc'[t] \in Signalling /\ pc[t] \notin WaitPlaces /\ pc[t] \in Signalling \cup {"set.lock"}
    BY <1>1, <2>1 DEF Signalling, Serving, WaitPlaces
  <2> QED
    BY <1>1, <1>4, <1>5, <1>7, <1>9, <2>1, <2>2, ServerWakes
<1> QED
  BY <1>8, <1>9

(* An auto-reset event wakes up one of those that sleep, the other one all.*)
LEMMA SetSignalWakes ==
  ASSUME Types, Control, NoLostWakeup, NEW t \in Threads, SetSignal(t)
  PROVE  Wakes(t)
<1>1. /\ pc[t] = "set.signal" /\ Ev(t) \in Events /\ State' = State
      /\ RegisteredWaits' = RegisteredWaits /\ wfmo' = wfmo
  BY EventCall DEF SetSignal, At, Control, SetPlaces
<1>2. ASSUME NEW m \in Events \cup Wfmos, m # Ev(t)
      PROVE  asleep'[m] = asleep[m]
  BY <1>2 DEF SetSignal, Signal, Broadcast, Types
<1>3. ASSUME asleep'[Ev(t)] # {}
      PROVE  Ev(t) \in AutoReset /\ \E u \in Threads \ {t} : u \in asleep[Ev(t)] /\ u \notin asleep'[Ev(t)]
  <2>1. Ev(t) \in AutoReset
    BY <1>1, <1>3 DEF SetSignal, Broadcast, Types
  <2>2. asleep[Ev(t)] # {}
    BY <1>3, <2>1 DEF SetSignal, Signal
  <2>3. PICK u \in asleep[Ev(t)] : asleep' = [asleep EXCEPT ![Ev(t)] = @ \ {u}]
    BY <2>1, <2>2 DEF SetSignal, Signal
  <2>4. u \in Threads /\ pc[u] = "wait.sleep" /\ u \notin asleep'[Ev(t)]
    BY <1>1, <2>3 DEF Types, Control, Sleepers, At
  <2> QED
    BY <1>1, <2>1, <2>3, <2>4
<1>4. ASSUME NEW f \in Events, State'[f], asleep'[f] # {}
      PROVE  \/ f \in AutoReset /\ \E u \in Threads \ {t} : u \in asleep[f] /\ u \notin asleep'[f]
             \/ State[f] /\ asleep[f] # {} /\ asleep'[f] \subseteq asleep[f] /\ ~WillTake(t, f)
  <2>1. CASE f = Ev(t)
    BY <1>3, <1>4, <2>1
  <2>2. CASE f # Ev(t)
    BY <1>1, <1>2, <1>4, <2>2 DEF WillTake, At
  <2> QED
    BY <2>1, <2>2
<1>5. ASSUME NEW w \in Wfmos, asleep'[w] # {}, Ended(w)'
      PROVE  asleep[w] # {} /\ Ended(w) /\ ~SignalsTo(t, w)
  BY <1>1, <1>2, <1>5, EventsAssumption DEF Ended, SignalsTo
<1>6. \A f \in AutoReset : State'[f] => RegisteredWaits'[f] = <<>>
  BY <1>1 DEF NoLostWakeup
<1> QED
  BY <1>4, <1>5, <1>6 DEF Wakes

-----------------------------------------------------------------------------
(* The invariant.                                                          *)
LEMMA InitRegs ==
  ASSUME Init, NEW w
  PROVE  Owed(w) = {} /\ Missing(w) = {}
<1>1. \A e \in Events : RegisteredWaits[e] = <<>>
  BY DEF Init
<1> QED
  BY <1>1 DEF Owed, Missing, Regs, After

LEMMA InitIInv == Init => IInv
<1> SUFFICES ASSUME Init
             PROVE  IInv
  OBVIOUS
<1> USE EventsAssumption DEF Init
<1>1. Types
  BY EmptySeq DEF Types, Wfmo, Pc
<1>2. InCall /\ InQueue
  BY DEF InCall, CallOf, InQueue, PlaceOf, WaitPlaces, SetPlaces, Serving, MultiPlaces, Holding
<1>3. OneOwner /\ Locks /\ Sleepers
  BY DEF OneOwner, Locks, Sleepers, Serving, Holding
<1>4. Owned /\ Unfired /\ NoLostWakeup
  BY DEF Owned, Unfired, NoLostWakeup
<1>5. Balanced
  BY InitRegs, FS_EmptySet DEF Balanced
<1>6. Counted
  BY DEF Counted
<1> QED
  BY <1>1, <1>2, <1>3, <1>4, <1>5, <1>6 DEF IInv

(* Each step of a thread keeps it.                                         *)
LEMMA StepKeeps ==
  ASSUME IInv, NEW t \in Threads, Step(t) \/ Begin(t)
  PROVE  IInv'
<1>1. Types /\ Control /\ Counts /\ NoLostWakeup /\ Balanced
  BY DEF IInv, Control, Counts
<1>2. SUFFICES ASSUME TRUE
               PROVE  /\ Types' /\ Control' /\ Counts' /\ NoLostWakeup'
  BY <1>2 DEF IInv, Control, Counts
<1>3. CASE WaitLock(t)
  BY <1>1, <1>3, WaitLockMoves, WaitLockKeeps, WaitLockWakes, NobodySleepsThrough
<1>4. CASE WaitTimeout(t)
  BY <1>1, <1>4, WaitTimeoutMoves, WaitTimeoutKeeps, WaitTimeoutWakes, NobodySleepsThrough
<1>5. CASE WaitTimedOut(t)
  BY <1>1, <1>5, WaitTimedOutMoves, WaitTimedOutKeeps, WaitTimedOutWakes, NobodySleepsThrough
<1>6. CASE SetLock(t)
  BY <1>1, <1>6, SetLockMoves, SetLockKeeps, SetLockWakes, NobodySleepsThrough
<1>7. CASE SetNext(t)
  BY <1>1, <1>7, SetNextMoves, SetNextKeeps, SetNextWakes, NobodySleepsThrough
<1>8. CASE SetWaiter(t)
  BY <1>1, <1>8, SetWaiterMoves, SetWaiterKeeps, SetWaiterWakes, NobodySleepsThrough
<1>9. CASE SetRelease(t)
  BY <1>1, <1>9, SetReleaseMoves, SetReleaseKeeps, SetReleaseWakes, NobodySleepsThrough
<1>10. CASE SetSignal(t)
  BY <1>1, <1>10, SetSignalMoves, SetSignalKeeps, SetSignalWakes, NobodySleepsThrough
<1>11. CASE PulseReset(t)
  BY <1>1, <1>11, PulseResetMoves, PulseResetKeeps, PulseResetWakes, NobodySleepsThrough
<1>12. CASE MultiRegister(t)
  BY <1>1, <1>12, MultiRegisterMoves, MultiRegisterKeeps, MultiRegisterWakes, NobodySleepsThrough
<1>13. CASE MultiWait(t)
  BY <1>1, <1>13, MultiWaitMoves, MultiWaitKeeps, MultiWaitWakes, NobodySleepsThrough
<1>14. CASE MultiTimeout(t)
  BY <1>1, <1>14, MultiTimeoutMoves, MultiTimeoutKeeps, MultiTimeoutWakes, NobodySleepsThrough
<1>15. CASE MultiTimedOut(t)
  BY <1>1, <1>15, MultiTimedOutMoves, MultiTimedOutKeeps, MultiTimedOutWakes, NobodySleepsThrough
<1>16. CASE MultiDone(t)
  BY <1>1, <1>16, MultiDoneMoves, MultiDoneKeeps, MultiDoneWakes, NobodySleepsThrough
<1>17. CASE MultiUnref(t)
  BY <1>1, <1>17, MultiUnrefMoves, MultiUnrefKeeps, MultiUnrefWakes, NobodySleepsThrough
<1>18. ASSUME NEW c \in Calls[t],
             CallWait(t, c) \/ CallSet(t, c) \/ ResetEvent(t, c) \/ CallMulti(t, c) \/ DestroyEvent(t, c)
      PROVE  /\ Types' /\ Control' /\ Counts' /\ NoLostWakeup'
  <2>1. CASE CallWait(t, c)
    BY <1>1, <2>1, CallWaitMoves, CallWaitKeeps, CallWaitWakes, NobodySleepsThrough
  <2>2. CASE CallSet(t, c)
    BY <1>1, <2>2, CallSetMoves, CallSetKeeps, CallSetWakes, NobodySleepsThrough
  <2>3. CASE ResetEvent(t, c)
    BY <1>1, <2>3, ResetEventMoves, ResetEventKeeps, ResetEventWakes, NobodySleepsThrough
  <2>4. CASE CallMulti(t, c)
    BY <1>1, <2>4, CallMultiMoves, CallMultiKeeps, CallMultiWakes, NobodySleepsThrough
  <2>5. CASE DestroyEvent(t, c)
    BY <1>1, <2>5, DestroyEventMoves, DestroyEventKeeps, DestroyEventWakes, NobodySleepsThrough
  <2> QED
    BY <1>18, <2>1, <2>2, <2>3, <2>4, <2>5
<1> QED
  BY <1>3, <1>4, <1>5, <1>6, <1>7, <1>8, <1>9, <1>10, <1>11, <1>12, <1>13, <1>14, <1>15, <1>16,
     <1>17, <1>18 DEF Step, Begin

LEMMA StutterKeeps ==
  ASSUME IInv, UNCHANGED vars
  PROVE  IInv'
<1> USE DEF vars
<1>1. Passed' = Passed /\ Served' = Served
  BY DEF Passed, Served
<1>2. \A w : Owed(w)' = Owed(w) /\ Missing(w)' = Missing(w)
  BY <1>1 DEF Owed, Missing
<1>3. Types' /\ OneOwner' /\ Locks' /\ Sleepers'
  BY DEF IInv, Types, OneOwner, Locks, Sleepers, At, Ev
<1>4. InCall' /\ InQueue'
  BY DEF IInv, InCall, CallOf, InQueue, PlaceOf, Count, Waits, Ev
<1>5. Owned' /\ Unfired'
  BY <1>2 DEF IInv, Owned, Unfired, At, Count
<1>6. Balanced' /\ Counted'
  BY <1>2 DEF IInv, Balanced, Counted, Unvisited, Count
<1>7. NoLostWakeup'
  BY DEF IInv, NoLostWakeup, At, Ev, Woken, Ended, BeingSignalled, Waiter, Registration, Waits
<1> QED
  BY <1>3, <1>4, <1>5, <1>6, <1>7 DEF IInv

LEMMA NextKeeps ==
  ASSUME IInv, [Next]_vars
  PROVE  IInv'
BY StepKeeps, StutterKeeps DEF Next

(* The registrations, references and counts of all wfmo objects stay in    *)
(* balance, and who waits is woken, whatever the threads call.             *)
THEOREM Invariance == Spec => []IInv
<1>1. Init => IInv
  BY InitIInv
<1>2. IInv /\ [Next]_vars => IInv'
  BY NextKeeps
<1> QED
  BY <1>1, <1>2, PTL DEF Spec

-----------------------------------------------------------------------------
(* The properties.                                                         *)

(* The variables of the events, the wfmo objects and the threads have      *)
(* their types at every step of pevents.cpp.                               *)
THEOREM TypeCorrect == Spec => []TypeOK
<1>1. IInv => TypeOK
  <2> SUFFICES ASSUME IInv
               PROVE  TypeOK
    OBVIOUS
  <2>1. Types /\ InCall
    BY DEF IInv
  <2>2. ASSUME NEW e \in Events, NEW r \in Range(RegisteredWaits[e])
        PROVE  r \in [Waiter : Wfmos, WaitIndex : Nat]
    <3>1. RegisteredWaits[e] \in Seq(Registrations)
      BY <2>1 DEF Types
    <3>2. PICK k \in DOMAIN RegisteredWaits[e] : r = RegisteredWaits[e][k]
      BY DEF Range
    <3>3. RegisteredWaits[e][k] \in Registrations
      BY <3>1
    <3> QED
      BY <3>2, <3>3 DEF Registrations
  <2> QED
    BY <2>1, <2>2 DEF TypeOK, Types, InCall, CallOf
<1> QED
  BY <1>1, Invariance, PTL

(* Nobody sleeps through an event that is set, on the event or on a wait   *)
(* for several: whoever sets it, takes it or gives it up, there is always  *)
(* a thread on its way to take it or to signal it.                         *)
THEOREM WakeupsReach == Spec => []NoLostWakeup
<1>1. IInv => NoLostWakeup
  BY DEF IInv
<1> QED
  BY <1>1, Invariance, PTL

(* What holds a reference is what the SetEvent has not passed.             *)
LEMMA HeldIsOwed ==
  ASSUME Types, Control, NEW w
  PROVE  Held(w) = Owed(w)
<1>1. ASSUME NEW e \in Events, NEW k \in DOMAIN RegisteredWaits[e]
      PROVE  (\A t \in Threads : Setting(t, e) => i[t] < k) <=> Passed[e] < k
  <2>1. k \in Nat \ {0}
    BY DEF Types
  <2>2. CASE Mutex[e] = NULL
    <3>1. \A t \in Threads : ~Setting(t, e)
      BY <2>2, EventsAssumption DEF Setting, Control, Locks, Serving
    <3>2. Passed[e] = 0
      BY <2>2 DEF Passed
    <3> QED
      BY <2>1, <3>1, <3>2
  <2>3. CASE Mutex[e] # NULL
    <3>1. Mutex[e] \in Threads /\ Setting(Mutex[e], e)
      BY <2>3 DEF Setting, Control, Locks, Serving, Types
    <3>2. \A t \in Threads : Setting(t, e) => t = Mutex[e]
      BY DEF Setting, Control, Locks, Serving
    <3>3. Passed[e] = i[Mutex[e]]
      BY <2>3 DEF Passed
    <3> QED
      BY <3>1, <3>2, <3>3
  <2> QED
    BY <2>2, <2>3
<1>2. ASSUME NEW e \in Events
      PROVE  {k \in DOMAIN RegisteredWaits[e] :
                /\ RegisteredWaits[e][k].Waiter = w
                /\ \A t \in Threads : Setting(t, e) => i[t] < k}
               = After(RegisteredWaits[e], Passed[e], w)
  BY <1>1 DEF After
<1> QED
  BY <1>2 DEF Held, Owed, Regs

(* A wfmo object is freed exactly when nothing leads to it any more: its   *)
(* references are its registrations, its caller's and those its caller did *)
(* not use, whichever of SetEvent, DestroyEvent, RemoveExpiredWaits and    *)
(* WaitForMultipleEvents lets go of it last.                               *)
THEOREM RefsStayBalanced == Spec => []RefsBalanced
<1>1. IInv => RefsBalanced
  <2> SUFFICES ASSUME IInv, NEW w \in Wfmos
               PROVE  \/ OwnersOf(w) = {} /\ wfmo[w].RefCount = Cardinality(Held(w))
                      \/ \E t \in Threads :
                           /\ OwnersOf(w) = {t}
                           /\ wfmo[w].RefCount = Cardinality(Held(w)) + 1 + skipped_refs[t] + Unvisited(t)
    BY DEF RefsBalanced
  <2>1. Held(w) = Owed(w)
    BY HeldIsOwed DEF IInv, Control
  <2>2. CASE \A t \in Threads : mine[t] # w
    <3>1. OwnersOf(w) = {}
      BY <2>2 DEF OwnersOf
    <3>2. wfmo[w].RefCount = Cardinality(Owed(w))
      BY <2>2 DEF IInv, Balanced
    <3> QED
      BY <2>1, <3>1, <3>2
  <2>3. ASSUME NEW t \in Threads, mine[t] = w
        PROVE  /\ OwnersOf(w) = {t}
               /\ wfmo[w].RefCount = Cardinality(Held(w)) + 1 + skipped_refs[t] + Unvisited(t)
    <3>1. w # NULL
      BY EventsAssumption
    <3>2. OwnersOf(w) = {t}
      BY <2>3, <3>1 DEF OwnersOf, IInv, OneOwner
    <3>3. wfmo[w].RefCount = Cardinality(Owed(w)) + 1 + skipped_refs[t] + Unvisited(t)
      BY <2>3, <3>1 DEF IInv, Balanced
    <3> QED
      BY <2>1, <3>2, <3>3
  <2> QED
    BY <2>2, <2>3
<1> QED
  BY <1>1, Invariance, PTL

(* A registration that is owed an event but no longer missing it belongs to*)
(* a thread that is signalling it.                                         *)
LEMMA SignalledIsOwed ==
  ASSUME IInv, NEW w \in Wfmos
  PROVE  /\ IsFiniteSet(Owed(w)) /\ Cardinality(Owed(w)) \in Nat
         /\ Cardinality(BeingSignalled(w)) \in Nat
         /\ Cardinality(Missing(w)) = Cardinality(Owed(w)) - Cardinality(BeingSignalled(w))
<1>0. Types /\ Control /\ Counts /\ InCall /\ InQueue /\ Locks
  BY DEF IInv, Control, Counts
<1> DEFINE B == BeingSignalled(w)
           D == Owed(w) \ Missing(w)
           g == [t \in B |-> <<Ev(t), i[t] + 1>>]
<1>1. IsFiniteSet(Owed(w)) /\ Cardinality(Owed(w)) \in Nat
  BY <1>0, FS_CardinalityType DEF Counts, Balanced
<1>2. ASSUME NEW e \in Events
      PROVE  /\ Passed[e] \in Nat /\ Served[e] \in {Passed[e], Passed[e] + 1}
             /\ Served[e] # Passed[e] <=> Mutex[e] # NULL /\ pc[Mutex[e]] = "set.release"
             /\ Mutex[e] # NULL => Passed[e] = i[Mutex[e]] /\ Mutex[e] \in Threads
  <2>1. /\ Passed[e] = IF Mutex[e] = NULL THEN 0 ELSE i[Mutex[e]]
        /\ Mutex[e] # NULL => Mutex[e] \in Threads /\ i[Mutex[e]] \in Nat
    BY <1>0 DEF Passed, Types
  <2>2. Served[e] = IF Mutex[e] # NULL /\ pc[Mutex[e]] = "set.release" THEN Passed[e] + 1 ELSE Passed[e]
    BY DEF Served
  <2> QED
    BY <2>1, <2>2
<1>3. Missing(w) \subseteq Owed(w)
  <2>1. ASSUME NEW e \in Events
        PROVE  After(RegisteredWaits[e], Served[e], w) \subseteq After(RegisteredWaits[e], Passed[e], w)
    <3>1. DOMAIN RegisteredWaits[e] \subseteq Nat
      BY <1>0 DEF Types
    <3> QED
      BY <1>2, <3>1 DEF After
  <2> QED
    BY <2>1 DEF Missing, Owed, Regs
<1>4. D = UNION {{e} \X (After(RegisteredWaits[e], Passed[e], w) \ After(RegisteredWaits[e], Served[e], w))
                   : e \in Events}
  BY DEF Missing, Owed, Regs
<1>5. ASSUME NEW t \in B
      PROVE  t \in Threads /\ Ev(t) \in Events /\ Mutex[Ev(t)] = t /\ g[t] \in D
  <2>1. t \in Threads /\ pc[t] = "set.release" /\ Waiter(t) = w /\ t # NULL
    BY EventsAssumption DEF BeingSignalled
  <2>2. Ev(t) \in Events /\ Mutex[Ev(t)] = t /\ i[t] \in Nat
    BY <1>0, <2>1, EventCall DEF SetPlaces, Serving, Locks
  <2>3. i[t] + 1 \in DOMAIN Waits(t) /\ Waits(t)[i[t] + 1].Waiter = w
    <3>1. i[t] < Len(Waits(t)) /\ Waits(t) \in Seq(Registrations)
      BY <1>0, <2>1, <2>2 DEF InQueue, PlaceOf, Serving, Waits, Types
    <3> QED
      BY <2>1, <2>2, <3>1 DEF Waiter, Registration
  <2>4. Passed[Ev(t)] = i[t] /\ Served[Ev(t)] = i[t] + 1
    BY <1>2, <2>1, <2>2
  <2>5. i[t] + 1 \in After(Waits(t), i[t], w) \ After(Waits(t), i[t] + 1, w)
    BY <2>2, <2>3 DEF After
  <2>6. g[t] = <<Ev(t), i[t] + 1>>
    OBVIOUS
  <2> QED
    BY <1>4, <2>1, <2>2, <2>4, <2>5, <2>6 DEF Waits
<1>6. ASSUME NEW p \in D
      PROVE  \E t \in B : g[t] = p
  <2>1. PICK e \in Events :
          p \in {e} \X (After(RegisteredWaits[e], Passed[e], w) \ After(RegisteredWaits[e], Served[e], w))
    BY <1>4
  <2>2. PICK k : /\ p = <<e, k>> /\ k \in DOMAIN RegisteredWaits[e] /\ RegisteredWaits[e][k].Waiter = w
                 /\ Passed[e] < k /\ ~(Served[e] < k)
    BY <2>1 DEF After
  <2>3. k \in Nat
    BY <1>0, <2>2 DEF Types
  <2>4. Served[e] # Passed[e] /\ k = Passed[e] + 1
    BY <1>2, <2>2, <2>3
  <2>5. /\ Mutex[e] \in Threads /\ pc[Mutex[e]] = "set.release" /\ Ev(Mutex[e]) = e
        /\ i[Mutex[e]] = Passed[e]
    BY <1>0, <1>2, <2>4 DEF Locks
  <2>6. Waiter(Mutex[e]) = w
    BY <2>2, <2>4, <2>5 DEF Waiter, Registration, Waits
  <2> QED
    BY <2>2, <2>4, <2>5, <2>6 DEF BeingSignalled
<1>7. g \in Bijection(B, D)
  <2>1. g \in [B -> D]
    BY <1>5
  <2>2. \A t, u \in B : g[t] = g[u] => t = u
    <3> SUFFICES ASSUME NEW t \in B, NEW u \in B, g[t] = g[u]
                 PROVE  t = u
      OBVIOUS
    <3>1. Ev(t) = Ev(u)
      OBVIOUS
    <3> QED
      BY <1>5, <3>1
  <2> QED
    BY <1>6, <2>1, <2>2, Fun_IsBij, Fun_IsInj, Fun_IsSurj
<1> HIDE DEF g
<1>8. IsFiniteSet(D) /\ Cardinality(D) = Cardinality(Owed(w)) - Cardinality(Missing(w))
  <2>1. IsFiniteSet(D) /\ Cardinality(D) = Cardinality(Owed(w)) - Cardinality(Owed(w) \cap Missing(w))
    BY <1>1, FS_Difference
  <2>2. Owed(w) \cap Missing(w) = Missing(w)
    BY <1>3
  <2> QED
    BY <2>1, <2>2
<1>9. IsFiniteSet(B) /\ Cardinality(B) = Cardinality(D) /\ Cardinality(B) \in Nat
  <2>1. ExistsBijection(D, B)
    BY <1>7, Fun_ExistsBij, Fun_ExistsBijSymmetric
  <2> QED
    BY <1>8, <2>1, FS_Bijection, FS_CardinalityType
<1>10. Cardinality(Missing(w)) \in Nat
  BY <1>1, <1>3, FS_Subset, FS_CardinalityType
<1> QED
  BY <1>1, <1>8, <1>9, <1>10

(* A wait for all that still waits counts the events it has not been given:*)
(* those it has not come to and those it is registered with, less the ones *)
(* that are being signalled.  It cannot return with one of them missing nor*)
(* wait for one it was given.                                              *)
THEOREM LeftStayCounted == Spec => []LeftCounted
<1>1. IInv => LeftCounted
  <2> SUFFICES ASSUME IInv, NEW t \in Threads, mine[t] # NULL,
                      wfmo[mine[t]].WaitAll, wfmo[mine[t]].StillWaiting
               PROVE  wfmo[mine[t]].Status =
                        Cardinality(Held(mine[t])) - Cardinality(BeingSignalled(mine[t])) + Unvisited(t)
    BY DEF LeftCounted
  <2>1. mine[t] \in Wfmos
    BY DEF IInv, Types
  <2>2. Held(mine[t]) = Owed(mine[t])
    BY HeldIsOwed DEF IInv, Control
  <2>3. wfmo[mine[t]].Status = Cardinality(Missing(mine[t])) + Unvisited(t)
    BY DEF IInv, Counted
  <2> QED
    BY <2>1, <2>2, <2>3, SignalledIsOwed
<1> QED
  BY <1>1, Invariance, PTL

(* An event of which w is owed the registration t has come to.             *)
LEMMA ComeToOwed ==
  ASSUME Types, Control, NEW t \in Threads, pc[t] \in Serving, i[t] # Len(Waits(t))
  PROVE  <<Ev(t), i[t] + 1>> \in Owed(Waiter(t)) /\ Waiter(t) \in Wfmos /\ Ev(t) \in Events
<1>1. Ev(t) \in Events /\ Mutex[Ev(t)] = t /\ t # NULL /\ i[t] \in Nat
  BY EventCall, EventsAssumption DEF Control, Locks, SetPlaces
<1>2. Passed[Ev(t)] = i[t]
  BY <1>1 DEF Passed
<1>3. i[t] + 1 \in 1 .. Len(Waits(t)) /\ Waiter(t) \in Wfmos /\ Waits(t) \in Seq(Registrations)
  BY <1>1, ComeTo DEF Control, Waits, Types
<1>4. i[t] + 1 \in After(Waits(t), i[t], Waiter(t))
  BY <1>1, <1>3 DEF After, Waiter, Registration
<1> QED
  BY <1>1, <1>2, <1>3, <1>4 DEF Owed, Regs, Waits

(* A thread that wants a mutex is about to lock an event or a wait.        *)
LEMMA WantsOne ==
  ASSUME NEW t \in Threads, NEW x \in Wants(t)
  PROVE  \/ pc[t] \in {"wait.lock", "wait.timedout", "set.lock"} /\ x = Ev(t)
         \/ pc[t] = "set.waiter" /\ x = Waiter(t)
         \/ pc[t] = "multi.register" /\ i[t] < Count(t) /\ x = CurrentEvent(t)
         \/ pc[t] = "multi.timedout" /\ x = mine[t]
BY DEF Wants, At

Registering(t) == pc[t] = "multi.register" /\ i[t] < Count(t)

(* Who holds what a thread wants: a SetEvent that holds an event and wants *)
(* something itself wants a wait, and it is a WaitForMultipleEvents that   *)
(* is registering which holds that.                                        *)
LEMMA HeldBySetter ==
  ASSUME Types, Control, NEW e \in Events, NEW S \in SUBSET Threads, Mutex[e] \in S,
         WaitsForOneOf(Mutex[e], S)
  PROVE  LET u == Mutex[e] IN
         /\ pc[u] = "set.waiter" /\ Ev(u) = e /\ Mutex[Waiter(u)] \in S
<1> DEFINE u == Mutex[e]
<1>1. u \in Threads /\ u # NULL
  BY EventsAssumption
<1>2. pc[u] \in Serving /\ Ev(u) = e
  BY <1>1 DEF Control, Locks
<1>3. PICK x \in Wants(u) : Mutex[x] \in S
  BY DEF WaitsForOneOf
<1> HIDE DEF u
<1>4. pc[u] = "set.waiter" /\ x = Waiter(u)
  BY <1>1, <1>2, WantsOne DEF Serving
<1> QED
  BY <1>2, <1>3, <1>4 DEF u

LEMMA HeldByWaiter ==
  ASSUME Types, Control, NEW w \in Wfmos, NEW S \in SUBSET Threads, Mutex[w] \in S,
         WaitsForOneOf(Mutex[w], S)
  PROVE  LET v == Mutex[w] IN
         /\ Registering(v) /\ mine[v] = w /\ Mutex[CurrentEvent(v)] \in S
<1> DEFINE v == Mutex[w]
<1>1. v \in Threads /\ v # NULL
  BY EventsAssumption
<1>2. pc[v] \in Holding /\ mine[v] = w
  BY <1>1 DEF Control, Locks
<1>3. PICK x \in Wants(v) : Mutex[x] \in S
  BY DEF WaitsForOneOf
<1> HIDE DEF v
<1>4. Registering(v) /\ x = CurrentEvent(v)
  BY <1>1, <1>2, WantsOne DEF Holding, Registering
<1> QED
  BY <1>2, <1>3, <1>4 DEF v

(* From the event a wait wants to one of a wait further on.                *)
LEMMA NextInCircle ==
  ASSUME Types, Control, Owned, NEW S \in SUBSET Threads, \A t \in S : WaitsForOneOf(t, S),
         NEW rank \in [Events -> Nat],
         \A t \in Threads : \A c \in Calls[t] : c.fn = "WaitForMultipleEvents" =>
           \A j, k \in DOMAIN c.events : j < k => rank[c.events[j]] < rank[c.events[k]],
         NEW e \in Events, Mutex[e] \in S
  PROVE  \E v \in S : /\ CurrentEvent(v) \in Events /\ Mutex[CurrentEvent(v)] \in S
                      /\ rank[e] < rank[CurrentEvent(v)]
<1> DEFINE u == Mutex[e]
           w == Waiter(u)
           v == Mutex[w]
<1>1. u \in Threads /\ pc[u] = "set.waiter" /\ Ev(u) = e /\ v \in S
  BY HeldBySetter
<1> HIDE DEF u
<1>2. i[u] # Len(Waits(u)) /\ pc[u] \in Serving
  <2>1. i[u] < Len(Waits(u)) /\ i[u] \in Nat
    BY <1>1 DEF Control, InQueue, PlaceOf, Serving, Types
  <2> QED
    BY <1>1, <2>1 DEF Serving
<1>3. <<e, i[u] + 1>> \in Owed(w) /\ w \in Wfmos
  BY <1>1, <1>2, ComeToOwed
<1> HIDE DEF w
<1>4. v \in Threads /\ Registering(v) /\ mine[v] = w /\ Mutex[CurrentEvent(v)] \in S
  BY <1>1, <1>3, HeldByWaiter
<1> HIDE DEF v
<1>5. mine[v] # NULL
  BY <1>3, <1>4, EventsAssumption
<1>6. PICK j \in 1 .. i[v] : j =< Count(v) /\ e = call[v].events[j]
  BY <1>3, <1>4, <1>5 DEF Owned
<1>7. /\ call[v] \in Calls[v] /\ call[v].fn = "WaitForMultipleEvents"
      /\ i[v] \in Nat /\ i[v] < Count(v)
  BY <1>4 DEF Control, InCall, CallOf, Registering, MultiPlaces, Holding, Types
<1>8. call[v].events \in Seq(Events)
  BY <1>4, <1>7, EventsAssumption DEF Call
<1>9. /\ j \in DOMAIN call[v].events /\ i[v] + 1 \in DOMAIN call[v].events /\ j < i[v] + 1
      /\ CurrentEvent(v) = call[v].events[i[v] + 1] /\ CurrentEvent(v) \in Events
  <2>1. DOMAIN call[v].events = 1 .. Count(v) /\ Count(v) \in Nat
    BY <1>8 DEF Count
  <2>2. j \in 1 .. Count(v) /\ i[v] + 1 \in 1 .. Count(v) /\ j < i[v] + 1
    BY <1>6, <1>7, <2>1
  <2>3. call[v].events[i[v] + 1] \in Events
    BY <1>8, <2>1, <2>2
  <2> QED
    BY <2>1, <2>2, <2>3 DEF CurrentEvent
<1>10. rank[call[v].events[j]] < rank[call[v].events[i[v] + 1]]
  BY <1>4, <1>7, <1>9
<1> QED
  BY <1>1, <1>4, <1>6, <1>9, <1>10 DEF v

(* From any thread in a circle to an event that is wanted by a wait.       *)
LEMMA CircleHasEvent ==
  ASSUME Types, Control, NEW S \in SUBSET Threads, \A t \in S : WaitsForOneOf(t, S), S # {}
  PROVE  \E e \in Events : Mutex[e] \in S
<1>1. PICK t \in S : TRUE
  OBVIOUS
<1>2. PICK x \in Wants(t) : Mutex[x] \in S
  BY DEF WaitsForOneOf
<1>3. CASE pc[t] \in {"wait.lock", "wait.timedout", "set.lock"} /\ x = Ev(t)
  BY <1>2, <1>3, EventCall DEF Control, WaitPlaces, SetPlaces
<1>4. CASE pc[t] = "set.waiter" /\ x = Waiter(t)
  BY <1>4, EventCall, EventsAssumption DEF Control, Locks, SetPlaces, Serving
<1>5. CASE Registering(t) /\ x = CurrentEvent(t)
  BY <1>2, <1>5, MultiCall DEF Registering, Control, MultiPlaces, Holding
<1>6. CASE pc[t] = "multi.timedout" /\ x = mine[t]
  <2>1. mine[t] \in Wfmos
    BY <1>6 DEF Control, InCall, CallOf, MultiPlaces, Types
  <2>2. Mutex[x] \in Threads /\ Mutex[x] # NULL
    BY <1>2, EventsAssumption
  <2>3. pc[Mutex[x]] \in Holding /\ mine[Mutex[x]] = mine[t]
    BY <1>6, <2>1, <2>2 DEF Control, Locks
  <2>4. Mutex[x] = t
    BY <2>1, <2>2, <2>3, EventsAssumption DEF Control, OneOwner
  <2> QED
    BY <1>6, <2>3, <2>4 DEF Holding
<1> QED
  BY <1>2, <1>3, <1>4, <1>5, <1>6, WantsOne DEF Registering

(* Threads never wait for each other's mutexes in a circle, although       *)
(* SetEvent locks an event and then the waits registered with it, while    *)
(* WaitForMultipleEvents holds its wait and locks the events: it has only  *)
(* registered with events it is through with, so that if all waits name    *)
(* their events in one order, the holders come later and later in it.      *)
THEOREM NoCircles ==
  ASSUME OrderedCalls
  PROVE  Spec => []NoCircularWait
<1>1. IInv => NoCircularWait
  <2> SUFFICES ASSUME IInv, NEW S \in SUBSET Threads, S # {}, \A t \in S : WaitsForOneOf(t, S)
               PROVE  FALSE
    BY DEF NoCircularWait
  <2>1. PICK rank \in [Events -> Nat] :
          \A t \in Threads : \A c \in Calls[t] : c.fn = "WaitForMultipleEvents" =>
            \A j, k \in DOMAIN c.events : j < k => rank[c.events[j]] < rank[c.events[k]]
    BY DEF OrderedCalls
  <2>2. Types /\ Control /\ Owned
    BY DEF IInv, Control
  <2> DEFINE Ahead(e) == {u \in S : \E f \in Events : Mutex[f] = u /\ rank[e] < rank[f]}
             T == {Ahead(e) : e \in {f \in Events : Mutex[f] \in S}}
  <2>3. IsFiniteSet(S)
    BY FS_Subset DEF OrderedCalls
  <2>4. \A A \in T : A \in FiniteSubsetsOf(S)
    BY <2>3, FS_FiniteSubsetsOfFinite
  <2>5. T # {}
    <3>1. PICK e \in Events : Mutex[e] \in S
      BY <2>2, CircleHasEvent
    <3>2. Ahead(e) \in T
      BY <3>1
    <3> QED
      BY <3>2
  <2>6. PICK A \in T : \A B \in T : <<B, A>> \notin StrictSubsetOrdering(S)
    BY <2>4, <2>5, FS_StrictSubsetOrderingWellFounded, WFMin
  <2>7. PICK e \in Events : Mutex[e] \in S /\ A = Ahead(e)
    BY <2>6
  <2>8. PICK v \in S : /\ CurrentEvent(v) \in Events /\ Mutex[CurrentEvent(v)] \in S
                       /\ rank[e] < rank[CurrentEvent(v)]
    BY <2>1, <2>2, <2>7, NextInCircle
  <2> DEFINE f == CurrentEvent(v)
  <2>9. Ahead(f) \in T /\ Ahead(f) \subseteq Ahead(e)
    <3>1. rank[e] \in Nat /\ rank[f] \in Nat
      BY <2>7, <2>8
    <3> QED
      BY <2>8, <3>1
  <2>10. Mutex[f] \in Ahead(e) /\ Mutex[f] \notin Ahead(f)
    <3>1. \A g \in Events : Mutex[g] = Mutex[f] => g = f
      BY <2>2, <2>8, EventsAssumption DEF Control, Locks
    <3>2. ~(rank[f] < rank[f])
      BY <2>8
    <3> QED
      BY <2>8, <3>1, <3>2
  <2>11. <<Ahead(f), A>> \in StrictSubsetOrdering(S)
    BY <2>7, <2>9, <2>10 DEF StrictSubsetOrdering
  <2> QED
    BY <2>6, <2>9, <2>11
<1> QED
  BY <1>1, Invariance, PTL

(* Who changes what a wait was given: the wait itself while it registers,  *)
(* and a SetEvent that serves it.                                          *)
Serves(t, w) ==
  /\ At(t, "set.waiter") /\ Waiter(t) = w /\ IsFree(w) /\ ~EndedMeanwhile(t)
  /\ wfmo' = Fire(w, Registration(t).WaitIndex)
LEMMA GivenStays ==
  ASSUME IInv, NEW t \in Threads, Step(t) \/ Begin(t),
         NEW w \in Wfmos, wfmo[w].RefCount > 0
  PROVE  /\ wfmo'[w].WaitAll = wfmo[w].WaitAll
         /\ \/ wfmo'[w].Status = wfmo[w].Status
            \/ mine[t] = w /\ pc[t] = "multi.register"
            \/ Serves(t, w)
<1> DEFINE Same == wfmo'[w].WaitAll = wfmo[w].WaitAll /\ wfmo'[w].Status = wfmo[w].Status
<1>1. Types /\ Control /\ Counts /\ wfmo \in [Wfmos -> Wfmo] /\ wfmo[w] \in Wfmo
  BY DEF IInv, Control, Counts, Types
<1>2. ASSUME NEW x, NEW n, wfmo' = Unref(wfmo, x, n)
      PROVE  Same
  BY <1>1, <1>2 DEF Unref, Wfmo
<1>4. CASE SetNext(t)
  <2>1. wfmo' = wfmo \/ wfmo' = Unref(wfmo, Waiter(t), 1)
    BY <1>4 DEF SetNext
  <2> QED
    BY <1>2, <2>1
<1>5. CASE SetWaiter(t)
  <2>1. CASE wfmo' = Unref(wfmo, Waiter(t), 1)
    BY <1>2, <2>1
  <2>2. CASE wfmo' = Fire(Waiter(t), Registration(t).WaitIndex) /\ ~EndedMeanwhile(t)
    <3>1. CASE Waiter(t) = w
      <4>1. Serves(t, w)
        BY <1>5, <2>2, <3>1 DEF SetWaiter, Serves
      <4>2. wfmo'[w].WaitAll = wfmo[w].WaitAll
        BY <1>1, <2>2 DEF Fire, Given, Wfmo
      <4> QED
        BY <4>1, <4>2
    <3>2. CASE Waiter(t) # w
      BY <1>1, <2>2, <3>2 DEF Fire, Given
    <3> QED
      BY <3>1, <3>2
  <2> QED
    BY <1>5, <2>1, <2>2 DEF SetWaiter
<1>6. CASE SetRelease(t) \/ MultiUnref(t)
  BY <1>2, <1>6 DEF SetRelease, MultiUnref
<1>7. CASE MultiDone(t)
  BY <1>1, <1>7 DEF MultiDone, Wfmo
<1>8. CASE MultiRegister(t)
  <2>1. PICK objects \in [Wfmos -> Wfmo] : \E waits \in [Events -> Seq(Registrations)] :
          /\ \A v \in Wfmos : Intact(v, objects, waits)
          /\ Registers(t, objects, waits) \/ IsGiven(t, objects, waits)
    BY <1>1, <1>8, MultiRegisterEffect
  <2>2. /\ objects[w].Status = wfmo[w].Status /\ objects[w].WaitAll = wfmo[w].WaitAll
        /\ wfmo' \in {objects, Given(objects, mine[t], i[t])}
    BY <2>1 DEF Intact, Registers, IsGiven
  <2>3. pc[t] = "multi.register"
    BY <1>8 DEF MultiRegister, At
  <2>4. Given(objects, mine[t], i[t])[w].WaitAll = objects[w].WaitAll
    BY <2>1 DEF Given, Wfmo
  <2>5. mine[t] # w => Given(objects, mine[t], i[t])[w].Status = objects[w].Status
    BY <2>1 DEF Given
  <2> QED
    BY <2>2, <2>3, <2>4, <2>5
<1>9. CASE \E c \in Calls[t] : CallMulti(t, c)
  BY <1>1, <1>9 DEF CallMulti
<1>10. CASE \E c \in Calls[t] : DestroyEvent(t, c)
  <2>1. PICK n : wfmo'[w] = [wfmo[w] EXCEPT !.RefCount = n]
    BY <1>10 DEF DestroyEvent, Cleaned
  <2>2. wfmo'[w].Status = wfmo[w].Status
    BY <1>1, <2>1 DEF Wfmo
  <2>3. wfmo'[w].WaitAll = wfmo[w].WaitAll
    BY <1>1, <2>1 DEF Wfmo
  <2> QED
    BY <2>2, <2>3
<1>11. CASE wfmo' = wfmo
  BY <1>11
<1> QED
  BY <1>4, <1>5, <1>6, <1>7, <1>8, <1>9, <1>10, <1>11
     DEF Step, Begin, WaitLock, WaitTimeout, WaitTimedOut, SetLock, SetSignal, PulseReset,
        MultiWait,
         MultiTimeout, MultiTimedOut, CallWait, CallSet, ResetEvent

(* A wait for any of several that is over is given nothing but a manual-   *)
(* reset event that came to it before.                                     *)
LEMMA OnlyOverwritten ==
  ASSUME IInv, NEW t \in Threads, Step(t) \/ Begin(t),
         NEW w \in Wfmos, ForAny(w), Over(w)
  PROVE  wfmo'[w].Status = wfmo[w].Status \/ OverwrittenBy(t, w)
<1>1. /\ Types /\ Control /\ wfmo \in [Wfmos -> Wfmo] /\ ~wfmo[w].WaitAll
      /\ wfmo[w].RefCount > 0 /\ (wfmo[w].Status # -1 \/ ~wfmo[w].StillWaiting)
  BY DEF IInv, Control, Types, ForAny, Over, Ended
<1>2. ASSUME NEW u \in Threads, mine[u] = w, pc[u] # "multi.done", wfmo[w].StillWaiting
      PROVE  FALSE
  BY <1>1, <1>2, EventsAssumption DEF IInv, Unfired
<1>3. CASE mine[t] = w /\ pc[t] = "multi.register"
  <2>1. wfmo[w].StillWaiting
    BY <1>3, EventsAssumption DEF IInv, Owned, At
  <2> QED
    BY <1>2, <1>3, <2>1
<1>4. CASE Serves(t, w)
  <2>1. Ev(t) \notin AutoReset
    <3>1. SUFFICES ASSUME Ev(t) \in AutoReset
                   PROVE  FALSE
      OBVIOUS
    <3>2. wfmo[w].StillWaiting /\ Mutex[w] = NULL
      BY <1>4, <3>1 DEF Serves, EndedMeanwhile, IsFree
    <3>3. PICK u \in Threads : mine[u] = w
      BY <3>2 DEF IInv, Owned
    <3>4. pc[u] # "multi.done"
      BY <1>1, <3>2, <3>3, EventsAssumption DEF Control, Locks, Holding
    <3> QED
      BY <1>2, <3>2, <3>3, <3>4
  <2>2. wfmo'[w].Status = Registration(t).WaitIndex
    BY <1>1, <1>4 DEF Serves, Fire, Given
  <2> QED
    BY <1>4, <2>1, <2>2 DEF Serves, OverwrittenBy
<1> QED
  BY <1>1, <1>3, <1>4, GivenStays

(* Only a wait with a finite timeout says it timed out when it was given an*)
(* event.                                                                  *)
Answers ==
  \A t \in Threads :
    /\ timedOut[t] => pc[t] \in {"multi.done", "multi.unref"}
    /\ pc[t] = "multi.timedout" => call[t].milliseconds = "finite"
    /\ pc[t] = "multi.done" /\ ~wfmo[mine[t]].WaitAll /\ timedOut[t] =>
         wfmo[mine[t]].Status = -1 \/ call[t].milliseconds = "finite"
LEMMA AnswersKept ==
  ASSUME IInv, Answers, NEW t \in Threads, Step(t) \/ Begin(t)
  PROVE  Answers'
<1>1. Types /\ Control /\ Balanced /\ InCall
  BY DEF IInv, Control
<1>2. ASSUME NEW u \in Threads, u # t
      PROVE  /\ timedOut'[u] = timedOut[u] /\ pc'[u] = pc[u] /\ call'[u] = call[u]
             /\ mine'[u] = mine[u]
  BY <1>1, <1>2 DEF Types, Step, Begin, WaitLock, WaitTimeout, WaitTimedOut, SetLock, SetNext,
     SetWaiter, SetRelease, SetSignal, PulseReset, MultiRegister, MultiWait, MultiTimeout,
     MultiTimedOut, MultiDone, MultiUnref, CallWait, CallSet, ResetEvent, CallMulti, DestroyEvent,
     Goto, Stay, Return, AfterSet, Began, Pass, threadVars
<1>3. ASSUME NEW u \in Threads, u # t, pc[u] = "multi.done"
      PROVE  /\ wfmo'[mine[u]].Status = wfmo[mine[u]].Status
             /\ wfmo'[mine[u]].WaitAll = wfmo[mine[u]].WaitAll
  <2>1. mine[u] \in Wfmos /\ mine[u] # NULL /\ Mutex[mine[u]] = u
    BY <1>1, <1>3, EventsAssumption DEF Types, InCall, CallOf, MultiPlaces, Holding, Control, Locks
  <2>2. wfmo[mine[u]].RefCount > 0
    <3>1. Cardinality(Owed(mine[u])) \in Nat /\ skipped_refs[u] \in Nat /\ Unvisited(u) = 0
      BY <1>1, <1>3, <2>1, CountTypes DEF IInv, Counts, Unvisited, Types
    <3>2. wfmo[mine[u]].RefCount = Cardinality(Owed(mine[u])) + 1 + skipped_refs[u] + Unvisited(u)
      BY <1>1, <2>1 DEF Balanced
    <3> QED
      BY <3>1, <3>2
  <2>3. mine[t] # mine[u]
    BY <1>1, <1>3, <2>1 DEF Control, OneOwner
  <2>4. ~Serves(t, mine[u])
    BY <2>1, EventsAssumption DEF Serves, IsFree
  <2> QED
    BY <2>1, <2>2, <2>3, <2>4, GivenStays
<1>4. /\ timedOut'[t] => pc'[t] \in {"multi.done", "multi.unref"}
      /\ pc'[t] = "multi.timedout" => call'[t].milliseconds = "finite"
      /\ pc'[t] = "multi.done" /\ ~wfmo'[mine'[t]].WaitAll /\ timedOut'[t] =>
           wfmo'[mine'[t]].Status = -1 \/ call'[t].milliseconds = "finite"
  <2>1. CASE MultiWait(t)
    BY <1>1, <2>1 DEF MultiWait, Answers, Types, Goto, Ended, At
  <2>2. CASE MultiTimeout(t)
    BY <1>1, <2>2 DEF MultiTimeout, Answers, Types, Goto, At, threadVars
  <2>3. CASE MultiTimedOut(t)
    BY <1>1, <2>3 DEF MultiTimedOut, Answers, Types, Goto, At
  <2>4. CASE MultiDone(t) \/ MultiUnref(t) \/ MultiRegister(t)
    BY <1>1, <2>4 DEF MultiDone, MultiUnref, MultiRegister, Answers, Types, Goto, At, threadVars, Return
  <2>5. CASE /\ ~MultiWait(t) /\ ~MultiTimeout(t) /\ ~MultiTimedOut(t)
             /\ ~(MultiDone(t) \/ MultiUnref(t) \/ MultiRegister(t))
    <3>1. timedOut'[t] = timedOut[t] /\ ~timedOut[t] /\ pc'[t] # "multi.timedout"
      BY <1>1, <2>5 DEF Types, Step, Begin, WaitLock, WaitTimeout, WaitTimedOut, SetLock, SetNext,
         SetWaiter, SetRelease, SetSignal, PulseReset, CallWait, CallSet, ResetEvent, CallMulti,
         DestroyEvent, Goto, Stay, Return, AfterSet, Began, Pass, threadVars, Answers, At
    <3> QED
      BY <3>1
  <2> QED
    BY <2>1, <2>2, <2>3, <2>4, <2>5
<1> QED
  BY <1>2, <1>3, <1>4 DEF Answers

(* An auto-reset event that a wait for any of several took or was handed is*)
(* what the wait returns, whatever events, manual-reset ones among them,   *)
(* and timeouts it names, unless a manual-reset event has overwritten the  *)
(* result (OverwrittenBy) or the wait, with a finite timeout, timed out.   *)
THEOREM GivenOnce == Spec => HandedOnce
<1>1. Init => IInv /\ Answers
  <2> SUFFICES ASSUME Init
               PROVE  IInv /\ Answers
    OBVIOUS
  <2> QED
    BY InitIInv DEF Init, Answers
<1>2. (IInv /\ Answers) /\ [Next]_vars => (IInv /\ Answers)'
  <2> SUFFICES ASSUME IInv, Answers, [Next]_vars
               PROVE  (IInv /\ Answers)'
    OBVIOUS
  <2>1. CASE UNCHANGED vars
    BY <2>1, NextKeeps DEF Answers, vars
  <2> QED
    BY <2>1, NextKeeps, AnswersKept DEF Next
<1>3. (IInv /\ Answers) /\ [Next]_vars =>
        [/\ \A w \in Wfmos : ForAny(w) /\ Over(w) /\ wfmo'[w].RefCount > 0 =>
              wfmo'[w].Status = wfmo[w].Status \/ \E t \in Threads : OverwrittenBy(t, w)
         /\ \A t \in Threads : MultiDone(t) /\ ~wfmo[mine[t]].WaitAll /\ timedOut[t] =>
              wfmo[mine[t]].Status = -1 \/ call[t].milliseconds = "finite"]_vars
  <2> SUFFICES ASSUME IInv, Answers, Next
               PROVE  /\ \A w \in Wfmos : ForAny(w) /\ Over(w) =>
                           wfmo'[w].Status = wfmo[w].Status \/ \E t \in Threads : OverwrittenBy(t, w)
                      /\ \A t \in Threads : MultiDone(t) /\ ~wfmo[mine[t]].WaitAll /\ timedOut[t] =>
                           wfmo[mine[t]].Status = -1 \/ call[t].milliseconds = "finite"
    OBVIOUS
  <2>1. ASSUME NEW w \in Wfmos, ForAny(w), Over(w)
        PROVE  wfmo'[w].Status = wfmo[w].Status \/ \E t \in Threads : OverwrittenBy(t, w)
    BY <2>1, OnlyOverwritten DEF Next
  <2>2. ASSUME NEW t \in Threads, MultiDone(t), ~wfmo[mine[t]].WaitAll, timedOut[t]
        PROVE  wfmo[mine[t]].Status = -1 \/ call[t].milliseconds = "finite"
    BY <2>2 DEF Answers, MultiDone, At
  <2> QED
    BY <2>1, <2>2
<1> QED
  BY <1>1, <1>2, <1>3, PTL DEF Spec, HandedOnce
=============================================================================
