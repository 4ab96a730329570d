--------------------------- MODULE ScanListsProofs ---------------------------
(***************************************************************************)
(* Proofs about ScanLists, for any number of slots and any finite set of   *)
(* nodes: its lists are rings, its walks meet every node they must and     *)
(* never leave their ring, and the rings are the sets of NodeLists.  That  *)
(* an assert stops the program, or a thread registers too late for a walk, *)
(* is among the steps.                                                     *)
(***************************************************************************)
EXTENDS ScanLists, FiniteSetTheorems, TLAPS

Places == {"idle", "sweep", "merge", "restore", "finalize", "crashed"}
Types ==
  /\ next \in [Cells -> Cells \cup {NULL}]
  /\ prev \in [Cells -> Cells \cup {NULL}]
  /\ registered \in SUBSET Slots
  /\ third \in [Slots -> Cells \cup {NULL}]
  /\ ActiveIndex \in {0, 1}
  /\ inserting \in [Slots -> Nodes \cup {NULL}]
  /\ cpc \in Places /\ slot \in 0 .. N
  /\ center \in Cells \cup {NULL} /\ itNext \in Cells \cup {NULL}
  /\ met \in SUBSET Nodes /\ fresh \in SUBSET Nodes

-----------------------------------------------------------------------------
(* The inductive invariant.  A ring is described from outside: home says in*)
(* which ring a cell is, by its sentinel, and height how far it is from the*)
(* end, where the sentinel is again.                                       *)
Homes == {f \in [Cells -> Sentinels] : \A s \in Sentinels : f[s] = s}
Heights == {f \in [Cells -> Nat] : \A c \in Cells : f[c] = 0 <=> c \in Sentinels}

InList(c) == next[c] # NULL

(* No link leads out of a ring.                                            *)
Chained(home) ==
  \A c \in Cells :
    /\ c \in Sentinels => InList(c)
    /\ InList(c) =>
         /\ next[c] \in Cells /\ InList(next[c]) /\ home[next[c]] = home[c]
         /\ prev[c] \in Cells /\ InList(prev[c]) /\ home[prev[c]] = home[c]

(* The links go down, and no cell of the ring is passed over.              *)
Ordered(home, height) ==
  /\ \A n \in Nodes : InList(n) => height[next[n]] < height[n]
  /\ \A c, d \in Cells :
       InList(c) /\ InList(d) /\ home[c] = home[d] =>
         /\ c \in Sentinels \/ height[d] < height[c] => height[d] =< height[next[c]]
         /\ height[c] = height[d] => c = d

(* The links back belong to the links, but around a node being inserted.   *)
BothWays ==
  \A c \in Cells : InList(c) =>
    /\ (\A i \in Slots : c # inserting[i]) => prev[next[c]] = c
    /\ (\A i \in Slots : inserting[i] # NULL => c # next[inserting[i]]) => next[prev[c]] = c

(* That one is the first of an active list.                                *)
AtFront(home) ==
  \A i \in Slots : inserting[i] # NULL =>
    /\ InList(inserting[i]) /\ home[inserting[i]] = Active(i)
    /\ next[Active(i)] = inserting[i] /\ prev[next[inserting[i]]] = Active(i)
    /\ cpc # "merge"

(* Only slots with lists have nodes.                                       *)
Owners(home) == \A n \in Nodes : InList(n) => home[n][1] \in registered

Rings(home, height) ==
  Chained(home) /\ Ordered(home, height) /\ BothWays /\ AtFront(home) /\ Owners(home)

(* The sweep has met what is higher than the cell it goes to next.         *)
Swept(home, height) ==
  cpc = "sweep" =>
    /\ center # NULL =>
         slot \in registered /\ itNext \in Cells /\ InList(itNext) /\ home[itNext] = Snapshot(slot)
    /\ \A i \in registered, n \in Nodes :
         /\ InList(n) /\ home[n] = Snapshot(i)
         /\ i < slot \/ (i = slot /\ center # NULL /\ height[itNext] < height[n])
         => n \in met

(* Those that restore the snapshot have met what is higher than the cell   *)
(* they are at, but for nodes that are new,                                *)
Restored(home, height) ==
  cpc \in {"restore", "finalize"} =>
    /\ center # NULL =>
         /\ slot \in registered
         /\ center \in Cells /\ InList(center) /\ home[center] = Active(slot)
         /\ itNext \in Cells /\ InList(itNext) /\ home[itNext] = Active(slot)
         /\ center \in Nodes => itNext = next[center]
    /\ \A i \in registered, n \in Nodes \ fresh :
         /\ InList(n) /\ home[n] = Active(i)
         /\ i < slot \/ (i = slot /\ center # NULL /\ height[center] < height[n])
         => n \in met

(* which are all higher than where the walk begins.  A thread that came    *)
(* too late has nowhere to begin, and new nodes only.                      *)
BeginsAt(home, height, i) ==
  /\ third[i] \in Cells /\ InList(third[i]) /\ home[third[i]] = Active(i)
  /\ \A n \in Nodes \ fresh :
       InList(n) /\ home[n] = Active(i) => height[n] =< height[third[i]]
Begins(home, height) ==
  /\ \A i \in Slots \ registered : third[i] = NULL
  /\ \A i \in registered : Late(i) => (third[i] = NULL /\ i \in late) \/ BeginsAt(home, height, i)

Walks(home, height) == Swept(home, height) /\ Restored(home, height) /\ Begins(home, height)

IInv ==
  /\ Types
  /\ \E home \in Homes, height \in Heights : Rings(home, height) /\ Walks(home, height)

-----------------------------------------------------------------------------
(* What a ring is, as a set.                                               *)

(* A finite set has a highest element.                                     *)
LEMMA Highest ==
  ASSUME NEW S, IsFiniteSet(S), S # {}, NEW h, \A x \in S : h[x] \in Nat
  PROVE  \E x \in S : \A y \in S : h[y] =< h[x]
<1> DEFINE Above(x) == {y \in S : h[x] < h[y]}
           T == {Above(x) : x \in S}
<1>1. \A A \in T : A \in FiniteSubsetsOf(S)
  BY FS_FiniteSubsetsOfFinite
<1>2. T # {}
  OBVIOUS
<1>3. PICK A \in T : \A B \in T : <<B, A>> \notin StrictSubsetOrdering(S)
  BY <1>1, <1>2, FS_StrictSubsetOrderingWellFounded, WFMin
<1>4. PICK x \in S : A = Above(x)
  BY <1>3
<1>5. ASSUME NEW y \in S, ~(h[y] =< h[x])
      PROVE  FALSE
  <2>1. h[x] < h[y]
    BY <1>5
  <2>2. Above(y) \subseteq Above(x) /\ y \in Above(x) /\ y \notin Above(y)
    BY <2>1
  <2>3. <<Above(y), A>> \in StrictSubsetOrdering(S)
    BY <1>4, <2>2 DEF StrictSubsetOrdering
  <2> QED
    BY <1>3, <2>3
<1> QED
  BY <1>5

(* A set of numbers below n has a least.                                   *)
LEMMA Least ==
  ASSUME NEW n \in Nat, NEW S \in SUBSET (0 .. n), S # {}
  PROVE  \E k \in S : \A j \in S : k =< j
<1> DEFINE h == [k \in S |-> n - k]
<1>1. IsFiniteSet(0 .. n)
  BY FS_Interval, 0 \in Int, n \in Int
<1>2. IsFiniteSet(S)
  BY <1>1, FS_Subset
<1>3. \A k \in S : h[k] \in Nat /\ h[k] = n - k /\ k \in Int
  OBVIOUS
<1> HIDE DEF h
<1>4. PICK k \in S : \A j \in S : h[j] =< h[k]
  BY <1>2, <1>3, Highest
<1>5. \A j \in S : k =< j
  BY <1>3, <1>4
<1> QED
  BY <1>5

(* The links can be followed from any cell for any number of steps.        *)
LEMMA FollowLinks ==
  ASSUME NEW c, NEW n \in Nat
  PROVE  \E f : f = [k \in 0 .. n |-> IF k = 0 THEN c ELSE next[f[k - 1]]]
<1> DEFINE Path(f, m) == f = [k \in 0 .. m |-> IF k = 0 THEN c ELSE next[f[k - 1]]]
           Bad == {m \in 0 .. n : ~ \E f : Path(f, m)}
<1>1. SUFFICES ASSUME Bad # {} PROVE FALSE
  <2>1. n \in 0 .. n
    OBVIOUS
  <2>2. \E f : Path(f, n)
    BY <1>1, <2>1
  <2> QED
    BY <2>2
<1>2. PICK m \in Bad : \A j \in Bad : m =< j
  BY <1>1, Least
<1>3. CASE m = 0
  <2>1. Path([k \in 0 .. 0 |-> c], 0)
    OBVIOUS
  <2> QED
    BY <1>2, <1>3, <2>1
<1>4. CASE m # 0
  <2>1. m - 1 \in 0 .. n /\ m \in Nat /\ ~(m =< m - 1)
    BY <1>4
  <2>2. PICK f : Path(f, m - 1)
    BY <1>2, <2>1
  <2> DEFINE g == [k \in 0 .. m |-> IF k = m THEN next[f[m - 1]] ELSE f[k]]
  <2>3. \A k \in 0 .. m - 1 : f[k] = IF k = 0 THEN c ELSE next[f[k - 1]]
    BY <2>2
  <2>4. \A k \in 0 .. m : g[k] = IF k = 0 THEN c ELSE next[g[k - 1]]
    BY <1>4, <2>1, <2>3
  <2>5. Path(g, m)
    BY <2>4
  <2> QED
    BY <1>2, <2>5
<1> QED
  BY <1>3, <1>4

(* From(c) is what its definition says.                                    *)
LEMMA FromIs ==
  ASSUME NEW c
  PROVE  /\ Cardinality(Nodes) \in Nat
         /\ From(c)[0] = c
         /\ \A k \in 1 .. Cardinality(Nodes) : From(c)[k] = next[From(c)[k - 1]]
<1> DEFINE n == Cardinality(Nodes)
<1>1. n \in Nat
  BY ListsAssumption, FS_CardinalityType
<1> HIDE DEF n
<1>2. \E f : f = [k \in 0 .. n |-> IF k = 0 THEN c ELSE next[f[k - 1]]]
  BY <1>1, FollowLinks
<1>3. From(c) = [k \in 0 .. n |-> IF k = 0 THEN c ELSE next[From(c)[k - 1]]]
  BY <1>2, Zenon DEF From, n
<1> DEFINE f == From(c)
<1> HIDE DEF f
<1>4. f = [k \in 0 .. n |-> IF k = 0 THEN c ELSE next[f[k - 1]]]
  BY <1>3 DEF f
<1>5. f[0] = c /\ \A k \in 1 .. n : f[k] = next[f[k - 1]]
  BY <1>1, <1>4
<1> QED
  BY <1>1, <1>5 DEF f, n

(* A link leads to every node of a ring.                                   *)
LEMMA LinkTo ==
  ASSUME Types, NEW home \in Homes, NEW height \in Heights, Rings(home, height),
         NEW n \in Nodes, InList(n)
  PROVE  \E c \in Cells : InList(c) /\ home[c] = home[n] /\ next[c] = n
<1>1. n \in Cells
  BY DEF Cells
<1>2. CASE \E i \in Slots : inserting[i] # NULL /\ n = next[inserting[i]]
  <2>1. PICK i \in Slots : inserting[i] # NULL /\ n = next[inserting[i]]
    BY <1>2
  <2>2. inserting[i] \in Cells /\ InList(inserting[i])
    BY <2>1 DEF Rings, AtFront, Types, Cells
  <2>3. home[n] = home[inserting[i]]
    BY <2>1, <2>2 DEF Rings, Chained
  <2> QED
    BY <2>1, <2>2, <2>3
<1>3. CASE ~ \E i \in Slots : inserting[i] # NULL /\ n = next[inserting[i]]
  <2>1. next[prev[n]] = n
    BY <1>1, <1>3 DEF Rings, BothWays
  <2>2. prev[n] \in Cells /\ InList(prev[n]) /\ home[prev[n]] = home[n]
    BY <1>1 DEF Rings, Chained
  <2> QED
    BY <2>1, <2>2
<1> QED
  BY <1>2, <1>3

(* The nodes from n up to the first.                                       *)
NotBelow(home, height, n) ==
  {m \in Nodes : InList(m) /\ home[m] = home[n] /\ height[n] =< height[m]}

(* A ring, which From collects, is what has its sentinel for home: the walk*)
(* from the sentinel comes to each of its nodes within as many steps.      *)
LEMMA RingIs ==
  ASSUME Types, NEW home \in Homes, NEW height \in Heights, Rings(home, height),
         NEW s \in Sentinels
  PROVE  Ring(s) = {n \in Nodes : InList(n) /\ home[n] = s}
<1> DEFINE K == Cardinality(Nodes)
           f == From(s)
           R == {n \in Nodes : InList(n) /\ home[n] = s}
           Up(n) == NotBelow(home, height, n)
           At(n) == Cardinality(Up(n))
<1>1. /\ K \in Nat /\ f[0] = s
      /\ \A k \in 1 .. K : f[k] = next[f[k - 1]]
  BY FromIs
<1>2. Ring(s) = {f[k] : k \in 0 .. K} \ Sentinels
  BY DEF Ring
<1>3. IsFiniteSet(Nodes) /\ Nodes \cap Sentinels = {} /\ Nodes \subseteq Cells /\ s \in Cells
      /\ home[s] = s /\ InList(s)
  BY ListsAssumption DEF Cells, Homes, Rings, Chained
<1> HIDE DEF f, K
<1>4. ASSUME NEW k \in 0 .. K
      PROVE  f[k] \in Cells /\ InList(f[k]) /\ home[f[k]] = s
  <2> DEFINE Bad == {j \in 0 .. K : ~(f[j] \in Cells /\ InList(f[j]) /\ home[f[j]] = s)}
  <2>1. SUFFICES ASSUME Bad # {} PROVE FALSE
    BY <1>4
  <2>2. PICK j \in Bad : \A m \in Bad : j =< m
    BY <1>1, <2>1, Least
  <2>3. j # 0
    BY <1>1, <1>3, <2>2
  <2>4. j \in 1 .. K /\ j - 1 \in 0 .. K /\ ~(j =< j - 1)
    BY <1>1, <2>2, <2>3
  <2>5. f[j - 1] \in Cells /\ InList(f[j - 1]) /\ home[f[j - 1]] = s
    BY <2>2, <2>4
  <2>6. f[j] = next[f[j - 1]]
    BY <1>1, <2>4
  <2>7. f[j] \in Cells /\ InList(f[j]) /\ home[f[j]] = s
    BY <2>5, <2>6 DEF Rings, Chained
  <2> QED
    BY <2>2, <2>7
<1>5. ASSUME NEW n \in R
      PROVE  At(n) \in 1 .. K /\ f[At(n)] = n
  <2> DEFINE Bad == {m \in R : ~(At(m) \in 1 .. K /\ f[At(m)] = m)}
  <2>1. SUFFICES ASSUME Bad # {} PROVE FALSE
    BY <1>5
  <2>2. IsFiniteSet(Bad) /\ \A m \in Bad : height[m] \in Nat
    BY <1>3, FS_Subset DEF Heights
  <2>3. PICK m \in Bad : \A x \in Bad : height[x] =< height[m]
    BY <2>1, <2>2, Highest
  <2>4. m \in Nodes /\ m \in Cells /\ InList(m) /\ home[m] = s /\ m \in R
    BY <1>3, <2>3
  <2>5. PICK c \in Cells : InList(c) /\ home[c] = s /\ next[c] = m
    BY <2>4, LinkTo
  <2>6. \A x \in Nodes : Up(x) \in SUBSET Nodes /\ IsFiniteSet(Up(x)) /\ At(x) \in Nat /\ At(x) =< K
    BY <1>3, FS_Subset, FS_CardinalityType DEF K, NotBelow
  <2>7. m \in Up(m) /\ height \in [Cells -> Nat]
    BY <2>4 DEF NotBelow, Heights
  <2>8. \A x, y \in Cells : InList(x) /\ InList(y) /\ home[x] = home[y] =>
          /\ x \in Sentinels \/ height[y] < height[x] => height[y] =< height[next[x]]
          /\ height[x] = height[y] => x = y
    BY DEF Rings, Ordered
  <2>9. CASE c \in Sentinels
    <3>1. c = s
      BY <2>5, <2>9 DEF Homes
    <3>2. ASSUME NEW x \in Up(m)
          PROVE  x = m
      <4>1. x \in Cells /\ InList(x) /\ home[x] = home[m] /\ height[m] =< height[x]
        BY <1>3 DEF NotBelow
      <4>2. height[x] =< height[m]
        BY <2>4, <2>5, <2>8, <2>9, <4>1
      <4>3. height[x] = height[m]
        BY <2>4, <2>7, <4>1, <4>2
      <4> QED
        BY <2>4, <2>8, <4>1, <4>3
    <3>3. Up(m) = {m}
      BY <2>7, <3>2
    <3>4. At(m) = 1 /\ At(m) =< K
      BY <2>4, <2>6, <3>3, FS_Singleton
    <3>5. 1 \in 1 .. K /\ f[1] = next[f[0]]
      BY <1>1, <3>4
    <3>6. f[1] = m
      BY <1>1, <2>5, <3>1, <3>5
    <3> QED
      BY <2>3, <3>4, <3>5, <3>6
  <2>10. CASE c \in Nodes
    <3>1. height[m] < height[c] /\ c \in R
      BY <2>5, <2>10 DEF Rings, Ordered
    <3>2. c \notin Bad
      <4>1. ~(height[c] =< height[m])
        BY <2>4, <2>5, <2>7, <3>1
      <4> HIDE DEF Bad
      <4> QED
        BY <2>3, <4>1
    <3>3. At(c) \in 1 .. K /\ f[At(c)] = c
      BY <3>1, <3>2
    <3>4. Up(m) = Up(c) \cup {m} /\ m \notin Up(c)
      <4>1. ASSUME NEW x \in Up(m), x # m
            PROVE  x \in Up(c)
        <5>1. x \in Nodes /\ x \in Cells /\ InList(x) /\ home[x] = home[m] /\ height[m] =< height[x]
          BY <1>3 DEF NotBelow
        <5>2. height[x] # height[m] /\ height[x] \in Nat /\ height[m] \in Nat /\ height[c] \in Nat
          BY <2>4, <2>7, <2>8, <4>1, <5>1
        <5>3. height[x] < height[c] => height[x] =< height[m]
          BY <2>4, <2>5, <2>8, <5>1
        <5>4. height[c] =< height[x]
          BY <5>1, <5>2, <5>3
        <5> QED
          BY <2>4, <2>5, <5>1, <5>4 DEF NotBelow
      <4>2. ASSUME NEW x \in Up(c)
            PROVE  x \in Up(m) /\ x # m
        <5>1. x \in Nodes /\ InList(x) /\ home[x] = home[m] /\ height[c] =< height[x]
          BY <2>4, <2>5 DEF NotBelow
        <5>2. height[x] \in Nat /\ height[m] \in Nat /\ height[c] \in Nat
          BY <1>3, <2>4, <2>7, <5>1
        <5>3. height[m] < height[x]
          BY <3>1, <5>1, <5>2
        <5> QED
          BY <5>1, <5>2, <5>3 DEF NotBelow
      <4> QED
        BY <2>7, <4>1, <4>2
    <3>5. At(m) = At(c) + 1
      BY <2>6, <2>10, <3>4, FS_AddElement
    <3>6. At(m) \in 1 .. K /\ At(m) - 1 = At(c)
      BY <1>1, <2>4, <2>6, <3>3, <3>5
    <3>7. f[At(m)] = next[f[At(c)]]
      BY <1>1, <3>6
    <3> QED
      BY <2>3, <2>5, <3>3, <3>6, <3>7
  <2> QED
    BY <2>9, <2>10 DEF Cells
<1>6. R \subseteq Ring(s)
  <2> SUFFICES ASSUME NEW n \in R PROVE n \in Ring(s)
    OBVIOUS
  <2>1. At(n) \in 0 .. K /\ f[At(n)] = n
    BY <1>1, <1>5
  <2>2. n \notin Sentinels
    BY <1>3
  <2> QED
    BY <1>2, <2>1, <2>2
<1>7. Ring(s) \subseteq R
  <2> SUFFICES ASSUME NEW k \in 0 .. K, f[k] \notin Sentinels PROVE f[k] \in R
    BY <1>2
  <2> QED
    BY <1>4 DEF Cells
<1> QED
  BY <1>6, <1>7

-----------------------------------------------------------------------------
(* The steps of the threads.                                               *)
LEMMA Ends ==
  ASSUME Types
  PROVE  /\ Sentinels \subseteq Cells /\ Nodes \subseteq Cells
         /\ Nodes \cap Sentinels = {} /\ NULL \notin Cells
         /\ \A i \in Slots : /\ Active(i) \in Sentinels /\ Active(i)[1] = i
                             /\ Snapshot(i) \in Sentinels /\ Snapshot(i)[1] = i
         /\ \A i, j \in Slots : Active(i) # Snapshot(j)
         /\ \A i, j \in Slots : Active(i) = Active(j) \/ Snapshot(i) = Snapshot(j) => i = j
<1>1. ActiveIndex \in {0, 1} /\ 1 - ActiveIndex \in {0, 1} /\ ActiveIndex # 1 - ActiveIndex
  BY DEF Types
<1> QED
  BY <1>1, ListsAssumption DEF Active, Snapshot, Sentinel, Sentinels, Cells

(* The new node n goes between the sentinel a and the first node x.        *)
Inserts(i, n, a, x) ==
  /\ i \in registered /\ inserting[i] = NULL /\ cpc \notin {"merge", "crashed"}
  /\ n \in Nodes /\ next[n] = NULL /\ a = Active(i) /\ x = next[a]
  /\ next' = [next EXCEPT ![n] = x, ![a] = n]
  /\ prev' = [prev EXCEPT ![n] = a]
  /\ inserting' = [inserting EXCEPT ![i] = n]
  /\ fresh' = fresh \cup {n}
  /\ UNCHANGED <<registered, third, ActiveIndex, cpc, slot, iterator, met, late>>

(* Its home is that sentinel, and it is the highest there.                 *)
LEMMA InsertRings ==
  ASSUME Types, NEW home \in Homes, NEW height \in Heights, Rings(home, height), NEW i \in Slots,
         NEW n, NEW a, NEW x, Inserts(i, n, a, x),
         NEW home2, home2 = [home EXCEPT ![n] = a],
         NEW height2, height2 = [height EXCEPT ![n] = height[x] + 1]
  PROVE  /\ home2 \in Homes /\ height2 \in Heights /\ Rings(home2, height2)'
         /\ Types' /\ a \in Sentinels /\ n \in Nodes /\ home[a] = a
         /\ \A c \in Cells : /\ next'[c] = IF c = a THEN n ELSE IF c = n THEN x ELSE next[c]
                             /\ c # n => home2[c] = home[c] /\ height2[c] = height[c]
         /\ home2[n] = a
<1>1. /\ Sentinels \subseteq Cells /\ Nodes \subseteq Cells /\ Nodes \cap Sentinels = {}
      /\ NULL \notin Cells
      /\ a = Active(i) /\ a \in Sentinels /\ a \in Cells /\ n \in Nodes /\ n \in Cells /\ a # n
  BY Ends DEF Inserts
<1>2. /\ home \in [Cells -> Sentinels] /\ height \in [Cells -> Nat]
      /\ \A s \in Sentinels : home[s] = s /\ height[s] = 0
      /\ \A c \in Nodes : height[c] # 0
  BY <1>1 DEF Homes, Heights
<1>3. /\ x \in Cells /\ InList(x) /\ InList(a) /\ home[x] = a /\ x # n /\ x = next[a] /\ ~InList(n)
  BY <1>1, <1>2 DEF Inserts, Rings, Chained, InList
<1>4. Types'
  BY <1>1, <1>3 DEF Inserts, Types, iterator
<1>5. \A c \in Cells :
        /\ next'[c] = IF c = a THEN n ELSE IF c = n THEN x ELSE next[c]
        /\ prev'[c] = IF c = n THEN a ELSE prev[c]
  BY <1>1 DEF Inserts, Types
<1>6. \A c \in Cells :
        /\ home2[c] = IF c = n THEN a ELSE home[c]
        /\ height2[c] = IF c = n THEN height[x] + 1 ELSE height[c]
  BY <1>1, <1>2
<1>7. height[x] \in Nat /\ height[x] + 1 \in Nat /\ height[x] + 1 # 0
  BY <1>2, <1>3
<1>8. home2 \in Homes /\ height2 \in Heights
  <2>1. home2 \in [Cells -> Sentinels] /\ height2 \in [Cells -> Nat]
    BY <1>1, <1>2, <1>7
  <2> QED
    BY <1>1, <1>2, <1>6, <1>7, <2>1 DEF Homes, Heights
<1>9. \A c \in Cells : next'[c] # NULL <=> InList(c) \/ c = n
  BY <1>1, <1>3, <1>5 DEF InList
<1>10. Chained(home2)'
  <2> SUFFICES ASSUME NEW c \in Cells
               PROVE  /\ c \in Sentinels => next'[c] # NULL
                      /\ next'[c] # NULL =>
                           /\ next'[c] \in Cells /\ next'[next'[c]] # NULL /\ home2[next'[c]] = home2[c]
                           /\ prev'[c] \in Cells /\ next'[prev'[c]] # NULL /\ home2[prev'[c]] = home2[c]
    BY DEF Chained, InList
  <2>1. /\ c \in Sentinels => InList(c)
        /\ InList(c) => /\ next[c] \in Cells /\ InList(next[c]) /\ home[next[c]] = home[c]
                        /\ prev[c] \in Cells /\ InList(prev[c]) /\ home[prev[c]] = home[c]
    BY DEF Rings, Chained
  <2>2. next'[c] # NULL => next'[c] \in Cells /\ next'[next'[c]] # NULL /\ home2[next'[c]] = home2[c]
    BY <1>1, <1>2, <1>3, <1>5, <1>6, <1>9, <2>1
  <2>3. next'[c] # NULL => prev'[c] \in Cells /\ next'[prev'[c]] # NULL /\ home2[prev'[c]] = home2[c]
    BY <1>1, <1>2, <1>3, <1>5, <1>6, <1>9, <2>1
  <2> QED
    BY <1>9, <2>1, <2>2, <2>3
<1>11. Ordered(home2, height2)'
  <2>1. ASSUME NEW m \in Nodes, next'[m] # NULL
        PROVE  height2[next'[m]] < height2[m]
    <3>1. CASE m = n
      BY <1>1, <1>3, <1>5, <1>6, <1>7, <3>1
    <3>2. CASE m # n
      <4>1. InList(m) /\ m \in Cells /\ m # a /\ next'[m] = next[m]
        BY <1>1, <1>5, <1>9, <2>1, <3>2
      <4>2. next[m] \in Cells /\ next[m] # n /\ height[next[m]] < height[m]
        BY <1>3, <4>1 DEF Rings, Chained, Ordered
      <4> QED
        BY <1>6, <3>2, <4>1, <4>2
    <3> QED
      BY <3>1, <3>2
  <2>2. ASSUME NEW c \in Cells, NEW d \in Cells, next'[c] # NULL, next'[d] # NULL, home2[c] = home2[d]
        PROVE  /\ c \in Sentinels \/ height2[d] < height2[c] => height2[d] =< height2[next'[c]]
               /\ height2[c] = height2[d] => c = d
    <3>1. \A y, z \in Cells : InList(y) /\ InList(z) /\ home[y] = home[z] =>
            /\ y \in Sentinels \/ height[z] < height[y] => height[z] =< height[next[y]]
            /\ height[y] = height[z] => y = z
      BY DEF Rings, Ordered
    <3>2. \A y \in Cells : InList(y) => next[y] \in Cells /\ InList(next[y])
      BY DEF Rings, Chained
    <3>3. \A y \in Cells : InList(y) /\ home[y] = a => height[y] =< height[x]
      BY <1>1, <1>2, <1>3, <3>1
    <3>4. CASE c = n
      <4>1. next'[c] = x /\ height2[next'[c]] = height[x] /\ height2[c] = height[x] + 1
        BY <1>1, <1>3, <1>5, <1>6, <3>4
      <4>2. d # n => height2[d] = height[d] /\ height[d] =< height[x] /\ height[d] \in Nat
        BY <1>2, <1>6, <1>9, <2>2, <3>3, <3>4
      <4> QED
        BY <1>1, <1>6, <1>7, <3>4, <4>1, <4>2
    <3>5. CASE c # n /\ d = n
      <4>1. height2[d] = height[x] + 1 /\ height2[c] = height[c] /\ height[c] \in Nat
        BY <1>2, <1>6, <3>5
      <4>2. home[c] = a /\ InList(c) /\ height[c] =< height[x]
        BY <1>6, <1>9, <2>2, <3>3, <3>5
      <4>3. c \in Sentinels => c = a
        BY <1>2, <4>2
      <4>4. c = a => next'[c] = n /\ height2[next'[c]] = height[x] + 1
        BY <1>1, <1>5, <1>6
      <4> QED
        BY <1>7, <4>1, <4>2, <4>3, <4>4
    <3>6. CASE c # n /\ d # n
      <4>1. /\ InList(c) /\ InList(d) /\ home[c] = home[d]
            /\ height2[c] = height[c] /\ height2[d] = height[d] /\ height[d] \in Nat
        BY <1>2, <1>6, <1>9, <2>2, <3>6
      <4>2. CASE c = a
        <5>1. height2[next'[c]] = height[x] + 1 /\ height[d] =< height[x]
          BY <1>1, <1>2, <1>5, <1>6, <3>3, <4>1, <4>2
        <5> QED
          BY <1>7, <3>1, <4>1, <5>1
      <4>3. CASE c # a
        <5>1. next'[c] = next[c] /\ next[c] \in Cells /\ next[c] # n
          BY <1>3, <1>5, <3>2, <3>6, <4>1, <4>3
        <5>2. height2[next'[c]] = height[next[c]]
          BY <1>6, <5>1
        <5> QED
          BY <3>1, <4>1, <5>2
      <4> QED
        BY <4>2, <4>3
    <3> QED
      BY <3>4, <3>5, <3>6
  <2> QED
    BY <2>1, <2>2 DEF Ordered, InList
<1>12. \A j \in Slots : /\ j # i => inserting'[j] = inserting[j]
                        /\ inserting'[i] = n /\ inserting[i] = NULL
                        /\ inserting[j] # NULL => inserting[j] \in Cells /\ InList(inserting[j])
                                                   /\ home[inserting[j]] = Active(j)
  BY <1>1 DEF Inserts, Types, Rings, AtFront
<1>13. BothWays'
  <2> SUFFICES ASSUME NEW c \in Cells, next'[c] # NULL
               PROVE  /\ (\A j \in Slots : c # inserting'[j]) => prev'[next'[c]] = c
                      /\ (\A j \in Slots : inserting'[j] # NULL => c # next'[inserting'[j]])
                           => next'[prev'[c]] = c
    BY DEF BothWays, InList
  <2>1. /\ (\A j \in Slots : c # inserting[j]) /\ InList(c) => prev[next[c]] = c
        /\ (\A j \in Slots : inserting[j] # NULL => c # next[inserting[j]]) /\ InList(c)
             => next[prev[c]] = c
    BY DEF Rings, BothWays
  <2>2. InList(c) => /\ next[c] \in Cells /\ InList(next[c]) /\ prev[c] \in Cells /\ InList(prev[c])
    BY DEF Rings, Chained
  <2>3. ASSUME \A j \in Slots : c # inserting'[j]
        PROVE  prev'[next'[c]] = c
    <3>1. c # n /\ InList(c)
      BY <1>9, <1>12, <2>3
    <3>2. CASE c = a
      BY <1>1, <1>5, <3>2
    <3>3. CASE c # a
      <4>1. next'[c] = next[c] /\ next[c] # n /\ next[c] \in Cells
        BY <1>3, <1>5, <2>2, <3>1, <3>3
      <4>2. prev'[next[c]] = prev[next[c]]
        BY <1>5, <4>1
      <4>3. \A j \in Slots : c # inserting[j]
        BY <1>1, <1>12, <2>3
      <4> QED
        BY <2>1, <3>1, <4>1, <4>2, <4>3
    <3> QED
      BY <3>2, <3>3
  <2>4. ASSUME \A j \in Slots : inserting'[j] # NULL => c # next'[inserting'[j]]
        PROVE  next'[prev'[c]] = c
    <3>1. CASE c = n
      BY <1>1, <1>5, <3>1
    <3>2. CASE c # n
      <4>1. InList(c) /\ c # x /\ prev'[c] = prev[c]
        BY <1>1, <1>5, <1>9, <1>12, <2>4, <3>2
      <4>2. \A j \in Slots : inserting[j] # NULL => c # next[inserting[j]]
        <5> SUFFICES ASSUME NEW j \in Slots, inserting[j] # NULL PROVE c # next[inserting[j]]
          OBVIOUS
        <5>1. j # i /\ inserting'[j] = inserting[j] /\ inserting[j] \in Cells /\ inserting[j] # n
          BY <1>3, <1>12
        <5>2. inserting[j] # a
          BY <1>1 DEF Types
        <5>3. next'[inserting[j]] = next[inserting[j]]
          BY <1>5, <5>1, <5>2
        <5> QED
          BY <2>4, <5>1, <5>3
      <4>3. next[prev[c]] = c /\ prev[c] \in Cells /\ prev[c] # n /\ prev[c] # a
        BY <1>3, <2>1, <2>2, <4>1, <4>2
      <4> QED
        BY <1>5, <4>1, <4>3
    <3> QED
      BY <3>1, <3>2
  <2> QED
    BY <2>3, <2>4
<1>14. AtFront(home2)'
  <2> SUFFICES ASSUME NEW j \in Slots, inserting'[j] # NULL
               PROVE  /\ next'[inserting'[j]] # NULL /\ home2[inserting'[j]] = Active(j)'
                      /\ next'[Active(j)'] = inserting'[j]
                      /\ prev'[next'[inserting'[j]]] = Active(j)' /\ cpc' # "merge"
    BY DEF AtFront, InList
  <2>1. Active(j)' = Active(j) /\ cpc' = cpc /\ cpc # "merge" /\ Active(j) \in Cells
    BY <1>1, Ends DEF Inserts, Active
  <2>2. CASE j = i
    <3>1. inserting'[j] = n /\ next'[n] = x /\ next'[a] = n /\ prev'[x] = prev[x] /\ home2[n] = a
      BY <1>1, <1>3, <1>5, <1>6, <1>12, <2>2
    <3>2. prev[next[a]] = a
      <4>1. \A k \in Slots : a # inserting[k]
        BY <1>1, ListsAssumption DEF Types
      <4> QED
        BY <1>1, <1>3, <4>1 DEF Rings, BothWays
    <3> QED
      BY <1>1, <1>3, <1>9, <2>1, <2>2, <3>1, <3>2
  <2>3. CASE j # i
    <3>1. inserting'[j] = inserting[j] /\ inserting[j] # NULL
      BY <1>12, <2>3
    <3>2. /\ InList(inserting[j]) /\ home[inserting[j]] = Active(j) /\ inserting[j] \in Cells
          /\ next[Active(j)] = inserting[j] /\ prev[next[inserting[j]]] = Active(j)
      BY <1>12, <3>1 DEF Rings, AtFront
    <3>3. Active(j) # a /\ Active(j) # n /\ inserting[j] # n /\ inserting[j] # a
      BY <1>1, <1>3, <2>3, <3>1, <3>2, Ends DEF Types
    <3>4. next[inserting[j]] \in Cells /\ InList(next[inserting[j]]) /\ next[inserting[j]] # n
      BY <1>3, <3>2 DEF Rings, Chained
    <3>5. /\ next'[inserting[j]] = next[inserting[j]] /\ next'[Active(j)] = next[Active(j)]
          /\ prev'[next[inserting[j]]] = prev[next[inserting[j]]] /\ home2[inserting[j]] = Active(j)
      BY <1>5, <1>6, <2>1, <3>2, <3>3, <3>4
    <3> QED
      BY <1>9, <2>1, <3>1, <3>2, <3>5
  <2> QED
    BY <2>2, <2>3
<1>15. Owners(home2)'
  <2>1. a[1] = i /\ i \in registered /\ registered' = registered
    BY <1>1, Ends DEF Inserts
  <2> QED
    BY <1>1, <1>6, <1>9, <2>1 DEF Owners, Rings, InList
<1> QED
  BY <1>1, <1>2, <1>4, <1>5, <1>6, <1>8, <1>10, <1>11, <1>13, <1>14, <1>15 DEF Rings

(* The new node is not among those that the walks are about.               *)
LEMMA InsertWalks ==
  ASSUME Types, NEW home \in Homes, NEW height \in Heights, Rings(home, height),
         Walks(home, height), NEW i \in Slots,
         NEW n, NEW a, NEW x, Inserts(i, n, a, x),
         NEW home2, home2 = [home EXCEPT ![n] = a],
         NEW height2, height2 = [height EXCEPT ![n] = height[x] + 1]
  PROVE  Walks(home2, height2)'
<1>1. /\ a \in Sentinels /\ n \in Nodes /\ home[a] = a /\ home2[n] = a /\ a = Active(i)
      /\ \A c \in Cells : /\ next'[c] = IF c = a THEN n ELSE IF c = n THEN x ELSE next[c]
                          /\ c # n => home2[c] = home[c] /\ height2[c] = height[c]
  <2>1. a \in Sentinels /\ a \in Cells /\ n \in Nodes /\ n \in Cells /\ a # n /\ a = Active(i)
    BY Ends DEF Inserts
  <2>2. home \in [Cells -> Sentinels] /\ height \in [Cells -> Nat] /\ home[a] = a
    BY <2>1 DEF Homes, Heights
  <2>3. \A c \in Cells : next'[c] = IF c = a THEN n ELSE IF c = n THEN x ELSE next[c]
    BY <2>1 DEF Inserts, Types
  <2> QED
    BY <2>1, <2>2, <2>3
<1>2. /\ Nodes \subseteq Cells /\ Nodes \cap Sentinels = {} /\ NULL \notin Cells
      /\ \A j, k \in Slots : Active(j) # Snapshot(k)
  BY Ends
<1>3. x \in Cells /\ ~InList(n)
  BY <1>1, Ends DEF Inserts, Rings, Chained, InList
<1>4. /\ registered' = registered /\ third' = third /\ cpc' = cpc /\ slot' = slot /\ center' = center
      /\ itNext' = itNext /\ met' = met /\ fresh' = fresh \cup {n}
      /\ late' = late
      /\ \A j \in Slots : Active(j)' = Active(j) /\ Snapshot(j)' = Snapshot(j)
      /\ registered \subseteq Slots /\ slot \in 0 .. N
  BY DEF Inserts, iterator, Active, Snapshot, Types
<1>5. \A c \in Cells : /\ next'[c] # NULL <=> InList(c) \/ c = n
                       /\ InList(c) => c # n
  BY <1>1, <1>2, <1>3, Ends DEF InList, Rings, Chained
<1>6. Swept(home2, height2)'
  <2> SUFFICES ASSUME cpc = "sweep"
               PROVE  /\ center # NULL =>
                           /\ slot \in registered /\ itNext \in Cells /\ next'[itNext] # NULL
                           /\ home2[itNext] = Snapshot(slot)
                      /\ \A j \in registered, m \in Nodes :
                           /\ next'[m] # NULL /\ home2[m] = Snapshot(j)
                           /\ \/ j < slot
                              \/ j = slot /\ center # NULL /\ height2[itNext] < height2[m]
                           => m \in met
    BY <1>4 DEF Swept, InList
  <2>1. /\ center # NULL =>
             slot \in registered /\ itNext \in Cells /\ InList(itNext) /\ home[itNext] = Snapshot(slot)
        /\ \A j \in registered, m \in Nodes :
             /\ InList(m) /\ home[m] = Snapshot(j)
             /\ j < slot \/ (j = slot /\ center # NULL /\ height[itNext] < height[m])
             => m \in met
    BY DEF Walks, Swept
  <2>2. center # NULL =>
          /\ slot \in registered /\ itNext \in Cells /\ next'[itNext] # NULL
          /\ home2[itNext] = Snapshot(slot) /\ height2[itNext] = height[itNext]
    BY <1>1, <1>5, <2>1
  <2>3. ASSUME NEW j \in registered, NEW m \in Nodes, next'[m] # NULL, home2[m] = Snapshot(j)
        PROVE  InList(m) /\ home[m] = Snapshot(j) /\ height2[m] = height[m]
    BY <1>1, <1>2, <1>4, <1>5, <2>3
  <2> QED
    BY <2>1, <2>2, <2>3
<1>7. Restored(home2, height2)'
  <2> SUFFICES ASSUME cpc \in {"restore", "finalize"}
               PROVE  /\ center # NULL =>
                           /\ slot \in registered
                           /\ center \in Cells /\ next'[center] # NULL /\ home2[center] = Active(slot)
                           /\ itNext \in Cells /\ next'[itNext] # NULL /\ home2[itNext] = Active(slot)
                           /\ center \in Nodes => itNext = next'[center]
                      /\ \A j \in registered, m \in Nodes \ (fresh \cup {n}) :
                           /\ next'[m] # NULL /\ home2[m] = Active(j)
                           /\ \/ j < slot
                              \/ j = slot /\ center # NULL /\ height2[center] < height2[m]
                           => m \in met
    BY <1>4 DEF Restored, InList
  <2>1. /\ center # NULL =>
             /\ slot \in registered
             /\ center \in Cells /\ InList(center) /\ home[center] = Active(slot)
             /\ itNext \in Cells /\ InList(itNext) /\ home[itNext] = Active(slot)
             /\ center \in Nodes => itNext = next[center]
        /\ \A j \in registered, m \in Nodes \ fresh :
             /\ InList(m) /\ home[m] = Active(j)
             /\ j < slot \/ (j = slot /\ center # NULL /\ height[center] < height[m])
             => m \in met
    BY DEF Walks, Restored
  <2>2. center # NULL =>
          /\ center \in Cells /\ next'[center] # NULL /\ home2[center] = Active(slot)
          /\ itNext \in Cells /\ next'[itNext] # NULL /\ home2[itNext] = Active(slot)
          /\ height2[center] = height[center]
    BY <1>1, <1>5, <2>1
  <2>3. center # NULL /\ center \in Nodes => itNext = next'[center]
    BY <1>1, <1>2, <1>5, <2>1
  <2>4. ASSUME NEW j \in registered, NEW m \in Nodes \ (fresh \cup {n}), next'[m] # NULL,
               home2[m] = Active(j)
        PROVE  InList(m) /\ home[m] = Active(j) /\ height2[m] = height[m] /\ m \notin fresh
    BY <1>1, <1>2, <1>5, <2>4
  <2> QED
    BY <2>1, <2>2, <2>3, <2>4
<1>8. Begins(home2, height2)'
  <2> SUFFICES ASSUME NEW j \in registered, BeginsAt(home, height, j)
               PROVE  BeginsAt(home2, height2, j)'
    <3>1. \A j \in registered : Late(j)' <=> Late(j)
      BY <1>4 DEF Late
    <3> QED
      BY <1>4, <3>1 DEF Walks, Begins
  <2>1. /\ third[j] \in Cells /\ InList(third[j]) /\ home[third[j]] = Active(j)
        /\ \A m \in Nodes \ fresh :
             InList(m) /\ home[m] = Active(j) => height[m] =< height[third[j]]
    BY DEF BeginsAt
  <2>2. /\ third[j] \in Cells /\ next'[third[j]] # NULL /\ home2[third[j]] = Active(j)
        /\ height2[third[j]] = height[third[j]]
    BY <1>1, <1>5, <2>1
  <2>3. ASSUME NEW m \in Nodes \ (fresh \cup {n}), next'[m] # NULL, home2[m] = Active(j)
        PROVE  InList(m) /\ home[m] = Active(j) /\ height2[m] = height[m] /\ m \notin fresh
    BY <1>1, <1>2, <1>5, <2>3
  <2> QED
    BY <1>4, <2>1, <2>2, <2>3 DEF BeginsAt, InList
<1> QED
  BY <1>6, <1>7, <1>8 DEF Walks

(* Insert.                                                                 *)
LEMMA InsertKeeps ==
  ASSUME Types, NEW home \in Homes, NEW height \in Heights, Rings(home, height),
         Walks(home, height), NEW i \in Slots, Insert(i)
  PROVE  IInv'
<1>1. PICK n \in Nodes : Inserts(i, n, Active(i), next[Active(i)])
  BY DEF Insert, Inserts
<1>2. PICK a, x : a = Active(i) /\ x = next[Active(i)]
  OBVIOUS
<1> DEFINE home2 == [home EXCEPT ![n] = a]
           height2 == [height EXCEPT ![n] = height[x] + 1]
<1>3. /\ home2 \in Homes /\ height2 \in Heights
      /\ Rings(home2, height2)' /\ Types' /\ Walks(home2, height2)'
  BY <1>1, <1>2, InsertRings, InsertWalks
<1> QED
  BY <1>3 DEF IInv

(* The link back to the new node completes its insertion.                  *)
LEMMA InsertedRings ==
  ASSUME Types, NEW home \in Homes, NEW height \in Heights, Rings(home, height), NEW i \in Slots,
         Inserted(i)
  PROVE  Rings(home, height)'
<1> DEFINE n == inserting[i]
           x == next[n]
<1>1. /\ n # NULL /\ n \in Nodes /\ n \in Cells /\ InList(n) /\ home[n] = Active(i)
      /\ next[Active(i)] = n /\ prev[x] = Active(i) /\ cpc # "merge"
      /\ x \in Cells /\ InList(x) /\ Active(i) \in Cells /\ InList(Active(i)) /\ Active(i) \notin Nodes
  <2>1. n # NULL /\ n \in Nodes /\ n \in Cells
    BY Ends DEF Inserted, Types
  <2>2. Active(i) \in Cells /\ Active(i) \in Sentinels /\ Active(i) \notin Nodes
    BY Ends
  <2>3. /\ InList(n) /\ home[n] = Active(i)
        /\ next[Active(i)] = n /\ prev[x] = Active(i) /\ cpc # "merge"
    BY <2>1 DEF Rings, AtFront
  <2>4. x \in Cells /\ InList(x) /\ InList(Active(i))
    BY <2>1, <2>2, <2>3 DEF Rings, Chained
  <2> QED
    BY <2>1, <2>2, <2>3, <2>4
<1>2. /\ next' = next /\ registered' = registered /\ ActiveIndex' = ActiveIndex /\ cpc' = cpc
      /\ \A c \in Cells : prev'[c] = IF c = x THEN n ELSE prev[c]
      /\ \A j \in Slots : inserting'[j] = IF j = i THEN NULL ELSE inserting[j]
  BY <1>1 DEF Inserted, LinkedBack, Types
<1>3. \A j \in Slots : inserting[j] # NULL =>
        /\ inserting[j] \in Nodes /\ inserting[j] \in Cells /\ InList(inserting[j])
        /\ home[inserting[j]] = Active(j) /\ next[Active(j)] = inserting[j]
        /\ prev[next[inserting[j]]] = Active(j) /\ cpc # "merge"
  BY Ends DEF Types, Rings, AtFront
<1>4. \A c \in Cells : InList(c) => /\ next[c] \in Cells /\ InList(next[c]) /\ home[next[c]] = home[c]
                                    /\ prev[c] \in Cells /\ InList(prev[c]) /\ home[prev[c]] = home[c]
  BY DEF Rings, Chained
<1>5. home[x] = home[n] /\ x # n
  <2>1. height[x] < height[n] /\ height[n] \in Nat
    BY <1>1 DEF Rings, Ordered, Heights
  <2> QED
    BY <1>1, <1>4, <2>1
<1> HIDE DEF n, x
<1>6. Chained(home)'
  <2> SUFFICES ASSUME NEW c \in Cells
               PROVE  /\ c \in Sentinels => InList(c)
                      /\ InList(c) => /\ next[c] \in Cells /\ InList(next[c]) /\ home[next[c]] = home[c]
                                      /\ prev'[c] \in Cells /\ InList(prev'[c])
                                      /\ home[prev'[c]] = home[c]
    BY <1>2 DEF Chained, InList
  <2>1. c \in Sentinels => InList(c)
    BY DEF Rings, Chained
  <2> QED
    BY <1>1, <1>2, <1>4, <1>5, <2>1
<1>7. Ordered(home, height)'
  BY <1>2 DEF Rings, Ordered, InList
<1>8. BothWays'
  <2> SUFFICES ASSUME NEW c \in Cells, InList(c)
               PROVE  /\ (\A j \in Slots : c # inserting'[j]) => prev'[next[c]] = c
                      /\ (\A j \in Slots : inserting'[j] # NULL => c # next[inserting'[j]])
                           => next[prev'[c]] = c
    BY <1>2 DEF BothWays, InList
  <2>1. /\ (\A j \in Slots : c # inserting[j]) => prev[next[c]] = c
        /\ (\A j \in Slots : inserting[j] # NULL => c # next[inserting[j]]) => next[prev[c]] = c
    BY DEF Rings, BothWays
  <2>2. ASSUME \A j \in Slots : c # inserting'[j]
        PROVE  prev'[next[c]] = c
    <3>1. CASE c = n
      BY <1>1, <1>2, <3>1 DEF x
    <3>2. CASE c # n
      <4>1. prev[next[c]] = c /\ next[c] \in Cells
        BY <1>2, <1>4, <2>1, <2>2, <3>2 DEF n
      <4>2. next[c] # x
        BY <1>1, <1>5, <4>1
      <4> QED
        BY <1>2, <4>1, <4>2
    <3> QED
      BY <3>1, <3>2
  <2>3. ASSUME \A j \in Slots : inserting'[j] # NULL => c # next[inserting'[j]]
        PROVE  next[prev'[c]] = c
    <3>1. CASE c = x
      BY <1>1, <1>2, <3>1 DEF x
    <3>2. CASE c # x
      BY <1>2, <2>1, <2>3, <3>2 DEF n, x
    <3> QED
      BY <3>1, <3>2
  <2> QED
    BY <2>2, <2>3
<1>9. AtFront(home)'
  <2> SUFFICES ASSUME NEW j \in Slots, inserting'[j] # NULL
               PROVE  /\ InList(inserting'[j]) /\ home[inserting'[j]] = Active(j)
                      /\ next[Active(j)] = inserting'[j]
                      /\ prev'[next[inserting'[j]]] = Active(j) /\ cpc # "merge"
    BY <1>2 DEF AtFront, InList, Active
  <2>1. j # i /\ inserting'[j] = inserting[j]
    BY <1>2
  <2>2. next[inserting[j]] \in Cells /\ home[next[inserting[j]]] = Active(j)
    BY <1>3, <1>4, <2>1
  <2>3. Active(j) # Active(i)
    BY <2>1, Ends
  <2>4. next[inserting[j]] # x
    BY <1>1, <1>5, <2>2, <2>3
  <2> QED
    BY <1>2, <1>3, <2>1, <2>2, <2>4
<1>10. Owners(home)'
  BY <1>2 DEF Rings, Owners, InList
<1> QED
  BY <1>6, <1>7, <1>8, <1>9, <1>10 DEF Rings

(* The walks go by the links alone.                                        *)
LEMMA WalksStay ==
  ASSUME NEW home \in Homes, NEW height \in Heights, Walks(home, height), next' = next,
         UNCHANGED <<registered, third, ActiveIndex, cpc, slot, center, itNext, met, fresh, late>>
  PROVE  Walks(home, height)'
<1>1. Swept(home, height)'
  BY DEF Walks, Swept, InList, Snapshot
<1>2. Restored(home, height)'
  BY DEF Walks, Restored, InList, Active
<1>3. Begins(home, height)'
  BY DEF Walks, Begins, BeginsAt, InList, Active, Late
<1> QED
  BY <1>1, <1>2, <1>3 DEF Walks

(* Inserted.                                                               *)
LEMMA InsertedKeeps ==
  ASSUME Types, NEW home \in Homes, NEW height \in Heights, Rings(home, height),
         Walks(home, height), NEW i \in Slots, Inserted(i)
  PROVE  IInv'
<1>1. Types'
  <2>1. inserting[i] \in Nodes /\ next[inserting[i]] \in Cells
    BY Ends DEF Types, Inserted, Rings, AtFront, Chained
  <2>2. inserting[i] \in Cells
    BY <2>1, Ends
  <2>3. prev' \in [Cells -> Cells \cup {NULL}]
    BY <2>1, <2>2 DEF Types, Inserted, LinkedBack
  <2>4. inserting' \in [Slots -> Nodes \cup {NULL}]
    BY DEF Types, Inserted
  <2> QED
    BY <2>3, <2>4 DEF Types, Inserted, iterator
<1>2. Rings(home, height)'
  BY InsertedRings
<1>3. Walks(home, height)'
  BY WalksStay DEF Inserted, iterator
<1> QED
  BY <1>1, <1>2, <1>3 DEF IInv

(* Steps that leave the links alone, and turn the lists round only when no *)
(* node is being inserted.                                                 *)
LEMMA RingsStay ==
  ASSUME NEW home \in Homes, NEW height \in Heights, Rings(home, height),
         next' = next, prev' = prev, inserting' = inserting, registered \subseteq registered',
         Quiet \/ (ActiveIndex' = ActiveIndex /\ cpc' # "merge")
  PROVE  Rings(home, height)'
<1>1. Chained(home)' /\ Ordered(home, height)' /\ BothWays' /\ Owners(home)'
  BY DEF Rings, Chained, Ordered, BothWays, Owners, InList
<1>2. AtFront(home)'
  BY DEF Rings, AtFront, InList, Quiet, Active
<1> QED
  BY <1>1, <1>2 DEF Rings

(* A new slot has no nodes.                                                *)
LEMMA RegisterKeeps ==
  ASSUME Types, NEW home \in Homes, NEW height \in Heights, Rings(home, height),
         Walks(home, height), NEW i \in Slots, Register(i)
  PROVE  IInv'
<1>1. /\ registered' = registered \cup {i} /\ i \notin registered /\ (Late(i) => i \in late')
      /\ late \subseteq late'
      /\ next' = next /\ prev' = prev /\ third' = third /\ ActiveIndex' = ActiveIndex
      /\ inserting' = inserting /\ cpc' = cpc /\ slot' = slot /\ center' = center
      /\ itNext' = itNext /\ met' = met /\ fresh' = fresh
  BY DEF Register, listVars, iterator
<1>2. Types'
  BY <1>1 DEF Types
<1>3. Rings(home, height)'
  <2>1. cpc # "merge" \/ Quiet
    BY DEF Rings, AtFront, Quiet
  <2> QED
    BY <1>1, <2>1, RingsStay
<1>4. \A n \in Nodes : InList(n) => home[n] # Active(i) /\ home[n] # Snapshot(i)
  BY <1>1, Ends DEF Rings, Owners
<1>5. Swept(home, height)'
  BY <1>1, <1>4 DEF Walks, Swept, InList, Snapshot
<1>6. Restored(home, height)'
  BY <1>1, <1>4 DEF Walks, Restored, InList, Active
<1>7. Begins(home, height)'
  <2>1. \A j : Late(j)' <=> Late(j)
    BY <1>1 DEF Late
  <2> QED
    BY <1>1, <2>1 DEF Walks, Begins, BeginsAt, InList, Active
<1> QED
  BY <1>2, <1>3, <1>5, <1>6, <1>7 DEF IInv, Walks

-----------------------------------------------------------------------------
(* The steps of the collector between its loops.                           *)
LEMMA TurnListsKeeps ==
  ASSUME Types, NEW home \in Homes, NEW height \in Heights, Rings(home, height),
         Walks(home, height), TurnLists
  PROVE  IInv'
<1>1. /\ Quiet /\ next' = next /\ prev' = prev /\ inserting' = inserting /\ registered' = registered
      /\ third' = third /\ late' = late /\ fresh' = fresh /\ cpc' = "sweep" /\ slot' = 0 /\ center' = NULL
      /\ itNext' = NULL /\ met' = {} /\ ActiveIndex' = 1 - ActiveIndex
  BY DEF TurnLists, Loop, listVars
<1>2. Types'
  BY <1>1, ListsAssumption DEF Types, Places
<1>3. Rings(home, height)'
  BY <1>1, RingsStay
<1>4. \A i \in registered : ~(i < 0)
  BY DEF Types, Slots
<1>5. Swept(home, height)' /\ Restored(home, height)' /\ Begins(home, height)'
  BY <1>1, <1>4 DEF Walks, Swept, Restored, Begins, Late
<1> QED
  BY <1>2, <1>3, <1>5 DEF IInv, Walks

(* Nothing has been merged yet.                                            *)
LEMMA StartMergeKeeps ==
  ASSUME Types, NEW home \in Homes, NEW height \in Heights, Rings(home, height),
         Walks(home, height), StartMerge
  PROVE  IInv'
<1>1. /\ Quiet /\ next' = next /\ prev' = prev /\ inserting' = inserting /\ registered' = registered
      /\ third' = third /\ late' = late /\ fresh' = {} /\ cpc' = "merge" /\ slot' = 0 /\ center' = NULL
      /\ itNext' = NULL /\ met' = {} /\ ActiveIndex' = ActiveIndex
  BY DEF StartMerge, Loop, listVars
<1>2. Types'
  BY <1>1, ListsAssumption DEF Types, Places
<1>3. Rings(home, height)'
  BY <1>1, RingsStay
<1>4. \A i \in registered : ~(i < 0)
  BY DEF Types, Slots
<1>5. Swept(home, height)' /\ Restored(home, height)' /\ Begins(home, height)'
  BY <1>1, <1>4 DEF Walks, Swept, Restored, Begins, Late
<1> QED
  BY <1>2, <1>3, <1>5 DEF IInv, Walks

(* Every third entry has been assigned.                                    *)
LEMMA StartRestoreKeeps ==
  ASSUME Types, NEW home \in Homes, NEW height \in Heights, Rings(home, height),
         Walks(home, height), StartRestore
  PROVE  IInv'
<1>1. /\ next' = next /\ prev' = prev /\ inserting' = inserting /\ registered' = registered
      /\ third' = third /\ late' = late /\ fresh' = fresh /\ cpc' = "restore" /\ slot' = 0 /\ center' = NULL
      /\ itNext' = NULL /\ met' = {} /\ ActiveIndex' = ActiveIndex /\ cpc = "merge" /\ slot = N
  BY DEF StartRestore, Loop, listVars
<1>2. Types'
  BY <1>1, ListsAssumption DEF Types, Places
<1>3. Rings(home, height)'
  BY <1>1, RingsStay
<1>4. \A i \in registered : ~(i < 0) /\ i < N
  BY ListsAssumption DEF Types, Slots
<1>5. Swept(home, height)' /\ Restored(home, height)'
  BY <1>1, <1>4 DEF Swept, Restored
<1>6. Begins(home, height)'
  <2>1. \A i \in registered : Late(i)
    BY <1>1, <1>4 DEF Late
  <2> QED
    BY <1>1, <2>1 DEF Walks, Begins, BeginsAt, InList, Active
<1> QED
  BY <1>2, <1>3, <1>5, <1>6 DEF IInv, Walks

(* They are still where the second walk begins.                            *)
LEMMA StartFinalizeKeeps ==
  ASSUME Types, NEW home \in Homes, NEW height \in Heights, Rings(home, height),
         Walks(home, height), StartFinalize
  PROVE  IInv'
<1>1. /\ next' = next /\ prev' = prev /\ inserting' = inserting /\ registered' = registered
      /\ third' = third /\ late' = late /\ fresh' = fresh /\ cpc' = "finalize" /\ slot' = 0 /\ center' = NULL
      /\ itNext' = NULL /\ met' = {} /\ ActiveIndex' = ActiveIndex /\ cpc = "restore"
  BY DEF StartFinalize, Loop, listVars
<1>2. Types'
  BY <1>1, ListsAssumption DEF Types, Places
<1>3. Rings(home, height)'
  BY <1>1, RingsStay
<1>4. \A i \in registered : ~(i < 0)
  BY DEF Types, Slots
<1>5. Swept(home, height)' /\ Restored(home, height)'
  BY <1>1, <1>4 DEF Swept, Restored
<1>6. Begins(home, height)'
  <2>1. \A i \in registered : Late(i)
    BY <1>1 DEF Late
  <2> QED
    BY <1>1, <2>1 DEF Walks, Begins, BeginsAt, InList, Active
<1> QED
  BY <1>2, <1>3, <1>5, <1>6 DEF IInv, Walks

(* The end of a collection.                                                *)
LEMMA CollectedKeeps ==
  ASSUME Types, NEW home \in Homes, NEW height \in Heights, Rings(home, height),
         Walks(home, height), Collected
  PROVE  IInv'
<1>1. /\ next' = next /\ prev' = prev /\ inserting' = inserting /\ registered' = registered
      /\ third' = third /\ late' = late /\ fresh' = fresh /\ cpc' = "idle" /\ slot' = 0 /\ center' = NULL
      /\ itNext' = NULL /\ met' = {} /\ ActiveIndex' = ActiveIndex
  BY DEF Collected, Loop, listVars
<1>2. Types'
  BY <1>1, ListsAssumption DEF Types, Places
<1>3. Rings(home, height)'
  BY <1>1, RingsStay
<1>4. Swept(home, height)' /\ Restored(home, height)' /\ Begins(home, height)'
  BY <1>1 DEF Walks, Swept, Restored, Begins, Late
<1> QED
  BY <1>2, <1>3, <1>4 DEF IInv, Walks

-----------------------------------------------------------------------------
(* The loops of the collector.                                             *)

(* A node c of a snapshot list is taken out between p and x.               *)
LEMMA DeletedRings ==
  ASSUME Types, NEW home \in Homes, NEW height \in Heights, Rings(home, height),
         NEW c \in Nodes, InList(c), NEW i \in Slots, home[c] = Snapshot(i), Deleted(c),
         UNCHANGED <<registered, ActiveIndex, inserting, cpc>>
  PROVE  /\ Rings(home, height)'
         /\ next' \in [Cells -> Cells \cup {NULL}] /\ prev' \in [Cells -> Cells \cup {NULL}]
         /\ \A d \in Cells : next'[d] # NULL <=> InList(d) /\ d # c
<1>1. PICK p, x : p = prev[c] /\ x = next[c]
  OBVIOUS
<1>2. /\ Sentinels \subseteq Cells /\ Nodes \subseteq Cells /\ c \in Cells
      /\ Nodes \cap Sentinels = {} /\ NULL \notin Cells
  BY Ends
<1>3. \A d \in Cells : InList(d) => /\ next[d] \in Cells /\ InList(next[d]) /\ home[next[d]] = home[d]
                                    /\ prev[d] \in Cells /\ InList(prev[d]) /\ home[prev[d]] = home[d]
  BY DEF Rings, Chained
<1>4. \A j \in Slots : inserting[j] # NULL =>
        /\ inserting[j] \in Nodes /\ inserting[j] \in Cells /\ InList(inserting[j])
        /\ home[inserting[j]] = Active(j) /\ next[Active(j)] = inserting[j]
        /\ prev[next[inserting[j]]] = Active(j) /\ cpc # "merge"
        /\ home[inserting[j]] # home[c]
  BY Ends DEF Types, Rings, AtFront
<1>5. \A d \in Cells : InList(d) /\ home[d] = home[c] => prev[next[d]] = d /\ next[prev[d]] = d
  <2> SUFFICES ASSUME NEW d \in Cells, InList(d), home[d] = home[c]
               PROVE  prev[next[d]] = d /\ next[prev[d]] = d
    OBVIOUS
  <2>1. \A j \in Slots : d # inserting[j]
    BY <1>2, <1>4 DEF Types
  <2>2. \A j \in Slots : inserting[j] # NULL => d # next[inserting[j]]
    BY <1>3, <1>4
  <2> QED
    BY <2>1, <2>2 DEF Rings, BothWays
<1>6. /\ p \in Cells /\ InList(p) /\ home[p] = home[c] /\ next[p] = c
      /\ x \in Cells /\ InList(x) /\ home[x] = home[c] /\ prev[x] = c
  BY <1>1, <1>2, <1>3, <1>5
<1>7. /\ height \in [Cells -> Nat] /\ height[x] < height[c] /\ p # c /\ x # c
      /\ p \in Nodes => height[c] < height[p]
  <2>1. height \in [Cells -> Nat] /\ height[x] < height[c]
    BY <1>1 DEF Rings, Ordered, Heights
  <2>2. p \in Nodes => height[c] < height[p]
    BY <1>6 DEF Rings, Ordered
  <2> QED
    BY <1>2, <1>6, <2>1, <2>2
<1>8. \A d \in Cells :
        /\ next'[d] = IF d = c THEN NULL ELSE IF d = p THEN x ELSE next[d]
        /\ prev'[d] = IF d = c THEN NULL ELSE IF d = x THEN p ELSE prev[d]
  BY <1>1, <1>2, <1>6, <1>7 DEF Deleted, Types
<1>9. next' \in [Cells -> Cells \cup {NULL}] /\ prev' \in [Cells -> Cells \cup {NULL}]
  BY <1>1, <1>2, <1>6 DEF Deleted, Types
<1>10. \A d \in Cells : next'[d] # NULL <=> InList(d) /\ d # c
  BY <1>2, <1>6, <1>8 DEF InList
<1>11. \A d \in Cells : InList(d) /\ d # c => /\ next[d] = c => d = p
                                              /\ prev[d] = c => d = x
  BY <1>1, <1>2, <1>3, <1>5
<1>12. Chained(home)'
  <2> SUFFICES ASSUME NEW d \in Cells
               PROVE  /\ d \in Sentinels => next'[d] # NULL
                      /\ next'[d] # NULL =>
                           /\ next'[d] \in Cells /\ next'[next'[d]] # NULL /\ home[next'[d]] = home[d]
                           /\ prev'[d] \in Cells /\ next'[prev'[d]] # NULL /\ home[prev'[d]] = home[d]
    BY DEF Chained, InList
  <2>1. d \in Sentinels => InList(d) /\ d # c
    BY <1>2 DEF Rings, Chained
  <2>2. InList(d) /\ d # c =>
          next'[d] \in Cells /\ InList(next'[d]) /\ next'[d] # c /\ home[next'[d]] = home[d]
    BY <1>3, <1>6, <1>7, <1>8, <1>11
  <2>3. InList(d) /\ d # c =>
          prev'[d] \in Cells /\ InList(prev'[d]) /\ prev'[d] # c /\ home[prev'[d]] = home[d]
    BY <1>3, <1>6, <1>7, <1>8, <1>11
  <2> QED
    BY <1>10, <2>1, <2>2, <2>3
<1>13. Ordered(home, height)'
  <2>1. ASSUME NEW d \in Nodes, InList(d), d # c
        PROVE  height[next'[d]] < height[d]
    <3>1. CASE d = p
      BY <1>2, <1>6, <1>7, <1>8, <2>1, <3>1
    <3>2. CASE d # p
      BY <1>2, <1>8, <2>1, <3>2 DEF Rings, Ordered
    <3> QED
      BY <3>1, <3>2
  <2>2. ASSUME NEW d \in Cells, NEW e \in Cells, InList(d), d # c, InList(e), e # c, home[d] = home[e]
        PROVE  /\ d \in Sentinels \/ height[e] < height[d] => height[e] =< height[next'[d]]
               /\ height[d] = height[e] => d = e
    <3>1. \A y, z \in Cells : InList(y) /\ InList(z) /\ home[y] = home[z] =>
            /\ y \in Sentinels \/ height[z] < height[y] => height[z] =< height[next[y]]
            /\ height[y] = height[z] => y = z
      BY DEF Rings, Ordered
    <3>2. CASE d = p
      <4>1. next'[d] = x /\ home[e] = home[c]
        BY <1>6, <1>8, <2>2, <3>2
      <4>2. height[e] # height[c] /\ height[e] \in Nat /\ height[c] \in Nat
        BY <1>2, <1>7, <2>2, <3>1, <4>1
      <4>3. height[e] < height[c] => height[e] =< height[x]
        BY <1>1, <1>2, <2>2, <3>1, <4>1
      <4>4. d \in Sentinels \/ height[e] < height[d] => height[e] =< height[c]
        BY <1>6, <2>2, <3>1, <3>2
      <4> QED
        BY <2>2, <3>1, <4>1, <4>2, <4>3, <4>4
    <3>3. CASE d # p
      BY <1>8, <2>2, <3>1, <3>3
    <3> QED
      BY <3>2, <3>3
  <2> QED
    BY <1>2, <1>10, <2>1, <2>2 DEF Ordered, InList
<1>14. BothWays'
  <2> SUFFICES ASSUME NEW d \in Cells, InList(d), d # c
               PROVE  /\ (\A j \in Slots : d # inserting[j]) => prev'[next'[d]] = d
                      /\ (\A j \in Slots : inserting[j] # NULL => d # next'[inserting[j]])
                           => next'[prev'[d]] = d
    BY <1>10 DEF BothWays, InList
  <2>1. /\ (\A j \in Slots : d # inserting[j]) => prev[next[d]] = d
        /\ (\A j \in Slots : inserting[j] # NULL => d # next[inserting[j]]) => next[prev[d]] = d
    BY DEF Rings, BothWays
  <2>2. ASSUME \A j \in Slots : d # inserting[j]
        PROVE  prev'[next'[d]] = d
    <3>1. CASE d = p
      BY <1>6, <1>7, <1>8, <3>1
    <3>2. CASE d # p
      <4>1. next'[d] = next[d] /\ next[d] \in Cells /\ prev[next[d]] = d /\ next[d] # c
        BY <1>3, <1>8, <1>11, <2>1, <2>2, <3>2
      <4>2. next[d] # x
        BY <1>6, <4>1
      <4> QED
        BY <1>8, <4>1, <4>2
    <3> QED
      BY <3>1, <3>2
  <2>3. \A j \in Slots : inserting[j] # NULL => next'[inserting[j]] = next[inserting[j]]
    BY <1>4, <1>6, <1>8
  <2>4. ASSUME \A j \in Slots : inserting[j] # NULL => d # next'[inserting[j]]
        PROVE  next'[prev'[d]] = d
    <3>1. CASE d = x
      BY <1>6, <1>7, <1>8, <3>1
    <3>2. CASE d # x
      <4>1. prev'[d] = prev[d] /\ prev[d] \in Cells /\ next[prev[d]] = d /\ prev[d] # c
        BY <1>3, <1>8, <1>11, <2>1, <2>3, <2>4, <3>2
      <4>2. prev[d] # p
        BY <1>6, <4>1
      <4> QED
        BY <1>8, <4>1, <4>2
    <3> QED
      BY <3>1, <3>2
  <2> QED
    BY <2>2, <2>4
<1>15. AtFront(home)'
  <2> SUFFICES ASSUME NEW j \in Slots, inserting[j] # NULL
               PROVE  /\ next'[inserting[j]] # NULL /\ home[inserting[j]] = Active(j)
                      /\ next'[Active(j)] = inserting[j]
                      /\ prev'[next'[inserting[j]]] = Active(j) /\ cpc # "merge"
    BY DEF AtFront, InList, Active
  <2>1. Active(j) \in Cells /\ home[Active(j)] = Active(j) /\ Active(j) # home[c]
    BY Ends DEF Homes
  <2>2. /\ inserting[j] # c /\ inserting[j] # p /\ Active(j) # c /\ Active(j) # p
        /\ next[inserting[j]] \in Cells /\ next[inserting[j]] # c /\ next[inserting[j]] # x
    BY <1>3, <1>4, <1>6, <2>1
  <2> QED
    BY <1>4, <1>8, <1>10, <2>1, <2>2
<1>16. Owners(home)'
  BY <1>2, <1>10 DEF Rings, Owners, InList
<1> QED
  BY <1>9, <1>10, <1>12, <1>13, <1>14, <1>15, <1>16 DEF Rings

(* Every node is met in its turn, whether it stays or not.                 *)
LEMMA SweepKeeps ==
  ASSUME Types, NEW home \in Homes, NEW height \in Heights, Rings(home, height),
         Walks(home, height), Sweep
  PROVE  Types' /\ Rings(home, height)' /\ Walks(home, height)'
<1>1. /\ cpc = "sweep" /\ slot \in Slots /\ slot \in 0 .. N /\ slot + 1 \in 0 .. N
      /\ registered' = registered /\ third' = third /\ ActiveIndex' = ActiveIndex
      /\ inserting' = inserting /\ cpc' = cpc /\ fresh' = fresh /\ late' = late
  BY ListsAssumption DEF Sweep, Types, Slots
<1>2. /\ Sentinels \subseteq Cells /\ Nodes \subseteq Cells /\ Nodes \cap Sentinels = {}
      /\ NULL \notin Cells /\ Snapshot(slot) \in Sentinels /\ Snapshot(slot) \in Cells
  BY <1>1, Ends
<1>3. Restored(home, height)' /\ Begins(home, height)'
  BY <1>1 DEF Walks, Restored, Begins, Late
<1>4. \A d \in Cells : InList(d) => next[d] \in Cells /\ InList(next[d]) /\ home[next[d]] = home[d]
  BY DEF Rings, Chained
<1>5. /\ center # NULL =>
           slot \in registered /\ itNext \in Cells /\ InList(itNext) /\ home[itNext] = Snapshot(slot)
      /\ \A i \in registered, n \in Nodes :
           /\ InList(n) /\ home[n] = Snapshot(i)
           /\ i < slot \/ (i = slot /\ center # NULL /\ height[itNext] < height[n])
           => n \in met
  BY <1>1 DEF Walks, Swept
<1>6. \A c, d \in Cells : InList(c) /\ InList(d) /\ home[c] = home[d] =>
        /\ c \in Sentinels \/ height[d] < height[c] => height[d] =< height[next[c]]
        /\ height[c] = height[d] => c = d
  BY DEF Rings, Ordered
<1>7. /\ \A c \in Cells : height[c] \in Nat /\ (height[c] = 0 <=> c \in Sentinels)
      /\ \A s \in Sentinels : home[s] = s
  BY DEF Heights, Homes
<1>8. \A i \in registered : i \in Int
  BY DEF Types, Slots
<1>9. CASE /\ NextSlot /\ UNCHANGED listVars
           /\ slot \notin registered \/ (center # NULL /\ itNext \in Sentinels)
  <2>1. /\ next' = next /\ prev' = prev /\ slot' = slot + 1 /\ center' = NULL /\ itNext' = NULL
        /\ met' = met
    BY <1>9 DEF NextSlot, listVars
  <2>2. Types' /\ Rings(home, height)'
    BY <1>1, <2>1, RingsStay DEF Types, Rings, AtFront
  <2>3. ASSUME NEW i \in registered, NEW n \in Nodes, InList(n), home[n] = Snapshot(i), i < slot + 1
        PROVE  n \in met
    <3>1. CASE i < slot
      BY <1>5, <2>3, <3>1
    <3>2. CASE i = slot
      <4>1. center # NULL /\ height[itNext] = 0
        BY <1>2, <1>7, <1>9, <3>2
      <4>2. height[n] \in Nat /\ height[n] # 0
        BY <1>2, <1>7
      <4> QED
        BY <1>5, <2>3, <3>2, <4>1, <4>2
    <3> QED
      BY <1>1, <1>8, <2>3, <3>1, <3>2
  <2>4. \A i : Snapshot(i)' = Snapshot(i)
    BY <1>1 DEF Snapshot
  <2>5. Swept(home, height)'
    BY <1>1, <2>1, <2>3, <2>4 DEF Swept, InList
  <2> QED
    BY <1>3, <2>2, <2>5 DEF Walks
<1>10. CASE /\ slot \in registered /\ center = NULL
            /\ Iterate(SweepStart(slot))
            /\ UNCHANGED <<listVars, slot, met>>
  <2>1. /\ next' = next /\ prev' = prev /\ slot' = slot /\ center' = Snapshot(slot)
        /\ itNext' = next[Snapshot(slot)] /\ met' = met
    BY <1>10 DEF Iterate, SweepStart, listVars
  <2>2. InList(Snapshot(slot)) /\ home[Snapshot(slot)] = Snapshot(slot)
    BY <1>2, <1>7 DEF Rings, Chained
  <2>3. /\ itNext' \in Cells /\ InList(next[Snapshot(slot)])
        /\ home[next[Snapshot(slot)]] = Snapshot(slot)
    BY <1>2, <1>4, <2>1, <2>2
  <2>4. Types' /\ Rings(home, height)'
    BY <1>1, <1>2, <2>1, <2>3, RingsStay DEF Types, Rings, AtFront
  <2>5. ASSUME NEW n \in Nodes, InList(n), home[n] = Snapshot(slot)
        PROVE  ~(height[next[Snapshot(slot)]] < height[n])
    <3>1. height[n] =< height[next[Snapshot(slot)]]
      BY <1>2, <1>6, <2>2, <2>5
    <3>2. height[n] \in Nat /\ height[next[Snapshot(slot)]] \in Nat
      BY <1>2, <1>7, <2>1, <2>3
    <3> QED
      BY <3>1, <3>2
  <2>6. \A i : Snapshot(i)' = Snapshot(i)
    BY <1>1 DEF Snapshot
  <2>7. Swept(home, height)'
    BY <1>1, <1>5, <1>10, <2>1, <2>3, <2>5, <2>6 DEF Swept, InList
  <2> QED
    BY <1>3, <2>4, <2>7 DEF Walks
<1>11. CASE /\ slot \in registered /\ center # NULL /\ itNext \in Nodes
            /\ UNCHANGED listVars \/ Deleted(itNext)
            /\ Forward
            /\ met' = met \cup {itNext}
            /\ slot' = slot
  <2>1. PICK c : c = itNext
    OBVIOUS
  <2>2. /\ c \in Nodes /\ c \in Cells /\ InList(c) /\ home[c] = Snapshot(slot)
        /\ slot' = slot /\ center' = c /\ itNext' = next[c] /\ met' = met \cup {c}
        /\ UNCHANGED listVars \/ Deleted(c)
    BY <1>2, <1>5, <1>11, <2>1 DEF Forward
  <2>3. next[c] \in Cells /\ InList(next[c]) /\ home[next[c]] = home[c] /\ next[c] # c
    <3>1. height[next[c]] < height[c]
      BY <2>2 DEF Rings, Ordered
    <3> QED
      BY <1>4, <1>7, <2>2, <3>1
  <2>4. /\ Rings(home, height)'
        /\ next' \in [Cells -> Cells \cup {NULL}] /\ prev' \in [Cells -> Cells \cup {NULL}]
        /\ next'[next[c]] # NULL
        /\ \A d \in Cells : next'[d] # NULL => InList(d)
    <3>1. CASE UNCHANGED listVars
      <4>1. next' = next /\ prev' = prev
        BY <3>1 DEF listVars
      <4> QED
        BY <1>1, <2>3, <4>1, RingsStay DEF Types, Rings, AtFront, InList
    <3>2. CASE Deleted(c)
      BY <1>1, <2>2, <2>3, <3>2, DeletedRings
    <3> QED
      BY <2>2, <3>1, <3>2
  <2>5. Types'
    BY <1>1, <2>2, <2>3, <2>4 DEF Types
  <2>6. ASSUME NEW n \in Nodes, InList(n), home[n] = Snapshot(slot), height[next[c]] < height[n]
        PROVE  n \in met \cup {c}
    <3>1. /\ height[n] \in Nat /\ height[c] \in Nat /\ height[next[c]] \in Nat
          /\ height[n] < height[c] => height[n] =< height[next[c]]
          /\ height[n] = height[c] => n = c
      BY <1>2, <1>6, <1>7, <2>2, <2>3, <2>6
    <3>2. height[n] = height[c] \/ height[c] < height[n]
      BY <2>6, <3>1
    <3> QED
      BY <1>5, <1>11, <2>1, <2>6, <3>1, <3>2
  <2>7. \A i : Snapshot(i)' = Snapshot(i)
    BY <1>1 DEF Snapshot
  <2>8. ASSUME NEW i \in registered, NEW n \in Nodes, next'[n] # NULL, home[n] = Snapshot(i),
               i < slot \/ (i = slot /\ height[next[c]] < height[n])
        PROVE  n \in met \cup {c}
    BY <1>2, <1>5, <2>4, <2>6, <2>8
  <2>9. Swept(home, height)'
    BY <1>1, <1>11, <2>2, <2>3, <2>4, <2>7, <2>8 DEF Swept, InList
  <2> QED
    BY <1>3, <2>4, <2>5, <2>9 DEF Walks
<1> QED
  BY <1>9, <1>10, <1>11 DEF Sweep

(* So is every node that is not new by the walks that restore the snapshot.*)
LEMMA WalkRestoredKeeps ==
  ASSUME Types, NEW home \in Homes, NEW height \in Heights, Rings(home, height),
         Walks(home, height), WalkRestored
  PROVE  Types' /\ Rings(home, height)' /\ Walks(home, height)'
<1>1. /\ cpc \in {"restore", "finalize"} /\ slot \in Slots /\ slot \in 0 .. N /\ slot + 1 \in 0 .. N
      /\ registered' = registered /\ third' = third /\ ActiveIndex' = ActiveIndex
      /\ inserting' = inserting /\ fresh' = fresh /\ late' = late /\ next' = next /\ prev' = prev
      /\ cpc' \in {cpc, "crashed"}
  BY ListsAssumption DEF WalkRestored, Types, Slots, listVars
<1>2. /\ Sentinels \subseteq Cells /\ Nodes \subseteq Cells /\ Nodes \cap Sentinels = {}
      /\ NULL \notin Cells
      /\ \A i \in Slots : Active(i) \in Sentinels /\ Active(i) \in Cells
  BY Ends
<1>3. Rings(home, height)'
  BY <1>1, RingsStay
<1>4. \A d \in Cells : InList(d) => next[d] \in Cells /\ InList(next[d]) /\ home[next[d]] = home[d]
  BY DEF Rings, Chained
<1>5. /\ center # NULL =>
           /\ slot \in registered
           /\ center \in Cells /\ InList(center) /\ home[center] = Active(slot)
           /\ itNext \in Cells /\ InList(itNext) /\ home[itNext] = Active(slot)
           /\ center \in Nodes => itNext = next[center]
      /\ \A i \in registered, n \in Nodes \ fresh :
           /\ InList(n) /\ home[n] = Active(i)
           /\ i < slot \/ (i = slot /\ center # NULL /\ height[center] < height[n])
           => n \in met
  BY <1>1 DEF Walks, Restored
<1>6. \A c, d \in Cells : InList(c) /\ InList(d) /\ home[c] = home[d] =>
        /\ c \in Sentinels \/ height[d] < height[c] => height[d] =< height[next[c]]
        /\ height[c] = height[d] => c = d
  BY DEF Rings, Ordered
<1>7. \A c \in Cells : height[c] \in Nat /\ (height[c] = 0 <=> c \in Sentinels)
  BY DEF Heights
<1>8. \A i \in registered : i \in Int
  BY DEF Types, Slots
<1>9. \A i : Active(i)' = Active(i)
  BY <1>1 DEF Active
<1>10. Swept(home, height)'
  BY <1>1 DEF Swept, Places, Types
<1>11. ASSUME NEW i \in registered, Late(i)
       PROVE  (third[i] = NULL /\ i \in late) \/ BeginsAt(home, height, i)
  BY <1>11 DEF Walks, Begins
<1>12. Begins(home, height)'
  <2> SUFFICES ASSUME NEW i \in registered, Late(i)'
               PROVE  Late(i)
    BY <1>1, <1>9, <1>11 DEF Walks, Begins, BeginsAt, InList
  <2>1. slot' \in {slot, slot + 1}
    BY DEF WalkRestored, NextSlot
  <2> QED
    BY <1>1, <1>8, <2>1 DEF Late
<1>13. CASE NextSlot /\ cpc' = cpc /\ (slot \notin registered \/ center \in Sentinels)
  <2>1. /\ slot' = slot + 1 /\ center' = NULL /\ itNext' = NULL
        /\ met' = met
    BY <1>13 DEF NextSlot
  <2>2. Types'
    BY <1>1, <1>13, <2>1 DEF Types
  <2>3. ASSUME NEW i \in registered, NEW n \in Nodes \ fresh, InList(n), home[n] = Active(i),
               i < slot + 1
        PROVE  n \in met
    <3>1. CASE i < slot
      BY <1>5, <2>3, <3>1
    <3>2. CASE i = slot
      <4>1. center # NULL /\ height[center] = 0
        BY <1>2, <1>7, <1>13, <3>2
      <4>2. height[n] \in Nat /\ height[n] # 0
        BY <1>2, <1>7
      <4>3. height[center] < height[n]
        BY <4>1, <4>2
      <4> QED
        BY <1>5, <2>3, <3>2, <4>1, <4>3
    <3> QED
      BY <1>1, <1>8, <2>3, <3>1, <3>2
  <2>4. Restored(home, height)'
    BY <1>1, <1>9, <2>1, <2>3 DEF Restored, InList
  <2> QED
    BY <1>3, <1>10, <1>12, <2>2, <2>4 DEF Walks
<1>14. CASE /\ slot \in registered /\ center = NULL /\ third[slot] \in Cells
            /\ Iterate(third[slot])
            /\ UNCHANGED <<slot, met, cpc>>
  <2>1. PICK c : c = third[slot]
    OBVIOUS
  <2>2. slot' = slot /\ center' = c /\ itNext' = next[c] /\ met' = met
    BY <1>14, <2>1 DEF Iterate
  <2>3. \/ cpc = "restore"
        \/ cpc = "finalize" /\ slot =< slot
    BY <1>1
  <2>4. Late(slot)
    BY <2>3 DEF Late
  <2>5. /\ c \in Cells /\ InList(c) /\ home[c] = Active(slot)
        /\ next[c] \in Cells /\ InList(next[c]) /\ home[next[c]] = Active(slot)
        /\ \A n \in Nodes \ fresh :
             InList(n) /\ home[n] = Active(slot) => height[n] =< height[c]
    BY <1>2, <1>4, <1>11, <1>14, <2>1, <2>4 DEF BeginsAt
  <2>6. Types'
    BY <1>1, <1>14, <2>2, <2>5 DEF Types
  <2>7. ASSUME NEW n \in Nodes \ fresh, InList(n), home[n] = Active(slot)
        PROVE  ~(height[c] < height[n])
    <3>1. height[n] \in Nat /\ height[c] \in Nat /\ height[n] =< height[c]
      BY <1>2, <1>7, <2>5, <2>7
    <3> QED
      BY <3>1
  <2>8. Restored(home, height)'
    BY <1>1, <1>5, <1>9, <1>14, <2>2, <2>5, <2>7 DEF Restored, InList
  <2> QED
    BY <1>3, <1>10, <1>12, <2>6, <2>8 DEF Walks
<1>15. CASE /\ slot \in registered /\ center \in Nodes
            /\ Forward
            /\ met' = met \cup {center}
            /\ slot' = slot /\ cpc' = cpc
  <2>1. PICK c, x : c = center /\ x = itNext
    OBVIOUS
  <2>2. /\ c \in Nodes /\ c \in Cells /\ InList(c) /\ home[c] = Active(slot) /\ x = next[c]
        /\ x \in Cells /\ InList(x) /\ home[x] = Active(slot)
        /\ next[x] \in Cells /\ InList(next[x]) /\ home[next[x]] = Active(slot)
        /\ slot' = slot /\ center' = x /\ itNext' = next[x] /\ met' = met \cup {c}
    BY <1>2, <1>4, <1>5, <1>15, <2>1 DEF Forward
  <2>3. Types'
    BY <1>1, <1>15, <2>2 DEF Types
  <2>4. ASSUME NEW n \in Nodes \ fresh, InList(n), home[n] = Active(slot), height[x] < height[n]
        PROVE  n \in met \cup {c}
    <3>1. /\ height[n] \in Nat /\ height[c] \in Nat /\ height[x] \in Nat
          /\ height[n] < height[c] => height[n] =< height[x]
          /\ height[n] = height[c] => n = c
      BY <1>2, <1>6, <1>7, <2>2, <2>4
    <3>2. height[n] = height[c] \/ height[c] < height[n]
      BY <2>4, <3>1
    <3>3. c # NULL
      BY <1>2, <2>2
    <3> QED
      BY <1>5, <1>15, <2>1, <2>4, <3>1, <3>2, <3>3
  <2>5. Restored(home, height)'
    BY <1>1, <1>2, <1>5, <1>9, <1>15, <2>2, <2>4 DEF Restored, InList
  <2> QED
    BY <1>3, <1>10, <1>12, <2>3, <2>5 DEF Walks
<1>16. CASE cpc' = "crashed" /\ UNCHANGED <<slot, iterator, met>>
  <2>1. Types'
    BY <1>1, <1>16 DEF Types, Places, iterator
  <2>2. Restored(home, height)'
    BY <1>16 DEF Restored
  <2> QED
    BY <1>3, <1>10, <1>12, <2>1, <2>2 DEF Walks
<1> QED
  BY <1>13, <1>14, <1>15, <1>16 DEF WalkRestored

-----------------------------------------------------------------------------
(* The merge: the nodes of the ring of src, from f to l, go between the    *)
(* sentinel dst and the cell g after it.                                   *)
Merges(src, dst, f, l, g) ==
  /\ src \in Sentinels /\ dst \in Sentinels /\ src # dst /\ src[1] = dst[1]
  /\ f = next[src] /\ l = prev[src] /\ g = next[dst] /\ f # l
  /\ next' = [next EXCEPT ![l] = g, ![dst] = f, ![src] = src]
  /\ prev' = [prev EXCEPT ![f] = dst, ![g] = l, ![src] = src]
  /\ cpc = "merge" /\ cpc' = cpc
  /\ registered' = registered /\ inserting' = inserting

(* Those nodes get the other home, above the nodes that have it already.   *)
Moved(home, src) == {n \in Nodes : home[n] = src}

(* The result is one ring and an empty one.                                *)
LEMMA MergedRings ==
  ASSUME Types, NEW home \in Homes, NEW height \in Heights, Rings(home, height),
         NEW src, NEW dst, NEW f, NEW l, NEW g, Merges(src, dst, f, l, g),
         NEW home2, home2 = [c \in Cells |-> IF c \in Moved(home, src) THEN dst ELSE home[c]],
         NEW height2,
         height2 = [c \in Cells |->
                      IF c \in Moved(home, src) THEN height[c] + height[g] ELSE height[c]]
  PROVE  /\ home2 \in Homes /\ height2 \in Heights /\ Rings(home2, height2)'
         /\ next' \in [Cells -> Cells \cup {NULL}] /\ prev' \in [Cells -> Cells \cup {NULL}]
         /\ \A c \in Cells : next'[c] # NULL <=> InList(c)
         /\ f \in Nodes /\ l \in Nodes /\ InList(f) /\ InList(l) /\ home[f] = src /\ home[l] = src
         /\ next'[dst] = f
<1>1. /\ Sentinels \subseteq Cells /\ Nodes \subseteq Cells /\ Nodes \cap Sentinels = {}
      /\ NULL \notin Cells /\ Cells = Sentinels \cup Nodes
      /\ src \in Sentinels /\ src \in Cells /\ dst \in Sentinels /\ dst \in Cells /\ src # dst
  BY Ends DEF Merges, Cells
<1>2. /\ home \in [Cells -> Sentinels] /\ height \in [Cells -> Nat]
      /\ \A s \in Sentinels : home[s] = s /\ height[s] = 0 /\ InList(s)
      /\ \A c \in Nodes : height[c] # 0
  BY <1>1 DEF Homes, Heights, Rings, Chained
<1>3. \A c \in Cells : InList(c) => /\ next[c] \in Cells /\ InList(next[c]) /\ home[next[c]] = home[c]
                                    /\ prev[c] \in Cells /\ InList(prev[c]) /\ home[prev[c]] = home[c]
  BY DEF Rings, Chained
<1>4. \A j \in Slots : inserting[j] = NULL
  BY DEF Merges, Rings, AtFront
<1>5. \A c \in Cells : InList(c) => prev[next[c]] = c /\ next[prev[c]] = c
  BY <1>1, <1>4 DEF Rings, BothWays
<1>6. /\ f = next[src] /\ l = prev[src] /\ g = next[dst] /\ f # l
      /\ prev[f] = src /\ next[l] = src /\ prev[g] = dst
      /\ f \in Cells /\ InList(f) /\ home[f] = src
      /\ l \in Cells /\ InList(l) /\ home[l] = src
      /\ g \in Cells /\ InList(g) /\ home[g] = dst
  BY <1>1, <1>2, <1>3, <1>5 DEF Merges
<1>7. f \in Nodes /\ l \in Nodes /\ f # src /\ l # src /\ l # dst /\ f # dst /\ g # src /\ g # f /\ g # l
  <2>1. f # src /\ l # src
    BY <1>6
  <2> QED
    BY <1>1, <1>2, <1>6, <2>1
<1>8. \A c \in Cells :
        /\ next'[c] = IF c = src THEN src ELSE IF c = dst THEN f ELSE IF c = l THEN g ELSE next[c]
        /\ prev'[c] = IF c = src THEN src ELSE IF c = g THEN l ELSE IF c = f THEN dst ELSE prev[c]
  BY <1>1, <1>6, <1>7 DEF Merges, Types
<1>9. next' \in [Cells -> Cells \cup {NULL}] /\ prev' \in [Cells -> Cells \cup {NULL}]
  BY <1>1, <1>6 DEF Merges, Types
<1>10. \A c \in Cells : next'[c] # NULL <=> InList(c)
  BY <1>1, <1>2, <1>6, <1>7, <1>8 DEF InList
<1> DEFINE moved == Moved(home, src)
<1>11. /\ moved \subseteq Nodes /\ f \in moved /\ l \in moved
       /\ \A c \in Cells : c \in moved <=> home[c] = src /\ c # src
  BY <1>1, <1>2, <1>6, <1>7 DEF Moved
<1>12. \A c \in Cells :
         /\ home2[c] = IF c \in moved THEN dst ELSE home[c]
         /\ height2[c] = IF c \in moved THEN height[c] + height[g] ELSE height[c]
  OBVIOUS
<1>13. height[g] \in Nat
  BY <1>2, <1>6
<1>14. home2 \in Homes /\ height2 \in Heights
  <2>1. home2 \in [Cells -> Sentinels]
    BY <1>1, <1>2
  <2>2. \A c \in Cells : height[c] \in Nat /\ height[c] + height[g] \in Nat
    BY <1>2, <1>13
  <2>3. height2 \in [Cells -> Nat]
    BY <2>2
  <2>4. \A s \in Sentinels : s \notin moved
    BY <1>1, <1>11
  <2>5. \A c \in Nodes : height[c] # 0 /\ height[c] + height[g] # 0
    BY <1>1, <1>2, <1>13
  <2> HIDE DEF moved
  <2> QED
    BY <1>1, <1>2, <1>12, <2>1, <2>3, <2>4, <2>5 DEF Homes, Heights
<1> HIDE DEF moved
<1>15. \A c \in Cells : InList(c) /\ c # src =>
         /\ next[c] = src <=> c = l
         /\ prev[c] = src <=> c = f
         /\ next[c] = g <=> c = dst
         /\ prev[c] = dst <=> c = g
         /\ next[c] = f => c = src
  BY <1>1, <1>2, <1>5, <1>6
<1>16. \A c \in moved : InList(c) =>
         /\ c \in Nodes /\ c \in Cells /\ c # src /\ c # dst /\ home[c] = src
         /\ c # l => next[c] \in moved
         /\ c # f => prev[c] \in moved
         /\ c # g
  BY <1>1, <1>2, <1>3, <1>6, <1>11, <1>15
<1>17. \A c \in Cells \ moved : InList(c) /\ c # src =>
         /\ home[c] # src
         /\ next[c] \notin moved /\ next[c] # src
         /\ prev[c] \notin moved /\ prev[c] # src
         /\ c # l /\ c # f
  BY <1>1, <1>2, <1>3, <1>11
<1>18. src \notin moved /\ dst \notin moved /\ g \notin moved
  BY <1>1, <1>2, <1>6, <1>11
<1>19. Chained(home2)'
  <2> SUFFICES ASSUME NEW c \in Cells
               PROVE  /\ c \in Sentinels => InList(c)
                      /\ InList(c) =>
                           /\ next'[c] \in Cells /\ InList(next'[c]) /\ home2[next'[c]] = home2[c]
                           /\ prev'[c] \in Cells /\ InList(prev'[c]) /\ home2[prev'[c]] = home2[c]
    BY <1>9, <1>10 DEF Chained, InList
  <2>1. CASE c = src
    BY <1>1, <1>2, <1>8, <2>1
  <2>2. CASE c = dst
    <3>1. next'[c] = f /\ home2[f] = dst /\ home2[c] = dst
      BY <1>1, <1>2, <1>6, <1>8, <1>11, <1>12, <1>18, <2>2
    <3>2. prev'[c] = (IF c = g THEN l ELSE prev[c]) /\ c # f /\ c # src
      BY <1>1, <1>7, <1>8, <2>2
    <3>3. home2[l] = dst
      BY <1>6, <1>11, <1>12
    <3>4. prev[c] \in Cells /\ InList(prev[c]) /\ home2[prev[c]] = dst
      BY <1>1, <1>2, <1>3, <1>12, <1>17, <1>18, <2>2
    <3> QED
      BY <1>2, <1>6, <2>2, <3>1, <3>2, <3>3, <3>4
  <2>3. CASE c \in moved
    <3>1. ASSUME InList(c)
          PROVE  next'[c] \in Cells /\ InList(next'[c]) /\ home2[next'[c]] = dst
      <4>1. CASE c = l
        BY <1>1, <1>6, <1>7, <1>8, <1>12, <1>18, <4>1
      <4>2. CASE c # l
        BY <1>3, <1>8, <1>12, <1>16, <2>3, <3>1, <4>2
      <4> QED
        BY <4>1, <4>2
    <3>2. ASSUME InList(c)
          PROVE  prev'[c] \in Cells /\ InList(prev'[c]) /\ home2[prev'[c]] = dst
      <4>1. CASE c = f
        BY <1>1, <1>2, <1>6, <1>7, <1>8, <1>12, <1>18, <4>1
      <4>2. CASE c # f
        BY <1>3, <1>8, <1>12, <1>16, <2>3, <3>2, <4>2
      <4> QED
        BY <4>1, <4>2
    <3> QED
      BY <1>2, <1>12, <2>3, <3>1, <3>2
  <2>4. CASE c # src /\ c # dst /\ c \notin moved
    <3>1. ASSUME InList(c)
          PROVE  next'[c] \in Cells /\ InList(next'[c]) /\ home2[next'[c]] = home2[c]
      BY <1>3, <1>8, <1>12, <1>17, <2>4, <3>1
    <3>2. ASSUME InList(c)
          PROVE  prev'[c] \in Cells /\ InList(prev'[c]) /\ home2[prev'[c]] = home2[c]
      <4>1. CASE c = g
        BY <1>6, <1>7, <1>8, <1>11, <1>12, <2>4, <4>1
      <4>2. CASE c # g
        BY <1>3, <1>8, <1>12, <1>17, <2>4, <3>2, <4>2
      <4> QED
        BY <4>1, <4>2
    <3> QED
      BY <1>2, <3>1, <3>2
  <2> QED
    BY <2>1, <2>2, <2>3, <2>4
<1>20. \A c, d \in Cells : InList(c) /\ InList(d) /\ home[c] = home[d] =>
         /\ c \in Sentinels \/ height[d] < height[c] => height[d] =< height[next[c]]
         /\ height[c] = height[d] => c = d
  BY DEF Rings, Ordered
<1>21. \A c \in Nodes : InList(c) => height[next[c]] < height[c]
  BY DEF Rings, Ordered
<1>22. \A c \in Cells : InList(c) /\ home[c] = dst => height[c] =< height[g]
  BY <1>1, <1>2, <1>6, <1>20
<1>23. \A c \in Cells : InList(c) /\ home[c] = src => height[c] =< height[f]
  BY <1>1, <1>2, <1>6, <1>20
<1>24. ASSUME NEW n \in Nodes, InList(n)
       PROVE  height2[next'[n]] < height2[n]
  <2>1. /\ n \in Cells /\ n # src /\ n # dst /\ next[n] \in Cells /\ height[next[n]] < height[n]
        /\ height[n] \in Nat /\ height[next[n]] \in Nat /\ height[n] # 0
    BY <1>1, <1>2, <1>3, <1>21, <1>24
  <2>2. CASE n = l
    <3>1. next'[n] = g /\ height2[g] = height[g] /\ height2[n] = height[n] + height[g]
      BY <1>6, <1>7, <1>8, <1>11, <1>12, <1>18, <2>1, <2>2
    <3> QED
      BY <1>13, <2>1, <3>1
  <2>3. CASE n # l /\ n \in moved
    <3>1. /\ next'[n] = next[n] /\ height2[next[n]] = height[next[n]] + height[g]
          /\ height2[n] = height[n] + height[g]
      BY <1>8, <1>12, <1>16, <1>24, <2>1, <2>3
    <3> QED
      BY <1>13, <2>1, <3>1
  <2>4. CASE n # l /\ n \notin moved
    BY <1>8, <1>12, <1>17, <1>24, <2>1, <2>4
  <2> QED
    BY <2>2, <2>3, <2>4
<1>25. ASSUME NEW c \in Cells, NEW d \in Cells, InList(c), InList(d), home2[c] = home2[d]
       PROVE  /\ c \in Sentinels \/ height2[d] < height2[c] => height2[d] =< height2[next'[c]]
              /\ height2[c] = height2[d] => c = d
  <2>1. /\ height[c] \in Nat /\ height[d] \in Nat /\ next[c] \in Cells /\ height[next[c]] \in Nat
        /\ c \in moved => height[c] # 0 /\ c \in Nodes /\ c \notin Sentinels
        /\ d \in moved => height[d] # 0
    BY <1>1, <1>2, <1>3, <1>11, <1>25
  <2>2. CASE c = src
    <3>1. home2[d] = src /\ src # dst
      BY <1>1, <1>2, <1>12, <1>18, <1>25, <2>2
    <3>2. d \notin moved /\ home[d] = src
      BY <1>12, <3>1
    <3>3. d = src
      BY <1>11, <3>2
    <3>4. next'[c] = d /\ height2[d] = height[d]
      BY <1>1, <1>8, <1>12, <1>18, <2>2, <3>3
    <3> QED
      BY <2>1, <2>2, <3>3, <3>4
  <2>3. CASE c = dst
    <3>1. next'[c] = f /\ height2[f] = height[f] + height[g] /\ c \notin moved /\ height[f] \in Nat
      BY <1>1, <1>2, <1>6, <1>8, <1>11, <1>12, <1>18, <2>3
    <3>2. CASE d \in moved
      <4>1. height2[d] = height[d] + height[g] /\ height[d] =< height[f] /\ height2[c] = 0
        BY <1>1, <1>2, <1>11, <1>12, <1>18, <1>23, <1>25, <2>3, <3>2
      <4>2. height2[d] # 0
        BY <1>13, <2>1, <3>2, <4>1
      <4>3. height2[d] =< height2[f]
        BY <1>13, <2>1, <3>1, <4>1
      <4> QED
        BY <3>1, <4>1, <4>2, <4>3
    <3>3. CASE d \notin moved
      <4>1. height2[d] = height[d] /\ home[d] = dst /\ height[d] =< height[g]
        BY <1>1, <1>2, <1>12, <1>18, <1>22, <1>25, <2>3, <3>3
      <4>2. height2[c] = height[c] /\ home[c] = dst
        BY <1>1, <1>2, <1>12, <1>18, <2>3
      <4>3. height2[d] =< height2[next'[c]]
        BY <1>13, <2>1, <3>1, <4>1
      <4>4. height2[c] = height2[d] => c = d
        BY <1>20, <1>25, <4>1, <4>2
      <4> QED
        BY <4>3, <4>4
    <3> QED
      BY <3>2, <3>3
  <2>4. CASE c \in moved
    <3>1. /\ home[c] = src /\ home2[c] = dst /\ height2[c] = height[c] + height[g] /\ height[c] # 0
          /\ c \notin Sentinels
      BY <1>11, <1>12, <2>1, <2>4
    <3>2. next'[l] = g /\ height2[g] = height[g] /\ height[next[l]] = 0
      <4>1. next'[l] = g
        BY <1>6, <1>7, <1>8
      <4>2. height2[g] = height[g]
        BY <1>6, <1>12, <1>18
      <4> QED
        BY <1>1, <1>2, <1>6, <4>1, <4>2
    <3>3. c # l => next'[c] = next[c] /\ height2[next[c]] = height[next[c]] + height[g]
      BY <1>8, <1>12, <1>16, <1>25, <2>1, <2>4
    <3>4. CASE d \in moved
      <4>1. height2[d] = height[d] + height[g] /\ home[d] = src /\ height[d] # 0
        BY <1>11, <1>12, <2>1, <3>4
      <4>2. /\ height[d] < height[c] => height[d] =< height[next[c]]
            /\ height[c] = height[d] => c = d
        BY <1>20, <1>25, <3>1, <4>1
      <4>3. CASE c = l
        BY <1>13, <2>1, <3>1, <3>2, <4>1, <4>2, <4>3
      <4>4. CASE c # l
        BY <1>13, <2>1, <3>1, <3>3, <4>1, <4>2, <4>4
      <4> QED
        BY <4>3, <4>4
    <3>5. CASE d \notin moved
      <4>1. height2[d] = height[d] /\ home[d] = dst /\ height[d] =< height[g]
        BY <1>12, <1>22, <1>25, <3>1, <3>5
      <4>2. height2[d] =< height2[next'[c]]
        BY <1>13, <2>1, <3>2, <3>3, <4>1
      <4>3. height2[c] # height2[d]
        BY <1>13, <2>1, <3>1, <4>1
      <4> QED
        BY <4>2, <4>3
    <3> QED
      BY <3>4, <3>5
  <2>5. CASE c # src /\ c # dst /\ c \notin moved
    <3>1. /\ home2[c] = home[c] /\ height2[c] = height[c] /\ home[c] # src
          /\ next'[c] = next[c] /\ height2[next[c]] = height[next[c]]
          /\ c \in Sentinels => home[c] # dst
      BY <1>2, <1>8, <1>12, <1>17, <1>25, <2>1, <2>5
    <3>2. CASE d \in moved
      <4>1. height2[d] = height[d] + height[g] /\ height[d] # 0 /\ home[c] = dst
        BY <1>12, <1>25, <2>1, <3>1, <3>2
      <4>2. height[c] =< height[g] /\ c \notin Sentinels
        BY <1>22, <1>25, <3>1, <4>1
      <4> QED
        BY <1>13, <2>1, <3>1, <4>1, <4>2
    <3>3. CASE d \notin moved
      <4>1. height2[d] = height[d] /\ home[d] = home[c]
        BY <1>12, <1>25, <3>1, <3>3
      <4> QED
        BY <1>20, <1>25, <3>1, <4>1
    <3> QED
      BY <3>2, <3>3
  <2> QED
    BY <2>2, <2>3, <2>4, <2>5
<1>26. Ordered(home2, height2)'
  <2>1. \A n \in Nodes : next'[n] # NULL => height2[next'[n]] < height2[n]
    BY <1>1, <1>10, <1>24
  <2>2. \A c, d \in Cells :
          next'[c] # NULL /\ next'[d] # NULL /\ home2[c] = home2[d] =>
            /\ c \in Sentinels \/ height2[d] < height2[c] => height2[d] =< height2[next'[c]]
            /\ height2[c] = height2[d] => c = d
    BY <1>10, <1>25
  <2> QED
    BY <2>1, <2>2 DEF Ordered, InList
<1>27. BothWays'
  <2> SUFFICES ASSUME NEW c \in Cells, InList(c)
               PROVE  prev'[next'[c]] = c /\ next'[prev'[c]] = c
    BY <1>10 DEF BothWays, InList
  <2>1. next[c] \in Cells /\ prev[c] \in Cells /\ prev[next[c]] = c /\ next[prev[c]] = c
    BY <1>3, <1>5
  <2>2. prev'[next'[c]] = c
    <3>1. CASE c = src
      BY <1>1, <1>8, <3>1
    <3>2. CASE c = dst
      BY <1>1, <1>6, <1>7, <1>8, <3>2
    <3>3. CASE c = l
      BY <1>1, <1>6, <1>7, <1>8, <3>3
    <3>4. CASE c # src /\ c # dst /\ c # l
      BY <1>8, <1>15, <2>1, <3>4
    <3> QED
      BY <3>1, <3>2, <3>3, <3>4
  <2>3. next'[prev'[c]] = c
    <3>1. CASE c = src
      BY <1>1, <1>8, <3>1
    <3>2. CASE c = g
      BY <1>1, <1>6, <1>7, <1>8, <3>2
    <3>3. CASE c = f
      BY <1>1, <1>6, <1>7, <1>8, <3>3
    <3>4. CASE c # src /\ c # g /\ c # f
      <4>1. prev'[c] = prev[c] /\ prev[c] # src /\ prev[c] # dst /\ prev[c] # l
        BY <1>6, <1>8, <1>15, <2>1, <3>4
      <4> QED
        BY <1>8, <2>1, <4>1
    <3> QED
      BY <3>1, <3>2, <3>3, <3>4
  <2> QED
    BY <2>2, <2>3
<1>28. AtFront(home2)'
  BY <1>4 DEF Merges, AtFront
<1>29. Owners(home2)'
  <2>1. src[1] = dst[1] /\ registered' = registered
    BY DEF Merges
  <2> QED
    BY <1>1, <1>10, <1>11, <1>12, <2>1 DEF Owners, Rings, InList
<1> QED
  BY <1>1, <1>6, <1>7, <1>8, <1>9, <1>10, <1>14, <1>19, <1>26, <1>27, <1>28, <1>29 DEF Rings

(* What the turn of a slot does.                                           *)
LEMMA MergeTurn ==
  ASSUME Types, merge_collected
  PROVE  /\ cpc = "merge" /\ cpc' = cpc /\ slot \in Slots /\ slot \in 0 .. N /\ slot + 1 \in 0 .. N
         /\ slot' = slot + 1 /\ center' = NULL /\ itNext' = NULL /\ met' = met /\ fresh' = fresh
         /\ registered' = registered /\ ActiveIndex' = ActiveIndex /\ inserting' = inserting
         /\ late \ {slot} \subseteq late'
         /\ \/ /\ slot \notin registered
               /\ next' = next /\ prev' = prev /\ third' = third
            \/ /\ slot \in registered
               /\ next' = next /\ prev' = prev
               /\ third' = [third EXCEPT ![slot] = next'[Active(slot)]]
            \/ /\ slot \in registered
               /\ Merges(Snapshot(slot), Active(slot), next[Snapshot(slot)], prev[Snapshot(slot)],
                         next[Active(slot)])
               /\ third' = [third EXCEPT ![slot] = next'[Active(slot)]]
<1>1. /\ cpc = "merge" /\ cpc' = cpc /\ slot \in Slots /\ slot \in 0 .. N /\ slot + 1 \in 0 .. N
      /\ slot' = slot + 1 /\ center' = NULL /\ itNext' = NULL /\ met' = met /\ fresh' = fresh
      /\ registered' = registered /\ ActiveIndex' = ActiveIndex /\ inserting' = inserting
      /\ late \ {slot} \subseteq late'
  BY ListsAssumption DEF merge_collected, NextSlot, Types, Slots
<1>2. CASE slot \notin registered
  BY <1>1, <1>2 DEF merge_collected, listVars
<1>3. CASE slot \in registered /\ empty(Snapshot(slot))
  BY <1>1, <1>3 DEF merge_collected, merge_from_to, First, listVars
<1>4. CASE slot \in registered /\ ~empty(Snapshot(slot))
  <2>1. /\ Snapshot(slot) \in Sentinels /\ Active(slot) \in Sentinels
        /\ Snapshot(slot) # Active(slot) /\ Snapshot(slot)[1] = Active(slot)[1]
    BY <1>1, Ends
  <2>2. /\ merge_from_to(Snapshot(slot), Active(slot))
        /\ third' = [third EXCEPT ![slot] = next'[Active(slot)]]
    BY <1>4 DEF merge_collected, First
  <2> QED
    BY <1>1, <1>4, <2>1, <2>2 DEF merge_from_to, empty, Merges
<1> QED
  BY <1>1, <1>2, <1>3, <1>4

(* The third entry gets the first of the nodes in the ring.                *)
LEMMA merge_collectedKeeps ==
  ASSUME Types, NEW home \in Homes, NEW height \in Heights, Rings(home, height),
         Walks(home, height), merge_collected
  PROVE  IInv'
<1>1. /\ cpc = "merge" /\ cpc' = cpc /\ slot \in Slots /\ slot \in 0 .. N /\ slot + 1 \in 0 .. N
      /\ slot' = slot + 1 /\ center' = NULL /\ itNext' = NULL /\ met' = met /\ fresh' = fresh
      /\ registered' = registered /\ ActiveIndex' = ActiveIndex /\ inserting' = inserting
      /\ \A i \in late : i # slot => i \in late'
  BY MergeTurn
<1>2. \A i : Active(i)' = Active(i) /\ (Late(i) <=> i < slot) /\ (Late(i)' <=> i < slot + 1)
  BY <1>1 DEF Active, Late
<1>3. /\ \A i \in registered : i \in Int /\ i \in Slots
      /\ \A i, j \in Slots : Active(i) # Snapshot(j)
      /\ \A i, j \in Slots : Active(i) = Active(j) => i = j
      /\ \A i \in Slots : Active(i) \in Sentinels /\ Active(i) \in Cells
      /\ Nodes \subseteq Cells
  BY Ends DEF Types, Slots
<1>4. ASSUME NEW i \in registered, i < slot
      PROVE  (third[i] = NULL /\ i \in late) \/ BeginsAt(home, height, i)
  BY <1>2, <1>4 DEF Walks, Begins
<1>5. ASSUME NEW home2 \in Homes, NEW height2 \in Heights
      PROVE  Swept(home2, height2)' /\ Restored(home2, height2)'
  BY <1>1 DEF Swept, Restored
<1>6. CASE slot \notin registered /\ next' = next /\ prev' = prev /\ third' = third
  <2>1. Types'
    BY <1>1, <1>6 DEF Types
  <2>2. Rings(home, height)'
    BY <1>1, <1>6, RingsStay DEF Quiet, Rings, AtFront
  <2>3. \A i \in registered : i < slot + 1 => i < slot
    BY <1>1, <1>3, <1>6
  <2>4. Begins(home, height)'
    BY <1>1, <1>2, <1>4, <1>6, <2>3 DEF Walks, Begins, BeginsAt, InList
  <2> QED
    BY <1>5, <2>1, <2>2, <2>4 DEF IInv, Walks
<1> DEFINE Others(home2, height2) ==
    /\ Rings(home2, height2)'
    /\ next' \in [Cells -> Cells \cup {NULL}] /\ prev' \in [Cells -> Cells \cup {NULL}]
    /\ \A c \in Cells : next'[c] # NULL <=> InList(c)
    /\ \A c \in Cells, i \in Slots :
         i # slot => (home2[c] = Active(i) <=> home[c] = Active(i))
    /\ \A c \in Cells, i \in Slots :
         i # slot /\ home[c] = Active(i) => height2[c] = height[c]
<1>7. ASSUME slot \in registered, third' = [third EXCEPT ![slot] = next'[Active(slot)]],
             NEW home2 \in Homes, NEW height2 \in Heights, Others(home2, height2)
      PROVE  IInv'
  <2>1. PICK dst, f : dst = Active(slot) /\ f = next'[dst]
    OBVIOUS
  <2>2. /\ dst \in Sentinels /\ dst \in Cells /\ home2[dst] = dst
        /\ next'[dst] # NULL /\ f \in Cells /\ next'[f] # NULL /\ home2[f] = dst
    <3>1. dst \in Sentinels /\ dst \in Cells /\ home2[dst] = dst
      BY <1>1, <1>3, <2>1 DEF Homes
    <3>2. next'[dst] # NULL
      BY <1>7, <3>1 DEF Rings, Chained, InList
    <3> QED
      BY <1>7, <2>1, <3>1, <3>2 DEF Rings, Chained, InList
  <2>3. /\ third' \in [Slots -> Cells \cup {NULL}]
        /\ \A i \in Slots : third'[i] = IF i = slot THEN f ELSE third[i]
    BY <1>1, <1>7, <2>1, <2>2 DEF Types
  <2>4. Types'
    BY <1>1, <1>7, <2>3 DEF Types
  <2>5. ASSUME NEW n \in Nodes, next'[n] # NULL, home2[n] = dst
        PROVE  height2[n] =< height2[f]
    BY <1>3, <1>7, <2>1, <2>2, <2>5 DEF Rings, Ordered, InList
  <2>6. ASSUME NEW i \in registered, i < slot + 1, i # slot
        PROVE  (third'[i] = NULL /\ i \in late') \/ BeginsAt(home2, height2, i)'
    <3>1. i < slot /\ i \in Slots
      BY <1>1, <1>3, <2>6
    <3>2. third'[i] = third[i]
      BY <2>3, <2>6, <3>1
    <3>3. CASE third[i] = NULL /\ i \in late
      BY <1>1, <2>6, <3>2, <3>3
    <3>4. CASE BeginsAt(home, height, i)
      <4>1. /\ third[i] \in Cells /\ home2[third[i]] = Active(i) /\ home[third[i]] = Active(i)
            /\ height2[third[i]] = height[third[i]] /\ next'[third[i]] # NULL
        BY <1>7, <2>6, <3>1, <3>4 DEF BeginsAt
      <4>2. ASSUME NEW n \in Nodes \ fresh, next'[n] # NULL, home2[n] = Active(i)
            PROVE  height2[n] =< height2[third'[i]]
        BY <1>3, <1>7, <2>6, <3>1, <3>2, <3>4, <4>1, <4>2 DEF BeginsAt
      <4> QED
        BY <1>1, <1>2, <3>2, <4>1, <4>2 DEF BeginsAt, InList
    <3> QED
      BY <1>4, <3>1, <3>3, <3>4
  <2>7. Begins(home2, height2)'
    <3>1. \A i \in Slots \ registered : third'[i] = NULL
      BY <1>7, <2>3 DEF Walks, Begins
    <3>2. ASSUME NEW i \in registered, i = slot
          PROVE  BeginsAt(home2, height2, i)'
      <4>1. third'[i] = f /\ Active(i)' = dst
        BY <1>1, <1>2, <2>1, <2>3, <3>2
      <4> QED
        BY <1>1, <2>2, <2>5, <4>1 DEF BeginsAt, InList
    <3> QED
      BY <1>1, <1>2, <2>6, <3>1, <3>2 DEF Begins
  <2> QED
    BY <1>5, <1>7, <2>4, <2>7 DEF IInv, Walks
<1>8. CASE /\ slot \in registered /\ next' = next /\ prev' = prev
           /\ third' = [third EXCEPT ![slot] = next'[Active(slot)]]
  <2>1. Rings(home, height)'
    BY <1>1, <1>8, RingsStay DEF Quiet, Rings, AtFront
  <2>2. /\ next' \in [Cells -> Cells \cup {NULL}] /\ prev' \in [Cells -> Cells \cup {NULL}]
        /\ \A c \in Cells : next'[c] # NULL <=> InList(c)
    BY <1>8 DEF Types, InList
  <2> QED
    BY <1>7, <1>8, <2>1, <2>2
<1>9. CASE /\ slot \in registered
           /\ Merges(Snapshot(slot), Active(slot), next[Snapshot(slot)], prev[Snapshot(slot)],
                     next[Active(slot)])
           /\ third' = [third EXCEPT ![slot] = next'[Active(slot)]]
  <2>1. PICK src, dst, f, l, g :
          /\ src = Snapshot(slot) /\ dst = Active(slot)
          /\ f = next[src] /\ l = prev[src] /\ g = next[dst]
    OBVIOUS
  <2>2. Merges(src, dst, f, l, g)
    BY <1>9, <2>1
  <2>3. PICK home2 : home2 = [c \in Cells |-> IF c \in Moved(home, src) THEN dst ELSE home[c]]
    OBVIOUS
  <2>4. PICK height2 : height2 = [c \in Cells |->
                        IF c \in Moved(home, src) THEN height[c] + height[g] ELSE height[c]]
    OBVIOUS
  <2>5. /\ home2 \in Homes /\ height2 \in Heights /\ Rings(home2, height2)'
        /\ next' \in [Cells -> Cells \cup {NULL}] /\ prev' \in [Cells -> Cells \cup {NULL}]
        /\ \A c \in Cells : next'[c] # NULL <=> InList(c)
    BY <2>2, <2>3, <2>4, MergedRings
  <2>6. ASSUME NEW c \in Cells, NEW i \in Slots, i # slot
        PROVE  /\ home2[c] = Active(i) <=> home[c] = Active(i)
               /\ home[c] = Active(i) => height2[c] = height[c]
    <3>1. Active(i) # src /\ Active(i) # dst
      BY <1>1, <1>3, <2>1, <2>6
    <3>2. c \in Moved(home, src) => home[c] = src
      BY DEF Moved
    <3> QED
      BY <2>3, <2>4, <3>1, <3>2
  <2> QED
    BY <1>7, <1>9, <2>5, <2>6
<1> QED
  BY <1>6, <1>8, <1>9, MergeTurn

-----------------------------------------------------------------------------
(* The invariant holds in every state.                                     *)
LEMMA Starts == Init => IInv
<1> SUFFICES ASSUME Init PROVE IInv
  OBVIOUS
<1>1. PICK home, height : /\ home = [c \in Cells |-> IF c \in Nodes THEN <<0, 0>> ELSE c]
                          /\ height = [c \in Cells |-> IF c \in Nodes THEN 1 ELSE 0]
  OBVIOUS
<1>2. /\ Cells = Sentinels \cup Nodes /\ Nodes \cap Sentinels = {} /\ NULL \notin Cells
      /\ <<0, 0>> \in Sentinels /\ N \in Nat \ {0}
  BY ListsAssumption DEF Cells, Sentinels, Slots
<1>3. /\ next \in [Cells -> Cells \cup {NULL}] /\ prev = next
      /\ \A c \in Cells : /\ next[c] = IF c \in Nodes THEN NULL ELSE c
                          /\ home[c] = IF c \in Nodes THEN <<0, 0>> ELSE c
                          /\ height[c] = IF c \in Nodes THEN 1 ELSE 0
      /\ \A i \in Slots : inserting[i] = NULL
  BY <1>1, <1>2 DEF Init
<1>4. Types
  BY <1>2, <1>3 DEF Init, Types, Places
<1>5. home \in Homes /\ height \in Heights
  <2>1. home \in [Cells -> Sentinels] /\ height \in [Cells -> Nat]
    BY <1>1, <1>2
  <2> QED
    BY <1>2, <1>3, <2>1 DEF Homes, Heights
<1>6. \A c \in Cells : InList(c) <=> c \in Sentinels
  BY <1>2, <1>3 DEF InList
<1>7. Chained(home) /\ Ordered(home, height) /\ BothWays /\ AtFront(home) /\ Owners(home)
  BY <1>2, <1>3, <1>6 DEF Chained, Ordered, BothWays, AtFront, Owners
<1>8. Walks(home, height)
  <2>1. cpc = "idle" /\ \A i \in Slots : third[i] = NULL
    BY DEF Init
  <2> QED
    BY <2>1 DEF Walks, Swept, Restored, Begins, Late
<1> QED
  BY <1>4, <1>5, <1>7, <1>8 DEF IInv, Rings

(* Every step keeps the invariant.                                         *)
LEMMA Steps == IInv /\ [Next]_vars => IInv'
<1> SUFFICES ASSUME IInv, [Next]_vars PROVE IInv'
  OBVIOUS
<1>1. PICK home \in Homes : \E height \in Heights : Rings(home, height) /\ Walks(home, height)
  BY DEF IInv
<1>2. PICK height \in Heights : Rings(home, height) /\ Walks(home, height)
  BY <1>1
<1>3. Types
  BY DEF IInv
<1>4. CASE TurnLists
  BY <1>2, <1>3, <1>4, TurnListsKeeps
<1>5. CASE Sweep
  BY <1>2, <1>3, <1>5, SweepKeeps DEF IInv
<1>6. CASE StartMerge
  BY <1>2, <1>3, <1>6, StartMergeKeeps
<1>7. CASE merge_collected
  BY <1>2, <1>3, <1>7, merge_collectedKeeps
<1>8. CASE StartRestore
  BY <1>2, <1>3, <1>8, StartRestoreKeeps
<1>9. CASE WalkRestored
  BY <1>2, <1>3, <1>9, WalkRestoredKeeps DEF IInv
<1>10. CASE StartFinalize
  BY <1>2, <1>3, <1>10, StartFinalizeKeeps
<1>11. CASE Collected
  BY <1>2, <1>3, <1>11, CollectedKeeps
<1>12. ASSUME NEW i \in Slots, Register(i)
       PROVE  IInv'
  BY <1>2, <1>3, <1>12, RegisterKeeps
<1>13. ASSUME NEW i \in Slots, Insert(i)
       PROVE  IInv'
  BY <1>2, <1>3, <1>13, InsertKeeps
<1>14. ASSUME NEW i \in Slots, Inserted(i)
       PROVE  IInv'
  BY <1>2, <1>3, <1>14, InsertedKeeps
<1>15. CASE Crashed \/ UNCHANGED vars
  <2>1. /\ next' = next /\ prev' = prev /\ registered' = registered /\ third' = third
        /\ ActiveIndex' = ActiveIndex /\ inserting' = inserting /\ cpc' = cpc /\ slot' = slot
        /\ center' = center /\ itNext' = itNext /\ met' = met /\ fresh' = fresh
        /\ late' = late
    BY <1>15 DEF Crashed, vars, listVars, iterator
  <2>2. Types'
    BY <1>3, <2>1 DEF Types
  <2>3. Rings(home, height)'
    BY <1>2, <2>1, RingsStay DEF Rings, AtFront, Quiet
  <2>4. Walks(home, height)'
    BY <1>2, <2>1, WalksStay
  <2> QED
    BY <2>2, <2>3, <2>4 DEF IInv
<1> QED
  BY <1>4, <1>5, <1>6, <1>7, <1>8, <1>9, <1>10, <1>11, <1>12, <1>13, <1>14, <1>15
     DEF Next, CollectorNext, ThreadNext

(* The lists are rings, and the walks are where they should be, in every   *)
(* reachable state.                                                        *)
THEOREM Invariance == Spec => []IInv
<1>1. Init => IInv
  BY Starts
<1>2. IInv /\ [Next]_vars => IInv'
  BY Steps
<1> QED
  BY <1>1, <1>2, PTL DEF Spec

-----------------------------------------------------------------------------
(* What it says about the properties.                                      *)

(* In any state of the invariant.                                          *)
LEMMA LinkedHolds == IInv => Linked
<1> SUFFICES ASSUME IInv PROVE Linked
  OBVIOUS
<1>1. PICK home \in Homes : \E height \in Heights : Rings(home, height)
  BY DEF IInv
<1>2. PICK height \in Heights : Rings(home, height)
  BY <1>1
<1>3. Types
  BY DEF IInv
<1>4. ASSUME NEW n \in Nodes, next[n] # NULL
      PROVE  Cardinality({s \in Sentinels : n \in Ring(s)}) = 1
  <2>1. home[n] \in Sentinels
    BY <1>3, Ends DEF Homes
  <2>2. \A s \in Sentinels : n \in Ring(s) <=> home[n] = s
    BY <1>2, <1>3, <1>4, RingIs DEF InList
  <2>3. {s \in Sentinels : n \in Ring(s)} = {home[n]}
    BY <2>1, <2>2
  <2> QED
    BY <2>3, FS_Singleton
<1>5. ASSUME NEW c \in Cells, next[c] # NULL, \A i \in Slots : c # inserting[i]
      PROVE  prev[next[c]] = c
  BY <1>2, <1>5 DEF Rings, BothWays, InList
<1> QED
  BY <1>4, <1>5 DEF Linked

(* Likewise.                                                               *)
LEMMA WalksMeetAllHolds == IInv => WalksMeetAll
<1> SUFFICES ASSUME IInv, NEW i \in registered, i < slot
             PROVE  /\ cpc = "sweep" => Ring(Snapshot(i)) \subseteq met
                    /\ cpc \in {"restore", "finalize"} => Ring(Active(i)) \ fresh \subseteq met
  BY DEF WalksMeetAll
<1>1. PICK home \in Homes : \E height \in Heights : Rings(home, height) /\ Walks(home, height)
  BY DEF IInv
<1>2. PICK height \in Heights : Rings(home, height) /\ Walks(home, height)
  BY <1>1
<1>3. Types /\ Snapshot(i) \in Sentinels /\ Active(i) \in Sentinels
  BY Ends DEF IInv, Types
<1>4. /\ Ring(Snapshot(i)) = {n \in Nodes : InList(n) /\ home[n] = Snapshot(i)}
      /\ Ring(Active(i)) = {n \in Nodes : InList(n) /\ home[n] = Active(i)}
  BY <1>2, <1>3, RingIs
<1> QED
  BY <1>2, <1>4 DEF Walks, Swept, Restored

(* Likewise; a walk that starts where the third entry says needs one.      *)
LEMMA WalkSafeHolds == IInv => WalkSafe
<1> SUFFICES ASSUME IInv PROVE WalkSafe
  OBVIOUS
<1>1. PICK home \in Homes : \E height \in Heights : Rings(home, height) /\ Walks(home, height)
  BY DEF IInv
<1>2. PICK height \in Heights : Rings(home, height) /\ Walks(home, height)
  BY <1>1
<1>3. Types
  BY DEF IInv
<1>4. ASSUME NEW s \in Sentinels, NEW c \in Cells, InList(c), home[c] = s
      PROVE  c \in Ring(s) \cup {s}
  BY <1>2, <1>3, <1>4, RingIs DEF Homes, Cells
<1>5. \A i \in Slots : Active(i) \in Sentinels /\ Snapshot(i) \in Sentinels
  BY <1>3, Ends
<1>6. ASSUME cpc = "sweep", center # NULL
      PROVE  itNext \in Ring(Snapshot(slot)) \cup {Snapshot(slot)}
  BY <1>2, <1>3, <1>4, <1>5, <1>6 DEF Walks, Swept, Types
<1>7. ASSUME cpc \in {"restore", "finalize"}, slot \in registered \ late
      PROVE  {third[slot]} \cup (IF center = NULL THEN {} ELSE {center, itNext})
               \subseteq Ring(Active(slot)) \cup {Active(slot)}
  <2>1. slot \in Slots /\ slot =< slot
    BY <1>3, <1>7 DEF Types, Slots
  <2>2. Late(slot)
    BY <1>7, <2>1 DEF Late
  <2>3. third[slot] \in Ring(Active(slot)) \cup {Active(slot)}
    BY <1>2, <1>4, <1>5, <1>7, <2>1, <2>2 DEF Walks, Begins, BeginsAt
  <2>4. center # NULL => {center, itNext} \subseteq Ring(Active(slot)) \cup {Active(slot)}
    BY <1>2, <1>4, <1>5, <1>7, <2>1 DEF Walks, Restored
  <2> QED
    BY <2>3, <2>4
<1> QED
  BY <1>6, <1>7 DEF WalkSafe

(* Whatever threads insert, the sweep deletes and the merge moves, every   *)
(* node that is not free is in one ring, and the links of both directions  *)
(* agree but for a node that is being inserted.                            *)
THEOREM AlwaysLinked == Spec => []Linked
BY Invariance, LinkedHolds, PTL

(* The sweep meets every node of the lists it has gone through, and the    *)
(* walks that restore the snapshot every node that is not new.             *)
THEOREM AlwaysMeetAll == Spec => []WalksMeetAll
BY Invariance, WalksMeetAllHolds, PTL

(* The iterator of the collector is always in the list it goes through, and*)
(* begins there, in every slot but those that registered between           *)
(* merge_collected and the walk, whatever other slots do and whenever      *)
(* threads register.                                                       *)
THEOREM AlwaysWalkSafe == Spec => []WalkSafe
BY Invariance, WalkSafeHolds, PTL

-----------------------------------------------------------------------------
(* The rings are the sets of NodeLists.                                    *)
ActiveRings == [i \in Slots |-> Ring(Active(i))]
SnapshotRings == [i \in Slots |-> Ring(Snapshot(i))]

HomesAre(home) ==
  /\ ActiveRings = [i \in Slots |-> {n \in Nodes : InList(n) /\ home[n] = Active(i)}]
  /\ SnapshotRings = [i \in Slots |-> {n \in Nodes : InList(n) /\ home[n] = Snapshot(i)}]

(* The homes say which sets they are.                                      *)
LEMMA RingsAre ==
  Types => \A home \in Homes, height \in Heights : Rings(home, height) => HomesAre(home)
<1> SUFFICES ASSUME Types, NEW home \in Homes, NEW height \in Heights, Rings(home, height)
             PROVE  HomesAre(home)
  OBVIOUS
<1>1. \A s \in Sentinels : Ring(s) = {n \in Nodes : InList(n) /\ home[n] = s}
  BY RingIs
<1>2. \A i \in Slots : Active(i) \in Sentinels /\ Snapshot(i) \in Sentinels
  BY Ends
<1> QED
  BY <1>1, <1>2 DEF HomesAre, ActiveRings, SnapshotRings

(* So they do after a step.                                                *)
LEMMA RingsAreNext ==
  (Types => \A home \in Homes, height \in Heights : Rings(home, height) => HomesAre(home))'
BY RingsAre, PTL

(* A step that keeps the homes and turns nothing round changes no set.     *)
LEMMA SameHomes ==
  ASSUME Types, Types', NEW home \in Homes, NEW height \in Heights,
         Rings(home, height), Rings(home, height)', next' = next, ActiveIndex' = ActiveIndex
  PROVE  UNCHANGED Lists!nodeVars
<1>1. HomesAre(home) /\ HomesAre(home)'
  BY RingsAre, RingsAreNext
<1>2. ActiveRings' = ActiveRings /\ SnapshotRings' = SnapshotRings
  BY <1>1 DEF HomesAre, InList, Active, Snapshot
<1> QED
  BY <1>2 DEF Lists!nodeVars, ActiveRings, SnapshotRings

(* Insert is Add.                                                          *)
LEMMA InsertAdds ==
  ASSUME Types, NEW home \in Homes, NEW height \in Heights, Rings(home, height),
         NEW i \in Slots, Insert(i)
  PROVE  \E n \in Nodes : Lists!Add(i, n)
<1>1. PICK n \in Nodes : Inserts(i, n, Active(i), next[Active(i)])
  BY DEF Insert, Inserts
<1>2. PICK a, x : Inserts(i, n, a, x)
  BY <1>1
<1> DEFINE home2 == [home EXCEPT ![n] = a]
           height2 == [height EXCEPT ![n] = height[x] + 1]
<1>3. home2 \in Homes /\ height2 \in Heights /\ Rings(home2, height2)' /\ Types'
  BY <1>2, InsertRings
<1>4. /\ a \in Sentinels /\ a = Active(i)
      /\ \A c \in Cells : /\ next'[c] = IF c = a THEN n ELSE IF c = n THEN x ELSE next[c]
                          /\ c # n => home2[c] = home[c]
      /\ home2[n] = a
  <2>1. a \in Sentinels /\ a \in Cells /\ n \in Nodes /\ n \in Cells /\ a # n /\ a = Active(i)
    BY <1>2, Ends DEF Inserts
  <2>2. home \in [Cells -> Sentinels]
    BY DEF Homes
  <2>3. \A c \in Cells : next'[c] = IF c = a THEN n ELSE IF c = n THEN x ELSE next[c]
    BY <1>2, <2>1 DEF Inserts, Types
  <2> QED
    BY <2>1, <2>2, <2>3
<1> HIDE DEF home2, height2
<1>5. HomesAre(home) /\ HomesAre(home2)'
  BY <1>3, RingsAre, RingsAreNext
<1>6. /\ Nodes \subseteq Cells /\ Nodes \cap Sentinels = {} /\ NULL \notin Cells
      /\ \A j, k \in Slots : Active(j) # Snapshot(k)
      /\ \A j, k \in Slots : Active(j) = Active(k) => j = k
  BY Ends
<1>7. /\ \A m \in Nodes : next'[m] # NULL <=> InList(m) \/ m = n
      /\ ~InList(n)
  <2>1. a \in Cells /\ InList(a)
    BY <1>4 DEF Cells, Rings, Chained
  <2>2. x \in Cells /\ next[n] = NULL
    BY <1>2, <2>1 DEF Inserts, Rings, Chained
  <2>3. \A m \in Nodes : m \in Cells /\ m # a
    BY <1>4, <1>6
  <2> QED
    BY <1>4, <1>6, <2>2, <2>3 DEF InList
<1>8. \A j \in Slots : Active(j)' = Active(j) /\ Snapshot(j)' = Snapshot(j)
  BY <1>1 DEF Inserts, Active, Snapshot
<1> DEFINE A == [j \in Slots |-> {m \in Nodes : InList(m) /\ home[m] = Active(j)}]
           S == [j \in Slots |-> {m \in Nodes : InList(m) /\ home[m] = Snapshot(j)}]
<1>9. ActiveRings = A /\ SnapshotRings = S
  BY <1>5 DEF HomesAre
<1>10. /\ ActiveRings' = [j \in Slots |-> {m \in Nodes : next'[m] # NULL /\ home2[m] = Active(j)}]
       /\ SnapshotRings' = [j \in Slots |-> {m \in Nodes : next'[m] # NULL /\ home2[m] = Snapshot(j)}]
  BY <1>5, <1>8 DEF HomesAre, InList
<1>11. ActiveRings' = [A EXCEPT ![i] = @ \cup {n}]
  <2>1. ASSUME NEW j \in Slots, NEW m \in Nodes
        PROVE  next'[m] # NULL /\ home2[m] = Active(j) <=>
                 (InList(m) /\ home[m] = Active(j)) \/ (m = n /\ j = i)
    BY <1>4, <1>6, <1>7
  <2>2. ASSUME NEW j \in Slots
        PROVE  {m \in Nodes : next'[m] # NULL /\ home2[m] = Active(j)}
                 = IF j = i THEN A[i] \cup {n} ELSE A[j]
    BY <2>1
  <2> HIDE DEF A
  <2> QED
    BY <1>10, <2>2 DEF A
<1>12. SnapshotRings' = S
  <2>1. ASSUME NEW j \in Slots, NEW m \in Nodes
        PROVE  next'[m] # NULL /\ home2[m] = Snapshot(j) <=> InList(m) /\ home[m] = Snapshot(j)
    BY <1>4, <1>6, <1>7
  <2> QED
    BY <1>10, <2>1
<1>13. \A j \in Slots : n \notin A[j] \cup S[j]
  BY <1>7
<1> QED
  BY <1>9, <1>11, <1>12, <1>13 DEF Lists!Add, ActiveRings, SnapshotRings

(* The sweep that deletes is Drop.                                         *)
LEMMA DeletedDrops ==
  ASSUME Types, NEW home \in Homes, NEW height \in Heights, Rings(home, height),
         NEW c \in Nodes, InList(c), NEW i \in Slots, home[c] = Snapshot(i), Deleted(c), Types',
         UNCHANGED <<registered, ActiveIndex, inserting, cpc>>
  PROVE  Lists!Drop(i, c)
<1>1. Rings(home, height)' /\ \A d \in Cells : next'[d] # NULL <=> InList(d) /\ d # c
  BY DeletedRings
<1>2. HomesAre(home) /\ HomesAre(home)'
  BY <1>1, RingsAre, RingsAreNext
<1>3. /\ Nodes \subseteq Cells
      /\ \A j, k \in Slots : Active(j) # Snapshot(k)
      /\ \A j, k \in Slots : Snapshot(j) = Snapshot(k) => j = k
  BY Ends
<1>4. \A j \in Slots : Active(j)' = Active(j) /\ Snapshot(j)' = Snapshot(j)
  BY DEF Active, Snapshot
<1> DEFINE A == [j \in Slots |-> {m \in Nodes : InList(m) /\ home[m] = Active(j)}]
           S == [j \in Slots |-> {m \in Nodes : InList(m) /\ home[m] = Snapshot(j)}]
<1>5. ActiveRings = A /\ SnapshotRings = S
  BY <1>2 DEF HomesAre
<1>6. /\ ActiveRings' = [j \in Slots |-> {m \in Nodes : next'[m] # NULL /\ home[m] = Active(j)}]
      /\ SnapshotRings' = [j \in Slots |-> {m \in Nodes : next'[m] # NULL /\ home[m] = Snapshot(j)}]
  BY <1>2, <1>4 DEF HomesAre, InList
<1>7. ActiveRings' = A
  <2>1. ASSUME NEW j \in Slots, NEW m \in Nodes
        PROVE  next'[m] # NULL /\ home[m] = Active(j) <=> InList(m) /\ home[m] = Active(j)
    BY <1>1, <1>3
  <2> QED
    BY <1>6, <2>1
<1>8. SnapshotRings' = [S EXCEPT ![i] = @ \ {c}]
  <2>1. ASSUME NEW j \in Slots, NEW m \in Nodes
        PROVE  next'[m] # NULL /\ home[m] = Snapshot(j) <=>
                 InList(m) /\ home[m] = Snapshot(j) /\ ~(m = c /\ j = i)
    BY <1>1, <1>3
  <2>2. ASSUME NEW j \in Slots
        PROVE  {m \in Nodes : next'[m] # NULL /\ home[m] = Snapshot(j)}
                 = IF j = i THEN S[i] \ {c} ELSE S[j]
    BY <2>1
  <2> HIDE DEF S
  <2> QED
    BY <1>6, <2>2 DEF S
<1>9. c \in S[i]
  OBVIOUS
<1> QED
  BY <1>5, <1>7, <1>8, <1>9 DEF Lists!Drop, ActiveRings, SnapshotRings

(* A list that is merged has two nodes at least: the first is not the last.*)
LEMMA MergesMerge ==
  ASSUME Types, NEW home \in Homes, NEW height \in Heights, Rings(home, height),
         NEW i \in Slots, NEW src, NEW dst, NEW f, NEW l, NEW g,
         src = Snapshot(i), dst = Active(i), Merges(src, dst, f, l, g), Types',
         ActiveIndex' = ActiveIndex
  PROVE  Lists!Merge(i)
<1> DEFINE home2 == [c \in Cells |-> IF c \in Moved(home, src) THEN dst ELSE home[c]]
           height2 == [c \in Cells |->
                         IF c \in Moved(home, src) THEN height[c] + height[g] ELSE height[c]]
<1>1. /\ home2 \in Homes /\ height2 \in Heights /\ Rings(home2, height2)'
      /\ \A c \in Cells : next'[c] # NULL <=> InList(c)
      /\ f \in Nodes /\ l \in Nodes /\ InList(f) /\ InList(l) /\ home[f] = src /\ home[l] = src
  BY MergedRings
<1>2. \A c \in Nodes : home2[c] = IF home[c] = src THEN dst ELSE home[c]
  BY Ends DEF Moved
<1> HIDE DEF home2, height2
<1>3. HomesAre(home) /\ HomesAre(home2)'
  BY <1>1, RingsAre, RingsAreNext
<1>4. /\ Nodes \subseteq Cells /\ f # l
      /\ \A j, k \in Slots : Active(j) # Snapshot(k)
      /\ \A j, k \in Slots : Snapshot(j) = Snapshot(k) \/ Active(j) = Active(k) => j = k
  BY Ends DEF Merges
<1>5. \A j \in Slots : Active(j)' = Active(j) /\ Snapshot(j)' = Snapshot(j)
  BY DEF Active, Snapshot
<1> DEFINE A == [j \in Slots |-> {m \in Nodes : InList(m) /\ home[m] = Active(j)}]
           S == [j \in Slots |-> {m \in Nodes : InList(m) /\ home[m] = Snapshot(j)}]
<1>6. ActiveRings = A /\ SnapshotRings = S
  BY <1>3 DEF HomesAre
<1>7. /\ ActiveRings' = [j \in Slots |-> {m \in Nodes : next'[m] # NULL /\ home2[m] = Active(j)}]
      /\ SnapshotRings' = [j \in Slots |-> {m \in Nodes : next'[m] # NULL /\ home2[m] = Snapshot(j)}]
  BY <1>3, <1>5 DEF HomesAre, InList
<1>8. ActiveRings' = [A EXCEPT ![i] = @ \cup S[i]]
  <2>1. ASSUME NEW j \in Slots, NEW m \in Nodes
        PROVE  next'[m] # NULL /\ home2[m] = Active(j) <=>
                 InList(m) /\ (home[m] = Active(j) \/ (home[m] = Snapshot(i) /\ j = i))
    BY <1>1, <1>2, <1>4
  <2>2. ASSUME NEW j \in Slots
        PROVE  {m \in Nodes : next'[m] # NULL /\ home2[m] = Active(j)}
                 = IF j = i THEN A[i] \cup S[i] ELSE A[j]
    BY <2>1
  <2> HIDE DEF S, A
  <2> QED
    BY <1>7, <2>2 DEF A
<1>9. SnapshotRings' = [S EXCEPT ![i] = {}]
  <2>1. ASSUME NEW j \in Slots, NEW m \in Nodes
        PROVE  next'[m] # NULL /\ home2[m] = Snapshot(j) <=>
                 InList(m) /\ home[m] = Snapshot(j) /\ j # i
    BY <1>1, <1>2, <1>4
  <2>2. ASSUME NEW j \in Slots
        PROVE  {m \in Nodes : next'[m] # NULL /\ home2[m] = Snapshot(j)}
                 = IF j = i THEN {} ELSE S[j]
    BY <2>1
  <2> HIDE DEF S
  <2> QED
    BY <1>7, <2>2 DEF S
<1>10. \A n \in Nodes : S[i] # {n}
  <2>1. f \in S[i] /\ l \in S[i] /\ f # l
    BY <1>1, <1>4
  <2> QED
    BY <2>1
<1> HIDE DEF A, S
<1>11. /\ \A n \in Nodes : SnapshotRings[i] # {n}
       /\ ActiveRings' = [ActiveRings EXCEPT ![i] = @ \cup SnapshotRings[i]]
       /\ SnapshotRings' = [SnapshotRings EXCEPT ![i] = {}]
  BY <1>6, <1>8, <1>9, <1>10
<1> QED
  BY <1>11 DEF Lists!Merge, ActiveRings, SnapshotRings

(* TurnLists is Turn.                                                      *)
LEMMA TurnListsTurns ==
  ASSUME Types, Types', NEW home \in Homes, NEW height \in Heights,
         Rings(home, height), Rings(home, height)', next' = next, ActiveIndex' = 1 - ActiveIndex
  PROVE  Lists!Turn
<1>1. HomesAre(home) /\ HomesAre(home)'
  BY RingsAre, RingsAreNext
<1>2. \A j \in Slots : Active(j)' = Snapshot(j) /\ Snapshot(j)' = Active(j)
  BY DEF Types, Active, Snapshot
<1>3. ActiveRings' = SnapshotRings /\ SnapshotRings' = ActiveRings
  BY <1>1, <1>2 DEF HomesAre, InList
<1> QED
  BY <1>3 DEF Lists!Turn, ActiveRings, SnapshotRings

(* Every step of the lists is one of NodeLists, or none.                   *)
LEMMA StepsOfLists == IInv /\ [Next]_vars => [Lists!NodeNext]_Lists!nodeVars
<1> SUFFICES ASSUME IInv, [Next]_vars
             PROVE  Lists!NodeNext \/ UNCHANGED Lists!nodeVars
  OBVIOUS
<1>1. PICK home \in Homes : \E height \in Heights : Rings(home, height) /\ Walks(home, height)
  BY DEF IInv
<1>2. PICK height \in Heights : Rings(home, height) /\ Walks(home, height)
  BY <1>1
<1>3. Types /\ Types'
  BY Steps DEF IInv
<1>4. CASE TurnLists
  <2>1. Rings(home, height)'
    BY <1>2, <1>4, RingsStay DEF TurnLists, Loop, listVars
  <2>2. Lists!Turn
    BY <1>2, <1>3, <1>4, <2>1, TurnListsTurns DEF TurnLists, listVars
  <2> QED
    BY <2>2 DEF Lists!NodeNext
<1>5. ASSUME UNCHANGED <<next, ActiveIndex>>, Rings(home, height)'
      PROVE  UNCHANGED Lists!nodeVars
  BY <1>2, <1>3, <1>5, SameHomes
<1>6. CASE Sweep
  <2>1. Rings(home, height)'
    BY <1>2, <1>3, <1>6, SweepKeeps
  <2>2. CASE UNCHANGED listVars
    BY <1>5, <1>6, <2>1, <2>2 DEF Sweep, listVars
  <2>3. CASE slot \in registered /\ center # NULL /\ itNext \in Nodes /\ Deleted(itNext)
    <3>1. PICK c, i : c = itNext /\ i = slot
      OBVIOUS
    <3>2. c \in Nodes /\ i \in Slots /\ InList(c) /\ home[c] = Snapshot(i) /\ Deleted(c)
      BY <1>2, <1>3, <1>6, <2>3, <3>1 DEF Walks, Swept, Types, Sweep
    <3>3. Lists!Drop(i, c)
      BY <1>2, <1>3, <1>6, <3>2, DeletedDrops DEF Sweep
    <3> QED
      BY <3>2, <3>3 DEF Lists!NodeNext
  <2> QED
    BY <1>6, <2>2, <2>3 DEF Sweep
<1>7. CASE StartMerge \/ StartRestore \/ StartFinalize \/ Collected
  <2>1. UNCHANGED <<next, prev, registered, inserting, ActiveIndex>>
    BY <1>7 DEF StartMerge, StartRestore, StartFinalize, Collected, listVars
  <2>2. Quiet \/ cpc' # "merge"
    BY <1>7 DEF StartMerge, StartRestore, StartFinalize, Collected, Loop
  <2>3. Rings(home, height)'
    BY <1>2, <2>1, <2>2, RingsStay
  <2> QED
    BY <1>5, <2>1, <2>3
<1>8. CASE merge_collected
  <2>1. UNCHANGED <<registered, inserting, ActiveIndex>> /\ slot \in Slots /\ Quiet
    BY <1>2, <1>3, <1>8, MergeTurn DEF Rings, AtFront, Quiet
  <2>2. CASE next' = next /\ prev' = prev
    BY <1>2, <1>5, <2>1, <2>2, RingsStay
  <2>3. CASE Merges(Snapshot(slot), Active(slot), next[Snapshot(slot)], prev[Snapshot(slot)],
                    next[Active(slot)])
    <3>1. PICK i \in Slots : i = slot
      BY <2>1
    <3>2. PICK src, dst, f, l, g :
            src = Snapshot(i) /\ dst = Active(i) /\ Merges(src, dst, f, l, g)
      BY <2>3, <3>1
    <3>3. Lists!Merge(i)
      BY <1>2, <1>3, <2>1, <3>2, MergesMerge
    <3> QED
      BY <3>3 DEF Lists!NodeNext
  <2> QED
    BY <1>3, <1>8, <2>2, <2>3, MergeTurn
<1>9. CASE WalkRestored
  <2>1. Rings(home, height)'
    BY <1>2, <1>3, <1>9, WalkRestoredKeeps
  <2> QED
    BY <1>5, <1>9, <2>1 DEF WalkRestored, listVars
<1>10. ASSUME NEW i \in Slots, Register(i)
       PROVE  UNCHANGED Lists!nodeVars
  <2>1. Rings(home, height)'
    BY <1>2, <1>10, RingsStay DEF Register, listVars, Rings, AtFront, Quiet
  <2> QED
    BY <1>5, <1>10, <2>1 DEF Register, listVars
<1>11. ASSUME NEW i \in Slots, Insert(i)
       PROVE  Lists!NodeNext
  <2>1. \E n \in Nodes : Lists!Add(i, n)
    BY <1>2, <1>3, <1>11, InsertAdds
  <2> QED
    BY <2>1 DEF Lists!NodeNext
<1>12. ASSUME NEW i \in Slots, Inserted(i)
       PROVE  UNCHANGED Lists!nodeVars
  <2>1. Rings(home, height)'
    BY <1>2, <1>3, <1>12, InsertedRings
  <2> QED
    BY <1>5, <1>12, <2>1 DEF Inserted
<1>13. CASE Crashed \/ UNCHANGED vars
  <2>1. /\ next' = next /\ prev' = prev /\ registered' = registered
        /\ ActiveIndex' = ActiveIndex /\ inserting' = inserting /\ cpc' = cpc
    BY <1>13 DEF Crashed, vars, listVars
  <2>2. Rings(home, height)'
    BY <1>2, <2>1, RingsStay DEF Rings, AtFront, Quiet
  <2> QED
    BY <1>5, <2>1, <2>2
<1> QED
  BY <1>4, <1>6, <1>7, <1>8, <1>9, <1>10, <1>11, <1>12, <1>13
     DEF Next, CollectorNext, ThreadNext

(* There are no nodes at first.                                            *)
LEMMA StartsLists == Init => Lists!NodeInit
<1> SUFFICES ASSUME Init PROVE Lists!NodeInit
  OBVIOUS
<1>1. IInv
  BY Starts
<1>2. PICK home \in Homes : \E height \in Heights : Rings(home, height)
  BY <1>1 DEF IInv
<1>3. HomesAre(home)
  BY <1>1, <1>2, RingsAre DEF IInv
<1>4. \A n \in Nodes : ~InList(n)
  BY DEF Init, InList, Cells
<1>5. ActiveRings = [i \in Slots |-> {}] /\ SnapshotRings = [i \in Slots |-> {}]
  BY <1>3, <1>4 DEF HomesAre
<1> QED
  BY <1>5 DEF Lists!NodeInit, ActiveRings, SnapshotRings

(* The lists are the sets of NodeLists: what a thread creates is in one of *)
(* them at once, what the sweep deletes leaves it, and what it keeps goes  *)
(* back to the others when the lists are merged.                           *)
THEOREM ListsAreSets == Spec => ImplementsNodeLists
<1>1. Init => Lists!NodeInit
  BY StartsLists
<1>2. IInv /\ [Next]_vars => [Lists!NodeNext]_Lists!nodeVars
  BY StepsOfLists
<1> QED
  BY <1>1, <1>2, Invariance, PTL DEF Spec, ImplementsNodeLists, Lists!NodeSpec
=============================================================================
