--------------------- MODULE CollectableHashTableProofs ---------------------
(***************************************************************************)
(* Proofs about CollectableHashTable, for any keys, any hash codes and any *)
(* power of two its size may be at first: every key is found again, the    *)
(* table stays sparse, growing is never nested, and the table is a map.    *)
(***************************************************************************)
EXTENDS CollectableHashTable, FiniteSetTheorems, TLAPS

-----------------------------------------------------------------------------
(* Tables.  The first lemmas are about any table of n entries, so that they*)
(* serve for data and old, before and after a step.                        *)

Shape(table, n) ==
  /\ table \in [Slots(n) -> Entry]
  /\ \A s \in Slots(n) :
       IF table[s].empty THEN table[s].key = NULL
       ELSE table[s].key \in Keys

(* What findu's probe comes to is an entry of the table.                   *)
LEMMA SlotRange ==
  ASSUME hash \in [Keys -> Hashes], NEW n \in Nat, NEW k \in Keys, NEW d \in Slots(n)
  PROVE  Slot(k, d, n) \in Slots(n)
<1>1. n > 0
  BY DEF Slots
<1>2. hash[k] \in Hashes /\ Hashes \subseteq Nat
  BY TableAssumption
<1>3. \A h \in Nat : h % n \in 0 .. n - 1
  BY <1>1
<1>4. hash[k] % n \in 0 .. n - 1
  BY <1>2, <1>3
<1> QED
  BY <1>1, <1>4 DEF Slot, Slots

(* A probe stops at one place only.                                        *)
LEMMA ReachesOnce ==
  ASSUME NEW table, NEW n \in Nat, NEW k, NEW d \in Slots(n), NEW e \in Slots(n),
         Reaches(table, k, d, n), Reaches(table, k, e, n)
  PROVE  d = e
BY DEF Reaches, Slots

(* Where it stops at a full entry, that is the key's.                      *)
LEMMA StopsAtKey ==
  ASSUME NEW table, NEW n \in Nat, NEW k \in Keys, NEW d \in Slots(n),
         Reaches(table, k, d, n), ~table[Slot(k, d, n)].empty
  PROVE  table[Slot(k, d, n)].key = k
BY DEF Reaches, Stops

(* No key is in a table twice.                                             *)
LEMMA KeyOnce ==
  ASSUME NEW table, NEW n \in Nat, Findable(table, n),
         NEW r \in Slots(n), NEW s \in Slots(n),
         ~table[r].empty, ~table[s].empty, table[r].key = table[s].key
  PROVE  r = s
<1>1. PICK d \in Slots(n) : r = Slot(table[r].key, d, n) /\ Reaches(table, table[r].key, d, n)
  BY DEF Findable
<1>2. PICK e \in Slots(n) : s = Slot(table[s].key, e, n) /\ Reaches(table, table[s].key, e, n)
  BY DEF Findable
<1>3. d = e
  BY <1>1, <1>2, ReachesOnce
<1> QED
  BY <1>1, <1>2, <1>3

(* An entry that is full is what its key looks up; a key without an entry  *)
(* looks up nothing.                                                       *)
LEMMA LookupEntry ==
  ASSUME NEW table, NEW n \in Nat, Findable(table, n), NEW s \in Slots(n), ~table[s].empty
  PROVE  Lookup(table, table[s].key, n) = table[s].value
<1> DEFINE k == table[s].key
<1>1. PICK d \in Slots(n) : s = Slot(k, d, n) /\ Reaches(table, k, d, n)
  BY DEF Findable
<1>2. Finds(table, k, n)
  BY <1>1 DEF Finds
<1> DEFINE e == CHOOSE x \in Slots(n) : Reaches(table, k, x, n)
<1>3. e \in Slots(n) /\ Reaches(table, k, e, n)
  BY <1>1
<1>4. e = d
  BY <1>1, <1>3, ReachesOnce
<1> QED
  BY <1>1, <1>2, <1>4 DEF Lookup

LEMMA LookupNothing ==
  ASSUME hash \in [Keys -> Hashes], NEW table, NEW n \in Nat, NEW k \in Keys,
         \A s \in Slots(n) : table[s].empty \/ table[s].key # k
  PROVE  Lookup(table, k, n) = NULL
<1>1. ~Finds(table, k, n)
  BY StopsAtKey, SlotRange DEF Finds
<1> QED
  BY <1>1 DEF Lookup

-----------------------------------------------------------------------------
(* Filling the entry a probe comes to.                                     *)
FillAt(table, s, k, v) ==
  [table EXCEPT ![s] = [empty |-> FALSE, key |-> k, value |-> v]]

(* This is what the code does.                                             *)
LEMMA FilledIs ==
  ASSUME NEW k, NEW v, NEW d
  PROVE  Filled(k, v, d) = FillAt(data, Slot(k, d, HASH_SIZE), k, v)
BY DEF Filled, FillAt

LEMMA FillShape ==
  ASSUME NEW table, NEW n \in Nat, Shape(table, n),
         NEW s \in Slots(n), NEW k \in Keys, NEW v \in Values \cup {NULL}
  PROVE  Shape(FillAt(table, s, k, v), n)
<1> DEFINE filled == FillAt(table, s, k, v)
<1>1. /\ filled \in [Slots(n) -> Entry]
      /\ filled[s] = [empty |-> FALSE, key |-> k, value |-> v]
      /\ \A r \in Slots(n) \ {s} : filled[r] = table[r]
  BY DEF Shape, FillAt, Entry
<1> QED
  BY <1>1 DEF Shape

(* Every key that was found still is, because the entry was not on its     *)
(* way (an empty one would have stopped its probe) or still has its key.   *)
LEMMA FillFindable ==
  ASSUME hash \in [Keys -> Hashes],
         NEW table, NEW n \in Nat, Shape(table, n), Findable(table, n),
         NEW k \in Keys, NEW v, NEW d \in Slots(n), Reaches(table, k, d, n)
  PROVE  Findable(FillAt(table, Slot(k, d, n), k, v), n)
<1> DEFINE s == Slot(k, d, n)
           filled == FillAt(table, s, k, v)
<1>1. s \in Slots(n)
  BY SlotRange
<1>2. /\ filled[s] = [empty |-> FALSE, key |-> k, value |-> v]
      /\ \A r \in Slots(n) : r # s => filled[r] = table[r]
  BY <1>1 DEF FillAt, Shape
<1>3. table[s].empty \/ table[s].key = k
  BY StopsAtKey
<1>4. Slots(d) \subseteq Slots(n)
  BY DEF Slots
<1> HIDE DEF s, filled
<1> SUFFICES ASSUME NEW r \in Slots(n), ~filled[r].empty
             PROVE  \E c \in Slots(n) : /\ r = Slot(filled[r].key, c, n)
                                        /\ Reaches(filled, filled[r].key, c, n)
  BY DEF Findable, s, filled
<1>5. CASE r = s
  <2>1. \A c \in Slots(d) : Slot(k, c, n) \in Slots(n) /\ Slot(k, c, n) # s
    BY <1>4, SlotRange DEF Reaches, s
  <2>2. Reaches(filled, k, d, n)
    BY <1>2, <2>1 DEF Reaches, Stops, s
  <2> QED
    BY <1>2, <1>5, <2>2 DEF s
<1>6. CASE r # s
  <2>1. filled[r] = table[r] /\ ~table[r].empty /\ table[r].key \in Keys
    BY <1>2, <1>6 DEF Shape
  <2> DEFINE q == table[r].key
  <2>2. PICK e \in Slots(n) : r = Slot(q, e, n) /\ Reaches(table, q, e, n)
    BY <2>1 DEF Findable
  <2>3. Slots(e) \subseteq Slots(n)
    BY DEF Slots
  <2>4. ASSUME NEW c \in Slots(e)
        PROVE  ~Stops(filled[Slot(q, c, n)], q)
    <3>1. Slot(q, c, n) \in Slots(n)
      BY <2>1, <2>3, SlotRange
    <3>2. ~Stops(table[Slot(q, c, n)], q)
      BY <2>2 DEF Reaches
    <3>3. CASE Slot(q, c, n) = s
      <4>1. ~table[s].empty
        BY <3>2, <3>3 DEF Stops
      <4>2. table[s].key = k /\ k # q
        BY <1>1, <1>3, <3>2, <3>3, <4>1 DEF Stops, Shape
      <4> QED
        BY <1>2, <3>3, <4>2 DEF Stops
    <3>4. CASE Slot(q, c, n) # s
      BY <1>2, <3>1, <3>2, <3>4
    <3> QED
      BY <3>3, <3>4
  <2>5. Reaches(filled, q, e, n)
    BY <2>1, <2>2, <2>4 DEF Reaches
  <2> QED
    BY <2>1, <2>2, <2>5
<1> QED
  BY <1>5, <1>6

(* Only the filled key looks up something else.                            *)
LEMMA FillLookup ==
  ASSUME hash \in [Keys -> Hashes],
         NEW table, NEW n \in Nat, Shape(table, n), Findable(table, n),
         NEW k \in Keys, NEW v, NEW d \in Slots(n), Reaches(table, k, d, n), NEW q \in Keys
  PROVE  Lookup(FillAt(table, Slot(k, d, n), k, v), q, n) =
           IF q = k THEN v ELSE Lookup(table, q, n)
<1> DEFINE s == Slot(k, d, n)
           filled == FillAt(table, s, k, v)
<1>1. s \in Slots(n)
  BY SlotRange
<1>2. /\ filled[s] = [empty |-> FALSE, key |-> k, value |-> v]
      /\ \A r \in Slots(n) : r # s => filled[r] = table[r]
  BY <1>1 DEF FillAt, Shape
<1>3. table[s].empty \/ table[s].key = k
  BY StopsAtKey
<1>4. Findable(filled, n)
  BY FillFindable
<1> HIDE DEF s, filled
<1>5. CASE q = k
  BY <1>1, <1>2, <1>4, <1>5, LookupEntry DEF s, filled
<1>6. CASE q # k /\ \E r \in Slots(n) : ~table[r].empty /\ table[r].key = q
  <2>1. PICK r \in Slots(n) : ~table[r].empty /\ table[r].key = q
    BY <1>6
  <2>2. r # s
    BY <1>3, <1>6, <2>1
  <2>3. Lookup(filled, q, n) = table[r].value
    BY <1>2, <1>4, <2>1, <2>2, LookupEntry
  <2>4. Lookup(table, q, n) = table[r].value
    BY <2>1, LookupEntry
  <2> QED
    BY <1>6, <2>3, <2>4 DEF s, filled
<1>7. CASE q # k /\ \A r \in Slots(n) : table[r].empty \/ table[r].key # q
  <2>1. Lookup(table, q, n) = NULL
    BY <1>7, LookupNothing
  <2>2. \A r \in Slots(n) : filled[r].empty \/ filled[r].key # q
    BY <1>2, <1>7
  <2>3. Lookup(filled, q, n) = NULL
    BY <2>2, LookupNothing
  <2> QED
    BY <1>7, <2>1, <2>3 DEF s, filled
<1> QED
  BY <1>5, <1>6, <1>7

(* How many entries are full.                                              *)
LEMMA OccupiedFinite ==
  ASSUME NEW table, NEW n \in Nat
  PROVE  IsFiniteSet(Occupied(table, n)) /\ Cardinality(Occupied(table, n)) \in Nat
<1>1. IsFiniteSet(Slots(n))
  BY FS_Interval DEF Slots
<1>2. Occupied(table, n) \in SUBSET Slots(n)
  BY DEF Occupied
<1> QED
  BY <1>1, <1>2, FS_Subset, FS_CardinalityType

LEMMA FillCount ==
  ASSUME NEW table, NEW n \in Nat, Shape(table, n), NEW s \in Slots(n), NEW k \in Keys, NEW v
  PROVE  Cardinality(Occupied(FillAt(table, s, k, v), n)) =
           IF table[s].empty THEN Cardinality(Occupied(table, n)) + 1
           ELSE Cardinality(Occupied(table, n))
<1>1. Occupied(FillAt(table, s, k, v), n) = Occupied(table, n) \cup {s}
  BY DEF Occupied, FillAt, Shape
<1>2. s \in Occupied(table, n) <=> ~table[s].empty
  BY DEF Occupied
<1> QED
  BY <1>1, <1>2, OccupiedFinite, FS_AddElement

(* An empty table.                                                         *)
LEMMA NewTableEmpty ==
  ASSUME NEW n \in Nat
  PROVE  /\ Shape(NewTable(n), n) /\ Findable(NewTable(n), n)
         /\ \A s \in Slots(n) : NewTable(n)[s].empty
         /\ Cardinality(Occupied(NewTable(n), n)) = 0
<1>1. \A s \in Slots(n) : NewTable(n)[s] = NewEntry
  BY DEF NewTable
<1>2. Occupied(NewTable(n), n) = {}
  BY <1>1 DEF Occupied, NewEntry
<1>3. NewTable(n) \in [Slots(n) -> Entry]
  BY DEF NewTable, NewEntry, Entry
<1> QED
  BY <1>1, <1>2, <1>3, FS_EmptySet DEF Shape, Findable, NewEntry

-----------------------------------------------------------------------------
(* The inductive invariant.                                                *)

(* What the loop in inc_used has done: the new table has the entries of the*)
(* old one before i and no others.                                         *)
MovedSoFar ==
  /\ \A s \in Slots(HASH_SIZE) : ~data[s].empty =>
       \E j \in Slots(i) : ~old[j].empty /\ old[j].key = data[s].key
  /\ \A j \in Slots(i) : ~old[j].empty => Lookup(data, old[j].key, HASH_SIZE) = old[j].value

Sizes ==
  /\ hash \in [Keys -> Hashes]
  /\ HASH_SIZE \in Nat /\ HASH_SIZE >= 2
  /\ OLD_HASH_SIZE \in Nat
  /\ i \in Nat /\ (Growing => i < OLD_HASH_SIZE)

IInv ==
  /\ Sizes
  /\ Shape(data, HASH_SIZE) /\ Shape(old, OLD_HASH_SIZE)
  /\ KeysFindable
  /\ SparseEnough
  /\ NoGrowthWhileGrowing
  /\ Growing => MovedSoFar

(* The hash codes never change, so what is said of the tables after a step *)
(* is said of data' and old'.                                              *)
LEMMA AfterStep ==
  ASSUME hash' = hash
  PROVE  /\ KeysFindable' <=> Findable(data', HASH_SIZE') /\ Findable(old', OLD_HASH_SIZE')
         /\ MovedSoFar' <=>
              /\ \A s \in Slots(HASH_SIZE') : ~data'[s].empty =>
                   \E j \in Slots(i') : ~old'[j].empty /\ old'[j].key = data'[s].key
              /\ \A j \in Slots(i') : ~old'[j].empty =>
                   Lookup(data', old'[j].key, HASH_SIZE') = old'[j].value
         /\ Contents' = [k \in Keys |-> IF Growing' THEN Lookup(old', k, OLD_HASH_SIZE')
                                        ELSE Lookup(data', k, HASH_SIZE')]
<1>1. KeysFindable' <=> Findable(data', HASH_SIZE') /\ Findable(old', OLD_HASH_SIZE')
  BY DEF KeysFindable, Findable, Reaches, Stops, Slot, Slots
<1>2. \A table, k, n : Lookup(table, k, n)' = Lookup(table', k', n')
  BY DEF Lookup, Finds, Reaches, Stops, Slot, Slots
<1> QED
  BY <1>1, <1>2 DEF MovedSoFar, Contents, Slots

LEMMA InvInit ==
  ASSUME Init
  PROVE  IInv /\ Contents = [k \in Keys |-> NULL]
<1>1. InitialSize \in Nat /\ InitialSize >= 2
  BY TableAssumption
<1>2. Sizes /\ ~Growing
  BY <1>1 DEF Init, Sizes, Growing
<1>3. Shape(data, HASH_SIZE) /\ SparseEnough
  BY <1>1, NewTableEmpty DEF Init, SparseEnough
<1>4. Shape(old, OLD_HASH_SIZE) /\ KeysFindable
  BY <1>1, NewTableEmpty DEF Init, KeysFindable
<1>5. \A k \in Keys : Lookup(data, k, HASH_SIZE) = NULL
  <2>1. \A s \in Slots(HASH_SIZE) : data[s].empty
    BY <1>1, NewTableEmpty DEF Init
  <2> QED
    BY <1>2, <2>1, LookupNothing DEF Sizes
<1> QED
  BY <1>2, <1>3, <1>4, <1>5 DEF IInv, NoGrowthWhileGrowing, Contents

(* An insertion puts one pair into the map, also when the table grows.     *)
LEMMA InvInsert ==
  ASSUME IInv, NEW k \in Keys, NEW v \in Values, InsertNew(k, v)
  PROVE  IInv' /\ Contents' = [Contents EXCEPT ![k] = v]
<1> DEFINE n == HASH_SIZE
<1>1. /\ hash \in [Keys -> Hashes] /\ n \in Nat /\ n >= 2 /\ hash' = hash
      /\ ~Growing /\ OLD_HASH_SIZE = 0
      /\ Shape(data, n) /\ Findable(data, n) /\ Findable(old, OLD_HASH_SIZE)
  BY DEF InsertNew, IInv, Sizes, KeysFindable, Growing
<1>2. PICK d \in Slots(n) :
        /\ Reaches(data, k, d, n) /\ data[Slot(k, d, n)].empty
        /\ IF Crowded(used + 1, n)
           THEN Grow(Filled(k, v, d))
           ELSE /\ data' = Filled(k, v, d)
                /\ used' = used + 1
                /\ UNCHANGED <<HASH_SIZE, old, OLD_HASH_SIZE, i>>
  BY DEF InsertNew
<1> DEFINE s == Slot(k, d, n)
           filled == FillAt(data, s, k, v)
<1>4. Filled(k, v, d) = filled
  BY FilledIs
<1>5. s \in Slots(n)
  BY <1>1, SlotRange
<1>6. Shape(filled, n)
  BY <1>1, <1>2, <1>5, FillShape
<1>7. Findable(filled, n)
  BY <1>1, <1>2, FillFindable
<1>8. \A q \in Keys : Lookup(filled, q, n) = IF q = k THEN v ELSE Lookup(data, q, n)
  BY <1>1, <1>2, FillLookup
<1>9. /\ used = Cardinality(Occupied(data, n)) /\ used \in Nat /\ 4 * used <= n
      /\ Cardinality(Occupied(filled, n)) = used + 1
  <2>1. used = Cardinality(Occupied(data, n)) /\ used \in Nat
    BY <1>1, OccupiedFinite DEF IInv, SparseEnough
  <2>2. 4 * used <= n
    BY <1>2, <2>1 DEF IInv, SparseEnough
  <2>3. Cardinality(Occupied(filled, n)) = used + 1
    BY <1>1, <1>2, <1>5, <2>1, FillCount
  <2> QED
    BY <2>1, <2>2, <2>3
<1>10. Contents = [q \in Keys |-> Lookup(data, q, n)]
  BY <1>1 DEF Contents
<1>11. [Contents EXCEPT ![k] = v] = [q \in Keys |-> Lookup(filled, q, n)]
  BY <1>8, <1>10
<1> HIDE DEF filled, s
<1>12. CASE ~Crowded(used + 1, n)
  <2>1. /\ data' = filled /\ used' = used + 1
        /\ HASH_SIZE' = n /\ old' = old /\ OLD_HASH_SIZE' = OLD_HASH_SIZE /\ i' = i
    BY <1>2, <1>4, <1>12
  <2>2. 4 * used' <= HASH_SIZE'
    BY <1>1, <1>2, <1>9, <1>12, <2>1 DEF Crowded
  <2>3. SparseEnough'
    BY <1>9, <2>1, <2>2 DEF SparseEnough, Occupied, Slots
  <2>4. KeysFindable'
    BY <1>1, <1>7, <2>1, AfterStep
  <2>5. ~Growing'
    BY <1>1, <2>1 DEF Growing
  <2>6. Shape(data, HASH_SIZE)'
    BY <1>6, <2>1 DEF Shape, Slots, Entry
  <2>7. Shape(old, OLD_HASH_SIZE)'
    BY <2>1 DEF IInv, Shape, Slots, Entry
  <2>8. Sizes'
    BY <1>1, <2>1, <2>5 DEF IInv, Sizes
  <2>9. Contents' = [q \in Keys |-> Lookup(filled, q, n)]
    BY <1>1, <2>1, <2>5, AfterStep
  <2> QED
    BY <1>11, <2>3, <2>4, <2>5, <2>6, <2>7, <2>8, <2>9 DEF IInv, NoGrowthWhileGrowing
<1>13. CASE Crowded(used + 1, n)
  <2>1. /\ old' = filled /\ OLD_HASH_SIZE' = n /\ HASH_SIZE' = 2 * n
        /\ data' = NewTable(2 * n) /\ used' = 0 /\ i' = 0
    BY <1>2, <1>4, <1>13 DEF Grow, FirstOld
  <2>2. Growing' /\ HASH_SIZE' \in Nat /\ HASH_SIZE' >= 2
    BY <1>1, <2>1 DEF Growing
  <2>3. /\ Shape(NewTable(2 * n), 2 * n)
        /\ Findable(NewTable(2 * n), 2 * n)
        /\ \A r \in Slots(2 * n) : NewTable(2 * n)[r].empty
        /\ Cardinality(Occupied(NewTable(2 * n), 2 * n)) = 0
    BY <1>1, NewTableEmpty
  <2>4. SparseEnough'
    BY <2>1, <2>2, <2>3 DEF SparseEnough, Occupied, Slots
  <2>5. KeysFindable'
    BY <1>1, <1>7, <2>1, <2>3, AfterStep
  <2>6. Shape(data, HASH_SIZE)'
    BY <2>1, <2>3 DEF Shape, Slots, Entry
  <2>7. Shape(old, OLD_HASH_SIZE)'
    BY <1>6, <2>1 DEF Shape, Slots, Entry
  <2>8. Sizes'
    BY <1>1, <2>1, <2>2 DEF Sizes
  <2>9. NoGrowthWhileGrowing'
    <3>1. {r \in i' .. OLD_HASH_SIZE' - 1 : ~old'[r].empty} = Occupied(filled, n)
      BY <2>1 DEF Occupied, Slots
    <3>2. ~Crowded(0 + (used + 1), 2 * n)
      BY <1>1, <1>9 DEF Crowded
    <3>3. /\ 2 * OLD_HASH_SIZE' = HASH_SIZE'
          /\ ~Crowded(used' + Cardinality({r \in i' .. OLD_HASH_SIZE' - 1 : ~old'[r].empty}),
                      HASH_SIZE')
      BY <1>9, <2>1, <3>1, <3>2
    <3> QED
      BY <3>3 DEF NoGrowthWhileGrowing, Crowded
  <2>10. MovedSoFar'
    BY <1>1, <2>1, <2>3, AfterStep DEF Slots
  <2>11. Contents' = [q \in Keys |-> Lookup(filled, q, n)]
    BY <1>1, <2>1, <2>2, AfterStep
  <2> QED
    BY <1>11, <2>1, <2>4, <2>5, <2>6, <2>7, <2>8, <2>9, <2>10, <2>11 DEF IInv
<1> QED
  BY <1>12, <1>13

(* Assigning to a key that is there changes its value and nothing else.    *)
LEMMA InvAssign ==
  ASSUME IInv, NEW k \in Keys, NEW v \in Values, Assign(k, v)
  PROVE  IInv' /\ Contents' = [Contents EXCEPT ![k] = v]
<1> DEFINE n == HASH_SIZE
<1>1. /\ hash \in [Keys -> Hashes] /\ n \in Nat /\ hash' = hash
      /\ ~Growing /\ Shape(data, n) /\ Findable(data, n) /\ Findable(old, OLD_HASH_SIZE)
      /\ UNCHANGED <<HASH_SIZE, used, old, OLD_HASH_SIZE, i>>
  BY DEF Assign, IInv, Sizes, KeysFindable
<1>2. PICK d \in Slots(n) :
        /\ Reaches(data, k, d, n) /\ ~data[Slot(k, d, n)].empty
        /\ data' = [data EXCEPT ![Slot(k, d, n)] = [@ EXCEPT !.value = v]]
  BY DEF Assign
<1> DEFINE s == Slot(k, d, n)
           filled == FillAt(data, s, k, v)
<1>3. s \in Slots(n) /\ data[s].key = k
  BY <1>1, <1>2, SlotRange, StopsAtKey
<1>4. data' = filled
  <2>1. data[s] \in Entry /\ data[s].empty = FALSE
    BY <1>1, <1>2, <1>3 DEF Shape, Entry
  <2>2. \A e \in Entry :
          [e EXCEPT !.value = v] = [empty |-> e.empty, key |-> e.key, value |-> v]
    BY DEF Entry
  <2>3. [data[s] EXCEPT !.value = v] = [empty |-> FALSE, key |-> k, value |-> v]
    BY <1>3, <2>1, <2>2
  <2> QED
    BY <1>2, <2>3 DEF FillAt
<1>5. Shape(filled, n)
  BY <1>1, <1>3, FillShape
<1>6. Findable(filled, n)
  BY <1>1, <1>2, FillFindable
<1>7. \A q \in Keys : Lookup(filled, q, n) = IF q = k THEN v ELSE Lookup(data, q, n)
  BY <1>1, <1>2, FillLookup
<1>8. Cardinality(Occupied(filled, n)) = Cardinality(Occupied(data, n))
  BY <1>1, <1>2, <1>3, FillCount
<1> HIDE DEF filled, s
<1>9. ~Growing'
  BY <1>1 DEF Growing
<1>10. KeysFindable'
  BY <1>1, <1>4, <1>6, AfterStep
<1>11. SparseEnough'
  BY <1>1, <1>4, <1>8 DEF IInv, SparseEnough, Occupied, Slots
<1>12. Shape(data, HASH_SIZE)'
  BY <1>1, <1>4, <1>5 DEF IInv, Shape, Slots, Entry
<1>13. Shape(old, OLD_HASH_SIZE)' /\ Sizes'
  BY <1>1, <1>9 DEF IInv, Shape, Slots, Entry, Sizes
<1>14. Contents' = [q \in Keys |-> Lookup(filled, q, n)]
  BY <1>1, <1>4, <1>9, AfterStep
<1>15. Contents = [q \in Keys |-> Lookup(data, q, n)]
  BY <1>1 DEF Contents
<1> QED
  BY <1>7, <1>9, <1>10, <1>11, <1>12, <1>13, <1>14, <1>15 DEF IInv, NoGrowthWhileGrowing

(* One entry is inserted again, if there is one at i: after it the new     *)
(* table has the entries of the old one up to and including i.             *)
LEMMA ReinsertMoves ==
  ASSUME IInv, Reinsert
  PROVE  /\ Shape(data', HASH_SIZE) /\ Findable(data', HASH_SIZE)
         /\ \A s \in Slots(HASH_SIZE) : ~data'[s].empty =>
              \E j \in Slots(i + 1) : ~old[j].empty /\ old[j].key = data'[s].key
         /\ \A j \in Slots(i + 1) : ~old[j].empty =>
              Lookup(data', old[j].key, HASH_SIZE) = old[j].value
         /\ used' = Cardinality(Occupied(data', HASH_SIZE))
         /\ used' = IF old[i].empty THEN used ELSE used + 1
<1> DEFINE n == HASH_SIZE
           e == old[i]
<1>1. /\ hash \in [Keys -> Hashes] /\ n \in Nat /\ OLD_HASH_SIZE \in Nat /\ i \in Nat
      /\ Growing /\ i < OLD_HASH_SIZE /\ i \in Slots(OLD_HASH_SIZE)
      /\ Shape(data, n) /\ Findable(data, n)
      /\ Shape(old, OLD_HASH_SIZE) /\ Findable(old, OLD_HASH_SIZE)
      /\ MovedSoFar /\ used = Cardinality(Occupied(data, n))
  BY DEF Reinsert, IInv, Sizes, KeysFindable, SparseEnough, Slots
<1>2. Slots(i + 1) = Slots(i) \cup {i} /\ Slots(i + 1) \subseteq Slots(OLD_HASH_SIZE)
  BY <1>1 DEF Slots
<1>3. CASE e.empty
  <2>1. data' = data /\ used' = used
    BY <1>3 DEF Reinsert
  <2> QED
    BY <1>1, <1>2, <1>3, <2>1 DEF MovedSoFar
<1>4. CASE ~e.empty
  <2>1. e.key \in Keys /\ e.value \in Values \cup {NULL}
    BY <1>1, <1>4 DEF Shape, Entry
  <2>2. PICK d \in Slots(n) : Reaches(data, e.key, d, n) /\ data' = Filled(e.key, e.value, d)
    BY <1>4, <2>1 DEF Reinsert
  <2> DEFINE s == Slot(e.key, d, n)
  <2>3. s \in Slots(n) /\ data' = FillAt(data, s, e.key, e.value) /\ used' = used + 1
    BY <1>1, <1>4, <2>1, <2>2, FilledIs, SlotRange DEF Reinsert
  <2>4. Shape(data', n) /\ Findable(data', n)
    <3>1. Shape(data', n)
      BY <1>1, <2>1, <2>3, FillShape
    <3>2. Findable(data', n)
      BY <1>1, <2>1, <2>2, <2>3, FillFindable
    <3> QED
      BY <3>1, <3>2
  <2>5. \A j \in Slots(i) : ~old[j].empty => old[j].key # e.key
    <3>1. \A j \in Slots(i) : j \in Slots(OLD_HASH_SIZE) /\ j # i
      BY <1>1 DEF Slots
    <3> QED
      BY <1>1, <1>4, <3>1, KeyOnce
  <2>6. data[s].empty
    <3>1. ASSUME ~data[s].empty
          PROVE  FALSE
      <4>1. data[s].key = e.key
        BY <2>1, <2>2, <3>1, <1>1, StopsAtKey
      <4> QED
        BY <1>1, <2>3, <2>5, <3>1, <4>1 DEF MovedSoFar
    <3> QED
      BY <3>1
  <2>7. used' = Cardinality(Occupied(data', n))
    BY <1>1, <2>1, <2>3, <2>6, FillCount
  <2>8. \A r \in Slots(n) : r # s => data'[r] = data[r]
    BY <1>1, <2>3 DEF FillAt, Shape
  <2>9. data'[s].key = e.key
    BY <1>1, <2>3 DEF FillAt, Shape
  <2>10. \A r \in Slots(n) : ~data'[r].empty =>
           \E j \in Slots(i + 1) : ~old[j].empty /\ old[j].key = data'[r].key
    BY <1>1, <1>2, <1>4, <2>8, <2>9 DEF MovedSoFar
  <2>11. ASSUME NEW j \in Slots(i + 1), ~old[j].empty
         PROVE  Lookup(data', old[j].key, n) = old[j].value
    <3>1. old[j].key \in Keys
      BY <1>1, <1>2, <2>11 DEF Shape
    <3>2. Lookup(data', old[j].key, n) =
            IF old[j].key = e.key THEN e.value ELSE Lookup(data, old[j].key, n)
      BY <1>1, <2>1, <2>2, <2>3, <3>1, FillLookup
    <3> QED
      BY <1>1, <1>2, <2>5, <2>11, <3>2 DEF MovedSoFar
  <2> QED
    BY <1>4, <2>3, <2>4, <2>7, <2>10, <2>11
<1> QED
  BY <1>3, <1>4

(* So it changes nothing in the map, and the last time neither, when the   *)
(* new table takes the place of the old one.                               *)
LEMMA InvReinsert ==
  ASSUME IInv, Reinsert
  PROVE  IInv' /\ Contents' = Contents
<1> DEFINE n == HASH_SIZE
           left == {r \in i .. OLD_HASH_SIZE - 1 : ~old[r].empty}
           leftAfter == {r \in i + 1 .. OLD_HASH_SIZE - 1 : ~old[r].empty}
<1>1. /\ hash \in [Keys -> Hashes] /\ n \in Nat /\ n >= 2
      /\ OLD_HASH_SIZE \in Nat /\ i \in Nat /\ i < OLD_HASH_SIZE /\ Growing
      /\ Shape(old, OLD_HASH_SIZE) /\ Findable(old, OLD_HASH_SIZE)
      /\ 2 * OLD_HASH_SIZE = n
      /\ UNCHANGED <<hash, HASH_SIZE>>
  BY DEF Reinsert, IInv, Sizes, KeysFindable, NoGrowthWhileGrowing
<1>2. /\ Shape(data', n) /\ Findable(data', n)
      /\ \A s \in Slots(n) : ~data'[s].empty =>
           \E j \in Slots(i + 1) : ~old[j].empty /\ old[j].key = data'[s].key
      /\ \A j \in Slots(i + 1) : ~old[j].empty => Lookup(data', old[j].key, n) = old[j].value
      /\ used' = Cardinality(Occupied(data', n))
      /\ used' = IF old[i].empty THEN used ELSE used + 1
  BY ReinsertMoves
<1>3. /\ Cardinality(left) \in Nat /\ Cardinality(leftAfter) \in Nat /\ used \in Nat
      /\ used' + Cardinality(leftAfter) = used + Cardinality(left)
  <2>1. IsFiniteSet(i .. OLD_HASH_SIZE - 1) /\ left \in SUBSET (i .. OLD_HASH_SIZE - 1)
    BY <1>1, FS_Interval
  <2>2. IsFiniteSet(left)
    BY <2>1, FS_Subset
  <2>3. leftAfter = left \ {i} /\ (i \in left <=> ~old[i].empty)
    BY <1>1
  <2>4. used \in Nat
    BY <1>1, OccupiedFinite DEF IInv, SparseEnough
  <2> HIDE DEF left, leftAfter
  <2>5. Cardinality(left) \in Nat /\ IsFiniteSet(leftAfter) /\ Cardinality(leftAfter) \in Nat
    BY <2>2, <2>3, FS_RemoveElement, FS_CardinalityType
  <2>6. Cardinality(leftAfter) =
          IF old[i].empty THEN Cardinality(left) ELSE Cardinality(left) - 1
    BY <2>2, <2>3, FS_RemoveElement
  <2> QED
    BY <1>2, <2>4, <2>5, <2>6
<1>4. 4 * (used + Cardinality(left)) <= n
  <2>1. ~(4 * (used + Cardinality(left)) > n)
    BY <1>1 DEF IInv, NoGrowthWhileGrowing, Crowded
  <2> QED
    BY <1>1, <1>3, <2>1
<1>5. used' \in Nat /\ 4 * (used' + Cardinality(leftAfter)) <= n /\ 4 * used' <= n
  <2>1. used' \in Nat
    BY <1>2, <1>3
  <2>2. 4 * (used' + Cardinality(leftAfter)) <= n
    BY <1>3, <1>4
  <2>4. Cardinality(leftAfter) \in Nat /\ n \in Nat
    BY <1>1, <1>3
  <2>5. \A a, b, c \in Nat : 4 * (a + b) <= c => 4 * a <= c
    OBVIOUS
  <2> HIDE DEF leftAfter, n
  <2>6. 4 * used' <= n
    BY <2>1, <2>2, <2>4, <2>5
  <2> QED
    BY <2>1, <2>2, <2>6
<1>6. SparseEnough'
  BY <1>1, <1>2, <1>5 DEF SparseEnough, Occupied, Slots
<1>7. Shape(data, HASH_SIZE)'
  BY <1>1, <1>2 DEF Shape, Slots, Entry
<1>8. Contents = [k \in Keys |-> Lookup(old, k, OLD_HASH_SIZE)]
  BY <1>1 DEF Contents
<1>9. CASE MoreOld
  <2>1. i' = i + 1 /\ old' = old /\ OLD_HASH_SIZE' = OLD_HASH_SIZE
    BY <1>9 DEF Reinsert
  <2>2. Growing' /\ Sizes'
    BY <1>1, <1>9, <2>1 DEF Growing, MoreOld, IInv, Sizes
  <2>3. KeysFindable'
    BY <1>1, <1>2, <2>1, AfterStep
  <2>4. MovedSoFar'
    BY <1>1, <1>2, <2>1, AfterStep
  <2>5. NoGrowthWhileGrowing'
    <3>1. ~Crowded(used' + Cardinality(leftAfter), n)
      BY <1>1, <1>3, <1>5 DEF Crowded
    <3>2. /\ 2 * OLD_HASH_SIZE' = HASH_SIZE'
          /\ ~Crowded(used' + Cardinality({r \in i' .. OLD_HASH_SIZE' - 1 : ~old'[r].empty}),
                      HASH_SIZE')
      BY <1>1, <2>1, <3>1
    <3> QED
      BY <3>2 DEF NoGrowthWhileGrowing, Crowded
  <2>6. Shape(old, OLD_HASH_SIZE)'
    BY <1>1, <2>1 DEF Shape, Slots, Entry
  <2>7. Contents' = Contents
    BY <1>1, <1>8, <2>1, <2>2, AfterStep
  <2> QED
    BY <1>1, <1>6, <1>7, <2>2, <2>3, <2>4, <2>5, <2>6, <2>7 DEF IInv
<1>10. CASE ~MoreOld
  <2>1. i' = 0 /\ old' = NewTable(0) /\ OLD_HASH_SIZE' = 0 /\ i + 1 = OLD_HASH_SIZE
    BY <1>1, <1>10 DEF Reinsert, MoreOld
  <2>2. ~Growing' /\ Sizes'
    BY <1>1, <2>1 DEF Growing, IInv, Sizes
  <2>3. /\ Shape(NewTable(0), 0) /\ Findable(NewTable(0), 0)
    BY NewTableEmpty
  <2>4. KeysFindable'
    BY <1>1, <1>2, <2>1, <2>3, AfterStep
  <2>5. Shape(old, OLD_HASH_SIZE)'
    BY <2>1, <2>3 DEF Shape, Slots, Entry
  <2>6. ASSUME NEW k \in Keys
        PROVE  Lookup(data', k, n) = Lookup(old, k, OLD_HASH_SIZE)
    <3>1. CASE \E j \in Slots(OLD_HASH_SIZE) : ~old[j].empty /\ old[j].key = k
      <4>1. PICK j \in Slots(OLD_HASH_SIZE) : ~old[j].empty /\ old[j].key = k
        BY <3>1
      <4>2. Lookup(old, k, OLD_HASH_SIZE) = old[j].value
        BY <1>1, <4>1, LookupEntry
      <4> QED
        BY <1>2, <2>1, <4>1, <4>2
    <3>2. CASE \A j \in Slots(OLD_HASH_SIZE) : old[j].empty \/ old[j].key # k
      <4>1. Lookup(old, k, OLD_HASH_SIZE) = NULL
        BY <1>1, <3>2, LookupNothing
      <4>2. \A s \in Slots(n) : data'[s].empty \/ data'[s].key # k
        BY <1>2, <2>1, <3>2
      <4>3. Lookup(data', k, n) = NULL
        BY <1>1, <4>2, LookupNothing
      <4> QED
        BY <4>1, <4>3
    <3> QED
      BY <3>1, <3>2
  <2>7. Contents' = Contents
    BY <1>1, <1>8, <2>2, <2>6, AfterStep
  <2> QED
    BY <1>1, <1>6, <1>7, <2>2, <2>4, <2>5, <2>7 DEF IInv, NoGrowthWhileGrowing
<1> QED
  BY <1>9, <1>10

-----------------------------------------------------------------------------
(* The theorems.                                                           *)

(* Every step keeps the invariant and is a step of the map, or none.       *)
LEMMA InvStep ==
  ASSUME IInv, [Next]_vars
  PROVE  IInv' /\ [Abstract!MapNext]_Contents
<1>1. CASE Read \/ UNCHANGED vars
  <2>1. UNCHANGED vars
    BY <1>1 DEF Read
  <2>2. IInv'
    <3>1. KeysFindable' /\ (MovedSoFar => MovedSoFar')
      BY <2>1, AfterStep DEF vars, IInv, KeysFindable, MovedSoFar
    <3> QED
      BY <2>1, <3>1 DEF vars, IInv, Sizes, Shape, SparseEnough, Occupied,
                        NoGrowthWhileGrowing, Crowded, Growing, Slots, Entry
  <2>3. Contents' = Contents
    BY <2>1, AfterStep DEF vars, Contents, Growing
  <2> QED
    BY <2>2, <2>3
<1>2. CASE \E k \in Keys, v \in Values : Assign(k, v)
  BY <1>2, InvAssign DEF Abstract!MapNext, Abstract!Put
<1>3. CASE \E k \in Keys, v \in Values : InsertNew(k, v)
  BY <1>3, InvInsert DEF Abstract!MapNext, Abstract!Put
<1>4. CASE Reinsert
  BY <1>4, InvReinsert
<1> QED
  BY <1>1, <1>2, <1>3, <1>4 DEF Next

LEMMA Invariance == Spec => []IInv
<1>1. Init => IInv
  BY InvInit
<1>2. IInv /\ [Next]_vars => IInv'
  BY InvStep
<1> QED
  BY <1>1, <1>2, PTL DEF Spec

(* Whatever was inserted is found where findu looks, and only there, also  *)
(* in both tables while one grows.                                         *)
THEOREM AlwaysFindable == Spec => []KeysFindable
<1>1. IInv => KeysFindable
  BY DEF IInv
<1> QED
  BY <1>1, Invariance, PTL

(* The table counts its entries and is never more than a quarter full:     *)
(* every probe of findu ends.                                              *)
THEOREM AlwaysSparse == Spec => []SparseEnough
<1>1. IInv => SparseEnough
  BY DEF IInv
<1> QED
  BY <1>1, Invariance, PTL

(* inc_used never calls itself by way of insert_or_assign.                 *)
THEOREM GrowthNeverNested == Spec => []NoGrowthWhileGrowing
<1>1. IInv => NoGrowthWhileGrowing
  BY DEF IInv
<1> QED
  BY <1>1, Invariance, PTL

(* The table is a map: each operation changes it at one moment, and growing*)
(* does not change it at all.                                              *)
THEOREM MapRefinement == Spec => ImplementsMap
<1>1. Init => Abstract!MapInit
  BY InvInit DEF Abstract!MapInit
<1>2. IInv /\ [Next]_vars => [Abstract!MapNext]_Contents
  BY InvStep
<1> QED
  BY <1>1, <1>2, Invariance, PTL DEF Spec, ImplementsMap, Abstract!MapSpec
=============================================================================
