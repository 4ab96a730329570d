------------------------- MODULE CollectableHashTable -------------------------
(***************************************************************************)
(* CollectableHashTable<K, V> (CollectableHash.h): open addressing with    *)
(* linear probing.  An insertion that makes the table more than a quarter  *)
(* full doubles it and inserts every entry again, one per turn of a loop   *)
(* that passes a safe point each time.  The pointers of the table are      *)
(* stored through the write barrier like any others (SnapshotHeap); here   *)
(* it is the table itself that has to come out right.                      *)
(*                                                                         *)
(* No program can delete from this table: erase assigns nullptr to an      *)
(* InstancePtr, whose constructors are all explicit and whose operators =  *)
(* do not take it, and so does not compile where it is used.  Hence skip   *)
(* and wasted, which only erase sets, stay false and 0, recover stays null,*)
(* and none of them is here.                                               *)
(***************************************************************************)
EXTENDS Integers, FiniteSets

CONSTANTS
  Keys, Values,  \* collectables; a value may be the null pointer, a key not
  NULL,          \* the null pointer a key is in an entry without one
  InitialSize,   \* INITIAL_HASH_SIZE, or the constructor's argument
  Hashes         \* the hash codes that occur

(* "The table length has to be a power of 2": the masks of findu are the   *)
(* remainders below.  One entry alone would have to grow again while the   *)
(* table grows.                                                            *)
ASSUME TableAssumption ==
  /\ IsFiniteSet(Keys) /\ NULL \notin Keys \cup Values
  /\ InitialSize \in Nat /\ InitialSize >= 2
  /\ \E exponent \in 1 .. InitialSize : InitialSize = 2 ^ exponent
  /\ Hashes \subseteq Nat

VARIABLES
  hash,           \* Collectable::hash of every key
  HASH_SIZE, used,
  data,           \* the entries
  old, OLD_HASH_SIZE,  \* while the table grows: the entries it had before
  i               \* and the next of them to be inserted again

vars == <<hash, HASH_SIZE, used, data, old, OLD_HASH_SIZE, i>>

Entry == [empty : BOOLEAN, key : Keys \cup {NULL}, value : Values \cup {NULL}]
NewEntry == [empty |-> TRUE, key |-> NULL, value |-> NULL]
Slots(n) == 0 .. n - 1
NewTable(n) == [s \in Slots(n) |-> NewEntry]

Growing == OLD_HASH_SIZE > 0

Init ==
  /\ hash \in [Keys -> Hashes]
  /\ HASH_SIZE = InitialSize
  /\ used = 0
  /\ data = NewTable(InitialSize)
  /\ old = NewTable(0)
  /\ OLD_HASH_SIZE = 0
  /\ i = 0

-----------------------------------------------------------------------------
(* findu.                                                                  *)

(* The slot d steps after the one the key's hash selects, of n slots.      *)
Slot(k, d, n) ==
  LET start == hash[k] % n
  IN  IF start + d < n THEN start + d ELSE start + d - n

(* The probe stops at an empty entry and at the key.                       *)
Stops(e, k) == e.empty \/ e.key = k

(* It stops d steps from the start, and not before.                        *)
Reaches(table, k, d, n) ==
  /\ Stops(table[Slot(k, d, n)], k)
  /\ \A c \in Slots(d) : ~Stops(table[Slot(k, c, n)], k)

Finds(table, k, n) ==
  \E d \in Slots(n) : Reaches(table, k, d, n) /\ ~table[Slot(k, d, n)].empty

(* contains and operator[]: NULL where contains is FALSE.                  *)
Lookup(table, k, n) ==
  IF Finds(table, k, n)
  THEN table[Slot(k, CHOOSE d \in Slots(n) : Reaches(table, k, d, n), n)].value
  ELSE NULL

(* pair->key = key; pair->value = value; pair->empty = false.              *)
Filled(k, v, d) ==
  [data EXCEPT ![Slot(k, d, HASH_SIZE)] = [empty |-> FALSE, key |-> k, value |-> v]]

-----------------------------------------------------------------------------
(* inc_used.                                                               *)

(* Mutant: grows when it is more than half full.                           *)
Crowded_Half(u, n) == 2 * u > n
Crowded(u, n) == 4 * u > n

FirstOld == 0

(* Mutants: inc_used counts on from what it was, and the entries stay where*)
(* they are in the larger table.                                           *)
Grow_KeepsUsed(table) ==
  /\ old' = table
  /\ OLD_HASH_SIZE' = HASH_SIZE
  /\ HASH_SIZE' = 2 * HASH_SIZE
  /\ data' = NewTable(2 * HASH_SIZE)
  /\ used' = used + 1
  /\ i' = 0
Grow_InPlace(table) ==
  /\ HASH_SIZE' = 2 * HASH_SIZE
  /\ data' = [s \in Slots(2 * HASH_SIZE) |-> IF s < HASH_SIZE THEN table[s] ELSE NewEntry]
  /\ used' = used + 1
  /\ UNCHANGED <<old, OLD_HASH_SIZE, i>>

Grow(table) ==
  /\ old' = table
  /\ OLD_HASH_SIZE' = HASH_SIZE
  /\ HASH_SIZE' = 2 * HASH_SIZE
  /\ data' = NewTable(2 * HASH_SIZE)
  /\ used' = 0
  /\ i' = FirstOld

(* insert, and insert_or_assign, of a key that is not there.               *)
InsertNew(k, v) ==
  /\ ~Growing
  /\ \E d \in Slots(HASH_SIZE) :
       /\ Reaches(data, k, d, HASH_SIZE) /\ data[Slot(k, d, HASH_SIZE)].empty
       /\ IF Crowded(used + 1, HASH_SIZE)
          THEN Grow(Filled(k, v, d))
          ELSE /\ data' = Filled(k, v, d)
               /\ used' = used + 1
               /\ UNCHANGED <<HASH_SIZE, old, OLD_HASH_SIZE, i>>
  /\ UNCHANGED hash

(* insert_or_assign of a key that is there.                                *)
Assign(k, v) ==
  /\ ~Growing
  /\ \E d \in Slots(HASH_SIZE) :
       LET s == Slot(k, d, HASH_SIZE) IN
       /\ Reaches(data, k, d, HASH_SIZE) /\ ~data[s].empty
       /\ data' = [data EXCEPT ![s] = [@ EXCEPT !.value = v]]
  /\ UNCHANGED <<hash, HASH_SIZE, used, old, OLD_HASH_SIZE, i>>

MoreOld == i + 1 < OLD_HASH_SIZE

(* One turn of the loop, after its safe point.  The insertion calls        *)
(* inc_used, too, but see NoGrowthWhileGrowing.                            *)
Reinsert ==
  /\ Growing
  /\ LET e == old[i] IN
       IF e.empty THEN UNCHANGED <<data, used>>
       ELSE /\ \E d \in Slots(HASH_SIZE) :
                 Reaches(data, e.key, d, HASH_SIZE) /\ data' = Filled(e.key, e.value, d)
            /\ used' = used + 1
  /\ IF MoreOld
     THEN i' = i + 1 /\ UNCHANGED <<old, OLD_HASH_SIZE>>
     ELSE i' = 0 /\ old' = NewTable(0) /\ OLD_HASH_SIZE' = 0
  /\ UNCHANGED <<hash, HASH_SIZE>>

(* contains, operator[] and size change nothing.                           *)
Read == ~Growing /\ UNCHANGED vars

Next ==
  \/ Read
  \/ \E k \in Keys, v \in Values : Assign(k, v) \/ InsertNew(k, v)
  \/ Reinsert

Spec == Init /\ [][Next]_vars

-----------------------------------------------------------------------------
(* Properties.                                                             *)

(* Every key in the table is where findu comes to when it looks for it, and*)
(* no key is there twice: none is lost behind another one's entry, neither *)
(* among the entries that an insertion finds nor, while inc_used moves them*)
(* one by one, among those moved and those still to be moved.              *)
Findable(table, n) ==
  \A s \in Slots(n) : ~table[s].empty =>
    \E d \in Slots(n) : s = Slot(table[s].key, d, n) /\ Reaches(table, table[s].key, d, n)
KeysFindable == Findable(data, HASH_SIZE) /\ Findable(old, OLD_HASH_SIZE)

(* "stays at least 4 times as big as the number of elements": used counts  *)
(* the entries, also after each step of growing, and the table is never    *)
(* more than a quarter full.  So a probe always ends at an empty entry,    *)
(* and findu never leaves an insertion without one.                        *)
Occupied(table, n) == {s \in Slots(n) : ~table[s].empty}
SparseEnough ==
  /\ used = Cardinality(Occupied(data, HASH_SIZE))
  /\ 4 * used <= HASH_SIZE

(* An entry inserted again while the table grows never makes it grow a     *)
(* second time: growing is never nested in growing.                        *)
NoGrowthWhileGrowing ==
  Growing => /\ 2 * OLD_HASH_SIZE = HASH_SIZE
             /\ ~Crowded(used + Cardinality({s \in i .. OLD_HASH_SIZE - 1 : ~old[s].empty}),
                         HASH_SIZE)

(* Every operation takes effect at one moment on the map the table stands  *)
(* for: while it grows the old entries, which no operation can see, still  *)
(* have all of it, and when it has grown the new ones do.                  *)
Contents == [k \in Keys |-> IF Growing THEN Lookup(old, k, OLD_HASH_SIZE)
                            ELSE Lookup(data, k, HASH_SIZE)]
Abstract == INSTANCE KeyValueMap WITH map <- Contents, MISSING <- NULL
ImplementsMap == Abstract!MapSpec
=============================================================================
