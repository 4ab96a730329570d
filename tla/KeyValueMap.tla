----------------------------- MODULE KeyValueMap -----------------------------
(***************************************************************************)
(* What a hash table of CollectableHash.h promises: a map from keys to     *)
(* values that each operation changes at one moment.                       *)
(***************************************************************************)
CONSTANTS Keys, Values, MISSING

VARIABLE map

MapInit == map = [k \in Keys |-> MISSING]

Put(k, v) == map' = [map EXCEPT ![k] = v]

MapNext == \E k \in Keys, v \in Values : Put(k, v)

MapSpec == MapInit /\ [][MapNext]_map
=============================================================================
