------------------------------ MODULE NodeLists ------------------------------
(***************************************************************************)
(* What the scan lists promise the collector: for every thread slot a set  *)
(* of nodes created since the lists were last turned round, and a set of   *)
(* those that it is looking through.                                       *)
(***************************************************************************)
CONSTANTS Slots, Nodes

VARIABLES
  active,     \* of each slot: where new nodes go
  snapshot    \* of each slot: what the collector sweeps

nodeVars == <<active, snapshot>>

NodeInit ==
  /\ active = [i \in Slots |-> {}]
  /\ snapshot = [i \in Slots |-> {}]

Add(i, n) ==
  /\ \A j \in Slots : n \notin active[j] \cup snapshot[j]
  /\ active' = [active EXCEPT ![i] = @ \cup {n}]
  /\ UNCHANGED snapshot

Turn == active' = snapshot /\ snapshot' = active

Drop(i, n) ==
  /\ n \in snapshot[i]
  /\ snapshot' = [snapshot EXCEPT ![i] = @ \ {n}]
  /\ UNCHANGED active

(* What survived goes back to the others, except a node that is alone.     *)
Merge(i) ==
  /\ \A n \in Nodes : snapshot[i] # {n}
  /\ active' = [active EXCEPT ![i] = @ \cup snapshot[i]]
  /\ snapshot' = [snapshot EXCEPT ![i] = {}]

NodeNext ==
  \/ Turn
  \/ \E i \in Slots : Merge(i) \/ \E n \in Nodes : Add(i, n) \/ Drop(i, n)

NodeSpec == NodeInit /\ [][NodeNext]_nodeVars
=============================================================================
