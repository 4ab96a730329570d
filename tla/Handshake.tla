------------------------------ MODULE Handshake ------------------------------
(***************************************************************************)
(* What the phase protocol of GCState.cpp promises, without its counters:  *)
(* the collector announces a phase, every mutator adopts it at a moment of *)
(* its own choosing and parks, and only when nobody acts under the old     *)
(* phase any more does the collector turn the lists round and open the     *)
(* gate.  GCPhases implements this; SnapshotHeap is built on it.           *)
(***************************************************************************)
EXTENDS Naturals

CONSTANT Threads

NOT_MUTATING       == "NOT_MUTATING"
NOT_COLLECTING     == "NOT_COLLECTING"
COLLECTING         == "COLLECTING"
RESTORING_SNAPSHOT == "RESTORING_SNAPSHOT"

Phase  == {NOT_COLLECTING, COLLECTING, RESTORING_SNAPSHOT}
Regime == Phase \cup {NOT_MUTATING}

Succ(p) == IF p = NOT_COLLECTING THEN COLLECTING
           ELSE IF p = COLLECTING THEN RESTORING_SNAPSHOT
           ELSE NOT_COLLECTING
Pred(p) == Succ(Succ(p))

VARIABLES
  phase,     \* the phase last announced
  gate,      \* "closed" once announced, "turned" when all have gathered
  regime,    \* the phase each thread acts under, or NOT_MUTATING
  parked,    \* the threads that wait at the gate
  index      \* which list of each pair takes new objects

handshakeVars == <<phase, gate, regime, parked, index>>

Gate == {"open", "closed", "turned"}

HandshakeInit ==
  /\ phase = NOT_COLLECTING
  /\ gate = "open"
  /\ regime = [t \in Threads |-> NOT_MUTATING]
  /\ parked = {}
  /\ index = 0

Mutating == {t \in Threads : regime[t] # NOT_MUTATING}
Active(t) == regime[t] # NOT_MUTATING /\ t \notin parked

-----------------------------------------------------------------------------
(* The collector moves on only when everybody has followed.                *)
Announce ==
  /\ gate = "open"
  /\ \A t \in Mutating : regime[t] = phase
  /\ phase' = Succ(phase)
  /\ gate' = "closed"
  /\ UNCHANGED <<regime, parked, index>>

Turn ==
  /\ gate = "closed"
  /\ \A t \in Mutating : regime[t] = phase /\ t \in parked
  /\ gate' = "turned"
  /\ index' = IF phase = COLLECTING THEN 1 - index ELSE index
  /\ UNCHANGED <<phase, regime, parked>>

Open ==
  /\ gate = "turned"
  /\ gate' = "open"
  /\ UNCHANGED <<phase, regime, parked, index>>

-----------------------------------------------------------------------------
Join(t) ==
  /\ regime[t] = NOT_MUTATING
  /\ regime' = [regime EXCEPT ![t] = phase]
  /\ parked' = parked \cup {t}
  /\ UNCHANGED <<phase, gate, index>>

Adopt(t) ==
  /\ Active(t)
  /\ regime[t] = Pred(phase)
  /\ regime' = [regime EXCEPT ![t] = phase]
  /\ parked' = parked \cup {t}
  /\ UNCHANGED <<phase, gate, index>>

(* A thread that parked for an earlier, finished border may leave late.    *)
Resume(t) ==
  /\ t \in parked
  /\ regime[t] = phase => gate = "open"
  /\ parked' = parked \ {t}
  /\ UNCHANGED <<phase, gate, regime, index>>

Part(t) ==
  /\ Active(t)
  /\ regime' = [regime EXCEPT ![t] = NOT_MUTATING]
  /\ UNCHANGED <<phase, gate, parked, index>>

HandshakeNext ==
  \/ Announce \/ Turn \/ Open
  \/ \E t \in Threads : Join(t) \/ Adopt(t) \/ Resume(t) \/ Part(t)

HandshakeSpec == HandshakeInit /\ [][HandshakeNext]_handshakeVars
=============================================================================
