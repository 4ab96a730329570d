------------------------------ MODULE MCPEvents ------------------------------
(* Two threads that wait, two that set.  Those that wait for several events*)
(* name them in the same order; one wait for any of several has auto-reset *)
(* events, the other both kinds and a finite timeout.                      *)
EXTENDS PEvents, TLC

CONSTANTS a, b, c, d, e1, e2, m, w1, w2

WaitFor(event, time) == [fn |-> "WaitForEvent", event |-> event, milliseconds |-> time]
Multiple(events, all, time) ==
  [fn |-> "WaitForMultipleEvents", events |-> events, waitAll |-> all, milliseconds |-> time]
Do(fn, event) == [fn |-> fn, event |-> event]

Calling ==
  a :> {Multiple(<<e1, e2>>, TRUE, "infinite"), WaitFor(e1, "infinite"), WaitFor(m, "finite")}
    @@ b :> {Multiple(<<e1, e2>>, FALSE, "infinite"), Multiple(<<e1, m>>, FALSE, "finite")}
    @@ c :> {Do("SetEvent", e1), Do("PulseEvent", m)}
    @@ d :> {Do("SetEvent", e2), Do("DestroyEvent", e2), Do("ResetEvent", m)}

Storage == Permutations(Wfmos)
=============================================================================
