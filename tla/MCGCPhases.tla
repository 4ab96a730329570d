----------------------------- MODULE MCGCPhases -----------------------------
(* Instances of GCPhases for TLC.                                          *)
EXTENDS GCPhases, TLC

CONSTANTS t1, t2, t3

TwoThreads   == {t1, t2}
ThreeThreads == {t1, t2, t3}

(* No property but TypeOK, which is proved, says anything of a state in    *)
(* which the word lost count, or of what follows it (miscounted is never   *)
(* reset): TLC need not go on there.                                       *)
StillCounting == ~miscounted

(* One thread nests its opt-outs; what is nested touches nothing shared.   *)
OneNests == \A t \in Threads \ {t1} : NotMutatingCount[t] =< 1
=============================================================================
