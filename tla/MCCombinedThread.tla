-------------------------- MODULE MCCombinedThread --------------------------
(* The combined thread and three others.                                     *)
EXTENDS CombinedThread

CONSTANTS t1, t2, t3

ThreeThreads == {t1, t2, t3}

(* No property says anything of what follows a miscount.                   *)
StillCounting == ~miscounted
=============================================================================
