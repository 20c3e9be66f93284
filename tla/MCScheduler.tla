---------------------------- MODULE MCScheduler -----------------------------
(* The scheduler with three threads, two domains and three priorities, two *)
(* of which share a word of the bitmap.                                    *)
EXTENDS Scheduler, TLC

CONSTANTS t1, t2, t3

MCThreads == {t1, t2, t3}

MCSteps == {0, 1}

\* One thread above the initial one and one below it
MCInitPriorities == {t1 :> 1 @@ t2 :> 0 @@ t3 :> 2}
=============================================================================
