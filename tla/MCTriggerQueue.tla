--------------------------- MODULE MCTriggerQueue ---------------------------
(* TriggerQueue for TLC: a loop with a schedule, a manual trigger, events   *)
(* with and without the ids they need, and one that resumes a run.         *)
EXTENDS TriggerQueue, TLC

CONSTANTS l1, e1, e2, e3, e4, t1, t2

MCHome == [e \in External |-> l1]
=============================================================================
