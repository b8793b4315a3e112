---------------------------- MODULE MCRunControl ----------------------------
(* RunControl for TLC: one or two runs of a loop and the operations in use.  *)
EXTENDS RunControl, TLC

CONSTANTS r1, r2, t1, t2, c1, c2, c3, b1

\* One call at a time: everything that a person answers, and the timers.
SerialOps == {"approve", "reject", "pause", "advance_subtask", "patch_resume",
              "supplement", "usage", "abandon", "merge", "intent_gate"}

\* Calls that come while the run is working, and exceptions.
OverlapOps == {"approve", "reject", "patch_pause",
               "patch_resume", "discard", "remind", "abandon", "throws"}

PauseOps   == {"patch_pause"}
AdvanceOps == {"advance_subtask"}
SupplementOps == {"supplement"}

\* A run whose turn threw after its judgment, and another one that waits.
MisaddressOps == {"approve", "reject", "throws"}

NoOps == {}

Limits(turns, retries, spent) == [turns |-> turns, retries |-> retries, spent |-> spent]

\* A person gives turns and time, or only retries, or takes the retries away.
MCSupplements == {Limits(3, 1, FALSE), Limits(3, Kept, TRUE), Limits(1, 0, FALSE)}

\* A person gives a retry to a run that has no turns left.
MCOnlyRetries == {Limits(Kept, 2, Kept)}

TaskSymmetry == Permutations({t1, t2})
=============================================================================
