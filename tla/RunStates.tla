----------------------------- MODULE RunStates -----------------------------
(***************************************************************************)
(* What the control plane promises of the runs of one loop, without saying *)
(* how: every run moves along the transition table and nowhere else, and   *)
(* the runs of a loop are serial, so that a run only begins when the       *)
(* earlier ones have come to an end.                                       *)
(***************************************************************************)
EXTENDS RunStateTable

CONSTANT Runs

VARIABLE state   \* the persisted state of each run, "none" before the first

Ended == {"none", "complete", "failed", "discarded"}

Init == state = [r \in Runs |-> "none"]

\* The first snapshot of a run may already show what its first turn came to.
Begin(r) ==
    /\ state[r] = "none"
    /\ \A q \in Runs \ {r} : state[q] \in Ended
    /\ \E s \in RunState :
          /\ s = "active" \/ <<"active", s>> \in LegalTransitions
          /\ state' = [state EXCEPT ![r] = s]

Move(r) ==
    \E s \in RunState :
        /\ <<state[r], s>> \in LegalTransitions
        /\ state' = [state EXCEPT ![r] = s]

Next == \E r \in Runs : Begin(r) \/ Move(r)

Spec == Init /\ [][Next]_state
=============================================================================
