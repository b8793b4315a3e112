--------------------------- MODULE RunStateTable ---------------------------
(* loop/control-plane/state-machine.ts: the states of a loop run and the     *)
(* transitions that assertLegalTransition() accepts.                         *)

RunState == {"active", "complete", "retry", "needs_human", "failed",
             "paused", "budget_limited", "discarded"}

LegalTransitions ==
    ({"active"} \X {"complete", "retry", "needs_human", "paused", "failed",
                    "budget_limited", "discarded"})
    \cup ({"retry", "paused", "budget_limited"} \X {"active", "discarded"})
    \cup ({"needs_human"} \X {"active", "failed", "paused", "discarded"})
    \cup ({"complete", "failed"} \X {"discarded"})

\* What a run is while somebody, or something, will still work on it by itself.
InFlight == {"active", "retry"}

\* The blocking family: the run waits for a person, with its registration kept.
Blocked == {"needs_human", "paused", "budget_limited"}
=============================================================================
