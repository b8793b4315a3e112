-------------------------- MODULE MCSessionProcess --------------------------
(* SessionProcess for TLC: the tool calls are one that every mode but bypass *)
(* puts before the user, and one that every mode does and that changes the   *)
(* mode when it is approved.                                                 *)
EXTENDS SessionProcess, TLC

CONSTANTS r1, r2, m1, m2

MCRequests1 == {r1}
MCRequests2 == {r1, r2}
MCMessages1 == {m1}
MCMessages2 == {m1, m2}

Call(tool) == [name |-> tool, planFile |-> FALSE]

MCToolOf1 == r1 :> Call("Bash")
MCToolOf2 == r1 :> Call("Bash") @@ r2 :> Call("ExitPlanMode")

SafetyFeatures == AllFeatures
LiveFeatures == {"hold", "defer", "kill", "liveness", "steer"}
HoldFeatures == {"hold"}
KillFeatures == {"kill"}
NoFeatures == {}

MessageSymmetry == Permutations(Messages)
=============================================================================
