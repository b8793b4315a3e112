---------------------------- MODULE MCSupervisor ----------------------------
(* Supervisor for TLC: two calls that create sessions, two that resume an    *)
(* old session and one that sends a message to it.                           *)
EXTENDS Supervisor, TLC

CONSTANTS c1, c2, c3, c4, c5, s1, s2, old

MCSessions == {s1, s2, old}

MCCalls == {c1, c2, c3, c4, c5}
MCKindOf == c1 :> "start" @@ c2 :> "start" @@ c3 :> "resume"
            @@ c4 :> "resume" @@ c5 :> "send"
MCSessionOf == c1 :> s1 @@ c2 :> s2 @@ c3 :> old @@ c4 :> old @@ c5 :> old
=============================================================================
