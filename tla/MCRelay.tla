------------------------------ MODULE MCRelay -------------------------------
(* Relay for TLC: a server and its rival, two phones.                       *)
EXTENDS Relay, TLC

CONSTANTS v1, v2, p1, p2, s1, s2, s3, c1, c2

MCHolder == s1 :> v1 @@ s2 :> v1 @@ s3 :> v1 @@ c1 :> p1 @@ c2 :> p2

\* The server alone, for the temporal property.
MCHolder0 == s1 :> v1 @@ s2 :> v1 @@ s3 :> v1
=============================================================================
