------------------------- MODULE MCClientConnection -------------------------
(* ClientConnection for TLC. *)
EXTENDS ClientConnection, TLC

CONSTANTS s1, s2, s3, q1, q2, q3
=============================================================================
