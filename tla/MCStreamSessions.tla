-------------------------- MODULE MCStreamSessions --------------------------
(* Two sessions for TLC. *)
EXTENDS StreamSessions

CONSTANTS s1, s2
=============================================================================
