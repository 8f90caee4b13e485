------------------------- MODULE MCSessionRecorder -------------------------
(* SessionRecorder for TLC: two sessions that end at once can hold both threads. *)
EXTENDS SessionRecorder

CONSTANTS s1, s2, t1, t2
=============================================================================
