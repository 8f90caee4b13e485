---------------------------- MODULE MCHalfDuplex ----------------------------
(* HalfDuplex for TLC: pieces of audio that do not end where windows do. *)
EXTENDS HalfDuplex
=============================================================================
