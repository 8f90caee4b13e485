-------------------------- MODULE MCSessionCleanup --------------------------
(* SessionCleanup for TLC: sessions are alike, and so are threads. *)
EXTENDS SessionCleanup

CONSTANTS s1, s2, t1, t2

Alike == Permutations({s1, s2}) \cup Permutations({t1, t2})
=============================================================================
