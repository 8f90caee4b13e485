------------------------- MODULE MCStreamingSession -------------------------
(* StreamingSession for TLC: what cannot be written in a configuration. *)
EXTENDS StreamingSession

\* A text that is encoded again may lose a token, or gain one more than the opening
\* tokens make up for.
Drifts == {-1, 2}
=============================================================================
