--------------------------- MODULE MCSpeechStream ---------------------------
(* SpeechStream for TLC: small chunks in the proportions of the code's. *)
EXTENDS SpeechStream
=============================================================================
