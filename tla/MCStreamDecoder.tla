-------------------------- MODULE MCStreamDecoder --------------------------
(* StreamDecoder for TLC: its constants are numbers and small sets of numbers, *)
(* which the configurations give; LastUnit and Room make it finite.            *)
EXTENDS StreamDecoder
=============================================================================
