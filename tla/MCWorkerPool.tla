---------------------------- MODULE MCWorkerPool ----------------------------
(* A small instance of WorkerPool for TLC. *)
EXTENDS WorkerPool, TLC

CONSTANTS c1, c2, c3

\* Clients of both ways of waiting: with the disconnect poll and with the queue
\* notifications.
MixedEndpoints == c1 :> "chat" @@ c2 :> "duplex" @@ c3 :> "chat"
=============================================================================
