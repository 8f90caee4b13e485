-------------------------- MODULE MCWorkerSessions --------------------------
(* Small instances of WorkerSessions for TLC. *)
EXTENDS WorkerSessions, TLC

CONSTANTS d1, d2, q, h

\* One of each way into the worker that looks before it takes it.
PoliteKinds == d1 :> "duplex" @@ d2 :> "duplex" @@ q :> "chat_ws" @@ h :> "chat"

\* The sessions that last, in each other's way.
HalfKinds == d1 :> "duplex" @@ h :> "half_duplex"
PairKinds == d1 :> "duplex" @@ d2 :> "duplex"

DuplexSymmetry == Permutations({d1, d2})
=============================================================================
