---------------------------- MODULE LeaseService ----------------------------
(***************************************************************************)
(* What the gateway promises of its worker pool, without queue tickets,    *)
(* statuses, health checks or connections: clients lease workers, one each *)
(* and each worker to one client, and those that wait are served first     *)
(* come, first served ("unified FIFO queue, one dispatch point", the       *)
(* docstring of WorkerPool).  WorkerPool implements it.                    *)
(***************************************************************************)
EXTENDS Naturals, Sequences

CONSTANTS
  Worker,    \* what is leased
  Client,    \* who leases
  Capacity,  \* how many may wait
  None       \* no lease

VARIABLES
  waiting,   \* the clients that wait, the next one to be served first
  lease      \* lease[c]: the worker that client c holds, or None

vars == <<waiting, lease>>

Waits(c) == \E i \in 1..Len(waiting) : waiting[i] = c
Free(l)  == {w \in Worker : \A c \in Client : l[c] # w}

Init ==
  /\ waiting = <<>>
  /\ lease = [c \in Client |-> None]

\* The first n of q are served at once, each with a free worker of its own; the
\* rest go on waiting in the order they stood in.
Serve(q, l) ==
  \E n \in 0..Len(q) : \E f \in [1..n -> Free(l)] :
    /\ \A i, j \in 1..n : f[i] = f[j] => i = j
    /\ waiting' = [i \in 1..(Len(q) - n) |-> q[i + n]]
    /\ lease' = [c \in Client |-> IF \E i \in 1..n : q[i] = c
                                  THEN f[CHOOSE i \in 1..n : q[i] = c]
                                  ELSE l[c]]

\* A newcomer takes a free worker, or waits behind everybody.
Take(c) ==
  /\ ~Waits(c)
  /\ lease[c] = None
  /\ \E w \in Free(lease) : lease' = [lease EXCEPT ![c] = w]
  /\ UNCHANGED waiting

Enter(c) ==
  /\ ~Waits(c)
  /\ lease[c] = None
  /\ Len(waiting) < Capacity
  /\ waiting' = Append(waiting, c)
  /\ UNCHANGED lease

\* One of those that wait gives up.
Leave(k) ==
  Serve([i \in 1..(Len(waiting) - 1) |-> IF i < k THEN waiting[i] ELSE waiting[i + 1]],
        lease)

\* A lease ends.
Return(c) ==
  /\ lease[c] # None
  /\ Serve(waiting, [lease EXCEPT ![c] = None])

\* The service closes: nobody waits any more, the leases run on.
Close ==
  /\ waiting' = <<>>
  /\ UNCHANGED lease

Next ==
  \/ \E c \in Client : Take(c) \/ Enter(c) \/ Return(c)
  \/ \E k \in 1..Len(waiting) : Leave(k)
  \/ Serve(waiting, lease)
  \/ Close

Spec == Init /\ [][Next]_vars
=============================================================================
