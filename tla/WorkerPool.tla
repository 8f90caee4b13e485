----------------------------- MODULE WorkerPool -----------------------------
(***************************************************************************)
(* The gateway's worker pool (gateway/worker_pool.py) together with the    *)
(* endpoint handlers of server/gateway.py that lease workers from it.      *)
(*                                                                         *)
(* The gateway is one asyncio event loop.  Code between two awaits is      *)
(* atomic, so an action here is exactly one such stretch: it starts where  *)
(* a coroutine is resumed and ends at its next await (or at its return).   *)
(* What other coroutines and the clients do while a handler is suspended   *)
(* is what makes the pool hard to test.                                    *)
(*                                                                         *)
(* A client makes one request at a time and may come back for ever.  Its   *)
(* QueueTicket, its asyncio.Future and its handler coroutine are the       *)
(* components future[c], position[c] and pc[c].                            *)
(***************************************************************************)
EXTENDS Naturals, Sequences

CONSTANTS
  Worker,      \* the workers, by index: worker_id is "worker_<i>"
  Client,      \* the clients (each is one connection at a time)
  Endpoint,    \* Endpoint[c]: the endpoint client c calls
  MaxQueue,    \* max_queue_size
  Replies,     \* what a /health probe may come back with
  None,        \* no request in progress
  Pending,     \* the future is not done
  Cancelled    \* the future was cancelled

Statuses == {"idle", "busy_chat", "busy_half_duplex", "duplex_active",
             "duplex_paused", "loading", "error", "offline"}
Endpoints == {"chat", "chat_ws", "half_duplex", "duplex", "realtime"}

\* The WebSocket endpoints that tell the client about its place in the queue,
\* and therefore await a send while their ticket is queued or just granted.
Exclusive == {"half_duplex", "duplex", "realtime"}

\* The endpoint whose relay has no time limit of its own: /ws/duplex passes frames
\* on until one side closes.  (/api/chat has a request timeout, /ws/chat relays
\* one answer, a half-duplex session its timeout_s, /v1/realtime a watchdog.)
Unlimited == {"duplex"}

\* What a future can be other than a worker.
NoGrant == {None, Pending, Cancelled}

ASSUME WorkerAssumption   == Worker \subseteq Nat
ASSUME NoGrantAssumption  == /\ NoGrant \cap Worker = {}
                             /\ None # Pending /\ None # Cancelled
                             /\ Pending # Cancelled
ASSUME EndpointAssumption == Endpoint \in [Client -> Endpoints]
ASSUME QueueAssumption    == MaxQueue \in Nat
ASSUME RepliesAssumption  == Replies \subseteq Statuses

VARIABLES
  status,      \* WorkerConnection.status, the gateway's view of the worker
  dispatched,  \* WorkerConnection._gateway_dispatched
  queue,       \* WorkerPool._queue, the waiting clients in insertion order
  position,    \* QueueTicket.position of a queued client (0: not queued)
  future,      \* the request's future: None, Pending, Cancelled or its worker
  pc,          \* where the client's handler is suspended
  connected,   \* whether the client still holds its end of the connection
  phase,       \* where the health check task is
  probing      \* the workers whose /health reply this round still awaits

poolVars    == <<status, dispatched, queue, position>>
handlerVars == <<future, pc, connected>>
healthVars  == <<phase, probing>>
vars        == <<poolVars, handlerVars, healthVars>>

\* "away"        no handler
\* "waiting"     in wait_for(shield(future)), for at most 2 or 3 seconds
\* "notifying"   in ws.send_json of "queued" or "queue_update"
\* "announcing"  in ws.send_json of "queue_done", its worker already granted
\* "serving"     inside the try block that proxies to the worker
Locations == {"away", "waiting", "notifying", "announcing", "serving"}

\* "starting": start() awaits the first refresh, requests are not accepted yet.
\* "stopping": stop() has cancelled the health check task and awaits its end and
\* that of the HTTP client.
Phases == {"starting", "sleeping", "refreshing", "stopping", "stopped"}

TypeOK ==
  /\ status \in [Worker -> Statuses]
  /\ dispatched \in [Worker -> BOOLEAN]
  /\ queue \in Seq(Client)
  /\ position \in [Client -> Nat]
  /\ future \in [Client -> NoGrant \cup Worker]
  /\ pc \in [Client -> Locations]
  /\ connected \in [Client -> BOOLEAN]
  /\ phase \in Phases
  /\ probing \in SUBSET Worker

Init ==
  /\ status = [w \in Worker |-> "offline"]
  /\ dispatched = [w \in Worker |-> FALSE]
  /\ queue = <<>>
  /\ position = [c \in Client |-> 0]
  /\ future = [c \in Client |-> None]
  /\ pc = [c \in Client |-> "away"]
  /\ connected = [c \in Client |-> FALSE]
  /\ phase = "starting"
  /\ probing = Worker
-----------------------------------------------------------------------------
(***************************************************************************)
(* The pool's own operations.  Each is synchronous, so they are parts of   *)
(* the handlers' actions below.                                            *)
(***************************************************************************)

\* The workers the scheduler may pick, given the statuses st.
Idle(st) == {w \in Worker : st[w] = "idle"}

\* min over (gpu_busy, worker_id).  Worker i alone has gpu_id i, so the load of
\* an idle worker's GPU is always 0 and the order is that of the worker ids.
\* (The set of at most one worker that the code returns as an Optional.)
GetIdleWorker(st) == {w \in Idle(st) : \A v \in Idle(st) : w <= v}

\* Mutant of DispatchStatus: a request type missing from the map, and no default.
DispatchStatusUnmapped(c) ==
  IF Endpoint[c] = "duplex" THEN None ELSE "busy_chat"

\* _DISPATCH_STATUS_MAP, by the request type the endpoint enqueues with.
DispatchStatus(c) ==
  CASE Endpoint[c] \in {"chat", "chat_ws"}     -> "busy_chat"
    [] Endpoint[c] = "half_duplex"             -> "busy_half_duplex"
    [] Endpoint[c] \in {"duplex", "realtime"}  -> "duplex_active"

InQueue(q, c) == \E i \in 1..Len(q) : q[i] = c
Queued(c)     == InQueue(queue, c)

\* Mutant of Positions: places counted from 0.
PositionsFromZero(q) ==
  [c \in Client |-> IF InQueue(q, c) THEN (CHOOSE i \in 1..Len(q) : q[i] = c) - 1
                                     ELSE 0]

\* _recalc_positions_and_eta: every ticket in the queue gets its 1-based place.
\* A ticket that has left the queue is not read again; it counts as 0.
Positions(q) ==
  [c \in Client |-> IF InQueue(q, c) THEN CHOOSE i \in 1..Len(q) : q[i] = c
                                     ELSE 0]

\* pop(ticket_id): the queue without its k-th entry.
Without(q, k) == [i \in 1..(Len(q) - 1) |-> IF i < k THEN q[i] ELSE q[i + 1]]

\* The queue once its first n entries have been granted a worker.
Drop(q, n) == [i \in 1..(Len(q) - n) |-> q[i + n]]

\* The loop of _dispatch_next gives the first n entries of q the n lowest free
\* workers, in order, and stops only when the queue or the free workers run out.
\* (Its first branch, which skips entries whose future is done, never applies:
\* QueuedIsPending below.)
Assigns(f, n, free, q) ==
  /\ \A i, j \in 1..n : i < j => f[i] < f[j]
  /\ \A w \in free : \/ \E i \in 1..n : f[i] = w
                     \/ n = Len(q) /\ \A i \in 1..n : f[i] < w

\* _dispatch_next, called when the statuses, flags, queue and futures are
\* st, dp, q and fut.
DispatchNext(st, dp, q, fut) ==
  \E n \in 0..Len(q) : \E f \in [1..n -> Idle(st)] :
    /\ Assigns(f, n, Idle(st), q)
    /\ queue' = Drop(q, n)
    /\ position' = Positions(queue')
    /\ status' = [w \in Worker |->
                    IF \E i \in 1..n : f[i] = w
                    THEN DispatchStatus(q[CHOOSE i \in 1..n : f[i] = w])
                    ELSE st[w]]
    /\ dispatched' = [w \in Worker |-> dp[w] \/ \E i \in 1..n : f[i] = w]
    /\ future' = [c \in Client |->
                    IF \E i \in 1..n : q[i] = c
                    THEN f[CHOOSE i \in 1..n : q[i] = c]
                    ELSE fut[c]]

\* Mutant of CancelTicket: the entry is left in the queue.
CancelTicketInPlace(c, left) ==
  \E k \in 1..Len(queue) :
    /\ queue[k] = c
    /\ DispatchNext(status, dispatched, queue, [future EXCEPT ![c] = left])

\* cancel(ticket_id) for a ticket that is queued, with the future left as left:
\* pop the entry, cancel its future, recalculate, try to dispatch.
CancelTicket(c, left) ==
  \E k \in 1..Len(queue) :
    /\ queue[k] = c
    /\ DispatchNext(status, dispatched, Without(queue, k),
                    [future EXCEPT ![c] = left])

\* mark_busy by the handler that was granted the worker.
MarkBusy(c) ==
  /\ status' = [status EXCEPT ![future[c]] = DispatchStatus(c)]
  /\ dispatched' = [dispatched EXCEPT ![future[c]] = TRUE]

Granted(c) == future[c] \in Worker

\* The handler coroutine ends: its future and its connection are garbage.
Ends(c) ==
  /\ pc' = [pc EXCEPT ![c] = "away"]
  /\ connected' = [connected EXCEPT ![c] = FALSE]
-----------------------------------------------------------------------------
(***************************************************************************)
(* Handlers: the request and the wait for a worker.                        *)
(***************************************************************************)

\* enqueue() with an idle worker: the future is born resolved.  The chat
\* endpoints go on to their try block without an await; the others suspend in
\* the send of "queue_done".
RequestImmediate(c) ==
  /\ phase \in {"sleeping", "refreshing"}
  /\ pc[c] = "away"
  /\ \E w \in GetIdleWorker(status) :
       /\ status' = [status EXCEPT ![w] = DispatchStatus(c)]
       /\ dispatched' = [dispatched EXCEPT ![w] = TRUE]
       /\ future' = [future EXCEPT ![c] = w]
  /\ pc' = [pc EXCEPT ![c] = IF Endpoint[c] \in Exclusive
                             THEN "announcing" ELSE "serving"]
  /\ connected' = [connected EXCEPT ![c] = TRUE]
  /\ UNCHANGED <<queue, position, healthVars>>

\* Mutant of RequestQueued: the newest ticket goes to the head.
RequestQueuedFront(c) ==
  /\ phase \in {"sleeping", "refreshing"}
  /\ pc[c] = "away"
  /\ Idle(status) = {}
  /\ Len(queue) < MaxQueue
  /\ queue' = <<c>> \o queue
  /\ position' = Positions(queue')
  /\ future' = [future EXCEPT ![c] = Pending]
  /\ pc' = [pc EXCEPT ![c] = IF Endpoint[c] \in Exclusive
                             THEN "notifying" ELSE "waiting"]
  /\ connected' = [connected EXCEPT ![c] = TRUE]
  /\ UNCHANGED <<status, dispatched, healthVars>>

\* enqueue() without one: the ticket goes to the end of the queue, unless the
\* queue is full (QueueFullError, which leaves no trace).
RequestQueued(c) ==
  /\ phase \in {"sleeping", "refreshing"}
  /\ pc[c] = "away"
  /\ Idle(status) = {}
  /\ Len(queue) < MaxQueue
  /\ queue' = Append(queue, c)
  /\ position' = Positions(queue')
  /\ future' = [future EXCEPT ![c] = Pending]
  /\ pc' = [pc EXCEPT ![c] = IF Endpoint[c] \in Exclusive
                             THEN "notifying" ELSE "waiting"]
  /\ connected' = [connected EXCEPT ![c] = TRUE]
  /\ UNCHANGED <<status, dispatched, healthVars>>

\* wait_for returns the worker.  Some time has passed since the future was
\* resolved.  Chat handlers enter their try block at once.
WaitGranted(c) ==
  /\ pc[c] = "waiting"
  /\ Granted(c)
  /\ \/ /\ Endpoint[c] \in Exclusive
        /\ pc' = [pc EXCEPT ![c] = "announcing"]
        /\ UNCHANGED <<status, dispatched>>
     \/ /\ Endpoint[c] \notin Exclusive
        /\ MarkBusy(c)
        /\ pc' = [pc EXCEPT ![c] = "serving"]
  /\ UNCHANGED <<queue, position, future, connected, healthVars>>

\* wait_for, or future.result(), raises because the ticket was cancelled by
\* somebody else: every endpoint gives up.  (The WebSocket ones call cancel()
\* again, which finds no entry and returns False.)
WaitCancelled(c) ==
  /\ pc[c] \in {"waiting", "notifying"}
  /\ future[c] = Cancelled
  /\ Ends(c)
  /\ future' = [future EXCEPT ![c] = None]
  /\ UNCHANGED <<poolVars, healthVars>>

\* wait_for times out in /api/chat and the client has hung up.
\* (request.is_disconnected() answers without suspending the handler in that
\* case.  /ws/chat never looks, and waits on.)
ChatPollsDisconnected(c) ==
  /\ pc[c] = "waiting"
  /\ Endpoint[c] = "chat"
  /\ future[c] = Pending
  /\ ~connected[c]
  /\ Queued(c)
  /\ CancelTicket(c, None)
  /\ Ends(c)
  /\ UNCHANGED healthVars

\* wait_for times out in an exclusive endpoint: send "queue_update".
NotifyPosition(c) ==
  /\ pc[c] = "waiting"
  /\ Endpoint[c] \in Exclusive
  /\ future[c] = Pending
  /\ Queued(c)
  /\ pc' = [pc EXCEPT ![c] = "notifying"]
  /\ UNCHANGED <<poolVars, future, connected, healthVars>>

\* The send of "queued" or "queue_update" returns.  If the future was resolved
\* meanwhile the loop ends and "queue_done" is sent next.
NotifyDone(c) ==
  /\ pc[c] = "notifying"
  /\ future[c] # Cancelled
  /\ pc' = [pc EXCEPT ![c] = IF Granted(c) THEN "announcing" ELSE "waiting"]
  /\ UNCHANGED <<poolVars, future, connected, healthVars>>

\* The send raises because the client is gone: cancel(ticket_id) and return.
\* cancel() returns False, and does nothing, if the ticket has left the queue.
NotifyFails(c) ==
  /\ pc[c] = "notifying"
  /\ ~connected[c]
  /\ \/ /\ Queued(c)
        /\ CancelTicket(c, None)
     \/ /\ ~Queued(c)
        /\ future' = [future EXCEPT ![c] = None]
        /\ UNCHANGED poolVars
  /\ Ends(c)
  /\ UNCHANGED healthVars
-----------------------------------------------------------------------------
(***************************************************************************)
(* Handlers: from the grant to the release.                                *)
(***************************************************************************)

\* The send of "queue_done" returns; mark_busy and into the try block.
AnnounceDone(c) ==
  /\ pc[c] = "announcing"
  /\ MarkBusy(c)
  /\ pc' = [pc EXCEPT ![c] = "serving"]
  /\ UNCHANGED <<queue, position, future, connected, healthVars>>

\* The send of "queue_done" raises.  It stands outside every try block: the
\* handler ends there, with neither release_worker nor cancel.
AnnounceFails(c) ==
  /\ pc[c] = "announcing"
  /\ ~connected[c]
  /\ Ends(c)
  /\ future' = [future EXCEPT ![c] = None]
  /\ UNCHANGED <<poolVars, healthVars>>

\* client_to_worker of /ws/duplex relays "pause" or "resume".
Pause(c) ==
  /\ pc[c] = "serving"
  /\ Endpoint[c] = "duplex"
  /\ status' = [status EXCEPT ![future[c]] = "duplex_paused"]
  /\ UNCHANGED <<dispatched, queue, position, handlerVars, healthVars>>

Resume(c) ==
  /\ pc[c] = "serving"
  /\ Endpoint[c] = "duplex"
  /\ status' = [status EXCEPT ![future[c]] = "duplex_active"]
  /\ UNCHANGED <<dispatched, queue, position, handlerVars, healthVars>>

\* Mutant of Release: no dispatch.
ReleaseSilently(c) ==
  /\ pc[c] = "serving"
  /\ status' = [status EXCEPT ![future[c]] = "idle"]
  /\ dispatched' = [dispatched EXCEPT ![future[c]] = FALSE]
  /\ future' = [future EXCEPT ![c] = None]
  /\ Ends(c)
  /\ UNCHANGED <<queue, position, healthVars>>

\* The finally block, however the try block ended: release_worker marks the
\* worker idle and dispatches.
Release(c) ==
  /\ pc[c] = "serving"
  /\ DispatchNext([status EXCEPT ![future[c]] = "idle"],
                  [dispatched EXCEPT ![future[c]] = FALSE],
                  queue,
                  [future EXCEPT ![c] = None])
  /\ Ends(c)
  /\ UNCHANGED healthVars
-----------------------------------------------------------------------------
(***************************************************************************)
(* The clients and the administrator.                                      *)
(***************************************************************************)

Disconnect(c) ==
  /\ pc[c] # "away"
  /\ connected[c]
  /\ connected' = [connected EXCEPT ![c] = FALSE]
  /\ UNCHANGED <<poolVars, future, pc, healthVars>>

\* DELETE /api/queue/{ticket_id}
AdminCancel(c) ==
  /\ phase # "stopped"
  /\ Queued(c)
  /\ CancelTicket(c, Cancelled)
  /\ UNCHANGED <<pc, connected, healthVars>>
-----------------------------------------------------------------------------
(***************************************************************************)
(* The health check task.                                                  *)
(***************************************************************************)

\* asyncio.gather starts one probe per worker.
RefreshStart ==
  /\ phase = "sleeping"
  /\ phase' = "refreshing"
  /\ probing' = Worker
  /\ UNCHANGED <<poolVars, handlerVars>>

\* Mutants of ProbeReply: the reply is believed whatever the gateway dispatched;
\* a busy worker is kept busy, dispatched or not.
ProbeReplyBelieved(w, r) ==
  /\ phase \in {"starting", "refreshing"}
  /\ w \in probing
  /\ probing' = probing \ {w}
  /\ status' = [status EXCEPT ![w] = r]
  /\ UNCHANGED <<dispatched, queue, position, handlerVars, phase>>
ProbeReplyBusyKept(w, r) ==
  /\ phase \in {"starting", "refreshing"}
  /\ w \in probing
  /\ probing' = probing \ {w}
  /\ status' = [status EXCEPT ![w] = IF r = "idle" /\ @ \notin {"idle", "offline"}
                                     THEN @ ELSE r]
  /\ UNCHANGED <<dispatched, queue, position, handlerVars, phase>>

\* A probe of w ends with reply r: a status named by the worker some time after
\* the probe was sent, "error" for a bad answer, "offline" for none.  An "idle"
\* is ignored while the gateway has dispatched a task to the worker.
ProbeReply(w, r) ==
  /\ phase \in {"starting", "refreshing"}
  /\ w \in probing
  /\ probing' = probing \ {w}
  /\ \/ /\ dispatched[w] /\ r = "idle"
        /\ UNCHANGED status
     \/ /\ ~(dispatched[w] /\ r = "idle")
        /\ status' = [status EXCEPT ![w] = r]
  /\ UNCHANGED <<dispatched, queue, position, handlerVars, phase>>

\* Mutant of RefreshEnd: no dispatch after the round.
RefreshEndSilently ==
  /\ phase \in {"starting", "refreshing"}
  /\ probing = {}
  /\ phase' = "sleeping"
  /\ UNCHANGED <<poolVars, handlerVars, probing>>

\* gather returns when the slowest probe has: dispatch, and sleep.
RefreshEnd ==
  /\ phase \in {"starting", "refreshing"}
  /\ probing = {}
  /\ phase' = "sleeping"
  /\ DispatchNext(status, dispatched, queue, future)
  /\ UNCHANGED <<pc, connected, probing>>

\* stop(): the task is cancelled, and its probes with it: a round cut short
\* dispatches nothing.
StopHealthCheck ==
  /\ phase \in {"sleeping", "refreshing"}
  /\ phase' = "stopping"
  /\ probing' = {}
  /\ UNCHANGED <<poolVars, handlerVars>>

\* Mutant of CancelQueued: every future is cancelled, the granted ones too.
CancelEverything ==
  /\ phase = "stopping"
  /\ phase' = "stopped"
  /\ queue' = <<>>
  /\ position' = Positions(<<>>)
  /\ future' = [c \in Client |-> IF pc[c] # "away" THEN Cancelled ELSE future[c]]
  /\ UNCHANGED <<status, dispatched, pc, connected, probing>>

\* The rest of stop(): every queued future is cancelled and the queue cleared.
CancelQueued ==
  /\ phase = "stopping"
  /\ phase' = "stopped"
  /\ queue' = <<>>
  /\ position' = Positions(<<>>)
  /\ future' = [c \in Client |-> IF Queued(c) THEN Cancelled ELSE future[c]]
  /\ UNCHANGED <<status, dispatched, pc, connected, probing>>
-----------------------------------------------------------------------------
HandlerStep(c) ==
  \/ WaitGranted(c)
  \/ WaitCancelled(c)
  \/ ChatPollsDisconnected(c)
  \/ NotifyDone(c)
  \/ AnnounceDone(c)
  \/ Release(c)

ClientStep(c) ==
  \/ RequestImmediate(c)
  \/ RequestQueued(c)
  \/ NotifyPosition(c)
  \/ NotifyFails(c)
  \/ AnnounceFails(c)
  \/ Pause(c)
  \/ Resume(c)
  \/ Disconnect(c)
  \/ AdminCancel(c)

HealthStep ==
  \/ RefreshStart
  \/ \E w \in Worker, r \in Replies : ProbeReply(w, r)
  \/ RefreshEnd

Next ==
  \/ \E c \in Client : HandlerStep(c) \/ ClientStep(c)
  \/ HealthStep
  \/ StopHealthCheck
  \/ CancelQueued

Spec == Init /\ [][Next]_vars

(***************************************************************************)
(* Fairness.  The event loop runs every ready coroutine and timers fire,   *)
(* so handlers and the health check go on; sends to a client return or     *)
(* raise (keep-alive pings close a dead connection).  A lease ends where   *)
(* the code limits it; that of an unlimited endpoint ends only once its    *)
(* client has hung up.  A free worker that is polled for ever reports      *)
(* "idle" again and again: that its sessions end is the worker's side of   *)
(* the bargain.  Nothing is assumed of clients and administrators.         *)
(***************************************************************************)
\* A relay that has run into its limit, or has lost its client.
LimitedRelease(c) == (Endpoint[c] \in Unlimited => ~connected[c]) /\ Release(c)

\* A worker that no lease keeps busy answers "idle".
FreeReply(w) == ~dispatched[w] /\ ProbeReply(w, "idle")

Fairness ==
  /\ \A c \in Client : /\ WF_vars(WaitGranted(c))
                       /\ WF_vars(WaitCancelled(c))
                       /\ WF_vars(ChatPollsDisconnected(c))
                       /\ WF_vars(NotifyDone(c))
                       /\ WF_vars(AnnounceDone(c))
                       /\ WF_vars(LimitedRelease(c))
  /\ WF_vars(RefreshStart)
  /\ \A w \in Worker : /\ WF_vars(\E r \in Replies : ProbeReply(w, r))
                       /\ SF_vars(FreeReply(w))
  /\ WF_vars(RefreshEnd)
  /\ WF_vars(CancelQueued)

FairSpec == Spec /\ Fairness
-----------------------------------------------------------------------------
(***************************************************************************)
(* Safety.                                                                 *)
(***************************************************************************)

\* A worker serves one request at a time: no two handlers ever hold the same
\* worker, whatever stale replies the health check applies and however grants,
\* cancellations and releases interleave ("prevents assigning the same Worker
\* twice", worker_pool.py:476).
ExclusiveLease ==
  \A c, d \in Client : Granted(c) /\ future[c] = future[d] => c = d

\* The scheduler can never pick a worker that is leased: a leased worker carries
\* the dispatch flag and is not idle in the gateway's eyes, so the health check
\* cannot hand it out again (worker_pool.py:345-357).
LeasedNotIdle ==
  /\ \A c \in Client : Granted(c) => dispatched[future[c]]
  /\ \A w \in Worker : dispatched[w] => status[w] # "idle"

\* No request is lost and none is answered twice: the futures still pending are
\* exactly those of the queued tickets, each queued once, with a handler waiting.
QueuedIsPending ==
  /\ \A c \in Client : future[c] = Pending <=> Queued(c)
  /\ \A i, j \in 1..Len(queue) : queue[i] = queue[j] => i = j
  /\ \A i \in 1..Len(queue) : pc[queue[i]] \in {"waiting", "notifying"}

\* A handler that has left the wait loop holds a worker, and one that is gone
\* holds nothing.
HandlerHolds ==
  \A c \in Client : /\ pc[c] \in {"announcing", "serving"} => Granted(c)
                    /\ pc[c] = "away" <=> future[c] = None

\* Nobody waits for nothing: tickets and idle workers coexist only while a
\* refresh round is under way, or cut short by stop(), because every other step
\* that could bring them together dispatches before it awaits.
WorkConserving ==
  queue # <<>> /\ Idle(status) # {} => phase \in {"refreshing", "stopping"}

\* enqueue() keeps the queue within max_queue_size, and every waiting client is
\* told its true place: 1 for the head, without gaps.
QueueInOrder ==
  /\ Len(queue) <= MaxQueue
  /\ \A i \in 1..Len(queue) : position[queue[i]] = i

-----------------------------------------------------------------------------
(***************************************************************************)
(* What a step may never do.                                               *)
(***************************************************************************)

\* First come, first served among the queued: a ticket is granted only together
\* with, or after, every ticket ahead of it, and a ticket that stays in the
\* queue never moves back.
QueueIsFifoStep ==
  \A c, d \in Client :
    /\ Queued(c) /\ Queued(d) /\ position[c] < position[d] /\ future'[d] \in Worker
         => ~Queued(c)'
    /\ Queued(c) /\ Queued(c)' => position'[c] <= position[c]
QueueIsFifo == [][QueueIsFifoStep]_vars

\* Only the handler that holds a worker can end its lease, by finishing: no
\* cancellation, no health reply and no other handler's release frees it.
OnlyHolderFreesStep ==
  \A c \in Client : Granted(c) /\ future'[c] # future[c] => pc'[c] = "away"
OnlyHolderFrees == [][OnlyHolderFreesStep]_vars
-----------------------------------------------------------------------------
(***************************************************************************)
(* What the pool promises, with everything else hidden.                    *)
(***************************************************************************)
LeaseOf(c) == IF Granted(c) THEN future[c] ELSE None
Lease == INSTANCE LeaseService WITH
           Capacity <- MaxQueue,
           waiting  <- queue,
           lease    <- [c \in Client |-> LeaseOf(c)]

\* Seen from outside, the pool is a lease service: whatever its handlers, probes
\* and cancellations do, every step either changes nothing a client can see, or
\* is a request, a service in order of arrival, a departure or the end of one
\* lease ("unified FIFO queue, single dispatch point", worker_pool.py:201-205).
ImplementsLease == Lease!Spec
-----------------------------------------------------------------------------
(***************************************************************************)
(* Liveness, under FairSpec.                                               *)
(***************************************************************************)

\* A worker whose dispatch flag is set although no handler holds it: the health
\* check will never make it idle again and nothing else can (see AnnounceFails
\* and NotifyFails).
Orphaned(w) == dispatched[w] /\ \A c \in Client : future[c] # w

\* A worker whose client talks on an endpoint without a time limit.
HeldOpen(w) ==
  \E c \in Client : /\ future[c] = w /\ pc[c] = "serving"
                    /\ Endpoint[c] \in Unlimited /\ connected[c]

\* Every queued request leaves the queue (it is granted a worker, cancelled or
\* abandoned), provided it is not the case from some time on that every worker is
\* lost or kept by a duplex client that does not hang up: no refresh round, late
\* reply, cancellation or newcomer starves a ticket.
QueuedLeaves ==
  \A c \in Client :
    []<>(\E w \in Worker : ~Orphaned(w) /\ ~HeldOpen(w)) => (Queued(c) ~> ~Queued(c))

\* A busy reply applied late, after the release, does not take the worker out of
\* the pool for good (the "reverse upgrade deadlock" of worker_pool.py:347-348).
StaleBusyRecovers ==
  \A w \in Worker :
    (phase = "sleeping" /\ ~dispatched[w] /\ status[w] # "idle")
      ~> (status[w] = "idle" \/ dispatched[w] \/ phase \in {"stopping", "stopped"})
-----------------------------------------------------------------------------
(***************************************************************************)
(* What the documentation says and the code does not do.                   *)
(***************************************************************************)

\* "Duplex holds a worker exclusively until the user hangs up or the pause times
\* out" (gateway.py:539): a worker is dispatched only while a handler holds it.
NoOrphan == \A w \in Worker : ~Orphaned(w)
=============================================================================
