------------------------ MODULE WorkerPoolRefinement ------------------------
(***************************************************************************)
(* Proof, for every number of workers, clients and queue places, that the  *)
(* worker pool implements the lease service.                               *)
(***************************************************************************)
EXTENDS WorkerPoolProofs

\* The leases that the futures fut stand for.
LeaseIn(fut) == [c \in Client |-> IF fut[c] \in Worker THEN fut[c] ELSE None]

\* The step of the lease service, with its variables substituted.
LeaseNext == [Lease!Next]_(Lease!vars)

\* The refinement mapping reads the futures and nothing else.
LEMMA LeaseMapping ==
  /\ [c \in Client |-> LeaseOf(c)] = LeaseIn(future)
  /\ [c \in Client |-> LeaseOf(c)]' = LeaseIn(future')
  BY DEF LeaseOf, Granted, LeaseIn

\* A step that leaves the queue and the leases alone is a stutter.
LEMMA Stutter ==
  ASSUME queue' = queue, LeaseIn(future') = LeaseIn(future)
  PROVE  LeaseNext
  BY LeaseMapping DEF LeaseNext, Lease!vars

\* _dispatch_next serves the head of the queue.
LEMMA DispatchServes ==
  ASSUME NEW st, NEW dp, NEW q, NEW fut,
         PoolOK(st, dp, q, fut),
         DispatchNext(st, dp, q, fut)
  PROVE  Lease!Serve(q, LeaseIn(fut))
<1>0. PICK n \in 0..Len(q) : \E f \in [1..n -> Idle(st)] :
        /\ Assigns(f, n, Idle(st), q)
        /\ queue' = Drop(q, n)
        /\ future' = [c \in Client |->
                        IF \E i \in 1..n : q[i] = c
                        THEN f[CHOOSE i \in 1..n : q[i] = c]
                        ELSE fut[c]]
  BY DEF DispatchNext
<1>1. PICK f \in [1..n -> Idle(st)] :
        /\ Assigns(f, n, Idle(st), q)
        /\ queue' = Drop(q, n)
        /\ future' = [c \in Client |->
                        IF \E i \in 1..n : q[i] = c
                        THEN f[CHOOSE i \in 1..n : q[i] = c]
                        ELSE fut[c]]
  BY <1>0
<1>2. Len(q) \in Nat /\ NoRepeat(q)
  BY LenProperties DEF PoolOK
<1>3. \A i \in 1..n : f[i] \in Worker /\ st[f[i]] = "idle"
  BY <1>1 DEF Idle
<1>4. \A i, j \in 1..n : f[i] = f[j] => i = j
  <2>1. \A i \in 1..n : f[i] \in Nat
    BY <1>3, WorkerAssumption
  <2> QED BY <1>1, <2>1 DEF Assigns
<1>5. ASSUME NEW w \in Idle(st) PROVE w \in Lease!Free(LeaseIn(fut))
  <2>1. w \in Worker /\ st[w] = "idle"
    BY <1>5 DEF Idle
  <2>2. ~dp[w]
    BY <2>1 DEF PoolOK
  <2>3. ASSUME NEW c \in Client PROVE LeaseIn(fut)[c] # w
    <3>1. LeaseIn(fut)[c] = IF fut[c] \in Worker THEN fut[c] ELSE None
      BY DEF LeaseIn
    <3>2. None \notin Worker
      BY NoGrantAssumption DEF NoGrant
    <3> QED BY <2>1, <2>2, <3>1, <3>2 DEF PoolOK
  <2> QED BY <2>1, <2>3 DEF Lease!Free
<1>6. f \in [1..n -> Lease!Free(LeaseIn(fut))]
  BY <1>1, <1>5
<1>7. queue' = [i \in 1..(Len(q) - n) |-> q[i + n]]
  BY <1>1 DEF Drop
<1>8. LeaseIn(future') = [c \in Client |-> IF \E i \in 1..n : q[i] = c
                                           THEN f[CHOOSE i \in 1..n : q[i] = c]
                                           ELSE LeaseIn(fut)[c]]
  <2> SUFFICES ASSUME NEW c \in Client
               PROVE  LeaseIn(future')[c] = IF \E i \in 1..n : q[i] = c
                                            THEN f[CHOOSE i \in 1..n : q[i] = c]
                                            ELSE LeaseIn(fut)[c]
    BY DEF LeaseIn
  <2>1. CASE \E i \in 1..n : q[i] = c
    <3> DEFINE k == CHOOSE i \in 1..n : q[i] = c
    <3>1. k \in 1..n
      BY <2>1
    <3>2. future'[c] = f[k]
      BY <1>1, <2>1
    <3>3. f[k] \in Worker
      BY <1>3, <3>1
    <3> QED BY <2>1, <3>2, <3>3 DEF LeaseIn
  <2>2. CASE ~ \E i \in 1..n : q[i] = c
    BY <1>1, <2>2 DEF LeaseIn
  <2> QED BY <2>1, <2>2
<1> QED
  BY <1>1, <1>4, <1>6, <1>7, <1>8, LeaseMapping, SMTT(40) DEF Lease!Serve

\* cancel(ticket_id): one of those that wait leaves.
LEMMA CancelLeaves ==
  ASSUME IInv, NEW c \in Client, NEW left \in {None, Cancelled},
         CancelTicket(c, left)
  PROVE  LeaseNext
<1>1. PICK k \in 1..Len(queue) :
        /\ queue[k] = c
        /\ DispatchNext(status, dispatched, Without(queue, k),
                        [future EXCEPT ![c] = left])
  BY DEF CancelTicket
<1>2. PoolOK(status, dispatched, queue, future)
  BY IInvIsConsistent DEF Consistent
<1>3. queue \in Seq(Client) /\ NoRepeat(queue) /\ Len(queue) \in Nat
  BY <1>2, LenProperties DEF PoolOK
<1>4. future[c] = Pending
  BY <1>1, <1>2 DEF PoolOK, InQueue
<1> DEFINE q == Without(queue, k)
           fut == [future EXCEPT ![c] = left]
<1>5. /\ q \in Seq(Client) /\ NoRepeat(q)
      /\ \A d : InQueue(q, d) <=> InQueue(queue, d) /\ d # c
  BY <1>1, <1>3, WithoutLemma
<1>6. /\ fut \in [Client -> NoGrant \cup Worker]
      /\ fut[c] = left /\ \A d \in Client \ {c} : fut[d] = future[d]
      /\ left \notin Worker /\ left # Pending /\ Pending \notin Worker
  BY <1>2, NoGrantAssumption DEF PoolOK, NoGrant
<1>7. LeaseIn(fut) = LeaseIn(future)
  BY <1>4, <1>6 DEF LeaseIn
<1>8. q = [i \in 1..(Len(queue) - 1) |-> IF i < k THEN queue[i] ELSE queue[i + 1]]
  BY DEF Without
<1>9. DispatchNext(status, dispatched, q, fut)
  BY <1>1
<1> HIDE DEF q, fut
<1>10. PoolOK(status, dispatched, q, fut)
  BY <1>2, <1>5, <1>6 DEF PoolOK
<1>11. Lease!Serve(q, LeaseIn(future))
  BY <1>7, <1>9, <1>10, DispatchServes
<1>12. Lease!Leave(k)
  BY <1>8, <1>11, LeaseMapping DEF Lease!Leave
<1> QED
  BY <1>1, <1>12 DEF LeaseNext, Lease!Next

\* Serving nobody is serving.
LEMMA ServeNobody ==
  ASSUME NEW q, NEW l, Len(q) \in Nat,
         queue' = [i \in 1..Len(q) |-> q[i]],
         LeaseIn(future') = [d \in Client |-> l[d]]
  PROVE  Lease!Serve(q, l)
<1> DEFINE f == [i \in 1..0 |-> None]
<1>1. 0 \in 0..Len(q) /\ f \in [1..0 -> Lease!Free(l)] /\ ~ \E i \in 1..0 : TRUE
  OBVIOUS
<1>2. Len(q) - 0 = Len(q) /\ \A i \in 1..Len(q) : i + 0 = i
  OBVIOUS
<1>3. queue' = [i \in 1..(Len(q) - 0) |-> q[i + 0]]
  BY <1>2
<1>4. LeaseIn(future') = [d \in Client |-> IF \E i \in 1..0 : q[i] = d
                                          THEN f[CHOOSE i \in 1..0 : q[i] = d]
                                          ELSE l[d]]
  <2>1. \A d \in Client : ~ \E i \in 1..0 : q[i] = d
    BY <1>1
  <2> QED BY <2>1
<1>5. \A i, j \in 1..0 : f[i] = f[j] => i = j
  BY <1>1
<1> HIDE DEF f
<1>6. \E g \in [1..0 -> Lease!Free(l)] :
         /\ \A i, j \in 1..0 : g[i] = g[j] => i = j
         /\ queue' = [i \in 1..(Len(q) - 0) |-> q[i + 0]]
         /\ LeaseIn(future') = [d \in Client |-> IF \E i \in 1..0 : q[i] = d
                                                 THEN g[CHOOSE i \in 1..0 : q[i] = d]
                                                 ELSE l[d]]
  BY <1>1, <1>3, <1>4, <1>5, Zenon
<1>7. \E n \in 0..Len(q) : \E g \in [1..n -> Lease!Free(l)] :
         /\ \A i, j \in 1..n : g[i] = g[j] => i = j
         /\ queue' = [i \in 1..(Len(q) - n) |-> q[i + n]]
         /\ LeaseIn(future') = [d \in Client |-> IF \E i \in 1..n : q[i] = d
                                                 THEN g[CHOOSE i \in 1..n : q[i] = d]
                                                 ELSE l[d]]
  BY <1>1, <1>6, Zenon
<1> QED
  BY <1>7, LeaseMapping DEF Lease!Serve

\* A handler that ends without a release gives its lease back, if it had one; the
\* service may leave the worker unused, and the pool does.
LEMMA HandlerGone ==
  ASSUME IInv, NEW c \in Client, UNCHANGED queue,
         future' = [future EXCEPT ![c] = None]
  PROVE  LeaseNext
<1>1. PoolOK(status, dispatched, queue, future)
  BY IInvIsConsistent DEF Consistent
<1>2. future \in [Client -> NoGrant \cup Worker] /\ None \notin Worker
  BY <1>1, NoGrantAssumption DEF PoolOK, NoGrant
<1>3. LeaseIn(future') = [LeaseIn(future) EXCEPT ![c] = None]
  BY <1>2 DEF LeaseIn
<1>4. CASE LeaseIn(future)[c] = None
  <2>1. LeaseIn(future') = LeaseIn(future)
    BY <1>3, <1>4 DEF LeaseIn
  <2> QED BY <2>1, Stutter
<1>5. CASE LeaseIn(future)[c] # None
  <2> DEFINE l == [LeaseIn(future) EXCEPT ![c] = None]
  <2>1. Len(queue) \in Nat /\ queue \in [1..Len(queue) -> Client]
    BY <1>1, LenProperties DEF PoolOK
  <2>2. queue' = [i \in 1..Len(queue) |-> queue[i]]
    BY <2>1
  <2>3. LeaseIn(future') = [d \in Client |-> l[d]]
    BY <1>3 DEF LeaseIn
  <2> HIDE DEF l
  <2>8. Lease!Serve(queue, l)
    BY <2>1, <2>2, <2>3, ServeNobody
  <2>9. Lease!Return(c)
    BY <1>5, <2>8, LeaseMapping DEF Lease!Return, l
  <2> QED BY <2>9 DEF LeaseNext, Lease!Next
<1> QED BY <1>4, <1>5

\* Every step of a handler or a client is one of the service, or a stutter.
LEMMA ClientLeases ==
  ASSUME IInv, NEW c \in Client, HandlerStep(c) \/ ClientStep(c)
  PROVE  LeaseNext
<1>1. Consistent
  BY IInvIsConsistent
<1>2. PoolOK(status, dispatched, queue, future)
  BY <1>1 DEF Consistent
<1>3. future \in [Client -> NoGrant \cup Worker] /\ NoGrant \cap Worker = {}
  BY <1>2, NoGrantAssumption DEF PoolOK
<1>4. CASE UNCHANGED <<queue, future>>
  BY <1>4, Stutter
<1>5. CASE CancelTicket(c, None) \/ CancelTicket(c, Cancelled)
  BY <1>5, CancelLeaves
<1>6. CASE UNCHANGED queue /\ future' = [future EXCEPT ![c] = None]
  BY <1>6, HandlerGone
<1>7. CASE WaitCancelled(c)
  BY <1>6, <1>7 DEF WaitCancelled, poolVars
<1>8. CASE Release(c)
  <2> DEFINE st  == [status EXCEPT ![future[c]] = "idle"]
             dp  == [dispatched EXCEPT ![future[c]] = FALSE]
             fut == [future EXCEPT ![c] = None]
  <2>1. PoolOK(st, dp, queue, fut) /\ future[c] \in Worker
    BY <1>8, ReleasePool
  <2>2. DispatchNext(st, dp, queue, fut)
    BY <1>8 DEF Release
  <2> HIDE DEF st, dp
  <2>3. Lease!Serve(queue, LeaseIn(fut))
    BY <2>1, <2>2, DispatchServes
  <2>4. LeaseIn(fut) = [LeaseIn(future) EXCEPT ![c] = None]
    BY <1>3, NoGrantAssumption DEF LeaseIn, NoGrant
  <2>5. LeaseIn(future)[c] # None
    BY <2>1, NoGrantAssumption DEF LeaseIn, NoGrant
  <2>6. Lease!Return(c)
    BY <2>3, <2>4, <2>5, LeaseMapping DEF Lease!Return
  <2> QED BY <2>6 DEF LeaseNext, Lease!Next
<1>9. CASE RequestImmediate(c)
  <2>1. PICK w \in GetIdleWorker(status) : future' = [future EXCEPT ![c] = w]
    BY <1>9 DEF RequestImmediate
  <2>2. w \in Worker /\ status[w] = "idle" /\ ~dispatched[w]
    BY <1>2, <2>1 DEF GetIdleWorker, Idle, PoolOK
  <2>3. future[c] = None
    BY <1>1, <1>9 DEF RequestImmediate, Consistent, HandlerHolds
  <2>4. ~Lease!Waits(c) /\ LeaseIn(future)[c] = None
    BY <1>2, <2>3, NoGrantAssumption
       DEF Lease!Waits, PoolOK, InQueue, LeaseIn, NoGrant
  <2>5. w \in Lease!Free(LeaseIn(future))
    BY <1>2, <2>2, NoGrantAssumption DEF Lease!Free, LeaseIn, PoolOK, NoGrant
  <2>6. LeaseIn(future') = [LeaseIn(future) EXCEPT ![c] = w]
    BY <1>3, <2>1, <2>2 DEF LeaseIn
  <2>7. UNCHANGED queue
    BY <1>9 DEF RequestImmediate
  <2>8. Lease!Take(c)
    BY <2>4, <2>5, <2>6, <2>7, LeaseMapping DEF Lease!Take
  <2> QED BY <2>8 DEF LeaseNext, Lease!Next
<1>10. CASE RequestQueued(c)
  <2>1. future[c] = None
    BY <1>1, <1>10 DEF RequestQueued, Consistent, HandlerHolds
  <2>2. ~Lease!Waits(c) /\ LeaseIn(future)[c] = None
    BY <1>2, <2>1, NoGrantAssumption
       DEF Lease!Waits, PoolOK, InQueue, LeaseIn, NoGrant
  <2>3. /\ Len(queue) < MaxQueue /\ queue' = Append(queue, c)
        /\ future' = [future EXCEPT ![c] = Pending]
    BY <1>10 DEF RequestQueued
  <2>4. LeaseIn(future') = LeaseIn(future)
    BY <1>3, <2>1, <2>3, NoGrantAssumption DEF LeaseIn, NoGrant
  <2>5. Lease!Enter(c)
    BY <2>2, <2>3, <2>4, LeaseMapping DEF Lease!Enter
  <2> QED BY <2>5 DEF LeaseNext, Lease!Next
<1>11. CASE NotifyFails(c)
  <2>1. CASE Queued(c)
    BY <1>5, <1>11, <2>1 DEF NotifyFails
  <2>2. CASE ~Queued(c)
    BY <1>6, <1>11, <2>2 DEF NotifyFails, poolVars
  <2> QED BY <2>1, <2>2
<1>12. CASE AnnounceFails(c)
  BY <1>6, <1>12 DEF AnnounceFails, poolVars
<1>13. CASE ChatPollsDisconnected(c) \/ AdminCancel(c)
  BY <1>5, <1>13 DEF ChatPollsDisconnected, AdminCancel
<1>14. CASE \/ WaitGranted(c) \/ NotifyDone(c) \/ AnnounceDone(c)
            \/ NotifyPosition(c) \/ Pause(c) \/ Resume(c) \/ Disconnect(c)
  BY <1>4, <1>14 DEF WaitGranted, NotifyDone, AnnounceDone, NotifyPosition,
     Pause, Resume, Disconnect, poolVars, handlerVars
<1> QED
  BY <1>7, <1>8, <1>9, <1>10, <1>11, <1>12, <1>13, <1>14
     DEF HandlerStep, ClientStep

\* The initial states of the pool are those of the service.
LEMMA LeaseInit == Init => Lease!Init
  BY NoGrantAssumption DEF Init, Lease!Init, LeaseOf, Granted, NoGrant

\* Every step of the pool is a step of the service or a stutter.
LEMMA LeaseStep == IInv /\ [Next]_vars => LeaseNext
<1> SUFFICES ASSUME IInv, [Next]_vars PROVE LeaseNext
  OBVIOUS
<1>1. PoolOK(status, dispatched, queue, future)
  BY IInvIsConsistent DEF Consistent
<1>2. CASE UNCHANGED <<queue, future>>
  BY <1>2, Stutter
<1>3. CASE RefreshEnd
  <2>1. Lease!Serve(queue, LeaseIn(future))
    BY <1>1, <1>3, DispatchServes DEF RefreshEnd
  <2> QED BY <2>1, LeaseMapping DEF LeaseNext, Lease!Next
<1>4. CASE CancelQueued
  <2>1. LeaseIn(future') = LeaseIn(future)
    BY <1>1, <1>4, NoGrantAssumption
       DEF CancelQueued, LeaseIn, PoolOK, NoGrant, Queued
  <2>2. queue' = <<>>
    BY <1>4 DEF CancelQueued
  <2>3. Lease!Close
    BY <2>1, <2>2, LeaseMapping DEF Lease!Close
  <2> QED BY <2>3 DEF LeaseNext, Lease!Next
<1>5. ASSUME NEW c \in Client, HandlerStep(c) \/ ClientStep(c) PROVE LeaseNext
  BY <1>5, ClientLeases
<1>6. CASE RefreshStart \/ StopHealthCheck \/ UNCHANGED vars
  BY <1>2, <1>6
     DEF RefreshStart, StopHealthCheck, vars, poolVars, handlerVars
<1>7. CASE \E w \in Worker, r \in Replies : ProbeReply(w, r)
  BY <1>2, <1>7 DEF ProbeReply, handlerVars
<1> QED
  BY <1>3, <1>4, <1>5, <1>6, <1>7 DEF Next, HealthStep

\* However many workers and clients there are and whatever the replies, the
\* worker pool is a lease service: exclusive leases, given to those that wait in
\* the order in which they came.
THEOREM PoolImplementsLease == Spec => ImplementsLease
<1>1. Init => Lease!Init
  BY LeaseInit
<1>2. IInv /\ [Next]_vars => [Lease!Next]_(Lease!vars)
  BY LeaseStep DEF LeaseNext
<1> QED
  BY <1>1, <1>2, Invariance, PTL DEF Spec, ImplementsLease, Lease!Spec
=============================================================================
