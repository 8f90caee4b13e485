-------------------------- MODULE WorkerPoolProofs --------------------------
(***************************************************************************)
(* Proofs, for every number of workers, clients and queue places, that the *)
(* gateway's worker pool keeps its safety invariants.                      *)
(***************************************************************************)
EXTENDS WorkerPool, SequenceTheorems, TLAPS

\* Nobody has been let in while start() awaits the first refresh.
NobodyYet == phase = "starting" => \A c \in Client : pc[c] = "away"

\* The inductive invariant: the checked invariants, and NobodyYet, without which
\* WorkConserving could not survive the replies of the first refresh.
IInv ==
  /\ TypeOK
  /\ ExclusiveLease
  /\ LeasedNotIdle
  /\ QueuedIsPending
  /\ HandlerHolds
  /\ WorkConserving
  /\ QueueInOrder
  /\ NobodyYet
-----------------------------------------------------------------------------
(***************************************************************************)
(* Queues as sequences.                                                    *)
(***************************************************************************)

\* A queue in which nobody stands twice.
NoRepeat(q) == \A i, j \in 1..Len(q) : q[i] = q[j] => i = j

\* A function on 1..n is a sequence of length n.
LEMMA FunctionIsSeq ==
  ASSUME NEW S, NEW n \in Nat, NEW f \in [1..n -> S]
  PROVE  f \in Seq(S) /\ Len(f) = n
<1>1. f \in Seq(S)
  BY SeqDef
<1>2. 1..n = 1..Len(f) /\ Len(f) \in Nat
  BY <1>1, LenProperties
<1> QED
  BY <1>1, <1>2

\* Popping one ticket removes that client and nobody else, and keeps the order.
LEMMA WithoutLemma ==
  ASSUME NEW q \in Seq(Client), NoRepeat(q), NEW k \in 1..Len(q)
  PROVE  /\ Without(q, k) \in Seq(Client)
         /\ Len(Without(q, k)) = Len(q) - 1
         /\ NoRepeat(Without(q, k))
         /\ \A c : InQueue(Without(q, k), c) <=> InQueue(q, c) /\ c # q[k]
<1> DEFINE r == Without(q, k)
<1>1. Len(q) \in Nat /\ q \in [1..Len(q) -> Client]
  BY LenProperties
<1>2. Len(q) - 1 \in Nat
  BY <1>1
<1>3. r \in [1..(Len(q) - 1) -> Client]
  BY <1>1 DEF Without
<1>4. r \in Seq(Client) /\ Len(r) = Len(q) - 1
  BY <1>2, <1>3, FunctionIsSeq
<1>5. \A i \in 1..Len(r) : r[i] = IF i < k THEN q[i] ELSE q[i + 1]
  BY <1>4 DEF Without
<1> HIDE DEF r
<1>6. NoRepeat(r)
  BY <1>1, <1>4, <1>5 DEF NoRepeat
<1>7. ASSUME NEW c, InQueue(r, c)
      PROVE  InQueue(q, c) /\ c # q[k]
  <2>1. PICK i \in 1..Len(r) : r[i] = c
    BY <1>7 DEF InQueue
  <2>2. CASE i < k
    BY <2>1, <2>2, <1>1, <1>4, <1>5 DEF InQueue, NoRepeat
  <2>3. CASE ~(i < k)
    BY <2>1, <2>3, <1>1, <1>4, <1>5 DEF InQueue, NoRepeat
  <2> QED BY <2>2, <2>3
<1>8. ASSUME NEW c, InQueue(q, c), c # q[k]
      PROVE  InQueue(r, c)
  <2>1. PICK i \in 1..Len(q) : q[i] = c
    BY <1>8 DEF InQueue
  <2>2. CASE i < k
    <3>1. i \in 1..Len(r) /\ r[i] = c
      BY <2>1, <2>2, <1>1, <1>4, <1>5
    <3> QED BY <3>1 DEF InQueue
  <2>3. CASE i > k
    <3>1. i - 1 \in 1..Len(r) /\ r[i - 1] = c
      BY <2>1, <2>3, <1>1, <1>4, <1>5
    <3> QED BY <3>1 DEF InQueue
  <2> QED BY <2>1, <2>2, <2>3, <1>1, <1>8
<1> QED
  BY <1>4, <1>6, <1>7, <1>8 DEF r

\* Granting the first n tickets leaves the others, in their order.
LEMMA DropLemma ==
  ASSUME NEW q \in Seq(Client), NoRepeat(q), NEW n \in 0..Len(q)
  PROVE  /\ Drop(q, n) \in Seq(Client)
         /\ Len(Drop(q, n)) = Len(q) - n
         /\ NoRepeat(Drop(q, n))
         /\ \A c : InQueue(Drop(q, n), c)
                     <=> InQueue(q, c) /\ ~ \E i \in 1..n : q[i] = c
<1> DEFINE r == Drop(q, n)
<1>1. Len(q) \in Nat /\ q \in [1..Len(q) -> Client]
  BY LenProperties
<1>2. Len(q) - n \in Nat
  BY <1>1
<1>3. r \in [1..(Len(q) - n) -> Client]
  BY <1>1 DEF Drop
<1>4. r \in Seq(Client) /\ Len(r) = Len(q) - n
  BY <1>2, <1>3, FunctionIsSeq
<1>5. \A i \in 1..Len(r) : r[i] = q[i + n]
  BY <1>4 DEF Drop
<1> HIDE DEF r
<1>6. NoRepeat(r)
  BY <1>1, <1>4, <1>5 DEF NoRepeat
<1>7. ASSUME NEW c, InQueue(r, c)
      PROVE  InQueue(q, c) /\ ~ \E i \in 1..n : q[i] = c
  <2>1. PICK i \in 1..Len(r) : r[i] = c
    BY <1>7 DEF InQueue
  <2>2. i + n \in 1..Len(q) /\ q[i + n] = c
    BY <2>1, <1>1, <1>4, <1>5
  <2> QED BY <2>1, <2>2, <1>1 DEF InQueue, NoRepeat
<1>8. ASSUME NEW c, InQueue(q, c), ~ \E i \in 1..n : q[i] = c
      PROVE  InQueue(r, c)
  <2>1. PICK i \in 1..Len(q) : q[i] = c
    BY <1>8 DEF InQueue
  <2>2. i > n
    BY <2>1, <1>8, <1>1
  <2>3. i - n \in 1..Len(r) /\ r[i - n] = c
    BY <2>1, <2>2, <1>1, <1>4, <1>5
  <2> QED BY <2>3 DEF InQueue
<1> QED
  BY <1>4, <1>6, <1>7, <1>8 DEF r

\* In a queue without repetition everybody's position is exact.
LEMMA PositionsLemma ==
  ASSUME NEW q \in Seq(Client), NoRepeat(q)
  PROVE  /\ Positions(q) \in [Client -> Nat]
         /\ \A i \in 1..Len(q) : Positions(q)[q[i]] = i
<1>1. Len(q) \in Nat /\ q \in [1..Len(q) -> Client]
  BY LenProperties
<1>2. Positions(q) \in [Client -> Nat]
  <2> SUFFICES ASSUME NEW c \in Client
               PROVE  Positions(q)[c] \in Nat
    BY DEF Positions
  <2>1. CASE InQueue(q, c)
    <3>1. PICK i \in 1..Len(q) : q[i] = c
      BY <2>1 DEF InQueue
    <3>2. (CHOOSE j \in 1..Len(q) : q[j] = c) \in 1..Len(q)
      BY <3>1
    <3> QED BY <2>1, <3>2, <1>1 DEF Positions
  <2>2. CASE ~InQueue(q, c)
    BY <2>2 DEF Positions
  <2> QED BY <2>1, <2>2
<1>3. ASSUME NEW i \in 1..Len(q)
      PROVE  Positions(q)[q[i]] = i
  <2>1. q[i] \in Client /\ InQueue(q, q[i])
    BY <1>1 DEF InQueue
  <2> DEFINE k == CHOOSE j \in 1..Len(q) : q[j] = q[i]
  <2>2. k \in 1..Len(q) /\ q[k] = q[i]
    OBVIOUS
  <2>3. k = i
    BY <2>2 DEF NoRepeat
  <2> QED BY <2>1, <2>3 DEF Positions
<1> QED BY <1>2, <1>3
-----------------------------------------------------------------------------
(***************************************************************************)
(* _dispatch_next, called on any consistent pool.                          *)
(***************************************************************************)

\* What every caller of _dispatch_next guarantees of the values it leaves, and
\* what _dispatch_next gives back.
PoolOK(st, dp, q, fut) ==
  /\ st \in [Worker -> Statuses]
  /\ dp \in [Worker -> BOOLEAN]
  /\ q \in Seq(Client)
  /\ fut \in [Client -> NoGrant \cup Worker]
  /\ \A c, d \in Client : fut[c] \in Worker /\ fut[c] = fut[d] => c = d
  /\ \A c \in Client : fut[c] \in Worker => dp[fut[c]]
  /\ \A w \in Worker : dp[w] => st[w] # "idle"
  /\ NoRepeat(q)
  /\ \A c \in Client : fut[c] = Pending <=> InQueue(q, c)

\* A dispatch status is a status, and never idle.
LEMMA DispatchStatusLemma ==
  ASSUME NEW c \in Client
  PROVE  DispatchStatus(c) \in Statuses /\ DispatchStatus(c) # "idle"
<1>1. Endpoint[c] \in Endpoints
  BY EndpointAssumption
<1> QED BY <1>1 DEF DispatchStatus, Statuses, Endpoints

\* _dispatch_next keeps the pool consistent, leaves no ticket waiting beside an
\* idle worker, tells everybody's position, and changes no future except from
\* pending to a worker.
LEMMA DispatchLemma ==
  ASSUME NEW st, NEW dp, NEW q, NEW fut,
         PoolOK(st, dp, q, fut),
         DispatchNext(st, dp, q, fut)
  PROVE  /\ PoolOK(status', dispatched', queue', future')
         /\ position' \in [Client -> Nat]
         /\ \A i \in 1..Len(queue') : position'[queue'[i]] = i
         /\ queue' # <<>> => Idle(status') = {}
         /\ Len(queue') <= Len(q)
         /\ \A c \in Client : future'[c] # fut[c]
                              => fut[c] = Pending /\ future'[c] \in Worker
<1>0. PICK n \in 0..Len(q) : \E f \in [1..n -> Idle(st)] :
        /\ Assigns(f, n, Idle(st), q)
        /\ queue' = Drop(q, n)
        /\ position' = Positions(queue')
        /\ status' = [w \in Worker |->
                        IF \E i \in 1..n : f[i] = w
                        THEN DispatchStatus(q[CHOOSE i \in 1..n : f[i] = w])
                        ELSE st[w]]
        /\ dispatched' = [w \in Worker |-> dp[w] \/ \E i \in 1..n : f[i] = w]
        /\ future' = [c \in Client |->
                        IF \E i \in 1..n : q[i] = c
                        THEN f[CHOOSE i \in 1..n : q[i] = c]
                        ELSE fut[c]]
  BY DEF DispatchNext
<1>1. PICK f \in [1..n -> Idle(st)] :
        /\ Assigns(f, n, Idle(st), q)
        /\ queue' = Drop(q, n)
        /\ position' = Positions(queue')
        /\ status' = [w \in Worker |->
                        IF \E i \in 1..n : f[i] = w
                        THEN DispatchStatus(q[CHOOSE i \in 1..n : f[i] = w])
                        ELSE st[w]]
        /\ dispatched' = [w \in Worker |-> dp[w] \/ \E i \in 1..n : f[i] = w]
        /\ future' = [c \in Client |->
                        IF \E i \in 1..n : q[i] = c
                        THEN f[CHOOSE i \in 1..n : q[i] = c]
                        ELSE fut[c]]
  BY <1>0
<1>2. /\ Len(q) \in Nat /\ q \in [1..Len(q) -> Client] /\ NoRepeat(q)
      /\ q \in Seq(Client)
  BY LenProperties DEF PoolOK
<1>3. /\ queue' \in Seq(Client) /\ NoRepeat(queue')
      /\ Len(queue') = Len(q) - n
      /\ \A c : InQueue(queue', c)
                  <=> InQueue(q, c) /\ ~ \E i \in 1..n : q[i] = c
  BY <1>1, <1>2, DropLemma
<1>4. /\ position' \in [Client -> Nat]
      /\ \A i \in 1..Len(queue') : position'[queue'[i]] = i
  BY <1>1, <1>3, PositionsLemma
<1>5. \A i \in 1..n : f[i] \in Worker /\ st[f[i]] = "idle"
  BY <1>1 DEF Idle
<1>6. \A i, j \in 1..n : f[i] = f[j] => i = j
  <2>1. \A i \in 1..n : f[i] \in Nat
    BY <1>5, WorkerAssumption
  <2> QED BY <1>1, <2>1 DEF Assigns
<1>7. \A c \in Client : (\E i \in 1..n : q[i] = c)
        => \E i \in 1..n : q[i] = c /\ future'[c] = f[i]
  <2> SUFFICES ASSUME NEW c \in Client, \E i \in 1..n : q[i] = c
               PROVE  \E i \in 1..n : q[i] = c /\ future'[c] = f[i]
    OBVIOUS
  <2> DEFINE k == CHOOSE i \in 1..n : q[i] = c
  <2>1. k \in 1..n /\ q[k] = c
    OBVIOUS
  <2>2. future'[c] = f[k]
    BY <1>1
  <2> QED BY <2>1, <2>2
<1>8. \A c \in Client : (~ \E i \in 1..n : q[i] = c) => future'[c] = fut[c]
  BY <1>1
<1>9. \A w \in Worker : /\ status'[w] \in Statuses
                        /\ (\E i \in 1..n : f[i] = w) => status'[w] # "idle"
                        /\ (~ \E i \in 1..n : f[i] = w) => status'[w] = st[w]
  <2> SUFFICES ASSUME NEW w \in Worker
               PROVE  /\ status'[w] \in Statuses
                      /\ (\E i \in 1..n : f[i] = w) => status'[w] # "idle"
                      /\ (~ \E i \in 1..n : f[i] = w) => status'[w] = st[w]
    OBVIOUS
  <2>1. CASE \E i \in 1..n : f[i] = w
    <3> DEFINE k == CHOOSE i \in 1..n : f[i] = w
    <3>1. k \in 1..n
      BY <2>1
    <3>2. q[k] \in Client
      BY <3>1, <1>2
    <3>3. status'[w] = DispatchStatus(q[k])
      BY <2>1, <1>1
    <3> QED BY <2>1, <3>2, <3>3, DispatchStatusLemma
  <2>2. CASE ~ \E i \in 1..n : f[i] = w
    BY <2>2, <1>1 DEF PoolOK
  <2> QED BY <2>1, <2>2
<1>10. \A w \in Worker : dispatched'[w] <=> dp[w] \/ \E i \in 1..n : f[i] = w
  BY <1>1
<1>11. \A i \in 1..n : fut[q[i]] = Pending
  <2> SUFFICES ASSUME NEW i \in 1..n PROVE fut[q[i]] = Pending
    OBVIOUS
  <2>1. q[i] \in Client /\ InQueue(q, q[i])
    BY <1>2 DEF InQueue
  <2> QED BY <2>1 DEF PoolOK
<1>12. \A c \in Client : future'[c] # fut[c]
                         => fut[c] = Pending /\ future'[c] \in Worker
  BY <1>5, <1>7, <1>8, <1>11
<1>13. PoolOK(status', dispatched', queue', future')
  <2>1. status' \in [Worker -> Statuses]
    BY <1>1, <1>9
  <2>2. dispatched' \in [Worker -> BOOLEAN]
    <3>1. dp \in [Worker -> BOOLEAN]
      BY DEF PoolOK
    <3> QED BY <1>1, <3>1, Zenon
  <2>3. future' \in [Client -> NoGrant \cup Worker]
    <3>1. fut \in [Client -> NoGrant \cup Worker]
      BY DEF PoolOK
    <3>2. \A c \in Client : future'[c] \in NoGrant \cup Worker
      BY <3>1, <1>12
    <3> QED BY <3>2, <1>1
  <2>4. ASSUME NEW c \in Client, NEW d \in Client,
               future'[c] \in Worker, future'[c] = future'[d]
        PROVE  c = d
    <3>0. \A i \in 1..n : ~dp[f[i]]
      BY <1>5 DEF PoolOK
    <3>1. CASE (\E i \in 1..n : q[i] = c) /\ (\E i \in 1..n : q[i] = d)
      BY <2>4, <3>1, <1>6, <1>7
    <3>2. CASE (\E i \in 1..n : q[i] = c) /\ ~(\E i \in 1..n : q[i] = d)
      BY <2>4, <3>0, <3>2, <1>7, <1>8 DEF PoolOK
    <3>3. CASE ~(\E i \in 1..n : q[i] = c) /\ (\E i \in 1..n : q[i] = d)
      BY <2>4, <3>0, <3>3, <1>7, <1>8 DEF PoolOK
    <3>4. CASE ~(\E i \in 1..n : q[i] = c) /\ ~(\E i \in 1..n : q[i] = d)
      BY <2>4, <3>4, <1>8 DEF PoolOK
    <3> QED BY <3>1, <3>2, <3>3, <3>4
  <2>5. \A c \in Client : future'[c] \in Worker => dispatched'[future'[c]]
    BY <1>5, <1>7, <1>8, <1>10 DEF PoolOK
  <2>6. \A w \in Worker : dispatched'[w] => status'[w] # "idle"
    BY <1>9, <1>10 DEF PoolOK
  <2>7. \A c \in Client : future'[c] = Pending <=> InQueue(queue', c)
    <3>1. \A i \in 1..n : f[i] # Pending
      BY <1>5, NoGrantAssumption DEF NoGrant
    <3> QED BY <3>1, <1>3, <1>7, <1>8 DEF PoolOK
  <2> QED BY <2>1, <2>2, <2>3, <2>4, <2>5, <2>6, <2>7, <1>3 DEF PoolOK
<1>14. queue' # <<>> => Idle(status') = {}
  <2> SUFFICES ASSUME queue' # <<>> PROVE Idle(status') = {}
    OBVIOUS
  <2>1. n # Len(q)
    BY <1>1, <1>2, <1>3, EmptySeq
  <2>2. \A w \in Idle(st) : \E i \in 1..n : f[i] = w
    BY <1>1, <2>1 DEF Assigns
  <2>3. ASSUME NEW w \in Worker PROVE status'[w] # "idle"
    BY <1>9, <2>2 DEF Idle
  <2> QED BY <2>3 DEF Idle
<1>15. Len(queue') <= Len(q)
  BY <1>2, <1>3
<1> QED BY <1>4, <1>12, <1>13, <1>14, <1>15
-----------------------------------------------------------------------------
(***************************************************************************)
(* The invariant is inductive.                                             *)
(***************************************************************************)

\* The same invariant with the pool's part as _dispatch_next wants it.
Consistent ==
  /\ PoolOK(status, dispatched, queue, future)
  /\ position \in [Client -> Nat]
  /\ pc \in [Client -> Locations]
  /\ connected \in [Client -> BOOLEAN]
  /\ phase \in Phases
  /\ probing \in SUBSET Worker
  /\ \A i \in 1..Len(queue) : pc[queue[i]] \in {"waiting", "notifying"}
  /\ HandlerHolds
  /\ WorkConserving
  /\ QueueInOrder
  /\ NobodyYet

\* Consistent, the form in which the steps use the invariant, is the invariant.
LEMMA IInvIsConsistent ==
  (IInv <=> Consistent) /\ (IInv' <=> Consistent')
  BY DEF IInv, Consistent, PoolOK, TypeOK, ExclusiveLease, LeasedNotIdle,
         QueuedIsPending, Granted, Queued, NoRepeat

\* The invariant holds while start() awaits the first refresh.
LEMMA InitIInv == Init => IInv
<1> SUFFICES ASSUME Init PROVE IInv
  OBVIOUS
<1>1. queue \in Seq(Client) /\ Len(queue) = 0
  BY EmptySeq DEF Init
<1>2. TypeOK
  BY <1>1 DEF Init, TypeOK, Statuses, NoGrant, Locations, Phases
<1>3. ~ \E c \in Client : Granted(c)
  BY NoGrantAssumption DEF Init, Granted, NoGrant
<1>4. \A c \in Client : ~Queued(c) /\ future[c] # Pending
  BY <1>1, NoGrantAssumption DEF Init, Queued, InQueue
<1>5. ExclusiveLease /\ LeasedNotIdle /\ QueuedIsPending /\ HandlerHolds
  BY <1>1, <1>3, <1>4
     DEF Init, ExclusiveLease, LeasedNotIdle, QueuedIsPending, HandlerHolds
<1>6. WorkConserving /\ QueueInOrder /\ NobodyYet
  BY <1>1, QueueAssumption DEF Init, WorkConserving, QueueInOrder, NobodyYet
<1> QED BY <1>2, <1>5, <1>6 DEF IInv

\* cancel(ticket_id) of a queued ticket keeps the pool consistent, whether the
\* client gives up (left = None) or is made to (left = Cancelled), and resolves
\* at most other clients' futures.
LEMMA CancelLemma ==
  ASSUME IInv, NEW c \in Client, NEW left \in {None, Cancelled},
         CancelTicket(c, left)
  PROVE  /\ PoolOK(status', dispatched', queue', future')
         /\ position' \in [Client -> Nat]
         /\ \A i \in 1..Len(queue') : position'[queue'[i]] = i
         /\ queue' # <<>> => Idle(status') = {}
         /\ Len(queue') <= Len(queue)
         /\ future'[c] = left /\ future[c] = Pending
         /\ \A d \in Client \ {c} : future'[d] # future[d]
               => future[d] = Pending /\ future'[d] \in Worker
<1>1. PICK k \in 1..Len(queue) :
        /\ queue[k] = c
        /\ DispatchNext(status, dispatched, Without(queue, k),
                        [future EXCEPT ![c] = left])
  BY DEF CancelTicket
<1>2. PoolOK(status, dispatched, queue, future)
  BY IInvIsConsistent DEF Consistent
<1>3. queue \in Seq(Client) /\ NoRepeat(queue) /\ Len(queue) \in Nat
  BY <1>2, LenProperties DEF PoolOK
<1>4. future[c] = Pending
  BY <1>1, <1>2 DEF PoolOK, InQueue
<1> DEFINE q == Without(queue, k)
           fut == [future EXCEPT ![c] = left]
<1>5. /\ q \in Seq(Client) /\ Len(q) = Len(queue) - 1 /\ NoRepeat(q)
      /\ \A d : InQueue(q, d) <=> InQueue(queue, d) /\ d # c
  BY <1>1, <1>3, WithoutLemma
<1>6. /\ fut \in [Client -> NoGrant \cup Worker]
      /\ fut[c] = left /\ \A d \in Client \ {c} : fut[d] = future[d]
      /\ left \notin Worker /\ left # Pending
  BY <1>2, NoGrantAssumption DEF PoolOK, NoGrant
<1> HIDE DEF q, fut
<1>7. PoolOK(status, dispatched, q, fut)
  BY <1>2, <1>5, <1>6 DEF PoolOK
<1>8. DispatchNext(status, dispatched, q, fut)
  BY <1>1 DEF q, fut
<1>9. /\ PoolOK(status', dispatched', queue', future')
      /\ position' \in [Client -> Nat]
      /\ \A i \in 1..Len(queue') : position'[queue'[i]] = i
      /\ queue' # <<>> => Idle(status') = {}
      /\ Len(queue') <= Len(q)
      /\ \A d \in Client : future'[d] # fut[d]
                          => fut[d] = Pending /\ future'[d] \in Worker
  BY <1>7, <1>8, DispatchLemma
<1>10. Len(queue') \in Nat
  BY <1>9, LenProperties DEF PoolOK
<1> QED BY <1>3, <1>4, <1>5, <1>6, <1>9, <1>10

\* A step that ends in _dispatch_next keeps the invariant if it leaves the
\* handlers in order: what _dispatch_next gives back takes care of the rest.
LEMMA DispatchingStep ==
  ASSUME IInv,
         PoolOK(status', dispatched', queue', future'),
         position' \in [Client -> Nat],
         \A i \in 1..Len(queue') : position'[queue'[i]] = i,
         queue' # <<>> => Idle(status') = {},
         Len(queue') <= Len(queue),
         pc' \in [Client -> Locations],
         connected' \in [Client -> BOOLEAN],
         phase' \in Phases,
         probing' \in SUBSET Worker,
         \A c \in Client : future'[c] = Pending
                             => future[c] = Pending /\ pc'[c] = pc[c],
         HandlerHolds',
         NobodyYet'
  PROVE  IInv'
<1>1. Consistent
  BY IInvIsConsistent
<1>2. \A i \in 1..Len(queue') : pc'[queue'[i]] \in {"waiting", "notifying"}
  <2> SUFFICES ASSUME NEW i \in 1..Len(queue')
               PROVE  pc'[queue'[i]] \in {"waiting", "notifying"}
    OBVIOUS
  <2>1. queue' \in [1..Len(queue') -> Client]
    BY LenProperties DEF PoolOK
  <2>2. queue'[i] \in Client /\ InQueue(queue', queue'[i])
    BY <2>1 DEF InQueue
  <2>3. future'[queue'[i]] = Pending
    BY <2>2 DEF PoolOK
  <2>4. future[queue'[i]] = Pending /\ pc'[queue'[i]] = pc[queue'[i]]
    BY <2>2, <2>3
  <2>5. InQueue(queue, queue'[i])
    BY <1>1, <2>2, <2>4 DEF Consistent, PoolOK
  <2> QED BY <1>1, <2>4, <2>5 DEF Consistent, InQueue
<1>3. WorkConserving'
  BY DEF WorkConserving
<1>4. QueueInOrder'
  <2>1. Len(queue) \in Nat /\ Len(queue') \in Nat
    BY <1>1, LenProperties DEF Consistent, PoolOK
  <2> QED BY <1>1, <2>1, QueueAssumption DEF Consistent, QueueInOrder
<1> QED
  BY <1>2, <1>3, <1>4, IInvIsConsistent DEF Consistent

\* A handler that gives up a queued ticket (ChatPollsDisconnected, NotifyFails).
LEMMA GiveUpKeepsIInv ==
  ASSUME IInv, NEW c \in Client, CancelTicket(c, None), Ends(c),
         UNCHANGED healthVars
  PROVE  IInv'
<1>1. Consistent
  BY IInvIsConsistent
<1>2. /\ future'[c] = None /\ future[c] = Pending
      /\ \A d \in Client \ {c} : future'[d] # future[d]
            => future[d] = Pending /\ future'[d] \in Worker
  BY CancelLemma
<1>3. /\ pc' \in [Client -> Locations] /\ connected' \in [Client -> BOOLEAN]
      /\ phase' \in Phases /\ probing' \in SUBSET Worker
      /\ pc'[c] = "away" /\ \A d \in Client \ {c} : pc'[d] = pc[d]
      /\ phase' = phase
  BY <1>1 DEF Consistent, Ends, healthVars, Locations
<1>4. \A d \in Client : future'[d] = Pending
                           => future[d] = Pending /\ pc'[d] = pc[d]
  BY <1>2, <1>3, NoGrantAssumption DEF NoGrant
<1>5. HandlerHolds'
  <2>1. \A d \in Client : /\ pc[d] \in {"announcing", "serving"} => Granted(d)
                          /\ pc[d] = "away" <=> future[d] = None
    BY <1>1 DEF Consistent, HandlerHolds
  <2>2. \A d \in Client \ {c} : future'[d] # future[d]
                               => pc[d] # "away" /\ Granted(d)'
    BY <1>2, <2>1, NoGrantAssumption DEF Granted, NoGrant
  <2>3. ASSUME NEW d \in Client \ {c}
        PROVE  /\ pc'[d] \in {"announcing", "serving"} => Granted(d)'
               /\ pc'[d] = "away" <=> future'[d] = None
    <3>1. pc'[d] = pc[d]
      BY <1>3
    <3>2. CASE future'[d] = future[d]
      BY <2>1, <3>1, <3>2 DEF Granted
    <3>3. CASE future'[d] # future[d]
      BY <2>2, <3>1, <3>3, NoGrantAssumption DEF Granted, NoGrant
    <3> QED BY <3>2, <3>3
  <2> QED BY <1>2, <1>3, <2>3 DEF HandlerHolds
<1>6. NobodyYet'
  BY <1>1, <1>3 DEF Consistent, NobodyYet
<1> QED
  BY <1>3, <1>4, <1>5, <1>6, CancelLemma, DispatchingStep

\* DELETE /api/queue/{ticket_id}: the handler is still there, to find its future
\* cancelled.
LEMMA AdminCancelKeepsIInv ==
  ASSUME IInv, NEW c \in Client, AdminCancel(c)
  PROVE  IInv'
<1>1. Consistent
  BY IInvIsConsistent
<1>2. /\ CancelTicket(c, Cancelled)
      /\ UNCHANGED <<pc, connected, phase, probing>>
  BY DEF AdminCancel, healthVars
<1>3. /\ future'[c] = Cancelled /\ future[c] = Pending
      /\ \A d \in Client \ {c} : future'[d] # future[d]
            => future[d] = Pending /\ future'[d] \in Worker
  BY <1>2, CancelLemma
<1>4. \A d \in Client : future'[d] = Pending
                           => future[d] = Pending /\ pc'[d] = pc[d]
  BY <1>2, <1>3, NoGrantAssumption DEF NoGrant
<1>5. HandlerHolds'
  BY <1>1, <1>2, <1>3, NoGrantAssumption
     DEF Consistent, HandlerHolds, Granted, NoGrant
<1>6. NobodyYet'
  BY <1>1, <1>2 DEF Consistent, NobodyYet
<1>7. /\ pc' \in [Client -> Locations] /\ connected' \in [Client -> BOOLEAN]
      /\ phase' \in Phases /\ probing' \in SUBSET Worker
  BY <1>1, <1>2 DEF Consistent
<1> QED
  BY <1>2, <1>4, <1>5, <1>6, <1>7, CancelLemma, DispatchingStep

\* What release_worker hands to _dispatch_next is consistent: the worker is idle,
\* its flag cleared, and nobody holds it.
LEMMA ReleasePool ==
  ASSUME IInv, NEW c \in Client, Release(c)
  PROVE  /\ future[c] \in Worker
         /\ PoolOK([status EXCEPT ![future[c]] = "idle"],
                   [dispatched EXCEPT ![future[c]] = FALSE],
                   queue,
                   [future EXCEPT ![c] = None])
<1> DEFINE w   == future[c]
           st  == [status EXCEPT ![w] = "idle"]
           dp  == [dispatched EXCEPT ![w] = FALSE]
           fut == [future EXCEPT ![c] = None]
<1>1. Consistent
  BY IInvIsConsistent
<1>2. pc[c] = "serving" /\ DispatchNext(st, dp, queue, fut) /\ Ends(c)
      /\ UNCHANGED <<phase, probing>>
  BY DEF Release, healthVars
<1>3. w \in Worker
  BY <1>1, <1>2 DEF Consistent, HandlerHolds, Granted
<1>4. /\ fut \in [Client -> NoGrant \cup Worker]
      /\ fut[c] = None /\ \A d \in Client \ {c} : fut[d] = future[d]
      /\ None \notin Worker /\ None # Pending /\ w # Pending
  BY <1>1, <1>3, NoGrantAssumption DEF Consistent, PoolOK, NoGrant
<1>5. /\ st \in [Worker -> Statuses]
      /\ \A v \in Worker \ {w} : st[v] = status[v]
  BY <1>1 DEF Consistent, PoolOK, Statuses
<1>6. /\ dp \in [Worker -> BOOLEAN] /\ ~dp[w]
      /\ \A v \in Worker \ {w} : dp[v] = dispatched[v]
  <2>1. dispatched \in [Worker -> BOOLEAN]
    BY <1>1 DEF Consistent, PoolOK
  <2> QED BY <2>1, <1>3
<1> HIDE DEF st, dp, fut
<1>7. PoolOK(st, dp, queue, fut)
  <2>1. ASSUME NEW d \in Client, fut[d] \in Worker PROVE dp[fut[d]]
    <3>1. d # c /\ fut[d] = future[d]
      BY <2>1, <1>4
    <3>2. fut[d] # w
      BY <2>1, <3>1, <1>1 DEF Consistent, PoolOK
    <3>3. dispatched[fut[d]]
      BY <2>1, <3>1, <1>1, Zenon DEF Consistent, PoolOK
    <3> QED BY <2>1, <3>2, <3>3, <1>6, Zenon
  <2>2. \A v \in Worker : dp[v] => st[v] # "idle"
    BY <1>1, <1>5, <1>6 DEF Consistent, PoolOK
  <2>3. \A d \in Client : fut[d] = Pending <=> InQueue(queue, d)
    BY <1>1, <1>4 DEF Consistent, PoolOK
  <2>4. \A d, e \in Client : fut[d] \in Worker /\ fut[d] = fut[e] => d = e
    BY <1>1, <1>4 DEF Consistent, PoolOK
  <2> QED BY <1>1, <1>4, <1>5, <1>6, <2>1, <2>2, <2>3, <2>4
          DEF Consistent, PoolOK
<1> USE DEF st, dp, fut
<1> QED BY <1>3, <1>7

\* release_worker: the worker is idle for as long as it takes _dispatch_next to
\* look at it.
LEMMA ReleaseKeepsIInv ==
  ASSUME IInv, NEW c \in Client, Release(c)
  PROVE  IInv'
<1> DEFINE w   == future[c]
           st  == [status EXCEPT ![w] = "idle"]
           dp  == [dispatched EXCEPT ![w] = FALSE]
           fut == [future EXCEPT ![c] = None]
<1>1. Consistent
  BY IInvIsConsistent
<1>2. pc[c] = "serving" /\ DispatchNext(st, dp, queue, fut) /\ Ends(c)
      /\ UNCHANGED <<phase, probing>>
  BY DEF Release, healthVars
<1>3. w \in Worker /\ PoolOK(st, dp, queue, fut)
  BY ReleasePool
<1>4. /\ fut[c] = None /\ \A d \in Client \ {c} : fut[d] = future[d]
      /\ None \notin Worker /\ None # Pending /\ w # Pending
  BY <1>1, <1>3, NoGrantAssumption DEF Consistent, PoolOK, NoGrant
<1> HIDE DEF st, dp, fut
<1>8. /\ PoolOK(status', dispatched', queue', future')
      /\ position' \in [Client -> Nat]
      /\ \A i \in 1..Len(queue') : position'[queue'[i]] = i
      /\ queue' # <<>> => Idle(status') = {}
      /\ Len(queue') <= Len(queue)
      /\ \A d \in Client : future'[d] # fut[d]
            => fut[d] = Pending /\ future'[d] \in Worker
  BY <1>2, <1>3, DispatchLemma
<1>9. /\ pc' \in [Client -> Locations] /\ connected' \in [Client -> BOOLEAN]
      /\ phase' \in Phases /\ probing' \in SUBSET Worker
      /\ pc'[c] = "away" /\ \A d \in Client \ {c} : pc'[d] = pc[d]
      /\ phase' = phase
  BY <1>1, <1>2 DEF Consistent, Ends, Locations
<1>10. \A d \in Client : future'[d] = Pending
                            => future[d] = Pending /\ pc'[d] = pc[d]
  BY <1>4, <1>8, <1>9, NoGrantAssumption DEF NoGrant
<1>11. HandlerHolds'
  BY <1>1, <1>4, <1>8, <1>9, NoGrantAssumption
     DEF Consistent, HandlerHolds, Granted, NoGrant
<1>12. NobodyYet'
  BY <1>1, <1>9 DEF Consistent, NobodyYet
<1> QED
  BY <1>8, <1>9, <1>10, <1>11, <1>12, DispatchingStep

\* The dispatch after a refresh round.
LEMMA RefreshEndKeepsIInv ==
  ASSUME IInv, RefreshEnd
  PROVE  IInv'
<1>1. Consistent
  BY IInvIsConsistent
<1>2. /\ PoolOK(status', dispatched', queue', future')
      /\ position' \in [Client -> Nat]
      /\ \A i \in 1..Len(queue') : position'[queue'[i]] = i
      /\ queue' # <<>> => Idle(status') = {}
      /\ Len(queue') <= Len(queue)
      /\ \A d \in Client : future'[d] # future[d]
            => future[d] = Pending /\ future'[d] \in Worker
  BY <1>1, DispatchLemma DEF RefreshEnd, Consistent
<1>3. UNCHANGED <<pc, connected, probing>> /\ phase' = "sleeping"
  BY DEF RefreshEnd
<1>4. /\ pc' \in [Client -> Locations] /\ connected' \in [Client -> BOOLEAN]
      /\ phase' \in Phases /\ probing' \in SUBSET Worker
  BY <1>1, <1>3 DEF Consistent, Phases
<1>5. \A d \in Client : future'[d] = Pending
                           => future[d] = Pending /\ pc'[d] = pc[d]
  BY <1>2, <1>3, NoGrantAssumption DEF NoGrant
<1>6. HandlerHolds' /\ NobodyYet'
  BY <1>1, <1>2, <1>3, NoGrantAssumption
     DEF Consistent, HandlerHolds, NobodyYet, Granted, NoGrant
<1> QED
  BY <1>2, <1>4, <1>5, <1>6, DispatchingStep

\* enqueue() with an idle worker: it was nobody's, and is leased at once.
LEMMA RequestImmediateKeepsIInv ==
  ASSUME IInv, NEW c \in Client, RequestImmediate(c)
  PROVE  IInv'
<1>1. Consistent
  BY IInvIsConsistent
<1>2. PICK w \in Worker :
        /\ status[w] = "idle"
        /\ status' = [status EXCEPT ![w] = DispatchStatus(c)]
        /\ dispatched' = [dispatched EXCEPT ![w] = TRUE]
        /\ future' = [future EXCEPT ![c] = w]
  BY DEF RequestImmediate, GetIdleWorker, Idle
<1>3. /\ pc[c] = "away" /\ phase # "starting"
      /\ pc' = [pc EXCEPT ![c] = IF Endpoint[c] \in Exclusive
                                 THEN "announcing" ELSE "serving"]
      /\ connected' = [connected EXCEPT ![c] = TRUE]
      /\ UNCHANGED <<queue, position, phase, probing>>
  BY DEF RequestImmediate, healthVars
<1>4. ~dispatched[w] /\ future[c] = None
  BY <1>1, <1>2, <1>3 DEF Consistent, PoolOK, HandlerHolds
<1>5. PoolOK(status', dispatched', queue', future')
  <2>1. status' \in [Worker -> Statuses] /\ status'[w] # "idle"
        /\ \A v \in Worker \ {w} : status'[v] = status[v]
    BY <1>1, <1>2, DispatchStatusLemma DEF Consistent, PoolOK
  <2>2. dispatched' \in [Worker -> BOOLEAN] /\ dispatched'[w] = TRUE
        /\ \A v \in Worker \ {w} : dispatched'[v] = dispatched[v]
    BY <1>1, <1>2 DEF Consistent, PoolOK
  <2>3. future' \in [Client -> NoGrant \cup Worker] /\ future'[c] = w
        /\ \A d \in Client \ {c} : future'[d] = future[d]
    BY <1>1, <1>2 DEF Consistent, PoolOK
  <2>4. \A d \in Client : future[d] # w
    <3>1. \A d \in Client : future[d] \in Worker => dispatched[future[d]]
      BY <1>1 DEF Consistent, PoolOK
    <3> QED BY <1>4, <3>1, Zenon
  <2>5. \A d, e \in Client : future'[d] \in Worker /\ future'[d] = future'[e]
                                => d = e
    BY ZenonT(30), <1>1, <2>3, <2>4 DEF Consistent, PoolOK
  <2>6. ASSUME NEW d \in Client, future'[d] \in Worker
        PROVE  dispatched'[future'[d]]
    <3>1. CASE d = c
      BY <3>1, <2>2, <2>3
    <3>2. CASE d # c
      <4>1. future'[d] = future[d] /\ future[d] # w
        BY <3>2, <2>3, <2>4
      <4>2. dispatched[future[d]]
        BY <4>1, <2>6, <1>1, Zenon DEF Consistent, PoolOK
      <4> QED BY <2>6, <4>1, <4>2, <2>2, Zenon
    <3> QED BY <3>1, <3>2
  <2>7. \A v \in Worker : dispatched'[v] => status'[v] # "idle"
    BY <1>1, <2>1, <2>2 DEF Consistent, PoolOK
  <2>8. \A d \in Client : future'[d] = Pending <=> InQueue(queue', d)
    BY <1>1, <1>3, <1>4, <2>3, NoGrantAssumption DEF Consistent, PoolOK, NoGrant
  <2> QED BY <1>1, <1>3, <2>1, <2>2, <2>3, <2>5, <2>6, <2>7, <2>8
          DEF Consistent, PoolOK
<1>6. /\ pc' \in [Client -> Locations] /\ pc'[c] \in {"announcing", "serving"}
      /\ \A d \in Client \ {c} : pc'[d] = pc[d]
      /\ connected' \in [Client -> BOOLEAN]
  BY <1>1, <1>3 DEF Consistent, Locations
<1>7. \A i \in 1..Len(queue') : pc'[queue'[i]] \in {"waiting", "notifying"}
  <2>1. \A i \in 1..Len(queue) : queue[i] \in Client
    BY <1>1, ElementOfSeq DEF Consistent, PoolOK
  <2>2. \A i \in 1..Len(queue) : queue[i] # c
    BY <1>1, <1>3 DEF Consistent
  <2> QED BY <1>1, <1>3, <1>6, <2>1, <2>2 DEF Consistent
<1>8. HandlerHolds'
  BY <1>1, <1>2, <1>6, NoGrantAssumption
     DEF Consistent, PoolOK, HandlerHolds, Granted, NoGrant
<1>9. Idle(status') \subseteq Idle(status)
  BY <1>1, <1>2, DispatchStatusLemma DEF Idle, Consistent, PoolOK
<1>10. WorkConserving' /\ QueueInOrder' /\ NobodyYet'
  BY <1>1, <1>3, <1>9 DEF Consistent, WorkConserving, QueueInOrder, NobodyYet
<1> QED
  BY <1>1, <1>3, <1>5, <1>6, <1>7, <1>8, <1>10, IInvIsConsistent DEF Consistent

\* enqueue() without an idle worker: a new ticket at the end of the queue.
LEMMA RequestQueuedKeepsIInv ==
  ASSUME IInv, NEW c \in Client, RequestQueued(c)
  PROVE  IInv'
<1>1. Consistent
  BY IInvIsConsistent
<1>2. /\ pc[c] = "away" /\ phase # "starting"
      /\ Idle(status) = {} /\ Len(queue) < MaxQueue
      /\ queue' = Append(queue, c) /\ position' = Positions(queue')
      /\ future' = [future EXCEPT ![c] = Pending]
      /\ pc' = [pc EXCEPT ![c] = IF Endpoint[c] \in Exclusive
                                 THEN "notifying" ELSE "waiting"]
      /\ connected' = [connected EXCEPT ![c] = TRUE]
      /\ UNCHANGED <<status, dispatched, phase, probing>>
  BY DEF RequestQueued, healthVars
<1>3. /\ future[c] = None /\ ~InQueue(queue, c)
  BY <1>1, <1>2, NoGrantAssumption DEF Consistent, PoolOK, HandlerHolds
<1>4. /\ queue' \in Seq(Client) /\ Len(queue) \in Nat
      /\ Len(queue') = Len(queue) + 1 /\ queue'[Len(queue) + 1] = c
      /\ \A i \in 1..Len(queue) : queue'[i] = queue[i] /\ queue[i] \in Client
  BY <1>1, <1>2, LenProperties, ElementOfSeq DEF Consistent, PoolOK
<1>5. NoRepeat(queue')
  BY SMTT(20), <1>1, <1>3, <1>4 DEF Consistent, PoolOK, NoRepeat, InQueue
<1>6. \A d \in Client : InQueue(queue', d) <=> InQueue(queue, d) \/ d = c
  BY <1>4 DEF InQueue
<1>7. PoolOK(status', dispatched', queue', future')
  <2>1. /\ future' \in [Client -> NoGrant \cup Worker] /\ future'[c] = Pending
        /\ \A d \in Client \ {c} : future'[d] = future[d]
    BY <1>1, <1>2 DEF Consistent, PoolOK, NoGrant
  <2>2. \A d, e \in Client : future'[d] \in Worker /\ future'[d] = future'[e]
                                => d = e
    BY <1>1, <2>1, NoGrantAssumption DEF Consistent, PoolOK, NoGrant
  <2>3. ASSUME NEW d \in Client, future'[d] \in Worker
        PROVE  dispatched'[future'[d]]
    <3>1. future'[d] = future[d]
      BY <2>1, <2>3, NoGrantAssumption DEF NoGrant
    <3> QED BY <1>1, <1>2, <2>3, <3>1, Zenon DEF Consistent, PoolOK
  <2>4. \A d \in Client : future'[d] = Pending <=> InQueue(queue', d)
    BY <1>1, <1>6, <2>1 DEF Consistent, PoolOK
  <2> QED BY <1>1, <1>2, <1>4, <1>5, <2>1, <2>2, <2>3, <2>4
          DEF Consistent, PoolOK
<1>8. /\ position' \in [Client -> Nat]
      /\ \A i \in 1..Len(queue') : position'[queue'[i]] = i
  BY <1>2, <1>4, <1>5, PositionsLemma
<1>9. /\ pc' \in [Client -> Locations] /\ pc'[c] \in {"waiting", "notifying"}
      /\ \A d \in Client \ {c} : pc'[d] = pc[d]
      /\ connected' \in [Client -> BOOLEAN]
  BY <1>1, <1>2 DEF Consistent, Locations
<1>10. \A i \in 1..Len(queue') : pc'[queue'[i]] \in {"waiting", "notifying"}
  <2> SUFFICES ASSUME NEW i \in 1..Len(queue')
               PROVE  pc'[queue'[i]] \in {"waiting", "notifying"}
    OBVIOUS
  <2>1. CASE i = Len(queue) + 1
    BY <2>1, <1>4, <1>9
  <2>2. CASE i \in 1..Len(queue)
    <3>1. queue'[i] = queue[i] /\ queue[i] \in Client \ {c}
      BY <2>2, <1>3, <1>4 DEF InQueue
    <3> QED BY <2>2, <3>1, <1>1, <1>9 DEF Consistent
  <2> QED BY <2>1, <2>2, <1>4
<1>11. HandlerHolds'
  <2>1. future' = [future EXCEPT ![c] = Pending] /\ Pending # None
    BY <1>2, NoGrantAssumption
  <2> QED BY <1>1, <2>1, <1>9 DEF Consistent, PoolOK, HandlerHolds, Granted
<1>12. WorkConserving' /\ QueueInOrder' /\ NobodyYet'
  BY <1>1, <1>2, <1>4, <1>8, QueueAssumption
     DEF Consistent, WorkConserving, QueueInOrder, NobodyYet
<1> QED
  BY <1>1, <1>2, <1>7, <1>8, <1>9, <1>10, <1>11, <1>12, IInvIsConsistent
     DEF Consistent

\* The handler's steps with its worker granted: none changes who holds what.
LEMMA HoldingStepKeepsIInv ==
  ASSUME IInv, NEW c \in Client,
         \/ WaitGranted(c) \/ AnnounceDone(c) \/ Pause(c) \/ Resume(c)
         \/ NotifyPosition(c) \/ NotifyDone(c) \/ Disconnect(c)
  PROVE  IInv'
<1>1. Consistent
  BY IInvIsConsistent
<1>2. UNCHANGED <<queue, position, future, phase, probing>>
  BY DEF WaitGranted, AnnounceDone, Pause, Resume, NotifyPosition, NotifyDone,
         Disconnect, poolVars, handlerVars, healthVars
<1>3. /\ pc' \in [Client -> Locations] /\ \A d \in Client \ {c} : pc'[d] = pc[d]
      /\ connected' \in [Client -> BOOLEAN]
  BY <1>1 DEF Consistent, Locations, handlerVars,
     WaitGranted, AnnounceDone, Pause, Resume, NotifyPosition, NotifyDone, Disconnect
<1>4. \/ pc'[c] = pc[c]
      \/ /\ pc[c] \in {"waiting", "notifying", "announcing"} /\ Granted(c)
         /\ pc'[c] \in {"announcing", "serving"}
      \/ /\ pc[c] \in {"waiting", "notifying"} /\ ~Granted(c)
         /\ pc'[c] \in {"waiting", "notifying"}
  BY <1>1, NoGrantAssumption
     DEF Consistent, HandlerHolds, PoolOK, handlerVars, Granted, NoGrant,
         WaitGranted, AnnounceDone, Pause, Resume, NotifyPosition, NotifyDone, Disconnect
<1>5. /\ \A i \in 1..Len(queue') : pc'[queue'[i]] \in {"waiting", "notifying"}
      /\ HandlerHolds'
  <2>1. \A i \in 1..Len(queue) : queue[i] \in Client /\ future[queue[i]] = Pending
    BY <1>1, ElementOfSeq DEF Consistent, PoolOK, InQueue
  <2>2. \A i \in 1..Len(queue) : pc'[queue[i]] \in {"waiting", "notifying"}
    BY <1>1, <1>3, <1>4, <2>1, NoGrantAssumption DEF Consistent, Granted, NoGrant
  <2>3. HandlerHolds'
    BY <1>1, <1>2, <1>3, <1>4 DEF Consistent, HandlerHolds, Granted
  <2> QED BY <1>2, <2>2, <2>3
<1>6. \/ UNCHANGED <<status, dispatched>>
      \/ /\ Granted(c)
         /\ status' \in [Worker -> Statuses] /\ status'[future[c]] # "idle"
         /\ \A w \in Worker \ {future[c]} : status'[w] = status[w]
         /\ \/ dispatched' = dispatched
            \/ dispatched' = [dispatched EXCEPT ![future[c]] = TRUE]
  <2>1. status \in [Worker -> Statuses]
    BY <1>1 DEF Consistent, PoolOK
  <2>2. CASE MarkBusy(c) /\ Granted(c)
    BY <2>1, <2>2, DispatchStatusLemma DEF MarkBusy, Granted
  <2>3. CASE Pause(c) \/ Resume(c)
    <3>1. Granted(c) /\ dispatched' = dispatched
      BY <1>1, <2>3 DEF Pause, Resume, Consistent, HandlerHolds
    <3>2. \/ status' = [status EXCEPT ![future[c]] = "duplex_paused"]
          \/ status' = [status EXCEPT ![future[c]] = "duplex_active"]
      BY <2>3 DEF Pause, Resume
    <3> QED BY <2>1, <3>1, <3>2 DEF Granted, Statuses
  <2> QED
    BY <1>1, <2>2, <2>3
       DEF WaitGranted, AnnounceDone, NotifyPosition, NotifyDone, Disconnect,
           poolVars, Consistent, HandlerHolds
<1>7. /\ PoolOK(status', dispatched', queue', future')
      /\ Idle(status') \subseteq Idle(status)
  <2>1. CASE UNCHANGED <<status, dispatched>>
    BY <1>1, <1>2, <2>1 DEF Consistent
  <2>2. CASE ~UNCHANGED <<status, dispatched>>
    <3>1. /\ future[c] \in Worker /\ dispatched[future[c]] = TRUE
          /\ dispatched \in [Worker -> BOOLEAN]
      BY <1>1, <1>6, <2>2 DEF Consistent, PoolOK, Granted
    <3>2. dispatched' = dispatched
      BY <1>6, <2>2, <3>1
    <3>3. \A w \in Worker : dispatched'[w] => status'[w] # "idle"
      BY <1>1, <1>6, <2>2, <3>2 DEF Consistent, PoolOK
    <3> QED BY <1>1, <1>2, <1>6, <2>2, <3>2, <3>3 DEF Consistent, PoolOK, Idle
  <2> QED BY <2>1, <2>2
<1>8. WorkConserving' /\ QueueInOrder'
  BY <1>1, <1>2, <1>7 DEF Consistent, WorkConserving, QueueInOrder
<1>9. NobodyYet'
  BY <1>1, <1>2, <1>3, <1>4 DEF Consistent, NobodyYet
<1> QED
  BY <1>1, <1>2, <1>3, <1>5, <1>7, <1>8, <1>9, IInvIsConsistent DEF Consistent

\* A handler that ends without a queued ticket: cancelled, or leaving its worker
\* behind.
LEMMA EndKeepsIInv ==
  ASSUME IInv, NEW c \in Client, future[c] # Pending, Ends(c),
         future' = [future EXCEPT ![c] = None],
         UNCHANGED <<poolVars, healthVars>>
  PROVE  IInv'
<1>1. Consistent
  BY IInvIsConsistent
<1>2. UNCHANGED <<status, dispatched, queue, position, phase, probing>>
  BY DEF poolVars, healthVars
<1>3. /\ pc' \in [Client -> Locations] /\ pc'[c] = "away"
      /\ \A d \in Client \ {c} : pc'[d] = pc[d]
      /\ connected' \in [Client -> BOOLEAN]
  BY <1>1 DEF Consistent, Ends, Locations
<1>4. /\ future' \in [Client -> NoGrant \cup Worker]
      /\ future'[c] = None /\ None \notin Worker /\ None # Pending
      /\ \A d \in Client \ {c} : future'[d] = future[d]
  BY <1>1, NoGrantAssumption DEF Consistent, PoolOK, NoGrant
<1>5. PoolOK(status', dispatched', queue', future')
  <2>1. ASSUME NEW d \in Client, future'[d] \in Worker
        PROVE  dispatched'[future'[d]]
    <3>1. future'[d] = future[d]
      BY <1>4, <2>1
    <3> QED BY <1>1, <1>2, <2>1, <3>1, Zenon DEF Consistent, PoolOK
  <2>2. \A d \in Client : future'[d] = Pending <=> InQueue(queue', d)
    BY <1>1, <1>2, <1>4 DEF Consistent, PoolOK
  <2> QED BY <1>1, <1>2, <1>4, <2>1, <2>2 DEF Consistent, PoolOK
<1>6. \A i \in 1..Len(queue') : pc'[queue'[i]] \in {"waiting", "notifying"}
  <2>1. \A i \in 1..Len(queue) : queue[i] \in Client /\ future[queue[i]] = Pending
    BY <1>1, ElementOfSeq DEF Consistent, PoolOK, InQueue
  <2> QED BY <1>1, <1>2, <1>3, <2>1 DEF Consistent
<1>7. HandlerHolds'
  BY <1>1, <1>3, <1>4 DEF Consistent, HandlerHolds, Granted
<1>8. WorkConserving' /\ QueueInOrder' /\ NobodyYet'
  BY <1>1, <1>2, <1>3 DEF Consistent, WorkConserving, QueueInOrder, NobodyYet
<1> QED
  BY <1>1, <1>2, <1>3, <1>5, <1>6, <1>7, <1>8, IInvIsConsistent DEF Consistent

\* The health check between two dispatches: no reply makes a leased worker idle,
\* and until the round ends WorkConserving asks nothing.
LEMMA ProbeKeepsIInv ==
  ASSUME IInv,
         RefreshStart \/ \E w \in Worker, r \in Replies : ProbeReply(w, r)
  PROVE  IInv'
<1>1. Consistent
  BY IInvIsConsistent
<1>2. CASE RefreshStart
  <2>1. UNCHANGED <<status, dispatched, queue, position, future, pc, connected>>
        /\ phase' = "refreshing" /\ probing' = Worker
    BY <1>2 DEF RefreshStart, poolVars, handlerVars
  <2>2. HandlerHolds' /\ WorkConserving' /\ QueueInOrder' /\ NobodyYet'
    BY <1>1, <2>1 DEF Consistent, HandlerHolds, Granted, WorkConserving,
                      QueueInOrder, NobodyYet
  <2> QED BY <1>1, <2>1, <2>2, IInvIsConsistent DEF Consistent, Phases
<1>3. ASSUME NEW w \in Worker, NEW r \in Replies, ProbeReply(w, r)
      PROVE  IInv'
  <2>1. /\ phase \in {"starting", "refreshing"} /\ probing' = probing \ {w}
        /\ UNCHANGED <<dispatched, queue, position, future, pc, connected, phase>>
        /\ \/ status' = status
           \/ status' = [status EXCEPT ![w] = r] /\ (dispatched[w] => r # "idle")
    BY <1>3 DEF ProbeReply, handlerVars
  <2>2. /\ status' \in [Worker -> Statuses]
        /\ \A v \in Worker : dispatched[v] => status'[v] # "idle"
    <3>1. r \in Statuses /\ status \in [Worker -> Statuses]
      BY <1>1, RepliesAssumption DEF Consistent, PoolOK
    <3>2. status' \in [Worker -> Statuses]
      BY <2>1, <3>1
    <3>3. ASSUME NEW v \in Worker, dispatched[v] PROVE status'[v] # "idle"
      <4>1. status[v] # "idle"
        BY <1>1, <3>3, Zenon DEF Consistent, PoolOK
      <4>2. CASE v = w
        BY <2>1, <3>1, <3>3, <4>1, <4>2
      <4>3. CASE v # w
        BY <2>1, <3>1, <4>1, <4>3
      <4> QED BY <4>2, <4>3
    <3> QED BY <3>2, <3>3
  <2>3. PoolOK(status', dispatched', queue', future')
    BY <1>1, <2>1, <2>2 DEF Consistent, PoolOK
  <2>4. HandlerHolds' /\ QueueInOrder' /\ NobodyYet'
    BY <1>1, <2>1 DEF Consistent, HandlerHolds, Granted, QueueInOrder, NobodyYet
  <2>5. WorkConserving'
    <3>1. CASE phase = "refreshing"
      BY <2>1, <3>1 DEF WorkConserving
    <3>2. CASE phase = "starting"
      <4>1. \A c \in Client : ~InQueue(queue, c)
        BY <1>1, <3>2, NoGrantAssumption
           DEF Consistent, PoolOK, HandlerHolds, NobodyYet
      <4>2. queue = <<>>
        <5>1. queue \in Seq(Client) /\ Len(queue) \in Nat
          BY <1>1, LenProperties DEF Consistent, PoolOK
        <5>2. ~(Len(queue) \in Nat \ {0})
          <6> SUFFICES ASSUME Len(queue) \in Nat \ {0} PROVE FALSE
            OBVIOUS
          <6>1. 1 \in 1..Len(queue) /\ queue[1] \in Client
            BY <5>1, ElementOfSeq
          <6> QED BY <4>1, <6>1 DEF InQueue
        <5> QED BY <5>1, <5>2, EmptySeq
      <4> QED BY <2>1, <4>2 DEF WorkConserving
    <3> QED BY <2>1, <3>1, <3>2
  <2> QED
    BY <1>1, <2>1, <2>3, <2>4, <2>5, IInvIsConsistent DEF Consistent
<1> QED BY <1>2, <1>3

\* stop() ends the health check: nothing else changes, and from here on
\* WorkConserving asks nothing until the queue is cleared.
LEMMA StopHealthCheckKeepsIInv ==
  ASSUME IInv, StopHealthCheck
  PROVE  IInv'
<1>1. Consistent
  BY IInvIsConsistent
<1>2. /\ phase' = "stopping" /\ probing' = {}
      /\ UNCHANGED <<status, dispatched, queue, position, future, pc, connected>>
  BY DEF StopHealthCheck, poolVars, handlerVars
<1>3. HandlerHolds' /\ WorkConserving' /\ QueueInOrder' /\ NobodyYet'
  BY <1>1, <1>2 DEF Consistent, HandlerHolds, Granted, WorkConserving,
                    QueueInOrder, NobodyYet
<1> QED BY <1>1, <1>2, <1>3, IInvIsConsistent DEF Consistent, Phases

\* stop() goes on: every queued ticket is cancelled.
LEMMA CancelQueuedKeepsIInv ==
  ASSUME IInv, CancelQueued
  PROVE  IInv'
<1>1. Consistent
  BY IInvIsConsistent
<1>2. /\ phase' = "stopped" /\ queue' = <<>>
      /\ position' = Positions(<<>>)
      /\ future' = [c \in Client |-> IF Queued(c) THEN Cancelled ELSE future[c]]
      /\ UNCHANGED <<status, dispatched, pc, connected, probing>>
  BY DEF CancelQueued
<1>3. queue' \in Seq(Client) /\ Len(queue') = 0 /\ NoRepeat(queue')
  BY <1>2, EmptySeq DEF NoRepeat
<1>4. /\ position' \in [Client -> Nat]
      /\ \A i \in 1..Len(queue') : position'[queue'[i]] = i
  BY <1>2, <1>3, PositionsLemma
<1>5. \A c \in Client : /\ Queued(c) <=> future[c] = Pending
                        /\ future[c] = Pending => future'[c] = Cancelled
                        /\ future[c] # Pending => future'[c] = future[c]
  BY <1>1, <1>2 DEF Consistent, PoolOK, Queued
<1>6. /\ future' \in [Client -> NoGrant \cup Worker]
      /\ \A c \in Client : future'[c] # Pending
      /\ \A c \in Client : future'[c] \in Worker => future'[c] = future[c]
      /\ \A c \in Client : future'[c] = None <=> future[c] = None
  BY <1>1, <1>2, <1>5, NoGrantAssumption DEF Consistent, PoolOK, NoGrant
<1>7. \A c \in Client : ~InQueue(queue', c)
  BY <1>3 DEF InQueue
<1>8. PoolOK(status', dispatched', queue', future')
  <2>1. ASSUME NEW c \in Client, future'[c] \in Worker
        PROVE  dispatched'[future'[c]]
    <3>1. future'[c] = future[c]
      BY <2>1, <1>6
    <3> QED BY <1>1, <1>2, <2>1, <3>1, Zenon DEF Consistent, PoolOK
  <2>2. \A c, d \in Client : future'[c] \in Worker /\ future'[c] = future'[d]
                                => c = d
    BY <1>1, <1>6 DEF Consistent, PoolOK
  <2> QED BY <1>1, <1>2, <1>3, <1>6, <1>7, <2>1, <2>2 DEF Consistent, PoolOK
<1>9. HandlerHolds'
  BY <1>1, <1>2, <1>5, <1>6, NoGrantAssumption
     DEF Consistent, HandlerHolds, Granted, NoGrant
<1>10. WorkConserving' /\ QueueInOrder' /\ NobodyYet'
  BY <1>2, <1>3, <1>4, QueueAssumption DEF WorkConserving, QueueInOrder, NobodyYet
<1> QED
  BY <1>1, <1>2, <1>3, <1>4, <1>8, <1>9, <1>10, IInvIsConsistent
     DEF Consistent, Phases

\* Every step keeps the invariant.
LEMMA NextIInv == IInv /\ [Next]_vars => IInv'
<1> SUFFICES ASSUME IInv, [Next]_vars PROVE IInv'
  OBVIOUS
<1>1. ASSUME NEW c \in Client, HandlerStep(c) PROVE IInv'
  <2>1. CASE WaitGranted(c) \/ NotifyDone(c) \/ AnnounceDone(c)
    BY <2>1, HoldingStepKeepsIInv
  <2>2. CASE WaitCancelled(c)
    BY <2>2, EndKeepsIInv, NoGrantAssumption DEF WaitCancelled
  <2>3. CASE ChatPollsDisconnected(c)
    BY <2>3, GiveUpKeepsIInv DEF ChatPollsDisconnected
  <2>4. CASE Release(c)
    BY <2>4, ReleaseKeepsIInv
  <2> QED BY <1>1, <2>1, <2>2, <2>3, <2>4 DEF HandlerStep
<1>2. ASSUME NEW c \in Client, ClientStep(c) PROVE IInv'
  <2>1. CASE RequestImmediate(c)
    BY <2>1, RequestImmediateKeepsIInv
  <2>2. CASE RequestQueued(c)
    BY <2>2, RequestQueuedKeepsIInv
  <2>3. CASE NotifyPosition(c) \/ Pause(c) \/ Resume(c) \/ Disconnect(c)
    BY <2>3, HoldingStepKeepsIInv
  <2>4. CASE NotifyFails(c)
    <3>1. CASE Queued(c)
      BY <2>4, <3>1, GiveUpKeepsIInv DEF NotifyFails
    <3>2. CASE ~Queued(c)
      <4>1. future[c] # Pending
        BY <3>2 DEF IInv, QueuedIsPending
      <4> QED BY <2>4, <3>2, <4>1, EndKeepsIInv DEF NotifyFails
    <3> QED BY <3>1, <3>2
  <2>5. CASE AnnounceFails(c)
    <3>1. future[c] # Pending
      BY <2>5, NoGrantAssumption
         DEF AnnounceFails, IInv, HandlerHolds, Granted, NoGrant
    <3> QED BY <2>5, <3>1, EndKeepsIInv DEF AnnounceFails
  <2>6. CASE AdminCancel(c)
    BY <2>6, AdminCancelKeepsIInv
  <2> QED BY <1>2, <2>1, <2>2, <2>3, <2>4, <2>5, <2>6 DEF ClientStep
<1>3. CASE HealthStep
  BY <1>3, ProbeKeepsIInv, RefreshEndKeepsIInv DEF HealthStep
<1>4. CASE StopHealthCheck \/ CancelQueued
  BY <1>4, StopHealthCheckKeepsIInv, CancelQueuedKeepsIInv
<1>5. CASE UNCHANGED vars
  BY <1>5 DEF vars, poolVars, handlerVars, healthVars, IInv, TypeOK,
     ExclusiveLease, LeasedNotIdle, QueuedIsPending, HandlerHolds,
     WorkConserving, QueueInOrder, NobodyYet, Granted, Queued, InQueue, Idle
<1> QED
  BY <1>1, <1>2, <1>3, <1>4, <1>5 DEF Next
-----------------------------------------------------------------------------
(***************************************************************************)
(* The theorems.                                                           *)
(***************************************************************************)

\* The inductive invariant holds of the pool, whatever the number of workers and
\* clients, the endpoints, the capacity and the replies of the probes.
THEOREM Invariance == Spec => []IInv
  BY InitIInv, NextIInv, PTL DEF Spec

\* The variables of the pool and of its handlers keep their types.
THEOREM TypeCorrect == Spec => []TypeOK
<1>1. IInv => TypeOK
  BY DEF IInv
<1> QED BY <1>1, Invariance, PTL

\* No worker is ever leased to two handlers, and no leased worker is one the
\* scheduler could pick: the promise that _dispatch_next's early mark_busy, the
\* dispatch flag and the health check's guard make together.
THEOREM LeasesAreExclusive == Spec => [](ExclusiveLease /\ LeasedNotIdle)
<1>1. IInv => ExclusiveLease /\ LeasedNotIdle
  BY DEF IInv
<1> QED BY <1>1, Invariance, PTL

\* No request is lost: a pending future belongs to exactly one queued ticket.
THEOREM NoRequestLost == Spec => [](QueuedIsPending /\ HandlerHolds)
<1>1. IInv => QueuedIsPending /\ HandlerHolds
  BY DEF IInv
<1> QED BY <1>1, Invariance, PTL

\* No ticket waits beside an idle worker, outside of a refresh round.
THEOREM NobodyWaitsForNothing == Spec => []WorkConserving
<1>1. IInv => WorkConserving
  BY DEF IInv
<1> QED BY <1>1, Invariance, PTL

\* The queue respects its capacity and every position told to a client is exact.
THEOREM PositionsExact == Spec => []QueueInOrder
<1>1. IInv => QueueInOrder
  BY DEF IInv
<1> QED BY <1>1, Invariance, PTL

\* A lease ends only with its holder's handler: no cancellation, dispatch, health
\* reply or shutdown takes a worker away from the handler that holds it.
LEMMA OnlyHolderFreesNext ==
  ASSUME IInv, [Next]_vars
  PROVE  [OnlyHolderFreesStep]_vars
<1> SUFFICES ASSUME NEW d \in Client, Granted(d), future'[d] # future[d]
             PROVE  pc'[d] = "away"
  BY DEF OnlyHolderFreesStep
<1>1. Consistent
  BY IInvIsConsistent
<1>2. future[d] # Pending /\ future[d] # Cancelled /\ future[d] # None
  BY NoGrantAssumption DEF Granted, NoGrant
<1>3. ASSUME NEW c \in Client, HandlerStep(c) PROVE pc'[d] = "away"
  <2>1. CASE WaitGranted(c) \/ NotifyDone(c) \/ AnnounceDone(c)
    BY <2>1 DEF WaitGranted, NotifyDone, AnnounceDone
  <2>2. CASE WaitCancelled(c)
    BY <1>1, <1>2, <2>2 DEF WaitCancelled, Consistent, PoolOK
  <2>3. CASE ChatPollsDisconnected(c)
    BY <1>2, <2>3, CancelLemma DEF ChatPollsDisconnected
  <2>4. CASE Release(c)
    <3>1. CASE d = c
      BY <1>1, <2>4, <3>1 DEF Release, Ends, Consistent
    <3>2. CASE d # c
      <4>1. \E n \in 0..Len(queue) :
               ~(\E i \in 1..n : queue[i] = d) => future'[d] = future[d]
        BY <1>1, <2>4, <3>2 DEF Release, DispatchNext, Consistent, PoolOK
      <4>2. ~InQueue(queue, d)
        BY <1>1, <1>2 DEF Consistent, PoolOK
      <4>3. Len(queue) \in Nat
        BY <1>1, LenProperties DEF Consistent, PoolOK
      <4>4. future'[d] = future[d]
        BY <4>1, <4>2, <4>3 DEF InQueue
      <4> QED BY <4>4
    <3> QED BY <3>1, <3>2
  <2> QED BY <1>3, <2>1, <2>2, <2>3, <2>4 DEF HandlerStep
<1>4. ASSUME NEW c \in Client, ClientStep(c) PROVE pc'[d] = "away"
  <2>1. CASE RequestImmediate(c) \/ RequestQueued(c)
    BY <1>1, <1>2, <2>1
       DEF RequestImmediate, RequestQueued, Consistent, HandlerHolds, PoolOK
  <2>2. CASE NotifyPosition(c) \/ Pause(c) \/ Resume(c) \/ Disconnect(c)
    BY <2>2 DEF NotifyPosition, Pause, Resume, Disconnect, handlerVars
  <2>3. CASE NotifyFails(c)
    <3>1. CASE Queued(c)
      BY <1>2, <2>3, <3>1, CancelLemma DEF NotifyFails
    <3>2. CASE ~Queued(c)
      BY <1>1, <2>3, <3>2 DEF NotifyFails, Ends, Consistent, PoolOK
    <3> QED BY <3>1, <3>2
  <2>4. CASE AnnounceFails(c)
    BY <1>1, <2>4 DEF AnnounceFails, Ends, Consistent, PoolOK
  <2>5. CASE AdminCancel(c)
    BY <1>2, <2>5, CancelLemma DEF AdminCancel
  <2> QED BY <1>4, <2>1, <2>2, <2>3, <2>4, <2>5 DEF ClientStep
<1>5. CASE HealthStep
  <2>1. CASE RefreshEnd
    BY <1>1, <1>2, <2>1, DispatchLemma DEF RefreshEnd, Consistent
  <2> QED BY <1>5, <2>1 DEF HealthStep, RefreshStart, ProbeReply, handlerVars
<1>6. CASE StopHealthCheck \/ CancelQueued
  BY <1>1, <1>2, <1>6
     DEF StopHealthCheck, CancelQueued, Queued, Consistent, PoolOK, handlerVars
<1>7. CASE UNCHANGED vars
  BY <1>7 DEF vars, handlerVars
<1> QED
  BY <1>3, <1>4, <1>5, <1>6, <1>7 DEF Next

\* Whatever the sizes, a worker that a handler holds is freed by the end of that
\* handler alone (the finally block of the endpoint).
THEOREM LeaseEndsWithItsHolder == Spec => OnlyHolderFrees
<1>1. IInv /\ [Next]_vars => [OnlyHolderFreesStep]_vars
  BY OnlyHolderFreesNext
<1> QED
  BY <1>1, Invariance, PTL DEF Spec, OnlyHolderFrees
-----------------------------------------------------------------------------
(***************************************************************************)
(* First come, first served.                                               *)
(***************************************************************************)

\* _dispatch_next on the queue q grants a ticket only with all those before it,
\* and moves nobody back.
LEMMA DispatchIsFifo ==
  ASSUME NEW st, NEW dp, NEW q, NEW fut,
         PoolOK(st, dp, q, fut), DispatchNext(st, dp, q, fut),
         NEW i \in 1..Len(q), NEW j \in 1..Len(q)
  PROVE  /\ i < j /\ future'[q[j]] \in Worker => ~InQueue(queue', q[i])
         /\ InQueue(queue', q[i]) => position'[q[i]] <= i
<1>0. PICK n \in 0..Len(q) : \E f \in [1..n -> Idle(st)] :
        /\ queue' = Drop(q, n)
        /\ position' = Positions(queue')
        /\ future' = [c \in Client |->
                        IF \E k \in 1..n : q[k] = c
                        THEN f[CHOOSE k \in 1..n : q[k] = c]
                        ELSE fut[c]]
  BY DEF DispatchNext
<1>1. PICK f \in [1..n -> Idle(st)] :
        /\ queue' = Drop(q, n)
        /\ position' = Positions(queue')
        /\ future' = [c \in Client |->
                        IF \E k \in 1..n : q[k] = c
                        THEN f[CHOOSE k \in 1..n : q[k] = c]
                        ELSE fut[c]]
  BY <1>0
<1>2. /\ Len(q) \in Nat /\ q \in [1..Len(q) -> Client]
      /\ q \in Seq(Client) /\ NoRepeat(q)
  BY LenProperties DEF PoolOK
<1>3. /\ queue' \in Seq(Client) /\ NoRepeat(queue')
      /\ Len(queue') = Len(q) - n
      /\ \A c : InQueue(queue', c)
                  <=> InQueue(q, c) /\ ~ \E k \in 1..n : q[k] = c
  BY <1>1, <1>2, DropLemma
<1>4. \A k \in 1..Len(queue') : position'[queue'[k]] = k /\ queue'[k] = q[k + n]
  BY <1>1, <1>3, PositionsLemma DEF Drop
<1>5. ASSUME i < j, future'[q[j]] \in Worker PROVE ~InQueue(queue', q[i])
  <2>1. CASE j <= n
    BY <1>2, <1>3, <1>5, <2>1
  <2>2. CASE ~(j <= n)
    <3>1. ~ \E k \in 1..n : q[k] = q[j]
      BY <1>2, <2>2 DEF NoRepeat
    <3>2. q[j] \in Client /\ InQueue(q, q[j])
      BY <1>2 DEF InQueue
    <3>3. future'[q[j]] = fut[q[j]] /\ fut[q[j]] = Pending
      BY <1>1, <3>1, <3>2 DEF PoolOK
    <3> QED BY <1>5, <3>3, NoGrantAssumption DEF NoGrant
  <2> QED BY <2>1, <2>2
<1>6. ASSUME InQueue(queue', q[i]) PROVE position'[q[i]] <= i
  <2>1. PICK k \in 1..Len(queue') : queue'[k] = q[i]
    BY <1>6 DEF InQueue
  <2>2. k + n \in 1..Len(q) /\ q[k + n] = q[i] /\ position'[q[i]] = k
    BY <1>2, <1>3, <1>4, <2>1
  <2>3. k + n = i
    BY <1>2, <2>2 DEF NoRepeat
  <2> QED BY <2>2, <2>3
<1> QED BY <1>5, <1>6

\* The place of a queued client is where the queue has it.
LEMMA PlaceLemma ==
  ASSUME IInv, NEW c \in Client, Queued(c)
  PROVE  position[c] \in 1..Len(queue) /\ queue[position[c]] = c
  BY DEF IInv, QueueInOrder, Queued, InQueue

\* So it is when _dispatch_next is called on the whole queue ...
LEMMA DispatchAllIsFifo ==
  ASSUME IInv, NEW st, NEW dp, NEW fut,
         PoolOK(st, dp, queue, fut), DispatchNext(st, dp, queue, fut)
  PROVE  QueueIsFifoStep
<1> SUFFICES ASSUME NEW c \in Client, NEW d \in Client, Queued(c)
             PROVE  /\ Queued(d) /\ position[c] < position[d] /\ future'[d] \in Worker
                         => ~InQueue(queue', c)
                    /\ InQueue(queue', c) => position'[c] <= position[c]
  BY DEF QueueIsFifoStep, Queued
<1>1. position[c] \in 1..Len(queue) /\ queue[position[c]] = c
  BY PlaceLemma
<1>2. Queued(d) => position[d] \in 1..Len(queue) /\ queue[position[d]] = d
  BY PlaceLemma
<1> QED BY <1>1, <1>2, DispatchIsFifo

\* ... or on the queue without the one who leaves.
LEMMA CancelIsFifo ==
  ASSUME IInv, NEW b \in Client, NEW left \in {None, Cancelled},
         CancelTicket(b, left)
  PROVE  QueueIsFifoStep
<1>1. PICK k \in 1..Len(queue) :
        /\ queue[k] = b
        /\ DispatchNext(status, dispatched, Without(queue, k),
                        [future EXCEPT ![b] = left])
  BY DEF CancelTicket
<1>2. PoolOK(status, dispatched, queue, future)
  BY IInvIsConsistent DEF Consistent
<1>3. queue \in Seq(Client) /\ NoRepeat(queue) /\ Len(queue) \in Nat
  BY <1>2, LenProperties DEF PoolOK
<1> DEFINE q == Without(queue, k)
           fut == [future EXCEPT ![b] = left]
<1>4. /\ q \in Seq(Client) /\ NoRepeat(q) /\ Len(q) = Len(queue) - 1
      /\ \A c : InQueue(q, c) <=> InQueue(queue, c) /\ c # b
  BY <1>1, <1>3, WithoutLemma
<1>5. /\ fut \in [Client -> NoGrant \cup Worker]
      /\ fut[b] = left /\ \A d \in Client \ {b} : fut[d] = future[d]
      /\ left \notin Worker /\ left # Pending /\ Pending \notin Worker
  BY <1>2, NoGrantAssumption DEF PoolOK, NoGrant
<1>6. DispatchNext(status, dispatched, q, fut)
  BY <1>1
<1>7. \A i \in 1..Len(q) : q[i] = IF i < k THEN queue[i] ELSE queue[i + 1]
  BY <1>3, <1>4 DEF Without
<1> HIDE DEF q, fut
<1>8. PoolOK(status, dispatched, q, fut)
  BY <1>2, <1>4, <1>5 DEF PoolOK
<1>9. future'[b] = left /\ ~InQueue(queue', b)
  BY <1>4, <1>5, <1>6, <1>8, DispatchLemma DEF PoolOK
<1> DEFINE place(c) == IF position[c] < k THEN position[c] ELSE position[c] - 1
<1>10. ASSUME NEW c \in Client, Queued(c), c # b
       PROVE  /\ place(c) \in 1..Len(q) /\ q[place(c)] = c
              /\ position[c] \in Nat /\ position[c] # k
  <2>1. position[c] \in 1..Len(queue) /\ queue[position[c]] = c /\ position[c] # k
    BY <1>1, <1>10, PlaceLemma
  <2> QED BY <2>1, <1>3, <1>4, <1>7
<1>11. ASSUME NEW c \in Client, NEW d \in Client, Queued(c)
       PROVE  /\ Queued(d) /\ position[c] < position[d] /\ future'[d] \in Worker
                    => ~InQueue(queue', c)
              /\ InQueue(queue', c) => position'[c] <= position[c]
  <2>1. CASE c = b
    BY <1>9, <2>1
  <2>2. CASE c # b
    <3>1. /\ place(c) \in 1..Len(q) /\ q[place(c)] = c
          /\ position[c] \in Nat /\ position[c] # k
      BY <1>10, <1>11, <2>2
    <3>2. InQueue(queue', c) => position'[c] <= place(c)
      BY <1>6, <1>8, <3>1, DispatchIsFifo
    <3>3. ASSUME Queued(d), position[c] < position[d], future'[d] \in Worker
          PROVE  ~InQueue(queue', c)
      <4>1. d # b
        BY <1>5, <1>9, <3>3
      <4>2. /\ place(d) \in 1..Len(q) /\ q[place(d)] = d
            /\ position[d] \in Nat /\ position[d] # k
        BY <1>10, <3>3, <4>1
      <4>3. place(c) < place(d)
        BY <3>1, <3>3, <4>2
      <4> HIDE DEF place
      <4> QED BY <1>6, <1>8, <3>1, <3>3, <4>2, <4>3, DispatchIsFifo
    <3>4. place(c) <= position[c] /\ place(c) \in Int
      BY <3>1
    <3>5. InQueue(queue', c) => position'[c] \in Nat
      BY <1>6, <1>8, DispatchLemma
    <3> HIDE DEF place
    <3> QED BY <3>1, <3>2, <3>3, <3>4, <3>5
  <2> QED BY <2>1, <2>2
<1> QED BY <1>11 DEF QueueIsFifoStep, Queued

\* A step that leaves the queue alone and grants no ticket of it.
LEMMA QueueAloneIsFifo ==
  ASSUME IInv, UNCHANGED <<queue, position>>,
         \A c \in Client : Queued(c) => future'[c] \notin Worker
  PROVE  QueueIsFifoStep
<1>1. position \in [Client -> Nat]
  BY DEF IInv, TypeOK
<1> QED BY <1>1 DEF QueueIsFifoStep, Queued

LEMMA FifoNext ==
  ASSUME IInv, [Next]_vars
  PROVE  QueueIsFifoStep
<1>1. Consistent /\ PoolOK(status, dispatched, queue, future)
  BY IInvIsConsistent DEF Consistent
<1>2. \A c \in Client : Queued(c) => future[c] = Pending /\ future[c] \notin Worker
  BY <1>1, NoGrantAssumption DEF PoolOK, Queued, NoGrant
<1>3. queue \in Seq(Client) /\ NoRepeat(queue) /\ Len(queue) \in Nat
  BY <1>1, LenProperties DEF PoolOK
<1>4. ASSUME NEW c \in Client, HandlerStep(c) PROVE QueueIsFifoStep
  <2>1. CASE WaitGranted(c) \/ NotifyDone(c) \/ AnnounceDone(c)
    BY <1>2, <2>1, QueueAloneIsFifo DEF WaitGranted, NotifyDone, AnnounceDone, poolVars
  <2>2. CASE WaitCancelled(c)
    BY <1>1, <1>2, <2>2, QueueAloneIsFifo, NoGrantAssumption
       DEF WaitCancelled, poolVars, PoolOK, NoGrant
  <2>3. CASE ChatPollsDisconnected(c)
    BY <2>3, CancelIsFifo DEF ChatPollsDisconnected
  <2>4. CASE Release(c)
    BY <2>4, ReleasePool, DispatchAllIsFifo DEF Release
  <2> QED BY <1>4, <2>1, <2>2, <2>3, <2>4 DEF HandlerStep
<1>5. ASSUME NEW c \in Client, ClientStep(c) PROVE QueueIsFifoStep
  <2>1. CASE RequestImmediate(c)
    <3>1. future[c] = None /\ UNCHANGED <<queue, position>>
      BY <1>1, <2>1 DEF RequestImmediate, Consistent, HandlerHolds
    <3>2. PICK w \in Worker : future' = [future EXCEPT ![c] = w]
      BY <2>1 DEF RequestImmediate, GetIdleWorker, Idle
    <3>3. \A d \in Client : Queued(d) => d # c /\ future'[d] = future[d]
      BY <1>1, <1>2, <3>1, <3>2, NoGrantAssumption DEF PoolOK, NoGrant
    <3> QED BY <1>2, <3>1, <3>3, QueueAloneIsFifo
  <2>2. CASE RequestQueued(c)
    <3>1. future[c] = None
      BY <1>1, <2>2 DEF RequestQueued, Consistent, HandlerHolds
    <3>2. /\ queue' = Append(queue, c) /\ position' = Positions(queue')
          /\ future' = [future EXCEPT ![c] = Pending]
      BY <2>2 DEF RequestQueued
    <3>3. ~InQueue(queue, c)
      BY <1>1, <3>1, NoGrantAssumption DEF PoolOK, NoGrant
    <3>4. /\ queue' \in Seq(Client) /\ Len(queue') = Len(queue) + 1
          /\ \A i \in 1..Len(queue) : queue'[i] = queue[i]
          /\ queue'[Len(queue) + 1] = c
      BY <1>3, <3>2
    <3>5. NoRepeat(queue')
      BY <1>3, <3>3, <3>4 DEF NoRepeat, InQueue
    <3>6. \A i \in 1..Len(queue') : position'[queue'[i]] = i
      BY <3>2, <3>4, <3>5, PositionsLemma
    <3>7. \A d \in Client : future'[d] \in Worker => ~Queued(d)
      BY <1>1, <1>2, <3>2, NoGrantAssumption DEF PoolOK, NoGrant
    <3>8. ASSUME NEW d \in Client, Queued(d) PROVE position'[d] <= position[d]
      <4>1. position[d] \in 1..Len(queue) /\ queue[position[d]] = d
        BY <3>8, PlaceLemma
      <4>2. position[d] \in 1..Len(queue') /\ queue'[position[d]] = d
        BY <1>3, <3>4, <4>1
      <4>3. position'[d] = position[d]
        BY <3>6, <4>2
      <4> QED BY <4>1, <4>3
    <3> QED BY <3>7, <3>8 DEF QueueIsFifoStep
  <2>3. CASE NotifyPosition(c) \/ Pause(c) \/ Resume(c) \/ Disconnect(c)
    BY <1>2, <2>3, QueueAloneIsFifo
       DEF NotifyPosition, Pause, Resume, Disconnect, poolVars, handlerVars
  <2>4. CASE NotifyFails(c)
    <3>1. CASE Queued(c)
      BY <2>4, <3>1, CancelIsFifo DEF NotifyFails
    <3>2. CASE ~Queued(c)
      <4>1. UNCHANGED <<queue, position>> /\ future' = [future EXCEPT ![c] = None]
        BY <2>4, <3>2 DEF NotifyFails, poolVars
      <4> QED BY <1>1, <1>2, <4>1, QueueAloneIsFifo, NoGrantAssumption DEF PoolOK, NoGrant
    <3> QED BY <3>1, <3>2
  <2>5. CASE AnnounceFails(c)
    BY <1>1, <1>2, <2>5, QueueAloneIsFifo, NoGrantAssumption
       DEF AnnounceFails, poolVars, PoolOK, NoGrant
  <2>6. CASE AdminCancel(c)
    BY <2>6, CancelIsFifo DEF AdminCancel
  <2> QED BY <1>5, <2>1, <2>2, <2>3, <2>4, <2>5, <2>6 DEF ClientStep
<1>6. CASE HealthStep
  <2>1. CASE RefreshEnd
    BY <1>1, <2>1, DispatchAllIsFifo DEF RefreshEnd
  <2>2. CASE RefreshStart
    BY <1>2, <2>2, QueueAloneIsFifo DEF RefreshStart, poolVars, handlerVars
  <2>3. CASE \E w \in Worker, r \in Replies : ProbeReply(w, r)
    BY <1>2, <2>3, QueueAloneIsFifo DEF ProbeReply, handlerVars
  <2> QED BY <1>6, <2>1, <2>2, <2>3 DEF HealthStep
<1>7. CASE StopHealthCheck
  BY <1>2, <1>7, QueueAloneIsFifo DEF StopHealthCheck, poolVars, handlerVars
<1>8. CASE CancelQueued
  <2>1. \A c \in Client : ~InQueue(queue', c)
    BY <1>8, EmptySeq DEF CancelQueued, InQueue
  <2> QED BY <2>1 DEF QueueIsFifoStep, Queued
<1>9. CASE UNCHANGED vars
  BY <1>2, <1>9, QueueAloneIsFifo DEF vars, poolVars, handlerVars
<1> QED
  BY <1>4, <1>5, <1>6, <1>7, <1>8, <1>9 DEF Next

\* However grants, departures and shutdown interleave, a ticket is granted only
\* with or after all those ahead of it, and nobody in the queue ever moves back
\* (the queue is an OrderedDict popped from its head, with one dispatch point).
THEOREM FirstComeFirstServed == Spec => QueueIsFifo
<1>1. IInv /\ [Next]_vars => [QueueIsFifoStep]_vars
  BY FifoNext
<1> QED
  BY <1>1, Invariance, PTL DEF Spec, QueueIsFifo
=============================================================================
