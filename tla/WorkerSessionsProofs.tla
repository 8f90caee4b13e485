------------------------ MODULE WorkerSessionsProofs ------------------------
(***************************************************************************)
(* Proofs, for every set of connections, about the sessions of one worker: *)
(* what holds whatever fails, times out and overlaps, and what holds when  *)
(* the three things the violation runs show going wrong are left out.      *)
(***************************************************************************)
EXTENDS WorkerSessions, TLAPS

(***************************************************************************)
(* What holds always.                                                      *)
(***************************************************************************)

\* Where a handler of each endpoint can be.
Places(k) ==
  {"away"} \cup
  CASE k = "duplex"      -> {"polling", "accepting", "receiving", "preparing",
                             "at_fence", "update_at_fence", "updating",
                             "stepping", "result_first", "finalizing",
                             "replying", "goodbye", "cleaning"}
    [] k = "half_duplex" -> {"accepting", "receiving", "preparing",
                             "prefilling", "generating", "replying", "goodbye"}
    [] k = "chat"        -> {"polling", "submitted", "chatting"}
    [] k = "chat_ws"     -> {"polling", "prefilling", "generating", "replying"}

\* Each handler is in its own code.
InPlace == \A c \in Conn : pc[c] \in Places(Kind[c])

\* Only these keep the model's session for themselves, ...
Streams == \A c \in Conn : gen[c] \/ context = c =>
                             Kind[c] \in {"half_duplex", "chat_ws"}

\* ... and only duplex handlers defer a finalize.
Defers == \A c \in Conn : ~fence[c] => Kind[c] = "duplex"

\* A status other than idle is that of a handler which will change it.
Answers(c) ==
  \/ status = "busy_chat" /\ pc[c] = "chatting"
  \/ /\ status \in {"duplex_active", "duplex_paused"}
     /\ Kind[c] = "duplex" /\ InSession(c)
  \/ /\ status = "busy_half_duplex"
     /\ Kind[c] \in {"half_duplex", "chat_ws"} /\ InSession(c)
StatusAnswered == status # "idle" => \E c \in Conn : Answers(c)

Always == TypeOK /\ InPlace /\ Streams /\ Defers /\ FenceHolds /\ StatusAnswered

(***************************************************************************)
(* What holds when every endpoint looks before it takes the worker and no  *)
(* timer fires, and, when a worker is calm, no call fails either.          *)
(***************************************************************************)
Polite == ~Timeouts /\ \A c \in Conn : Kind[c] # "half_duplex"
Calm   == Polite /\ ~Fails

\* Who is not in yet holds the lease, and nobody is in beside it.
Admission ==
  /\ \A c \in Conn : InSession(c) => status # "idle"
  /\ \A c \in Conn : pc[c] \in {"polling", "accepting", "submitted"} => lease = c
  /\ \A c \in Conn : pc[c] \in {"accepting", "submitted"} => status = "idle"
  /\ \A c \in Conn : dog[c] # "closing"

WhenPolite == Always /\ OneSession /\ Admission

\* The decoder is prepared for a session in progress, and in its mode.
Prepared ==
  \A c \in Conn : duplex.owner = c =>
                    InSession(c) /\ Kind[c] = "duplex" /\ mode = "duplex"

\* A unit is left to finalize only where somebody is about to.
Pending ==
  duplex.pending =>
    \E c \in Conn : \/ pc[c] \in {"result_first", "finalizing", "cleaning"}
                    \/ ~fence[c] /\ InSession(c)

WhenCalm == WhenPolite /\ Prepared /\ Pending
-----------------------------------------------------------------------------
(***************************************************************************)
(* Shapes of the actions that call the model.                              *)
(***************************************************************************)
USE DEF Receives, Goto, Ends, Frees, Opens, Proceeds
USE DEF Call, DuplexCall, ContextIn
USE DEF handlerVars, modelVars

DuplexStates == [owner : Conn \cup {None}, stop : BOOLEAN, pending : BOOLEAN]

\* Entering duplex mode may take the prompt away, and adds nothing.
LEMMA DuplexInShape ==
  ASSUME TypeOK, NEW d, d = DuplexIn("duplex")
  PROVE  /\ d \in DuplexStates
         /\ d.owner = IF mode = "duplex" THEN duplex.owner ELSE None
         /\ d.stop = duplex.stop
         /\ d.pending => duplex.pending
BY DEF DuplexIn, Cleared, TypeOK, DuplexStates

\* What a call in duplex mode leaves when it finalizes or does nothing.
LEMMA FinalizeShape ==
  ASSUME TypeOK,
         \/ DuplexCall([DuplexIn("duplex") EXCEPT !.pending = FALSE])
         \/ Fails /\ DuplexCall(DuplexIn("duplex"))
  PROVE  /\ duplex' \in DuplexStates
         /\ duplex'.owner = IF mode = "duplex" THEN duplex.owner ELSE None
         /\ duplex'.stop = duplex.stop
         /\ duplex'.pending => duplex.pending /\ Fails
         /\ mode' = "duplex"
         /\ context' \in {context, None}
<1> DEFINE d == DuplexIn("duplex")
<1>1. /\ d \in DuplexStates
      /\ d.owner = IF mode = "duplex" THEN duplex.owner ELSE None
      /\ d.stop = duplex.stop
      /\ d.pending => duplex.pending
  BY DuplexInShape
<1> HIDE DEF d
<1>2. CASE DuplexCall([DuplexIn("duplex") EXCEPT !.pending = FALSE])
  <2>1. duplex' = [d EXCEPT !.pending = FALSE]
    BY <1>2 DEF d
  <2> QED BY <1>1, <1>2, <2>1 DEF DuplexStates
<1>3. CASE Fails /\ DuplexCall(DuplexIn("duplex"))
  <2>1. duplex' = d
    BY <1>3 DEF d
  <2> QED BY <1>1, <1>3, <2>1 DEF DuplexStates
<1> QED BY <1>2, <1>3

\* A call that sets the stop event.
LEMMA StopShape ==
  ASSUME TypeOK, DuplexCall([DuplexIn("duplex") EXCEPT !.stop = TRUE])
  PROVE  /\ duplex' \in DuplexStates
         /\ duplex'.owner = IF mode = "duplex" THEN duplex.owner ELSE None
         /\ duplex'.pending => duplex.pending
         /\ mode' = "duplex"
         /\ context' \in {context, None}
<1> DEFINE d == DuplexIn("duplex")
<1>1. /\ d \in DuplexStates
      /\ d.owner = IF mode = "duplex" THEN duplex.owner ELSE None
      /\ d.pending => duplex.pending
  BY DuplexInShape
<1>2. duplex' = [d EXCEPT !.stop = TRUE]
  OBVIOUS
<1> HIDE DEF d
<1> QED BY <1>1, <1>2 DEF DuplexStates

\* The call a prepare makes before its thread starts, if it does.
LEMMA PrepareShape ==
  ASSUME TypeOK, NEW c \in Conn, Prepare(c)
  PROVE  /\ duplex' \in DuplexStates
         /\ \/ duplex'.owner = duplex.owner
            \/ mode # "duplex" /\ duplex'.owner = None
         /\ duplex'.stop = duplex.stop
         /\ duplex'.pending => duplex.pending
         /\ mode' \in {mode, "duplex"}
         /\ context' \in {context, None}
<1>1. CASE DuplexCall(DuplexIn("duplex"))
  BY <1>1, DuplexInShape
<1>2. CASE UNCHANGED modelVars
  BY <1>2 DEF TypeOK, DuplexStates
<1> QED BY <1>1, <1>2 DEF Prepare

\* A full-duplex step, in which a unit becomes pending only for a handler that
\* goes on to finalize it, unless the call raises.
LEMMA StepShape ==
  ASSUME TypeOK, NEW c \in Conn, StepEnds(c)
  PROVE  /\ pc[c] = "stepping"
         /\ \E l \in {"replying", "result_first", "finalizing"} : Goto(c, l)
         /\ duplex' \in DuplexStates
         /\ duplex'.owner = IF mode = "duplex" THEN duplex.owner ELSE None
         /\ duplex'.stop = duplex.stop
         /\ duplex'.pending => duplex.pending \/ Fails
                               \/ pc'[c] \in {"result_first", "finalizing"}
         /\ mode' = "duplex"
         /\ context' \in {context, None}
<1> DEFINE d == DuplexIn("duplex")
<1>1. /\ d \in DuplexStates
      /\ d.owner = IF mode = "duplex" THEN duplex.owner ELSE None
      /\ d.stop = duplex.stop
      /\ d.pending => duplex.pending
  BY DuplexInShape
<1>2. /\ pc[c] = "stepping" /\ mode' = "duplex" /\ context' \in {context, None}
      /\ pc \in [Conn -> Locations]
  BY DEF StepEnds, TypeOK
<1>3. CASE d.pending /\ DuplexCall(d) /\ Goto(c, "replying")
  <2>1. duplex' = d
    BY <1>3
  <2> HIDE DEF d
  <2> QED BY <1>1, <1>2, <1>3, <2>1
<1>4. ASSUME NEW p \in BOOLEAN, DuplexCall([d EXCEPT !.pending = p]),
             \/ Goto(c, IF policy[c] = "deferred" THEN "result_first"
                                                   ELSE "finalizing")
             \/ Fails /\ Goto(c, "replying")
      PROVE  /\ \E l \in {"replying", "result_first", "finalizing"} : Goto(c, l)
             /\ duplex' \in DuplexStates
             /\ duplex'.owner = d.owner /\ duplex'.stop = d.stop
             /\ Fails \/ pc'[c] \in {"result_first", "finalizing"}
  <2>1. duplex' = [d EXCEPT !.pending = p]
    BY <1>4
  <2> HIDE DEF d
  <2>2. /\ duplex' \in DuplexStates
        /\ duplex'.owner = d.owner /\ duplex'.stop = d.stop
    BY <1>1, <2>1 DEF DuplexStates
  <2>3. CASE Fails /\ Goto(c, "replying")
    BY <2>2, <2>3
  <2>4. CASE Goto(c, IF policy[c] = "deferred" THEN "result_first"
                                                ELSE "finalizing")
    <3>1. \E l \in {"result_first", "finalizing"} : Goto(c, l)
      BY <2>4
    <3> QED BY <1>2, <2>2, <3>1
  <2> QED BY <1>4, <2>3, <2>4
<1>5. \/ d.pending /\ DuplexCall(d) /\ Goto(c, "replying")
      \/ \E p \in BOOLEAN :
           /\ DuplexCall([d EXCEPT !.pending = p])
           /\ \/ Goto(c, IF policy[c] = "deferred" THEN "result_first"
                                                    ELSE "finalizing")
              \/ Fails /\ Goto(c, "replying")
  BY DEF StepEnds
<1> HIDE DEF d
<1> QED BY <1>1, <1>2, <1>3, <1>4, <1>5

\* A prefill: it streams afterwards or it has failed.
LEMMA PrefillShape ==
  ASSUME TypeOK, NEW c \in Conn, PrefillEnds(c)
  PROVE  /\ pc[c] = "prefilling"
         /\ gen' \in [Conn -> BOOLEAN]
         /\ \A d \in Conn \ {c} : gen'[d] = gen[d] /\ pc'[d] = pc[d]
         /\ pc' \in [Conn -> Locations]
         /\ pc'[c] \in {"generating", "replying"}
         /\ context' \in {c, None}
         /\ mode' = IF Kind[c] = "chat_ws" THEN "chat" ELSE "streaming"
         /\ duplex' = duplex
<1> USE DEF TypeOK, Locations, Working, PrefillEnds
<1>1. PICK o \in Outcomes :
        /\ context' = IF o = "ok" THEN c ELSE None
        /\ gen' = [gen EXCEPT ![c] = (o = "ok")]
        /\ Goto(c, IF o = "ok" THEN "generating" ELSE "replying")
  OBVIOUS
<1>2. gen' \in [Conn -> BOOLEAN] /\ \A d \in Conn \ {c} : gen'[d] = gen[d]
  BY <1>1, Zenon
<1> QED BY <1>1, <1>2
-----------------------------------------------------------------------------
(***************************************************************************)
(* The invariants that need no assumption, one lemma each.                 *)
(***************************************************************************)

\* The actions, by what they touch.
Enters(c)   == Connect(c) \/ ConnectHalf(c)
Waits(c)    == PollIdle(c) \/ PollGivesUp(c) \/ Accepted(c) \/ AcceptFails(c)
Talks(c)    == \/ Update(c) \/ Chunk(c) \/ Turn(c)
               \/ FencePassed(c) \/ ResultSent(c) \/ Replied(c)
Pauses(c)   == Pause(c) \/ Resume(c)
Finishes(c) == UpdateEnds(c) \/ FinalizeEnds(c) \/ SyncFinalizeEnds(c)
Stops(c)    == Stop(c) \/ LeaveDuplex(c)
Timers(c)   == DogFires(c) \/ DogCloses(c) \/ GatewayTimeout(c) \/ HangUp(c)
Leaves(c)   == CleanupEnds(c) \/ LeaveChatWs(c) \/ LeaveHalf(c)
Chats(c)    == ChatStarts(c) \/ ChatEnds(c)
Halves(c)   == PrepareHalf(c) \/ PrepareHalfEnds(c)

LEMMA Cases ==
  ASSUME NEW c \in Conn, WorkerStep(c) \/ ClientStep(c)
  PROVE  \/ Enters(c) \/ Waits(c) \/ Talks(c) \/ Pauses(c)
         \/ Prepare(c) \/ PrepareEnds(c) \/ Finishes(c) \/ StepEnds(c)
         \/ Stops(c) \/ Timers(c) \/ Leaves(c)
         \/ Chats(c) \/ PrefillEnds(c) \/ GenerateEnds(c) \/ Halves(c)
BY DEF WorkerStep, ClientStep, Enters, Waits, Talks, Pauses, Finishes, Stops,
       Timers, Leaves, Chats, Halves

USE DEF Connect, ConnectHalf, PollIdle, PollGivesUp, Accepted, AcceptFails
USE DEF Prepare, Update, Chunk, Turn, FencePassed, ResultSent, Replied
USE DEF Pause, Resume, PrepareEnds, UpdateEnds, FinalizeEnds, SyncFinalizeEnds
USE DEF Stop, LeaveDuplex, DogFires, DogCloses, GatewayTimeout, HangUp
USE DEF CleanupEnds, LeaveChatWs, LeaveHalf, ChatStarts, ChatEnds
USE DEF GenerateEnds, PrepareHalf, PrepareHalfEnds, Outcomes

LEMMA TypeStep ==
  ASSUME TypeOK, NEW c \in Conn, WorkerStep(c) \/ ClientStep(c)
  PROVE  TypeOK'
<1> USE DEF TypeOK, Statuses, Locations, Working
<1>1. CASE Enters(c) \/ Waits(c)
  <2>1. CASE Enters(c)
    <3>1. CASE Connect(c)
      BY <3>1
    <3>2. CASE ConnectHalf(c)
      BY <3>2
    <3> QED BY <2>1, <3>1, <3>2 DEF Enters
  <2>2. CASE Waits(c)
    BY <2>2 DEF Waits
  <2> QED BY <1>1, <2>1, <2>2
<1>2. CASE Talks(c)
  <2>1. CASE Update(c) \/ Chunk(c) \/ Turn(c)
    BY <2>1
  <2>2. CASE FencePassed(c) \/ ResultSent(c) \/ Replied(c)
    BY <2>2
  <2> QED BY <1>2, <2>1, <2>2 DEF Talks
<1>3. CASE Pauses(c) \/ Timers(c)
  <2>1. CASE Pauses(c)
    BY <2>1 DEF Pauses
  <2>2. CASE DogFires(c) \/ DogCloses(c)
    BY <2>2
  <2>3. CASE GatewayTimeout(c)
    BY <2>3
  <2>4. CASE HangUp(c)
    BY <2>4
  <2> QED BY <1>3, <2>1, <2>2, <2>3, <2>4 DEF Timers
<1>4. CASE PrepareEnds(c)
  <2>1. duplex' \in DuplexStates
    BY <1>4 DEF DuplexStates
  <2> QED BY <1>4, <2>1 DEF DuplexStates
<1>5. CASE Finishes(c)
  <2>1. /\ duplex' \in DuplexStates
        /\ mode' = "duplex"
        /\ context' \in {context, None}
    BY <1>5, FinalizeShape DEF Finishes
  <2> QED BY <1>5, <2>1 DEF DuplexStates, Finishes
<1>6. CASE StepEnds(c)
  <2>1. /\ duplex' \in DuplexStates
        /\ mode' = "duplex"
        /\ context' \in {context, None}
        /\ \E l \in {"replying", "result_first", "finalizing"} : Goto(c, l)
    BY <1>6, StepShape
  <2>2. UNCHANGED <<status, lease, open, policy, fence, dog, gen>>
    BY <1>6 DEF StepEnds
  <2> QED BY <2>1, <2>2 DEF DuplexStates
<1>7. CASE Stops(c)
  <2>1. /\ duplex' \in DuplexStates
        /\ mode' = "duplex"
        /\ context' \in {context, None}
    BY <1>7, StopShape DEF Stops
  <2> QED BY <1>7, <2>1 DEF DuplexStates, Stops
<1>8. CASE Leaves(c)
  <2>1. CASE CleanupEnds(c)
    <3>1. DuplexIn("duplex") \in DuplexStates
      BY DuplexInShape
    <3>2. /\ duplex' \in DuplexStates /\ mode' = "duplex"
          /\ context' \in {context, None}
      BY <2>1, <3>1 DEF Cleared, DuplexStates
    <3> QED BY <2>1, <3>2 DEF DuplexStates
  <2> QED BY <1>8, <2>1 DEF Leaves
<1>9. CASE Chats(c) \/ Halves(c)
  BY <1>9 DEF Chats, Halves
<1>10. CASE PrefillEnds(c)
  BY <1>10, PrefillShape DEF PrefillEnds
<1>11. CASE GenerateEnds(c)
  BY <1>11
<1>12. CASE Prepare(c)
  <2>1. UNCHANGED <<status, lease, open, fence, dog, gen>>
    BY <1>12
  <2>2. /\ pc' \in [Conn -> Locations]
        /\ policy' \in [Conn -> {"unset", "deferred", "sync"}]
    BY <1>12
  <2>3. /\ duplex' \in DuplexStates /\ mode' \in {mode, "duplex"}
        /\ context' \in {context, None}
    BY <1>12, PrepareShape
  <2> HIDE DEF Prepare
  <2> QED BY <2>1, <2>2, <2>3 DEF DuplexStates
<1> QED
  BY <1>1, <1>2, <1>3, <1>4, <1>5, <1>6, <1>7, <1>8, <1>9, <1>10, <1>11, <1>12,
     Cases

LEMMA InPlaceStep ==
  ASSUME TypeOK, InPlace, NEW c \in Conn, WorkerStep(c) \/ ClientStep(c)
  PROVE  InPlace'
<1> USE KindAssumption DEF TypeOK, InPlace, Places, Kinds
<1>1. CASE Enters(c) \/ Waits(c)
  BY <1>1 DEF Enters, Waits
<1>2. CASE \/ Talks(c) \/ Pauses(c) \/ Prepare(c) \/ PrepareEnds(c)
           \/ Finishes(c) \/ Stops(c)
  BY <1>2 DEF Talks, Pauses, Finishes, Stops
<1>3. CASE StepEnds(c)
  BY <1>3, StepShape
<1>4. CASE Timers(c) \/ Leaves(c) \/ Chats(c) \/ Halves(c)
  BY <1>4 DEF Timers, Leaves, Chats, Halves
<1>5. CASE PrefillEnds(c)
  <2>1. /\ pc[c] = "prefilling" /\ pc'[c] \in {"generating", "replying"}
        /\ \A d \in Conn \ {c} : pc'[d] = pc[d]
    BY <1>5, PrefillShape
  <2> QED BY <2>1
<1>6. CASE GenerateEnds(c)
  BY <1>6
<1> QED BY <1>1, <1>2, <1>3, <1>4, <1>5, <1>6, Cases

LEMMA StreamsStep ==
  ASSUME TypeOK, InPlace, Streams, NEW c \in Conn,
         WorkerStep(c) \/ ClientStep(c)
  PROVE  Streams'
<1> USE KindAssumption, NoneAssumption
    DEF TypeOK, InPlace, Places, Kinds, Streams
<1>1. CASE Enters(c) \/ Waits(c) \/ Talks(c) \/ Pauses(c) \/ Timers(c)
  BY <1>1 DEF Enters, Waits, Talks, Pauses, Timers
<1>2. CASE \/ Prepare(c) \/ PrepareEnds(c) \/ Stops(c) \/ Leaves(c)
           \/ Chats(c) \/ Finishes(c)
  BY <1>2 DEF Finishes, Stops, Leaves, Chats
<1>3. CASE StepEnds(c)
  <2>1. context' \in {context, None} /\ gen' = gen
    BY <1>3, StepShape DEF StepEnds
  <2> QED BY <2>1
<1>4. CASE PrefillEnds(c)
  <2>1. /\ pc[c] = "prefilling" /\ context' \in {c, None}
        /\ \A d \in Conn \ {c} : gen'[d] = gen[d]
    BY <1>4, PrefillShape
  <2> QED BY <2>1
<1>5. CASE GenerateEnds(c) \/ Halves(c)
  BY <1>5 DEF Halves
<1> QED BY <1>1, <1>2, <1>3, <1>4, <1>5, Cases

LEMMA DefersStep ==
  ASSUME TypeOK, InPlace, Defers, NEW c \in Conn, WorkerStep(c) \/ ClientStep(c)
  PROVE  Defers'
<1> USE KindAssumption DEF TypeOK, InPlace, Places, Kinds, Defers
<1>1. CASE Enters(c) \/ Waits(c) \/ Talks(c) \/ Pauses(c) \/ Timers(c)
  BY <1>1 DEF Enters, Waits, Talks, Pauses, Timers
<1>2. CASE \/ Prepare(c) \/ PrepareEnds(c) \/ Finishes(c) \/ StepEnds(c)
           \/ Stops(c)
  <2>1. CASE Finishes(c)
    BY <2>1 DEF Finishes
  <2>2. CASE ~Finishes(c)
    <3>1. fence' = fence
      BY <1>2, <2>2 DEF StepEnds, Stops
    <3> QED BY <3>1
  <2> QED BY <2>1, <2>2
<1>3. CASE \/ Leaves(c) \/ Chats(c) \/ PrefillEnds(c) \/ GenerateEnds(c)
           \/ Halves(c)
  BY <1>3 DEF PrefillEnds, Leaves, Chats, Halves
<1> QED BY <1>1, <1>2, <1>3, Cases

\* Only the handler itself lowers its fence, and it is then at neither place.
LEMMA FenceStep ==
  ASSUME TypeOK, FenceHolds, NEW c \in Conn, WorkerStep(c) \/ ClientStep(c)
  PROVE  FenceHolds'
<1> USE DEF TypeOK, FenceHolds
<1>1. CASE Enters(c) \/ Waits(c) \/ Pauses(c) \/ Timers(c)
  BY <1>1 DEF Enters, Waits, Pauses, Timers
<1>2. CASE Talks(c)
  BY <1>2 DEF Talks
<1>3. CASE Prepare(c) \/ PrepareEnds(c) \/ Finishes(c) \/ Stops(c)
  BY <1>3 DEF Finishes, Stops
<1>4. CASE StepEnds(c)
  <2>1. /\ \E l \in {"replying", "result_first", "finalizing"} : Goto(c, l)
        /\ fence' = fence
    BY <1>4, StepShape DEF StepEnds
  <2> QED BY <2>1
<1>5. CASE PrefillEnds(c)
  BY <1>5 DEF PrefillEnds
<1>6. CASE Leaves(c) \/ Chats(c) \/ GenerateEnds(c) \/ Halves(c)
  BY <1>6 DEF Leaves, Chats, Halves
<1> QED BY <1>1, <1>2, <1>3, <1>4, <1>5, <1>6, Cases

\* A status is cleared by the handler that answers for it.
LEMMA StatusStep ==
  ASSUME TypeOK, InPlace, StatusAnswered, NEW c \in Conn,
         WorkerStep(c) \/ ClientStep(c)
  PROVE  StatusAnswered'
<1> USE KindAssumption DEF TypeOK, InPlace, Places, Kinds, InSession
<1>1. CASE status' = "idle"
  BY <1>1 DEF StatusAnswered
<1>2. ASSUME Answers(c)'
      PROVE  StatusAnswered'
  BY <1>2 DEF StatusAnswered
<1>3. ASSUME status' = status,
             \A d \in Conn : d = c \/ pc'[d] = pc[d],
             \/ pc'[c] = pc[c]
             \/ pc[c] # "chatting" /\ (InSession(c) => InSession(c)')
      PROVE  StatusAnswered'
  <2>1. ASSUME NEW d \in Conn, Answers(d)
        PROVE  Answers(d)'
    BY <1>3, <2>1 DEF Answers
  <2> QED BY <1>3, <2>1 DEF StatusAnswered
<1>4. CASE Enters(c) \/ Waits(c)
  <2>1. /\ status' \in {status, "busy_half_duplex", "duplex_active"}
        /\ status' # status => Answers(c)'
    BY <1>4 DEF Answers, Enters, Waits
  <2>2. /\ pc[c] \in {"away", "polling", "accepting"}
        /\ \A d \in Conn : d = c \/ pc'[d] = pc[d]
    BY <1>4 DEF Enters, Waits
  <2> QED BY <1>2, <1>3, <2>1, <2>2
<1>5. CASE Talks(c) \/ Prepare(c) \/ PrepareEnds(c) \/ Finishes(c) \/ Stops(c)
  <2>1. status' = status /\ \A d \in Conn : d = c \/ pc'[d] = pc[d]
    BY <1>5 DEF Talks, Finishes, Stops
  <2>2. pc'[c] = pc[c] \/ (pc[c] # "chatting" /\ InSession(c)')
    <3>1. CASE Update(c) \/ Chunk(c) \/ Turn(c)
      BY <3>1
    <3>2. CASE FencePassed(c) \/ ResultSent(c) \/ Replied(c)
      BY <3>2
    <3>3. CASE Prepare(c) \/ PrepareEnds(c) \/ Stops(c)
      BY <3>3 DEF Stops
    <3>4. CASE UpdateEnds(c) \/ SyncFinalizeEnds(c)
      BY <3>4
    <3>5. CASE FinalizeEnds(c)
      BY <3>5
    <3> QED BY <1>5, <3>1, <3>2, <3>3, <3>4, <3>5 DEF Talks, Finishes, Stops
  <2> QED BY <1>3, <2>1, <2>2
<1>6. CASE Pauses(c)
  <2>1. Answers(c)'
    BY <1>6 DEF Answers, Pauses
  <2> QED BY <1>2, <2>1
<1>7. CASE StepEnds(c)
  <2>1. /\ status' = status /\ pc[c] = "stepping"
        /\ \E l \in {"replying", "result_first", "finalizing"} : Goto(c, l)
    BY <1>7, StepShape DEF StepEnds
  <2> QED BY <1>3, <2>1
<1>8. CASE Timers(c)
  <2>1. status' \in {status, "idle"} /\ pc' = pc
    BY <1>8 DEF Timers
  <2> QED BY <1>1, <1>3, <2>1
<1>9. CASE Leaves(c)
  <2>1. CASE LeaveHalf(c) /\ status # "busy_half_duplex"
    <3>1. ASSUME NEW d \in Conn, Answers(d), status # "idle"
          PROVE  Answers(d)'
      BY <2>1, <3>1 DEF Answers, Statuses
    <3> QED BY <2>1, <3>1 DEF StatusAnswered
  <2> QED BY <1>1, <1>9, <2>1 DEF Leaves
<1>10. CASE Chats(c)
  <2>1. CASE ChatStarts(c) /\ status = "idle"
    BY <1>2, <2>1 DEF Answers
  <2>2. CASE ChatStarts(c) /\ status # "idle"
    BY <1>3, <2>2
  <2> QED BY <1>1, <1>10, <2>1, <2>2 DEF Chats
<1>11. CASE PrefillEnds(c)
  <2>1. status' = status
    BY <1>11 DEF PrefillEnds
  <2> QED BY <1>3, <1>11, <2>1, PrefillShape
<1>12. CASE GenerateEnds(c) \/ Halves(c)
  <2>1. /\ status' = status /\ \A d \in Conn : d = c \/ pc'[d] = pc[d]
        /\ InSession(c) => InSession(c)'
        /\ pc[c] = "chatting" => pc'[c] = pc[c]
    BY <1>12 DEF Halves
  <2> QED BY <1>3, <2>1
<1> QED
  BY <1>4, <1>5, <1>6, <1>7, <1>8, <1>9, <1>10, <1>11, <1>12, Cases

LEMMA AlwaysInit == Init => Always
BY KindAssumption, NoneAssumption
   DEF Init, Always, TypeOK, Statuses, Locations, InPlace, Places, Streams,
       Defers, FenceHolds, StatusAnswered, Kinds

LEMMA AlwaysNext == Always /\ [Next]_vars => Always'
<1> SUFFICES ASSUME Always, [Next]_vars
             PROVE  Always'
  OBVIOUS
<1>1. ASSUME NEW c \in Conn, WorkerStep(c) \/ ClientStep(c)
      PROVE  Always'
  BY <1>1, TypeStep, InPlaceStep, StreamsStep, DefersStep, FenceStep, StatusStep
     DEF Always
<1>2. CASE UNCHANGED vars
  BY <1>2 DEF vars, Always, TypeOK, InPlace, Streams, Defers, FenceHolds,
              StatusAnswered, Answers, InSession
<1> QED BY <1>1, <1>2 DEF Next

THEOREM AlwaysInvariant == Spec => []Always
BY AlwaysInit, AlwaysNext, PTL DEF Spec

\* Whatever a client, a failure or a timer does, the worker's state is
\* well-formed.
THEOREM TypeCorrect == Spec => []TypeOK
<1>1. Always => TypeOK
  BY DEF Always
<1> QED BY <1>1, AlwaysInvariant, PTL

\* finalize_done keeps the chunks and prompt updates of a session apart from its
\* deferred finalize, also when finalize raises, the session is over or others
\* run beside it.
THEOREM FenceProtects == Spec => []FenceHolds
<1>1. Always => FenceHolds
  BY DEF Always
<1> QED BY <1>1, AlwaysInvariant, PTL

\* No end of a handler leaves the worker busy for good: with no handler in, the
\* worker is idle.
THEOREM NeverLeftBusy == Spec => []NobodyInMeansIdle
<1>1. Always => NobodyInMeansIdle
  BY DEF Always, StatusAnswered, Answers, InSession, NobodyInMeansIdle
<1> QED BY <1>1, AlwaysInvariant, PTL
-----------------------------------------------------------------------------
(***************************************************************************)
(* The invariants of a polite worker, and of a calm one.                   *)
(***************************************************************************)

\* Where no timer fires only these leave the worker to others.
LEMMA OneSessionStep ==
  ASSUME Polite, WhenPolite, NEW c \in Conn, WorkerStep(c) \/ ClientStep(c)
  PROVE  OneSession'
<1> USE KindAssumption
    DEF Polite, WhenPolite, Always, TypeOK, InPlace, Places, OneSession,
        Admission, InSession, Kinds
<1>1. CASE Enters(c) \/ Waits(c)
  BY <1>1 DEF Enters, Waits
<1>2. CASE Talks(c) \/ Pauses(c) \/ Prepare(c) \/ PrepareEnds(c)
  BY <1>2 DEF Talks, Pauses
<1>3. CASE Finishes(c) \/ Stops(c)
  BY <1>3 DEF Finishes, Stops
<1>4. CASE StepEnds(c)
  <2>1. /\ pc[c] = "stepping"
        /\ \E l \in {"replying", "result_first", "finalizing"} : Goto(c, l)
    BY <1>4, StepShape
  <2> QED BY <2>1
<1>5. CASE Timers(c) \/ Leaves(c) \/ Chats(c)
  BY <1>5 DEF Timers, Leaves, Chats
<1>6. CASE PrefillEnds(c)
  <2>1. pc[c] = "prefilling" /\ \A d \in Conn \ {c} : pc'[d] = pc[d]
    BY <1>6, PrefillShape
  <2> QED BY <2>1
<1>7. CASE GenerateEnds(c) \/ Halves(c)
  BY <1>7 DEF Halves
<1> QED BY <1>1, <1>2, <1>3, <1>4, <1>5, <1>6, <1>7, Cases

LEMMA AdmissionStep ==
  ASSUME Polite, WhenPolite, NEW c \in Conn, WorkerStep(c) \/ ClientStep(c)
  PROVE  Admission'
<1> USE KindAssumption, NoneAssumption
    DEF Polite, WhenPolite, Always, TypeOK, InPlace, Places, OneSession,
        Admission, InSession, Kinds
<1>1. CASE Enters(c)
  BY <1>1 DEF Enters
<1>2. CASE Waits(c)
  BY <1>2 DEF Waits
<1>3. CASE Talks(c) \/ Prepare(c) \/ PrepareEnds(c)
  BY <1>3 DEF Talks
<1>4. CASE Pauses(c)
  BY <1>4 DEF Pauses
<1>5. CASE Finishes(c) \/ Stops(c)
  BY <1>5 DEF Finishes, Stops
<1>6. CASE StepEnds(c)
  <2>1. /\ pc[c] = "stepping"
        /\ \E l \in {"replying", "result_first", "finalizing"} : Goto(c, l)
        /\ UNCHANGED <<status, lease, dog>>
    BY <1>6, StepShape DEF StepEnds
  <2> QED BY <2>1
<1>7. CASE Timers(c)
  BY <1>7 DEF Timers
<1>8. CASE Leaves(c)
  BY <1>8 DEF Leaves
<1>9. CASE Chats(c)
  BY <1>9 DEF Chats
<1>10. CASE PrefillEnds(c)
  <2>1. /\ pc[c] = "prefilling" /\ pc'[c] \in {"generating", "replying"}
        /\ \A d \in Conn \ {c} : pc'[d] = pc[d]
        /\ UNCHANGED <<status, lease, dog>>
    BY <1>10, PrefillShape DEF PrefillEnds
  <2> QED BY <2>1
<1>11. CASE GenerateEnds(c) \/ Halves(c)
  BY <1>11 DEF Halves
<1> QED
  BY <1>1, <1>2, <1>3, <1>4, <1>5, <1>6, <1>7, <1>8, <1>9, <1>10, <1>11, Cases

LEMMA PoliteInit == Init => WhenPolite
<1>1. Init => OneSession /\ Admission
  BY DEF Init, OneSession, Admission, InSession
<1> QED BY <1>1, AlwaysInit DEF WhenPolite

LEMMA PoliteNext == Polite /\ WhenPolite /\ [Next]_vars => WhenPolite'
<1> SUFFICES ASSUME Polite, WhenPolite, [Next]_vars
             PROVE  WhenPolite'
  OBVIOUS
<1>1. Always'
  BY AlwaysNext DEF WhenPolite
<1>2. ASSUME NEW c \in Conn, WorkerStep(c) \/ ClientStep(c)
      PROVE  WhenPolite'
  BY <1>1, <1>2, OneSessionStep, AdmissionStep DEF WhenPolite
<1>3. CASE UNCHANGED vars
  BY <1>1, <1>3 DEF vars, WhenPolite, OneSession, Admission, InSession
<1> QED BY <1>2, <1>3 DEF Next

\* A worker whose endpoints all look first and whose timers do not fire admits a
\* session only when the one before has cleaned up, whatever fails, though it
\* checks and takes the worker in different steps.
THEOREM OneSessionAtATime == ASSUME Polite PROVE Spec => []OneSession
<1>1. Init => WhenPolite
  BY PoliteInit
<1>2. WhenPolite /\ [Next]_vars => WhenPolite'
  BY PoliteNext
<1>3. WhenPolite => OneSession
  BY DEF WhenPolite
<1> QED BY <1>1, <1>2, <1>3, PTL DEF Spec

LEMMA PreparedStep ==
  ASSUME Calm, WhenCalm, NEW c \in Conn, WorkerStep(c) \/ ClientStep(c)
  PROVE  Prepared'
<1> USE KindAssumption, NoneAssumption
    DEF Calm, WhenCalm, Polite, WhenPolite, Always, TypeOK, InPlace, Places,
        OneSession, Prepared, InSession, Kinds
\* Another's call keeps the owner in its place, or takes the decoder away.
<1>1. ASSUME duplex'.owner = IF mode = "duplex" THEN duplex.owner ELSE None,
             mode' = "duplex",
             \A d \in Conn : d = c \/ pc'[d] = pc[d],
             InSession(c) => InSession(c)'
      PROVE  Prepared'
  BY <1>1
<1>2. CASE Enters(c) \/ Waits(c)
  BY <1>2 DEF Enters, Waits
<1>3. CASE Talks(c) \/ Pauses(c)
  BY <1>3 DEF Talks, Pauses
<1>4. CASE PrepareEnds(c)
  BY <1>4
<1>5. CASE Finishes(c)
  <2>1. /\ duplex'.owner = IF mode = "duplex" THEN duplex.owner ELSE None
        /\ mode' = "duplex"
    BY <1>5, FinalizeShape DEF Finishes
  <2>2. /\ \A d \in Conn : d = c \/ pc'[d] = pc[d]
        /\ InSession(c) => InSession(c)'
    BY <1>5 DEF Finishes
  <2> QED BY <1>1, <2>1, <2>2
<1>6. CASE StepEnds(c)
  <2>1. /\ duplex'.owner = IF mode = "duplex" THEN duplex.owner ELSE None
        /\ mode' = "duplex"
        /\ \E l \in {"replying", "result_first", "finalizing"} : Goto(c, l)
    BY <1>6, StepShape
  <2>2. /\ \A d \in Conn : d = c \/ pc'[d] = pc[d]
        /\ InSession(c) => InSession(c)'
    BY <2>1
  <2> QED BY <1>1, <2>1, <2>2
<1>7. CASE Stops(c)
  <2>1. /\ duplex'.owner = IF mode = "duplex" THEN duplex.owner ELSE None
        /\ mode' = "duplex"
    BY <1>7, StopShape DEF Stops
  <2>2. /\ \A d \in Conn : d = c \/ pc'[d] = pc[d]
        /\ InSession(c) => InSession(c)'
    BY <1>7 DEF Stops
  <2> QED BY <1>1, <2>1, <2>2
<1>8. CASE Timers(c)
  BY <1>8 DEF Timers
<1>9. CASE Leaves(c)
  <2>1. CASE CleanupEnds(c)
    <3>1. duplex'.owner = None
      BY <2>1 DEF Cleared
    <3> QED BY <3>1
  <2>2. CASE LeaveChatWs(c) \/ LeaveHalf(c)
    BY <2>2
  <2> QED BY <1>9, <2>1, <2>2 DEF Leaves
<1>10. CASE Chats(c)
  BY <1>10 DEF Chats
<1>11. CASE PrefillEnds(c)
  <2>1. /\ pc[c] = "prefilling"
        /\ \A d \in Conn \ {c} : pc'[d] = pc[d]
        /\ duplex' = duplex
    BY <1>11, PrefillShape
  <2>2. \A d \in Conn : duplex.owner # d
    BY <2>1
  <2> QED BY <2>1, <2>2
<1>12. CASE GenerateEnds(c)
  BY <1>12
<1>13. CASE Halves(c)
  BY <1>13 DEF Halves
<1>14. CASE Prepare(c)
  <2>1. /\ \/ duplex'.owner = duplex.owner
           \/ mode # "duplex" /\ duplex'.owner = None
        /\ mode' \in {mode, "duplex"}
    BY <1>14, PrepareShape
  <2>2. \A d \in Conn : /\ d = c \/ pc'[d] = pc[d]
                        /\ InSession(d) => InSession(d)'
    BY <1>14
  <2> QED BY <2>1, <2>2
<1> QED
  BY <1>2, <1>3, <1>4, <1>5, <1>6, <1>7, <1>8, <1>9, <1>10, <1>11, <1>12, <1>13,
     <1>14, Cases

LEMMA PendingStep ==
  ASSUME Calm, WhenCalm, NEW c \in Conn, WorkerStep(c) \/ ClientStep(c)
  PROVE  Pending'
<1> USE KindAssumption
    DEF Calm, WhenCalm, Polite, WhenPolite, Always, TypeOK, InPlace, Places,
        Defers, Pending, InSession, Kinds
<1>1. CASE Enters(c) \/ Waits(c)
  BY <1>1 DEF Enters, Waits
<1>2. CASE Talks(c)
  BY <1>2 DEF Talks
<1>3. CASE Pauses(c) \/ Timers(c)
  BY <1>3 DEF Pauses, Timers
<1>4. CASE PrepareEnds(c)
  BY <1>4
<1>5. CASE Finishes(c)
  <2>1. ~duplex'.pending
    BY <1>5, FinalizeShape DEF Finishes
  <2> QED BY <2>1
<1>6. CASE StepEnds(c)
  <2>1. /\ pc[c] = "stepping"
        /\ \E l \in {"replying", "result_first", "finalizing"} : Goto(c, l)
        /\ duplex'.pending => \/ duplex.pending
                              \/ pc'[c] \in {"result_first", "finalizing"}
        /\ fence' = fence
    BY <1>6, StepShape DEF StepEnds
  <2> QED BY <2>1
<1>7. CASE Stops(c)
  <2>1. duplex'.pending => duplex.pending
    BY <1>7, StopShape DEF Stops
  <2> QED BY <1>7, <2>1 DEF Stops
<1>8. CASE Leaves(c)
  <2>1. CASE CleanupEnds(c)
    <3>1. duplex' = Cleared(duplex)
      BY <2>1
    <3>2. ~duplex'.pending
      BY <3>1 DEF Cleared
    <3> QED BY <3>2
  <2>2. CASE LeaveChatWs(c) \/ LeaveHalf(c)
    BY <2>2
  <2> QED BY <1>8, <2>1, <2>2 DEF Leaves
<1>9. CASE Chats(c)
  BY <1>9 DEF Chats
<1>10. CASE PrefillEnds(c)
  <2>1. /\ pc[c] = "prefilling" /\ pc'[c] \in {"generating", "replying"}
        /\ \A d \in Conn \ {c} : pc'[d] = pc[d]
        /\ duplex' = duplex /\ fence' = fence
    BY <1>10, PrefillShape DEF PrefillEnds
  <2> QED BY <2>1
<1>11. CASE GenerateEnds(c)
  BY <1>11
<1>12. CASE Halves(c)
  BY <1>12 DEF Halves
<1>13. CASE Prepare(c)
  <2>1. duplex'.pending => duplex.pending
    BY <1>13, PrepareShape
  <2> QED BY <1>13, <2>1
<1> QED
  BY <1>1, <1>2, <1>3, <1>4, <1>5, <1>6, <1>7, <1>8, <1>9, <1>10, <1>11, <1>12,
     <1>13, Cases

LEMMA CalmInit == Init => WhenCalm
<1>1. Init => Prepared /\ Pending
  BY NoneAssumption DEF Init, Prepared, Pending
<1> QED BY <1>1, PoliteInit DEF WhenCalm

LEMMA CalmNext == Calm /\ WhenCalm /\ [Next]_vars => WhenCalm'
<1> SUFFICES ASSUME Calm, WhenCalm, [Next]_vars
             PROVE  WhenCalm'
  OBVIOUS
<1>1. WhenPolite'
  BY PoliteNext DEF WhenCalm, Calm
<1>2. ASSUME NEW c \in Conn, WorkerStep(c) \/ ClientStep(c)
      PROVE  WhenCalm'
  BY <1>1, <1>2, PreparedStep, PendingStep DEF WhenCalm
<1>3. CASE UNCHANGED vars
  BY <1>1, <1>3 DEF vars, WhenCalm, Prepared, Pending, InSession
<1> QED BY <1>2, <1>3 DEF Next

THEOREM CalmInvariant == ASSUME Calm PROVE Spec => []WhenCalm
<1>1. Init => WhenCalm
  BY CalmInit
<1>2. WhenCalm /\ [Next]_vars => WhenCalm'
  BY CalmNext
<1> QED BY <1>1, <1>2, PTL DEF Spec

\* If calls do not fail either, no chunk meets a unit that is not finalized,
\* with either policy and whatever the session before left running.
THEOREM EveryUnitFinalized == ASSUME Calm PROVE Spec => []FinalizedBeforeStep
<1>1. WhenCalm => FinalizedBeforeStep
  BY DEF WhenCalm, WhenPolite, Always, FenceHolds, OneSession, Pending,
         FinalizedBeforeStep, InSession
<1> QED BY <1>1, CalmInvariant, PTL

LEMMA UndisturbedStep ==
  ASSUME Calm, WhenCalm, NEW c \in Conn, WorkerStep(c) \/ ClientStep(c)
  PROVE  SessionUndisturbedStep
<1> SUFFICES ASSUME NEW d \in Conn, InSession(d), Disturbs(d), ~StragglerEnds
             PROVE  FALSE
  BY DEF SessionUndisturbedStep
<1> USE KindAssumption
    DEF Calm, WhenCalm, Polite, WhenPolite, Always, TypeOK, InPlace, Places,
        OneSession, Streams, Defers, Prepared, InSession, Kinds
<1>1. InSession(c) => c = d
  OBVIOUS
<1>2. CASE UNCHANGED <<duplex, context>>
  BY <1>2 DEF Disturbs
<1>3. CASE PrepareEnds(c)
  BY <1>1, <1>3 DEF Disturbs
<1>4. CASE Finishes(c)
  <2>1. ~InSession(c) => FinalizeEnds(c) /\ fence'[c] # fence[c]
    BY <1>4 DEF Finishes
  <2>2. c = d /\ Kind[d] = "duplex"
    BY <1>1, <1>4, <2>1 DEF StragglerEnds, Finishes
  <2>3. /\ duplex'.owner = duplex.owner \/ mode # "duplex"
        /\ duplex'.stop = duplex.stop
    BY <1>4, FinalizeShape DEF Finishes
  <2> QED BY <2>2, <2>3 DEF Disturbs
<1>5. CASE StepEnds(c)
  <2>1. c = d /\ Kind[d] = "duplex"
    BY <1>1, <1>5, StepShape
  <2>2. duplex'.stop = duplex.stop
    BY <1>5, StepShape
  <2>3. duplex'.owner = duplex.owner \/ mode # "duplex"
    BY <1>5, StepShape
  <2> QED BY <2>1, <2>2, <2>3 DEF Disturbs
<1>6. CASE Stops(c)
  <2>1. c = d /\ Kind[d] = "duplex" /\ pc'[d] \in {"goodbye", "cleaning"}
    BY <1>1, <1>6 DEF Stops
  <2>2. duplex'.owner = duplex.owner \/ mode # "duplex"
    BY <1>6 DEF DuplexIn, Cleared, Stops
  <2> QED BY <2>1, <2>2 DEF Disturbs
<1>7. CASE CleanupEnds(c)
  <2>1. c = d /\ Kind[d] = "duplex" /\ pc[d] = "cleaning"
    BY <1>1, <1>7
  <2>2. duplex' = Cleared(duplex)
    BY <1>7
  <2>3. duplex'.stop = duplex.stop
    BY <2>2 DEF Cleared
  <2> QED BY <2>1, <2>3 DEF Disturbs
<1>8. CASE ChatEnds(c)
  BY <1>1, <1>8 DEF Disturbs
<1>9. CASE PrefillEnds(c)
  <2>1. pc[c] = "prefilling" /\ duplex' = duplex
    BY <1>9, PrefillShape
  <2>2. c = d
    BY <1>1, <2>1
  <2> QED BY <2>1, <2>2 DEF Disturbs
<1>10. CASE GenerateEnds(c)
  <2>1. InSession(c) \/ gen'[c] # gen[c]
    BY <1>10
  <2>2. c = d
    BY <1>1, <2>1 DEF StragglerEnds
  <2> QED BY <1>10, <2>2 DEF Disturbs
<1>11. CASE Halves(c)
  BY <1>11 DEF Halves
<1>12. CASE Prepare(c)
  <2>1. c = d /\ pc'[d] = "preparing" /\ Kind[d] = "duplex"
    BY <1>1, <1>12
  <2>2. /\ duplex'.owner = duplex.owner \/ mode # "duplex"
        /\ duplex'.stop = duplex.stop
    BY <1>12, PrepareShape
  <2> QED BY <2>1, <2>2 DEF Disturbs
<1>13. CASE Enters(c) \/ Waits(c) \/ Talks(c) \/ Pauses(c) \/ Timers(c)
  BY <1>2, <1>13 DEF Enters, Waits, Talks, Pauses, Timers
<1>14. CASE Leaves(c) \/ Chats(c)
  BY <1>2, <1>7, <1>8, <1>14 DEF Leaves, Chats
<1> QED
  BY <1>3, <1>4, <1>5, <1>6, <1>9, <1>10, <1>11, <1>12, <1>13, <1>14, Cases

\* Under the same conditions whatever happens to the prompt, the stop event and
\* the cache of a session in progress is its own doing or that of a thread left
\* over from an earlier one.
THEOREM SessionsKeepApart == ASSUME Calm PROVE Spec => SessionUndisturbed
<1>1. WhenCalm /\ [Next]_vars => [SessionUndisturbedStep]_vars
  BY UndisturbedStep DEF Next
<1> QED BY <1>1, CalmInvariant, PTL DEF Spec, SessionUndisturbed
=============================================================================
