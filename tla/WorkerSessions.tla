--------------------------- MODULE WorkerSessions ---------------------------
(***************************************************************************)
(* One worker process (server/worker.py): the sessions its endpoints run,  *)
(* one after the other or not, on the single model it holds.               *)
(*                                                                         *)
(* The handlers are coroutines of one event loop.  The model runs in       *)
(* threads of the default executor (asyncio.to_thread), and the handler    *)
(* awaits its thread; some threads outlive the handler that started them.  *)
(* An action is a stretch of a handler between two awaits.  The last step  *)
(* of a thread carries the whole effect of its job and resumes the handler *)
(* that awaits it: coroutines cannot see what a thread has half done, and  *)
(* that two threads do not overlap is a property to check, not a premise.  *)
(*                                                                         *)
(* The gateway is external: it opens a connection only while it holds the  *)
(* worker's lease, and the lease is exclusive (WorkerPool!ExclusiveLease). *)
(***************************************************************************)
EXTENDS Naturals

CONSTANTS
  Conn,      \* the connections; the name of one that is over is used again
  Kind,      \* Kind[c]: the endpoint connection c calls
  Fails,     \* whether model calls may raise
  Timeouts,  \* whether pauses and chat requests may time out
  None       \* no connection

Kinds == {"duplex", "half_duplex", "chat", "chat_ws"}

ASSUME KindAssumption   == Kind \in [Conn -> Kinds]
ASSUME NoneAssumption   == None \notin Conn
ASSUME SwitchAssumption == Fails \in BOOLEAN /\ Timeouts \in BOOLEAN

VARIABLES
  status,   \* worker.state.status, which /health reports
  lease,    \* the connection the gateway holds this worker's lease for
  pc,       \* where the connection's handler is suspended
  open,     \* whether the other end still holds the connection
  policy,   \* use_deferred_finalize of a duplex handler, unset before prepare
  fence,    \* finalize_done.is_set(): no deferred finalize in its thread
  dog,      \* the pause watchdog of a duplex handler
  gen,      \* whether a streaming generate thread of the connection runs
  mode,     \* the processor's current mode
  duplex,   \* the duplex capability: whose prompt, stop event, unit to finalize
  context   \* the connection whose tokens are in model.llm_past_key_values

handlerVars == <<pc, open, policy, fence, dog, gen>>
modelVars   == <<mode, duplex, context>>
vars        == <<status, lease, handlerVars, modelVars>>

Statuses == {"idle", "busy_chat", "busy_half_duplex", "duplex_active",
             "duplex_paused"}

\* Where a thread of the executor works for the handler that awaits it.
Working == {"preparing", "updating", "stepping", "finalizing", "cleaning",
            "chatting", "prefilling", "generating"}

\* "polling"     asleep between two looks at is_idle
\* "accepting"   in ws.accept
\* "submitted"   a chat job no thread has taken up yet
\* "receiving"   in ws.receive_text
\* "at_fence"    a chunk waits for finalize_done; "update_at_fence" an update
\* "replying"    in ws.send_json; "result_first" when a deferred finalize is
\*               still to be started; "goodbye" when the loop ends after it
Locations == Working \cup
  {"away", "polling", "accepting", "submitted", "receiving", "at_fence",
   "update_at_fence", "replying", "result_first", "goodbye"}

\* Past its idle check and not over yet.
InSession(c) == pc[c] \notin {"away", "polling", "accepting", "submitted"}

TypeOK ==
  /\ status \in Statuses
  /\ lease \in Conn \cup {None}
  /\ pc \in [Conn -> Locations]
  /\ open \in [Conn -> BOOLEAN]
  /\ policy \in [Conn -> {"unset", "deferred", "sync"}]
  /\ fence \in [Conn -> BOOLEAN]
  /\ dog \in [Conn -> {"off", "sleeping", "closing"}]
  /\ gen \in [Conn -> BOOLEAN]
  /\ mode \in {"chat", "streaming", "duplex"}
  /\ duplex \in [owner : Conn \cup {None}, stop : BOOLEAN, pending : BOOLEAN]
  /\ context \in Conn \cup {None}

\* load_model has returned; the processor is in its default mode.
Init ==
  /\ status = "idle"
  /\ lease = None
  /\ pc = [c \in Conn |-> "away"]
  /\ open = [c \in Conn |-> FALSE]
  /\ policy = [c \in Conn |-> "unset"]
  /\ fence = [c \in Conn |-> TRUE]
  /\ dog = [c \in Conn |-> "off"]
  /\ gen = [c \in Conn |-> FALSE]
  /\ mode = "streaming"
  /\ duplex = [owner |-> None, stop |-> FALSE, pending |-> FALSE]
  /\ context = None
-----------------------------------------------------------------------------
(***************************************************************************)
(* The model.  Every call first switches the processor to its mode, and a  *)
(* switch resets the model's session, a switch to duplex the decoder too.  *)
(***************************************************************************)

Cleared(d) == [d EXCEPT !.owner = None, !.pending = FALSE]

ContextIn(m) == IF mode = m THEN context ELSE None
DuplexIn(m)  == IF mode # m /\ m = "duplex" THEN Cleared(duplex) ELSE duplex

\* A call in mode m that leaves the duplex capability as d, the session as x.
Call(m, d, x) ==
  /\ mode' = m
  /\ duplex' = d
  /\ context' = x

DuplexCall(d) == Call("duplex", d, ContextIn("duplex"))

\* The outcomes a call may have.
Outcomes == IF Fails THEN {"ok", "raise"} ELSE {"ok"}

Goto(c, l) == pc' = [pc EXCEPT ![c] = l]

\* The handler returns and the connection closes: the gateway gives the lease
\* back.
Frees(c) == lease' = IF lease = c THEN None ELSE lease
Ends(c) ==
  /\ Goto(c, "away")
  /\ open' = [open EXCEPT ![c] = FALSE]
  /\ Frees(c)
-----------------------------------------------------------------------------
(***************************************************************************)
(* Connecting, and waiting for the worker to be idle.                      *)
(***************************************************************************)

\* The gateway opens a connection.  Nothing of its name's previous use is left.
Opens(c) ==
  /\ lease = None
  /\ pc[c] = "away"
  /\ fence[c] /\ ~gen[c]
  /\ lease' = c
  /\ open' = [open EXCEPT ![c] = TRUE]
  /\ policy' = [policy EXCEPT ![c] = "unset"]
  /\ UNCHANGED <<fence, dog, gen, modelVars>>

\* What follows the check of is_idle when it succeeds.  /ws/duplex awaits
\* ws.accept before it takes the worker; /chat leaves that to its thread.
Proceeds(c) ==
  \/ /\ Kind[c] = "duplex"
     /\ Goto(c, "accepting")
     /\ UNCHANGED status
  \/ /\ Kind[c] = "chat"
     /\ Goto(c, "submitted")
     /\ UNCHANGED status
  \/ /\ Kind[c] = "chat_ws"
     /\ status' = "busy_half_duplex"
     /\ Goto(c, "prefilling")

\* /chat, /ws/chat and /ws/duplex look first.
Connect(c) ==
  /\ Kind[c] # "half_duplex"
  /\ Opens(c)
  /\ \/ /\ status = "idle"
        /\ Proceeds(c)
     \/ /\ status # "idle"
        /\ Goto(c, "polling")
        /\ UNCHANGED status

\* /ws/half_duplex does not.
ConnectHalf(c) ==
  /\ Kind[c] = "half_duplex"
  /\ Opens(c)
  /\ Goto(c, "accepting")
  /\ UNCHANGED status

\* Mutant of PollIdle: the worker is taken whatever its status.
PollAnyway(c) ==
  /\ pc[c] = "polling"
  /\ Proceeds(c)
  /\ UNCHANGED <<lease, open, policy, fence, dog, gen, modelVars>>

\* One of the ten looks, half a second apart, finds the worker idle.
PollIdle(c) ==
  /\ pc[c] = "polling"
  /\ status = "idle"
  /\ Proceeds(c)
  /\ UNCHANGED <<lease, open, policy, fence, dog, gen, modelVars>>

\* The tenth does not: 429, or the connection is refused.
PollGivesUp(c) ==
  /\ pc[c] = "polling"
  /\ status # "idle"
  /\ Ends(c)
  /\ UNCHANGED <<status, policy, fence, dog, gen, modelVars>>

\* Mutant of Accepted: the session's kind in place of its status.
AcceptedAsKind(c) ==
  /\ pc[c] = "accepting"
  /\ status' = Kind[c]
  /\ Goto(c, "receiving")
  /\ UNCHANGED <<lease, open, policy, fence, dog, gen, modelVars>>

\* ws.accept returns: the handler takes the worker.
Accepted(c) ==
  /\ pc[c] = "accepting"
  /\ status' = IF Kind[c] = "duplex" THEN "duplex_active" ELSE "busy_half_duplex"
  /\ Goto(c, "receiving")
  /\ UNCHANGED <<lease, open, policy, fence, dog, gen, modelVars>>

\* ws.accept raises, before the try block.
AcceptFails(c) ==
  /\ pc[c] = "accepting"
  /\ ~open[c]
  /\ Ends(c)
  /\ UNCHANGED <<status, policy, fence, dog, gen, modelVars>>
-----------------------------------------------------------------------------
(***************************************************************************)
(* /ws/duplex: messages.  What a client sent before it hung up is still    *)
(* read.  Clients prepare before they send anything else that works.       *)
(***************************************************************************)
Receives(c, k) == pc[c] = "receiving" /\ Kind[c] = k

\* "prepare": no wait for the fence.  A message with a config switches the
\* processor on the event loop, before the thread starts.
Prepare(c) ==
  /\ Receives(c, "duplex")
  /\ \E p \in {"deferred", "sync"} : policy' = [policy EXCEPT ![c] = p]
  /\ DuplexCall(DuplexIn("duplex")) \/ UNCHANGED modelVars
  /\ Goto(c, "preparing")
  /\ UNCHANGED <<status, lease, open, fence, dog, gen>>

\* duplex_prepare resets the capability and feeds the new prompt.
PrepareEnds(c) ==
  /\ pc[c] = "preparing" /\ Kind[c] = "duplex"
  /\ \E o \in Outcomes :
       DuplexCall([owner   |-> IF o = "ok" THEN c ELSE None,
                   stop    |-> FALSE,
                   pending |-> FALSE])
  /\ Goto(c, "replying")
  /\ UNCHANGED <<status, lease, open, policy, fence, dog, gen>>

\* "update_system_prompt" and "audio_chunk" wait for finalize_done.  A chunk is
\* refused while the worker is paused.
Update(c) ==
  /\ Receives(c, "duplex")
  /\ policy[c] # "unset"
  /\ Goto(c, IF fence[c] THEN "updating" ELSE "update_at_fence")
  /\ UNCHANGED <<status, lease, open, policy, fence, dog, gen, modelVars>>

\* Mutant of Chunk: the fence is not waited for.
ChunkUnfenced(c) ==
  /\ Receives(c, "duplex")
  /\ policy[c] # "unset"
  /\ Goto(c, IF status = "duplex_paused" THEN "replying" ELSE "stepping")
  /\ UNCHANGED <<status, lease, open, policy, fence, dog, gen, modelVars>>

Chunk(c) ==
  /\ Receives(c, "duplex")
  /\ policy[c] # "unset"
  /\ Goto(c, IF status = "duplex_paused" THEN "replying"
             ELSE IF fence[c] THEN "stepping" ELSE "at_fence")
  /\ UNCHANGED <<status, lease, open, policy, fence, dog, gen, modelVars>>

FencePassed(c) ==
  /\ fence[c]
  /\ \/ pc[c] = "at_fence" /\ Goto(c, "stepping")
     \/ pc[c] = "update_at_fence" /\ Goto(c, "updating")
  /\ UNCHANGED <<status, lease, open, policy, fence, dog, gen, modelVars>>

\* duplex_update_system_prompt finalizes a unit left over and rewrites the
\* prompt in place; without a prepared session it raises.
UpdateEnds(c) ==
  /\ pc[c] = "updating"
  /\ \/ DuplexCall([DuplexIn("duplex") EXCEPT !.pending = FALSE])
     \/ Fails /\ DuplexCall(DuplexIn("duplex"))
  /\ Goto(c, "replying")
  /\ UNCHANGED <<status, lease, open, policy, fence, dog, gen>>

\* _duplex_step, prefill and generate in one thread.  Prefill raises if the last
\* unit is not finalized.  A stopped session or too little audio leaves nothing
\* to finalize; otherwise generate leaves its unit pending, also when it raises
\* later, in the speech half.
StepEnds(c) ==
  /\ pc[c] = "stepping"
  /\ LET d == DuplexIn("duplex") IN
     \/ /\ d.pending
        /\ DuplexCall(d)
        /\ Goto(c, "replying")
     \/ /\ ~d.pending
        /\ \E p \in IF d.stop THEN {FALSE} ELSE BOOLEAN :
             /\ DuplexCall([d EXCEPT !.pending = p])
             /\ \/ Goto(c, IF policy[c] = "deferred" THEN "result_first"
                                                     ELSE "finalizing")
                \/ Fails /\ Goto(c, "replying")
  /\ UNCHANGED <<status, lease, open, policy, fence, dog, gen>>

\* Mutant of ResultSent: the finalize is forgotten.
ResultSentOnly(c) ==
  /\ pc[c] = "result_first"
  /\ Goto(c, "receiving")
  /\ UNCHANGED <<status, lease, open, policy, fence, dog, gen, modelVars>>

\* Deferred: the result has been sent; lower the fence and start _do_finalize.
ResultSent(c) ==
  /\ pc[c] = "result_first"
  /\ Goto(c, "receiving")
  /\ fence' = [fence EXCEPT ![c] = FALSE]
  /\ UNCHANGED <<status, lease, open, policy, dog, gen, modelVars>>

\* Mutant of FinalizeEnds: the fence stays down when finalize raises.
FinalizeEndsWell(c) ==
  /\ ~fence[c]
  /\ \/ /\ DuplexCall([DuplexIn("duplex") EXCEPT !.pending = FALSE])
        /\ fence' = [fence EXCEPT ![c] = TRUE]
     \/ /\ Fails
        /\ DuplexCall(DuplexIn("duplex"))
        /\ UNCHANGED fence
  /\ UNCHANGED <<status, lease, pc, open, policy, dog, gen>>

\* _do_finalize: an exception is logged, and the fence is raised in any case.
FinalizeEnds(c) ==
  /\ ~fence[c]
  /\ \/ DuplexCall([DuplexIn("duplex") EXCEPT !.pending = FALSE])
     \/ Fails /\ DuplexCall(DuplexIn("duplex"))
  /\ fence' = [fence EXCEPT ![c] = TRUE]
  /\ UNCHANGED <<status, lease, pc, open, policy, dog, gen>>

\* Synchronous finalize, before the result is sent.
SyncFinalizeEnds(c) ==
  /\ pc[c] = "finalizing"
  /\ \/ DuplexCall([DuplexIn("duplex") EXCEPT !.pending = FALSE])
     \/ Fails /\ DuplexCall(DuplexIn("duplex"))
  /\ Goto(c, "replying")
  /\ UNCHANGED <<status, lease, open, policy, fence, dog, gen>>

\* "pause" starts the watchdog (and cancels the one before).
Pause(c) ==
  /\ Receives(c, "duplex")
  /\ status' = "duplex_paused"
  /\ dog' = [dog EXCEPT ![c] = "sleeping"]
  /\ Goto(c, "replying")
  /\ UNCHANGED <<lease, open, policy, fence, gen, modelVars>>

\* "resume" cancels it, even on its way to close the connection.
Resume(c) ==
  /\ Receives(c, "duplex")
  /\ status' = "duplex_active"
  /\ dog' = [dog EXCEPT ![c] = "off"]
  /\ Goto(c, "replying")
  /\ UNCHANGED <<lease, open, policy, fence, gen, modelVars>>

\* pause_timeout_watchdog wakes up: the worker is declared idle, then the
\* connection is closed.
DogFires(c) ==
  /\ Timeouts
  /\ dog[c] = "sleeping"
  /\ status' = "idle"
  /\ dog' = [dog EXCEPT ![c] = "closing"]
  /\ UNCHANGED <<lease, pc, open, policy, fence, gen, modelVars>>
DogCloses(c) ==
  /\ dog[c] = "closing"
  /\ dog' = [dog EXCEPT ![c] = "off"]
  /\ open' = [open EXCEPT ![c] = FALSE]
  /\ Frees(c)
  /\ UNCHANGED <<status, pc, policy, fence, gen, modelVars>>

\* "stop"
Stop(c) ==
  /\ Receives(c, "duplex")
  /\ DuplexCall([DuplexIn("duplex") EXCEPT !.stop = TRUE])
  /\ Goto(c, "goodbye")
  /\ UNCHANGED <<status, lease, open, policy, fence, dog, gen>>

\* Mutant of LeaveDuplex: the worker is free while the session still cleans up.
LeaveDuplexFree(c) ==
  /\ Kind[c] = "duplex"
  /\ \/ pc[c] = "goodbye"
     \/ pc[c] \in {"receiving", "replying", "result_first"} /\ ~open[c]
  /\ status' = "idle"
  /\ dog' = [dog EXCEPT ![c] = "off"]
  /\ DuplexCall([DuplexIn("duplex") EXCEPT !.stop = TRUE])
  /\ Goto(c, "cleaning")
  /\ UNCHANGED <<lease, open, policy, fence, gen>>

\* The end of the session: receive or a send raises, or "stopped" was sent.
\* Cancel the watchdog, stop the capability and clean up in a thread; the fence
\* is not waited for.
LeaveDuplex(c) ==
  /\ Kind[c] = "duplex"
  /\ \/ pc[c] = "goodbye"
     \/ pc[c] \in {"receiving", "replying", "result_first"} /\ ~open[c]
  /\ dog' = [dog EXCEPT ![c] = "off"]
  /\ DuplexCall([DuplexIn("duplex") EXCEPT !.stop = TRUE])
  /\ Goto(c, "cleaning")
  /\ UNCHANGED <<status, lease, open, policy, fence, gen>>

\* duplex_cleanup resets the capability and the model's session; a failure is
\* only logged.  The worker is idle again.
CleanupEnds(c) ==
  /\ pc[c] = "cleaning"
  /\ \/ Call("duplex", Cleared(duplex), None)
     \/ Fails /\ DuplexCall(DuplexIn("duplex"))
  /\ status' = "idle"
  /\ Ends(c)
  /\ UNCHANGED <<policy, fence, dog, gen>>
-----------------------------------------------------------------------------
(***************************************************************************)
(* /chat and /ws/chat.                                                     *)
(***************************************************************************)

\* The thread takes up the job and looks at is_idle once more.
ChatStarts(c) ==
  /\ pc[c] = "submitted"
  /\ \/ /\ status = "idle"
        /\ status' = "busy_chat"
        /\ Goto(c, "chatting")
        /\ UNCHANGED <<lease, open>>
     \/ /\ status # "idle"
        /\ Ends(c)
        /\ UNCHANGED status
  /\ UNCHANGED <<policy, fence, dog, gen, modelVars>>

\* MiniCPMOWorker.chat returns or raises.
ChatEnds(c) ==
  /\ pc[c] = "chatting"
  /\ Call("chat", duplex, ContextIn("chat"))
  /\ status' = "idle"
  /\ Ends(c)
  /\ UNCHANGED <<policy, fence, dog, gen>>

\* The gateway gives up on a chat (request_timeout) or on a handshake that waits
\* for an idle worker (open_timeout, as long as the ten looks take).  It gives the
\* lease back, or tries again; neither the thread nor the polling handler knows.
GatewayTimeout(c) ==
  /\ Timeouts
  /\ \/ pc[c] = "chatting"
     \/ pc[c] = "polling" /\ Kind[c] = "duplex"
  /\ open[c]
  /\ open' = [open EXCEPT ![c] = FALSE]
  /\ Frees(c)
  /\ UNCHANGED <<status, pc, policy, fence, dog, gen, modelVars>>

\* Prefill, of a whole chat or of one half-duplex turn, ends; streaming
\* generation starts in a thread that the handler does not await but listens to.
\* (The sends in between are left to "generating".)
PrefillEnds(c) ==
  /\ pc[c] = "prefilling"
  /\ \E o \in Outcomes :
       /\ Call(IF Kind[c] = "chat_ws" THEN "chat" ELSE "streaming", duplex,
               IF o = "ok" THEN c ELSE None)
       /\ gen' = [gen EXCEPT ![c] = (o = "ok")]
       /\ Goto(c, IF o = "ok" THEN "generating" ELSE "replying")
  /\ UNCHANGED <<status, lease, open, policy, fence, dog>>

\* The generate thread ends; it has kept the cache of its own last token.
GenerateEnds(c) ==
  /\ gen[c]
  /\ gen' = [gen EXCEPT ![c] = FALSE]
  /\ context' = c
  /\ pc' = [pc EXCEPT ![c] = IF @ = "generating" THEN "replying" ELSE @]
  /\ UNCHANGED <<status, lease, open, policy, fence, dog, mode, duplex>>

\* /ws/chat: "done" or "error" was sent, or a send raised in the middle of the
\* generation.
LeaveChatWs(c) ==
  /\ Kind[c] = "chat_ws"
  /\ \/ pc[c] = "replying"
     \/ pc[c] = "generating" /\ ~open[c]
  /\ status' = "idle"
  /\ Ends(c)
  /\ UNCHANGED <<policy, fence, dog, gen, modelVars>>
-----------------------------------------------------------------------------
(***************************************************************************)
(* /ws/half_duplex.                                                        *)
(***************************************************************************)

\* "prepare": reset the model's session at once, then prefill the system prompt.
PrepareHalf(c) ==
  /\ Receives(c, "half_duplex")
  /\ Call("streaming", duplex, None)
  /\ policy' = [policy EXCEPT ![c] = "sync"]
  /\ Goto(c, "preparing")
  /\ UNCHANGED <<status, lease, open, fence, dog, gen>>
PrepareHalfEnds(c) ==
  /\ pc[c] = "preparing" /\ Kind[c] = "half_duplex"
  /\ \E o \in Outcomes :
       /\ Call("streaming", duplex, IF o = "ok" THEN c ELSE None)
       /\ Goto(c, IF o = "ok" THEN "replying" ELSE "goodbye")
  /\ UNCHANGED <<status, lease, open, policy, fence, dog, gen>>

\* The chunk that completes an utterance.  (Others only move the VAD.)
Turn(c) ==
  /\ Receives(c, "half_duplex")
  /\ policy[c] # "unset"
  /\ Goto(c, "prefilling")
  /\ UNCHANGED <<status, lease, open, policy, fence, dog, gen, modelVars>>

\* Mutant of LeaveHalf: the worker stays busy after a failed send.
LeaveHalfBusy(c) ==
  /\ Kind[c] = "half_duplex"
  /\ \/ pc[c] \in {"receiving", "goodbye"}
     \/ pc[c] \in {"replying", "generating"} /\ ~open[c]
  /\ status' = IF status = "busy_half_duplex" /\ pc[c] # "generating"
               THEN "idle" ELSE status
  /\ Ends(c)
  /\ UNCHANGED <<policy, fence, dog, gen, modelVars>>

\* "stop", the session's timeout, a hang-up, or a send that raises, perhaps in
\* the middle of the generation.
LeaveHalf(c) ==
  /\ Kind[c] = "half_duplex"
  /\ \/ pc[c] \in {"receiving", "goodbye"}
     \/ pc[c] \in {"replying", "generating"} /\ ~open[c]
  /\ status' = IF status = "busy_half_duplex" THEN "idle" ELSE status
  /\ Ends(c)
  /\ UNCHANGED <<policy, fence, dog, gen, modelVars>>
-----------------------------------------------------------------------------
\* A send of a reply returns: back to the loop.
Replied(c) ==
  /\ pc[c] = "replying"
  /\ Kind[c] \in {"duplex", "half_duplex"}
  /\ Goto(c, "receiving")
  /\ UNCHANGED <<status, lease, open, policy, fence, dog, gen, modelVars>>

\* The client of a WebSocket is gone and the gateway's relay with it.  The
\* gateway gives the lease back at once.  (/chat is not told of hang-ups.)
HangUp(c) ==
  /\ Kind[c] # "chat"
  /\ InSession(c)
  /\ open[c]
  /\ open' = [open EXCEPT ![c] = FALSE]
  /\ Frees(c)
  /\ UNCHANGED <<status, pc, policy, fence, dog, gen, modelVars>>

\* What the worker does by itself...
WorkerStep(c) ==
  \/ PollIdle(c) \/ PollGivesUp(c) \/ Accepted(c) \/ AcceptFails(c)
  \/ PrepareEnds(c) \/ FencePassed(c) \/ UpdateEnds(c) \/ StepEnds(c)
  \/ ResultSent(c) \/ FinalizeEnds(c) \/ SyncFinalizeEnds(c)
  \/ DogFires(c) \/ DogCloses(c) \/ LeaveDuplex(c) \/ CleanupEnds(c)
  \/ ChatStarts(c) \/ ChatEnds(c) \/ PrefillEnds(c) \/ GenerateEnds(c)
  \/ LeaveChatWs(c) \/ PrepareHalfEnds(c) \/ LeaveHalf(c) \/ Replied(c)

\* ...and what others ask of it.
ClientStep(c) ==
  \/ Connect(c) \/ ConnectHalf(c)
  \/ Prepare(c) \/ Update(c) \/ Chunk(c) \/ Pause(c) \/ Resume(c) \/ Stop(c)
  \/ PrepareHalf(c) \/ Turn(c)
  \/ GatewayTimeout(c) \/ HangUp(c)

Next == \E c \in Conn : WorkerStep(c) \/ ClientStep(c)

Spec == Init /\ [][Next]_vars

(***************************************************************************)
(* Fairness.  Threads end, the event loop resumes what is ready and a send *)
(* returns or raises.  A client that has hung up has sent finitely many    *)
(* messages, so a handler that keeps reading reads the end of them: strong *)
(* fairness of leaving, which other messages may put off again and again.  *)
(* Nothing is assumed of clients, of the gateway or of timers.             *)
(***************************************************************************)
Fairness ==
  \A c \in Conn :
    /\ WF_vars(Accepted(c) \/ AcceptFails(c))
    /\ WF_vars(PrepareEnds(c) \/ PrepareHalfEnds(c))
    /\ WF_vars(FencePassed(c))
    /\ WF_vars(UpdateEnds(c))
    /\ WF_vars(StepEnds(c))
    /\ WF_vars(FinalizeEnds(c))
    /\ WF_vars(SyncFinalizeEnds(c))
    /\ WF_vars(ResultSent(c))
    /\ WF_vars(Replied(c))
    /\ WF_vars(CleanupEnds(c))
    /\ WF_vars(ChatStarts(c))
    /\ WF_vars(ChatEnds(c))
    /\ WF_vars(PrefillEnds(c))
    /\ WF_vars(GenerateEnds(c))
    /\ WF_vars(LeaveChatWs(c))
    /\ SF_vars(LeaveDuplex(c))
    /\ SF_vars(LeaveHalf(c))

FairSpec == Spec /\ Fairness
-----------------------------------------------------------------------------
(***************************************************************************)
(* Safety.                                                                 *)
(***************************************************************************)

\* The worker serves one session at a time, cleanup included: a session is
\* admitted only when the one before is over ("duplex has the worker to
\* itself", worker.py:1470).
OneSession ==
  \A c, d \in Conn : InSession(c) /\ InSession(d) => c = d

\* A duplex session never prefills on a unit that is not finalized: the cache
\* would lack the end of that unit, and streaming_prefill refuses it
\* (duplex.py:464, worker.py:514).
FinalizedBeforeStep ==
  \A c \in Conn : pc[c] = "stepping" => ~duplex.pending

\* The fence between a deferred finalize and what comes next in its own session:
\* neither the next chunk nor a prompt update touches the cache while the
\* finalize thread does (worker.py:1478, 1621, 1711).
FenceHolds ==
  \A c \in Conn : pc[c] \in {"stepping", "updating"} => fence[c]

\* The worker is not left busy: whatever timed out, failed or overlapped, when no
\* handler is in, the status is idle, or the gateway could never use it again.
NobodyInMeansIdle ==
  (\A c \in Conn : pc[c] = "away") => status = "idle"

\* The thread of a session that is already over ends.
StragglerEnds ==
  \E d \in Conn : ~InSession(d) /\ (fence'[d] # fence[d] \/ gen'[d] # gen[d])

\* The step takes c's prompt out of the decoder, stops it, or replaces the cache
\* its generation works on, and is not its own prepare, prefill or end.
Disturbs(c) ==
  \/ /\ duplex.owner = c /\ duplex'.owner # c
     /\ pc[c] \notin {"preparing", "cleaning"} /\ pc'[c] # "cleaning"
  \/ /\ duplex.owner = c /\ duplex'.stop /\ ~duplex.stop
     /\ pc'[c] \notin {"goodbye", "cleaning"}
  \/ /\ context = c /\ context' # c
     /\ pc[c] \notin {"preparing", "prefilling"} /\ pc'[c] # "preparing"

\* What the worker does for one connection never disturbs the session of another:
\* no cleanup, stop, prepare or change of mode hits a session in progress.
\* A thread left over from an earlier session may: its handler declared the worker
\* idle while it worked on (worker.py:1078).
SessionUndisturbedStep ==
  \A c \in Conn : InSession(c) /\ Disturbs(c) => StragglerEnds
SessionUndisturbed == [][SessionUndisturbedStep]_vars
-----------------------------------------------------------------------------
(***************************************************************************)
(* Liveness, under FairSpec.                                               *)
(***************************************************************************)

\* A session whose client is gone ends: no wait in it, for the fence, for a
\* thread or for a message, goes on for ever.
GoneSessionEnds ==
  \A c \in Conn : (InSession(c) /\ ~open[c]) ~> pc[c] = "away"
=============================================================================
