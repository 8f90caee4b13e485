------------------------------ MODULE HalfDuplex ------------------------------
(***************************************************************************)
(* One half-duplex connection (server/worker.py, half_duplex_ws): the      *)
(* handler reads one message after the other, cuts the audio into segments *)
(* with a StreamingVAD, and answers each segment in a turn during which it *)
(* reads nothing: a prefill in a thread, then a thread that generates and  *)
(* hands its chunks to the handler through a queue.  A stop event ends the *)
(* generation between two chunks.                                          *)
(***************************************************************************)
EXTENDS VoiceActivity

CONSTANTS
  Pieces,         \* lengths of the audio chunks clients send
  EarlyStops,     \* whether /half_duplex/stop may come during a prefill
  MaxAudio,       \* bound: samples a client sends
  MaxPrepares,    \* bound: prepares a client sends
  MaxInbox,       \* bound: messages that have not been read
  MaxChunks       \* bound: chunks of an answer

ASSUME HalfDuplexAssumption ==
  /\ Pieces \subseteq Nat \ {0}
  /\ EarlyStops \in BOOLEAN
  /\ MaxAudio \in Nat /\ MaxPrepares \in Nat /\ MaxInbox \in Nat /\ MaxChunks \in Nat

VARIABLES
  client,    \* connected, samples sent, prepares sent
  inbox,     \* messages the handler has not read
  handler,   \* where it is, vad, turn_index, whether the initial guard is on
  heard,     \* the segment of the latest turn, and the last sample before it
  stop,      \* stop_event
  thread,    \* _run_generate: where it is, chunks of this answer
  queue,     \* chunk_queue
  record,    \* hdx_recorder: the current turn's chunks, the turns recorded
  after      \* chunks made since a stop was asked for in this turn (-1: none was)

vars == <<client, inbox, handler, heard, stop, thread, queue, record, after>>

\* The handler waits for a message, for the prefill of the system prompt or of a
\* segment, or for the chunks of an answer; or it has ended.
Places == {"waiting", "preparing", "prefill", "answer", "gone"}

NoVad == <<>>
NotAsked == -1

Init ==
  /\ client = [connected |-> TRUE, sent |-> 0, prepares |-> 0]
  /\ inbox = <<>>
  /\ handler = [at |-> "waiting", vad |-> NoVad, turn |-> 0, guard |-> FALSE]
  /\ heard = [segment |-> <<>>, before |-> 0]
  /\ stop = FALSE
  /\ thread = [at |-> "off", made |-> 0]
  /\ queue = <<>>
  /\ record = [parts |-> <<>>, turns |-> <<>>]
  /\ after = NotAsked

-----------------------------------------------------------------------------
(***************************************************************************)
(* The client, and the endpoint that stops every half-duplex session.      *)
(***************************************************************************)
Send(message) ==
  /\ client.connected
  /\ Len(inbox) < MaxInbox
  /\ inbox' = Append(inbox, message)

SendAudio(n) ==
  /\ client.sent + n <= MaxAudio
  /\ Send([kind |-> "audio", samples |-> [i \in 1 .. n |-> client.sent + i]])
  /\ client' = [client EXCEPT !.sent = @ + n]
  /\ UNCHANGED <<handler, heard, stop, thread, queue, record, after>>

SendPrepare ==
  /\ client.prepares < MaxPrepares
  /\ Send([kind |-> "prepare"])
  /\ client' = [client EXCEPT !.prepares = @ + 1]
  /\ UNCHANGED <<handler, heard, stop, thread, queue, record, after>>

SendStop ==
  /\ Send([kind |-> "stop"])
  /\ UNCHANGED <<client, handler, heard, stop, thread, queue, record, after>>

HangUp ==
  /\ client.connected
  /\ client' = [client EXCEPT !.connected = FALSE]
  /\ UNCHANGED <<inbox, handler, heard, stop, thread, queue, record, after>>

Asked == IF after = NotAsked THEN 0 ELSE after

StopAll ==
  /\ handler.at # "gone"
  /\ handler.at = "prefill" => EarlyStops
  /\ stop' = TRUE
  /\ after' = IF handler.at \in {"prefill", "answer"} THEN Asked ELSE after
  /\ UNCHANGED <<client, inbox, handler, heard, thread, queue, record>>

-----------------------------------------------------------------------------
(***************************************************************************)
(* The handler.  A send to a client that is gone raises.                   *)
(***************************************************************************)

\* Mutant of Leave: the generation is not told.
LeaveRunning ==
  /\ handler' = [handler EXCEPT !.at = "gone"]
  /\ UNCHANGED stop
  /\ after' = IF thread.at = "off" THEN after ELSE Asked

\* The finally block; a generation that goes on is told to stop.
Leave ==
  /\ handler' = [handler EXCEPT !.at = "gone"]
  /\ stop' = TRUE
  /\ after' = IF thread.at = "off" THEN after ELSE Asked

Goto(place) == handler' = [handler EXCEPT !.at = place] /\ UNCHANGED <<stop, after>>

Read(kind) ==
  /\ handler.at = "waiting"
  /\ inbox # <<>>
  /\ Head(inbox).kind = kind
  /\ inbox' = Tail(inbox)

\* The disconnect is read behind the messages, the time limit before them.
ReadDisconnect ==
  /\ handler.at = "waiting"
  /\ inbox = <<>>
  /\ ~ client.connected
  /\ Leave
  /\ UNCHANGED <<client, inbox, heard, thread, queue, record>>

Timeout ==
  /\ handler.at = "waiting"
  /\ Leave
  /\ UNCHANGED <<client, inbox, heard, thread, queue, record>>

ReadStop ==
  /\ Read("stop")
  /\ Leave
  /\ UNCHANGED <<client, heard, thread, queue, record>>

\* "prepare": a new VAD, then the prefill of the system prompt and the TTS.
ReadPrepare ==
  /\ Read("prepare")
  /\ handler' = [handler EXCEPT !.at = "preparing", !.vad = NewVad]
  /\ UNCHANGED <<client, heard, stop, thread, queue, record, after>>

\* A new recorder replaces the one there is, whose turns are lost.
PrepareEnds ==
  /\ handler.at = "preparing"
  /\ record' = [parts |-> <<>>, turns |-> <<>>]
  /\ IF client.connected
     THEN /\ handler' = [handler EXCEPT !.at = "waiting", !.guard = TRUE]
          /\ UNCHANGED <<stop, after>>
     ELSE Leave
  /\ UNCHANGED <<client, inbox, heard, thread, queue>>

PrepareRaises ==
  /\ handler.at = "preparing"
  /\ Leave
  /\ UNCHANGED <<client, inbox, heard, thread, queue, record>>

GuardEnds ==
  /\ handler.guard
  /\ handler' = [handler EXCEPT !.guard = FALSE]
  /\ UNCHANGED <<client, inbox, heard, stop, thread, queue, record, after>>

\* Audio before the prepare is refused, audio under the guard ignored.
SkipAudio ==
  /\ Read("audio")
  /\ handler.vad = NoVad \/ handler.guard
  /\ IF handler.vad = NoVad /\ ~ client.connected THEN Leave ELSE Goto("waiting")
  /\ UNCHANGED <<client, heard, thread, queue, record>>

LastOf(segment) ==
  LET samples == segment[Len(segment)].samples IN samples[Len(samples)]

\* A segment begins a turn.  The client is told of it, and of speech that begins
\* or is dropped for its shortness.
HearAudio(verdict) ==
  LET fed == Feed(handler.vad, Head(inbox).samples, verdict)
      tells == fed.segment # <<>> \/ fed.vad.triggered # handler.vad.triggered
  IN
  /\ Read("audio")
  /\ ~ (handler.vad = NoVad \/ handler.guard)
  /\ IF tells /\ ~ client.connected
     THEN Leave /\ UNCHANGED <<heard, record>>
     ELSE IF fed.segment = <<>>
     THEN /\ handler' = [handler EXCEPT !.vad = fed.vad]
          /\ UNCHANGED <<heard, stop, record, after>>
     ELSE /\ handler' = [handler EXCEPT !.vad = fed.vad, !.at = "prefill"]
          /\ heard' = [segment |-> fed.segment,
                       before |-> IF heard.segment = <<>> THEN 0 ELSE LastOf(heard.segment)]
          /\ record' = [record EXCEPT !.parts = <<>>]
          /\ after' = NotAsked
          /\ UNCHANGED stop
  /\ UNCHANGED <<client, thread, queue>>

Verdicts ==
  IF inbox = <<>> \/ Head(inbox).kind # "audio" \/ handler.vad = NoVad THEN {}
  ELSE [1 .. Windows(handler.vad, Head(inbox).samples) -> Loudness]

\* The event is cleared, and the generation starts with a queue of its own.
PrefillEnds ==
  /\ handler.at = "prefill"
  /\ handler' = [handler EXCEPT !.at = "answer"]
  /\ stop' = FALSE
  /\ thread' = [at |-> "running", made |-> 0]
  /\ queue' = <<>>
  /\ UNCHANGED <<client, inbox, heard, record, after>>

\* A turn that raises is reported; the VAD is not reset, the index not advanced.
TurnFails == IF client.connected THEN Goto("waiting") ELSE Leave

PrefillRaises ==
  /\ handler.at = "prefill"
  /\ TurnFails
  /\ UNCHANGED <<client, inbox, heard, thread, queue, record>>

Item(kind) == handler.at = "answer" /\ queue # <<>> /\ Head(queue).kind = kind
Taken == queue' = Tail(queue)

ReceiveChunk ==
  /\ Item("chunk")
  /\ Taken
  /\ IF client.connected
     THEN /\ record' = [record EXCEPT !.parts = Append(@, Head(queue).number)]
          /\ UNCHANGED <<handler, stop, after>>
     ELSE Leave /\ UNCHANGED record
  /\ UNCHANGED <<client, inbox, heard, thread>>

\* Mutant of ReceiveDone: the index is not advanced.
ReceiveDoneSameTurn ==
  /\ Item("done")
  /\ Taken
  /\ record' = [parts |-> <<>>,
                turns |-> Append(record.turns,
                  [turn |-> handler.turn, parts |-> record.parts, made |-> thread.made])]
  /\ IF client.connected
     THEN /\ handler' = [handler EXCEPT !.at = "waiting", !.vad = NewVad]
          /\ UNCHANGED <<stop, after>>
     ELSE /\ handler' = [handler EXCEPT !.at = "gone"]
          /\ stop' = TRUE
          /\ UNCHANGED after
  /\ UNCHANGED <<client, inbox, heard, thread>>

\* The turn is recorded and the VAD reset, unless the client has gone.
ReceiveDone ==
  /\ Item("done")
  /\ Taken
  /\ record' = [parts |-> <<>>,
                turns |-> Append(record.turns,
                  [turn |-> handler.turn, parts |-> record.parts, made |-> thread.made])]
  /\ IF client.connected
     THEN /\ handler' = [handler EXCEPT !.at = "waiting", !.vad = NewVad, !.turn = @ + 1]
          /\ UNCHANGED <<stop, after>>
     ELSE /\ handler' = [handler EXCEPT !.at = "gone", !.turn = @ + 1]
          /\ stop' = TRUE
          /\ UNCHANGED after
  /\ UNCHANGED <<client, inbox, heard, thread>>

ReceiveError ==
  /\ Item("error")
  /\ Taken
  /\ TurnFails
  /\ UNCHANGED <<client, inbox, heard, thread, record>>

-----------------------------------------------------------------------------
(***************************************************************************)
(* The thread that generates.                                              *)
(***************************************************************************)
Put(item) == queue' = Append(queue, item)

MakeChunk ==
  /\ thread.at = "running"
  /\ thread.made < MaxChunks
  /\ Put([kind |-> "chunk", number |-> thread.made + 1])
  /\ thread' = [at |-> "checking", made |-> thread.made + 1]
  /\ after' = IF after = NotAsked THEN after ELSE after + 1
  /\ UNCHANGED <<client, inbox, handler, heard, stop, record>>

\* Mutant of CheckStop: the loop is not left.
CheckStopGoesOn ==
  /\ thread.at = "checking"
  /\ thread' = [thread EXCEPT !.at = "running"]
  /\ IF stop THEN Put([kind |-> "done"]) ELSE UNCHANGED queue
  /\ UNCHANGED <<client, inbox, handler, heard, stop, record, after>>

CheckStop ==
  /\ thread.at = "checking"
  /\ IF stop
     THEN thread' = [thread EXCEPT !.at = "off"] /\ Put([kind |-> "done"])
     ELSE thread' = [thread EXCEPT !.at = "running"] /\ UNCHANGED queue
  /\ UNCHANGED <<client, inbox, handler, heard, stop, record, after>>

AnswerEnds ==
  /\ thread.at = "running"
  /\ thread' = [thread EXCEPT !.at = "off"]
  /\ Put([kind |-> "done"])
  /\ UNCHANGED <<client, inbox, handler, heard, stop, record, after>>

\* Mutant of AnswerRaises: the handler is not told.
AnswerRaisesUntold ==
  /\ thread.at = "running"
  /\ thread' = [thread EXCEPT !.at = "off"]
  /\ UNCHANGED <<client, inbox, handler, heard, stop, queue, record, after>>

AnswerRaises ==
  /\ thread.at = "running"
  /\ thread' = [thread EXCEPT !.at = "off"]
  /\ Put([kind |-> "error"])
  /\ UNCHANGED <<client, inbox, handler, heard, stop, record, after>>

-----------------------------------------------------------------------------
HandlerStep ==
  \/ ReadDisconnect \/ ReadStop \/ ReadPrepare \/ PrepareEnds \/ PrepareRaises
  \/ SkipAudio
  \/ \E verdict \in Verdicts : HearAudio(verdict)
  \/ PrefillEnds \/ PrefillRaises
  \/ ReceiveChunk \/ ReceiveDone \/ ReceiveError

ThreadStep == MakeChunk \/ CheckStop \/ AnswerEnds \/ AnswerRaises

Next ==
  \/ \E n \in Pieces : SendAudio(n)
  \/ SendPrepare \/ SendStop \/ HangUp \/ StopAll
  \/ Timeout \/ GuardEnds
  \/ HandlerStep \/ ThreadStep

Spec == Init /\ [][Next]_vars

\* The event loop resumes the handler, the prefill thread returns or raises, and
\* the generation goes on; nothing makes a client send or the limit pass.
FairSpec == Spec /\ WF_vars(HandlerStep) /\ WF_vars(ThreadStep)

-----------------------------------------------------------------------------
TypeOK ==
  /\ client \in [connected : BOOLEAN, sent : 0 .. MaxAudio, prepares : 0 .. MaxPrepares]
  /\ Len(inbox) <= MaxInbox
  /\ handler.at \in Places
  /\ stop \in BOOLEAN
  /\ thread \in [at : {"off", "running", "checking"}, made : 0 .. MaxChunks]
  /\ thread.at # "off" => handler.at \in {"answer", "gone"}
  /\ after \in {NotAsked} \union 0 .. MaxChunks

\* The silence at the end of a segment: the last windows that are quiet, after
\* the last loud one.
QuietAt(segment, k) == segment[k].loudness = "quiet"
SilenceAt(segment, k) ==
  /\ QuietAt(segment, k)
  /\ \E j \in 1 .. k :
       /\ \A i \in j .. k : QuietAt(segment, i)
       /\ (k - j + 1) * Window >= MinSilence

Whole(segment) ==
  LET count == Len(segment) IN
  /\ segment[1].loudness = "loud"
  /\ \A k \in 1 .. count - 1 :
       segment[k + 1].samples[1] = segment[k].samples[Window] + 1
  /\ SilenceAt(segment, count)
  /\ \A k \in 1 .. count - 1 : ~ SilenceAt(segment, k)

\* What is answered is speech as it was sent: it begins with a loud window, has no
\* gap, and ends with the first silence of the required length, however the audio
\* was cut into messages and whatever turns, prepares and stops came between.
SegmentWhole == heard.segment # <<>> => Whole(heard.segment)

\* No sample is answered twice, and turns answer speech in the order it was sent.
SegmentsApart ==
  heard.segment # <<>> => heard.segment[1].samples[1] > heard.before

\* The recording holds, for every turn that ended, every chunk it made, in order,
\* under an index of its own.
TimelineTrue ==
  /\ \A i \in 1 .. Len(record.turns) :
       record.turns[i].parts = [k \in 1 .. record.turns[i].made |-> k]
  /\ \A i, j \in 1 .. Len(record.turns) :
       i < j => record.turns[i].turn < record.turns[j].turn

\* A stop asked for during a turn lets at most one more chunk be made.
StopHeeded == after <= 1

\* A handler whose client has gone ends.
GoneEnds == ~ client.connected ~> handler.at = "gone" /\ thread.at = "off"
=============================================================================
