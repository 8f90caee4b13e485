--------------------------- MODULE SessionRecorder ---------------------------
(***************************************************************************)
(* The recording of sessions (server/session_recorder.py and the calls of  *)
(* /ws/duplex to it).  A connection's handler runs on the event loop: it   *)
(* hands every file to a pool of threads that all sessions of the worker   *)
(* share, and keeps the timeline in memory.  finalize() hands the pool one *)
(* more job, the flush, which waits IN ITS THREAD for the session's other  *)
(* jobs, rewrites meta.json, stitches the replay from the files, and       *)
(* writes recording.json.                                                  *)
(*                                                                         *)
(* A file holds the number of the take (the audio chunk as the client sent *)
(* it) that was written to it.  A frame, an image or a video is saved the  *)
(* way the user's audio is.                                                *)
(***************************************************************************)
EXTENDS Integers, Sequences, FiniteSets

CONSTANTS
  Session,      \* connections that record, each with a directory of its own
  Thread,       \* threads of _io_pool (4 in the code)
  MaxTakes,     \* bound: audio chunks that all clients send
  MaxPrepares   \* bound: "prepare" messages in one session

ASSUME RecorderAssumption ==
  /\ MaxTakes \in Nat
  /\ MaxPrepares \in Nat

VARIABLES
  handler,   \* where a connection's handler is: see Phases
  rec,       \* its current recorder: prepares so far, chunk_idx, the timeline
  pending,   \* _pending_io: the jobs handed to the pool for that recorder
  queue,     \* jobs no thread has taken yet
  thread,    \* what each thread of the pool does
  disk,      \* the session directories
  sent       \* audio chunks sent so far: the number of the latest take

vars == <<handler, rec, pending, queue, thread, disk, sent>>

(***************************************************************************)
(* A handler is "new" before the first prepare, "ready" for a message,     *)
(* inside a "step" of the model, or "closed" after finalize().             *)
(***************************************************************************)
Phases == {"new", "ready", "step", "closed"}

Tracks == {"user", "ai"}
Files == Tracks \X (0 .. MaxTakes - 1)      \* user_audio/NNN.wav, ai_audio/...
Takes == 1 .. MaxTakes

\* What a file holds: nothing, a part (opened, not closed), or a take.
Absent == 0
Partial == -1

Chunks == [take : Takes, ai : BOOLEAN]      \* an entry of the timeline

Writes == [kind : {"write"}, of : Session, take : Takes, file : Files]
Flushes == [kind : {"flush"}, of : Session]
Jobs == Writes \cup Flushes
Idle == [kind |-> "none"]

\* Stages of a job: a write opens and closes its file; a flush waits, rewrites
\* meta.json (opened, then closed), stitches and writes recording.json.
Stages == {"start", "open", "wait", "meta", "stitch", "save"}

NoReplay == <<>>
NoDirectory == [there |-> FALSE, file |-> [f \in Files |-> Absent],
                meta |-> "absent", replay |-> NoReplay, saved |-> FALSE]

\* Of a recorder, saved and before are auxiliary: the writes it has handed to the
\* pool so far, and those that earlier recorders of the directory had.
NoRecorder == [prepares |-> 0, chunk |-> 0, take |-> 0, chunks |-> <<>>,
               saved |-> {}, before |-> {}]

Init ==
  /\ handler = [s \in Session |-> "new"]
  /\ rec = [s \in Session |-> NoRecorder]
  /\ pending = [s \in Session |-> {}]
  /\ queue = <<>>
  /\ thread = [t \in Thread |-> [job |-> Idle, stage |-> "start"]]
  /\ disk = [s \in Session |-> NoDirectory]
  /\ sent = 0

-----------------------------------------------------------------------------
(***************************************************************************)
(* The handler, on the event loop.                                         *)
(***************************************************************************)

\* "prepare": a new recorder makes the directories and writes meta.json.  A
\* second prepare replaces the recorder without finalizing the first: its
\* timeline and its list of pending jobs are dropped, its directory is kept.
Prepare(s) ==
  /\ handler[s] \in {"new", "ready"}
  /\ rec[s].prepares < MaxPrepares
  /\ handler' = [handler EXCEPT ![s] = "ready"]
  /\ rec' = [rec EXCEPT ![s] = [prepares |-> @.prepares + 1, chunk |-> 0, take |-> 0,
                                chunks |-> <<>>, saved |-> {},
                                before |-> @.before \cup @.saved]]
  /\ pending' = [pending EXCEPT ![s] = {}]
  /\ disk' = [disk EXCEPT ![s].there = TRUE, ![s].meta = "live"]
  /\ UNCHANGED <<queue, thread, sent>>

\* _io_pool.submit, remembered in _pending_io.
Submit(s, job) ==
  /\ queue' = Append(queue, job)
  /\ pending' = [pending EXCEPT ![s] = @ \cup {job}]

\* A save goes under the recorder's current index.
Save(s, track, take) ==
  [kind |-> "write", of |-> s, take |-> take, file |-> <<track, rec[s].chunk>>]

\* "audio_chunk": the chunk is saved under the current index before the step.
Receive(s) ==
  /\ handler[s] = "ready"
  /\ sent < MaxTakes
  /\ sent' = sent + 1
  /\ handler' = [handler EXCEPT ![s] = "step"]
  /\ rec' = [rec EXCEPT ![s] =
         [@ EXCEPT !.take = sent + 1,
                   !.saved = rec[s].saved \cup {Save(s, "user", sent + 1)}]]
  /\ Submit(s, Save(s, "user", sent + 1))
  /\ UNCHANGED <<thread, disk>>

\* The step's result: the model's audio is saved, the entry recorded, and only
\* now the index moves on.
Recorded(s, ai) ==
  /\ handler[s] = "step"
  /\ handler' = [handler EXCEPT ![s] = "ready"]
  /\ rec' = [rec EXCEPT ![s] =
         [@ EXCEPT !.chunk = rec[s].chunk + 1,
                   !.chunks = Append(rec[s].chunks, [take |-> rec[s].take, ai |-> ai]),
                   !.saved = IF ai THEN rec[s].saved \cup {Save(s, "ai", rec[s].take)}
                                   ELSE rec[s].saved]]
  /\ IF ai THEN Submit(s, Save(s, "ai", rec[s].take)) ELSE UNCHANGED <<queue, pending>>
  /\ UNCHANGED <<thread, disk, sent>>

\* The step raises: the error is reported and the index is used again.
StepFails(s) ==
  /\ handler[s] = "step"
  /\ handler' = [handler EXCEPT ![s] = "ready"]
  /\ UNCHANGED <<rec, pending, queue, thread, disk, sent>>

\* Mutants of Leave: the flush goes ahead of the saves; it is remembered among the
\* jobs that it waits for.
LeaveUrgent(s) ==
  /\ handler[s] = "ready"
  /\ handler' = [handler EXCEPT ![s] = "closed"]
  /\ queue' = <<[kind |-> "flush", of |-> s]>> \o queue
  /\ UNCHANGED <<rec, pending, thread, disk, sent>>
LeaveRemembered(s) ==
  /\ handler[s] = "ready"
  /\ handler' = [handler EXCEPT ![s] = "closed"]
  /\ Submit(s, [kind |-> "flush", of |-> s])
  /\ UNCHANGED <<rec, thread, disk, sent>>

\* The connection ends, and finalize() submits the flush.
Leave(s) ==
  /\ handler[s] = "ready"
  /\ handler' = [handler EXCEPT ![s] = "closed"]
  /\ queue' = Append(queue, [kind |-> "flush", of |-> s])
  /\ UNCHANGED <<rec, pending, thread, disk, sent>>

-----------------------------------------------------------------------------
(***************************************************************************)
(* The threads of the pool.                                                *)
(***************************************************************************)
Running(job) == \E t \in Thread : thread[t].job = job
Queued(job) == \E i \in 1 .. Len(queue) : queue[i] = job
Done(job) == ~ Running(job) /\ ~ Queued(job)

Doing(t, kind, stage) == thread[t].job.kind = kind /\ thread[t].stage = stage
Free(t) == thread' = [thread EXCEPT ![t] = [job |-> Idle, stage |-> "start"]]
Proceed(t, stage) == thread' = [thread EXCEPT ![t].stage = stage]

\* A thread takes the oldest job.
Take(t) ==
  /\ thread[t].job = Idle
  /\ queue # <<>>
  /\ thread' = [thread EXCEPT ![t] =
       [job |-> Head(queue),
        stage |-> IF Head(queue).kind = "flush" THEN "wait" ELSE "start"]]
  /\ queue' = Tail(queue)
  /\ UNCHANGED <<handler, rec, pending, disk, sent>>

\* A write truncates its file; without a directory it raises, which nobody sees.
OpenFile(t) ==
  LET job == thread[t].job IN
  /\ Doing(t, "write", "start")
  /\ IF disk[job.of].there
     THEN /\ disk' = [disk EXCEPT ![job.of].file[job.file] = Partial]
          /\ Proceed(t, "open")
     ELSE Free(t) /\ UNCHANGED disk
  /\ UNCHANGED <<handler, rec, pending, queue, sent>>

\* The data are in the file, unless the file has been unlinked.
CloseFile(t) ==
  LET job == thread[t].job
      now == disk[job.of].file[job.file]
  IN
  /\ Doing(t, "write", "open")
  /\ disk' = [disk EXCEPT ![job.of].file[job.file] =
                IF now = Absent THEN Absent ELSE job.take]
  /\ Free(t)
  /\ UNCHANGED <<handler, rec, pending, queue, sent>>

\* Mutants of FlushWaits: it does not wait; it takes the meta.json for granted.
FlushWaitsNot(t) ==
  LET s == thread[t].job.of IN
  /\ Doing(t, "flush", "wait")
  /\ pending' = [pending EXCEPT ![s] = {}]
  /\ IF disk[s].there
     THEN disk' = [disk EXCEPT ![s].meta = "partial"] /\ Proceed(t, "meta")
     ELSE Free(t) /\ UNCHANGED disk
  /\ UNCHANGED <<handler, rec, queue, sent>>
FlushWaitsTrusting(t) ==
  LET s == thread[t].job.of IN
  /\ Doing(t, "flush", "wait")
  /\ \A job \in pending[s] : Done(job)
  /\ pending' = [pending EXCEPT ![s] = {}]
  /\ IF disk[s].there /\ disk[s].meta # "absent"
     THEN disk' = [disk EXCEPT ![s].meta = "partial"] /\ Proceed(t, "meta")
     ELSE Free(t) /\ UNCHANGED disk
  /\ UNCHANGED <<handler, rec, queue, sent>>

\* _wait_pending_io.  A meta.json that cannot be read is replaced by an empty
\* one, which has no created_at.
FlushWaits(t) ==
  LET s == thread[t].job.of IN
  /\ Doing(t, "flush", "wait")
  /\ \A job \in pending[s] : Done(job)
  /\ pending' = [pending EXCEPT ![s] = {}]
  /\ IF disk[s].there
     THEN disk' = [disk EXCEPT ![s].meta = "partial"] /\ Proceed(t, "meta")
     ELSE Free(t) /\ UNCHANGED disk
  /\ UNCHANGED <<handler, rec, queue, sent>>

FlushMeta(t) ==
  LET s == thread[t].job.of IN
  /\ Doing(t, "flush", "meta")
  /\ disk' = [disk EXCEPT ![s].meta = IF @ = "partial" THEN "ended" ELSE @]
  /\ Proceed(t, "stitch")
  /\ UNCHANGED <<handler, rec, pending, queue, sent>>

\* _finalize_hook: what the replay takes from the file of each chunk.
Stitched(s) ==
  [i \in 1 .. Len(rec[s].chunks) |->
     [user |-> disk[s].file[<<"user", i - 1>>],
      ai |-> IF rec[s].chunks[i].ai THEN disk[s].file[<<"ai", i - 1>>] ELSE Absent]]

FlushStitch(t) ==
  LET s == thread[t].job.of IN
  /\ Doing(t, "flush", "stitch")
  /\ IF disk[s].there
     THEN disk' = [disk EXCEPT ![s].replay = Stitched(s)] /\ Proceed(t, "save")
     ELSE Free(t) /\ UNCHANGED disk
  /\ UNCHANGED <<handler, rec, pending, queue, sent>>

FlushSave(t) ==
  LET s == thread[t].job.of IN
  /\ Doing(t, "flush", "save")
  /\ disk' = IF disk[s].there THEN [disk EXCEPT ![s].saved = TRUE] ELSE disk
  /\ Free(t)
  /\ UNCHANGED <<handler, rec, pending, queue, sent>>

HandlerStep(s) ==
  \/ Prepare(s)
  \/ Receive(s)
  \/ \E ai \in BOOLEAN : Recorded(s, ai)
  \/ StepFails(s)
  \/ Leave(s)

JobStep(t) ==
  \/ OpenFile(t)
  \/ CloseFile(t)
  \/ FlushWaits(t)
  \/ FlushMeta(t)
  \/ FlushStitch(t)
  \/ FlushSave(t)

Next ==
  \/ \E s \in Session : HandlerStep(s)
  \/ \E t \in Thread : Take(t) \/ JobStep(t)

Spec == Init /\ [][Next]_vars

-----------------------------------------------------------------------------
Directories ==
  [there : BOOLEAN, file : [Files -> Takes \cup {Absent, Partial}],
   meta : {"absent", "live", "partial", "ended"},
   replay : Seq([user : Takes \cup {Absent, Partial}, ai : Takes \cup {Absent, Partial}]),
   saved : BOOLEAN]

\* Every variable keeps its type (the timeline and the jobs as the code builds
\* them).
TypeOK ==
  /\ handler \in [Session -> Phases]
  /\ rec \in [Session -> [prepares : 0 .. MaxPrepares, chunk : 0 .. MaxTakes,
                          take : 0 .. MaxTakes, chunks : Seq(Chunks),
                          saved : SUBSET Writes, before : SUBSET Writes]]
  /\ pending \in [Session -> SUBSET Writes]
  /\ queue \in Seq(Jobs)
  /\ thread \in [Thread -> [job : Jobs \cup {Idle}, stage : Stages]]
  /\ disk \in [Session -> Directories]
  /\ sent \in 0 .. MaxTakes

\* The flush occupies a thread of the pool while it waits for jobs of the same
\* pool: none of them may still be queued, or sessions that end together could
\* hold every thread and wait for writes that get none.
FlushWaitsForRunning ==
  \A t \in Thread :
    Doing(t, "flush", "wait") =>
      \A job \in pending[thread[t].job.of] : ~ Queued(job)

\* What the replay may have for a chunk's file: the take that the entry was recorded
\* for, or else another that was saved under the same name, because a step failed
\* or the client prepared again; half of it only if an earlier recorder, whose
\* writes nobody waits for any more, had saved it.
Replays(s, file, take, got) ==
  \/ got = take
  \/ \E job \in rec[s].saved \cup rec[s].before : job.file = file /\ job.take = got
  \/ got = Partial /\ \E job \in rec[s].before : job.file = file

\* The replay of a session has a take for each chunk of its timeline: the flush
\* meets no file that is still missing or, of this recorder, still being written;
\* and a name that was used once has the take of its entry.
ReplayIsTimeline ==
  \A s \in Session : disk[s].there /\ disk[s].replay # NoReplay =>
    \A i \in 1 .. Len(rec[s].chunks) :
      LET entry == rec[s].chunks[i] IN
      /\ Replays(s, <<"user", i - 1>>, entry.take, disk[s].replay[i].user)
      /\ entry.ai => Replays(s, <<"ai", i - 1>>, entry.take, disk[s].replay[i].ai)

\* Every session that ends gets its flush, however many end at once.
Fairness == \A t \in Thread : WF_vars(Take(t) \/ JobStep(t))
FairSpec == Spec /\ Fairness

FlushEnds ==
  \A s \in Session : handler[s] = "closed" ~> Done([kind |-> "flush", of |-> s])
==============================================================================
