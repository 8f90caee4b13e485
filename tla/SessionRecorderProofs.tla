------------------------ MODULE SessionRecorderProofs ------------------------
(***************************************************************************)
(* The flush of a session never waits for a job that waits for a thread,   *)
(* and the replay it stitches has the take of every entry of the timeline, *)
(* for any number of sessions and threads; beside the cleanup, audio that  *)
(* is left can be found by its meta.json.                                  *)
(***************************************************************************)
EXTENDS SessionCleanup, TLAPS

\* Indices and takes keep within what was sent.
Counted ==
  \A s \in Session :
    /\ rec[s].take <= sent
    /\ rec[s].chunk <= rec[s].take
    /\ handler[s] = "step" => rec[s].chunk < rec[s].take
    /\ Len(rec[s].chunks) = rec[s].chunk

\* A recorder waits for writes of its own.
OwnPending == \A s \in Session : \A job \in pending[s] : job.of = s

\* A flush exists once its handler has ended.
FlushOfClosed ==
  /\ \A i \in 1 .. Len(queue) : queue[i].kind = "flush" => handler[queue[i].of] = "closed"
  /\ \A t \in Thread : thread[t].job.kind = "flush" => handler[thread[t].job.of] = "closed"

\* The writes of a session are before its flush: in the queue, and when the flush
\* has a thread they have one, or had.
WritesFirst ==
  /\ \A i, j \in 1 .. Len(queue) :
       /\ queue[i].kind = "flush"
       /\ queue[j].kind = "write"
       /\ queue[i].of = queue[j].of
       => j < i
  /\ \A t \in Thread : thread[t].job.kind = "flush" =>
       \A j \in 1 .. Len(queue) :
         queue[j].kind = "write" => queue[j].of # thread[t].job.of

RecorderInv == TypeOK /\ Counted /\ OwnPending /\ FlushOfClosed /\ WritesFirst

-----------------------------------------------------------------------------
\* What a job is, by its kind.
LEMMA JobKinds ==
  ASSUME NEW job \in Jobs
  PROVE  /\ job.kind \in {"write", "flush"}
         /\ job.of \in Session
         /\ job.kind = "write" => job \in Writes
         /\ job # Idle
BY DEF Jobs, Writes, Flushes, Idle

LEMMA ThreadJobs ==
  ASSUME TypeOK, NEW t \in Thread
  PROVE  /\ thread[t].job.kind = "write" => thread[t].job \in Writes
         /\ thread[t].job.kind = "flush" => thread[t].job \in Flushes
BY DEF TypeOK, Jobs, Writes, Flushes, Idle

LEMMA RecorderStarts == Init => RecorderInv
<1> SUFFICES ASSUME Init PROVE RecorderInv
  OBVIOUS
<1>1. NoRecorder \in [prepares : 0 .. MaxPrepares, chunk : 0 .. MaxTakes,
                      take : 0 .. MaxTakes, chunks : Seq(Chunks),
                      saved : SUBSET Writes, before : SUBSET Writes]
  BY RecorderAssumption DEF NoRecorder
<1>2. NoDirectory \in Directories
  BY RecorderAssumption DEF NoDirectory, Directories, NoReplay
<1>3. TypeOK
  BY <1>1, <1>2, RecorderAssumption DEF Init, TypeOK, Phases, Stages
<1>4. Counted
  BY DEF Init, Counted, NoRecorder
<1>5. OwnPending /\ FlushOfClosed /\ WritesFirst
  BY DEF Init, OwnPending, FlushOfClosed, WritesFirst, Idle
<1> QED BY <1>3, <1>4, <1>5 DEF RecorderInv

-----------------------------------------------------------------------------
Recorders ==
  [prepares : 0 .. MaxPrepares, chunk : 0 .. MaxTakes,
   take : 0 .. MaxTakes, chunks : Seq(Chunks),
   saved : SUBSET Writes, before : SUBSET Writes]

\* What a handler saves is a write of its session.
LEMMA SaveFacts ==
  ASSUME TypeOK, NEW s \in Session, NEW track \in Tracks, NEW take \in Takes,
         rec[s].chunk < MaxTakes
  PROVE  LET job == Save(s, track, take) IN
         /\ job \in Writes /\ job \in Jobs /\ job.of = s /\ job.kind = "write"
         /\ job.take = take /\ job.file = <<track, rec[s].chunk>>
<1>1. rec[s].chunk \in 0 .. MaxTakes - 1
  BY RecorderAssumption DEF TypeOK
<1> QED BY <1>1 DEF Save, Writes, Jobs, Files

\* A handler that has not ended submits a write.
LEMMA SaveStep ==
  ASSUME RecorderInv, NEW s \in Session, NEW track \in Tracks, NEW take \in Takes,
         rec[s].chunk < MaxTakes, handler[s] # "closed",
         Submit(s, Save(s, track, take)), UNCHANGED thread,
         \A r \in Session : handler[r] = "closed" => handler'[r] = "closed"
  PROVE  /\ queue' \in Seq(Jobs) /\ pending' \in [Session -> SUBSET Writes]
         /\ OwnPending' /\ FlushOfClosed' /\ WritesFirst'
<1> DEFINE job == Save(s, track, take)
<1>2. job \in Writes /\ job \in Jobs /\ job.of = s /\ job.kind = "write"
  BY SaveFacts DEF RecorderInv
<1>3. queue' = Append(queue, job) /\ pending' = [pending EXCEPT ![s] = @ \cup {job}]
  BY DEF Submit
<1>4. queue \in Seq(Jobs) /\ pending \in [Session -> SUBSET Writes]
  BY DEF RecorderInv, TypeOK
<1> HIDE DEF job
<1>5. /\ queue' \in Seq(Jobs) /\ Len(queue') = Len(queue) + 1 /\ Len(queue) \in Nat
      /\ queue'[Len(queue) + 1] = job
      /\ \A i \in 1 .. Len(queue) : queue'[i] = queue[i]
  BY <1>2, <1>3, <1>4
<1>6. pending' \in [Session -> SUBSET Writes]
  BY <1>2, <1>3, <1>4
<1>7. OwnPending'
  BY <1>2, <1>3, <1>4 DEF RecorderInv, OwnPending
<1>8. \A i \in 1 .. Len(queue) : queue[i] \in Jobs
  BY <1>4
<1>9. FlushOfClosed'
  <2>1. ASSUME NEW i \in 1 .. Len(queue'), queue'[i].kind = "flush"
        PROVE  handler'[queue'[i].of] = "closed"
    <3>1. i \in 1 .. Len(queue)
      BY <1>2, <1>5, <2>1
    <3>2. queue'[i] = queue[i] /\ queue[i].of \in Session
      BY <1>5, <1>8, <3>1, JobKinds
    <3> QED BY <2>1, <3>1, <3>2 DEF RecorderInv, FlushOfClosed
  <2>2. ASSUME NEW t \in Thread, thread'[t].job.kind = "flush"
        PROVE  handler'[thread'[t].job.of] = "closed"
    <3>1. thread[t].job \in Flushes
      BY <2>2, ThreadJobs DEF RecorderInv
    <3>2. thread[t].job.of \in Session
      BY <3>1 DEF Flushes
    <3> QED BY <2>2, <3>2 DEF RecorderInv, FlushOfClosed
  <2> QED BY <2>1, <2>2 DEF FlushOfClosed
<1>10. WritesFirst'
  <2>1. ASSUME NEW i \in 1 .. Len(queue'), NEW j \in 1 .. Len(queue'),
               queue'[i].kind = "flush", queue'[j].kind = "write", queue'[i].of = queue'[j].of
        PROVE  j < i
    <3>1. i \in 1 .. Len(queue)
      BY <1>2, <1>5, <2>1
    <3>2. queue'[i] = queue[i] /\ handler[queue[i].of] = "closed"
      BY <1>5, <2>1, <3>1 DEF RecorderInv, FlushOfClosed
    <3>3. queue'[j] # job
      BY <1>2, <2>1, <3>2
    <3>4. j \in 1 .. Len(queue) /\ queue'[j] = queue[j]
      BY <1>5, <2>1, <3>3
    <3> QED BY <2>1, <3>1, <3>2, <3>4 DEF RecorderInv, WritesFirst
  <2>2. ASSUME NEW t \in Thread, thread'[t].job.kind = "flush",
               NEW j \in 1 .. Len(queue'), queue'[j].kind = "write"
        PROVE  queue'[j].of # thread'[t].job.of
    <3>1. handler[thread[t].job.of] = "closed" /\ thread'[t] = thread[t]
      BY <2>2 DEF RecorderInv, FlushOfClosed
    <3>2. CASE j \in 1 .. Len(queue)
      BY <1>5, <2>2, <3>1, <3>2 DEF RecorderInv, WritesFirst
    <3>3. CASE j \notin 1 .. Len(queue)
      <4>1. queue'[j] = job
        BY <1>5, <3>3
      <4> QED BY <1>2, <3>1, <4>1
    <3> QED BY <3>2, <3>3
  <2> QED BY <2>1, <2>2 DEF WritesFirst
<1> QED BY <1>5, <1>6, <1>7, <1>9, <1>10

\* A step that leaves the jobs alone.
LEMMA JobsStay ==
  ASSUME RecorderInv, UNCHANGED <<queue, thread>>,
         \A s \in Session : pending'[s] \subseteq pending[s],
         \A s \in Session : handler[s] = "closed" => handler'[s] = "closed"
  PROVE  OwnPending' /\ FlushOfClosed' /\ WritesFirst'
<1>1. OwnPending' /\ WritesFirst'
  BY DEF RecorderInv, OwnPending, WritesFirst
<1>2. ASSUME NEW i \in 1 .. Len(queue), queue[i].kind = "flush"
      PROVE  handler'[queue[i].of] = "closed"
  <2>1. queue[i].of \in Session
    BY JobKinds DEF RecorderInv, TypeOK
  <2> QED BY <1>2, <2>1 DEF RecorderInv, FlushOfClosed
<1>3. ASSUME NEW t \in Thread, thread[t].job.kind = "flush"
      PROVE  handler'[thread[t].job.of] = "closed"
  <2>1. thread[t].job \in Flushes
    BY <1>3, ThreadJobs DEF RecorderInv
  <2>2. thread[t].job.of \in Session
    BY <2>1 DEF Flushes
  <2> QED BY <1>3, <2>2 DEF RecorderInv, FlushOfClosed
<1> QED BY <1>1, <1>2, <1>3 DEF FlushOfClosed

LEMMA PrepareStep ==
  ASSUME RecorderInv, NEW s \in Session, Prepare(s)
  PROVE  RecorderInv'
<1>1. /\ handler' = [handler EXCEPT ![s] = "ready"] /\ handler[s] # "closed"
      /\ pending' = [pending EXCEPT ![s] = {}]
      /\ disk' = [disk EXCEPT ![s].there = TRUE, ![s].meta = "live"]
      /\ rec' = [rec EXCEPT ![s] = [prepares |-> @.prepares + 1, chunk |-> 0, take |-> 0,
                                    chunks |-> <<>>, saved |-> {},
                                    before |-> @.before \cup @.saved]]
      /\ UNCHANGED <<queue, thread, sent>> /\ rec[s].prepares < MaxPrepares
  BY DEF Prepare
<1>2. TypeOK
  BY DEF RecorderInv
<1>3. rec' \in [Session -> [prepares : 0 .. MaxPrepares, chunk : 0 .. MaxTakes,
                            take : 0 .. MaxTakes, chunks : Seq(Chunks),
                            saved : SUBSET Writes, before : SUBSET Writes]]
  <2>1. /\ rec[s].prepares + 1 \in 0 .. MaxPrepares
        /\ rec[s].before \cup rec[s].saved \in SUBSET Writes /\ {} \in SUBSET Writes
    BY <1>1, <1>2, RecorderAssumption DEF TypeOK
  <2>2. 0 \in 0 .. MaxTakes /\ <<>> \in Seq(Chunks)
    BY RecorderAssumption
  <2> QED BY <1>1, <1>2, <2>1, <2>2 DEF TypeOK
<1>4. disk' \in [Session -> Directories]
  BY <1>1, <1>2, ZenonT(60) DEF TypeOK, Directories
<1>5. TypeOK'
  BY <1>1, <1>2, <1>3, <1>4 DEF TypeOK, Phases
<1>6. Counted'
  <2>1. rec'[s].take = 0 /\ rec'[s].chunk = 0 /\ rec'[s].chunks = <<>> /\ handler'[s] = "ready"
    BY <1>1, <1>2 DEF TypeOK
  <2>2. \A r \in Session \ {s} : rec'[r] = rec[r] /\ handler'[r] = handler[r]
    BY <1>1, <1>2 DEF TypeOK
  <2>3. sent \in Nat /\ sent' = sent
    BY <1>1, <1>2 DEF TypeOK
  <2> QED BY <2>1, <2>2, <2>3 DEF RecorderInv, Counted
<1>7. OwnPending' /\ FlushOfClosed' /\ WritesFirst'
  <2>1. \A r \in Session : pending'[r] \subseteq pending[r]
    BY <1>1, <1>2 DEF TypeOK
  <2>2. \A r \in Session : handler[r] = "closed" => handler'[r] = "closed"
    BY <1>1, <1>2 DEF TypeOK
  <2> QED BY <1>1, <2>1, <2>2, JobsStay
<1> QED BY <1>5, <1>6, <1>7 DEF RecorderInv

LEMMA ReceiveStep ==
  ASSUME RecorderInv, NEW s \in Session, Receive(s)
  PROVE  RecorderInv'
<1>1. /\ handler[s] = "ready" /\ handler' = [handler EXCEPT ![s] = "step"]
      /\ sent < MaxTakes /\ sent' = sent + 1
      /\ rec' = [rec EXCEPT ![s] =
         [@ EXCEPT !.take = sent + 1,
                   !.saved = rec[s].saved \cup {Save(s, "user", sent + 1)}]]
      /\ Submit(s, Save(s, "user", sent + 1))
      /\ UNCHANGED <<thread, disk>>
  BY DEF Receive
<1>2. TypeOK /\ sent \in Nat /\ MaxTakes \in Nat
  BY RecorderAssumption DEF RecorderInv, TypeOK
<1>3. sent + 1 \in Takes /\ sent + 1 \in 0 .. MaxTakes
  BY <1>1, <1>2 DEF Takes
<1>4. \A r \in Session : handler[r] = "closed" => handler'[r] = "closed"
  BY <1>1, <1>2 DEF TypeOK
<1>5. /\ rec[s].chunk \in Nat /\ rec[s].take \in Nat
      /\ rec[s].chunk <= rec[s].take /\ rec[s].take <= sent
      /\ Len(rec[s].chunks) = rec[s].chunk
  BY <1>2 DEF TypeOK, RecorderInv, Counted
<1>10. rec[s].chunk < MaxTakes /\ "user" \in Tracks /\ Save(s, "user", sent + 1) \in Writes
  <2>1. rec[s].chunk < MaxTakes /\ "user" \in Tracks
    BY <1>1, <1>2, <1>5 DEF Tracks
  <2> QED BY <1>2, <1>3, <2>1, SaveFacts
<1>6. /\ queue' \in Seq(Jobs) /\ pending' \in [Session -> SUBSET Writes]
      /\ OwnPending' /\ FlushOfClosed' /\ WritesFirst'
  <2>1. handler[s] # "closed"
    BY <1>1
  <2> QED BY <1>1, <1>3, <1>4, <1>10, <2>1, SaveStep
<1>7. rec' \in [Session -> [prepares : 0 .. MaxPrepares, chunk : 0 .. MaxTakes,
                            take : 0 .. MaxTakes, chunks : Seq(Chunks),
                            saved : SUBSET Writes, before : SUBSET Writes]]
  <2> DEFINE saved == rec[s].saved \cup {Save(s, "user", sent + 1)}
  <2>1. saved \in SUBSET Writes
    BY <1>2, <1>10 DEF TypeOK
  <2>2. rec' = [rec EXCEPT ![s] = [@ EXCEPT !.take = sent + 1, !.saved = saved]]
    BY <1>1
  <2> HIDE DEF saved
  <2>3. [rec[s] EXCEPT !.take = sent + 1, !.saved = saved] \in Recorders
    BY <1>2, <1>3, <2>1 DEF TypeOK, Recorders
  <2>4. PICK r \in Recorders : rec' = [rec EXCEPT ![s] = r]
    BY <2>2, <2>3
  <2> QED BY <1>2, <2>4 DEF TypeOK, Recorders
<1>8. TypeOK'
  BY <1>1, <1>2, <1>3, <1>6, <1>7 DEF TypeOK, Phases
<1>9. Counted'
  <2>1. /\ rec'[s].take = sent + 1 /\ rec'[s].chunk = rec[s].chunk
        /\ rec'[s].chunks = rec[s].chunks
    BY <1>1, <1>2 DEF TypeOK
  <2>2. \A r \in Session \ {s} : rec'[r] = rec[r] /\ handler'[r] = handler[r]
    BY <1>1, <1>2 DEF TypeOK
  <2>3. \A r \in Session : rec[r].take \in Nat
    BY <1>2 DEF TypeOK
  <2> QED BY <1>1, <1>2, <1>5, <2>1, <2>2, <2>3 DEF RecorderInv, Counted
<1> QED BY <1>6, <1>8, <1>9 DEF RecorderInv

LEMMA RecordedStep ==
  ASSUME RecorderInv, NEW s \in Session, NEW ai \in BOOLEAN, Recorded(s, ai)
  PROVE  RecorderInv'
<1>1. /\ handler[s] = "step" /\ handler' = [handler EXCEPT ![s] = "ready"]
      /\ rec' = [rec EXCEPT ![s] =
         [@ EXCEPT !.chunk = rec[s].chunk + 1,
                   !.chunks = Append(rec[s].chunks, [take |-> rec[s].take, ai |-> ai]),
                   !.saved = IF ai THEN rec[s].saved \cup {Save(s, "ai", rec[s].take)}
                                   ELSE rec[s].saved]]
      /\ UNCHANGED <<thread, disk, sent>>
  BY DEF Recorded
<1>2. TypeOK /\ sent \in Nat /\ MaxTakes \in Nat /\ sent <= MaxTakes
  BY RecorderAssumption DEF RecorderInv, TypeOK
<1>3. \A r \in Session : handler[r] = "closed" => handler'[r] = "closed"
  BY <1>1, <1>2 DEF TypeOK
<1>4. /\ rec[s].chunk \in Nat /\ rec[s].take \in Nat
      /\ rec[s].chunk < rec[s].take /\ rec[s].take <= sent
      /\ Len(rec[s].chunks) = rec[s].chunk /\ rec[s].chunks \in Seq(Chunks)
  BY <1>1, <1>2 DEF TypeOK, RecorderInv, Counted
<1>5. rec[s].take \in Takes /\ rec[s].chunk < MaxTakes /\ rec[s].chunk + 1 \in 0 .. MaxTakes
  BY <1>2, <1>4, SMTT(40) DEF Takes
<1>6. /\ queue' \in Seq(Jobs) /\ pending' \in [Session -> SUBSET Writes]
      /\ OwnPending' /\ FlushOfClosed' /\ WritesFirst'
  <2>1. CASE ai
    <3>1. Submit(s, Save(s, "ai", rec[s].take)) /\ "ai" \in Tracks /\ handler[s] # "closed"
      BY <1>1, <2>1 DEF Recorded, Tracks
    <3> QED BY <1>1, <1>3, <1>5, <3>1, SaveStep
  <2>2. CASE ~ ai
    <3>1. UNCHANGED <<queue, pending>>
      BY <2>2 DEF Recorded
    <3>2. OwnPending' /\ FlushOfClosed' /\ WritesFirst'
      BY <1>1, <1>3, <3>1, JobsStay
    <3> QED BY <1>2, <3>1, <3>2 DEF TypeOK
  <2> QED BY <2>1, <2>2
<1>7. /\ Append(rec[s].chunks, [take |-> rec[s].take, ai |-> ai]) \in Seq(Chunks)
      /\ Len(Append(rec[s].chunks, [take |-> rec[s].take, ai |-> ai])) = rec[s].chunk + 1
  <2>1. [take |-> rec[s].take, ai |-> ai] \in Chunks
    BY <1>5 DEF Chunks
  <2> QED BY <1>4, <2>1
<1>8. rec' \in [Session -> [prepares : 0 .. MaxPrepares, chunk : 0 .. MaxTakes,
                            take : 0 .. MaxTakes, chunks : Seq(Chunks),
                            saved : SUBSET Writes, before : SUBSET Writes]]
  <2> DEFINE chunks == Append(rec[s].chunks, [take |-> rec[s].take, ai |-> ai])
             saved == IF ai THEN rec[s].saved \cup {Save(s, "ai", rec[s].take)}
                            ELSE rec[s].saved
  <2>1. saved \in SUBSET Writes
    <3>1. "ai" \in Tracks /\ rec[s].saved \in SUBSET Writes
      BY <1>2 DEF Tracks, TypeOK
    <3> QED BY <1>2, <1>5, <3>1, SaveFacts
  <2>2. rec' = [rec EXCEPT ![s] = [@ EXCEPT !.chunk = rec[s].chunk + 1,
                                            !.chunks = chunks, !.saved = saved]]
    BY <1>1
  <2>3. chunks \in Seq(Chunks)
    BY <1>7
  <2> HIDE DEF saved, chunks
  <2>4. [rec[s] EXCEPT !.chunk = rec[s].chunk + 1, !.chunks = chunks, !.saved = saved]
          \in Recorders
    <3>1. PICK r : r = rec[s] /\ r \in Recorders
      BY <1>2 DEF TypeOK, Recorders
    <3>2. PICK c \in 0 .. MaxTakes : c = rec[s].chunk + 1
      BY <1>5
    <3>3. [r EXCEPT !.chunk = c, !.chunks = chunks, !.saved = saved] \in Recorders
      BY <2>1, <2>3, <3>1 DEF Recorders
    <3> QED BY <3>1, <3>2, <3>3
  <2>5. PICK r \in Recorders : rec' = [rec EXCEPT ![s] = r]
    BY <2>2, <2>4
  <2> QED BY <1>2, <2>5 DEF TypeOK, Recorders
<1>9. TypeOK'
  BY <1>1, <1>2, <1>6, <1>8 DEF TypeOK, Phases
<1>10. Counted'
  <2>1. /\ rec'[s].take = rec[s].take /\ rec'[s].chunk = rec[s].chunk + 1
        /\ Len(rec'[s].chunks) = rec[s].chunk + 1 /\ handler'[s] = "ready"
    BY <1>1, <1>2, <1>7 DEF TypeOK
  <2>2. \A r \in Session \ {s} : rec'[r] = rec[r] /\ handler'[r] = handler[r]
    BY <1>1, <1>2 DEF TypeOK
  <2>3. /\ rec'[s].take <= sent' /\ rec'[s].chunk <= rec'[s].take
        /\ Len(rec'[s].chunks) = rec'[s].chunk
    BY <1>1, <1>4, <2>1
  <2>4. sent' = sent
    BY <1>1
  <2> QED BY <2>1, <2>2, <2>3, <2>4 DEF RecorderInv, Counted
<1> QED BY <1>6, <1>9, <1>10 DEF RecorderInv

LEMMA StepFailsStep ==
  ASSUME RecorderInv, NEW s \in Session, StepFails(s)
  PROVE  RecorderInv'
<1>1. /\ handler[s] = "step" /\ handler' = [handler EXCEPT ![s] = "ready"]
      /\ UNCHANGED <<rec, pending, queue, thread, disk, sent>>
  BY DEF StepFails
<1>2. TypeOK
  BY DEF RecorderInv
<1>3. TypeOK'
  BY <1>1, <1>2 DEF TypeOK, Phases
<1>4. Counted'
  <2>1. \A r \in Session : handler'[r] = "step" => handler[r] = "step"
    BY <1>1, <1>2 DEF TypeOK
  <2> QED BY <1>1, <2>1 DEF RecorderInv, Counted
<1>5. \A r \in Session : handler[r] = "closed" => handler'[r] = "closed"
  BY <1>1, <1>2 DEF TypeOK
<1>6. OwnPending' /\ FlushOfClosed' /\ WritesFirst'
  BY <1>1, <1>5, JobsStay
<1> QED BY <1>3, <1>4, <1>6 DEF RecorderInv

\* finalize(): the flush is behind all the writes of its session.
LEMMA LeaveStep ==
  ASSUME RecorderInv, NEW s \in Session, Leave(s)
  PROVE  RecorderInv'
<1> DEFINE job == [kind |-> "flush", of |-> s]
<1>1. /\ handler' = [handler EXCEPT ![s] = "closed"]
      /\ queue' = Append(queue, job)
      /\ UNCHANGED <<rec, pending, thread, disk, sent>>
  BY DEF Leave
<1>2. TypeOK /\ job \in Jobs /\ job.of = s /\ job.kind = "flush"
  BY DEF RecorderInv, Jobs, Flushes
<1> HIDE DEF job
<1>3. /\ queue' \in Seq(Jobs) /\ Len(queue') = Len(queue) + 1 /\ Len(queue) \in Nat
      /\ queue'[Len(queue) + 1] = job
      /\ \A i \in 1 .. Len(queue) : queue'[i] = queue[i] /\ queue[i] \in Jobs
  BY <1>1, <1>2 DEF TypeOK
<1>4. TypeOK'
  BY <1>1, <1>2, <1>3 DEF TypeOK, Phases
<1>5. \A r \in Session : handler'[r] = (IF r = s THEN "closed" ELSE handler[r])
  BY <1>1, <1>2 DEF TypeOK
<1>6. Counted'
  BY <1>1, <1>5 DEF RecorderInv, Counted
<1>7. OwnPending'
  BY <1>1 DEF RecorderInv, OwnPending
<1>8. FlushOfClosed'
  <2>1. ASSUME NEW i \in 1 .. Len(queue'), queue'[i].kind = "flush"
        PROVE  handler'[queue'[i].of] = "closed"
    <3>1. CASE i \in 1 .. Len(queue)
      <4>1. queue'[i] = queue[i] /\ queue[i].of \in Session
        BY <1>3, <3>1, JobKinds
      <4> QED BY <1>5, <2>1, <3>1, <4>1 DEF RecorderInv, FlushOfClosed
    <3>2. CASE i \notin 1 .. Len(queue)
      <4>1. queue'[i] = job
        BY <1>3, <3>2
      <4> QED BY <1>2, <1>5, <4>1
    <3> QED BY <3>1, <3>2
  <2>2. ASSUME NEW t \in Thread, thread'[t].job.kind = "flush"
        PROVE  handler'[thread'[t].job.of] = "closed"
    <3>1. thread'[t] = thread[t] /\ thread[t].job \in Flushes
      BY <1>1, <2>2, ThreadJobs DEF RecorderInv
    <3>2. thread[t].job.of \in Session
      BY <3>1 DEF Flushes
    <3> QED BY <1>5, <2>2, <3>1, <3>2 DEF RecorderInv, FlushOfClosed
  <2> QED BY <2>1, <2>2 DEF FlushOfClosed
<1>9. WritesFirst'
  <2>1. ASSUME NEW i \in 1 .. Len(queue'), NEW j \in 1 .. Len(queue'),
               queue'[i].kind = "flush", queue'[j].kind = "write", queue'[i].of = queue'[j].of
        PROVE  j < i
    <3>1. j \in 1 .. Len(queue) /\ queue'[j] = queue[j]
      BY <1>2, <1>3, <2>1
    <3>2. CASE i \in 1 .. Len(queue)
      BY <1>3, <2>1, <3>1, <3>2 DEF RecorderInv, WritesFirst
    <3>3. CASE i \notin 1 .. Len(queue)
      BY <1>3, <3>1, <3>3
    <3> QED BY <3>2, <3>3
  <2>2. ASSUME NEW t \in Thread, thread'[t].job.kind = "flush",
               NEW j \in 1 .. Len(queue'), queue'[j].kind = "write"
        PROVE  queue'[j].of # thread'[t].job.of
    <3>1. j \in 1 .. Len(queue) /\ queue'[j] = queue[j] /\ thread'[t] = thread[t]
      BY <1>1, <1>2, <1>3, <2>2
    <3> QED BY <2>2, <3>1 DEF RecorderInv, WritesFirst
  <2> QED BY <2>1, <2>2 DEF WritesFirst
<1> QED BY <1>4, <1>6, <1>7, <1>8, <1>9 DEF RecorderInv

LEMMA TakeStep ==
  ASSUME RecorderInv, NEW t \in Thread, Take(t)
  PROVE  RecorderInv'
<1> DEFINE job == Head(queue)
           stage == IF Head(queue).kind = "flush" THEN "wait" ELSE "start"
<1>1. /\ queue # <<>> /\ queue' = Tail(queue)
      /\ thread' = [thread EXCEPT ![t] = [job |-> job, stage |-> stage]]
      /\ UNCHANGED <<handler, rec, pending, disk, sent>>
  BY DEF Take
<1>2. TypeOK /\ stage \in Stages
  BY DEF RecorderInv, Stages
<1>3. /\ job = queue[1] /\ job \in Jobs /\ queue' \in Seq(Jobs) /\ 1 \in 1 .. Len(queue)
      /\ Len(queue) \in Nat /\ Len(queue') = Len(queue) - 1
      /\ \A i \in 1 .. Len(queue') : i + 1 \in 1 .. Len(queue) /\ queue'[i] = queue[i + 1]
  BY <1>1, <1>2 DEF TypeOK
<1> HIDE DEF job, stage
<1>4. thread'[t].job = job /\ \A r \in Thread \ {t} : thread'[r] = thread[r]
  BY <1>1, <1>2 DEF TypeOK
<1>5. TypeOK'
  BY <1>1, <1>2, <1>3 DEF TypeOK
<1>6. Counted' /\ OwnPending'
  BY <1>1 DEF RecorderInv, Counted, OwnPending
<1>7. FlushOfClosed'
  BY <1>1, <1>3, <1>4 DEF RecorderInv, FlushOfClosed
<1>8. WritesFirst'
  <2>1. ASSUME NEW i \in 1 .. Len(queue'), NEW j \in 1 .. Len(queue'),
               queue'[i].kind = "flush", queue'[j].kind = "write", queue'[i].of = queue'[j].of
        PROVE  j < i
    <3>1. j + 1 < i + 1
      BY <1>3, <2>1 DEF RecorderInv, WritesFirst
    <3> QED BY <1>3, <3>1
  <2>2. ASSUME NEW r \in Thread, thread'[r].job.kind = "flush",
               NEW j \in 1 .. Len(queue'), queue'[j].kind = "write"
        PROVE  queue'[j].of # thread'[r].job.of
    <3>1. CASE r = t
      <4>1. queue[1].of = queue[j + 1].of => j + 1 < 1
        BY <1>3, <1>4, <2>2, <3>1 DEF RecorderInv, WritesFirst
      <4>2. ~ (j + 1 < 1)
        BY <1>3
      <4> QED BY <1>3, <1>4, <3>1, <4>1, <4>2
    <3>2. CASE r # t
      BY <1>3, <1>4, <2>2, <3>2 DEF RecorderInv, WritesFirst
    <3> QED BY <3>1, <3>2
  <2> QED BY <2>1, <2>2 DEF WritesFirst
<1> QED BY <1>5, <1>6, <1>7, <1>8 DEF RecorderInv

-----------------------------------------------------------------------------
\* A job's step keeps its thread at the job or frees the thread, and changes a
\* directory.
LEMMA JobStepKeeps ==
  ASSUME RecorderInv, NEW t \in Thread, NEW stage \in Stages,
         Free(t) \/ Proceed(t, stage),
         disk' \in [Session -> Directories],
         pending' \in [Session -> SUBSET Writes],
         \A s \in Session : pending'[s] \subseteq pending[s],
         UNCHANGED <<handler, rec, queue, sent>>
  PROVE  RecorderInv'
<1>1. TypeOK /\ "start" \in Stages
  BY DEF RecorderInv, Stages
<1>2. /\ thread' \in [Thread -> [job : Jobs \cup {Idle}, stage : Stages]]
      /\ \A r \in Thread : thread'[r].job \in {thread[r].job, Idle}
  <2>1. thread \in [Thread -> [job : Jobs \cup {Idle}, stage : Stages]]
    BY <1>1 DEF TypeOK
  <2>2. Idle \in Jobs \cup {Idle}
    OBVIOUS
  <2>3. CASE Free(t)
    <3> HIDE DEF Idle, Jobs
    <3>1. thread' = [thread EXCEPT ![t] = [job |-> Idle, stage |-> "start"]]
      BY <2>3 DEF Free
    <3> QED BY <1>1, <2>1, <2>2, <3>1
  <2>4. CASE Proceed(t, stage)
    <3>1. thread' = [thread EXCEPT ![t].stage = stage]
      BY <2>4 DEF Proceed
    <3> QED BY <2>1, <3>1
  <2> QED BY <2>3, <2>4
<1>3. TypeOK'
  BY <1>1, <1>2 DEF TypeOK
<1>4. Counted' /\ OwnPending'
  BY DEF RecorderInv, Counted, OwnPending
<1>5. \A r \in Thread : thread'[r].job.kind = "flush" => thread'[r].job = thread[r].job
  BY <1>2 DEF Idle
<1>6. FlushOfClosed' /\ WritesFirst'
  BY <1>5 DEF RecorderInv, FlushOfClosed, WritesFirst
<1> QED BY <1>3, <1>4, <1>6 DEF RecorderInv

LEMMA DirectoryKeeps ==
  ASSUME TypeOK, NEW s \in Session,
         \/ \E f \in Files, v \in Takes \cup {Absent, Partial} : disk' = [disk EXCEPT ![s].file[f] = v]
         \/ \E m \in {"partial", "ended"} : disk' = [disk EXCEPT ![s].meta = m]
         \/ \E r \in Seq([user : Takes \cup {Absent, Partial}, ai : Takes \cup {Absent, Partial}]) :
              disk' = [disk EXCEPT ![s].replay = r]
         \/ disk' = [disk EXCEPT ![s].saved = TRUE]
         \/ disk' = disk
  PROVE  disk' \in [Session -> Directories]
<1> DEFINE held == Takes \cup {Absent, Partial}
<1>1. disk \in [Session -> Directories] /\ disk[s] \in Directories
  BY DEF TypeOK
<1>2. CASE \E f \in Files, v \in held : disk' = [disk EXCEPT ![s].file[f] = v]
  <2>1. PICK f \in Files, v \in held : disk' = [disk EXCEPT ![s].file[f] = v]
    BY <1>2
  <2>2. disk[s].file \in [Files -> held]
    BY <1>1 DEF Directories
  <2> HIDE DEF held
  <2>3. [disk[s].file EXCEPT ![f] = v] \in [Files -> held]
    BY <2>1, <2>2
  <2>4. [disk[s] EXCEPT !.file = [disk[s].file EXCEPT ![f] = v]] \in Directories
    BY <1>1, <2>3 DEF Directories, held
  <2> QED BY <1>1, <2>1, <2>4
<1>3. CASE \E m \in {"partial", "ended"} : disk' = [disk EXCEPT ![s].meta = m]
  BY <1>1, <1>3, ZenonT(60) DEF Directories
<1>4. CASE \E r \in Seq([user : held, ai : held]) : disk' = [disk EXCEPT ![s].replay = r]
  BY <1>1, <1>4 DEF Directories
<1>5. CASE disk' = [disk EXCEPT ![s].saved = TRUE]
  <2>1. [disk[s] EXCEPT !.saved = TRUE] \in Directories
    BY <1>1, Zenon DEF Directories
  <2> QED BY <1>1, <1>5, <2>1
<1>6. CASE disk' = disk
  BY <1>1, <1>6
<1> QED BY <1>2, <1>3, <1>4, <1>5, <1>6

LEMMA JobSteps ==
  ASSUME RecorderInv, NEW t \in Thread, JobStep(t)
  PROVE  RecorderInv'
<1>0. TypeOK /\ pending \in [Session -> SUBSET Writes] /\ disk \in [Session -> Directories]
  BY DEF RecorderInv, TypeOK
<1>1. CASE OpenFile(t) \/ CloseFile(t)
  <2> DEFINE job == thread[t].job
  <2>1. job \in Writes
    BY <1>0, <1>1, ThreadJobs DEF OpenFile, CloseFile, Doing
  <2>2. job.of \in Session /\ job.file \in Files /\ job.take \in Takes
    BY <2>1 DEF Writes
  <2>3. disk' \in [Session -> Directories]
    BY <1>0, <1>1, <2>2, DirectoryKeeps, ZenonT(60) DEF OpenFile, CloseFile
  <2>4. (Free(t) \/ Proceed(t, "open")) /\ UNCHANGED <<handler, rec, pending, queue, sent>>
    BY <1>1 DEF OpenFile, CloseFile
  <2> QED BY <1>0, <2>3, <2>4, JobStepKeeps DEF Stages
<1>2. ASSUME FlushWaits(t) \/ FlushMeta(t) \/ FlushStitch(t) \/ FlushSave(t)
      PROVE  RecorderInv'
  <2> DEFINE s == thread[t].job.of
  <2>1. s \in Session
    <3>1. thread[t].job \in Flushes
      BY <1>0, <1>2, ThreadJobs DEF FlushWaits, FlushMeta, FlushStitch, FlushSave, Doing
    <3> QED BY <3>1 DEF Flushes
  <2>2. CASE FlushWaits(t)
    <3>1. disk' \in [Session -> Directories]
      BY <1>0, <2>1, <2>2, DirectoryKeeps DEF FlushWaits
    <3>2. /\ pending' \in [Session -> SUBSET Writes]
          /\ \A r \in Session : pending'[r] \subseteq pending[r]
      BY <1>0, <2>2 DEF FlushWaits
    <3> QED BY <2>2, <3>1, <3>2, JobStepKeeps DEF FlushWaits, Stages
  <2>3. CASE FlushMeta(t)
    <3>1. disk' \in [Session -> Directories]
      <4>1. CASE disk[s].meta = "partial"
        BY <1>0, <2>1, <2>3, <4>1, DirectoryKeeps DEF FlushMeta
      <4>2. CASE disk[s].meta # "partial"
        <5>1. disk[s].meta \in {"absent", "live", "partial", "ended"}
          BY <1>0, <2>1 DEF Directories
        <5>2. disk' = [disk EXCEPT ![s].meta = disk[s].meta]
          BY <2>3, <4>2 DEF FlushMeta
        <5> HIDE DEF s
        <5> QED BY <1>0, <2>1, <5>1, <5>2 DEF Directories
      <4> QED BY <4>1, <4>2
    <3> QED BY <1>0, <2>3, <3>1, JobStepKeeps DEF FlushMeta, Stages
  <2>4. CASE FlushStitch(t)
    <3>1. Stitched(s) \in Seq([user : Takes \cup {Absent, Partial}, ai : Takes \cup {Absent, Partial}])
      <4>1. /\ Len(rec[s].chunks) \in Nat /\ Len(rec[s].chunks) <= MaxTakes
        BY <1>0, <2>1 DEF RecorderInv, Counted, TypeOK
      <4>2. ASSUME NEW i \in 1 .. Len(rec[s].chunks), NEW track \in Tracks
            PROVE  disk[s].file[<<track, i - 1>>] \in Takes \cup {Absent, Partial}
        <5>1. <<track, i - 1>> \in Files
          BY <4>1, RecorderAssumption DEF Files
        <5> QED BY <1>0, <2>1, <5>1 DEF Directories
      <4>3. Absent \in Takes \cup {Absent, Partial} /\ "user" \in Tracks /\ "ai" \in Tracks
        BY DEF Tracks
      <4> HIDE DEF s
      <4>4. ASSUME NEW i \in 1 .. Len(rec[s].chunks)
            PROVE  /\ disk[s].file[<<"user", i - 1>>] \in Takes \cup {Absent, Partial}
                   /\ (IF rec[s].chunks[i].ai THEN disk[s].file[<<"ai", i - 1>>] ELSE Absent)
                        \in Takes \cup {Absent, Partial}
        BY <4>2, <4>3
      <4> QED BY <4>1, <4>4 DEF Stitched
    <3>2. disk' \in [Session -> Directories]
      BY <1>0, <2>1, <2>4, <3>1, DirectoryKeeps DEF FlushStitch
    <3> QED BY <1>0, <2>4, <3>2, JobStepKeeps DEF FlushStitch, Stages
  <2>5. CASE FlushSave(t)
    <3>1. disk' \in [Session -> Directories]
      BY <1>0, <2>1, <2>5, DirectoryKeeps DEF FlushSave
    <3> QED BY <1>0, <2>5, <3>1, JobStepKeeps DEF FlushSave, Stages
  <2> QED BY <1>2, <2>2, <2>3, <2>4, <2>5
<1> QED BY <1>1, <1>2 DEF JobStep

LEMMA RecorderKeeps == RecorderInv /\ [Next]_vars => RecorderInv'
<1> SUFFICES ASSUME RecorderInv, [Next]_vars PROVE RecorderInv'
  OBVIOUS
<1>1. ASSUME NEW s \in Session, HandlerStep(s) PROVE RecorderInv'
  BY <1>1, PrepareStep, ReceiveStep, RecordedStep, StepFailsStep, LeaveStep DEF HandlerStep
<1>2. ASSUME NEW t \in Thread, Take(t) \/ JobStep(t) PROVE RecorderInv'
  BY <1>2, TakeStep, JobSteps
<1>3. CASE UNCHANGED vars
  BY <1>3 DEF vars, RecorderInv, TypeOK, Counted, OwnPending, FlushOfClosed, WritesFirst
<1> QED BY <1>1, <1>2, <1>3 DEF Next

LEMMA RecorderInvariant == Spec => []RecorderInv
BY RecorderStarts, RecorderKeeps, PTL DEF Spec

\* The state keeps its type; the index of a chunk stays within those sent.
THEOREM RecorderTypeOK == Spec => []TypeOK
<1>1. RecorderInv => TypeOK
  BY DEF RecorderInv
<1> QED BY <1>1, RecorderInvariant, PTL

\* The flush that occupies a thread of _io_pool while it waits (_wait_pending_io)
\* waits for no job that still needs a thread, however many sessions end at once
\* and however few threads there are: the queue is first in, first out, and no
\* recorder submits a write behind its flush.
THEOREM RecorderFlushWaits == Spec => []FlushWaitsForRunning
<1>1. RecorderInv => FlushWaitsForRunning
  <2> SUFFICES ASSUME RecorderInv, NEW t \in Thread, Doing(t, "flush", "wait"),
                      NEW job \in pending[thread[t].job.of], Queued(job)
               PROVE  FALSE
    BY DEF FlushWaitsForRunning
  <2>1. thread[t].job \in Flushes /\ thread[t].job.kind = "flush"
    BY ThreadJobs DEF Doing, RecorderInv
  <2>2. thread[t].job.of \in Session
    BY <2>1 DEF Flushes
  <2>3. job.of = thread[t].job.of /\ job \in Writes
    BY <2>2 DEF RecorderInv, OwnPending, TypeOK
  <2>4. job.kind = "write"
    BY <2>3 DEF Writes
  <2>5. PICK i \in 1 .. Len(queue) : queue[i] = job
    BY DEF Queued
  <2> QED BY <2>1, <2>3, <2>4, <2>5 DEF RecorderInv, WritesFirst
<1> QED BY <1>1, RecorderInvariant, PTL

-----------------------------------------------------------------------------
(***************************************************************************)
(* The replay.  What a file holds goes back to a write that was handed to  *)
(* the pool: nothing before the first of them is done, part while a thread *)
(* writes it, and one of their takes otherwise.  A recorder's own writes   *)
(* are in its list until they are done; those of an earlier recorder of    *)
(* the directory are in no list.                                           *)
(***************************************************************************)
Given(s) == rec[s].saved \cup rec[s].before

GivenJob(job) ==
  /\ ~ Done(job) => job \in Given(job.of)
  /\ ~ Done(job) /\ job \in rec[job.of].saved => job \in pending[job.of]
  /\ Done(job) /\ job \in Given(job.of) => disk[job.of].file[job.file] # Absent

Kept == \A job \in Writes : GivenJob(job)

Held ==
  \A s \in Session, f \in Files :
    /\ disk[s].file[f] \in Takes =>
         \E job \in Given(s) : job.file = f /\ job.take = disk[s].file[f]
    /\ disk[s].file[f] = Partial =>
         \E t \in Thread :
           Doing(t, "write", "open") /\ thread[t].job.of = s /\ thread[t].job.file = f

\* The directories are there from the first prepare on.
Begun ==
  \A s \in Session :
    /\ rec[s].prepares = 0 =>
         handler[s] = "new" /\ rec[s].chunks = <<>> /\ Given(s) = {}
    /\ rec[s].prepares > 0 => disk[s].there

\* A file that is being written exists; a flush past its wait waits for nothing.
Opened ==
  \A t \in Thread : Doing(t, "write", "open") =>
    disk[thread[t].job.of].file[thread[t].job.file] # Absent

Waited ==
  \A t \in Thread : Doing(t, "flush", "meta") \/ Doing(t, "flush", "stitch") =>
    pending[thread[t].job.of] = {}

\* The files of the timeline's entries, and of the step under way, have been saved.
Write(s, track, take, index) ==
  [kind |-> "write", of |-> s, take |-> take, file |-> <<track, index>>]

Entered ==
  \A s \in Session :
    /\ \A i \in 1 .. Len(rec[s].chunks) :
         LET entry == rec[s].chunks[i] IN
         /\ Write(s, "user", entry.take, i - 1) \in rec[s].saved
         /\ entry.ai => Write(s, "ai", entry.take, i - 1) \in rec[s].saved
    /\ handler[s] = "step" => Write(s, "user", rec[s].take, rec[s].chunk) \in rec[s].saved

\* What the flush stitched is what may be told of the timeline.
Faithful(s, replay) ==
  \A i \in 1 .. Len(rec[s].chunks) :
    LET entry == rec[s].chunks[i] IN
    /\ Replays(s, <<"user", i - 1>>, entry.take, replay[i].user)
    /\ entry.ai => Replays(s, <<"ai", i - 1>>, entry.take, replay[i].ai)

Replayed ==
  \A s \in Session : disk[s].replay # NoReplay =>
    handler[s] = "closed" /\ Faithful(s, disk[s].replay)

ReplayInv == Begun /\ Kept /\ Held /\ Opened /\ Waited /\ Entered /\ Replayed

\* What a write is.
LEMMA WriteFacts ==
  ASSUME NEW w \in Writes
  PROVE  /\ w.kind = "write" /\ w.of \in Session /\ w.take \in Takes
         /\ w.file \in Files /\ w # Idle
BY RecorderAssumption DEF Writes, Files, Idle

\* What is done after a job is handed to the pool, taken, or ended.
LEMMA DoneAfterSubmit ==
  ASSUME TypeOK, NEW job \in Jobs, queue' = Append(queue, job), thread' = thread, NEW w
  PROVE  Done(w)' <=> Done(w) /\ w # job
<1>1. /\ Len(queue') = Len(queue) + 1 /\ Len(queue) \in Nat
      /\ queue'[Len(queue) + 1] = job
      /\ \A i \in 1 .. Len(queue) : queue'[i] = queue[i]
  BY DEF TypeOK
<1>2. Queued(w)' <=> Queued(w) \/ w = job
  <2>1. \A i : i \in 1 .. Len(queue') <=> i \in 1 .. Len(queue) \/ i = Len(queue) + 1
    BY <1>1
  <2>2. Queued(w)' <=> \E i \in 1 .. Len(queue') : queue'[i] = w
    BY DEF Queued
  <2> QED BY <1>1, <2>1, <2>2, Zenon DEF Queued
<1>3. Running(w)' <=> Running(w)
  BY DEF Running
<1> QED BY <1>2, <1>3 DEF Done

LEMMA DoneAfterTake ==
  ASSUME TypeOK, NEW t \in Thread, Take(t), NEW w \in Writes
  PROVE  Done(w)' <=> Done(w)
<1>1. /\ queue # <<>> /\ queue' = Tail(queue) /\ thread[t].job = Idle /\ queue \in Seq(Jobs)
      /\ thread'[t].job = Head(queue) /\ \A u \in Thread \ {t} : thread'[u] = thread[u]
  BY DEF Take, TypeOK
<1>2. PICK n \in Nat : Len(queue) = n + 1
  <2>1. Len(queue) - 1 \in Nat /\ Len(queue) = (Len(queue) - 1) + 1
    BY <1>1
  <2> QED BY <2>1
<1>3. /\ Head(queue) = queue[1] /\ Len(queue') = n
      /\ \A i \in 1 .. n : queue'[i] = queue[i + 1]
  BY <1>1, <1>2
<1>4. Running(w)' <=> Running(w) \/ w = queue[1]
  BY <1>1, <1>3, WriteFacts DEF Running
<1>5. Queued(w) <=> Queued(w)' \/ w = queue[1]
  <2>1. ASSUME Queued(w)' PROVE Queued(w)
    <3>1. PICK i \in 1 .. n : queue'[i] = w
      BY <1>3, <2>1 DEF Queued
    <3>2. i + 1 \in 1 .. Len(queue) /\ queue[i + 1] = w
      BY <1>2, <1>3, <3>1
    <3> QED BY <3>2 DEF Queued
  <2>2. ASSUME w = queue[1] PROVE Queued(w)
    BY <1>2, <2>2 DEF Queued
  <2>3. ASSUME Queued(w), w # queue[1] PROVE Queued(w)'
    <3>1. PICK i \in 1 .. n + 1 : queue[i] = w
      BY <1>2, <2>3 DEF Queued
    <3>2. i - 1 \in 1 .. n /\ (i - 1) + 1 = i
      BY <2>3, <3>1
    <3>3. queue'[i - 1] = w
      BY <1>3, <3>1, <3>2
    <3> QED BY <1>3, <3>2, <3>3 DEF Queued
  <2> QED BY <2>1, <2>2, <2>3
<1> QED BY <1>4, <1>5 DEF Done

LEMMA DoneAfterStep ==
  ASSUME TypeOK, NEW t \in Thread, NEW stage, Free(t) \/ Proceed(t, stage), queue' = queue,
         NEW w \in Writes
  PROVE  /\ Proceed(t, stage) => (Done(w)' <=> Done(w))
         /\ w # thread[t].job => (Done(w)' <=> Done(w))
<1>1. \A u \in Thread \ {t} : thread'[u] = thread[u]
  BY DEF Free, Proceed, TypeOK
<1>2. Proceed(t, stage) => thread'[t].job = thread[t].job
  BY DEF Proceed, TypeOK
<1>3. Free(t) => thread'[t].job = Idle
  BY DEF Free, TypeOK
<1>4. Queued(w)' <=> Queued(w)
  BY DEF Queued
<1>5. Proceed(t, stage) => (Running(w)' <=> Running(w))
  BY <1>1, <1>2 DEF Running
<1>6. w # thread[t].job => (Running(w)' <=> Running(w))
  BY <1>1, <1>2, <1>3, WriteFacts DEF Running
<1> QED BY <1>4, <1>5, <1>6 DEF Done

\* A write that the step does not touch stays kept.
LEMMA KeptStays ==
  ASSUME NEW job \in Writes, GivenJob(job),
         Given(job.of) \subseteq Given(job.of)',
         job \in Given(job.of)' => job \in Given(job.of),
         job \in rec'[job.of].saved => job \in rec[job.of].saved,
         Done(job)' <=> Done(job),
         disk[job.of].file[job.file] # Absent => disk'[job.of].file[job.file] # Absent,
         job \in pending[job.of] => Done(job) \/ job \in pending'[job.of]
  PROVE  GivenJob(job)'
<1>1. GivenJob(job)' <=>
        /\ ~ Done(job)' => job \in Given(job.of)'
        /\ ~ Done(job)' /\ job \in rec'[job.of].saved => job \in pending'[job.of]
        /\ Done(job)' /\ job \in Given(job.of)' => disk'[job.of].file[job.file] # Absent
  BY DEF GivenJob
<1> QED BY <1>1 DEF GivenJob

\* The part of the invariant about threads, when no file and no thread changes.
LEMMA ThreadsKept ==
  ASSUME TypeOK, Opened, Waited, Held, thread' = thread,
         \A s \in Session : /\ disk'[s].file = disk[s].file
                            /\ pending[s] = {} => pending'[s] = {}
                            /\ Given(s) \subseteq Given(s)'
  PROVE  Opened' /\ Waited' /\ Held'
<1>1. ASSUME NEW t \in Thread, Doing(t, "write", "open")'
      PROVE  disk'[thread'[t].job.of].file[thread'[t].job.file] # Absent
  <2>1. Doing(t, "write", "open") /\ thread[t].job \in Writes
    BY <1>1, ThreadJobs DEF Doing
  <2>2. thread[t].job.of \in Session
    BY <2>1, WriteFacts
  <2> QED BY <2>1, <2>2 DEF Opened
<1>2. ASSUME NEW t \in Thread, Doing(t, "flush", "meta")' \/ Doing(t, "flush", "stitch")'
      PROVE  pending'[thread'[t].job.of] = {}
  <2>1. /\ Doing(t, "flush", "meta") \/ Doing(t, "flush", "stitch")
        /\ thread[t].job \in Flushes
    BY <1>2, ThreadJobs DEF Doing
  <2>2. thread[t].job.of \in Session
    BY <2>1 DEF Flushes
  <2> QED BY <2>1, <2>2 DEF Waited
<1>3. Held'
  BY DEF Held, Doing
<1> QED BY <1>1, <1>2, <1>3 DEF Opened, Waited

\* What was told of a timeline may still be told when more has been saved.
LEMMA FaithfulStays ==
  ASSUME NEW s \in Session, NEW replay, Faithful(s, replay), rec'[s] = rec[s]
  PROVE  Faithful(s, replay)'
BY DEF Faithful, Replays

\* A flush past its wait is of a session that has ended, whose list stays empty.
LEMMA FlushedIsClosed ==
  ASSUME RecorderInv, NEW t \in Thread, thread[t].job.kind = "flush"
  PROVE  thread[t].job.of \in Session /\ handler[thread[t].job.of] = "closed"
<1>1. thread[t].job \in Flushes
  BY ThreadJobs DEF RecorderInv
<1> QED BY <1>1 DEF Flushes, RecorderInv, FlushOfClosed

\* A step of a handler that has not ended leaves the replays as they are.
LEMMA ReplayStays ==
  ASSUME Replayed, NEW s \in Session, handler[s] # "closed",
         \A r \in Session : disk'[r].replay = disk[r].replay,
         \A r \in Session \ {s} : handler'[r] = handler[r] /\ rec'[r] = rec[r]
  PROVE  Replayed'
<1> SUFFICES ASSUME NEW r \in Session, disk'[r].replay # NoReplay
             PROVE  handler'[r] = "closed" /\ Faithful(r, disk[r].replay)'
  BY DEF Replayed, Faithful, Replays
<1>1. handler[r] = "closed" /\ Faithful(r, disk[r].replay) /\ r # s
  BY DEF Replayed
<1> QED BY <1>1, FaithfulStays

LEMMA PrepareReplay ==
  ASSUME RecorderInv, ReplayInv, NEW s \in Session, Prepare(s)
  PROVE  ReplayInv'
<1>1. /\ handler' = [handler EXCEPT ![s] = "ready"] /\ handler[s] # "closed"
      /\ pending' = [pending EXCEPT ![s] = {}]
      /\ disk' = [disk EXCEPT ![s].there = TRUE, ![s].meta = "live"]
      /\ rec' = [rec EXCEPT ![s] = [prepares |-> @.prepares + 1, chunk |-> 0, take |-> 0,
                                    chunks |-> <<>>, saved |-> {},
                                    before |-> @.before \cup @.saved]]
      /\ UNCHANGED <<queue, thread, sent>>
  BY DEF Prepare
<1>2. TypeOK /\ rec[s].prepares \in Nat
  BY DEF RecorderInv, TypeOK
<1>3. /\ handler'[s] = "ready" /\ pending'[s] = {} /\ rec'[s].prepares > 0
      /\ rec'[s].chunks = <<>> /\ rec'[s].saved = {}
      /\ rec'[s].before = rec[s].before \cup rec[s].saved
      /\ disk'[s].there /\ disk'[s].file = disk[s].file /\ disk'[s].replay = disk[s].replay
  BY <1>1, <1>2 DEF TypeOK, Directories
<1>4. \A r \in Session \ {s} : /\ handler'[r] = handler[r] /\ pending'[r] = pending[r]
                               /\ rec'[r] = rec[r] /\ disk'[r] = disk[r]
  BY <1>1, <1>2 DEF TypeOK
<1>5. \A r \in Session : Given(r)' = Given(r)
  BY <1>3, <1>4 DEF Given
<1>6. Begun'
  BY <1>2, <1>3, <1>4, <1>5 DEF ReplayInv, Begun
<1>7. Opened' /\ Waited' /\ Held'
  BY <1>1, <1>2, <1>3, <1>4, <1>5, ThreadsKept DEF ReplayInv
<1>8. Kept'
  <2> SUFFICES ASSUME NEW w \in Writes PROVE GivenJob(w)'
    BY DEF Kept
  <2>1. w.of \in Session /\ GivenJob(w) /\ (Done(w)' <=> Done(w))
    BY <1>1, WriteFacts DEF ReplayInv, Kept, Done, Queued, Running
  <2>2. CASE w.of = s
    BY <1>3, <1>5, <2>1, <2>2 DEF GivenJob
  <2>3. CASE w.of # s
    BY <1>4, <1>5, <2>1, <2>3, KeptStays
  <2> QED BY <2>2, <2>3
<1>9. Entered'
  <2>1. 1 .. Len(rec'[s].chunks) = {} /\ handler'[s] # "step"
    BY <1>3
  <2> QED BY <1>4, <2>1 DEF ReplayInv, Entered
<1>10. Replayed'
  BY <1>1, <1>3, <1>4, ReplayStays DEF ReplayInv
<1> QED BY <1>6, <1>7, <1>8, <1>9, <1>10 DEF ReplayInv

\* A write that a handler hands to the pool.
LEMMA SubmitReplay ==
  ASSUME RecorderInv, ReplayInv, NEW s \in Session, NEW job \in Writes, job.of = s,
         Submit(s, job), UNCHANGED <<thread, disk>>,
         handler[s] # "closed", rec[s].prepares > 0,
         rec'[s].saved = rec[s].saved \cup {job}, rec'[s].before = rec[s].before,
         \A r \in Session \ {s} : rec'[r] = rec[r]
  PROVE  Kept' /\ Held' /\ Opened' /\ Waited'
<1>1. queue' = Append(queue, job) /\ pending' = [pending EXCEPT ![s] = @ \cup {job}]
  BY DEF Submit
<1>2. TypeOK /\ pending \in [Session -> SUBSET Writes] /\ job \in Jobs
  BY DEF RecorderInv, TypeOK, Jobs
<1>3. /\ Given(s)' = Given(s) \cup {job}
      /\ \A r \in Session \ {s} : Given(r)' = Given(r)
  BY DEF Given
<1>4. ASSUME NEW w \in Writes PROVE GivenJob(w)'
  <2>1. GivenJob(w) /\ w.of \in Session
    BY WriteFacts DEF ReplayInv, Kept
  <2>2. Done(w)' <=> Done(w) /\ w # job
    BY <1>1, <1>2, DoneAfterSubmit
  <2>3. w \in pending'[w.of] <=> w \in pending[w.of] \/ w = job
    BY <1>1, <1>2, <2>1
  <2>4. CASE w = job
    BY <1>3, <2>2, <2>3, <2>4 DEF GivenJob
  <2>5. CASE w # job
    <3>1. /\ Given(w.of) \subseteq Given(w.of)'
          /\ w \in Given(w.of)' => w \in Given(w.of)
          /\ w \in rec'[w.of].saved => w \in rec[w.of].saved
      BY <1>3, <2>1, <2>5
    <3> QED BY <2>1, <2>2, <2>3, <2>5, <3>1, KeptStays
  <2> QED BY <2>4, <2>5
<1>5. Opened'
  BY DEF ReplayInv, Opened, Doing
<1>6. Waited'
  <2> SUFFICES ASSUME NEW t \in Thread, Doing(t, "flush", "meta")' \/ Doing(t, "flush", "stitch")'
               PROVE  pending'[thread'[t].job.of] = {}
    BY DEF Waited
  <2>1. Doing(t, "flush", "meta") \/ Doing(t, "flush", "stitch")
    BY DEF Doing
  <2>2. thread[t].job.of \in Session /\ handler[thread[t].job.of] = "closed"
    BY <2>1, FlushedIsClosed DEF Doing
  <2> QED BY <1>1, <1>2, <2>1, <2>2 DEF ReplayInv, Waited
<1>7. Held'
  <2>1. \A r \in Session : Given(r) \subseteq Given(r)'
    BY <1>3
  <2> QED BY <2>1 DEF ReplayInv, Held, Doing
<1> QED BY <1>4, <1>5, <1>6, <1>7 DEF Kept

LEMMA ReceiveReplay ==
  ASSUME RecorderInv, ReplayInv, NEW s \in Session, Receive(s)
  PROVE  ReplayInv'
<1> DEFINE job == Save(s, "user", sent + 1)
<1>1. /\ handler[s] = "ready" /\ handler' = [handler EXCEPT ![s] = "step"]
      /\ sent < MaxTakes
      /\ rec' = [rec EXCEPT ![s] =
         [@ EXCEPT !.take = sent + 1, !.saved = rec[s].saved \cup {job}]]
      /\ Submit(s, job)
      /\ UNCHANGED <<thread, disk>>
  BY DEF Receive
<1>2. TypeOK /\ sent \in Nat /\ MaxTakes \in Nat
  BY RecorderAssumption DEF RecorderInv, TypeOK
<1>3. /\ sent + 1 \in Takes /\ rec[s].chunk < MaxTakes /\ "user" \in Tracks
  BY <1>1, <1>2 DEF TypeOK, RecorderInv, Counted, Takes, Tracks
<1>4. job \in Writes /\ job.of = s /\ job = Write(s, "user", sent + 1, rec[s].chunk)
  BY <1>2, <1>3, SaveFacts DEF Save, Write
<1> HIDE DEF job
<1>5. /\ handler'[s] = "step" /\ rec'[s].take = sent + 1
      /\ rec'[s].chunk = rec[s].chunk /\ rec'[s].chunks = rec[s].chunks
      /\ rec'[s].saved = rec[s].saved \cup {job} /\ rec'[s].before = rec[s].before
      /\ rec'[s].prepares = rec[s].prepares
      /\ \A r \in Session \ {s} : handler'[r] = handler[r] /\ rec'[r] = rec[r]
  BY <1>1, <1>2 DEF TypeOK
<1>6. rec[s].prepares \in Nat /\ rec[s].prepares # 0
  BY <1>1, <1>2 DEF ReplayInv, Begun, TypeOK
<1>7. Kept' /\ Held' /\ Opened' /\ Waited'
  <2>1. rec[s].prepares > 0 /\ handler[s] # "closed"
    BY <1>1, <1>6
  <2> QED BY <1>1, <1>4, <1>5, <2>1, SubmitReplay
<1>8. Begun'
  BY <1>1, <1>5, <1>6 DEF ReplayInv, Begun, Given
<1>9. Entered'
  <2>1. ASSUME NEW r \in Session
        PROVE  /\ \A i \in 1 .. Len(rec'[r].chunks) :
                    LET entry == rec'[r].chunks[i] IN
                    /\ Write(r, "user", entry.take, i - 1) \in rec'[r].saved
                    /\ entry.ai => Write(r, "ai", entry.take, i - 1) \in rec'[r].saved
               /\ handler'[r] = "step" =>
                    Write(r, "user", rec'[r].take, rec'[r].chunk) \in rec'[r].saved
    <3>1. CASE r = s
      <4>1. job \in rec'[s].saved /\ rec[s].saved \subseteq rec'[s].saved
        BY <1>5
      <4> QED BY <1>4, <1>5, <3>1, <4>1 DEF ReplayInv, Entered
    <3>2. CASE r # s
      BY <1>5, <3>2 DEF ReplayInv, Entered
    <3> QED BY <3>1, <3>2
  <2> QED BY <2>1 DEF Entered, Write
<1>10. Replayed'
  BY <1>1, <1>5, ReplayStays DEF ReplayInv
<1> QED BY <1>7, <1>8, <1>9, <1>10 DEF ReplayInv

LEMMA RecordedReplay ==
  ASSUME RecorderInv, ReplayInv, NEW s \in Session, NEW ai \in BOOLEAN, Recorded(s, ai)
  PROVE  ReplayInv'
<1> DEFINE job == Save(s, "ai", rec[s].take)
           entry == [take |-> rec[s].take, ai |-> ai]
           saved == IF ai THEN rec[s].saved \cup {job} ELSE rec[s].saved
<1>1. /\ handler[s] = "step" /\ handler' = [handler EXCEPT ![s] = "ready"]
      /\ rec' = [rec EXCEPT ![s] =
         [@ EXCEPT !.chunk = rec[s].chunk + 1, !.chunks = Append(rec[s].chunks, entry),
                   !.saved = saved]]
      /\ IF ai THEN Submit(s, job) ELSE UNCHANGED <<queue, pending>>
      /\ UNCHANGED <<thread, disk, sent>>
  BY DEF Recorded
<1>2. TypeOK /\ sent \in Nat /\ MaxTakes \in Nat /\ sent <= MaxTakes
  BY RecorderAssumption DEF RecorderInv, TypeOK
<1>3. PICK n \in Nat : n = rec[s].chunk
  BY <1>2 DEF TypeOK
<1>4. /\ rec[s].take \in Takes /\ n < MaxTakes
      /\ Len(rec[s].chunks) = n /\ rec[s].chunks \in Seq(Chunks) /\ "ai" \in Tracks
  BY <1>1, <1>2, <1>3 DEF TypeOK, RecorderInv, Counted, Takes, Tracks
<1>5. job \in Writes /\ job.of = s /\ job = Write(s, "ai", rec[s].take, n)
  BY <1>2, <1>3, <1>4, SaveFacts DEF Save, Write
<1>6. entry.take = rec[s].take /\ entry.ai = ai /\ entry \in Chunks
  BY <1>4 DEF Chunks
<1> HIDE DEF job, entry, saved
<1>7. /\ handler'[s] = "ready" /\ rec'[s].chunks = Append(rec[s].chunks, entry)
      /\ rec'[s].saved = saved /\ rec'[s].before = rec[s].before
      /\ rec'[s].prepares = rec[s].prepares
      /\ \A r \in Session \ {s} : handler'[r] = handler[r] /\ rec'[r] = rec[r]
  BY <1>1, <1>2 DEF TypeOK
<1>8. /\ Len(rec'[s].chunks) = n + 1 /\ rec'[s].chunks[n + 1] = entry
      /\ \A i \in 1 .. n : rec'[s].chunks[i] = rec[s].chunks[i]
  BY <1>4, <1>6, <1>7
<1>9. rec[s].prepares \in Nat /\ rec[s].prepares # 0
  BY <1>1, <1>2 DEF ReplayInv, Begun, TypeOK
<1>10. rec[s].saved \subseteq saved /\ (ai => job \in saved)
  BY DEF saved
<1>11. Kept' /\ Held' /\ Opened' /\ Waited'
  <2>1. CASE ai
    <3>1. /\ rec'[s].saved = rec[s].saved \cup {job} /\ Submit(s, job)
          /\ rec[s].prepares > 0 /\ handler[s] # "closed"
      BY <1>1, <1>7, <1>9, <2>1 DEF saved
    <3> QED BY <1>1, <1>5, <1>7, <3>1, SubmitReplay
  <2>2. CASE ~ ai
    <3>1. UNCHANGED <<queue, pending, thread, disk>>
      BY <1>1, <2>2
    <3>2. \A r \in Session : Given(r)' = Given(r) /\ rec'[r].saved = rec[r].saved
      BY <1>7, <2>2 DEF saved, Given
    <3>3. Opened' /\ Waited' /\ Held'
      BY <1>2, <3>1, <3>2, ThreadsKept DEF ReplayInv
    <3>4. ASSUME NEW w \in Writes PROVE GivenJob(w)'
      <4>1. w.of \in Session /\ GivenJob(w) /\ (Done(w)' <=> Done(w))
        BY <3>1, WriteFacts DEF ReplayInv, Kept, Done, Queued, Running
      <4> QED BY <3>1, <3>2, <4>1, KeptStays
    <3> QED BY <3>3, <3>4 DEF Kept
  <2> QED BY <2>1, <2>2
<1>12. Begun'
  BY <1>1, <1>7, <1>9 DEF ReplayInv, Begun, Given
<1>13. Entered'
  <2>1. ASSUME NEW i \in 1 .. Len(rec'[s].chunks)
        PROVE  /\ Write(s, "user", rec'[s].chunks[i].take, i - 1) \in saved
               /\ rec'[s].chunks[i].ai =>
                    Write(s, "ai", rec'[s].chunks[i].take, i - 1) \in saved
    <3>1. CASE i \in 1 .. n
      <4>1. rec'[s].chunks[i] = rec[s].chunks[i] /\ i \in 1 .. Len(rec[s].chunks)
        BY <1>4, <1>8, <3>1
      <4> QED BY <1>10, <4>1 DEF ReplayInv, Entered
    <3>2. CASE i \notin 1 .. n
      <4>1. i = n + 1 /\ i - 1 = n /\ rec'[s].chunks[i] = entry
        BY <1>8, <3>2
      <4>2. Write(s, "user", rec[s].take, n) \in rec[s].saved
        BY <1>1, <1>3 DEF ReplayInv, Entered
      <4> QED BY <1>5, <1>6, <1>10, <4>1, <4>2
    <3> QED BY <3>1, <3>2
  <2>2. ASSUME NEW r \in Session \ {s}
        PROVE  /\ \A i \in 1 .. Len(rec'[r].chunks) :
                    /\ Write(r, "user", rec'[r].chunks[i].take, i - 1) \in rec'[r].saved
                    /\ rec'[r].chunks[i].ai =>
                         Write(r, "ai", rec'[r].chunks[i].take, i - 1) \in rec'[r].saved
               /\ handler'[r] = "step" =>
                    Write(r, "user", rec'[r].take, rec'[r].chunk) \in rec'[r].saved
    BY <1>7 DEF ReplayInv, Entered
  <2> QED BY <1>7, <2>1, <2>2 DEF Entered, Write
<1>14. Replayed'
  BY <1>1, <1>7, ReplayStays DEF ReplayInv
<1> QED BY <1>11, <1>12, <1>13, <1>14 DEF ReplayInv

\* The timeline of a session that only changes its place stays as it is.
LEMMA HandlerReplay ==
  ASSUME ReplayInv, UNCHANGED <<rec, disk>>, NEW s \in Session, rec[s].prepares # 0,
         handler[s] # "closed", handler'[s] # "step",
         \A r \in Session \ {s} : handler'[r] = handler[r]
  PROVE  Begun' /\ Entered' /\ Replayed'
<1>1. Begun'
  BY DEF ReplayInv, Begun, Given
<1>2. Entered'
  BY DEF ReplayInv, Entered, Write
<1>3. Replayed'
  BY ReplayStays DEF ReplayInv
<1> QED BY <1>1, <1>2, <1>3

LEMMA StepFailsReplay ==
  ASSUME RecorderInv, ReplayInv, NEW s \in Session, StepFails(s)
  PROVE  ReplayInv'
<1>1. /\ handler[s] = "step" /\ handler' = [handler EXCEPT ![s] = "ready"]
      /\ UNCHANGED <<rec, pending, queue, thread, disk, sent>>
  BY DEF StepFails
<1>2. TypeOK /\ rec[s].prepares # 0
  BY <1>1 DEF RecorderInv, ReplayInv, Begun
<1>3. handler'[s] = "ready" /\ \A r \in Session \ {s} : handler'[r] = handler[r]
  BY <1>1, <1>2 DEF TypeOK
<1>4. Begun' /\ Entered' /\ Replayed'
  BY <1>1, <1>2, <1>3, HandlerReplay
<1>5. \A r \in Session : Given(r)' = Given(r)
  BY <1>1 DEF Given
<1>6. Opened' /\ Waited' /\ Held'
  BY <1>1, <1>2, <1>5, ThreadsKept DEF ReplayInv
<1>7. ASSUME NEW w \in Writes PROVE GivenJob(w)'
  BY <1>1, <1>7 DEF ReplayInv, Kept, GivenJob, Given, Done, Queued, Running
<1> QED BY <1>4, <1>6, <1>7 DEF ReplayInv, Kept

LEMMA LeaveReplay ==
  ASSUME RecorderInv, ReplayInv, NEW s \in Session, Leave(s)
  PROVE  ReplayInv'
<1>1. /\ handler[s] = "ready" /\ handler' = [handler EXCEPT ![s] = "closed"]
      /\ queue' = Append(queue, [kind |-> "flush", of |-> s])
      /\ UNCHANGED <<rec, pending, thread, disk, sent>>
  BY DEF Leave
<1>2. TypeOK /\ [kind |-> "flush", of |-> s] \in Jobs /\ rec[s].prepares # 0
  BY <1>1 DEF RecorderInv, Jobs, Flushes, ReplayInv, Begun
<1>3. handler'[s] = "closed" /\ \A r \in Session \ {s} : handler'[r] = handler[r]
  BY <1>1, <1>2 DEF TypeOK
<1>4. Begun' /\ Entered' /\ Replayed'
  BY <1>1, <1>2, <1>3, HandlerReplay
<1>5. \A r \in Session : Given(r)' = Given(r)
  BY <1>1 DEF Given
<1>6. Opened' /\ Waited' /\ Held'
  BY <1>1, <1>2, <1>5, ThreadsKept DEF ReplayInv
<1>7. ASSUME NEW w \in Writes PROVE GivenJob(w)'
  <2>1. w.of \in Session /\ GivenJob(w) /\ w # [kind |-> "flush", of |-> s]
    BY WriteFacts DEF ReplayInv, Kept
  <2>2. Done(w)' <=> Done(w)
    BY <1>1, <1>2, <2>1, DoneAfterSubmit
  <2> QED BY <1>1, <1>5, <2>1, <2>2, KeptStays
<1> QED BY <1>4, <1>6, <1>7 DEF ReplayInv, Kept

-----------------------------------------------------------------------------
\* A thread's step changes neither the handlers nor the recorders.
LEMMA ThreadReplay ==
  ASSUME ReplayInv, UNCHANGED <<handler, rec>>,
         \A r \in Session : disk'[r].there = disk[r].there /\ disk'[r].replay = disk[r].replay
  PROVE  Begun' /\ Entered' /\ Replayed'
<1>1. Begun'
  BY DEF ReplayInv, Begun, Given
<1>2. Entered'
  BY DEF ReplayInv, Entered, Write
<1>3. Replayed'
  <2> SUFFICES ASSUME NEW r \in Session, disk'[r].replay # NoReplay
               PROVE  handler'[r] = "closed" /\ Faithful(r, disk[r].replay)'
    BY DEF Replayed, Faithful, Replays
  <2>1. handler[r] = "closed" /\ Faithful(r, disk[r].replay)
    <3>1. disk[r].replay # NoReplay
      OBVIOUS
    <3> QED BY <3>1 DEF ReplayInv, Replayed
  <2>2. Faithful(r, disk[r].replay)'
    BY <2>1 DEF Faithful, Replays
  <2> QED BY <2>1, <2>2
<1> QED BY <1>1, <1>2, <1>3

LEMMA TakeReplay ==
  ASSUME RecorderInv, ReplayInv, NEW t \in Thread, Take(t)
  PROVE  ReplayInv'
<1>1. /\ UNCHANGED <<handler, rec, pending, disk, sent>>
      /\ thread[t].job = Idle
      /\ thread'[t].stage \in {"wait", "start"}
      /\ \A u \in Thread \ {t} : thread'[u] = thread[u]
  BY DEF Take, RecorderInv, TypeOK
<1>2. Begun' /\ Entered' /\ Replayed'
  BY <1>1, ThreadReplay
<1>3. Opened' /\ Waited'
  BY <1>1 DEF ReplayInv, Opened, Waited, Doing
<1>4. Held'
  <2> SUFFICES ASSUME NEW s \in Session, NEW f \in Files
               PROVE  /\ disk[s].file[f] \in Takes =>
                           \E job \in Given(s) : job.file = f /\ job.take = disk[s].file[f]
                      /\ disk[s].file[f] = Partial =>
                           \E u \in Thread : /\ Doing(u, "write", "open")'
                                             /\ thread'[u].job.of = s
                                             /\ thread'[u].job.file = f
    BY <1>1 DEF Held, Given
  <2>1. ASSUME disk[s].file[f] = Partial
        PROVE  \E u \in Thread : /\ Doing(u, "write", "open")'
                                 /\ thread'[u].job.of = s
                                 /\ thread'[u].job.file = f
    <3>1. PICK u \in Thread : /\ Doing(u, "write", "open")
                              /\ thread[u].job.of = s /\ thread[u].job.file = f
      BY <2>1 DEF ReplayInv, Held
    <3>2. thread'[u] = thread[u]
      BY <1>1, <3>1 DEF Doing, Idle
    <3> QED BY <3>1, <3>2 DEF Doing
  <2> QED BY <2>1 DEF ReplayInv, Held
<1>5. ASSUME NEW w \in Writes PROVE GivenJob(w)'
  <2>1. GivenJob(w) /\ (Done(w)' <=> Done(w))
    BY DoneAfterTake DEF ReplayInv, Kept, RecorderInv
  <2> QED BY <1>1, <2>1, KeptStays DEF Given
<1> QED BY <1>2, <1>3, <1>4, <1>5 DEF ReplayInv, Kept

\* One file changes.
FileBecomes(s, f, v) == disk' = [disk EXCEPT ![s].file[f] = v]

LEMMA FileChanges ==
  ASSUME TypeOK, NEW s \in Session, NEW f \in Files, NEW v, FileBecomes(s, f, v)
  PROVE  /\ \A r \in Session : /\ disk'[r].there = disk[r].there
                               /\ disk'[r].replay = disk[r].replay
         /\ \A r \in Session, g \in Files : disk'[r].file[g] =
              IF r = s /\ g = f THEN v ELSE disk[r].file[g]
<1>1. disk[s] \in Directories /\ disk \in [Session -> Directories]
  BY DEF TypeOK
<1>2. /\ disk'[s].there = disk[s].there /\ disk'[s].replay = disk[s].replay
      /\ disk'[s].file = [disk[s].file EXCEPT ![f] = v]
      /\ \A r \in Session \ {s} : disk'[r] = disk[r]
  BY <1>1 DEF Directories, FileBecomes
<1>3. disk[s].file \in [Files -> Takes \cup {Absent, Partial}]
  BY <1>1 DEF Directories
<1>4. \A g \in Files : disk'[s].file[g] = IF g = f THEN v ELSE disk[s].file[g]
  BY <1>2, <1>3
<1> QED BY <1>2, <1>4

LEMMA OpenReplay ==
  ASSUME RecorderInv, ReplayInv, NEW t \in Thread, OpenFile(t)
  PROVE  ReplayInv'
<1> DEFINE job == thread[t].job
<1>1. /\ job.kind = "write" /\ thread[t].stage = "start"
      /\ UNCHANGED <<handler, rec, pending, queue, sent>>
  BY DEF OpenFile, Doing
<1>2. TypeOK /\ job \in Writes
  BY <1>1, ThreadJobs DEF RecorderInv
<1>3. PICK s \in Session, f \in Files : s = job.of /\ f = job.file
  BY <1>2, WriteFacts
\* The directory of a write is there: its recorder made it.
<1>4. disk[s].there
  <2>1. ~ Done(job)
    BY DEF Done, Running
  <2>2. job \in Given(s)
    BY <1>2, <1>3, <2>1 DEF ReplayInv, Kept, GivenJob
  <2>3. rec[s].prepares \in Nat /\ rec[s].prepares # 0
    BY <1>2, <2>2 DEF ReplayInv, Begun, TypeOK
  <2> QED BY <2>3 DEF ReplayInv, Begun
<1>5. FileBecomes(s, f, Partial) /\ Proceed(t, "open")
  BY <1>3, <1>4 DEF OpenFile, FileBecomes
<1>6. /\ \A r \in Session : /\ disk'[r].there = disk[r].there
                            /\ disk'[r].replay = disk[r].replay
      /\ \A r \in Session, g \in Files : disk'[r].file[g] =
           IF r = s /\ g = f THEN Partial ELSE disk[r].file[g]
  BY <1>2, <1>5, FileChanges
<1>7. /\ thread'[t].job = job /\ thread'[t].stage = "open"
      /\ \A u \in Thread \ {t} : thread'[u] = thread[u]
  BY <1>2, <1>5 DEF Proceed, TypeOK
<1>8. Begun' /\ Entered' /\ Replayed'
  BY <1>1, <1>6, ThreadReplay
<1>9. Waited'
  BY <1>1, <1>7 DEF ReplayInv, Waited, Doing
<1>10. \A r \in Session, g \in Files :
         disk[r].file[g] # Absent => disk'[r].file[g] # Absent
  BY <1>6 DEF Partial, Absent
<1>11. Opened'
  <2> SUFFICES ASSUME NEW u \in Thread, Doing(u, "write", "open")'
               PROVE  disk'[thread'[u].job.of].file[thread'[u].job.file] # Absent
    BY DEF Opened
  <2>1. thread'[u].job = thread[u].job /\ thread[u].job \in Writes
    BY <1>2, <1>7, ThreadJobs DEF Doing
  <2>2. thread[u].job.of \in Session /\ thread[u].job.file \in Files
    BY <2>1, WriteFacts
  <2>3. CASE u = t
    BY <1>3, <1>6, <2>1, <2>3 DEF Partial, Absent
  <2>4. CASE u # t
    <3>1. disk[thread[u].job.of].file[thread[u].job.file] # Absent
      BY <1>7, <2>4 DEF ReplayInv, Opened, Doing
    <3> QED BY <1>10, <2>1, <2>2, <3>1
  <2> QED BY <2>3, <2>4
<1>12. Held'
  <2> SUFFICES ASSUME NEW r \in Session, NEW g \in Files
               PROVE  /\ disk'[r].file[g] \in Takes =>
                           \E w \in Given(r) : w.file = g /\ w.take = disk'[r].file[g]
                      /\ disk'[r].file[g] = Partial =>
                           \E u \in Thread : /\ Doing(u, "write", "open")'
                                             /\ thread'[u].job.of = r
                                             /\ thread'[u].job.file = g
    BY <1>1 DEF Held, Given
  <2>1. CASE r = s /\ g = f
    <3>1. disk'[r].file[g] = Partial /\ Partial \notin Takes
      BY <1>6, <2>1 DEF Partial, Takes
    <3>2. Doing(t, "write", "open")' /\ thread'[t].job.of = r /\ thread'[t].job.file = g
      BY <1>1, <1>3, <1>7, <2>1 DEF Doing
    <3> QED BY <3>1, <3>2
  <2>2. CASE ~ (r = s /\ g = f)
    <3>1. disk'[r].file[g] = disk[r].file[g]
      BY <1>6, <2>2
    <3>2. ASSUME disk[r].file[g] = Partial
          PROVE  \E u \in Thread : /\ Doing(u, "write", "open")'
                                   /\ thread'[u].job.of = r
                                   /\ thread'[u].job.file = g
      <4>1. PICK u \in Thread : /\ Doing(u, "write", "open")
                                /\ thread[u].job.of = r /\ thread[u].job.file = g
        BY <3>2 DEF ReplayInv, Held
      <4>2. u # t
        BY <1>3, <2>2, <4>1
      <4> QED BY <1>7, <4>1, <4>2 DEF Doing
    <3> QED BY <3>1, <3>2 DEF ReplayInv, Held
  <2> QED BY <2>1, <2>2
<1>13. ASSUME NEW w \in Writes PROVE GivenJob(w)'
  <2>1. GivenJob(w) /\ (Done(w)' <=> Done(w))
    BY <1>1, <1>2, <1>5, DoneAfterStep DEF ReplayInv, Kept
  <2>2. disk[w.of].file[w.file] # Absent => disk'[w.of].file[w.file] # Absent
    BY <1>10, WriteFacts
  <2> QED BY <1>1, <2>1, <2>2, KeptStays DEF Given
<1> QED BY <1>8, <1>9, <1>11, <1>12, <1>13 DEF ReplayInv, Kept

LEMMA CloseReplay ==
  ASSUME RecorderInv, ReplayInv, NEW t \in Thread, CloseFile(t)
  PROVE  ReplayInv'
<1> DEFINE job == thread[t].job
<1>1. /\ Doing(t, "write", "open") /\ job.kind = "write" /\ Free(t)
      /\ UNCHANGED <<handler, rec, pending, queue, sent>>
  BY DEF CloseFile, Doing
<1>2. TypeOK /\ job \in Writes
  BY <1>1, ThreadJobs DEF RecorderInv
<1>3. PICK s \in Session, f \in Files : s = job.of /\ f = job.file
  BY <1>2, WriteFacts
<1>4. job.take \in Takes /\ job.take # Absent /\ job.take # Partial
  BY <1>2, WriteFacts DEF Takes, Absent, Partial
<1>5. ~ Done(job) /\ job \in Given(s)
  <2>1. ~ Done(job)
    BY DEF Done, Running
  <2> QED BY <1>2, <1>3, <2>1 DEF ReplayInv, Kept, GivenJob
<1>6. FileBecomes(s, f, job.take)
  <2>1. disk[job.of].file[job.file] # Absent
    BY <1>1 DEF ReplayInv, Opened
  <2> QED BY <1>3, <2>1 DEF CloseFile, FileBecomes
<1>7. /\ \A r \in Session : /\ disk'[r].there = disk[r].there
                            /\ disk'[r].replay = disk[r].replay
      /\ \A r \in Session, g \in Files : disk'[r].file[g] =
           IF r = s /\ g = f THEN job.take ELSE disk[r].file[g]
  BY <1>2, <1>6, FileChanges
<1>8. thread'[t].job = Idle /\ \A u \in Thread \ {t} : thread'[u] = thread[u]
  BY <1>1, <1>2 DEF Free, TypeOK
<1>9. Begun' /\ Entered' /\ Replayed'
  BY <1>1, <1>7, ThreadReplay
<1>10. Waited'
  BY <1>1, <1>8 DEF ReplayInv, Waited, Doing, Idle
<1>11. \A r \in Session, g \in Files :
         disk[r].file[g] # Absent => disk'[r].file[g] # Absent
  BY <1>4, <1>7
<1>12. Opened'
  <2> SUFFICES ASSUME NEW u \in Thread, Doing(u, "write", "open")'
               PROVE  disk'[thread'[u].job.of].file[thread'[u].job.file] # Absent
    BY DEF Opened
  <2>1. u # t
    BY <1>8 DEF Doing, Idle
  <2>2. thread'[u].job = thread[u].job /\ thread[u].job \in Writes
    BY <1>2, <1>8, <2>1, ThreadJobs DEF Doing
  <2>3. thread[u].job.of \in Session /\ thread[u].job.file \in Files
    BY <2>2, WriteFacts
  <2>4. disk[thread[u].job.of].file[thread[u].job.file] # Absent
    BY <1>8, <2>1 DEF ReplayInv, Opened, Doing
  <2> QED BY <1>11, <2>2, <2>3, <2>4
<1>13. Held'
  <2> SUFFICES ASSUME NEW r \in Session, NEW g \in Files
               PROVE  /\ disk'[r].file[g] \in Takes =>
                           \E w \in Given(r) : w.file = g /\ w.take = disk'[r].file[g]
                      /\ disk'[r].file[g] = Partial =>
                           \E u \in Thread : /\ Doing(u, "write", "open")'
                                             /\ thread'[u].job.of = r
                                             /\ thread'[u].job.file = g
    BY <1>1 DEF Held, Given
  <2>1. CASE r = s /\ g = f
    BY <1>3, <1>4, <1>5, <1>7, <2>1
  <2>2. CASE ~ (r = s /\ g = f)
    <3>1. disk'[r].file[g] = disk[r].file[g]
      BY <1>7, <2>2
    <3>2. ASSUME disk[r].file[g] = Partial
          PROVE  \E u \in Thread : /\ Doing(u, "write", "open")'
                                   /\ thread'[u].job.of = r
                                   /\ thread'[u].job.file = g
      <4>1. PICK u \in Thread : /\ Doing(u, "write", "open")
                                /\ thread[u].job.of = r /\ thread[u].job.file = g
        BY <3>2 DEF ReplayInv, Held
      <4>2. u # t
        BY <1>3, <2>2, <4>1
      <4> QED BY <1>8, <4>1, <4>2 DEF Doing
    <3> QED BY <3>1, <3>2 DEF ReplayInv, Held
  <2> QED BY <2>1, <2>2
<1>14. ASSUME NEW w \in Writes PROVE GivenJob(w)'
  <2>1. GivenJob(w) /\ w.of \in Session /\ w.file \in Files
    BY WriteFacts DEF ReplayInv, Kept
  <2>2. CASE w = job
    <3>1. ~ Done(w) /\ w \in Given(s) /\ disk'[w.of].file[w.file] # Absent
      BY <1>3, <1>4, <1>5, <1>7, <2>2
    <3> QED BY <1>1, <1>3, <2>1, <2>2, <3>1 DEF GivenJob, Given
  <2>3. CASE w # job
    <3>1. Done(w)' <=> Done(w)
      BY <1>1, <1>2, <2>3, DoneAfterStep
    <3> QED BY <1>1, <1>11, <2>1, <3>1, KeptStays DEF Given
  <2> QED BY <2>2, <2>3
<1> QED BY <1>9, <1>10, <1>12, <1>13, <1>14 DEF ReplayInv, Kept

\* A flush's step writes no audio; it empties a list of which nothing is left to do.
LEMMA FlushKeeps ==
  ASSUME RecorderInv, ReplayInv, NEW t \in Thread, thread[t].job.kind = "flush",
         NEW stage \in {"meta", "stitch", "save"}, Free(t) \/ Proceed(t, stage),
         UNCHANGED <<handler, rec, queue>>,
         \A r \in Session : /\ disk'[r].file = disk[r].file /\ disk'[r].there = disk[r].there
                            /\ \/ pending'[r] = pending[r]
                               \/ pending'[r] = {} /\ \A job \in pending[r] : Done(job),
         stage # "save" => pending'[thread[t].job.of] = {}
  PROVE  Begun' /\ Kept' /\ Held' /\ Opened' /\ Waited' /\ Entered'
<1>1. TypeOK /\ thread[t].job \in Flushes
  BY ThreadJobs DEF RecorderInv
<1>2. /\ thread'[t].job \in {thread[t].job, Idle}
      /\ thread'[t].job = Idle \/ thread'[t].stage = stage
      /\ \A u \in Thread \ {t} : thread'[u] = thread[u]
  BY <1>1 DEF Free, Proceed, TypeOK
<1>3. Begun' /\ Entered'
  BY DEF ReplayInv, Begun, Given, Entered, Write
<1>4. Opened'
  <2> SUFFICES ASSUME NEW u \in Thread, Doing(u, "write", "open")'
               PROVE  disk'[thread'[u].job.of].file[thread'[u].job.file] # Absent
    BY DEF Opened
  <2>1. u # t
    BY <1>2 DEF Doing, Idle
  <2>2. thread'[u] = thread[u] /\ thread[u].job \in Writes
    BY <1>1, <1>2, <2>1, ThreadJobs DEF Doing
  <2>3. disk[thread[u].job.of].file[thread[u].job.file] # Absent
    BY <2>2 DEF ReplayInv, Opened, Doing
  <2>4. thread[u].job.of \in Session
    BY <2>2, WriteFacts
  <2> QED BY <2>2, <2>3, <2>4
<1>5. Waited'
  <2> SUFFICES ASSUME NEW u \in Thread, Doing(u, "flush", "meta")' \/ Doing(u, "flush", "stitch")'
               PROVE  pending'[thread'[u].job.of] = {}
    BY DEF Waited
  <2>1. CASE u = t
    <3>1. thread'[t].job # Idle /\ thread'[t].stage # "save"
      BY <2>1 DEF Doing, Idle
    <3>2. thread'[t].job = thread[t].job /\ stage # "save"
      BY <1>2, <3>1
    <3> QED BY <2>1, <3>2
  <2>2. CASE u # t
    <3>1. thread'[u] = thread[u] /\ thread[u].job.kind = "flush"
      BY <1>2, <2>2 DEF Doing
    <3>2. pending[thread[u].job.of] = {} /\ thread[u].job.of \in Session
      BY <3>1, FlushedIsClosed DEF ReplayInv, Waited, Doing
    <3> QED BY <3>1, <3>2
  <2> QED BY <2>1, <2>2
<1>6. ASSUME NEW w \in Writes PROVE GivenJob(w)'
  <2>1. w.of \in Session /\ GivenJob(w) /\ w # thread[t].job
    BY WriteFacts DEF ReplayInv, Kept
  <2>2. Done(w)' <=> Done(w)
    BY <1>1, <2>1, DoneAfterStep
  <2>3. w \in pending[w.of] => Done(w) \/ w \in pending'[w.of]
    BY <2>1
  <2> QED BY <2>1, <2>2, <2>3, KeptStays DEF Given
<1>7. Held'
  <2> SUFFICES ASSUME NEW r \in Session, NEW g \in Files
               PROVE  /\ disk[r].file[g] \in Takes =>
                           \E w \in Given(r) : w.file = g /\ w.take = disk[r].file[g]
                      /\ disk[r].file[g] = Partial =>
                           \E u \in Thread : /\ Doing(u, "write", "open")'
                                             /\ thread'[u].job.of = r
                                             /\ thread'[u].job.file = g
    BY DEF Held, Given
  <2>1. ASSUME disk[r].file[g] = Partial
        PROVE  \E u \in Thread : /\ Doing(u, "write", "open")'
                                 /\ thread'[u].job.of = r
                                 /\ thread'[u].job.file = g
    <3>1. PICK u \in Thread : /\ Doing(u, "write", "open")
                              /\ thread[u].job.of = r /\ thread[u].job.file = g
      BY <2>1 DEF ReplayInv, Held
    <3>2. thread'[u] = thread[u]
      BY <1>2, <3>1 DEF Doing
    <3> QED BY <3>1, <3>2 DEF Doing
  <2> QED BY <2>1 DEF ReplayInv, Held
<1> QED BY <1>3, <1>4, <1>5, <1>6, <1>7 DEF Kept

\* What the flush finds in the file of a write of its recorder.
LEMMA FoundInFile ==
  ASSUME RecorderInv, ReplayInv, NEW s \in Session, pending[s] = {},
         NEW w \in rec[s].saved, w.of = s
  PROVE  Replays(s, w.file, w.take, disk[s].file[w.file])
<1> DEFINE got == disk[s].file[w.file]
<1>1. TypeOK /\ w \in Writes /\ w.file \in Files
  BY WriteFacts DEF RecorderInv, TypeOK
<1>2. got \in Takes \cup {Absent, Partial}
  BY <1>1 DEF TypeOK, Directories
<1>3. got # Absent
  BY <1>1 DEF ReplayInv, Kept, GivenJob, Given
<1>4. ASSUME got \in Takes
      PROVE  \E job \in rec[s].saved \cup rec[s].before : job.file = w.file /\ job.take = got
  BY <1>1, <1>4 DEF ReplayInv, Held, Given
<1>5. ASSUME got = Partial
      PROVE  \E job \in rec[s].before : job.file = w.file
  <2>1. PICK t \in Thread : /\ Doing(t, "write", "open")
                            /\ thread[t].job.of = s /\ thread[t].job.file = w.file
    BY <1>1, <1>5 DEF ReplayInv, Held
  <2>2. thread[t].job \in Writes /\ ~ Done(thread[t].job)
    BY <1>1, <2>1, ThreadJobs DEF Doing, Done, Running
  <2>3. thread[t].job \in Given(s) /\ thread[t].job \notin rec[s].saved
    BY <2>1, <2>2 DEF ReplayInv, Kept, GivenJob
  <2> QED BY <2>1, <2>3 DEF Given
<1> HIDE DEF got
<1>6. Replays(s, w.file, w.take, got)
  BY <1>2, <1>3, <1>4, <1>5 DEF Replays
<1> QED BY <1>6 DEF got

\* What the flush stitches may be told of the timeline.
LEMMA StitchedIsFaithful ==
  ASSUME RecorderInv, ReplayInv, NEW s \in Session, pending[s] = {}
  PROVE  Faithful(s, Stitched(s))
<1> SUFFICES ASSUME NEW i \in 1 .. Len(rec[s].chunks)
             PROVE  LET entry == rec[s].chunks[i] IN
                    /\ Replays(s, <<"user", i - 1>>, entry.take, Stitched(s)[i].user)
                    /\ entry.ai => Replays(s, <<"ai", i - 1>>, entry.take, Stitched(s)[i].ai)
  BY DEF Faithful
<1> DEFINE take == rec[s].chunks[i].take
<1>1. Stitched(s)[i] =
        [user |-> disk[s].file[<<"user", i - 1>>],
         ai |-> IF rec[s].chunks[i].ai THEN disk[s].file[<<"ai", i - 1>>] ELSE Absent]
  BY DEF Stitched
<1>2. ASSUME NEW track, Write(s, track, take, i - 1) \in rec[s].saved
      PROVE  Replays(s, <<track, i - 1>>, take, disk[s].file[<<track, i - 1>>])
  <2> DEFINE w == Write(s, track, take, i - 1)
  <2>1. w.of = s /\ w.take = take /\ w.file = <<track, i - 1>> /\ w \in rec[s].saved
    BY <1>2 DEF Write
  <2> HIDE DEF w
  <2>2. Replays(s, w.file, w.take, disk[s].file[w.file])
    BY <2>1, FoundInFile
  <2> QED BY <2>1, <2>2
<1>3. /\ Write(s, "user", take, i - 1) \in rec[s].saved
      /\ rec[s].chunks[i].ai => Write(s, "ai", take, i - 1) \in rec[s].saved
  BY DEF ReplayInv, Entered
<1> QED BY <1>1, <1>2, <1>3

LEMMA FlushReplay ==
  ASSUME RecorderInv, ReplayInv, NEW t \in Thread,
         FlushWaits(t) \/ FlushMeta(t) \/ FlushStitch(t) \/ FlushSave(t)
  PROVE  ReplayInv'
<1>1. thread[t].job.kind = "flush" /\ UNCHANGED <<handler, rec, queue>>
  BY DEF FlushWaits, FlushMeta, FlushStitch, FlushSave, Doing
<1>2. PICK s \in Session : s = thread[t].job.of /\ handler[s] = "closed"
  BY <1>1, FlushedIsClosed
<1>3. disk \in [Session -> Directories] /\ pending \in [Session -> SUBSET Writes]
  BY DEF RecorderInv, TypeOK
<1>4. ASSUME \A r \in Session : /\ disk'[r].there = disk[r].there
                                 /\ disk'[r].replay = disk[r].replay
      PROVE  Replayed'
  BY <1>1, <1>4, ThreadReplay
<1>5. ASSUME NEW x, disk' = [disk EXCEPT ![s].meta = x] \/ disk' = [disk EXCEPT ![s].saved = x]
                    \/ disk' = disk
      PROVE  \A r \in Session : /\ disk'[r].file = disk[r].file
                                /\ disk'[r].there = disk[r].there
                                /\ disk'[r].replay = disk[r].replay
  <2>1. CASE disk' = [disk EXCEPT ![s].meta = x]
    BY <1>3, <2>1 DEF Directories
  <2>2. CASE disk' = [disk EXCEPT ![s].saved = x]
    BY <1>3, <2>2 DEF Directories
  <2> QED BY <1>5, <2>1, <2>2
<1>6. CASE FlushWaits(t)
  <2>1. /\ pending' = [pending EXCEPT ![s] = {}] /\ \A job \in pending[s] : Done(job)
        /\ Free(t) \/ Proceed(t, "meta")
        /\ disk' = [disk EXCEPT ![s].meta = "partial"] \/ disk' = disk
    BY <1>2, <1>6 DEF FlushWaits
  <2>2. /\ pending'[s] = {}
        /\ \A r \in Session : \/ pending'[r] = pending[r]
                              \/ pending'[r] = {} /\ \A job \in pending[r] : Done(job)
    BY <1>3, <2>1
  <2>3. \A r \in Session : /\ disk'[r].file = disk[r].file /\ disk'[r].there = disk[r].there
                           /\ disk'[r].replay = disk[r].replay
    BY <1>5, <2>1
  <2>4. Begun' /\ Kept' /\ Held' /\ Opened' /\ Waited' /\ Entered'
    <3>1. "meta" \in {"meta", "stitch", "save"}
      OBVIOUS
    <3> QED BY <1>1, <1>2, <2>1, <2>2, <2>3, <3>1, FlushKeeps
  <2> QED BY <1>4, <2>3, <2>4 DEF ReplayInv
<1>7. CASE FlushMeta(t)
  <2>1. /\ pending' = pending /\ pending[s] = {} /\ Proceed(t, "stitch")
        /\ disk' = [disk EXCEPT ![s].meta = IF @ = "partial" THEN "ended" ELSE @]
    BY <1>2, <1>7 DEF FlushMeta, ReplayInv, Waited
  <2>2. \A r \in Session : /\ disk'[r].file = disk[r].file /\ disk'[r].there = disk[r].there
                           /\ disk'[r].replay = disk[r].replay
    BY <1>5, <2>1
  <2>3. Begun' /\ Kept' /\ Held' /\ Opened' /\ Waited' /\ Entered'
    <3>1. "stitch" \in {"meta", "stitch", "save"}
      OBVIOUS
    <3> QED BY <1>1, <1>2, <2>1, <2>2, <3>1, FlushKeeps
  <2> QED BY <1>4, <2>2, <2>3 DEF ReplayInv
<1>8. CASE FlushStitch(t)
  <2>1. /\ pending' = pending /\ pending[s] = {} /\ (Free(t) \/ Proceed(t, "save"))
        /\ disk' = [disk EXCEPT ![s].replay = Stitched(s)] \/ disk' = disk
    BY <1>2, <1>8 DEF FlushStitch, ReplayInv, Waited
  <2>2. \A r \in Session : /\ disk'[r].file = disk[r].file /\ disk'[r].there = disk[r].there
                           /\ r # s => disk'[r].replay = disk[r].replay
    BY <1>3, <2>1 DEF Directories
  <2>3. disk'[s].replay \in {disk[s].replay, Stitched(s)}
    BY <1>3, <2>1 DEF Directories
  <2>4. Begun' /\ Kept' /\ Held' /\ Opened' /\ Waited' /\ Entered'
    <3>1. "save" \in {"meta", "stitch", "save"}
      OBVIOUS
    <3> QED BY <1>1, <1>2, <2>1, <2>2, <3>1, FlushKeeps
  <2>5. Replayed'
    <3> SUFFICES ASSUME NEW r \in Session, disk'[r].replay # NoReplay
                 PROVE  handler[r] = "closed" /\ Faithful(r, disk'[r].replay)
      BY <1>1 DEF Replayed, Faithful, Replays
    <3>1. CASE disk'[r].replay = disk[r].replay
      BY <3>1 DEF ReplayInv, Replayed
    <3>2. CASE disk'[r].replay # disk[r].replay
      <4>1. r = s /\ disk'[s].replay = Stitched(s)
        BY <2>2, <2>3, <3>2
      <4> QED BY <1>2, <2>1, <4>1, StitchedIsFaithful
    <3> QED BY <3>1, <3>2
  <2> QED BY <2>4, <2>5 DEF ReplayInv
<1>9. CASE FlushSave(t)
  <2>1. /\ pending' = pending /\ Free(t)
        /\ disk' = [disk EXCEPT ![s].saved = TRUE] \/ disk' = disk
    BY <1>2, <1>9 DEF FlushSave
  <2>2. \A r \in Session : /\ disk'[r].file = disk[r].file /\ disk'[r].there = disk[r].there
                           /\ disk'[r].replay = disk[r].replay
    BY <1>5, <2>1
  <2>3. Begun' /\ Kept' /\ Held' /\ Opened' /\ Waited' /\ Entered'
    <3>1. "save" \in {"meta", "stitch", "save"}
      OBVIOUS
    <3> QED BY <1>1, <1>2, <2>1, <2>2, <3>1, FlushKeeps
  <2> QED BY <1>4, <2>2, <2>3 DEF ReplayInv
<1> QED BY <1>6, <1>7, <1>8, <1>9

LEMMA ReplayInit == Init => ReplayInv
<1> SUFFICES ASSUME Init PROVE ReplayInv
  OBVIOUS
<1>1. Begun /\ Opened /\ Waited /\ Replayed
  BY DEF Init, Begun, Given, Opened, Waited, Replayed, NoRecorder, NoDirectory, Doing, Idle
<1>2. Held
  BY DEF Init, Held, NoDirectory, Absent, Partial, Takes
<1>3. Entered
  <2>1. \A s \in Session : 1 .. Len(rec[s].chunks) = {} /\ handler[s] # "step"
    BY DEF Init, NoRecorder
  <2> QED BY <2>1 DEF Entered
<1>4. ASSUME NEW w \in Writes PROVE GivenJob(w)
  <2>1. w.of \in Session /\ w # Idle
    BY WriteFacts
  <2>2. Done(w)
    BY <2>1 DEF Init, Done, Queued, Running
  <2>3. Given(w.of) = {}
    BY <2>1 DEF Init, NoRecorder, Given
  <2> QED BY <2>2, <2>3 DEF GivenJob
<1> QED BY <1>1, <1>2, <1>3, <1>4 DEF ReplayInv, Kept

LEMMA ReplayStep == RecorderInv /\ ReplayInv /\ [Next]_vars => ReplayInv'
<1> SUFFICES ASSUME RecorderInv, ReplayInv, [Next]_vars PROVE ReplayInv'
  OBVIOUS
<1>1. ASSUME NEW s \in Session, HandlerStep(s) PROVE ReplayInv'
  BY <1>1, PrepareReplay, ReceiveReplay, RecordedReplay, StepFailsReplay, LeaveReplay
  DEF HandlerStep
<1>2. ASSUME NEW t \in Thread, Take(t) \/ JobStep(t) PROVE ReplayInv'
  BY <1>2, TakeReplay, OpenReplay, CloseReplay, FlushReplay DEF JobStep
<1>3. CASE UNCHANGED vars
  <2>1. UNCHANGED <<handler, rec, pending, queue, thread, disk>> /\ TypeOK
    BY <1>3 DEF vars, RecorderInv
  <2>2. Begun' /\ Entered' /\ Replayed'
    BY <2>1, ThreadReplay
  <2>3. \A s \in Session : Given(s)' = Given(s)
    BY <2>1 DEF Given
  <2>4. Opened' /\ Waited' /\ Held'
    BY <2>1, <2>3, ThreadsKept DEF ReplayInv
  <2>5. Kept'
    BY <2>1 DEF ReplayInv, Kept, GivenJob, Given, Done, Running, Queued
  <2> QED BY <2>2, <2>4, <2>5 DEF ReplayInv
<1> QED BY <1>1, <1>2, <1>3 DEF Next

\* The replay that the flush stitches (_finalize_hook) has a whole take for every
\* entry of the timeline, however the sessions' jobs share the threads of the pool:
\* the flush meets no file that is still missing or, of the recorder it belongs to,
\* still being written.  It is the take the entry was recorded for if its index was
\* used once; after a failing step it may be the other take saved under the index,
\* and after a second prepare also half of what the first recorder saved.
THEOREM RecorderReplay == Spec => []ReplayIsTimeline
<1>1. ReplayInv => ReplayIsTimeline
  <2> SUFFICES ASSUME ReplayInv PROVE ReplayIsTimeline
    OBVIOUS
  <2>1. \A s \in Session : disk[s].replay # NoReplay => Faithful(s, disk[s].replay)
    BY DEF ReplayInv, Replayed
  <2> QED BY <2>1 DEF ReplayIsTimeline, Faithful
<1>2. Init => RecorderInv /\ ReplayInv
  BY RecorderStarts, ReplayInit
<1>3. RecorderInv /\ ReplayInv /\ [Next]_vars => (RecorderInv /\ ReplayInv)'
  BY RecorderKeeps, ReplayStep
<1> QED BY <1>1, <1>2, <1>3, PTL DEF Spec

-----------------------------------------------------------------------------
(***************************************************************************)
(* Beside the cleanup.  Audio on the disk can be found, because of a       *)
(* session prepared once every write that is not done is in the list that  *)
(* the flush waits for: past its wait no file comes back, and the meta.json *)
(* it has rewritten goes only together with the files.                     *)
(***************************************************************************)
FlushOf(s) == [kind |-> "flush", of |-> s]

\* The flush has not waited yet.
Awaited(s) == Queued(FlushOf(s)) \/ \E t \in Thread :
                thread[t].job = FlushOf(s) /\ thread[t].stage = "wait"

Past(s) == handler[s] = "closed" /\ ~ Awaited(s)

AtMeta(s, t) == thread[t].job = FlushOf(s) /\ thread[t].stage = "meta"

Legible(s) ==
  \/ disk[s].meta = "ended"
  \/ disk[s].meta = "partial" /\ \E t \in Thread : AtMeta(s, t)

HasFile(s) == \E f \in Files : disk[s].file[f] # Absent

FoundOf(s) ==
  /\ rec[s].prepares = 0 => handler[s] = "new" /\ pending[s] = {}
  /\ Past(s) => pending[s] = {}
  /\ rec[s].prepares <= 1 =>
       \A w \in Writes : w.of = s /\ ~ Done(w) => w \in pending[s]
  /\ HasFile(s) => disk[s].there
  /\ rec[s].prepares = 1 /\ Past(s) /\ HasFile(s) => Legible(s)

FoundInv == \A s \in Session : FoundOf(s)

\* A session that the step leaves alone, but for the replay.
Untouched(s) ==
  /\ rec'[s] = rec[s] /\ handler'[s] = handler[s] /\ pending'[s] = pending[s]
  /\ disk'[s].there = disk[s].there /\ disk'[s].file = disk[s].file
  /\ disk'[s].meta = disk[s].meta

\* What the pool has for s is as it was.
SamePool(s) ==
  /\ Awaited(s) => Awaited(s)'
  /\ \A w \in Writes : w.of = s => (Done(w)' <=> Done(w))
  /\ \A t \in Thread : AtMeta(s, t) => AtMeta(s, t)'

LEMMA FoundStays ==
  ASSUME NEW s \in Session, FoundOf(s), Untouched(s), SamePool(s)
  PROVE  FoundOf(s)'
<1>1. Past(s)' => Past(s)
  BY DEF Past, Untouched, SamePool
<1>2. (HasFile(s)' <=> HasFile(s)) /\ (Legible(s) => Legible(s)')
  BY DEF HasFile, Legible, Untouched, SamePool
<1> QED BY <1>1, <1>2 DEF FoundOf, Untouched, SamePool

\* A job comes to the end of the queue.
LEMMA PoolAfterSubmit ==
  ASSUME TypeOK, NEW job \in Jobs, queue' = Append(queue, job), thread' = thread,
         NEW s \in Session, job.kind = "write" => job.of # s
  PROVE  SamePool(s)
<1>1. \A i \in 1 .. Len(queue) : i \in 1 .. Len(queue') /\ queue'[i] = queue[i]
  BY DEF TypeOK
<1>2. Awaited(s) => Awaited(s)'
  BY <1>1 DEF Awaited, Queued
<1>3. \A w \in Writes : w.of = s => (Done(w)' <=> Done(w))
  BY DoneAfterSubmit, WriteFacts
<1> QED BY <1>2, <1>3 DEF SamePool, AtMeta

LEMMA PoolAlone ==
  ASSUME UNCHANGED <<queue, thread>>, NEW s
  PROVE  SamePool(s)
BY DEF SamePool, Awaited, Queued, Done, Running, AtMeta

\* prepare.
LEMMA PrepareFound ==
  ASSUME RecorderInv, FoundInv, NEW s \in Session, Prepare(s)
  PROVE  FoundInv'
<1>1. TypeOK /\ UNCHANGED <<queue, thread>>
  BY DEF RecorderInv, Prepare
<1>2. /\ rec'[s].prepares = rec[s].prepares + 1 /\ rec[s].prepares \in Nat
      /\ handler'[s] = "ready" /\ pending'[s] = {}
      /\ disk'[s].there /\ disk'[s].file = disk[s].file
  BY <1>1, RecorderAssumption DEF Prepare, TypeOK, Directories
<1>3. ASSUME NEW r \in Session, r # s PROVE Untouched(r)
  BY <1>1, <1>3 DEF Untouched, Prepare, TypeOK
<1>4. ASSUME NEW r \in Session, r # s PROVE FoundOf(r)'
  BY <1>1, <1>3, <1>4, PoolAlone, FoundStays DEF FoundInv
<1>5. FoundOf(s)'
  <2>1. ~ Past(s)'
    BY <1>2 DEF Past
  <2>2. ASSUME rec'[s].prepares <= 1, NEW w \in Writes, w.of = s, ~ Done(w)'
        PROVE  FALSE
    <3>1. rec[s].prepares = 0
      BY <1>2, <2>2
    <3>2. pending[s] = {} /\ (~ Done(w) => w \in pending[s])
      BY <2>2, <3>1 DEF FoundInv, FoundOf
    <3>3. Done(w)' <=> Done(w)
      BY <1>1, <2>2, PoolAlone DEF SamePool
    <3> QED BY <2>2, <3>2, <3>3
  <2>3. rec'[s].prepares # 0
    BY <1>2
  <2> QED BY <1>2, <2>1, <2>2, <2>3 DEF FoundOf
<1> QED BY <1>4, <1>5 DEF FoundInv

\* A handler that has not ended changes its session, and may submit a write.
LEMMA HandlerFound ==
  ASSUME RecorderInv, FoundInv, NEW s \in Session,
         handler[s] \in {"ready", "step"}, rec'[s].prepares = rec[s].prepares,
         \A r \in Session : r # s => Untouched(r),
         handler'[s] # "closed" \/ queue' = Append(queue, FlushOf(s)),
         disk' = disk, thread' = thread,
         \/ UNCHANGED <<queue, pending>>
         \/ queue' = Append(queue, FlushOf(s)) /\ pending' = pending
         \/ \E w \in Writes : /\ w.of = s /\ queue' = Append(queue, w)
                              /\ pending'[s] = pending[s] \cup {w}
  PROVE  FoundInv'
<1>1. TypeOK /\ FlushOf(s) \in Jobs
  BY DEF RecorderInv, FlushOf, Jobs, Flushes
<1>2. \A r \in Session : r # s => SamePool(r)
  <2>1. CASE UNCHANGED <<queue, pending>>
    BY <2>1, PoolAlone
  <2>2. CASE queue' = Append(queue, FlushOf(s))
    BY <1>1, <2>2, PoolAfterSubmit DEF FlushOf
  <2>3. ASSUME NEW w \in Writes, w.of = s, queue' = Append(queue, w)
        PROVE  \A r \in Session : r # s => SamePool(r)
    BY <1>1, <2>3, PoolAfterSubmit DEF Jobs
  <2> QED BY <2>1, <2>2, <2>3
<1>3. \A r \in Session : r # s => FoundOf(r)'
  BY <1>2, FoundStays DEF FoundInv
<1>4. ~ Past(s)'
  <2>1. CASE handler'[s] # "closed"
    BY <2>1 DEF Past
  <2>2. CASE queue' = Append(queue, FlushOf(s))
    <3>1. Len(queue) + 1 \in 1 .. Len(queue') /\ queue'[Len(queue) + 1] = FlushOf(s)
      BY <1>1, <2>2 DEF TypeOK
    <3> QED BY <3>1 DEF Past, Awaited, Queued
  <2> QED BY <2>1, <2>2
<1>5. ASSUME rec'[s].prepares <= 1, NEW v \in Writes, v.of = s, ~ Done(v)'
      PROVE  v \in pending'[s]
  <2>1. ~ Done(v) => v \in pending[s]
    BY <1>5 DEF FoundInv, FoundOf
  <2>2. CASE UNCHANGED <<queue, pending>>
    <3>1. Done(v)' <=> Done(v)
      BY <1>5, <2>2, PoolAlone DEF SamePool
    <3> QED BY <1>5, <2>1, <2>2, <3>1
  <2>3. CASE queue' = Append(queue, FlushOf(s)) /\ pending' = pending
    <3>1. v # FlushOf(s)
      BY WriteFacts DEF FlushOf
    <3>2. Done(v)' <=> Done(v)
      BY <1>1, <2>3, <3>1, DoneAfterSubmit
    <3> QED BY <1>5, <2>1, <2>3, <3>2
  <2>4. ASSUME NEW w \in Writes, queue' = Append(queue, w), pending'[s] = pending[s] \cup {w}
        PROVE  v \in pending'[s]
    <3>1. Done(v)' <=> Done(v) /\ v # w
      BY <1>1, <2>4, DoneAfterSubmit DEF Jobs
    <3> QED BY <1>5, <2>1, <2>4, <3>1
  <2> QED BY <2>2, <2>3, <2>4
<1>6. (HasFile(s)' <=> HasFile(s)) /\ (HasFile(s) => disk[s].there)
  BY DEF HasFile, FoundInv, FoundOf
<1>7. rec[s].prepares # 0
  BY DEF FoundInv, FoundOf
<1>8. FoundOf(s)'
  BY <1>4, <1>5, <1>6, <1>7 DEF FoundOf
<1> QED BY <1>3, <1>8 DEF FoundInv

LEMMA HandlersFound ==
  ASSUME RecorderInv, FoundInv, NEW s \in Session, HandlerStep(s)
  PROVE  FoundInv'
<1>0. TypeOK /\ rec[s].chunk \in Nat
  BY DEF RecorderInv, TypeOK
<1>1. CASE Prepare(s)
  BY <1>1, PrepareFound
<1>2. ASSUME NEW track \in Tracks, NEW take \in Takes, Submit(s, Save(s, track, take)),
             rec[s].chunk < MaxTakes
      PROVE  /\ \E w \in Writes : /\ w.of = s /\ queue' = Append(queue, w)
                                  /\ pending'[s] = pending[s] \cup {w}
             /\ \A r \in Session : r # s => pending'[r] = pending[r]
  <2> DEFINE w == Save(s, track, take)
  <2>1. w \in Writes /\ w.of = s
    BY <1>0, <1>2, SaveFacts
  <2>2. queue' = Append(queue, w) /\ pending' = [pending EXCEPT ![s] = @ \cup {w}]
    BY <1>2 DEF Submit
  <2>3. pending'[s] = pending[s] \cup {w} /\ \A r \in Session : r # s => pending'[r] = pending[r]
    BY <1>0, <2>2 DEF TypeOK
  <2> QED BY <2>1, <2>2, <2>3
<1>3. ASSUME Receive(s) PROVE FoundInv'
  <2>1. /\ handler[s] = "ready" /\ handler' = [handler EXCEPT ![s] = "step"]
        /\ rec' = [rec EXCEPT ![s] =
             [@ EXCEPT !.take = sent + 1,
                       !.saved = rec[s].saved \cup {Save(s, "user", sent + 1)}]]
        /\ sent < MaxTakes
        /\ Submit(s, Save(s, "user", sent + 1)) /\ UNCHANGED <<thread, disk>>
    BY <1>3 DEF Receive
  <2>2. sent + 1 \in Takes /\ "user" \in Tracks /\ rec[s].chunk < MaxTakes
    BY <1>0, <2>1, RecorderAssumption DEF RecorderInv, Counted, TypeOK, Takes, Tracks
  <2>3. /\ handler'[s] = "step" /\ rec'[s].prepares = rec[s].prepares
        /\ \A r \in Session : r # s => handler'[r] = handler[r] /\ rec'[r] = rec[r]
    BY <1>0, <2>1 DEF TypeOK
  <2>4. \A r \in Session : r # s => Untouched(r)
    BY <1>2, <2>1, <2>2, <2>3 DEF Untouched
  <2>5. \E w \in Writes : /\ w.of = s /\ queue' = Append(queue, w)
                          /\ pending'[s] = pending[s] \cup {w}
    BY <1>2, <2>1, <2>2
  <2> QED BY <2>1, <2>3, <2>4, <2>5, HandlerFound
<1>4. ASSUME NEW ai \in BOOLEAN, Recorded(s, ai) PROVE FoundInv'
  <2> DEFINE entry == [take |-> rec[s].take, ai |-> ai]
             saved == IF ai THEN rec[s].saved \cup {Save(s, "ai", rec[s].take)}
                            ELSE rec[s].saved
  <2>1. /\ handler[s] = "step" /\ handler' = [handler EXCEPT ![s] = "ready"]
        /\ rec' = [rec EXCEPT ![s] =
             [@ EXCEPT !.chunk = rec[s].chunk + 1, !.chunks = Append(rec[s].chunks, entry),
                       !.saved = saved]]
        /\ IF ai THEN Submit(s, Save(s, "ai", rec[s].take)) ELSE UNCHANGED <<queue, pending>>
        /\ UNCHANGED <<thread, disk>>
    BY <1>4 DEF Recorded
  <2> HIDE DEF entry, saved
  <2>2. rec[s].take \in Takes /\ "ai" \in Tracks /\ rec[s].chunk < MaxTakes
    BY <1>0, <2>1, RecorderAssumption DEF RecorderInv, Counted, TypeOK, Takes, Tracks
  <2>3. /\ handler'[s] = "ready" /\ rec'[s].prepares = rec[s].prepares
        /\ \A r \in Session : r # s => handler'[r] = handler[r] /\ rec'[r] = rec[r]
    BY <1>0, <2>1 DEF TypeOK
  <2>4. CASE ai
    <3>1. \A r \in Session : r # s => Untouched(r)
      BY <1>2, <2>1, <2>2, <2>3, <2>4 DEF Untouched
    <3>2. \E w \in Writes : /\ w.of = s /\ queue' = Append(queue, w)
                            /\ pending'[s] = pending[s] \cup {w}
      BY <1>2, <2>1, <2>2, <2>4
    <3> QED BY <2>1, <2>3, <3>1, <3>2, HandlerFound
  <2>5. CASE ~ ai
    <3>1. \A r \in Session : r # s => Untouched(r)
      BY <2>1, <2>3, <2>5 DEF Untouched
    <3> QED BY <2>1, <2>3, <2>5, <3>1, HandlerFound
  <2> QED BY <2>4, <2>5
<1>5. ASSUME StepFails(s) PROVE FoundInv'
  <2>1. /\ handler[s] = "step" /\ handler' = [handler EXCEPT ![s] = "ready"]
        /\ UNCHANGED <<rec, pending, queue, thread, disk>>
    BY <1>5 DEF StepFails
  <2>2. /\ handler'[s] = "ready" /\ rec'[s].prepares = rec[s].prepares
        /\ \A r \in Session : r # s => Untouched(r)
    BY <1>0, <2>1 DEF TypeOK, Untouched
  <2> QED BY <2>1, <2>2, HandlerFound
<1>6. ASSUME Leave(s) PROVE FoundInv'
  <2>1. /\ handler[s] = "ready" /\ handler' = [handler EXCEPT ![s] = "closed"]
        /\ queue' = Append(queue, FlushOf(s))
        /\ UNCHANGED <<rec, pending, thread, disk>>
    BY <1>6 DEF Leave, FlushOf
  <2>2. \A r \in Session : r # s => Untouched(r)
    BY <1>0, <2>1 DEF TypeOK, Untouched
  <2> QED BY <2>1, <2>2, HandlerFound
<1> QED BY <1>1, <1>3, <1>4, <1>5, <1>6 DEF HandlerStep

-----------------------------------------------------------------------------
\* A thread takes a job.
LEMMA TakeFound ==
  ASSUME RecorderInv, FoundInv, NEW t \in Thread, Take(t)
  PROVE  FoundInv'
<1>1. /\ TypeOK /\ UNCHANGED <<handler, rec, pending, disk>>
      /\ queue # <<>> /\ queue' = Tail(queue) /\ queue \in Seq(Jobs) /\ thread[t].job = Idle
      /\ thread'[t].job = Head(queue)
      /\ Head(queue).kind = "flush" => thread'[t].stage = "wait"
      /\ \A u \in Thread \ {t} : thread'[u] = thread[u]
  BY DEF RecorderInv, Take, TypeOK
<1>2. Head(queue) = queue[1] /\ Len(queue') = Len(queue) - 1
      /\ \A i \in 1 .. Len(queue') : queue'[i] = queue[i + 1]
  BY <1>1
<1>3. ASSUME NEW s \in Session PROVE SamePool(s)
  <2>1. FlushOf(s) # Idle /\ FlushOf(s).kind = "flush"
    BY DEF FlushOf, Idle
  <2>2. ASSUME Queued(FlushOf(s)) PROVE Awaited(s)'
    <3>1. PICK i \in 1 .. Len(queue) : queue[i] = FlushOf(s)
      BY <2>2 DEF Queued
    <3>2. CASE i = 1
      BY <1>1, <1>2, <2>1, <3>1, <3>2 DEF Awaited
    <3>3. CASE i # 1
      <4>1. i - 1 \in 1 .. Len(queue') /\ queue'[i - 1] = FlushOf(s)
        <5>1. Len(queue) \in Nat
          BY <1>1
        <5>2. i - 1 \in 1 .. Len(queue') /\ (i - 1) + 1 = i
          BY <1>2, <3>3, <5>1
        <5> QED BY <1>2, <3>1, <5>2
      <4> QED BY <4>1 DEF Awaited, Queued
    <3> QED BY <3>2, <3>3
  <2>3. ASSUME NEW u \in Thread, thread[u].job = FlushOf(s) PROVE thread'[u] = thread[u]
    BY <1>1, <2>1, <2>3
  <2>4. Awaited(s) => Awaited(s)'
    BY <2>2, <2>3 DEF Awaited
  <2>5. \A w \in Writes : Done(w)' <=> Done(w)
    BY <1>1, DoneAfterTake
  <2> QED BY <2>3, <2>4, <2>5 DEF SamePool, AtMeta
<1>4. ASSUME NEW s \in Session PROVE FoundOf(s)'
  BY <1>1, <1>3, FoundStays DEF FoundInv, Untouched
<1> QED BY <1>4 DEF FoundInv

\* A job's step touches the pool only for its own session.
LEMMA PoolAfterStep ==
  ASSUME TypeOK, NEW t \in Thread, NEW stage, Free(t) \/ Proceed(t, stage), queue' = queue,
         NEW s \in Session,
         \/ thread[t].job \in Jobs /\ thread[t].job.of # s
         \/ thread[t].job = FlushOf(s) /\ thread[t].stage \notin {"wait", "meta"}
  PROVE  SamePool(s)
<1>1. \A u \in Thread \ {t} : thread'[u] = thread[u]
  BY DEF Free, Proceed, TypeOK
<1>2. Queued(FlushOf(s))' <=> Queued(FlushOf(s))
  BY DEF Queued
<1>3. ASSUME NEW u \in Thread, thread[u].job = FlushOf(s), thread[u].stage \in {"wait", "meta"}
      PROVE  thread'[u] = thread[u]
  BY <1>1, <1>3 DEF FlushOf
<1>4. (Awaited(s) => Awaited(s)') /\ \A u \in Thread : AtMeta(s, u) => AtMeta(s, u)'
  BY <1>2, <1>3 DEF Awaited, AtMeta
<1>5. ASSUME NEW w \in Writes, w.of = s PROVE Done(w)' <=> Done(w)
  <2>1. w # thread[t].job
    BY <1>5, WriteFacts DEF FlushOf
  <2> QED BY <2>1, DoneAfterStep
<1> QED BY <1>4, <1>5 DEF SamePool

\* A write's step: no flush past its wait has such a job left.
LEMMA WriteFound ==
  ASSUME RecorderInv, FoundInv, NEW t \in Thread, NEW w \in Writes, thread[t].job = w,
         NEW stage, Free(t) \/ Proceed(t, stage),
         UNCHANGED <<handler, rec, pending, queue>>,
         \A r \in Session : r # w.of => disk'[r] = disk[r],
         disk'[w.of].there = disk[w.of].there,
         HasFile(w.of)' => disk[w.of].there
  PROVE  FoundInv'
<1> DEFINE s == w.of
<1>1. TypeOK /\ s \in Session /\ w.kind = "write" /\ w \in Jobs
  BY WriteFacts DEF RecorderInv, Jobs
<1>2. ASSUME NEW r \in Session, r # s PROVE FoundOf(r)'
  <2>1. SamePool(r)
    BY <1>1, <1>2, PoolAfterStep
  <2>2. Untouched(r)
    BY <1>2 DEF Untouched
  <2> QED BY <2>1, <2>2, FoundStays DEF FoundInv
<1>3. \A u \in Thread \ {t} : thread'[u] = thread[u]
  BY <1>1 DEF Free, Proceed, TypeOK
<1>4. Awaited(s) => Awaited(s)'
  <2>1. w # FlushOf(s)
    BY <1>1 DEF FlushOf
  <2> QED BY <1>3, <2>1 DEF Awaited, Queued
<1>5. \A v \in Writes : ~ Done(v)' => ~ Done(v)
  <2>1. ~ Done(w)
    BY DEF Done, Running
  <2> QED BY <1>1, <2>1, DoneAfterStep
<1>6. Past(s)' => Past(s)
  BY <1>4 DEF Past
<1>7. ~ (rec[s].prepares = 1 /\ Past(s)')
  <2>1. ~ Done(w)
    BY DEF Done, Running
  <2> QED BY <1>1, <1>6, <2>1 DEF FoundInv, FoundOf
<1>8. FoundOf(s)'
  <2>1. FoundOf(s)
    BY <1>1 DEF FoundInv
  <2> QED BY <1>5, <1>6, <1>7, <2>1 DEF FoundOf
<1> QED BY <1>2, <1>8 DEF FoundInv

LEMMA FilesFound ==
  ASSUME RecorderInv, FoundInv, NEW t \in Thread, OpenFile(t) \/ CloseFile(t)
  PROVE  FoundInv'
<1>0. TypeOK /\ thread[t].job \in Writes
  BY ThreadJobs DEF RecorderInv, OpenFile, CloseFile, Doing
<1>w. PICK w \in Writes : thread[t].job = w
  BY <1>0
<1> DEFINE s == w.of
           f == w.file
<1>1. TypeOK /\ w \in Writes /\ s \in Session /\ f \in Files
  BY <1>0, <1>w, WriteFacts
<1>2. UNCHANGED <<handler, rec, pending, queue>>
  BY DEF OpenFile, CloseFile
<1>3. disk \in [Session -> Directories] /\ disk[s].file \in [Files -> Takes \cup {Absent, Partial}]
  BY <1>1 DEF TypeOK, Directories
<1>4. HasFile(s) => disk[s].there
  BY <1>1 DEF FoundInv, FoundOf
<1>5. ASSUME NEW v, disk' = [disk EXCEPT ![s].file[f] = v], v # Absent => disk[s].there,
             Free(t) \/ Proceed(t, "open")
      PROVE  FoundInv'
  <2>1. /\ disk'[s].there = disk[s].there /\ disk'[s].file = [disk[s].file EXCEPT ![f] = v]
        /\ \A r \in Session : r # s => disk'[r] = disk[r]
    BY <1>1, <1>3, <1>5 DEF Directories
  <2> HIDE DEF s, f
  <2>2. HasFile(s)' => disk[s].there
    <3>1. ASSUME NEW g \in Files, disk'[s].file[g] # Absent PROVE disk[s].there
      <4>1. CASE g = f
        BY <1>3, <1>5, <2>1, <3>1, <4>1
      <4>2. CASE g # f
        BY <1>3, <1>4, <2>1, <3>1, <4>2 DEF HasFile
      <4> QED BY <4>1, <4>2
    <3> QED BY <3>1 DEF HasFile
  <2> QED BY <1>1, <1>2, <1>w, <1>5, <2>1, <2>2, WriteFound DEF s
<1>6. CASE OpenFile(t)
  <2>1. CASE disk[s].there
    <3>1. disk' = [disk EXCEPT ![s].file[f] = Partial] /\ Proceed(t, "open")
      BY <1>w, <1>6, <2>1 DEF OpenFile
    <3> QED BY <1>5, <2>1, <3>1
  <2>2. CASE ~ disk[s].there
    <3>1. Free(t) /\ disk' = disk
      BY <1>w, <1>6, <2>2 DEF OpenFile
    <3>2. HasFile(s)' => disk[s].there
      BY <1>4, <3>1 DEF HasFile
    <3> QED BY <1>1, <1>2, <1>w, <3>1, <3>2, WriteFound
  <2> QED BY <2>1, <2>2
<1>7. CASE CloseFile(t)
  <2> DEFINE now == disk[s].file[f]
             v == IF now = Absent THEN Absent ELSE w.take
  <2>1. disk' = [disk EXCEPT ![s].file[f] = v] /\ Free(t)
    BY <1>w, <1>7 DEF CloseFile
  <2>2. v # Absent => disk[s].there
    BY <1>1, <1>4 DEF HasFile
  <2> HIDE DEF v
  <2> QED BY <1>5, <2>1, <2>2
<1> QED BY <1>6, <1>7

\* A flush's steps.
LEMMA FlushFound ==
  ASSUME RecorderInv, FoundInv, NEW t \in Thread,
         FlushWaits(t) \/ FlushMeta(t) \/ FlushStitch(t) \/ FlushSave(t)
  PROVE  FoundInv'
<1>1. TypeOK /\ thread[t].job \in Flushes
  BY ThreadJobs DEF RecorderInv, FlushWaits, FlushMeta, FlushStitch, FlushSave, Doing
<1>2. PICK s \in Session : thread[t].job = FlushOf(s)
  BY <1>1 DEF Flushes, FlushOf
<1>3. /\ thread[t].job.of = s /\ thread[t].job \in Jobs /\ handler[s] = "closed"
      /\ rec[s].prepares # 0 /\ FoundOf(s)
  <2>1. thread[t].job.of = s /\ thread[t].job.kind = "flush" /\ thread[t].job \in Jobs
    BY <1>1, <1>2 DEF FlushOf, Jobs
  <2>2. handler[s] = "closed"
    BY <2>1, FlushedIsClosed
  <2> QED BY <2>1, <2>2 DEF FoundInv, FoundOf
<1>4. disk \in [Session -> Directories] /\ disk[s] \in Directories
  BY <1>1 DEF TypeOK
<1>5. UNCHANGED <<handler, rec, queue>>
  BY DEF FlushWaits, FlushMeta, FlushStitch, FlushSave
<1>6. ASSUME NEW stage, Free(t) \/ Proceed(t, stage),
             \A r \in Session : r # s => disk'[r] = disk[r] /\ pending'[r] = pending[r],
             FoundOf(s)'
      PROVE  FoundInv'
  <2>1. ASSUME NEW r \in Session, r # s PROVE FoundOf(r)'
    <3>1. SamePool(r)
      BY <1>1, <1>3, <1>5, <1>6, <2>1, PoolAfterStep
    <3>2. Untouched(r)
      BY <1>5, <1>6, <2>1 DEF Untouched
    <3> QED BY <3>1, <3>2, FoundStays DEF FoundInv
  <2> QED BY <1>6, <2>1 DEF FoundInv
<1>7. \A w \in Writes : \A stage : Free(t) \/ Proceed(t, stage) => (Done(w)' <=> Done(w))
  <2>1. \A w \in Writes : w # thread[t].job
    BY <1>2, WriteFacts DEF FlushOf
  <2> QED BY <1>1, <1>5, <2>1, DoneAfterStep
<1>8. ASSUME FlushWaits(t) PROVE FoundInv'
  <2>1. /\ \A w \in pending[s] : Done(w)
        /\ pending' = [pending EXCEPT ![s] = {}]
        /\ \/ /\ disk[s].there /\ disk' = [disk EXCEPT ![s].meta = "partial"]
              /\ Proceed(t, "meta")
           \/ ~ disk[s].there /\ Free(t) /\ disk' = disk
    BY <1>3, <1>8 DEF FlushWaits
  <2>2. /\ pending'[s] = {} /\ disk'[s].there = disk[s].there /\ disk'[s].file = disk[s].file
        /\ \A r \in Session : r # s => disk'[r] = disk[r] /\ pending'[r] = pending[r]
    BY <1>1, <1>4, <2>1 DEF TypeOK, Directories
  <2>3. HasFile(s)' <=> HasFile(s)
    BY <2>2 DEF HasFile
  <2>4. rec[s].prepares <= 1 => \A w \in Writes : w.of = s => Done(w)'
    BY <1>3, <1>7, <2>1 DEF FoundOf
  <2>5. disk[s].there => Legible(s)'
    <3>1. ASSUME disk[s].there PROVE disk'[s].meta = "partial" /\ AtMeta(s, t)'
      <4>1. disk' = [disk EXCEPT ![s].meta = "partial"] /\ Proceed(t, "meta")
        BY <2>1, <3>1
      <4>2. disk'[s].meta = "partial"
        BY <1>4, <4>1 DEF Directories
      <4>3. thread'[t].job = thread[t].job /\ thread'[t].stage = "meta"
        BY <1>1, <4>1 DEF Proceed, TypeOK
      <4> QED BY <1>2, <4>2, <4>3 DEF AtMeta
    <3> QED BY <3>1 DEF Legible
  <2>6. FoundOf(s)'
    BY <1>3, <1>5, <2>2, <2>3, <2>4, <2>5 DEF FoundOf
  <2> QED BY <1>6, <2>1, <2>2, <2>6
<1>9. ASSUME FlushMeta(t) PROVE FoundInv'
  <2>1. /\ thread[t].stage = "meta" /\ pending' = pending /\ Proceed(t, "stitch")
        /\ disk' = [disk EXCEPT ![s].meta = IF @ = "partial" THEN "ended" ELSE @]
    BY <1>3, <1>9 DEF FlushMeta, Doing
  <2>2. /\ disk'[s].there = disk[s].there /\ disk'[s].file = disk[s].file
        /\ disk'[s].meta = (IF disk[s].meta = "partial" THEN "ended" ELSE disk[s].meta)
        /\ \A r \in Session : r # s => disk'[r] = disk[r] /\ pending'[r] = pending[r]
    BY <1>4, <2>1 DEF Directories
  <2>3. HasFile(s)' <=> HasFile(s)
    BY <2>2 DEF HasFile
  <2>4. Legible(s) => Legible(s)'
    BY <2>2 DEF Legible
  <2>5. Awaited(s) => Awaited(s)'
    <3>1. \A u \in Thread : thread[u].stage = "wait" => thread'[u] = thread[u]
      BY <1>1, <2>1 DEF Proceed, TypeOK
    <3> QED BY <1>5, <3>1 DEF Awaited, Queued
  <2>6. Past(s)' => Past(s)
    BY <1>5, <2>5 DEF Past
  <2>7. FoundOf(s)'
    BY <1>3, <1>5, <1>7, <2>1, <2>2, <2>3, <2>4, <2>6 DEF FoundOf
  <2> QED BY <1>6, <2>1, <2>2, <2>7
<1>10. ASSUME FlushStitch(t) \/ FlushSave(t) PROVE FoundInv'
  <2>1. /\ thread[t].stage \notin {"wait", "meta"} /\ pending' = pending
        /\ Free(t) \/ Proceed(t, "save")
        /\ \/ disk' = [disk EXCEPT ![s].replay = Stitched(s)]
           \/ disk' = [disk EXCEPT ![s].saved = TRUE]
           \/ disk' = disk
    BY <1>3, <1>10 DEF FlushStitch, FlushSave, Doing
  <2>2. /\ disk'[s].there = disk[s].there /\ disk'[s].file = disk[s].file
        /\ disk'[s].meta = disk[s].meta
        /\ \A r \in Session : r # s => disk'[r] = disk[r] /\ pending'[r] = pending[r]
    BY <1>4, <2>1 DEF Directories
  <2>3. SamePool(s)
    BY <1>1, <1>2, <1>5, <2>1, PoolAfterStep
  <2>4. FoundOf(s)'
    BY <1>3, <1>5, <2>1, <2>2, <2>3, FoundStays DEF Untouched
  <2> QED BY <1>6, <2>1, <2>2, <2>4
<1> QED BY <1>8, <1>9, <1>10

\* The cleanup leaves a directory as it is, or without files.
LEMMA CleanupFound ==
  ASSUME RecorderInv, FoundInv, UNCHANGED <<handler, rec, pending, queue, thread, sent>>,
         \/ disk' = disk
         \/ \E s : disk' = [disk EXCEPT ![s] = NoDirectory]
         \/ \E s : disk' = [disk EXCEPT ![s] = [NoDirectory EXCEPT !.there = TRUE]]
  PROVE  RecorderInv' /\ FoundInv'
<1>1. TypeOK /\ disk \in [Session -> Directories]
  BY DEF RecorderInv, TypeOK
<1>2. NoDirectory \in Directories
  BY RecorderAssumption DEF NoDirectory, Directories, NoReplay
<1>3. /\ disk' \in [Session -> Directories]
      /\ \A r \in Session : \/ disk'[r] = disk[r]
                            \/ \A f \in Files : disk'[r].file[f] = Absent
  <2>1. CASE disk' = disk
    BY <1>1, <2>1
  <2>2. ASSUME NEW s, NEW new \in Directories, disk' = [disk EXCEPT ![s] = new],
               \A f \in Files : new.file[f] = Absent
        PROVE  /\ disk' \in [Session -> Directories]
               /\ \A r \in Session : \/ disk'[r] = disk[r]
                                     \/ \A f \in Files : disk'[r].file[f] = Absent
    BY <1>1, <2>2
  <2> DEFINE emptied == [NoDirectory EXCEPT !.there = TRUE]
  <2>3. emptied \in Directories
    BY <1>2 DEF Directories
  <2>4. \A f \in Files : NoDirectory.file[f] = Absent /\ emptied.file[f] = Absent
    BY DEF NoDirectory
  <2>5. \/ disk' = disk
        \/ \E s : disk' = [disk EXCEPT ![s] = NoDirectory]
        \/ \E s : disk' = [disk EXCEPT ![s] = emptied]
    OBVIOUS
  <2> HIDE DEF NoDirectory, emptied
  <2>6. CASE \E s : disk' = [disk EXCEPT ![s] = NoDirectory]
    <3>1. PICK s : disk' = [disk EXCEPT ![s] = NoDirectory]
      BY <2>6
    <3> QED BY <1>2, <2>2, <2>4, <3>1
  <2>7. CASE \E s : disk' = [disk EXCEPT ![s] = emptied]
    <3>1. PICK s : disk' = [disk EXCEPT ![s] = emptied]
      BY <2>7
    <3> QED BY <2>2, <2>3, <2>4, <3>1
  <2> QED BY <2>1, <2>5, <2>6, <2>7
<1>4. RecorderInv'
  BY <1>1, <1>3 DEF RecorderInv, TypeOK, Counted, OwnPending, FlushOfClosed, WritesFirst
<1>5. ASSUME NEW r \in Session PROVE FoundOf(r)'
  <2>1. FoundOf(r) /\ SamePool(r)
    BY PoolAlone DEF FoundInv
  <2>2. CASE disk'[r] = disk[r]
    BY <2>1, <2>2, FoundStays DEF Untouched
  <2>3. CASE \A f \in Files : disk'[r].file[f] = Absent
    <3>1. ~ HasFile(r)'
      BY <2>3 DEF HasFile
    <3>2. Past(r)' => Past(r)
      BY DEF Past, Awaited, Queued
    <3> QED BY <2>1, <3>1, <3>2 DEF FoundOf, SamePool
  <2> QED BY <1>3, <2>2, <2>3
<1> QED BY <1>4, <1>5 DEF FoundInv

LEMMA FoundStarts == CInit => RecorderInv /\ FoundInv
<1> SUFFICES ASSUME CInit PROVE RecorderInv /\ FoundInv
  OBVIOUS
<1>1. Init /\ RecorderInv
  BY RecorderStarts DEF CInit
<1>2. ASSUME NEW s \in Session PROVE FoundOf(s)
  <2>1. /\ handler[s] = "new" /\ rec[s].prepares = 0 /\ pending[s] = {}
        /\ \A f \in Files : disk[s].file[f] = Absent
    BY <1>1 DEF Init, NoRecorder, NoDirectory
  <2>2. \A w \in Writes : Done(w)
    BY <1>1, WriteFacts DEF Init, Done, Running, Queued
  <2> QED BY <2>1, <2>2 DEF FoundOf, Past, HasFile
<1> QED BY <1>1, <1>2 DEF FoundInv

LEMMA FoundStep == RecorderInv /\ FoundInv /\ [CNext]_allVars => (RecorderInv /\ FoundInv)'
<1> SUFFICES ASSUME RecorderInv, FoundInv, [CNext]_allVars PROVE (RecorderInv /\ FoundInv)'
  OBVIOUS
<1>1. CASE RecorderStep
  <2>1. Next /\ RecorderInv'
    BY <1>1, RecorderKeeps DEF RecorderStep
  <2>2. FoundInv'
    BY <2>1, HandlersFound, TakeFound, FilesFound, FlushFound DEF Next, JobStep
  <2> QED BY <2>1, <2>2
<1>2. ASSUME UNCHANGED vars PROVE (RecorderInv /\ FoundInv)'
  BY <1>2, CleanupFound DEF vars
<1>3. CASE \E old \in 0 .. Cardinality(Session), limit \in Limits : StartRound(old, limit)
  BY <1>2, <1>3 DEF StartRound
<1>4. CASE ChooseExpired \/ ChooseOldest \/ EndRound
  BY <1>2, <1>4 DEF ChooseExpired, ChooseOldest, EndRound
<1>5. CASE Unlink
  BY <1>5, CleanupFound DEF Unlink
<1>6. CASE Rmdir
  <2>2. UNCHANGED <<handler, rec, pending, queue, thread, sent>>
    BY <1>6 DEF Rmdir
  <2>3. CASE Empty(Victim.of)
    <3>1. disk' = [disk EXCEPT ![Victim.of] = NoDirectory]
      BY <1>6, <2>3 DEF Rmdir
    <3> QED BY <2>2, <3>1, CleanupFound
  <2>4. CASE ~ Empty(Victim.of)
    <3>1. disk' = disk
      BY <1>6, <2>4 DEF Rmdir
    <3> QED BY <2>2, <3>1, CleanupFound
  <2> QED BY <2>3, <2>4
<1>7. CASE UNCHANGED allVars
  BY <1>2, <1>7 DEF allVars
<1> QED BY <1>1, <1>3, <1>4, <1>5, <1>6, <1>7 DEF CNext

\* Of a session prepared once, audio that is on the disk when the flush is over is
\* in a directory with a meta.json that can be read, whatever the cleanup removed
\* in the middle of the recording: the cleanup of old sessions, which does not know
\* which sessions are being recorded, leaves nothing it could never find again.
THEOREM CleanupLosesNothing == CSpec => []AudioIsFound
<1>1. RecorderInv /\ FoundInv => AudioIsFound
  <2> SUFFICES ASSUME RecorderInv, FoundInv, NEW s \in Session, handler[s] = "closed",
                      rec[s].prepares = 1, Done(FlushOf(s)), HasFile(s)
               PROVE  Readable(s)
    BY DEF AudioIsFound, HasFile, FlushOf
  <2>1. \A t \in Thread : thread[t].job # FlushOf(s)
    BY DEF Done, Running
  <2>2. Past(s)
    BY <2>1 DEF Past, Awaited, Done
  <2>3. disk[s].there /\ Legible(s)
    BY <2>2 DEF FoundInv, FoundOf
  <2> QED BY <2>1, <2>3 DEF Legible, AtMeta, Readable
<1> QED BY <1>1, FoundStarts, FoundStep, PTL DEF CSpec
==============================================================================
