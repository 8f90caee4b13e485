# Formal models of the MiniCPM-o demo server

This directory specifies and verifies the stateful core of the repository: a
gateway process that queues requests and leases workers to them, and worker
processes that each own one model on one GPU and hold long interactive sessions
on it.  The specifications are in TLA+; TLC checks them on small instances and
TLAPS proves the safety properties for every instance.

Paths are relative to `src/src/minicpmo_demo/` unless they start with `tests/` or
`docs/` (then to `src/`).

## 1. Inventory

### 1.1 Processes and how they interact

```
 browser ──HTTP/WebSocket──► gateway (one asyncio loop) ──HTTP/WebSocket──► worker 0..n-1
                             WorkerPool: queue, leases        (one asyncio loop + threads,
                             health check task ──GET /health──► one model, one GPU each)
```

A request reaches the gateway, which enqueues it, waits until it is granted a
worker, relays its traffic to that worker and releases the worker.  The worker
does not know about leases: it has its own status, which the gateway polls, and
looks at it before it lets a session in.  A session's model calls run in threads
of the default executor while the event loop goes on.

### 1.2 Components

| Component | State | Operations | What is hard | What makes it correct |
|---|---|---|---|---|
| **Gateway worker pool** `gateway/worker_pool.py` | status and dispatch flag per worker, ordered queue of tickets with futures and positions | `enqueue`, `cancel`, `_dispatch_next`, `release_worker`, health refresh, `start`, `stop` | probe replies applied after the fact, grants meeting cancellations and disconnects in one turn of the loop | exclusive leases, nobody lost, FIFO among the queued, no waiting beside an idle worker |
| **Gateway endpoints** `server/gateway.py` | where each handler is suspended, which worker it holds | wait loops with 2–3 s timeouts, queue notifications, relay, release | every await may find the client gone; a worker may be held by then | a lease ends with its handler, and only with it |
| **Worker process: sessions** `server/worker.py` | status, per-session fence (`finalize_done`), pause watchdog | `/chat`, `/ws/chat`, `/ws/half_duplex`, `/ws/duplex` with prepare, chunk, prompt update, pause, resume, stop, cleanup | threads that outlive handlers, looking at the status and taking it are different steps, deferred finalize | one session at a time, finalize before the next prefill, sessions do not disturb each other, worker idle in the end |
| **Unified processor and modes** `core/processors/unified.py`, `model/modeling_minicpmo_unified.py` | current mode, model session | `set_*_mode`, views per mode | a switch resets state under whoever uses it | a switch happens only between sessions |
| **Duplex capability** `model/capabilities/duplex.py` | stop and break events, pending logits, pending finalize, audio and token2wav buffers | `prepare`, `update_system_prompt`, `streaming_prefill`, `streaming_generate`, `finalize_unit` | early returns and failures after part of a unit has been fed | every token in the cache belongs to the prompt or to a registered unit |
| **Stream decoder and KV window** `model/runtime/stream_decoder.py`, `cache.py` | KV cache, unit history, protected lengths, carried-over context | `feed`, `register_*`, `enforce_window[_with_context]`, `update_system_prompt`, `_rebuild_cache_with_previous` | lengths kept beside the cache, positions re-encoded after every drop | layout and positions consistent after any sequence, prompt never dropped, cache bounded |
| **Half-duplex session on the model** `model/services/session.py`, `streaming.py`, `speculation.py` | KV cache, history of lengths by round, protected prompt, snapshot | prefill and generate, streaming and not; rollback; reset; sliding window by rounds | lengths of texts encoded again beside the cache; a generator left suspended; a snapshot of lengths only | the prompt stays, lengths and cache differ by what texts gain and no more, an answer taken back leaves nothing |
| **Answer stream** `model/services/streaming.py`, `model/runtime/text_generation.py`, `tts_streaming.py` | token left over from a chunk, audio tokens short of a chunk, the vocoder's look-ahead | LLM chunk, audio token, vocoder batch, the last flush | three buffers, each with an end case of its own | each token spoken once, in order, with its hidden state; all text told |
| **Half-duplex connection** `server/worker.py` | VAD, turn index, stop event, chunk queue, recorder | prepare, audio, a turn of prefill and generation, stop | a generating thread and a handler joined by a queue; stops and hang-ups in between | segments as they were spoken, a timeline that is true, stops heeded |
| **Voice activity detection** `vad/vad.py` | samples left over, speech so far, silence | `feed`, `reset` | pieces of audio cut anywhere | segments are whole, disjoint and in order |
| **Session recorder** `server/session_recorder.py` | chunk index, timeline, jobs of a shared four-thread pool | record, flush, finalize | a flush job waits for jobs of its own pool | every flush ends, the replay is the timeline |
| **Session cleanup** `server/session_cleanup.py` | directories by age and size | rounds in the gateway's process | deletes beside active recorders | audio on the disk can be found again |
| **Reference audio registry** `gateway/ref_audio_registry.py` | JSON registry and audio files | upload, delete, load | crash between the file and the registry | registry and files agree after a restart |
| **Neural network components** `model/components/*.py`, `model/runtime/*` | weights | forward passes | numerics | — |
| **Legacy model** `model/legacy/*.py` | | not used by the servers | | — |
| **Schemas, configuration, tool calls** `core/`, `config.py`, `paths.py` | | validation, parsing | | — |
| **Tools** `tools/*.py` | | scripts | | — |

`PROJECT.json` lists for each component its sources, whether it is modelled and
why not, and under `hazards` the lines where this code is hard to test, with the
properties that watch over them.

## 2. Plan

The order is by how much depends on the behaviour and how little a test reaches it.

1. **WorkerPool** — gateway queue and leases, with proofs.  *Done.*
2. **WorkerSessions** — sessions on one worker, with proofs.  *Done.*
3. **StreamDecoder** — the KV window, layout and positions of the cache, with proofs.
   *Done.*
4. **LeaseService** — what the pool promises, and the proof that WorkerPool
   implements it.  *Done.*
5. **The other machines of a session** — recorder and cleanup, the half-duplex
   connection with its VAD, its session on the model, and the stream of an answer.
   *Done*, with proofs.
6. **Left** — RefAudioRegistry (a crash between two writes), the vocoder's buffer of a
   duplex session, the queue's waiting-time estimate as a pure operator against a
   reference definition; `/clear_cache`; the worker's side of the lease instead of the
   external gateway of WorkerSessions.
7. **Proofs** — every safety property that a passing run checks is proved (section
   5).  *Left*: that `WorkerSessions` keeps what the external worker of `WorkerPool`
   promises, as a theorem about the composition.

## 3. Modules

| Module | Contents |
|---|---|
| `WorkerPool` | pool, health check and the leasing half of every gateway endpoint |
| `LeaseService` | the abstract service the pool implements |
| `WorkerPoolProofs`, `WorkerPoolRefinement` | its inductive invariant and theorems; that it implements `LeaseService` |
| `WorkerSessions`, `WorkerSessionsProofs` | the worker's handlers, their threads, its status and model modes |
| `StreamDecoder`, `StreamDecoderProofs` | the KV cache of a duplex session, its window, and the calls that change it |
| `SessionRecorder`, `SessionRecorderProofs` | the recorders of a worker's sessions and their pool of threads |
| `SessionCleanup` | `SessionRecorder` composed with the cleanup that deletes its directories; its proof is in `SessionRecorderProofs` |
| `StreamingSession`, `StreamingSessionProofs` | a half-duplex session on the model, its window by rounds, its snapshot |
| `SpeechStream`, `SpeechStreamProofs` | an answer from the language model to the listener |
| `VoiceActivity` | the streaming VAD, as operators |
| `HalfDuplex`, `HalfDuplexProofs` | a half-duplex connection, composed with `VoiceActivity` |
| `MC*` | instances for TLC |

### 3.1 WorkerPool

The gateway runs on one event loop, so an action is one stretch of code between
two awaits.  `status`, `dispatched` are the fields of `WorkerConnection`; `queue`
and `position` those of the pool and its tickets; `future[c]`, `pc[c]` and
`connected[c]` are the future, the suspension point and the connection of client
`c`'s handler; `phase` and `probing` are the health check task.

| Action | Code |
|---|---|
| `RequestImmediate`, `RequestQueued` | `enqueue` (a full queue refuses: the client stays `away`) |
| `WaitGranted`, `WaitCancelled` | the wait loop's `wait_for(shield(future))` returns or raises |
| `ChatPollsDisconnected` | `/chat`: the poll between two waits finds the client gone, `cancel` |
| `NotifyPosition`, `NotifyDone`, `NotifyFails` | the queue notifications of the WebSocket endpoints, their send and its failure |
| `AnnounceDone`, `AnnounceFails` | the send of `queue_done` |
| `Pause`, `Resume` | the gateway's own status on a duplex pause or resume |
| `Release` | the `finally` block: `release_worker`, which dispatches |
| `RefreshStart`, `ProbeReply`, `RefreshEnd` | one round of `_health_check_loop`; each reply is applied at its own time, in any order |
| `AdminCancel`, `StopHealthCheck`, `CancelQueued` | the cancel endpoint and the two halves of `stop()` |
| `Disconnect` | the client goes away |

A probe's reply is any member of `Replies`, whatever the worker does: a reply
describes the worker at some earlier time, and nothing in the code orders it
with leases.  A relay may end at any time (`Release`), but only that of a client that
hung up must: `/ws/duplex` has no time limit (`Unlimited`).  `_dispatch_next` is an operator within the actions that call it,
because it is synchronous; it is defined by what it does (the first entries of
the queue get the lowest idle workers) instead of its loop.

`LeaseService` is what is left when tickets, statuses, probes and connections are
taken away: the clients that wait, in order, and who holds what.  Under the mapping
of `Lease` in WorkerPool a client waits while its ticket is queued, and holds a
worker from the moment its future is resolved until the release.  `Serve` may grant
any prefix of the queue, because one release or one end of a refresh round can free
several workers; `Take` lets a newcomer pass the queue, because `enqueue` does
(section 6).

### 3.2 WorkerSessions

One worker.  `status` is what `/health` reports; `pc`, `open`, `policy`, `fence`,
`dog` and `gen` belong to a connection's handler; `mode`, `duplex` and `context`
are the model, seen as whose tokens and whose prompt it holds.  A model call runs
in a thread: the action that ends it carries its effect and resumes the handler
that awaits it.  Overlap of threads is therefore visible as two `pc`s in `Working`
at once (or a `gen` or a lowered `fence`), and it is checked, not assumed away.

What is assumed, and where from:

- The gateway opens a connection only while it holds the worker's lease, and the
  lease is exclusive: the theorem `LeasesAreExclusive` of WorkerPool.
- A duplex client prepares before it sends chunks or prompt updates (a chunk
  before that is answered with an error, worker.py:1799).
- `ws.accept` may suspend, a send may fail, messages buffered before a hang-up are
  still processed.
- A connection's name is used again only when no thread of it is left.
- `Fails` lets every model call raise; `Timeouts` lets the pause watchdog fire and
  the gateway give up on a request the worker still works on.

### 3.3 StreamDecoder

One duplex session's cache, token by token.  A token is the pair of what it was fed
for (the prompt's prefix, its previous content, its suffix, or a unit's number) and
the position its rotary encoding has; nothing else of a token matters to eviction.
`dec` is the `StreamDecoder` object, a record with one field per attribute, and the
methods are operators from record to record; `logits`, `pending` and `stop` are the
fields of `DuplexCapability` that decide whether a call does anything; `mode` is
chosen once, as in the constructor.

| Action | Code |
|---|---|
| `Prepare` | `prepare`: `reset`, feed the prompt, register it (`Prepared`) |
| `PrepareRaises` | the same when it raises: part of the prefix is fed and nothing registered, or, in context mode, the suffix is registered and not fed; the session goes on (worker.py:1608) |
| `Prefill` | `streaming_prefill`: `register_unit_start`, `<unit>`, images, audio |
| `PrefillShort` | the same when it returns early for want of audio, or raises |
| `Generate`, `GenerateRaises` | `streaming_generate`, which leaves a unit to finalize, or raises before it does |
| `Finalize` | `finalize_unit`: the closing tokens, `register_unit_end`, `enforce_window[_with_context]` |
| `FinalizeRaises` | the forward pass of `_rebuild_cache_with_previous` raises |
| `Update` | `update_system_prompt`, which finalizes a pending unit first |
| `Stop`, `Cleanup` | `set_session_stop`, `DuplexView.cleanup` |

Calls do not overlap: that is what WorkerSessions checks (`FenceHolds`,
`OneSession`).  A prefill that has left logits is followed by its generate before
anything else happens (worker.py:1714), which is why `MayStart` and `Update` ask for
`~logits`.  The lengths of the units are kept as running sums (`upto`), which makes
`sum(u["length"])` a field access.  `gone`, `spoilt` and `dec.halfway` are histories:
everything said in units that have left, whether some call, from the last prepare on,
has given a prompt or a unit up half way, and whether that prepare itself did.  A
prefill needs no prompt: the code does not ask for one.  `DropUnits` is the loop of `enforce_window` in one step; its
positions come out the same because realignments add up.

A unit that says something and then listens is remembered as having said nothing,
since `is_listen` is the last token's (duplex.py:954).  Whether the model ever does
that is the constant `EarlyEnds`; with TRUE, `MemoryKept` is violated.

### 3.4 SessionRecorder and SessionCleanup

A recorder's methods run on the event loop and hand every file to `_io_pool`, which
all sessions share; `finalize` hands it the flush, which waits in its thread for the
session's other jobs.  A take is a chunk as the client sent it, and a file holds
nothing, a part, or a take: that is enough to tell which audio the replay is made of.
Of a recorder, `saved` and `before` are histories: the writes it has handed to the pool,
and those that earlier recorders of the same directory had.  `Replays` says in their
terms what a replay may have for an entry: its own take; another one saved under the
same name, because a step failed or the client prepared again; half of one only if an
earlier recorder saved it, since nobody waits for its writes.

| Action | Code |
|---|---|
| `Prepare` | `/ws/duplex` prepare: a new `DuplexSessionRecorder`, which makes the directory and `meta.json` |
| `Receive`, `Recorded`, `StepFails` | a chunk is saved before its step; result, entry and index after it; a step that raises leaves the index |
| `Leave` | the end of the handler: `finalize` submits the flush |
| `Take`, `OpenFile`, `CloseFile` | a thread of the pool takes a job; a write truncates its file, then completes it |
| `FlushWaits`, `FlushMeta`, `FlushStitch`, `FlushSave` | `_wait_pending_io`, `meta.json`, `_finalize_hook`, `recording.json` |

`SessionCleanup` adds a round of `cleanup_sessions`, one directory and one
half of `rmtree` at a time: `StartRound` (the scan), `ChooseExpired`, `ChooseOldest`,
`Unlink`, `Rmdir`, `EndRound`.  The recorder's steps go on in between; nothing
in the code keeps them away.  All files of a directory go in one step, subdirectories
are not distinguished, and which directories are expired is a nondeterministic prefix
of those by age.

### 3.5 StreamingSession

The cache is a sequence of tokens, each named by the prefill or answer it came with,
which the code does not know: `history` has lengths only.  Comparing the two is the
point of the module.

| Action | Code |
|---|---|
| `StreamingPrefill`, `NonStreamingPrefill` | `streaming_prefill`, `non_streaming_prefill`, with `_enforce_text_window` before and after the forward pass |
| `PrefillRaises`, `NonStreamingPrefillRaises` | the same up to where they raise: the role told, the audio counted, the round pending, or the cache grown by tokens that nobody registers |
| `Generate`, `Piece`, `GenerateEnds`, `GenerateRaises` | the generator of `streaming_generate`: up to the first piece, a piece, `_finalize_round`, an answer that is empty |
| `NonStreamingGenerate` | `non_streaming_generate` |
| `Rollback`, `ClearRollbackPoint` | `restore_speculative_snapshot`, `clear_speculative_snapshot` |
| `ResetSession` | `reset_session` |

A suspended generator is dropped by the next call.  `Drift` is the difference between
an answer's tokens and those of its text encoded again, any set of integers.  `saved`,
`since` and `gained` are histories; `gained` is what the registered texts have more than
their answers and the tokens that open these, which nobody registers.  Left out: a
one-shot generation that raises, and that a cache grown by the first prefill of a
session is lost if it raises (the model then has none, as before).  `StaleRollbacks` says whether callers may roll back across another
prefill; the protocol that core/schemas/streaming.py:109 describes does not (no server
calls rollback yet).

### 3.6 SpeechStream

One answer.  Text tokens and audio tokens are numbered, so that losing, repeating and
reordering are visible.

| Action | Code |
|---|---|
| `TextChunk`, `SpeechChunk`, `ChunkRaises` | `chunk_generate` and the arithmetic on `yield_chunk_token_ids` and hidden states; an answer that starts with a terminator |
| `Sample`, `SampleEnd`, `SamplesOut` | `generate_with_buffer`: an audio token, the end token, the limit |
| `Taken`, `Stream` | the vocoder's buffer in `audio_chunk_generator` |
| `Flush`, `TextOver` | what is left when the generator is exhausted |

`held` is the number of tokens whose characters are not complete yet (the
replacement character at the end of a decoded text).

### 3.7 HalfDuplex and VoiceActivity

`VoiceActivity` is `StreamingVAD.feed` as an operator from a VAD and a piece of audio
to the VAD after it and the segment that ends there; a sample is named by its place in
the client's audio and the network's verdict on a window is an input.  `HalfDuplex` is
the handler of `/ws/half_duplex`, the client and the thread that generates.

| Action | Code |
|---|---|
| `SendAudio`, `SendPrepare`, `SendStop`, `HangUp` | the client |
| `StopAll` | `/half_duplex/stop` |
| `ReadDisconnect`, `Timeout`, `ReadStop`, `Leave` | the ends of the receive loop and the `finally` block |
| `ReadPrepare`, `PrepareEnds`, `PrepareRaises`, `GuardEnds` | prepare, the initial guard |
| `SkipAudio`, `HearAudio` | a piece of audio, and the turn it may start |
| `PrefillEnds`, `PrefillRaises`, `ReceiveChunk`, `ReceiveDone`, `ReceiveError` | the turn |
| `MakeChunk`, `CheckStop`, `AnswerEnds`, `AnswerRaises` | `_run_generate`, in its thread |

`after` is a history: the chunks made since a stop was asked for in this turn.

## 4. Runs

| Run | Instance | Distinct states | Shows |
|---|---|---|---|
| `pool` | 3 clients (2 chat, 1 duplex), 2 workers, queue of 2 | 67 872 | exclusive leases, FIFO, no waiting beside an idle worker; it implements `LeaseService`; a queued request leaves the queue unless every worker is orphaned or kept by a duplex client; a stale busy reply is corrected |
| `pool_orphan` | the same | violation | a worker leased to nobody |
| `sessions` | 2 duplex, streaming chat, chat; nothing fails | 6 924 | one session at a time, finalize before the next step, sessions kept apart but for threads left over |
| `sessions_rough` | duplex, half-duplex; failures and timeouts | 61 355 | the fence, a worker that is idle when nobody is in, and that the session of a client that is gone ends |
| `sessions_pause` | 2 duplex, timers | violation | the watchdog lets the next session in beside the cleanup |
| `window` | basic and context mode, four units a session | 1 387 408 | positions whatever fails; prompt and layout unless `prepare` raised half way; units in their places and a bounded cache while neither prompt nor unit is given up; an exact memory |
| `recorder` | 2 sessions, 2 threads, 2 takes, 2 prepares | 250 805 | a flush waits for running jobs only, every flush ends, the replay has a take for each entry, its own where the index was used once |
| `cleanup` | 2 sessions, 2 threads, 2 takes, a limit of 3 files, 1 round | 1 497 132 | audio that is left on the disk has a `meta.json` |
| `streaming_session` | 2 session ids, marks 5 and 3, 4 turns | 1 470 503 | the prompt survives, lengths exceed the cache by no more than texts gained, a rollback restores |
| `speech` | chunks of 3 text and 5 audio tokens, 4 chunks | 20 811 | each word and each sound once and in order, all text told |
| `half_duplex` | 12 samples in pieces of 3, windows of 2 | 291 183 | whole, disjoint segments; a true timeline; stops heeded; the handler ends when its client is gone |
| `half_stop` | the same, stops during a prefill, 1 prepare | violation | a stop that is lost |

**Bounds.**  Three clients and two workers are the least with a queue behind a
full pool in which a head, a middle and a worker change independently; the two
ways of waiting (poll and notify) and both dispatch statuses that differ in
behaviour occur.  Clients come back for ever, so histories are not bounded.
`Replies` has an idle and a busy status.  In
WorkerSessions two duplex sessions and the chats occur beside each other, and
duplex beside half-duplex with everything failing; connection names
are used again, so session sequences are unbounded too.  Clients that are alike are
interchangeable, hence the symmetry of `sessions` and `cleanup` (none in runs with
liveness).

In StreamDecoder a session has at most four units (`LastUnit`) and starts none in a
cache longer than 13 (`Room`), but prepares come again and again.  Units are 4 to 6
tokens long and prompts 1 to 3, the marks are 11 and 8: the basic window drops one
unit or several at once, the context window drops from the second unit on and
truncates its memory of two tokens, and the prompt grows and shrinks before, between
and after drops.  Mode `off`, the servers' default, differs by never dropping, so the
run leaves it out; the proofs include it.

Two sessions and two threads are the recorder's smallest pool that two flushes can
occupy; two prepares of one session are the case of a replaced recorder, and a step
that fails reuses an index.  The cleanup's limit is below what two sessions
write, so that eviction happens at every stage of a recorder.
In StreamingSession four turns are a system prompt, a question, an answer and another
question, and messages of one or two tokens against marks of 5 and 3 make the window
drop in each of them; a text that loses a token makes the lengths fall short of the
cache, one that gains two against an opening of one makes them exceed it.  SpeechStream keeps the proportions of the code's constants
(look-ahead shorter than a chunk, samples for two chunks and a rest); an
answer ends at each position of a chunk.  In HalfDuplex pieces of three against
windows of two leave each possible rest; twelve samples are two segments, which they
allow in one alignment only (the proof is for any audio); two prepares replace a VAD in
use.

**Deadlock.**  `CHECK_DEADLOCK FALSE` where the system may stop: the gateway after
`stop()` (`pool`), a connection that has ended (`half_duplex`), an answer that
is over (`speech`), and recordings and sessions on the model whose bounded input is used up
(`recorder`, `cleanup`, `streaming_session`).  A worker never ends and a duplex
session can always be prepared anew: `sessions*` and `window` check deadlock.

**Fairness.**  Weak fairness of what the event loop and the executor do: ready
coroutines are resumed, timers fire, threads end, sends return or raise.  A lease ends
where the code limits it: `/api/chat` has a request timeout, `/ws/chat` relays one
answer, a half-duplex session its `timeout_s`, `/v1/realtime` a watchdog.  The relay of
`/ws/duplex` has no limit, so it ends only once its client has hung up, and `QueuedLeaves`
excepts workers whose duplex client stays (`HeldOpen`) beside orphaned ones.  A worker
that is probed for ever answers `idle` infinitely often (strong fairness of that
reply): that its sessions end is the worker's part, `GoneSessionEnds`.  A handler
that reads messages of a client that hung up reads the end of them: strong
fairness of leaving.  The recorder's threads are weakly fair each (`Take` or
`JobStep`); in HalfDuplex the handler and the generating thread.  Clients, administrators, time
limits and the cleanup get none.

## 5. Proofs

### 5.1 WorkerPoolProofs and WorkerPoolRefinement

For any numbers of clients and workers, any assignment of endpoints, any queue
limit and any set of probe replies.  The invariant `IInv` is the conjunction of the
state invariants of the module (those that `pool` checks, and
`LeasedNotIdle`, `HandlerHolds`) and `NobodyYet`, which says that
during `start()` nobody has asked for anything.  They support each other:
exclusiveness needs that a dispatched worker is not idle; that needs that a
handler that left holds nothing; dispatching the head of the queue needs that
queued tickets are pending and unique; `WorkConserving` must survive the replies
of the first round, when there is no dispatch, hence `NobodyYet`.  One lemma per
action, `Invariance`, then the theorems `TypeCorrect`, `LeasesAreExclusive`,
`NoRequestLost`, `NobodyWaitsForNothing`, `PositionsExact` and
`LeaseEndsWithItsHolder` (an action property, from the invariant).

`FirstComeFirstServed` is the other action property: a ticket is granted only with or
after all those ahead of it, and nobody in the queue moves back.  A queued ticket's
recorded position is its place (`QueueInOrder`), so the steps are compared by places:
`DispatchIsFifo` says what a dispatch does with any queue, `DispatchAllIsFifo` applies it
to the whole one and `CancelIsFifo` to the one without the ticket that leaves.

`PoolImplementsLease`: the initial states map to `LeaseService`'s, and, given `IInv`,
each action of WorkerPool maps to one of its steps or to a stutter.  The one lemma
with content is that `_dispatch_next` is `Serve`: the tickets it pops are a prefix
of the queue and the workers it gives them are distinct and free.

### 5.2 WorkerSessionsProofs

For any set of connections of any kinds.  Three invariants, by what they assume:

- `Always` (nothing): types, places each kind can be in, the fence raised whenever
  the handler works on the cache and a finalize only under the deferred policy.
  Gives `TypeCorrect`, `FenceProtects` and `NeverLeftBusy`.
- `WhenPolite` (no timers, no half-duplex): the lease covers the session and the
  status tells of it between the accept and the end.  Gives `OneSessionAtATime`.
- `WhenCalm` (and no call fails): the prompt in the model is the session's own, and
  a pending unit is about to be finalized.  Gives `EveryUnitFinalized` and
  `SessionsKeepApart`.

The assumptions are needed: `sessions_pause` has timers, and section 6 says what a
half-duplex connection and a failing call do.

### 5.3 StreamDecoderProofs

For any lengths of prompts, units, marker and windows, any number of units and all
three modes, the bounds `LastUnit` and `Room` being arbitrary; a suffix is assumed to
be no longer than the shortest unit (`SuffixAssumption`: the servers' have one or two
tokens, a unit four).  What is preserved is
`Sound`: positions are exact; unless `prepare` raised half way the prompt is where
`_system_preserve_length` says and its parts are in order; the parts' lengths add up; and
the units of the history fit behind it, but for a suffix that was registered and not
fed.  The last is what makes every cut right and needs that the running sums never
decrease (`Ordered`); the assumption is for the first rebuild after such a `prepare`,
which gives up a unit at least as long as what is missing.  There is a lemma for each method (`FeedSound`, `UnitEndSound`,
`DropSound`, `ForgetSound`, `RebuildSound`, `UpdatedSound`), all of those that cut
resting on one lemma about a new head before a moved tail (`SpliceIs`); then one step
per action in `StepIInv`.  The inductive invariant adds `Ready`: a unit that may still
be finalized starts behind the registered ones.  It gives `TypeCorrect`,
`PositionsAlwaysExact`, `PromptIsProtected`, `LayoutAlwaysKept`, `UnitsAlwaysFit` and
`UnitsAlwaysBounded`, the last of which justifies that `Evicts` lets the context
window drop one unit where the code has a loop.

Three more theorems add to `IInv`:

- `UnitsStayAligned`.  `AlignInv` says, as long as no prompt or unit is given up, that
  the cache is the prompt and the units of the history (`Aligned`), and that a unit is
  open just when there is something to generate or to finalize (`UnderWay`): an
  open unit at any other time would be one that no finalize accounts for.  Every cut is
  described once, by what lies behind it (`Behind`), and `CutAligned` turns that into the
  places of the units that remain.
- `WindowAlwaysBounded`, from the same invariant: of a drop that takes every unit only
  the prompt is left because no token belongs to nothing.
- `MemoryIsKept`, which assumes `~EarlyEnds`.  `MemoryInv` says that a unit that listens
  has said nothing, and in context mode that the previous content is the end of
  `gone`.  That truncating after each unit is the same as truncating once is the
  lemma `LastOfMore`.  The invariant holds also after a finalize that raised, so that the
  second attempt neither loses nor repeats what was said.

### 5.4 SessionRecorderProofs

For any sets of sessions and threads.  A flush can only wait for jobs that run,
because a queue is first in, first out and a session submits its flush behind its
writes; that holds for a pool of any size.  The invariant `RecorderInv` says it in
five parts: types; chunk indices are counted (`Counted`); a session's pending jobs
are its own writes (`OwnPending`); a flush exists only of a session that is closed
(`FlushOfClosed`); and no pending write of a session stands behind its flush, nor is
it queued once the flush has been taken (`WritesFirst`).  It gives `RecorderTypeOK`
and `RecorderFlushWaits`.

`RecorderReplay` needs what the files hold, where an index may be used again and a
directory have several recorders.  Whatever a file holds goes back to a write that was
handed to the pool: a take to one with that take, half a take to one under way (`Held`).
Every write the pool still has was handed to it by a recorder of that directory (`Given`),
the present one's is in the list of pending jobs, and one that is done has left its file
(`Kept`).  With that go: the directory exists from the
first prepare on (`Begun`), a file that is being written exists (`Opened`), past its wait
a flush waits for nothing (`Waited`), and each entry of the timeline has a write of its
own (`Entered`).  So the flush finds each entry's file, and finds it whole unless a write
of an earlier recorder is under way (`Faithful`, `Replayed`).  Their conjunction is
`ReplayInv`.

`CleanupLosesNothing` is about `SessionCleanup`, whose steps keep `RecorderInv` since they
change directories only.  `FoundInv` says of each session: one that is prepared
once has every write that is not done in its list; past its wait the flush has emptied
that list, so that no file appears any more; files are only in directories; and while
there are files then, the `meta.json` that the flush wrote is there, or about to be
complete (`Legible`), because the cleanup unlinks them together.  The property takes
a session prepared once, for the reason that section 6 gives.

### 5.5 SpeechStreamProofs

For any sizes of chunks and limits, with as much silence as look-ahead.  `SpeechInv`
says where everything is: the words are the tokens generated so far, less the one left
over when the answer goes on (`InOrder`, `LeftOver`); what has been spoken, the
vocoder's buffer and the tokens of TTS are, one after the other, the silence and all
audio tokens made (`Speaking`); and the client never has more text than there are
words (`Held`).  It gives `SpeechTypeOK`, `SpeechEachWordOnce`, `SpeechEachSoundOnce` and
`SpeechAllTextTold`.

### 5.6 HalfDuplexProofs

For any sizes of windows and silences, any audio in pieces of any kind, and any number
of turns and prepares.  `TypeInv` and `Told` say where handler and generating
thread can be at once and that the chunks of an answer are, in order, in the recording
and then in the queue between the two.  Three invariants rest on them, one for each
subject:

- `TurnsInv`: turns are recorded with growing indices and all their chunks
  (`TimelineIsTrue`).
- `StopInv`: after a stop a generation makes at most the chunk it is making
  (`StopIsHeeded`).  It assumes `~EarlyStops`; a stop during the prefill is
  the one `half_stop` shows to be lost.
- `HearingInv`: the unread messages carry the samples after some p up to the last
  one sent (`Carry`); the leftover of the VAD ends with p and follows the windows it
  has taken (`Followed`), its speech is whole so far (`VadOk`), and everything it has or
  will get is later than every segment answered (`Later`).  It gives
  `SegmentIsWhole` and `SegmentsAreApart`.

The VAD takes its windows in a recursive function.  `NatSetInduction` states induction
for a set of natural numbers, which is a formula the provers can instantiate;
`FeedWindowOk` says that one window keeps `FedOk`, `LoopIs` that the function is what its
definition says, and `FeedOk` carries the first over any number of windows.  `Speaking` is
the speech of which no end has come, whose silence at the end is shorter than the minimum.

### 5.7 StreamingSessionProofs

For any marks, any lengths of prompts, questions and answers, and any set of integers
as the drift between an answer's tokens and its text encoded again.  `TypeCorrect` assumes nothing.  The
others assume `~StaleRollbacks` (section 6) and follow from `SessionInv`: a
session is `Sound`, i.e. the history's lengths exceed the cache by no more than
`gained`, no token is of a turn
to come, and the prompt is among the tokens that are preserved (`PromptInside`); what has
been generated of an answer is in no entry of the history yet (`AnswerUnregistered`); and
while a snapshot can be used the model is the one saved with tokens and entries of an
answer appended, and otherwise differs only in what the snapshot restores (`SnapshotKept`).

`_enforce_text_window` is a loop of drops, modelled by a recursive function.  Each drop is
`Trimmed`, a relation that is transitive, and induction over the number of drops carries it
to their end; the sums over the history's entries (`Sums`) are treated the same way, with
`Recursion` giving the function that the definition chooses.  The theorems are
`HistoryIsInCache`, `PromptIsKept` and `AnswerIsTakenBack`; the last two are action
properties.

### 5.8 Only model-checked

Liveness (`QueuedLeaves`, `StaleBusyRecovers`, `GoneSessionEnds`, `FlushEnds`,
`GoneEnds`) is out of the prover's reach.  The violations are counterexamples
and need no proof.  Induction over data is available only in the form the previous two
sections use, over a set or a function that is named: a theorem of the library that
takes an operator cannot be instantiated.

## 6. Where the code differs from what it says

With a run, and in `PROJECT.json` with the comment or document it contradicts:

- **Orphaned worker** (`pool_orphan`).  A client that hangs up between the grant
  and `queue_done` leaves its worker dispatched for ever.
- **Pause timeout** (`sessions_pause`).  The watchdog sets the status to idle and
  only then closes the connection; the next session may be in before the paused
  one has cleaned up.
- **A stop that is lost** (`half_stop`).  The stop event is cleared after the prefill
  of a segment, when the client has already been told that an answer is generated.

Met while modelling, without a run of their own:

- Gateway: `enqueue` gives an idle worker to a newcomer without looking at the queue
  (a probe reply may have made it idle while others wait for the end of the round);
  `GET /sessions` reads `cached_hash`, which a `WorkerConnection` does not have
  (gateway.py:1060).
- Sessions: `/ws/half_duplex` takes the worker without looking whether it is idle
  (worker.py:1150), and the cleanup of the session before then wipes its context; a
  step that fails after its unit is pending starts no finalize, and every later
  prefill of the session is refused (worker.py:1818); a chat's generate thread
  outlives its handler and disturbs the next session (worker.py:1078), which
  `SessionUndisturbed` excuses; `prepare` does
  not wait for the fence; an `audio_chunk` before any `prepare` reads a name that is
  not bound (worker.py:1799).  With a half-duplex connection in the instance
  of `sessions` TLC finds `SessionUndisturbed` violated, and with calls that fail
  `FinalizedBeforeStep`; no passing run covers those hazards.  A chat the gateway gives
  up on while the worker goes on is not in the instance of `sessions_rough`; the proofs
  of `FenceProtects` and `NeverLeftBusy` are for connections of any kinds.
- Decoder: a prefill with too little audio has already started a unit and fed its
  opening token (duplex.py:745), which no unit accounts for afterwards; the decoder's
  own consistency check then reports an error.  duplex.py:318 says of registering the
  prompt "滑窗时保护这部分不被移除" (the sliding window does not remove this part), but a
  `prepare` that raises after feeding it (the reference audio's embedding, the
  suffix) leaves the prompt in the cache with nothing protected; the error is reported
  and the session goes on.  In context mode the same may leave a suffix registered
  that was never fed, and the window then counts a unit's tokens as the prompt's.  A unit that speaks and then listens is
  forgotten (`EarlyEnds`).
- Recorder and cleanup: a second prepare replaces the recorder without finalizing it,
  and the new recorder's flush does not wait for the old one's writes: with the
  condition `prepares = 1` left out and two prepares TLC finds `AudioIsFound` violated
  by a write that comes after the flush, into a directory emptied in between.  For the
  same reason the replay may stitch half of a file that the old recorder is still
  writing, and a step that fails leaves its audio under an index that the next
  chunk uses again: two writes to one file, of which the later to end stays
  (`ReplayIsTimeline` says what the replay can be made of then).  A live session's directory may be evicted, and one removed between the flush's
  `meta.json` and its stitching is left empty for good if `recording.json` meets it.
- Half-duplex: the VAD's minimum of speech has no effect while it is shorter than the
  minimum of silence, since the silence at the end counts as speech; the VAD is not reset after
  a turn that fails; a turn that is answered with text only is never finalized as a
  round; a round that contains the system prompt is never dropped; the check of
  `is_generating` (worker.py:1286) cannot fail, because the handler reads nothing
  during a turn.
- Window by rounds: the text of an answer is encoded again and registered with that
  length (streaming.py:803); where it has more tokens than the answer and its opening
  together, the history claims more than the cache has.  A round whose claim is longer
  than what lies behind the prompt is not dropped, and the next one is tried.
- Rollback: a snapshot that is restored after another prefill truncates the newer
  cache to the older length (`StaleRollbacks = TRUE` violates `RollbackRestores`).

## 7. Not modelled

The contents of messages, HTTP errors and their wording; the waiting-time
estimates shown to users; `/clear_cache`; the reference audio registry; static files,
presets and downloads; inference itself, which is a call that ends or raises;
the neural network's layers, the processors that turn text, images and sound into
tensors, and the vendored legacy model, which are most of the repository's
lines and have no state that outlives a call or are not run by the servers;
everything marked `not_modelled` in `PROJECT.json` with its reason.
