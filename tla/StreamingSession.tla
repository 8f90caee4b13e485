--------------------------- MODULE StreamingSession ---------------------------
(***************************************************************************)
(* A half-duplex session on the model: streaming_prefill, the generator of *)
(* streaming_generate, the one-shot variants of both, the sliding window   *)
(* over rounds, and the speculative snapshot that takes an answer back     *)
(* when the user speaks on (model/services/session.py, streaming.py,       *)
(* speculation.py, behind HalfDuplexView).                                 *)
(*                                                                         *)
(* The KV cache is the sequence of its tokens; a token is named by the     *)
(* prefill or answer it came with (turn), which the code does not know: it *)
(* has the history of lengths only.  One caller at a time uses the model,  *)
(* as its handlers do; what happens when they do not is the subject of     *)
(* WorkerSessions.                                                         *)
(***************************************************************************)
EXTENDS Integers, Sequences

CONSTANTS
  SessionId,      \* session ids clients use
  High, Low,      \* text_window_high_tokens, text_window_low_tokens
  Bos,            \* tokens fed before an answer ("<|im_end|>...assistant...")
  Lengths,        \* token counts of a prefilled message, and of a piece of an answer
  Drift,          \* what a text may gain or lose in tokens when encoded again
  StaleRollbacks, \* whether callers roll back when they have prefilled since
  MaxTurns,       \* bound: prefills and answers in a behaviour
  MaxAnswer       \* bound: an answer this long gets no further piece

ASSUME SessionAssumption ==
  /\ High \in Nat /\ Low \in Nat /\ Low <= High
  /\ Bos \in Nat \ {0}
  /\ Lengths \subseteq Nat \ {0}
  /\ Drift \subseteq Int
  /\ StaleRollbacks \in BOOLEAN
  /\ MaxTurns \in Nat /\ MaxAnswer \in Nat

VARIABLES
  model,      \* the session's state in the model: see Fresh
  snapshot,   \* _speculative_snapshot
  gen,        \* the generator of streaming_generate, if it is suspended
  turns,      \* prefills and answers so far
  saved,      \* what the model was when the snapshot was taken
  since,      \* whether it has been prefilled or reset since
  gained      \* what the answers' texts have gained beyond their opening tokens

vars == <<model, snapshot, gen, turns, saved, since, gained>>

NoSession == "none"
Stray == "stray"      \* whose the tokens are of a message whose prefill raised
NoRound == -1
NoSnapshot == [there |-> FALSE]
NoGenerator == [on |-> FALSE]

(***************************************************************************)
(* reset_session.  audio counts the segments in audio_past_key_values (kv) *)
(* and in the streaming mel processor (idx): the snapshot has both.        *)
(***************************************************************************)
Started(id, idx) ==
  [sid |-> id, cache |-> <<>>, history |-> <<>>, preserve |-> 0,
   next |-> 0, pending |-> NoRound, newUser |-> TRUE, generated |-> FALSE,
   audio |-> [kv |-> 0, idx |-> idx]]

Fresh == Started(NoSession, 0)

Init ==
  /\ model = Fresh
  /\ snapshot = NoSnapshot
  /\ gen = NoGenerator
  /\ turns = 0
  /\ saved = Fresh
  /\ since = FALSE
  /\ gained = 0

-----------------------------------------------------------------------------
(***************************************************************************)
(* The history and the window.                                             *)
(***************************************************************************)
Sums(history) ==
  LET sum[n \in 0 .. Len(history)] ==
        IF n = 0 THEN 0 ELSE sum[n - 1] + history[n].len
  IN  sum
Lens(history) == Sums(history)[Len(history)]

\* What the first entries of a history leave of it, with those of the rounds R only.
Selected(history, R) ==
  LET kept[n \in 0 .. Len(history)] ==
        IF n = 0 THEN <<>>
        ELSE IF history[n].round \in R THEN Append(kept[n - 1], history[n]) ELSE kept[n - 1]
  IN  kept
OfRounds(history, R) == Selected(history, R)[Len(history)]

\* Mutant of Without: the answer of the round stays.
WithoutQuestion(history, r) ==
  SelectSeq(history, LAMBDA e : e.round # r \/ e.type = "assistant")

OfRound(history, r) == OfRounds(history, {r})
Without(history, r) == OfRounds(history, Nat \ {r})

HasSystem(history, r) == \E i \in DOMAIN history :
                           history[i].round = r /\ history[i].type = "system"

\* _register_chunk
Register(m, type, len, round) ==
  IF len <= 0 THEN m
  ELSE [m EXCEPT !.history = Append(@, [len |-> len, type |-> type, round |-> round]),
                 !.preserve = IF type = "system" /\ len > @ THEN len ELSE @]

\* Mutant of Kept: the protected prompt is forgotten.
KeptNothing(m) == 0

\* drop_tokens_from_cache: length tokens behind the first preserve ones.
Kept(m) == IF m.preserve < Len(m.cache) THEN m.preserve ELSE Len(m.cache)
CutBehind(cache, keep, length) ==
  SubSeq(cache, 1, keep) \o SubSeq(cache, keep + length + 1, Len(cache))

\* _drop_next_round: the first round without a system entry that the cache is
\* long enough for.
Droppable(m) ==
  {i \in DOMAIN m.history :
     /\ ~ HasSystem(m.history, m.history[i].round)
     /\ Lens(OfRound(m.history, m.history[i].round)) <= Len(m.cache) - Kept(m)}

DropRound(m, r) ==
  [m EXCEPT !.cache = CutBehind(@, Kept(m), Lens(OfRound(m.history, r))),
            !.history = Without(@, r)]

DropNextRound(m) ==
  LET first == CHOOSE i \in Droppable(m) : \A j \in Droppable(m) : i <= j
  IN  DropRound(m, m.history[first].round)

\* _enforce_text_window: above High, rounds go until Low is reached.
Dropped(m) == IF Len(m.cache) <= Low \/ Droppable(m) = {} THEN m ELSE DropNextRound(m)
AfterDrops(m) ==
  LET after[n \in 0 .. Len(m.history)] == IF n = 0 THEN m ELSE Dropped(after[n - 1])
  IN  after
Enforced(m) ==
  IF High = 0 \/ Len(m.cache) <= High THEN m ELSE AfterDrops(m)[Len(m.history)]

-----------------------------------------------------------------------------
(***************************************************************************)
(* Prefill.                                                                *)
(***************************************************************************)
Tokens(n, who, turn) == [i \in 1 .. n |-> [who |-> who, turn |-> turn]]

Fed(m, n, who) == [m EXCEPT !.cache = @ \o Tokens(n, who, turns + 1)]

\* The forward pass and the window around it.
Extended(m, n, type) ==
  LET before == Enforced([m EXCEPT !.pending = m.next])
  IN  Enforced(Register(Fed(before, n, type), type, n, m.next))

\* streaming_prefill: another session id starts from a reset model; a message
\* of a user has an audio segment, any other one clears the audio cache.
Base(id) == IF model.sid # id THEN Started(id, 0) ELSE model

Told(m, role) ==
  [m EXCEPT !.newUser = role # "user", !.audio.kv = IF role = "user" THEN @ ELSE 0]

Heard(m, first, role) ==
  IF role = "user"
  THEN [Told(m, role) EXCEPT !.audio = [kv |-> IF first THEN 0 ELSE @.kv + 1,
                                        idx |-> @.idx + 1]]
  ELSE Told(m, role)

Prefilled(m) ==
  /\ turns < MaxTurns
  /\ turns' = turns + 1
  /\ model' = m
  /\ gen' = NoGenerator
  /\ since' = TRUE
  /\ UNCHANGED <<snapshot, saved, gained>>

StreamingPrefill(id, role, n) ==
  Prefilled(Extended(Heard(Base(id), model.sid # id, role), n, role))

\* How far a prefill gets that raises: the role is told, the audio is counted and
\* perhaps encoded; or the round is pending and the window enforced, and the
\* forward pass may have grown the cache of a session that has begun, in place,
\* by tokens that nobody registers.  (A new session's cache is the forward
\* pass's own until it returns.)
LeftHalfWay(id, role, n) ==
  LET told   == Told(Base(id), role)
      before == Enforced([Heard(Base(id), model.sid # id, role) EXCEPT !.pending = Base(id).next])
  IN  {told, before}
      \cup {[told EXCEPT !.audio = [kv |-> @.kv + k, idx |-> @.idx + 1]] :
              k \in IF role = "user" THEN {0, 1} ELSE {}}
      \cup (IF model.sid = id THEN {Fed(before, n, Stray)} ELSE {})

PrefillRaises(id, role, n) == \E m \in LeftHalfWay(id, role, n) : Prefilled(m)

\* non_streaming_prefill: all messages at once, on a reset model.
NonStreamingPrefill(id, n) == Prefilled(Extended(Started(id, 0), n, "user"))

NonStreamingPrefillRaises(id) ==
  \E round \in {NoRound, 0} : Prefilled([Started(id, 0) EXCEPT !.pending = round])

\* non_streaming_generate registers the tokens it feeds, not those it generates.
NonStreamingGenerate(n) ==
  /\ model.cache # <<>>
  /\ turns < MaxTurns
  /\ turns' = turns + 1
  /\ model' = [Register(Fed(model, Bos + n, "assistant"), "assistant", Bos, model.next)
                 EXCEPT !.pending = model.next, !.newUser = TRUE, !.generated = TRUE]
  /\ gen' = NoGenerator
  /\ UNCHANGED <<snapshot, saved, since, gained>>

-----------------------------------------------------------------------------
(***************************************************************************)
(* streaming_generate is a generator: the caller asks for one piece after  *)
(* the other, and may leave it suspended for good.                         *)
(***************************************************************************)

\* _save_speculative_snapshot has the cache's and the history's length only.
Snapshot(m) ==
  [there |-> TRUE, cacheLen |-> Len(m.cache), historyLen |-> Len(m.history),
   newUser |-> m.newUser, generated |-> m.generated, next |-> m.next,
   pending |-> m.pending, audio |-> m.audio]

\* Up to the first piece: the snapshot, then the resets.  The host round is the
\* one of the last prefill.
Generate(audio, speculative) ==
  /\ model.cache # <<>>
  /\ turns < MaxTurns
  /\ turns' = turns + 1
  /\ snapshot' = IF speculative THEN Snapshot(model) ELSE snapshot
  /\ saved' = IF speculative THEN model ELSE saved
  /\ since' = (since /\ ~ speculative)
  /\ model' = [model EXCEPT !.newUser = TRUE, !.generated = TRUE,
                            !.audio = [kv |-> 0, idx |-> 0]]
  /\ gen' = [on |-> TRUE, audio |-> audio, round |-> model.pending, said |-> 0]
  /\ UNCHANGED gained

\* chunk_generate: the first piece feeds the opening tokens as well.  The cache
\* grows in place, before the caller sees the piece.
Piece(n) ==
  /\ gen.on
  /\ gen.said < MaxAnswer
  /\ gen' = [gen EXCEPT !.said = @ + n]
  /\ model' = [model EXCEPT !.cache =
       @ \o Tokens(IF gen.said = 0 THEN Bos + n ELSE n, "assistant", turns)]
  /\ UNCHANGED <<snapshot, turns, saved, since, gained>>

\* Mutant of FinalizeRound: whether there is a round is not asked.
FinalizeRoundAlways(len) ==
  [Register(model, "assistant", len, gen.round) EXCEPT !.pending = NoRound, !.next = @ + 1]

\* _finalize_round, with the length of the text encoded again.  Answers without
\* audio end without it.
FinalizeRound(len) ==
  IF gen.round = NoRound
  THEN [model EXCEPT !.pending = NoRound]
  ELSE [Register(model, "assistant", len, gen.round) EXCEPT !.pending = NoRound, !.next = @ + 1]

Excess(drift) == IF drift > Bos THEN drift - Bos ELSE 0

GenerateEnds(drift) ==
  /\ gen.on
  /\ gen.said > 0 /\ gen.said + drift > 0
  /\ model' = IF gen.audio THEN FinalizeRound(gen.said + drift) ELSE model
  /\ gained' = IF gen.audio /\ gen.round # NoRound THEN gained + Excess(drift) ELSE gained
  /\ gen' = NoGenerator
  /\ UNCHANGED <<snapshot, turns, saved, since>>

\* An answer whose first token ends it has no hidden states to join: it raises,
\* with the opening tokens in the cache.
GenerateRaises ==
  /\ gen.on
  /\ gen.said = 0
  /\ model' = [model EXCEPT !.cache = @ \o Tokens(Bos, "assistant", turns)]
  /\ gen' = NoGenerator
  /\ UNCHANGED <<snapshot, turns, saved, since, gained>>

-----------------------------------------------------------------------------
(***************************************************************************)
(* restore_speculative_snapshot: between two pieces of the answer or after *)
(* it.  A cache or history that is shorter than it was stays as it is.     *)
(***************************************************************************)
Upto(seq, n) == IF Len(seq) > n THEN SubSeq(seq, 1, n) ELSE seq

\* Mutant of Restored: the host round stays what the answer has made it.
RestoredLater(m, s) ==
  [m EXCEPT !.cache = Upto(@, s.cacheLen), !.history = Upto(@, s.historyLen),
            !.newUser = s.newUser, !.generated = s.generated, !.next = s.next,
            !.audio = s.audio]

Restored(m, s) ==
  [m EXCEPT !.cache = Upto(@, s.cacheLen), !.history = Upto(@, s.historyLen),
            !.newUser = s.newUser, !.generated = s.generated, !.next = s.next,
            !.pending = s.pending, !.audio = s.audio]

Rollback ==
  /\ snapshot.there
  /\ since => StaleRollbacks
  /\ model' = Restored(model, snapshot)
  /\ snapshot' = NoSnapshot
  /\ gen' = NoGenerator
  /\ UNCHANGED <<turns, saved, since, gained>>

ClearRollbackPoint ==
  /\ snapshot.there
  /\ snapshot' = NoSnapshot
  /\ UNCHANGED <<model, gen, turns, saved, since, gained>>

\* reset_session: the snapshot and the streaming processor are not touched.
ResetSession ==
  /\ model' = Started(NoSession, model.audio.idx)
  /\ gen' = NoGenerator
  /\ since' = TRUE
  /\ UNCHANGED <<snapshot, turns, saved, gained>>

Next ==
  \/ \E id \in SessionId, role \in {"system", "user", "assistant"}, n \in Lengths :
       StreamingPrefill(id, role, n) \/ PrefillRaises(id, role, n)
  \/ \E id \in SessionId, n \in Lengths : NonStreamingPrefill(id, n)
  \/ \E id \in SessionId : NonStreamingPrefillRaises(id)
  \/ \E n \in Lengths : NonStreamingGenerate(n)
  \/ \E audio, speculative \in BOOLEAN : Generate(audio, speculative)
  \/ \E n \in Lengths : Piece(n)
  \/ \E drift \in Drift : GenerateEnds(drift)
  \/ GenerateRaises
  \/ Rollback
  \/ ClearRollbackPoint
  \/ ResetSession

Spec == Init /\ [][Next]_vars
-----------------------------------------------------------------------------
Types == {"system", "user", "assistant"}

TokenType == [who : Types \cup {Stray}, turn : 1 .. MaxTurns]
EntryType == [len : Nat \ {0}, type : Types, round : Nat]
ModelType ==
  [sid : SessionId \cup {NoSession}, cache : Seq(TokenType), history : Seq(EntryType),
   preserve : Nat, next : Nat, pending : Nat \cup {NoRound},
   newUser : BOOLEAN, generated : BOOLEAN, audio : [kv : Nat, idx : Nat]]

\* Every length the session keeps stays a natural number, and every field keeps
\* its type.
TypeOK ==
  /\ model \in ModelType
  /\ snapshot.there => snapshot.cacheLen \in Nat /\ snapshot.historyLen \in Nat
  /\ turns \in 0 .. MaxTurns
  /\ gained \in Nat

\* The system prompt at the head of the cache, the positions of its tokens and
\* the turn they came in, and what starts over without it.
Prompt(m) ==
  {<<i, m.cache[i].turn>> : i \in {j \in DOMAIN m.cache :
     m.cache[j].who = "system" /\ m.cache[j].turn = m.cache[1].turn}}

StartsOver ==
  \/ ResetSession
  \/ \E id \in SessionId, n \in Lengths : NonStreamingPrefill(id, n)
  \/ \E id \in SessionId : NonStreamingPrefillRaises(id)
  \/ model'.sid # model.sid

\* The prompt a session begins with, a system message whose prefill has ended, is
\* never dropped nor cut, whatever the window drops, whichever prefill or answer
\* raises, and however often answers are taken back.
SystemKept ==
  [][Prompt(model) # {} /\ ~ StartsOver => Prompt(model') = Prompt(model)]_vars

\* The window works on the history's lengths alone: they never claim more tokens
\* than the cache has but for what the answers' texts have gained, encoded again,
\* beyond the opening tokens that nobody registers.  (_drop_round gives up a round
\* only if the cache has as many tokens behind the prompt as the round claims.)
HistoryInCache == Lens(model.history) <= Len(model.cache) + gained

\* An answer that is taken back leaves nothing: the model is what it was when
\* streaming_generate was called, token for token.
RollbackRestores == [][Rollback => model' = saved]_vars
=============================================================================
