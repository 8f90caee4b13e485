--------------------------- MODULE StreamDecoder ---------------------------
(***************************************************************************)
(* The KV cache of a duplex session and its sliding window: StreamDecoder  *)
(* (model/runtime/stream_decoder.py, cache.py) under the calls that        *)
(* DuplexCapability (model/capabilities/duplex.py) makes to it.            *)
(*                                                                         *)
(* The cache holds the system prompt and then one unit per second of the   *)
(* conversation: what the model was shown, what it said, and the tokens    *)
(* that close the unit.  The decoder keeps lengths beside the cache and    *)
(* cuts the cache by them, re-encoding the rotary position of every token  *)
(* that moves.  A token is modelled by the part of the cache it was fed    *)
(* for and the position it is encoded with.                                *)
(*                                                                         *)
(* The calls of a session come one after the other (WorkerSessions checks  *)
(* that they do), so an action is a whole call.                            *)
(***************************************************************************)
EXTENDS Integers, Sequences

CONSTANTS
  Modes,        \* the values of sliding_window_mode to consider
  High, Low,    \* basic_window_high_tokens, basic_window_low_tokens
  MaxUnits,     \* context_max_units
  PreviousMax,  \* context_previous_max_tokens
  Marker,       \* the length of the marker before the previous content
  Prefixes,     \* lengths of a prompt's prefix, reference audio included
  Suffixes,     \* lengths of a prompt's suffix
  Inputs,       \* lengths of a unit's images and audio
  Speeches,     \* numbers of tokens fed while a unit is generated
  EarlyEnds,    \* whether the model may end its turn and listen in one unit
  LastUnit,     \* bound of the model: units per session
  Room          \* bound of the model: no unit starts in a longer cache

ASSUME ModeAssumption   == Modes \subseteq {"off", "basic", "context"}
ASSUME LimitAssumption  == /\ High \in Nat /\ Low \in Nat /\ Low <= High
                           /\ MaxUnits \in Nat /\ PreviousMax \in Nat
                           /\ Marker \in Nat
ASSUME LengthAssumption == /\ Prefixes \subseteq Nat \ {0} /\ Suffixes \subseteq Nat
                           /\ Inputs \subseteq Nat \ {0} /\ Speeches \subseteq Nat
ASSUME SwitchAssumption == EarlyEnds \in BOOLEAN
ASSUME BoundAssumption  == LastUnit \in Nat /\ Room \in Nat

VARIABLES
  mode,     \* sliding_window_mode, which the capability is constructed with
  dec,      \* the decoder, a record of the fields named in Decoder
  logits,   \* pending_logits is not None: a prefill waits for its generate
  pending,  \* _pending_finalize: whether there is one, what was said, listening
  stop,     \* session_stop_event
  gone,     \* history: everything said in units that have left the window
  spoilt    \* history: whether a call has given a unit or a prompt up half way

vars == <<mode, dec, logits, pending, stop, gone, spoilt>>

\* What a token in the cache was fed for: a part of the prompt or a unit's id.
Prefix == -3
Previous == -2
Suffix == -1

\* Two tokens close a unit: the terminator and </unit> (ls_mode "explicit", the
\* one the servers construct).
Closing == 2

\* <unit>, one token of images or audio, and the closing tokens.
ShortestUnit == 2 + Closing

\* The servers' suffixes are "<|audio_end|><|im_end|>" and "<|im_end|>".
ASSUME SuffixAssumption == \A s \in Suffixes : s <= ShortestUnit

Slot == [of : Int, pos : Nat]
Unit == [id : Nat, upto : Nat, said : Nat, listen : BOOLEAN]
Decoder ==
  [cache    : Seq(Slot),  \* self.cache
   units    : Seq(Unit),  \* _unit_history; upto is the sum of the lengths so far
   next     : Nat,        \* _next_unit_id
   open     : BOOLEAN,    \* _pending_unit_id is not None (it is _next_unit_id)
   start    : Nat,        \* _pending_unit_start_cache_len
   preserve : Nat,        \* _system_preserve_length
   prefix   : Nat,        \* _preserve_prefix_length
   prevLen  : Nat,        \* _previous_content_length
   suffix   : Nat,        \* the length of _suffix_token_ids
   offset   : Nat,        \* _position_offset
   has      : BOOLEAN,    \* _has_previous
   previous : Seq(Nat),   \* _previous_token_ids after the marker: whose token
   halfway  : BOOLEAN]    \* history: the last prepare() raised half way

TypeOK ==
  /\ mode \in {"off", "basic", "context"}
  /\ dec \in Decoder
  /\ logits \in BOOLEAN
  /\ pending \in [on : BOOLEAN, said : Nat, listen : BOOLEAN]
  /\ stop \in BOOLEAN
  /\ gone \in Seq(Nat)
  /\ spoilt \in BOOLEAN

\* StreamDecoder.reset
Empty ==
  [cache |-> <<>>, units |-> <<>>, next |-> 0, open |-> FALSE, start |-> 0,
   preserve |-> 0, prefix |-> 0, prevLen |-> 0, suffix |-> 0, offset |-> 0,
   has |-> FALSE, previous |-> <<>>, halfway |-> FALSE]

NotPending == [on |-> FALSE, said |-> 0, listen |-> FALSE]

Init ==
  /\ mode \in Modes
  /\ dec = Empty
  /\ logits = FALSE
  /\ pending = NotPending
  /\ stop = FALSE
  /\ gone = <<>>
  /\ spoilt = FALSE
-----------------------------------------------------------------------------
(***************************************************************************)
(* The cache.                                                              *)
(***************************************************************************)

\* n new tokens, encoded from position p on.
Slots(of, n, p) == [i \in 1..n |-> [of |-> of, pos |-> p + i - 1]]

\* Mutant of Realign: the shift is applied twice.
RealignTwice(slots, shift) ==
  [i \in DOMAIN slots |-> [slots[i] EXCEPT !.pos = @ + 2 * shift]]

\* realign_rotary_suffix: the encoding is taken back by the old positions and
\* redone by the new ones, so each token moves by their difference.
Realign(slots, shift) ==
  [i \in DOMAIN slots |-> [slots[i] EXCEPT !.pos = @ + shift]]

\* feed: positions go on from the length of the cache.
Feed(d, of, n) == [d EXCEPT !.cache = @ \o Slots(of, n, Len(@))]

\* The lengths of the first i units, added up; sum(u["length"]) is Total.
Upto(d, i) == IF i = 0 THEN 0 ELSE d.units[i].upto
Total(d)   == Upto(d, Len(d.units))

\* The unit history without its first n entries.
Later(d, n) ==
  [i \in 1..(Len(d.units) - n) |->
     [d.units[i + n] EXCEPT !.upto = @ - Upto(d, n)]]

\* The tokens a unit said.
Said(u) == [i \in 1..u.said |-> u.id]

\* The last n elements of s.
LastOf(s, n) == IF Len(s) <= n THEN s ELSE SubSeq(s, Len(s) - n + 1, Len(s))

\* len(_previous_token_ids): the marker comes with the first content.
PreviousLen(d) == IF d.has THEN Marker + Len(d.previous) ELSE 0
-----------------------------------------------------------------------------
(***************************************************************************)
(* Registering the prompt and the units.                                   *)
(***************************************************************************)

RegisterSystemPrompt(d) == [d EXCEPT !.preserve = Len(d.cache)]

\* Called between prefix and suffix; s is the length of the suffix to come.
RegisterSystemPromptWithContext(d, s) ==
  [d EXCEPT !.prefix = Len(d.cache), !.suffix = s, !.preserve = Len(d.cache) + s]

RegisterUnitStart(d) == [d EXCEPT !.open = TRUE, !.start = Len(d.cache)]

\* Called after </unit> has been fed, so the unit is not empty; without a
\* register_unit_start it only warns.
RegisterUnitEnd(d, said, listen) ==
  IF ~d.open THEN d
  ELSE [d EXCEPT
          !.units = Append(@, [id |-> d.next, said |-> said, listen |-> listen,
                               upto |-> Total(d) + Len(d.cache) - d.start]),
          !.open = FALSE, !.start = 0, !.next = @ + 1]
-----------------------------------------------------------------------------
(***************************************************************************)
(* The sliding window.                                                     *)
(***************************************************************************)

\* _drop_next_unit, n times: the first n units leave the cache and the history,
\* and what follows them moves up to the prompt.
DropUnits(d, n) ==
  LET dropped == Upto(d, n)
      rest == SubSeq(d.cache, d.preserve + dropped + 1, Len(d.cache))
  IN [d EXCEPT !.cache = SubSeq(@, 1, d.preserve) \o Realign(rest, -dropped),
               !.offset = @ + dropped,
               !.units = Later(d, n)]

\* Mutant of Forget: truncation keeps the oldest tokens instead of the latest.
ForgetLatest(d) ==
  LET u == d.units[1]
      new == IF u.listen THEN <<>> ELSE Said(u)
      all == d.previous \o new
  IN [d EXCEPT !.units = Later(d, 1),
               !.has = @ \/ new # <<>>,
               !.previous = IF Len(all) <= PreviousMax THEN all
                            ELSE SubSeq(all, 1, PreviousMax)]

\* _drop_unit_with_context and the first half of _update_previous: the oldest
\* unit leaves the history, and what it said is appended to the previous content,
\* of which the latest PreviousMax tokens are kept.
Forget(d) ==
  LET u == d.units[1]
      new == IF u.listen THEN <<>> ELSE Said(u)
  IN [d EXCEPT !.units = Later(d, 1),
               !.has = @ \/ new # <<>>,
               !.previous = LastOf(@ \o new, PreviousMax)]

\* Mutant of Rebuild: the new previous content is not counted as protected.
RebuildUncounted(d) ==
  LET keep == Total(d)
      total == Len(d.cache)
      p == PreviousLen(d)
      head == IF p = 0 /\ d.prevLen = 0 THEN SubSeq(d.cache, 1, d.prefix + d.suffix)
              ELSE SubSeq(d.cache, 1, d.prefix)
                   \o Slots(Previous, p, d.prefix + d.offset)
                   \o Slots(Suffix, d.suffix, d.prefix + d.offset + p)
      tail == SubSeq(d.cache, total - keep + 1, total)
  IN [d EXCEPT !.cache = head \o Realign(tail, Len(head) - (total - keep)),
               !.prevLen = p]

\* Mutant of Rebuild: the units move by what was dropped, whatever came in.
RebuildDisplaced(d) ==
  LET keep == Total(d)
      total == Len(d.cache)
      p == PreviousLen(d)
      head == IF p = 0 /\ d.prevLen = 0 THEN SubSeq(d.cache, 1, d.prefix + d.suffix)
              ELSE SubSeq(d.cache, 1, d.prefix)
                   \o Slots(Previous, p, d.prefix + d.offset)
                   \o Slots(Suffix, d.suffix, d.prefix + d.offset + p)
      tail == SubSeq(d.cache, total - keep + 1, total)
  IN [d EXCEPT !.cache = head \o Realign(tail, d.preserve - (total - keep)),
               !.prevLen = p,
               !.preserve = d.prefix + p + d.suffix]

\* _rebuild_cache_with_previous: [prefix] [previous] [suffix] [units].  The units
\* that stay are taken from the end of the cache; as long as there is no previous
\* content, prefix and suffix stay as they are (and preserve is their sum already).
Rebuild(d) ==
  LET keep == Total(d)
      total == Len(d.cache)
      p == PreviousLen(d)
      head == IF p = 0 /\ d.prevLen = 0 THEN SubSeq(d.cache, 1, d.prefix + d.suffix)
              ELSE SubSeq(d.cache, 1, d.prefix)
                   \o Slots(Previous, p, d.prefix + d.offset)
                   \o Slots(Suffix, d.suffix, d.prefix + d.offset + p)
      tail == SubSeq(d.cache, total - keep + 1, total)
  IN [d EXCEPT !.cache = head \o Realign(tail, Len(head) - (total - keep)),
               !.prevLen = p,
               !.preserve = d.prefix + p + d.suffix]

\* The loop of enforce_window has dropped enough after n units.
Enough(d, n) == n = Len(d.units) \/ Len(d.cache) - Upto(d, n) <= Low

\* How many units enforce_window or enforce_window_with_context drops, if any.
\* Every drop succeeds: the cache behind the prompt is at least as long as the
\* units that stay (UnitsFit below).  The context loop never runs twice: it ran
\* after every unit before.
Evicts(d, n) ==
  /\ n \in 0..Len(d.units)
  /\ mode = "off" => n = 0
  /\ mode = "basic" =>
       IF Len(d.cache) <= High THEN n = 0
       ELSE Enough(d, n) /\ \A m \in 0..(n - 1) : ~Enough(d, m)
  /\ mode = "context" => n = IF Len(d.units) > MaxUnits THEN 1 ELSE 0

Enforced(d, n) ==
  IF n = 0 THEN d
  ELSE IF mode = "context" THEN Rebuild(Forget(d)) ELSE DropUnits(d, n)

\* What the units that leave have said.
Leaving(d, n) == IF n = 1 /\ mode = "context" THEN Said(d.units[1]) ELSE <<>>
-----------------------------------------------------------------------------
(***************************************************************************)
(* The session: DuplexCapability.                                          *)
(***************************************************************************)

\* Mutant of Prepared: with context, the prompt is registered once it is all fed.
PreparedLate(p, s) ==
  LET all == Feed(Feed(Empty, Prefix, p), Suffix, s)
  IN IF mode = "context" THEN RegisterSystemPromptWithContext(all, s)
     ELSE RegisterSystemPrompt(all)

\* The decoder once prepare() has reset it and fed the prompt.
Prepared(p, s) ==
  LET prefixed == Feed(Empty, Prefix, p)
  IN IF mode = "context"
     THEN Feed(RegisterSystemPromptWithContext(prefixed, s), Suffix, s)
     ELSE RegisterSystemPrompt(Feed(prefixed, Suffix, s))

\* prepare(), whatever the state it finds.
Prepare(p, s) ==
  /\ dec' = Prepared(p, s)
  /\ logits' = FALSE
  /\ pending' = NotPending
  /\ stop' = FALSE
  /\ gone' = <<>>
  /\ spoilt' = FALSE
  /\ UNCHANGED mode

HalfWay(d) == [d EXCEPT !.halfway = TRUE]

\* prepare() raises after it has reset the decoder: while it feeds the prefix or
\* the reference audio, so that the k tokens fed are never registered, or, with
\* context, while it feeds the suffix it has registered already.  The session
\* reports the error and goes on (worker.py:1608).
PrepareRaises(p, s) ==
  /\ \/ \E k \in 0..p : dec' = HalfWay(Feed(Empty, Prefix, k))
     \/ /\ mode = "context" /\ s > 0
        /\ dec' = HalfWay(RegisterSystemPromptWithContext(Feed(Empty, Prefix, p), s))
  /\ logits' = FALSE
  /\ pending' = NotPending
  /\ stop' = FALSE
  /\ gone' = <<>>
  /\ spoilt' = TRUE
  /\ UNCHANGED mode

\* streaming_prefill may start a unit, whether or not a prompt was prepared: after
\* stop or before the last unit is finalized it returns or raises at once.  A
\* prefill that has left logits is always followed by its generate
\* (worker.py:1714), so none comes between.
MayStart ==
  /\ ~stop /\ ~pending.on /\ ~logits
  /\ dec.next < LastUnit /\ Len(dec.cache) <= Room

\* streaming_prefill: <unit>, then n tokens of images and audio.
Prefill(n) ==
  /\ MayStart
  /\ dec' = Feed(RegisterUnitStart(dec), dec.next, 1 + n)
  /\ logits' = TRUE
  /\ UNCHANGED <<mode, pending, stop, gone, spoilt>>

\* streaming_prefill that returns early, because there is too little audio for a
\* chunk, or raises: <unit> and n tokens of images have been fed, and generate
\* will find no logits.
PrefillShort(n) ==
  /\ MayStart
  /\ dec' = Feed(RegisterUnitStart(dec), dec.next, 1 + n)
  /\ spoilt' = TRUE
  /\ UNCHANGED <<mode, logits, pending, stop, gone>>

\* What one streaming_generate may say of the f tokens it feeds: the first is not
\* recorded and special ones are filtered.  It ends listening at once, or after
\* the turn's end (one of the f), which a token said may precede.
MaySay(f, said, listen) ==
  /\ said = 0 \/ said < f
  /\ listen /\ said > 0 => EarlyEnds /\ said + 1 < f

\* streaming_generate.  (After stop, or without logits, it changes nothing.)
Generate(f, said, listen) ==
  /\ logits /\ ~stop
  /\ MaySay(f, said, listen)
  /\ dec' = Feed(dec, dec.next, f)
  /\ logits' = FALSE
  /\ pending' = [on |-> TRUE, said |-> said, listen |-> listen]
  /\ UNCHANGED <<mode, stop, gone, spoilt>>

\* streaming_generate raises before there is anything to finalize.
GenerateRaises(f) ==
  /\ logits /\ ~stop
  /\ dec' = Feed(dec, dec.next, f)
  /\ logits' = FALSE
  /\ spoilt' = TRUE
  /\ UNCHANGED <<mode, pending, stop, gone>>

\* finalize_unit up to the window: the closing tokens and the unit's registration.
Closed ==
  RegisterUnitEnd(Feed(dec, dec.next, Closing), pending.said, pending.listen)

\* Mutant of Finalize: the window is enforced before the unit is registered.
FinalizeEarly(n) ==
  LET fed == Feed(dec, dec.next, Closing)
  IN /\ pending.on
     /\ Evicts(fed, n)
     /\ dec' = RegisterUnitEnd(Enforced(fed, n), pending.said, pending.listen)
     /\ gone' = gone \o Leaving(fed, n)
     /\ pending' = NotPending
     /\ UNCHANGED <<mode, logits, stop, spoilt>>

\* finalize_unit, the window dropping n units.
Finalize(n) ==
  /\ pending.on
  /\ Evicts(Closed, n)
  /\ dec' = Enforced(Closed, n)
  /\ gone' = gone \o Leaving(Closed, n)
  /\ pending' = NotPending
  /\ UNCHANGED <<mode, logits, stop, spoilt>>

\* finalize_unit raises while it computes the cache with the new previous content:
\* the unit has left the history but not the cache, and finalize is still pending.
FinalizeRaises ==
  /\ pending.on /\ mode = "context"
  /\ Evicts(Closed, 1)
  /\ dec' = Forget(Closed)
  /\ gone' = gone \o Leaving(Closed, 1)
  /\ spoilt' = TRUE
  /\ UNCHANGED <<mode, logits, pending, stop>>

Smaller(a, b) == IF a <= b THEN a ELSE b

\* Where update_system_prompt takes the prompt to end.
SystemEnd(d) ==
  Smaller(IF d.prefix > 0 \/ d.suffix > 0 \/ d.prevLen > 0
          THEN d.prefix + d.prevLen + d.suffix ELSE d.preserve,
          Len(d.cache))

\* StreamDecoder.update_system_prompt: a new prefix and suffix around the previous
\* content, computed afresh; the units stay behind it.
Updated(d, p, s) ==
  LET end == SystemEnd(d)
      head == Slots(Prefix, p, 0) \o Slots(Previous, PreviousLen(d), p)
              \o Slots(Suffix, s, p + PreviousLen(d))
      tail == SubSeq(d.cache, end + 1, Len(d.cache))
  IN [d EXCEPT !.cache = head \o Realign(tail, Len(head) - end),
               !.prefix = p, !.prevLen = PreviousLen(d), !.suffix = s,
               !.preserve = Len(head), !.offset = 0]

\* Mutant of Update: a pending unit is not finalized first.
UpdateUnflushed(p, s) ==
  /\ dec.cache # <<>> /\ ~logits
  /\ dec' = Updated(dec, p, s)
  /\ UNCHANGED <<mode, logits, pending, stop, gone, spoilt>>

\* DuplexCapability.update_system_prompt without and with a unit to finalize.
Update(p, s) ==
  /\ dec.cache # <<>> /\ ~logits
  /\ IF pending.on
     THEN \E n \in 0..Len(Closed.units) :
            /\ Evicts(Closed, n)
            /\ dec' = Updated(Enforced(Closed, n), p, s)
            /\ gone' = gone \o Leaving(Closed, n)
     ELSE dec' = Updated(dec, p, s) /\ gone' = gone
  /\ pending' = NotPending
  /\ UNCHANGED <<mode, logits, stop, spoilt>>

\* duplex_stop(): set_session_stop, at any time.
Stop ==
  /\ ~stop
  /\ stop' = TRUE
  /\ UNCHANGED <<mode, dec, logits, pending, gone, spoilt>>

\* DuplexView.cleanup.
Cleanup ==
  /\ dec' = Empty
  /\ logits' = FALSE
  /\ pending' = NotPending
  /\ gone' = <<>>
  /\ spoilt' = FALSE
  /\ UNCHANGED <<mode, stop>>

Next ==
  \/ \E p \in Prefixes, s \in Suffixes :
       Prepare(p, s) \/ PrepareRaises(p, s) \/ Update(p, s)
  \/ \E n \in Inputs : Prefill(n)
  \/ \E n \in Inputs \cup {0} : PrefillShort(n)
  \/ \E f \in Speeches : \/ \E said \in 0..f, listen \in BOOLEAN : Generate(f, said, listen)
                         \/ GenerateRaises(f)
  \/ \E n \in 0..Len(Closed.units) : Finalize(n)
  \/ FinalizeRaises
  \/ Stop
  \/ Cleanup

Spec == Init /\ [][Next]_vars
-----------------------------------------------------------------------------
(***************************************************************************)
(* What holds however roughly units are given up.                          *)
(***************************************************************************)

\* Every token is encoded with the position it has, whatever was dropped, rebuilt
\* or replaced before it (drop_tokens_from_cache and _rebuild_cache_with_previous
\* re-encode by different rules, and feed counts from the length alone), even
\* where a prompt longer than the cache is registered.
PositionsExact == \A i \in 1..Len(dec.cache) : dec.cache[i].pos = i - 1

\* Unless the last prepare() raised half way, eviction never touches the prompt and
\* never takes a unit's token for a part of it: the first _system_preserve_length
\* tokens are the prompt, and no other is.
PromptProtected ==
  ~dec.halfway =>
    \A i \in 1..Len(dec.cache) : dec.cache[i].of < 0 <=> i <= dec.preserve

\* The layout [prefix] [previous] [suffix] [units] the context window relies on:
\* the lengths add up always, and the tokens are those unless the last prepare()
\* raised half way.
ContextLayout ==
  mode = "context" =>
    /\ dec.preserve = dec.prefix + dec.prevLen + dec.suffix
    /\ ~dec.halfway =>
         \A i \in 1..dec.preserve :
           dec.cache[i].of = IF i <= dec.prefix THEN Prefix
                             ELSE IF i <= dec.prefix + dec.prevLen THEN Previous
                             ELSE Suffix

\* A drop or rebuild never runs out of tokens: the cache behind the prompt is at
\* least as long as the units in the history together, but for a suffix that was
\* registered and never fed, and a unit under way starts within the cache.
UnitsFit ==
  /\ dec.preserve + Total(dec) <=
       Len(dec.cache) + (IF dec.halfway THEN ShortestUnit ELSE 0)
  /\ pending.on \/ logits => dec.start <= Len(dec.cache)

\* The previous content is exactly the latest PreviousMax tokens of what was said
\* in the units that left the window ("accumulate its generated content to
\* previous", stream_decoder.py:867).
MemoryKept ==
  mode = "context" =>
    /\ dec.previous = LastOf(gone, PreviousMax)
    /\ dec.has <=> gone # <<>>

\* The context window keeps at most MaxUnits units.
UnitsBounded == mode = "context" => Len(dec.units) <= MaxUnits
-----------------------------------------------------------------------------
(***************************************************************************)
(* What holds until a unit, or a prompt, is given up half way.             *)
(***************************************************************************)

\* The check of _verify_consistency and of enforce_window, which logs
\* "CONSISTENCY ERROR!" when it fails (stream_decoder.py:335): the cache is the
\* prompt and the units of the history and nothing else.
VerifyConsistency == ~dec.open => Len(dec.cache) = dec.preserve + Total(dec)

\* Behind the prompt lie the tokens of the units, each where its length says, and
\* then those of the unit under way; that check succeeds as long as no call, of
\* prepare() on, has given a prompt or a unit up half way.
UnitsAligned ==
  ~spoilt =>
    /\ VerifyConsistency
    /\ \A i \in 1..Len(dec.units) : \A k \in (Upto(dec, i - 1) + 1)..Upto(dec, i) :
         dec.cache[dec.preserve + k].of = dec.units[i].id
    /\ dec.open => /\ dec.start = dec.preserve + Total(dec)
                   /\ \A k \in (dec.start + 1)..Len(dec.cache) :
                        dec.cache[k].of = dec.next

\* The basic window bounds the cache: when a unit is over, the cache is below the
\* high mark or holds nothing but the prompt, unless a prompt or unit was given up.
WindowBoundedStep ==
  mode = "basic" /\ ~spoilt /\ (\E n \in 0..Len(Closed.units) : Finalize(n)) =>
    Len(dec'.cache) <= High \/ Len(dec'.cache) = dec'.preserve
WindowBounded == [][WindowBoundedStep]_vars
=============================================================================
