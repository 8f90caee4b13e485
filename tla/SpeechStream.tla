----------------------------- MODULE SpeechStream -----------------------------
(***************************************************************************)
(* An answer on its way from the language model to the listener: the chunk *)
(* generator of streaming_generate (model/services/streaming.py), the LLM  *)
(* chunks it asks for (runtime/text_generation.py), the audio tokens each  *)
(* of them is turned into (runtime/tts_streaming.py), and the vocoder that *)
(* speaks them.  Three buffers lie between: the last token of a chunk,     *)
(* which has no hidden state yet, the audio tokens short of a chunk, and   *)
(* the tokens the vocoder looks ahead to.                                  *)
(*                                                                         *)
(* The answer's text tokens and audio tokens are numbered from 1; 0 is the *)
(* silence that the vocoder's buffer begins with.                          *)
(***************************************************************************)
EXTENDS Integers, Sequences

CONSTANTS
  GenChunk,     \* generate_chunk_size: text tokens of a chunk (10)
  MaxChunks,    \* num_chunks_decode: chunks until max_new_tokens
  AudioChunk,   \* CHUNK_SIZE, audio_token_chunk_size (25)
  Lookahead,    \* pre_lookahead (3)
  Silence,      \* silence tokens the buffer begins with (3): as many
  MaxSamples    \* max_new_token: audio tokens of one text chunk (500)

ASSUME SpeechAssumption ==
  /\ GenChunk \in Nat \ {0} /\ MaxChunks \in Nat \ {0}
  /\ AudioChunk \in Nat \ {0} /\ MaxSamples \in Nat
  /\ Lookahead \in Nat \ {0}
  /\ Silence = Lookahead

VARIABLES
  mode,      \* generate_audio
  phase,     \* "llm", in "tts", "flush", "over", "raised"
  llm,       \* chunks so far, len(generated_ids), finished
  words,     \* the tokens TTS is conditioned on, and whose hidden states it is
  hidden,    \*   given with them
  tts,       \* _token_buffer, audio tokens made in all, samples of this call
  vocoder,   \* its buffer, what it has spoken, how often it was told "last"
  told       \* text tokens the client has the text of

vars == <<mode, phase, llm, words, hidden, tts, vocoder, told>>

\* The text tokens from number a to number b.
Run(a, b) == [i \in 1 .. b + 1 - a |-> a + i - 1]
Quiet == [i \in 1 .. Silence |-> 0]

Init ==
  /\ mode \in {"audio", "text"}
  /\ phase = "llm"
  /\ llm = [chunk |-> 0, generated |-> 0, finished |-> FALSE]
  /\ words = <<>> /\ hidden = <<>>
  /\ tts = [buffer |-> <<>>, made |-> 0, samples |-> 0]
  /\ vocoder = [buffer |-> Quiet, said |-> <<>>, last |-> 0]
  /\ told = 0

-----------------------------------------------------------------------------
(***************************************************************************)
(* The language model.  A call predicts up to size tokens and ends early   *)
(* with a terminator; it feeds the token before each prediction.  The      *)
(* first call feeds the prompt instead, and is given one token more.       *)
(***************************************************************************)
Size == IF llm.chunk = 0 THEN GenChunk + 1 ELSE GenChunk

\* The hidden states of a call that feeds n tokens: the prompt's do not count.
Fed(n) == IF llm.chunk = 0 THEN Run(1, n - 1)
          ELSE Run(llm.generated, llm.generated + n - 1)

\* Mutant of Yielded: the token left over is forgotten.
YieldedFresh(n, finished) ==
  LET end == llm.generated + n
  IN  Run(llm.generated + 1, IF finished THEN end ELSE end - 1)

\* yield_chunk_token_ids: the token left over from the chunk before, and all of
\* this one's but the last, which is left over in turn unless it ends the answer.
Yielded(n, finished) ==
  LET left == IF llm.chunk = 0 THEN 1 ELSE llm.generated
      end == llm.generated + n
  IN  Run(left, IF finished THEN end ELSE end - 1)

Chunk(n, finished) ==
  /\ phase = "llm"
  /\ IF finished THEN n < Size ELSE n = Size
  /\ ~ (finished /\ llm.chunk = 0 /\ n = 0)
  /\ llm' = [chunk |-> llm.chunk + 1, generated |-> llm.generated + n, finished |-> finished]
  /\ words' = words \o Yielded(n, finished)
  /\ hidden' = hidden \o Fed(IF finished THEN n + 1 ELSE n)

AfterChunk == IF llm'.finished \/ llm'.chunk = MaxChunks THEN "flush" ELSE "llm"

\* Without audio the text is decoded at once; a character whose bytes are not
\* complete is held back (held tokens of it) until the answer ends.
TextChunk(n, finished, held) ==
  /\ mode = "text"
  /\ Chunk(n, finished)
  /\ phase' = AfterChunk
  /\ finished => held = 0
  /\ Len(words') - held >= told
  /\ told' = Len(words') - held
  /\ UNCHANGED <<mode, tts, vocoder>>

SpeechChunk(n, finished) ==
  /\ mode = "audio"
  /\ Chunk(n, finished)
  /\ phase' = "tts"
  /\ tts' = [tts EXCEPT !.samples = 0]
  /\ UNCHANGED <<mode, vocoder, told>>

\* An answer that begins with a terminator has no hidden states to join.
ChunkRaises ==
  /\ phase = "llm"
  /\ llm.chunk = 0
  /\ phase' = "raised"
  /\ UNCHANGED <<mode, llm, words, hidden, tts, vocoder, told>>

-----------------------------------------------------------------------------
(***************************************************************************)
(* The vocoder takes a batch whenever generate_with_buffer yields one.     *)
(* stream() speaks all it is given but what it looks ahead to, and with    *)
(* last_chunk (last = 1) that as well.                                                *)
(***************************************************************************)
Spoken(tokens, last) == SubSeq(tokens, 1, IF last = 1 THEN Len(tokens) ELSE Len(tokens) - Lookahead)

Stream(v, tokens, last, rest) ==
  [buffer |-> rest, said |-> v.said \o Spoken(tokens, last),
   last |-> v.last + last]

Streams(v, batch) == Len(v.buffer \o batch) >= AudioChunk + Lookahead

\* Mutant of Taken: what was looked ahead to is taken for spoken.
TakenWhole(v, batch, last) ==
  LET all == v.buffer \o batch IN
  IF Streams(v, batch)
  THEN Stream(v, SubSeq(all, 1, AudioChunk + Lookahead), last,
              SubSeq(all, AudioChunk + Lookahead + 1, Len(all)))
  ELSE [v EXCEPT !.buffer = all]

Taken(v, batch, last) ==
  LET all == v.buffer \o batch IN
  IF Streams(v, batch)
  THEN Stream(v, SubSeq(all, 1, AudioChunk + Lookahead), last,
              SubSeq(all, AudioChunk + 1, Len(all)))
  ELSE [v EXCEPT !.buffer = all]

\* The text goes out with a piece of audio, as far as its characters are complete.
Tell(batch, held) ==
  IF Streams(vocoder, batch)
  THEN /\ Len(words) - held >= told
       /\ told' = Len(words) - held
  ELSE held = 0 /\ told' = told

AfterTts == IF llm.finished \/ llm.chunk = MaxChunks THEN "flush" ELSE "llm"

\* An audio token is sampled: a full chunk goes to the vocoder.
Sample(held) ==
  LET buffer == Append(tts.buffer, tts.made + 1)
      batch == SubSeq(buffer, 1, AudioChunk)
  IN
  /\ phase = "tts"
  /\ tts.samples < MaxSamples
  /\ IF Len(buffer) >= AudioChunk
     THEN /\ tts' = [buffer |-> SubSeq(buffer, AudioChunk + 1, Len(buffer)),
                     made |-> tts.made + 1, samples |-> tts.samples + 1]
          /\ vocoder' = Taken(vocoder, batch, 0)
          /\ Tell(batch, held)
     ELSE /\ tts' = [buffer |-> buffer, made |-> tts.made + 1, samples |-> tts.samples + 1]
          /\ held = 0
          /\ UNCHANGED <<vocoder, told>>
  /\ UNCHANGED <<mode, phase, llm, words, hidden>>

\* The end token: what is left waits for the next text chunk, or is the last.
SampleEnd(held) ==
  /\ phase = "tts"
  /\ tts.samples < MaxSamples
  /\ phase' = AfterTts
  /\ IF llm.finished
     THEN /\ vocoder' = Taken(vocoder, tts.buffer, 1)
          /\ Tell(tts.buffer, held)
          /\ tts' = [tts EXCEPT !.buffer = <<>>]
     ELSE held = 0 /\ UNCHANGED <<tts, vocoder, told>>
  /\ UNCHANGED <<mode, llm, words, hidden>>

\* No end token among max_new_token samples.
SamplesOut ==
  /\ phase = "tts"
  /\ tts.samples = MaxSamples
  /\ phase' = AfterTts
  /\ UNCHANGED <<mode, llm, words, hidden, tts, vocoder, told>>

\* Mutant of Flush: the text that no audio came for is not told.
FlushUntold(held) ==
  LET taken == IF tts.buffer # <<>> THEN Taken(vocoder, tts.buffer, 1) ELSE vocoder IN
  /\ phase = "flush"
  /\ mode = "audio"
  /\ phase' = "over"
  /\ tts' = [tts EXCEPT !.buffer = <<>>]
  /\ IF taken.buffer # <<>>
     THEN /\ vocoder' = Stream(taken, taken.buffer, 1, <<>>)
          /\ UNCHANGED told
     ELSE /\ vocoder' = taken
          /\ Tell(tts.buffer, held)
  /\ UNCHANGED <<mode, llm, words, hidden>>

\* What TTS has left is the last batch, and the vocoder speaks what it has left
\* together with all the text that has not been told.
Flush(held) ==
  LET taken == IF tts.buffer # <<>> THEN Taken(vocoder, tts.buffer, 1) ELSE vocoder IN
  /\ phase = "flush"
  /\ mode = "audio"
  /\ phase' = "over"
  /\ tts' = [tts EXCEPT !.buffer = <<>>]
  /\ IF taken.buffer # <<>>
     THEN /\ vocoder' = Stream(taken, taken.buffer, 1, <<>>)
          /\ told' = Len(words)
          /\ held = 0
     ELSE /\ vocoder' = taken
          /\ Tell(tts.buffer, held)
  /\ UNCHANGED <<mode, llm, words, hidden>>

TextOver ==
  /\ phase = "flush"
  /\ mode = "text"
  /\ phase' = "over"
  /\ UNCHANGED <<mode, llm, words, hidden, tts, vocoder, told>>

Next ==
  \/ \E n \in 0 .. GenChunk + 1, finished \in BOOLEAN :
       \/ \E held \in 0 .. 1 : TextChunk(n, finished, held)
       \/ SpeechChunk(n, finished)
  \/ ChunkRaises
  \/ \E held \in 0 .. 1 : Sample(held) \/ SampleEnd(held) \/ Flush(held)
  \/ SamplesOut
  \/ TextOver

Spec == Init /\ [][Next]_vars
-----------------------------------------------------------------------------
TypeOK ==
  /\ mode \in {"audio", "text"}
  /\ phase \in {"llm", "tts", "flush", "over", "raised"}
  /\ llm \in [chunk : 0 .. MaxChunks, generated : Nat, finished : BOOLEAN]
  /\ words \in Seq(Nat) /\ hidden \in Seq(Nat)
  /\ tts \in [buffer : Seq(Nat), made : Nat, samples : 0 .. MaxSamples]
  /\ vocoder \in [buffer : Seq(Nat), said : Seq(Nat), last : Nat]
  /\ told \in Nat

\* Speech is conditioned on each token of the text once and in order, with the
\* hidden state of that token; when the model ends the answer, on all of them.
EachWordOnce ==
  /\ words = Run(1, Len(words))
  /\ hidden = words
  /\ phase = "over" /\ llm.finished => Len(words) = llm.generated

\* What should be heard, behind the first a tokens of it and up to the b-th:
\* the silence, then the audio tokens as they were made.
Sound(i) == IF i <= Silence THEN 0 ELSE i - Silence
Sounds(a, b) == [i \in 1 .. b - a |-> Sound(a + i)]

\* Each audio token is spoken once and in order, behind the silence, and the
\* last call of the vocoder is the only one it is told to be the last.
EachSoundOnce ==
  /\ vocoder.said = Sounds(0, Len(vocoder.said))
  /\ vocoder.last = (IF phase = "over" /\ mode = "audio" THEN 1 ELSE 0)
  /\ phase = "over" /\ mode = "audio" => Len(vocoder.said) = Silence + tts.made

\* The text of an answer that the model ends reaches the client to its end, even
\* where no audio was made for it.
AllTextTold == phase = "over" /\ llm.finished => told = llm.generated
=============================================================================
