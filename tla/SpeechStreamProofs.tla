-------------------------- MODULE SpeechStreamProofs --------------------------
(***************************************************************************)
(* Every word is spoken once, every sound heard once, and the text of an   *)
(* answer told to its end, for chunks of any length.                       *)
(***************************************************************************)
EXTENDS SpeechStream, TLAPS

\* Where the tokens are that the listener has not heard, and what the vocoder
\* holds: never more than it can speak when it is told that there is no more.
InOrder ==
  LET a == Len(vocoder.said)
      b == a + Len(vocoder.buffer)
      c == b + Len(tts.buffer)
  IN  /\ vocoder.said = Sounds(0, a)
      /\ vocoder.buffer = Sounds(a, b)
      /\ tts.buffer = Sounds(b, c)
      /\ c = Silence + tts.made

Held ==
  /\ phase \in {"llm", "tts"} => Len(vocoder.buffer) = Silence /\ Len(tts.buffer) < AudioChunk
  /\ phase = "flush" => /\ Len(vocoder.buffer) >= Silence
                        /\ Len(vocoder.buffer) + Len(tts.buffer) < AudioChunk + Lookahead
  /\ phase = "over" /\ mode = "audio" => vocoder.buffer = <<>> /\ tts.buffer = <<>>
  /\ vocoder.last = (IF phase = "over" /\ mode = "audio" THEN 1 ELSE 0)

\* The last token of a chunk is left over until the next one or the end.
LeftOver ==
  /\ words = Run(1, Len(words))
  /\ hidden = words
  /\ llm.chunk = 0 => words = <<>> /\ llm.generated = 0 /\ ~ llm.finished
  /\ llm.chunk > 0 => Len(words) = IF llm.finished THEN llm.generated ELSE llm.generated - 1
  /\ phase = "llm" => ~ llm.finished /\ llm.chunk < MaxChunks
  /\ llm.finished /\ (phase = "over" \/ (mode = "text" /\ phase = "flush"))
       => told = llm.generated

\* Audio tokens are made for an answer that is spoken.
Speaking == phase = "tts" => mode = "audio"

SpeechInv == TypeOK /\ InOrder /\ Held /\ LeftOver /\ Speaking

-----------------------------------------------------------------------------
\* The tokens up to the a-th are heard, up to the b-th with the vocoder, up to the
\* c-th made, when n audio tokens have been.
Line(a, b, c, n) ==
  /\ a \in Nat /\ b \in Nat /\ c \in Nat /\ n \in Nat
  /\ a <= b /\ b <= c /\ c = Silence + n

\* The tokens behind the a-th, up to the d-th are a chunk, and up to the c-th
\* are what it takes to speak it; the vocoder has those up to the b-th.
Chunked(a, b, c, d) ==
  /\ a \in Nat /\ b \in Nat /\ c \in Nat /\ d \in Nat
  /\ a <= b /\ b <= c /\ a <= d /\ d <= c
  /\ d - a = AudioChunk /\ c - d = Lookahead

\* Sequences of consecutive tokens join and split.
LEMMA SameSequence ==
  ASSUME NEW s \in Seq(Nat), NEW t \in Seq(Nat), NEW n \in Nat, Len(s) = n, Len(t) = n,
         \A i \in 1 .. n : s[i] = t[i]
  PROVE  s = t
<1>1. s \in [1 .. n -> Nat] /\ t \in [1 .. n -> Nat]
  OBVIOUS
<1> QED BY <1>1

LEMMA SoundsType ==
  ASSUME NEW a \in Nat, NEW b \in Nat, a <= b
  PROVE  Sounds(a, b) \in Seq(Nat) /\ Len(Sounds(a, b)) = b - a
BY SpeechAssumption DEF Sounds, Sound

LEMMA SoundsJoin ==
  ASSUME NEW a \in Nat, NEW b \in Nat, NEW c \in Nat, a <= b, b <= c
  PROVE  Sounds(a, b) \o Sounds(b, c) = Sounds(a, c)
<1>1. Sounds(a, b) \in Seq(Nat) /\ Len(Sounds(a, b)) = b - a
  BY SoundsType
<1>2. Sounds(b, c) \in Seq(Nat) /\ Len(Sounds(b, c)) = c - b
  BY SoundsType
<1>3. Sounds(a, c) \in Seq(Nat) /\ Len(Sounds(a, c)) = c - a
  BY SoundsType
<1>4. \A i \in 1 .. c - a : (Sounds(a, b) \o Sounds(b, c))[i] = Sounds(a, c)[i]
  BY <1>1, <1>2 DEF Sounds
<1>5. /\ Sounds(a, b) \o Sounds(b, c) \in Seq(Nat)
      /\ Len(Sounds(a, b) \o Sounds(b, c)) = c - a
  BY <1>1, <1>2
<1>6. c - a \in Nat
  OBVIOUS
<1> QED BY <1>3, <1>4, <1>5, <1>6, SameSequence

LEMMA SoundsSplit ==
  ASSUME NEW a \in Nat, NEW b \in Nat, NEW m \in Nat, a <= m, m <= b
  PROVE  /\ SubSeq(Sounds(a, b), 1, m - a) = Sounds(a, m)
         /\ SubSeq(Sounds(a, b), m - a + 1, Len(Sounds(a, b))) = Sounds(m, b)
<1> DEFINE n == m - a
           k == b - m
           s == Sounds(a, b)
<1>0. n \in Nat /\ a <= b /\ k \in Nat /\ b - a = n + k
  OBVIOUS
<1>1. s \in Seq(Nat) /\ Len(s) = n + k /\ k \in Nat
  <2>1. Sounds(a, b) \in Seq(Nat) /\ Len(Sounds(a, b)) = b - a
    BY <1>0, SoundsType
  <2> QED BY <1>0, <2>1
<1>2. SubSeq(s, 1, n) = Sounds(a, m)
  <2>1. Sounds(a, m) \in Seq(Nat) /\ Len(Sounds(a, m)) = n
    BY <1>1, SoundsType
  <2>2. SubSeq(s, 1, n) \in Seq(Nat) /\ Len(SubSeq(s, 1, n)) = n
    BY <1>1
  <2>3. \A i \in 1 .. n : SubSeq(s, 1, n)[i] = Sounds(a, m)[i]
    BY <1>1 DEF Sounds
  <2> QED BY <2>1, <2>2, <2>3, SameSequence, SMTT(30)
<1>3. SubSeq(s, n + 1, Len(s)) = Sounds(m, b)
  <2> DEFINE t == SubSeq(s, n + 1, Len(s))
  <2>1. Sounds(m, b) \in Seq(Nat) /\ Len(Sounds(m, b)) = k
    BY <1>1, SoundsType
  <2>2. t \in Seq(Nat) /\ Len(t) = k
    BY <1>1
  <2>3. \A i \in 1 .. k : t[i] = Sounds(m, b)[i]
    BY <1>1 DEF Sounds
  <2> HIDE DEF t, k
  <2>4. t = Sounds(m, b)
    BY <1>1, <2>1, <2>2, <2>3, SameSequence
  <2> QED BY <2>4 DEF t
<1> QED BY <1>2, <1>3

LEMMA SoundsNext ==
  ASSUME NEW x, NEW a, NEW b, NEW c, NEW n, Line(x, a, b, n), Line(x, a, c, n + 1)
  PROVE  Append(Sounds(a, b), n + 1) = Sounds(a, c)
<1> DEFINE s == Append(Sounds(a, b), n + 1)
           k == c - a
<1>0. a \in Nat /\ b \in Nat /\ c \in Nat /\ a <= b /\ c = b + 1 /\ b = Silence + n /\ n \in Nat
  BY SpeechAssumption DEF Line
<1>1. a <= c /\ k \in Nat /\ n + 1 \in Nat
  BY <1>0
<1>2. Sounds(a, b) \in Seq(Nat) /\ Len(Sounds(a, b)) = b - a
  BY <1>0, SoundsType
<1>3. Sounds(a, c) \in Seq(Nat) /\ Len(Sounds(a, c)) = k
  BY <1>0, <1>1, SoundsType
<1>4. \A i \in 1 .. k : s[i] = Sounds(a, c)[i]
  BY <1>0, <1>1, <1>2, SpeechAssumption DEF Sounds, Sound
<1>5. s \in Seq(Nat) /\ Len(s) = k
  BY <1>0, <1>1, <1>2, SMTT(40)
<1> HIDE DEF s, k
<1>6. s = Sounds(a, c)
  BY <1>1, <1>3, <1>4, <1>5, SameSequence
<1> QED BY <1>6 DEF s

LEMMA RunType ==
  ASSUME NEW a \in Nat, NEW b \in Nat, a <= b + 1
  PROVE  Run(a, b) \in Seq(Nat) /\ Len(Run(a, b)) = b + 1 - a
BY DEF Run

LEMMA RunJoin ==
  ASSUME NEW a \in Nat, NEW b \in Nat, NEW c \in Nat, b = a + 1, a <= c
  PROVE  Run(1, a) \o Run(b, c) = Run(1, c)
<1> DEFINE s == Run(1, a) \o Run(b, c)
<1>1. Run(1, a) \in Seq(Nat) /\ Len(Run(1, a)) = a
  BY DEF Run
<1>2. Run(b, c) \in Seq(Nat) /\ Len(Run(b, c)) = c - a
  BY DEF Run
<1>3. Run(1, c) \in Seq(Nat) /\ Len(Run(1, c)) = c
  BY RunType
<1>4. \A i \in 1 .. c : s[i] = Run(1, c)[i]
  BY <1>1, <1>2 DEF Run
<1>5. s \in Seq(Nat) /\ Len(s) = c
  BY <1>1, <1>2
<1> HIDE DEF s
<1>6. s = Run(1, c)
  BY <1>3, <1>4, <1>5, SameSequence
<1> QED BY <1>6 DEF s

-----------------------------------------------------------------------------
\* The vocoder, given a full chunk behind its silence's worth of tokens, speaks a
\* chunk and keeps as much; given less, it keeps all.
Vocoder == [buffer : Seq(Nat), said : Seq(Nat), last : Nat]

LEMMA TakenFull ==
  ASSUME NEW v \in Vocoder, NEW a, NEW b, NEW c, NEW d, Chunked(a, b, c, d),
         v.said = Sounds(0, a), v.buffer = Sounds(a, b),
         NEW batch, batch = Sounds(b, c)
  PROVE  /\ Streams(v, batch)
         /\ Taken(v, batch, 0) =
              [buffer |-> Sounds(d, c), said |-> Sounds(0, d), last |-> v.last]
<1> DEFINE all == Sounds(a, c)
<1>9. a \in Nat /\ b \in Nat /\ c \in Nat /\ d \in Nat /\ a <= b /\ b <= c /\ a <= d /\ d <= c
  BY DEF Chunked
<1>0. AudioChunk \in Nat /\ Lookahead \in Nat /\ 0 \in Nat /\ 0 <= a /\ a <= c
      /\ c - a = AudioChunk + Lookahead /\ d - a = AudioChunk
  BY SpeechAssumption DEF Chunked
<1>1. v.buffer \o batch = all
  <2>1. Sounds(a, b) \o Sounds(b, c) = Sounds(a, c)
    BY <1>9, SoundsJoin, Zenon
  <2> QED BY <2>1
<1>2. all \in Seq(Nat) /\ Len(all) = AudioChunk + Lookahead
  <2>1. Sounds(a, c) \in Seq(Nat) /\ Len(Sounds(a, c)) = c - a
    BY <1>9, <1>0, SoundsType
  <2> QED BY <1>0, <2>1
<1>3. Streams(v, batch)
  BY <1>0, <1>1, <1>2 DEF Streams
<1>4. /\ SubSeq(all, 1, AudioChunk) = Sounds(a, d)
      /\ SubSeq(all, AudioChunk + 1, Len(all)) = Sounds(d, c)
  <2>2. /\ SubSeq(Sounds(a, c), 1, d - a) = Sounds(a, d)
        /\ SubSeq(Sounds(a, c), d - a + 1, Len(Sounds(a, c))) = Sounds(d, c)
    BY <1>9, SoundsSplit, Zenon
  <2> QED BY <1>0, <2>2
<1>5. SubSeq(all, 1, AudioChunk + Lookahead) = all
  <2> DEFINE n == AudioChunk + Lookahead
             t == SubSeq(all, 1, n)
  <2>1. n \in Nat
    BY <1>0
  <2>2. t \in Seq(Nat) /\ Len(t) = n /\ \A i \in 1 .. n : t[i] = all[i]
    <3> HIDE DEF all
    <3> QED BY <1>2, <2>1
  <2>3. t = all
    <3> HIDE DEF t, n, all
    <3> QED BY <1>2, <2>1, <2>2, SameSequence DEF n
  <2> QED BY <1>0, <2>3
<1>6. Spoken(all, 0) = Sounds(a, d)
  <2>1. Len(all) - Lookahead = AudioChunk
    BY <1>0, <1>2
  <2> QED BY <1>4, <2>1 DEF Spoken
<1>7. v.said \o Sounds(a, d) = Sounds(0, d)
  <2>1. Sounds(0, a) \o Sounds(a, d) = Sounds(0, d)
    BY <1>9, <1>0, SoundsJoin, Zenon
  <2> QED BY <2>1
<1>8. v.last + 0 = v.last
  BY DEF Vocoder
<1> HIDE DEF all
<1> QED BY <1>1, <1>3, <1>4, <1>5, <1>6, <1>7, <1>8 DEF Taken, Stream

LEMMA TakenRest ==
  ASSUME NEW v \in Vocoder, NEW a \in Nat, NEW b \in Nat, NEW c \in Nat,
         a <= b, b <= c, v.buffer = Sounds(a, b),
         NEW batch, batch = Sounds(b, c), c - a < AudioChunk + Lookahead,
         NEW last
  PROVE  ~ Streams(v, batch) /\ Taken(v, batch, last) = [v EXCEPT !.buffer = Sounds(a, c)]
<1>1. v.buffer \o batch = Sounds(a, c)
  BY SoundsJoin, ZenonT(60)
<1>2. Len(Sounds(a, c)) = c - a
  BY SoundsType
<1>3. ~ Streams(v, batch)
  BY <1>1, <1>2, SpeechAssumption DEF Streams
<1>4. v.buffer \o batch = Sounds(a, c) => Taken(v, batch, last) = [v EXCEPT !.buffer = Sounds(a, c)]
  BY <1>3 DEF Taken
<1> QED BY <1>1, <1>3, <1>4

\* The positions of the tokens not heard, for a state where InOrder holds.
LEMMA Positions ==
  ASSUME TypeOK, InOrder
  PROVE  \E a, b, c \in Nat :
           /\ Line(a, b, c, tts.made)
           /\ b - a = Len(vocoder.buffer) /\ c - b = Len(tts.buffer)
           /\ vocoder.said = Sounds(0, a)
           /\ vocoder.buffer = Sounds(a, b)
           /\ tts.buffer = Sounds(b, c)
<1> DEFINE a == Len(vocoder.said)
           b == a + Len(vocoder.buffer)
           c == b + Len(tts.buffer)
<1>0. Len(tts.buffer) \in Nat
  BY DEF TypeOK
<1>1. a \in Nat /\ Len(vocoder.buffer) \in Nat /\ Len(tts.buffer) \in Nat
  <2>1. vocoder.said \in Seq(Nat) /\ vocoder.buffer \in Seq(Nat) /\ tts.buffer \in Seq(Nat)
    BY DEF TypeOK
  <2> QED BY <2>1
<1>2. /\ b \in Nat /\ c \in Nat /\ a <= b /\ b <= c
      /\ b - a = Len(vocoder.buffer) /\ c - b = Len(tts.buffer)
  <2> DEFINE m == Len(vocoder.buffer)
             n == Len(tts.buffer)
  <2> HIDE DEF a, m, n
  <2>1. a \in Nat /\ m \in Nat /\ n \in Nat
    BY <1>1, <1>0 DEF m, n
  <2>2. a + m \in Nat /\ a + m + n \in Nat /\ (a + m) - a = m /\ (a + m + n) - (a + m) = n
        /\ a <= a + m /\ a + m <= a + m + n
    BY <2>1
  <2> QED BY <2>2 DEF m, n
<1>3. vocoder.said = Sounds(0, a) /\ vocoder.buffer = Sounds(a, b) /\ tts.buffer = Sounds(b, c)
  BY DEF InOrder
<1>4. c = Silence + tts.made /\ tts.made \in Nat
  BY DEF InOrder, TypeOK
<1> HIDE DEF a, b, c
<1>5. Line(a, b, c, tts.made)
  BY <1>1, <1>2, <1>4 DEF Line
<1> QED BY <1>1, <1>2, <1>3, <1>5

\* The other direction, for the state that a step leads to.
LEMMA InOrderNext ==
  ASSUME NEW a, NEW b, NEW c, Line(a, b, c, tts'.made),
         vocoder'.said = Sounds(0, a), vocoder'.buffer = Sounds(a, b), tts'.buffer = Sounds(b, c)
  PROVE  /\ InOrder'
         /\ Len(vocoder'.buffer) = b - a
         /\ vocoder'.said \in Seq(Nat) /\ vocoder'.buffer \in Seq(Nat) /\ tts'.buffer \in Seq(Nat)
<1>0. /\ a \in Nat /\ b \in Nat /\ c \in Nat /\ a <= b /\ b <= c
      /\ 0 \in Nat /\ 0 <= a /\ a - 0 = a
  BY DEF Line
<1>1. Len(vocoder'.said) = a /\ vocoder'.said \in Seq(Nat)
  BY <1>0, SoundsType
<1>2. Len(vocoder'.buffer) = b - a /\ vocoder'.buffer \in Seq(Nat)
  BY <1>0, SoundsType
<1>3. Len(tts'.buffer) = c - b /\ tts'.buffer \in Seq(Nat)
  BY <1>0, SoundsType
<1>4. a + (b - a) = b /\ b + (c - b) = c /\ c = Silence + tts'.made
  BY <1>0 DEF Line
<1> QED BY <1>1, <1>2, <1>3, <1>4 DEF InOrder

-----------------------------------------------------------------------------
LEMMA SpeechInit == Init => SpeechInv
<1> SUFFICES ASSUME Init PROVE SpeechInv
  OBVIOUS
<1>0. Silence \in Nat /\ MaxChunks \in Nat \ {0} /\ MaxSamples \in Nat /\ AudioChunk \in Nat \ {0} /\ 0 \in Nat
      /\ <<>> \in Seq(Nat) /\ Len(<<>>) = 0
  BY SpeechAssumption
<1>1. Quiet = Sounds(0, Silence)
  BY <1>0 DEF Quiet, Sounds, Sound
<1>2. Quiet \in Seq(Nat) /\ Len(Quiet) = Silence
  BY <1>0 DEF Quiet
<1>3. TypeOK
  BY <1>0, <1>2 DEF Init, TypeOK
<1>4. \A n \in Nat : Sounds(n, n) = <<>>
  BY <1>0 DEF Sounds
<1>5. InOrder
  <2>1. Len(vocoder.said) = 0 /\ Len(vocoder.buffer) = Silence /\ Len(tts.buffer) = 0
    BY <1>0, <1>2 DEF Init
  <2>2. 0 + Silence = Silence /\ Silence + 0 = Silence
    BY <1>0
  <2> QED BY <1>0, <1>1, <1>4, <2>1, <2>2 DEF Init, InOrder
<1>6. Held
  BY <1>0, <1>2 DEF Init, Held
<1>7. LeftOver
  <2>1. Run(1, 0) = <<>>
    BY DEF Run
  <2> QED BY <1>0, <2>1 DEF Init, LeftOver
<1>8. Speaking
  BY DEF Init, Speaking
<1> QED BY <1>3, <1>5, <1>6, <1>7, <1>8 DEF SpeechInv

-----------------------------------------------------------------------------
\* The words up to the m-th have been passed on when the model has made m, or m + 1
\* of which the last has no hidden state yet.
LEMMA ChunkWords ==
  ASSUME SpeechInv, NEW n \in Nat, NEW finished \in BOOLEAN, Chunk(n, finished)
  PROVE  \E m \in Nat :
           /\ words' = Run(1, m) /\ hidden' = words'
           /\ words' \in Seq(Nat) /\ Len(words') = m
           /\ llm' \in [chunk : 0 .. MaxChunks, generated : Nat, finished : BOOLEAN]
           /\ llm'.chunk > 0 /\ llm'.chunk = llm.chunk + 1
           /\ llm'.finished = finished
           /\ m = IF finished THEN llm'.generated ELSE llm'.generated - 1
<1> DEFINE g == llm.generated
           m == IF finished THEN g + n ELSE (g + n) - 1
<1>0. /\ llm \in [chunk : 0 .. MaxChunks, generated : Nat, finished : BOOLEAN]
      /\ phase = "llm" /\ ~ llm.finished /\ llm.chunk < MaxChunks
      /\ GenChunk \in Nat \ {0} /\ MaxChunks \in Nat
  BY SpeechAssumption DEF SpeechInv, TypeOK, LeftOver, Chunk
<1>1. /\ llm' = [chunk |-> llm.chunk + 1, generated |-> g + n, finished |-> finished]
      /\ words' = words \o Yielded(n, finished)
      /\ hidden' = hidden \o Fed(IF finished THEN n + 1 ELSE n)
      /\ hidden = words
  BY DEF Chunk, SpeechInv, LeftOver
<1>2. g \in Nat /\ llm.chunk \in Nat
  BY <1>0
<1>5. /\ llm' \in [chunk : 0 .. MaxChunks, generated : Nat, finished : BOOLEAN]
      /\ llm'.chunk > 0 /\ llm'.chunk = llm.chunk + 1 /\ llm'.finished = finished
      /\ llm'.generated = g + n
  BY <1>0, <1>1, <1>2
<1>6. m = IF finished THEN llm'.generated ELSE llm'.generated - 1
  <2>1. llm'.generated = g + n
    BY <1>5
  <2> QED BY <2>1, Zenon
<1>3. CASE llm.chunk = 0
  <2>1. g = 0 /\ words = <<>>
    BY <1>3 DEF SpeechInv, LeftOver
  <2>2. n >= 1
    BY <1>0, <1>3 DEF Chunk, Size
  <2>3. m \in Nat /\ m = IF finished THEN n ELSE n - 1
    BY <2>1, <2>2
  <2>4. Yielded(n, finished) = Run(1, m) /\ Fed(IF finished THEN n + 1 ELSE n) = Run(1, m)
    BY <1>3, <2>1, <2>3 DEF Yielded, Fed
  <2>5. Run(1, m) \in Seq(Nat) /\ Len(Run(1, m)) = m
    BY <2>3 DEF Run
  <2> HIDE DEF m
  <2>6. <<>> \o Run(1, m) = Run(1, m)
    BY <2>5
  <2>7. words' = Run(1, m) /\ hidden' = Run(1, m)
    BY <1>1, <2>1, <2>4, <2>6
  <2> QED BY <1>5, <1>6, <2>3, <2>5, <2>7
<1>4. CASE llm.chunk # 0
  <2>1. words = Run(1, g - 1) /\ g - 1 \in Nat
    <3>1. words = Run(1, Len(words)) /\ Len(words) = g - 1 /\ Len(words) \in Nat
      BY <1>0, <1>2, <1>4 DEF SpeechInv, LeftOver, TypeOK
    <3> QED BY <3>1
  <2>2. finished \/ n >= 1
    BY <1>0, <1>4 DEF Chunk, Size
  <2>3. m \in Nat /\ g - 1 <= m
    BY <1>2, <2>1, <2>2
  <2>4. Yielded(n, finished) = Run(g, m)
    <3>1. CASE finished
      BY <1>4, <3>1 DEF Yielded
    <3>2. CASE ~ finished
      <4>1. m = (g + n) - 1
        BY <3>2
      <4>2. Yielded(n, finished) = Run(g, (g + n) - 1)
        BY <1>4, <3>2, Zenon DEF Yielded
      <4> QED BY <4>1, <4>2
    <3> QED BY <3>1, <3>2
  <2>5. Fed(IF finished THEN n + 1 ELSE n) = Run(g, m)
    <3>1. CASE finished
      <4>1. g + (n + 1) - 1 = g + n
        BY <1>2
      <4> QED BY <1>4, <3>1, <4>1 DEF Fed
    <3>2. CASE ~ finished
      <4>1. g + n - 1 = (g + n) - 1
        BY <1>2
      <4>2. m = (g + n) - 1
        BY <3>2
      <4>3. Fed(n) = Run(g, g + n - 1)
        BY <1>4 DEF Fed
      <4> QED BY <3>2, <4>1, <4>2, <4>3
    <3> QED BY <3>1, <3>2
  <2>6. Run(1, m) \in Seq(Nat) /\ Len(Run(1, m)) = m
    BY <2>3 DEF Run
  <2> HIDE DEF m
  <2>7. Run(1, g - 1) \o Run(g, m) = Run(1, m)
    <3>1. ASSUME NEW k \in Nat, NEW l \in Nat, l = k + 1, k <= m
          PROVE  Run(1, k) \o Run(l, m) = Run(1, m)
      BY <2>3, <3>1, RunJoin
    <3>2. g = (g - 1) + 1
      BY <1>2
    <3> HIDE DEF g
    <3> QED BY <1>2, <2>1, <2>3, <3>1, <3>2
  <2>8. words' = Run(1, m) /\ hidden' = Run(1, m)
    BY <1>1, <2>1, <2>4, <2>5, <2>7
  <2> QED BY <1>5, <1>6, <2>3, <2>6, <2>8
<1> QED BY <1>3, <1>4

\* A step that leaves the tokens where they are.
LEMMA SoundsStay ==
  ASSUME InOrder, UNCHANGED vocoder, tts'.buffer = tts.buffer, tts'.made = tts.made
  PROVE  InOrder'
BY DEF InOrder, Sounds, Sound

LEMMA TextChunkStep ==
  ASSUME SpeechInv, NEW n \in Nat, NEW finished \in BOOLEAN, NEW held \in 0 .. 1,
         TextChunk(n, finished, held)
  PROVE  SpeechInv'
<1>1. Chunk(n, finished) /\ mode = "text" /\ UNCHANGED <<mode, tts, vocoder>>
  BY DEF TextChunk
<1>2. PICK m \in Nat :
        /\ words' = Run(1, m) /\ hidden' = words'
        /\ words' \in Seq(Nat) /\ Len(words') = m
        /\ llm' \in [chunk : 0 .. MaxChunks, generated : Nat, finished : BOOLEAN]
        /\ llm'.chunk > 0 /\ llm'.chunk = llm.chunk + 1
        /\ llm'.finished = finished
        /\ m = IF finished THEN llm'.generated ELSE llm'.generated - 1
  BY <1>1, ChunkWords
<1>3. /\ phase' \in {"llm", "flush"}
      /\ phase' = "llm" => ~ llm'.finished /\ llm'.chunk < MaxChunks
  BY <1>2, SpeechAssumption DEF TextChunk, AfterChunk
<1>4. told' \in Nat /\ told' = m - held /\ (finished => held = 0)
  BY <1>2, SMTT(30) DEF TextChunk, SpeechInv, TypeOK
<1>5. TypeOK'
  BY <1>1, <1>2, <1>3, <1>4 DEF SpeechInv, TypeOK
<1>6. InOrder'
  BY <1>1, SoundsStay DEF SpeechInv
<1>7. Held'
  <2>1. phase = "llm"
    BY <1>1 DEF Chunk
  <2>2. Len(vocoder.buffer) = Silence /\ Len(tts.buffer) < AudioChunk /\ vocoder.last = 0
    BY <2>1 DEF SpeechInv, Held
  <2>3. Len(tts.buffer) \in Nat
    BY DEF SpeechInv, TypeOK
  <2> QED BY <1>1, <1>3, <2>2, <2>3, SpeechAssumption DEF Held
<1>8. LeftOver'
  <2>1. finished => told' = m
    BY <1>4
  <2> QED BY <1>2, <1>3, <2>1 DEF LeftOver
<1>9. Speaking'
  BY <1>3 DEF Speaking
<1> QED BY <1>5, <1>6, <1>7, <1>8, <1>9 DEF SpeechInv

LEMMA SpeechChunkStep ==
  ASSUME SpeechInv, NEW n \in Nat, NEW finished \in BOOLEAN, SpeechChunk(n, finished)
  PROVE  SpeechInv'
<1>1. /\ Chunk(n, finished) /\ mode = "audio" /\ UNCHANGED <<mode, vocoder, told>>
      /\ phase' = "tts" /\ tts' = [tts EXCEPT !.samples = 0]
  BY DEF SpeechChunk
<1>2. PICK m \in Nat :
        /\ words' = Run(1, m) /\ hidden' = words'
        /\ words' \in Seq(Nat) /\ Len(words') = m
        /\ llm' \in [chunk : 0 .. MaxChunks, generated : Nat, finished : BOOLEAN]
        /\ llm'.chunk > 0 /\ llm'.chunk = llm.chunk + 1
        /\ llm'.finished = finished
        /\ m = IF finished THEN llm'.generated ELSE llm'.generated - 1
  BY <1>1, ChunkWords
<1>3. /\ tts' \in [buffer : Seq(Nat), made : Nat, samples : 0 .. MaxSamples]
      /\ tts'.buffer = tts.buffer /\ tts'.made = tts.made
  <2>1. tts \in [buffer : Seq(Nat), made : Nat, samples : 0 .. MaxSamples]
    BY DEF SpeechInv, TypeOK
  <2>2. 0 \in 0 .. MaxSamples
    BY SpeechAssumption
  <2> QED BY <1>1, <2>1, <2>2
<1>4. TypeOK'
  BY <1>1, <1>2, <1>3 DEF SpeechInv, TypeOK
<1>5. InOrder'
  BY <1>1, <1>3, SoundsStay DEF SpeechInv
<1>6. Held'
  <2>1. phase = "llm"
    BY <1>1 DEF Chunk
  <2> QED BY <1>1, <1>3, <2>1 DEF SpeechInv, Held
<1>7. LeftOver'
  BY <1>1, <1>2 DEF LeftOver
<1>8. Speaking'
  BY <1>1 DEF Speaking
<1> QED BY <1>4, <1>5, <1>6, <1>7, <1>8 DEF SpeechInv

\* A token behind those in line, which the vocoder takes when its chunk is full.
LEMMA SampleStep ==
  ASSUME SpeechInv, NEW held \in 0 .. 1, Sample(held)
  PROVE  SpeechInv'
<1> DEFINE buffer == Append(tts.buffer, tts.made + 1)
           batch == SubSeq(buffer, 1, AudioChunk)
<1>0. /\ phase = "tts" /\ tts.samples < MaxSamples
      /\ UNCHANGED <<mode, phase, llm, words, hidden>>
      /\ vocoder \in Vocoder
      /\ tts \in [buffer : Seq(Nat), made : Nat, samples : 0 .. MaxSamples]
      /\ AudioChunk \in Nat \ {0} /\ Silence \in Nat /\ Lookahead = Silence /\ MaxSamples \in Nat
  BY SpeechAssumption DEF Sample, SpeechInv, TypeOK, Vocoder
<1>1. PICK a, b, c \in Nat :
        /\ Line(a, b, c, tts.made)
        /\ b - a = Len(vocoder.buffer) /\ c - b = Len(tts.buffer)
        /\ vocoder.said = Sounds(0, a)
        /\ vocoder.buffer = Sounds(a, b)
        /\ tts.buffer = Sounds(b, c)
  BY Positions DEF SpeechInv
<1>2. /\ b - a = Silence /\ c - b < AudioChunk /\ vocoder.last = 0
      /\ Len(vocoder.buffer) = Silence /\ Len(tts.buffer) < AudioChunk
  BY <1>0, <1>1 DEF SpeechInv, Held
<1>3. PICK e \in Nat : e = c + 1
  OBVIOUS
<1>4. Line(a, b, e, tts.made + 1)
  <2>1. a \in Nat /\ b \in Nat /\ a <= b /\ b <= c /\ tts.made \in Nat /\ c = Silence + tts.made
    BY <1>1 DEF Line
  <2>2. b <= e /\ tts.made + 1 \in Nat /\ e = Silence + (tts.made + 1)
    BY <1>0, <1>3, <2>1
  <2> QED BY <2>1, <2>2 DEF Line
<1>5. buffer = Sounds(b, e)
  <2>1. Line(a, b, c, tts.made) /\ tts.buffer = Sounds(b, c)
    BY <1>1
  <2> QED BY <1>4, <2>1, SoundsNext
<1>10. Len(buffer) = e - b /\ buffer \in Seq(Nat)
  <2>1. Len(buffer) = Len(tts.buffer) + 1 /\ buffer \in Seq(Nat)
    BY <1>0
  <2>2. c - b + 1 = e - b
    BY <1>3
  <2> QED BY <1>1, <2>1, <2>2
<1>6. ASSUME NEW v \in Vocoder, vocoder' = v, v.last = 0,
             NEW rest \in Seq(Nat),
             tts' = [buffer |-> rest, made |-> tts.made + 1, samples |-> tts.samples + 1],
             told' \in Nat, Len(v.buffer) = Silence, Len(rest) < AudioChunk, InOrder'
      PROVE  SpeechInv'
  <2>1. tts' \in [buffer : Seq(Nat), made : Nat, samples : 0 .. MaxSamples]
    BY <1>0, <1>6
  <2>2. TypeOK'
    BY <1>0, <1>6, <2>1 DEF SpeechInv, TypeOK, Vocoder
  <2>3. Held'
    BY <1>0, <1>6 DEF Held
  <2>4. LeftOver'
    BY <1>0 DEF SpeechInv, LeftOver
  <2>5. Speaking'
    BY <1>0 DEF SpeechInv, Speaking
  <2> QED BY <1>6, <2>2, <2>3, <2>4, <2>5 DEF SpeechInv
<1>7. told' \in Nat
  <2>1. told \in Nat /\ words \in Seq(Nat)
    BY DEF SpeechInv, TypeOK
  <2>2. told' = told \/ (told' = Len(words) - held /\ Len(words) - held >= told)
    BY DEF Sample, Tell
  <2> QED BY <2>1, <2>2
<1>8. CASE Len(buffer) >= AudioChunk
  <2>1. e - b = AudioChunk /\ Len(buffer) = AudioChunk
    BY <1>0, <1>2, <1>3, <1>8, <1>10
  <2>2. batch = Sounds(b, e) /\ SubSeq(buffer, AudioChunk + 1, Len(buffer)) = <<>>
    <3>1. batch = buffer /\ SubSeq(buffer, AudioChunk + 1, Len(buffer)) = <<>>
      <4> HIDE DEF buffer
      <4> QED BY <1>0, <1>10, <2>1
    <3> QED BY <3>1, <1>5
  <2>3. PICK d \in Nat : d = a + AudioChunk
    BY <1>0
  <2>4. Chunked(a, b, e, d) /\ Line(d, e, e, tts.made + 1) /\ e - d = Silence
    <3>1. /\ a \in Nat /\ b \in Nat /\ e \in Nat /\ a <= b /\ b <= e
          /\ tts.made + 1 \in Nat /\ e = Silence + (tts.made + 1)
      BY <1>4 DEF Line
    <3>2. a <= d /\ d - a = AudioChunk /\ d <= e /\ e - d = Silence /\ e <= e
      BY <1>0, <1>2, <2>1, <2>3, <3>1, SMTT(30)
    <3> QED BY <1>0, <2>3, <3>1, <3>2 DEF Chunked, Line
  <2>5. vocoder' = Taken(vocoder, batch, 0)
        /\ tts' = [buffer |-> <<>>, made |-> tts.made + 1, samples |-> tts.samples + 1]
    BY <1>8, <2>2 DEF Sample
  <2>6. vocoder' = [buffer |-> Sounds(d, e), said |-> Sounds(0, d), last |-> vocoder.last]
    <3>1. /\ vocoder \in Vocoder /\ vocoder.said = Sounds(0, a) /\ vocoder.buffer = Sounds(a, b)
          /\ batch = Sounds(b, e) /\ Chunked(a, b, e, d)
      BY <1>0, <1>1, <2>2, <2>4
    <3> HIDE DEF batch
    <3>2. Taken(vocoder, batch, 0)
            = [buffer |-> Sounds(d, e), said |-> Sounds(0, d), last |-> vocoder.last]
      BY <3>1, TakenFull
    <3> QED BY <2>5, <3>2
  <2>7. Sounds(e, e) = <<>>
    BY <1>3 DEF Sounds
  <2>8. /\ InOrder' /\ Len(vocoder'.buffer) = e - d
        /\ vocoder'.said \in Seq(Nat) /\ vocoder'.buffer \in Seq(Nat)
    <3>1. /\ Line(d, e, e, tts'.made) /\ vocoder'.said = Sounds(0, d)
          /\ vocoder'.buffer = Sounds(d, e) /\ tts'.buffer = Sounds(e, e)
      BY <2>4, <2>5, <2>6, <2>7
    <3> QED BY <3>1, InOrderNext, Zenon
  <2>9. vocoder' \in Vocoder /\ vocoder'.last = 0 /\ Len(vocoder'.buffer) = Silence
    BY <1>0, <1>2, <2>4, <2>6, <2>8 DEF Vocoder
  <2>10. <<>> \in Seq(Nat) /\ Len(<<>>) < AudioChunk
    BY <1>0
  <2> QED BY <1>6, <1>7, <2>5, <2>8, <2>9, <2>10
<1>9. CASE ~ (Len(buffer) >= AudioChunk)
  <2>1. /\ vocoder' = vocoder
        /\ tts' = [buffer |-> buffer, made |-> tts.made + 1, samples |-> tts.samples + 1]
    BY <1>9 DEF Sample
  <2>2. Len(buffer) < AudioChunk /\ buffer \in Seq(Nat)
    BY <1>0, <1>3, <1>9, <1>10
  <2>3. InOrder'
    BY <1>1, <1>4, <1>5, <2>1, InOrderNext
  <2> HIDE DEF buffer
  <2> QED BY <1>0, <1>2, <1>6, <1>7, <2>1, <2>2, <2>3
<1> QED BY <1>8, <1>9

\* The end token of the last text: the vocoder has all that was made.
LEMMA SampleEndStep ==
  ASSUME SpeechInv, NEW held \in 0 .. 1, SampleEnd(held)
  PROVE  SpeechInv'
<1>0. /\ phase = "tts" /\ phase' = AfterTts
      /\ UNCHANGED <<mode, llm, words, hidden>>
      /\ vocoder \in Vocoder
      /\ tts \in [buffer : Seq(Nat), made : Nat, samples : 0 .. MaxSamples]
      /\ llm \in [chunk : 0 .. MaxChunks, generated : Nat, finished : BOOLEAN]
      /\ AudioChunk \in Nat \ {0} /\ Silence \in Nat \ {0} /\ Lookahead = Silence /\ MaxChunks \in Nat
  BY SpeechAssumption DEF SampleEnd, SpeechInv, TypeOK, Vocoder
<1>1. PICK a, b, c \in Nat :
        /\ Line(a, b, c, tts.made)
        /\ b - a = Len(vocoder.buffer) /\ c - b = Len(tts.buffer)
        /\ vocoder.said = Sounds(0, a)
        /\ vocoder.buffer = Sounds(a, b)
        /\ tts.buffer = Sounds(b, c)
  BY Positions DEF SpeechInv
<1>2. /\ b - a = Silence /\ c - b < AudioChunk /\ vocoder.last = 0
      /\ Len(vocoder.buffer) = Silence /\ Len(tts.buffer) < AudioChunk
  BY <1>0, <1>1 DEF SpeechInv, Held
<1>3. /\ phase' \in {"llm", "flush"}
      /\ llm.finished => phase' = "flush"
      /\ phase' = "llm" => ~ llm.finished /\ llm.chunk < MaxChunks
  BY <1>0 DEF AfterTts
<1>4. mode = "audio"
  BY <1>0 DEF SpeechInv, Speaking
<1>5. LeftOver'
  BY <1>0, <1>3, <1>4 DEF SpeechInv, LeftOver
<1>6. told' \in Nat
  <2>1. told \in Nat /\ words \in Seq(Nat)
    BY DEF SpeechInv, TypeOK
  <2>2. told' = told \/ (told' = Len(words) - held /\ Len(words) - held >= told)
    BY DEF SampleEnd, Tell
  <2> QED BY <2>1, <2>2
<1>7. Speaking'
  BY <1>3 DEF Speaking
<1>8. CASE llm.finished
  <2>1. vocoder' = Taken(vocoder, tts.buffer, 1) /\ tts' = [tts EXCEPT !.buffer = <<>>]
    BY <1>8 DEF SampleEnd
  <2>2. /\ a \in Nat /\ b \in Nat /\ c \in Nat /\ a <= b /\ b <= c
        /\ c - a < AudioChunk + Lookahead /\ c - a >= Silence
        /\ Line(a, c, c, tts.made)
    BY <1>0, <1>1, <1>2, SMTT(30) DEF Line
  <2>3. vocoder' = [vocoder EXCEPT !.buffer = Sounds(a, c)]
    BY <1>0, <1>1, <2>1, <2>2, TakenRest, SMTT(40)
  <2>4. tts'.buffer = Sounds(c, c) /\ tts'.made = tts.made
        /\ tts' \in [buffer : Seq(Nat), made : Nat, samples : 0 .. MaxSamples]
    <3>1. Sounds(c, c) = <<>> /\ <<>> \in Seq(Nat)
      BY <2>2 DEF Sounds
    <3>2. tts'.buffer = <<>> /\ tts'.made = tts.made
      BY <1>0, <2>1
    <3>3. tts' \in [buffer : Seq(Nat), made : Nat, samples : 0 .. MaxSamples]
      BY <1>0, <2>1, <3>1
    <3> QED BY <3>1, <3>2, <3>3
  <2>5. /\ InOrder' /\ Len(vocoder'.buffer) = c - a
        /\ vocoder'.said \in Seq(Nat) /\ vocoder'.buffer \in Seq(Nat)
    <3>1. /\ Line(a, c, c, tts'.made) /\ vocoder'.said = Sounds(0, a)
          /\ vocoder'.buffer = Sounds(a, c) /\ tts'.buffer = Sounds(c, c)
      BY <1>0, <1>1, <2>2, <2>3, <2>4 DEF Vocoder
    <3> QED BY <3>1, InOrderNext, Zenon
  <2>6. vocoder' \in Vocoder /\ vocoder'.last = 0
    BY <1>0, <1>2, <2>3, <2>5 DEF Vocoder
  <2>7. TypeOK'
    BY <1>0, <1>3, <1>6, <2>4, <2>6 DEF SpeechInv, TypeOK, Vocoder
  <2>8. Held'
    <3>1. tts'.buffer = <<>> /\ phase' = "flush" /\ Len(<<>>) = 0
      BY <1>3, <1>8, <2>1, <1>0
    <3>2. Len(vocoder'.buffer) >= Silence /\ Len(vocoder'.buffer) + 0 < AudioChunk + Lookahead
      BY <1>0, <2>2, <2>5
    <3> QED BY <2>6, <3>1, <3>2 DEF Held
  <2> QED BY <1>5, <1>7, <2>5, <2>7, <2>8 DEF SpeechInv
<1>9. CASE ~ llm.finished
  <2>1. UNCHANGED <<tts, vocoder, told>>
    BY <1>9 DEF SampleEnd
  <2>2. InOrder'
    BY <2>1, SoundsStay DEF SpeechInv
  <2>3. TypeOK'
    BY <1>0, <1>3, <2>1 DEF SpeechInv, TypeOK
  <2>4. Held'
    <3>1. Len(tts.buffer) \in Nat
      BY <1>0
    <3> QED BY <1>0, <1>2, <1>3, <2>1, <3>1 DEF Held
  <2> QED BY <1>5, <1>7, <2>2, <2>3, <2>4 DEF SpeechInv
<1> QED BY <1>8, <1>9

LEMMA SamplesOutStep ==
  ASSUME SpeechInv, SamplesOut
  PROVE  SpeechInv'
<1>0. /\ phase = "tts" /\ phase' = AfterTts
      /\ UNCHANGED <<mode, llm, words, hidden, tts, vocoder, told>>
      /\ llm \in [chunk : 0 .. MaxChunks, generated : Nat, finished : BOOLEAN]
      /\ Len(tts.buffer) \in Nat
      /\ Silence \in Nat /\ Lookahead = Silence /\ MaxChunks \in Nat
  BY SpeechAssumption DEF SamplesOut, SpeechInv, TypeOK
<1>1. /\ phase' \in {"llm", "flush"}
      /\ phase' = "llm" => ~ llm.finished /\ llm.chunk < MaxChunks
  BY <1>0 DEF AfterTts
<1>2. mode = "audio"
  BY <1>0 DEF SpeechInv, Speaking
<1>3. Len(vocoder.buffer) = Silence /\ Len(tts.buffer) < AudioChunk /\ vocoder.last = 0
  BY <1>0 DEF SpeechInv, Held
<1>4. TypeOK'
  BY <1>0, <1>1 DEF SpeechInv, TypeOK
<1>5. InOrder'
  BY <1>0, SoundsStay DEF SpeechInv
<1>6. Held'
  BY <1>0, <1>1, <1>3, SpeechAssumption DEF Held
<1>7. LeftOver'
  BY <1>0, <1>1, <1>2 DEF SpeechInv, LeftOver
<1>8. Speaking'
  BY <1>1 DEF Speaking
<1> QED BY <1>4, <1>5, <1>6, <1>7, <1>8 DEF SpeechInv

\* The flush: what TTS and the vocoder hold is spoken, in one last call.
LEMMA FlushStep ==
  ASSUME SpeechInv, NEW held \in 0 .. 1, Flush(held)
  PROVE  SpeechInv'
<1> DEFINE taken == IF tts.buffer # <<>> THEN Taken(vocoder, tts.buffer, 1) ELSE vocoder
<1>0. /\ phase = "flush" /\ mode = "audio" /\ phase' = "over"
      /\ UNCHANGED <<mode, llm, words, hidden>>
      /\ tts' = [tts EXCEPT !.buffer = <<>>]
      /\ vocoder \in Vocoder
      /\ tts \in [buffer : Seq(Nat), made : Nat, samples : 0 .. MaxSamples]
      /\ words \in Seq(Nat)
      /\ Silence \in Nat \ {0} /\ Lookahead = Silence
  BY SpeechAssumption DEF Flush, SpeechInv, TypeOK, Vocoder
<1>1. PICK a, b, c \in Nat :
        /\ Line(a, b, c, tts.made)
        /\ b - a = Len(vocoder.buffer) /\ c - b = Len(tts.buffer)
        /\ vocoder.said = Sounds(0, a)
        /\ vocoder.buffer = Sounds(a, b)
        /\ tts.buffer = Sounds(b, c)
  BY Positions DEF SpeechInv
<1>2. /\ Len(vocoder.buffer) >= Silence /\ vocoder.last = 0
      /\ Len(vocoder.buffer) + Len(tts.buffer) < AudioChunk + Lookahead
  BY <1>0 DEF SpeechInv, Held
<1>3. /\ a <= b /\ b <= c /\ a <= c /\ c - a < AudioChunk + Lookahead /\ c - a >= Silence
      /\ Line(c, c, c, tts.made)
  <2>1. a \in Nat /\ b \in Nat /\ c \in Nat /\ a <= b /\ b <= c
    BY <1>1 DEF Line
  <2>2. b - a >= Silence /\ (b - a) + (c - b) < AudioChunk + Lookahead
    BY <1>1, <1>2
  <2>3. AudioChunk \in Nat
    BY SpeechAssumption
  <2>4. a <= c /\ c - a < AudioChunk + Lookahead /\ c - a >= Silence /\ c <= c
    BY <1>0, <2>1, <2>2, <2>3
  <2> QED BY <1>1, <2>1, <2>4 DEF Line
<1>4. taken = [vocoder EXCEPT !.buffer = Sounds(a, c)]
  <2>1. CASE tts.buffer # <<>>
    <3>1. Taken(vocoder, tts.buffer, 1) = [vocoder EXCEPT !.buffer = Sounds(a, c)]
      BY <1>0, <1>1, <1>3, TakenRest
    <3> QED BY <2>1, <3>1
  <2>2. CASE tts.buffer = <<>>
    <3>1. b = c
      BY <1>1, <1>3, <2>2
    <3> QED BY <1>0, <1>1, <2>2, <3>1 DEF Vocoder
  <2> QED BY <2>1, <2>2
<1>5. taken.said = Sounds(0, a) /\ taken.buffer = Sounds(a, c) /\ taken.last = 0
  BY <1>0, <1>1, <1>2, <1>4 DEF Vocoder
<1>6. Sounds(a, c) \in Seq(Nat) /\ Len(Sounds(a, c)) = c - a
  BY <1>3, SoundsType
<1>7. taken.buffer # <<>>
  BY <1>0, <1>3, <1>5, <1>6
<1>8. vocoder' = [buffer |-> <<>>, said |-> Sounds(0, c), last |-> 1] /\ told' = Len(words)
  <2>1. vocoder' = Stream(taken, taken.buffer, 1, <<>>) /\ told' = Len(words)
    BY <1>7 DEF Flush
  <2>2. Spoken(Sounds(a, c), 1) = Sounds(a, c)
    <3>1. SubSeq(Sounds(a, c), 1, Len(Sounds(a, c))) = Sounds(a, c)
      BY <1>6
    <3> QED BY <3>1 DEF Spoken
  <2>3. Sounds(0, a) \o Sounds(a, c) = Sounds(0, c)
    <3>1. 0 \in Nat /\ 0 <= a
      OBVIOUS
    <3> QED BY <1>3, <3>1, SoundsJoin
  <2> HIDE DEF taken
  <2>4. Stream(taken, taken.buffer, 1, <<>>) = [buffer |-> <<>>, said |-> Sounds(0, c), last |-> 1]
    BY <1>5, <2>2, <2>3 DEF Stream
  <2> QED BY <2>1, <2>4
<1>9. /\ tts' \in [buffer : Seq(Nat), made : Nat, samples : 0 .. MaxSamples]
      /\ tts'.made = tts.made /\ tts'.buffer = <<>>
  <2>1. <<>> \in Seq(Nat)
    OBVIOUS
  <2> QED BY <1>0, <2>1
<1>10. InOrder' /\ vocoder'.said \in Seq(Nat)
  <2>1. Sounds(c, c) = <<>>
    BY DEF Sounds
  <2>2. /\ Line(c, c, c, tts'.made) /\ vocoder'.said = Sounds(0, c)
        /\ vocoder'.buffer = Sounds(c, c) /\ tts'.buffer = Sounds(c, c)
    BY <1>3, <1>8, <1>9, <2>1
  <2> QED BY <2>2, InOrderNext, Zenon
<1>11. TypeOK'
  <2>1. vocoder' \in Vocoder
    BY <1>8, <1>10 DEF Vocoder
  <2>2. told' \in Nat
    BY <1>0, <1>8
  <2> QED BY <1>0, <1>9, <2>1, <2>2 DEF SpeechInv, TypeOK, Vocoder
<1>12. Held'
  BY <1>0, <1>8, <1>9 DEF Held
<1>13. LeftOver'
  BY <1>0, <1>8 DEF SpeechInv, LeftOver, TypeOK
<1>14. Speaking'
  BY <1>0 DEF Speaking
<1> QED BY <1>10, <1>11, <1>12, <1>13, <1>14 DEF SpeechInv

LEMMA QuietSteps ==
  ASSUME SpeechInv, ChunkRaises \/ TextOver \/ UNCHANGED vars
  PROVE  SpeechInv'
<1>1. /\ UNCHANGED <<mode, llm, words, hidden, tts, vocoder, told>>
      /\ phase' \in {phase, "raised"} \/ (phase' = "over" /\ phase = "flush" /\ mode = "text")
  BY DEF ChunkRaises, TextOver, vars
<1>2. TypeOK'
  BY <1>1 DEF SpeechInv, TypeOK
<1>3. InOrder'
  BY <1>1, SoundsStay DEF SpeechInv
<1>4. Held'
  <2>1. vocoder.last = 0 \/ phase' = phase
    BY <1>1 DEF ChunkRaises, TextOver, vars, SpeechInv, Held
  <2> QED BY <1>1, <2>1 DEF SpeechInv, Held, ChunkRaises, TextOver, vars
<1>5. LeftOver'
  BY <1>1 DEF SpeechInv, LeftOver, ChunkRaises, TextOver, vars
<1>6. Speaking'
  BY <1>1 DEF SpeechInv, Speaking, ChunkRaises, TextOver, vars
<1> QED BY <1>2, <1>3, <1>4, <1>5, <1>6 DEF SpeechInv

LEMMA SpeechStep == SpeechInv /\ [Next]_vars => SpeechInv'
<1> SUFFICES ASSUME SpeechInv, [Next]_vars PROVE SpeechInv'
  OBVIOUS
<1>1. ASSUME NEW n \in 0 .. GenChunk + 1, NEW finished \in BOOLEAN, NEW held \in 0 .. 1,
             TextChunk(n, finished, held)
      PROVE  SpeechInv'
  <2>1. n \in Nat
    BY SpeechAssumption
  <2> QED BY <1>1, <2>1, TextChunkStep
<1>2. ASSUME NEW n \in 0 .. GenChunk + 1, NEW finished \in BOOLEAN, SpeechChunk(n, finished)
      PROVE  SpeechInv'
  <2>1. n \in Nat
    BY SpeechAssumption
  <2> QED BY <1>2, <2>1, SpeechChunkStep
<1>3. ASSUME NEW held \in 0 .. 1, Sample(held)
      PROVE  SpeechInv'
  BY <1>3, SampleStep
<1>4. ASSUME NEW held \in 0 .. 1, SampleEnd(held)
      PROVE  SpeechInv'
  BY <1>4, SampleEndStep
<1>5. ASSUME NEW held \in 0 .. 1, Flush(held)
      PROVE  SpeechInv'
  BY <1>5, FlushStep
<1>6. CASE SamplesOut
  BY <1>6, SamplesOutStep
<1>7. CASE ChunkRaises \/ TextOver \/ UNCHANGED vars
  BY <1>7, QuietSteps
<1> QED BY <1>1, <1>2, <1>3, <1>4, <1>5, <1>6, <1>7 DEF Next

LEMMA SpeechInvariant == Spec => []SpeechInv
BY SpeechInit, SpeechStep, PTL DEF Spec

\* The state keeps its type.
THEOREM SpeechTypeOK == Spec => []TypeOK
<1>1. SpeechInv => TypeOK
  BY DEF SpeechInv
<1> QED BY <1>1, SpeechInvariant, PTL

\* Speech is conditioned on each word of the answer once, with its own hidden
\* state, and on all of them when the model ends the answer: the token that
\* streaming_generate holds back at the end of a chunk is neither lost nor doubled.
THEOREM SpeechEachWordOnce == Spec => []EachWordOnce
<1>1. SpeechInv => EachWordOnce
  BY DEF SpeechInv, TypeOK, LeftOver, EachWordOnce
<1> QED BY <1>1, SpeechInvariant, PTL

\* Each audio token is spoken once, in order, and the vocoder's last call is its
\* only "last" one: what the three buffers of the path hold is spoken at the end.
THEOREM SpeechEachSoundOnce == Spec => []EachSoundOnce
<1>1. SpeechInv => EachSoundOnce
  <2> SUFFICES ASSUME SpeechInv PROVE EachSoundOnce
    OBVIOUS
  <2>1. vocoder.said \in Seq(Nat) /\ Silence \in Nat /\ tts.made \in Nat
    BY SpeechAssumption DEF SpeechInv, TypeOK
  <2>2. phase = "over" /\ mode = "audio" => Len(vocoder.said) = Silence + tts.made
    <3>1. ASSUME vocoder.buffer = <<>>, tts.buffer = <<>> PROVE Len(vocoder.said) = Silence + tts.made
      <4>1. Len(vocoder.buffer) = 0 /\ Len(tts.buffer) = 0 /\ Len(vocoder.said) \in Nat
        BY <2>1, <3>1
      <4>2. Len(vocoder.said) + Len(vocoder.buffer) + Len(tts.buffer) = Silence + tts.made
        BY DEF SpeechInv, InOrder
      <4> QED BY <4>1, <4>2
    <3> QED BY <3>1 DEF SpeechInv, Held
  <2> QED BY <2>2 DEF SpeechInv, InOrder, Held, EachSoundOnce
<1> QED BY <1>1, SpeechInvariant, PTL

\* The text of an answer that the model ends is told to the client to its end,
\* with the last call of the vocoder if not before.
THEOREM SpeechAllTextTold == Spec => []AllTextTold
<1>1. SpeechInv => AllTextTold
  BY DEF SpeechInv, LeftOver, AllTextTold
<1> QED BY <1>1, SpeechInvariant, PTL

=============================================================================
