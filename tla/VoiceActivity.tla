---------------------------- MODULE VoiceActivity ----------------------------
(***************************************************************************)
(* StreamingVAD (vad/vad.py): audio comes in pieces of any length and is   *)
(* cut into windows; each window is loud (at or above the threshold),      *)
(* quiet (below the lower one), or between.  Speech begins with a loud     *)
(* window and ends when quiet windows, with nothing louder between, last   *)
(* for MinSilence.                                                         *)
(*                                                                         *)
(* A sample is named by its place in the audio that the client sent; a     *)
(* window remembers its samples and how loud it is.                        *)
(***************************************************************************)
EXTENDS Integers, Sequences

CONSTANTS
  Window,       \* window_size_samples
  MinSpeech,    \* min_speech_duration_ms, in samples
  MinSilence    \* min_silence_duration_ms, in samples

ASSUME VadAssumption ==
  /\ Window \in Nat \ {0}
  /\ MinSpeech \in Nat
  /\ MinSilence \in Nat

Loudness == {"quiet", "between", "loud"}

\* __init__ and reset().  now counts the samples of whole windows since; a
\* silence of 0 is none.
NewVad == [triggered |-> FALSE, speech |-> <<>>, start |-> 0, now |-> 0,
           silence |-> 0, leftover |-> <<>>]

\* The speech begins with this window, or has begun.
Triggered(v, loudness) ==
  IF loudness = "loud" /\ ~ v.triggered
  THEN [v EXCEPT !.triggered = TRUE, !.start = v.now, !.speech = <<>>, !.silence = 0]
  ELSE v

Kept(v, window) ==
  IF v.triggered THEN [v EXCEPT !.speech = Append(@, window)] ELSE v

\* A quiet window begins the silence, extends it, or ends the speech.  Every
\* other window ends the silence.
SilenceFrom(v) == IF v.silence = 0 THEN v.now ELSE v.silence
SpeechEnds(v) == v.now - SilenceFrom(v) + Window >= MinSilence
LongEnough(v) == v.now - v.start >= MinSpeech

Ended(v) == [v EXCEPT !.triggered = FALSE, !.speech = <<>>, !.silence = 0]

\* Mutant of Silenced: only a loud window ends the silence.
SilencedByLoud(v, loudness) ==
  IF ~ v.triggered THEN v
  ELSE IF loudness = "quiet"
       THEN IF SpeechEnds(v) THEN Ended(v) ELSE [v EXCEPT !.silence = SilenceFrom(v)]
       ELSE [v EXCEPT !.silence = IF loudness = "loud" THEN 0 ELSE @]

Silenced(v, loudness) ==
  IF ~ v.triggered THEN v
  ELSE IF loudness = "quiet"
       THEN IF SpeechEnds(v) THEN Ended(v) ELSE [v EXCEPT !.silence = SilenceFrom(v)]
       ELSE [v EXCEPT !.silence = 0]

\* One turn of the loop, on the VAD and the result so far.
FeedWindow(fed, window) ==
  LET v == Kept(Triggered(fed.vad, window.loudness), window)
      over == window.loudness = "quiet" /\ v.triggered /\ SpeechEnds(v)
  IN  [vad |-> [Silenced(v, window.loudness) EXCEPT !.now = @ + Window],
       segment |-> IF over /\ LongEnough(v) THEN v.speech ELSE fed.segment]

Windows(v, samples) == Len(v.leftover \o samples) \div Window

\* The windows that what was left over fills with the new samples, and what is
\* left of both.
WindowAt(v, samples, verdict, k) ==
  [samples |-> SubSeq(v.leftover \o samples, (k - 1) * Window + 1, k * Window),
   loudness |-> verdict[k]]

Rest(v, samples) ==
  SubSeq(v.leftover \o samples, Windows(v, samples) * Window + 1, Len(v.leftover \o samples))

\* The VAD and the result after each turn of the loop.
AfterWindows(v, samples, verdict) ==
  LET after[k \in 0 .. Windows(v, samples)] ==
        IF k = 0 THEN [vad |-> [v EXCEPT !.leftover = <<>>], segment |-> <<>>]
        ELSE FeedWindow(after[k - 1], WindowAt(v, samples, verdict, k))
  IN  after

\* Mutant of Feed: the samples that have been used stay with the rest.
FeedAgain(v, samples, verdict) ==
  [AfterWindows(v, samples, verdict)[Windows(v, samples)]
     EXCEPT !.vad.leftover = v.leftover \o samples]

\* feed(): the segment that ends in these samples (the last one if several do)
\* or <<>>, and the VAD after it.  The network's verdicts are given.
Feed(v, samples, verdict) ==
  [AfterWindows(v, samples, verdict)[Windows(v, samples)]
     EXCEPT !.vad.leftover = Rest(v, samples)]
=============================================================================
