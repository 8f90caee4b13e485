--------------------------- MODULE HalfDuplexProofs ---------------------------
(***************************************************************************)
(* Proofs about a half-duplex connection (HalfDuplex) and the voice        *)
(* activity detection that cuts its audio (VoiceActivity), for every value *)
(* of the constants: no bound on what the client sends or on the answers.  *)
(***************************************************************************)
EXTENDS HalfDuplex, SequenceTheorems, WellFoundedInduction, TLAPS

-----------------------------------------------------------------------------
(***************************************************************************)
(* Induction over the natural numbers, for sets.                           *)
(***************************************************************************)
Below == OpToRel(<, Nat)

LEMMA BelowIs == \A x, y \in Nat : <<x, y>> \in Below <=> x < y
  BY DEF Below, OpToRel

\* A set of natural numbers that has 0 and the successor of each of its members
\* has them all.
LEMMA NatSetInduction ==
  ASSUME NEW T \in SUBSET Nat, 0 \in T, \A n \in T : n + 1 \in T
  PROVE  T = Nat
<1>1. SUFFICES ASSUME Nat \ T # {} PROVE FALSE
  OBVIOUS
<1>2. IsWellFoundedOn(Below, Nat)
  BY NatLessThanWellFounded DEF Below
<1>3. PICK m \in Nat \ T : \A y \in Nat \ T : ~ (<<y, m>> \in Below)
  <2> DEFINE U == Nat \ T
  <2>1. U \subseteq Nat /\ U # {}
    BY <1>1
  <2> HIDE DEF U
  <2>2. \E x \in U : \A y \in U : ~ (<<y, x>> \in Below)
    BY <1>2, <2>1, WFMin
  <2> QED
    BY <2>2 DEF U
<1>4. m # 0 /\ m - 1 \in Nat /\ m - 1 \notin T
  OBVIOUS
<1>5. m - 1 \in Nat \ T /\ m - 1 < m
  BY <1>4
<1> QED
  BY <1>3, <1>5, BelowIs

-----------------------------------------------------------------------------
(***************************************************************************)
(* Samples and windows.                                                    *)
(***************************************************************************)
\* The n samples after sample p.
From(p, n) == [i \in 1 .. n |-> p + i]

LEMMA FromTypes ==
  ASSUME NEW p \in Nat, NEW n \in Nat
  PROVE  /\ From(p, n) \in Seq(Nat) /\ Len(From(p, n)) = n
         /\ \A i \in 1 .. n : From(p, n)[i] = p + i
  BY DEF From

LEMMA FromJoin ==
  ASSUME NEW p \in Nat, NEW n \in Nat, NEW m \in Nat
  PROVE  From(p, n) \o From(p + n, m) = From(p, n + m)
<1> DEFINE s == From(p, n)
           t == From(p + n, m)
           u == From(p, n + m)
<1>1. p + n \in Nat /\ n + m \in Nat
  OBVIOUS
<1>2. /\ s \in Seq(Nat) /\ Len(s) = n /\ \A i \in 1 .. n : s[i] = p + i
      /\ t \in Seq(Nat) /\ Len(t) = m /\ \A i \in 1 .. m : t[i] = (p + n) + i
      /\ u \in Seq(Nat) /\ Len(u) = n + m /\ \A i \in 1 .. n + m : u[i] = p + i
  BY <1>1, FromTypes
<1> HIDE DEF s, t, u
<1>3. /\ s \o t \in Seq(Nat) /\ Len(s \o t) = n + m
      /\ \A i \in 1 .. n + m : (s \o t)[i] = IF i <= n THEN s[i] ELSE t[i - n]
  BY <1>2, ConcatProperties, SMTT(40)
<1>4. ASSUME NEW i \in 1 .. n + m PROVE (s \o t)[i] = u[i]
  <2>1. CASE i <= n
    <3>1. i \in 1 .. n
      BY <2>1
    <3> QED
      BY <1>2, <1>3, <2>1, <3>1
  <2>2. CASE ~ (i <= n)
    <3>1. i - n \in 1 .. m /\ (p + n) + (i - n) = p + i
      BY <2>2
    <3>2. (s \o t)[i] = t[i - n]
      BY <1>3, <2>2
    <3>3. t[i - n] = (p + n) + (i - n)
      BY <1>2, <3>1
    <3> QED
      BY <1>2, <3>1, <3>2, <3>3
  <2> QED
    BY <2>1, <2>2
<1>5. s \o t = u
  BY <1>2, <1>3, <1>4, SeqEqual, Zenon
<1> QED
  BY <1>5 DEF s, t, u

LEMMA FromPart ==
  ASSUME NEW p \in Nat, NEW n \in Nat, NEW a \in 0 .. n, NEW b \in a .. n
  PROVE  SubSeq(From(p, n), a + 1, b) = From(p + a, b - a)
<1> DEFINE s == From(p, n)
           t == SubSeq(s, a + 1, b)
           u == From(p + a, b - a)
<1>1. /\ a + 1 \in Int /\ b \in Int /\ p + a \in Nat /\ b - a \in Nat
      /\ b - (a + 1) + 1 = b - a
      /\ \A i \in a + 1 .. b : i \in 1 .. n
      /\ (IF a + 1 <= b THEN b - (a + 1) + 1 ELSE 0) = b - a
      /\ \A i \in 1 .. b - a : a + 1 + i - 1 \in 1 .. n /\ p + (a + 1 + i - 1) = (p + a) + i
  OBVIOUS
<1>2. /\ s \in Seq(Nat) /\ Len(s) = n /\ \A i \in 1 .. n : s[i] = p + i
      /\ u \in Seq(Nat) /\ Len(u) = b - a /\ \A i \in 1 .. b - a : u[i] = (p + a) + i
  BY <1>1, FromTypes
<1> HIDE DEF s, u
<1>3. \A i \in a + 1 .. b : s[i] \in Nat
  BY <1>1, <1>2
<1>4. /\ t \in Seq(Nat)
      /\ Len(t) = IF a + 1 <= b THEN b - (a + 1) + 1 ELSE 0
      /\ \A i \in 1 .. b - (a + 1) + 1 : t[i] = s[a + 1 + i - 1]
  BY <1>1, <1>3, SubSeqProperties
<1> HIDE DEF t
<1>5. Len(t) = b - a /\ \A i \in 1 .. b - a : t[i] = s[a + 1 + i - 1]
  BY <1>1, <1>4, Zenon
<1>6. \A i \in 1 .. b - a : t[i] = u[i]
  BY <1>1, <1>2, <1>5
<1>7. t = u
  BY <1>2, <1>4, <1>5, <1>6, SeqEqual, Zenon
<1> QED
  BY <1>7 DEF s, t, u

LEMMA Times ==
  /\ \A a, w \in Int : (a + 1) * w = a * w + w
  /\ \A a, b, w \in Nat : a <= b => a * w <= b * w
  /\ \A a, w \in Nat : a * w \in Nat
  OBVIOUS
LEMMA Division ==
  ASSUME NEW n \in Nat, NEW w \in Nat \ {0}
  PROVE  /\ n \div w \in Nat /\ (n \div w) * w <= n /\ n < (n \div w) * w + w
         /\ \A k \in 1 .. n \div w : k * w <= n
<1>1. n \div w \in Nat /\ (n \div w) * w <= n /\ n < (n \div w) * w + w
  OBVIOUS
<1>2. \A k \in 1 .. n \div w : k * w <= (n \div w) * w
  BY <1>1, Times
<1> QED
  BY <1>1, <1>2, Times

-----------------------------------------------------------------------------
(***************************************************************************)
(* The speech of which no end has come: it lasts from sample o on, its     *)
(* last q windows are quiet, and no silence in it is long enough.          *)
(***************************************************************************)
Heard == [samples : Seq(Nat), loudness : Loudness]

Speaking(speech, o, q) ==
  /\ speech \in Seq(Heard) /\ speech # <<>>
  /\ speech[1].loudness = "loud"
  /\ \A k \in 1 .. Len(speech) : speech[k].samples = From(o + (k - 1) * Window, Window)
  /\ q \in 0 .. Len(speech) - 1
  /\ \A k \in Len(speech) - q + 1 .. Len(speech) : QuietAt(speech, k)
  /\ ~ QuietAt(speech, Len(speech) - q)
  /\ \A k \in 1 .. Len(speech) : ~ SilenceAt(speech, k)

\* One window more.
LEMMA Appended ==
  ASSUME NEW speech \in Seq(Heard), NEW w \in Heard
  PROVE  /\ Append(speech, w) \in Seq(Heard) /\ Append(speech, w) # <<>>
         /\ Len(Append(speech, w)) = Len(speech) + 1
         /\ Len(speech) \in Nat
         /\ \A k \in 1 .. Len(speech) : Append(speech, w)[k] = speech[k]
         /\ Append(speech, w)[Len(speech) + 1] = w
         /\ \A k \in 1 .. Len(speech) + 1 : k \in 1 .. Len(speech) \/ k = Len(speech) + 1
  BY AppendProperties, LenProperties

\* The silences there were are those there are.
LEMMA SilenceStays ==
  ASSUME NEW speech \in Seq(Heard), NEW w \in Heard, NEW k \in 1 .. Len(speech)
  PROVE  SilenceAt(Append(speech, w), k) <=> SilenceAt(speech, k)
<1>1. \A i \in 1 .. k : Append(speech, w)[i] = speech[i]
  BY Appended
<1>2. Len(speech) \in Nat /\ k \in 1 .. k
  BY LenProperties
<1>3. \A i \in 1 .. k : QuietAt(Append(speech, w), i) <=> QuietAt(speech, i)
  BY <1>1 DEF QuietAt
<1>4. \A j \in 1 .. k : \A i \in j .. k : i \in 1 .. k
  OBVIOUS
<1> QED
  BY <1>2, <1>3, <1>4, Zenon DEF SilenceAt

\* The silence after q quiet windows is long enough, or is not.
LEMMA SilenceLasts ==
  ASSUME NEW speech, NEW n \in Nat, NEW q \in 1 .. n - 1,
         \A k \in n - q + 1 .. n : QuietAt(speech, k), ~ QuietAt(speech, n - q)
  PROVE  SilenceAt(speech, n) <=> q * Window >= MinSilence
<1>1. n - q + 1 \in 1 .. n /\ n \in n - q + 1 .. n /\ n - (n - q + 1) + 1 = q
  OBVIOUS
<1>2. QuietAt(speech, n)
  BY <1>1
<1>3. ASSUME q * Window >= MinSilence PROVE SilenceAt(speech, n)
  BY <1>1, <1>2, <1>3 DEF SilenceAt
<1>4. ASSUME SilenceAt(speech, n) PROVE q * Window >= MinSilence
  <2>1. PICK j \in 1 .. n : /\ \A i \in j .. n : QuietAt(speech, i)
                            /\ (n - j + 1) * Window >= MinSilence
    BY <1>4 DEF SilenceAt
  <2>2. n - q \notin j .. n
    BY <2>1
  <2>3. n - j + 1 \in Nat /\ q \in Nat /\ n - j + 1 <= q
    BY <2>2
  <2>4. (n - j + 1) * Window <= q * Window /\ (n - j + 1) * Window \in Nat /\ q * Window \in Nat
    BY <2>3, Times, VadAssumption
  <2>5. \A a, b, c \in Nat : a >= c /\ a <= b => b >= c
    OBVIOUS
  <2> QED
    BY <2>1, <2>4, <2>5, VadAssumption
<1> QED
  BY <1>3, <1>4

\* Speech begins with a loud window.
LEMMA SpeakingBegins ==
  ASSUME NEW o \in Nat, NEW w \in Heard, w.loudness = "loud", w.samples = From(o, Window)
  PROVE  Speaking(Append(<<>>, w), o, 0)
<1> DEFINE s == Append(<<>>, w)
<1>1. <<>> \in Seq(Heard) /\ Len(<<>>) = 0
  BY EmptySeq
<1>2. s \in Seq(Heard) /\ s # <<>> /\ Len(s) = 1 /\ s[1] = w
  BY <1>1, Appended
<1> HIDE DEF s
<1>3. ~ QuietAt(s, 1) /\ ~ SilenceAt(s, 1)
  BY <1>2 DEF QuietAt, SilenceAt
<1>4. o + (1 - 1) * Window = o
  BY VadAssumption
<1>5. \A k \in 1 .. 1 : k = 1
  OBVIOUS
<1>6. 0 \in 0 .. 1 - 1 /\ 1 - 0 = 1 /\ \A k \in 1 - 0 + 1 .. 1 : FALSE
  OBVIOUS
<1>7. Speaking(s, o, 0)
  BY <1>2, <1>3, <1>4, <1>5, <1>6 DEF Speaking
<1> QED
  BY <1>7 DEF s

\* A window that does not end the speech lengthens it.
LEMMA SpeakingGoesOn ==
  ASSUME NEW speech, NEW o \in Nat, NEW q, Speaking(speech, o, q), NEW w \in Heard,
         w.samples = From(o + Len(speech) * Window, Window)
  PROVE  /\ w.loudness # "quiet" => Speaking(Append(speech, w), o, 0)
         /\ w.loudness = "quiet" /\ ~ ((q + 1) * Window >= MinSilence) =>
              Speaking(Append(speech, w), o, q + 1)
<1> DEFINE s == Append(speech, w)
<1>1. speech \in Seq(Heard) /\ speech # <<>> /\ q \in 0 .. Len(speech) - 1
  BY DEF Speaking
<1>2. PICK n \in Nat \ {0} : n = Len(speech)
  BY <1>1, EmptySeq
<1>3. /\ s \in Seq(Heard) /\ s # <<>> /\ Len(s) = n + 1
      /\ \A k \in 1 .. n : s[k] = speech[k]
      /\ s[n + 1] = w
  BY <1>1, <1>2, Appended
<1>4. /\ \A k \in 1 .. n + 1 : k \in 1 .. n \/ k = n + 1
      /\ n + 1 - 1 = n /\ 1 \in 1 .. n /\ q \in 0 .. n - 1
  BY <1>1, <1>2
<1>5. s[1].loudness = "loud"
  BY <1>3, <1>4 DEF Speaking
<1>6. \A k \in 1 .. n : ~ SilenceAt(s, k)
  BY <1>1, <1>2, SilenceStays DEF Speaking
<1>7. \A k \in 1 .. n : QuietAt(s, k) <=> QuietAt(speech, k)
  BY <1>3 DEF QuietAt
<1>8. QuietAt(s, n + 1) <=> w.loudness = "quiet"
  BY <1>3 DEF QuietAt
<1>9. \A k \in 1 .. n + 1 : s[k].samples = From(o + (k - 1) * Window, Window)
  <2>1. \A k \in 1 .. n : s[k].samples = From(o + (k - 1) * Window, Window)
    BY <1>2, <1>3 DEF Speaking
  <2>2. ASSUME NEW k \in 1 .. n + 1, k = n + 1
        PROVE  s[k].samples = From(o + (k - 1) * Window, Window)
    <3>1. k - 1 = n
      BY <2>2
    <3>2. s[n + 1].samples = From(o + n * Window, Window)
      BY <1>2, <1>3
    <3> HIDE DEF s
    <3> QED
      BY <2>2, <3>1, <3>2
  <2> QED
    BY <1>4, <2>1, <2>2, Zenon
<1> HIDE DEF s
<1>10. ASSUME w.loudness # "quiet" PROVE Speaking(s, o, 0)
  <2>1. ~ QuietAt(s, n + 1) /\ ~ SilenceAt(s, n + 1)
    BY <1>8, <1>10 DEF SilenceAt
  <2>2. /\ 0 \in 0 .. n + 1 - 1 /\ n + 1 - 0 = n + 1
        /\ \A k \in n + 1 - 0 + 1 .. n + 1 : FALSE
    OBVIOUS
  <2>3. \A k \in 1 .. n + 1 : ~ SilenceAt(s, k)
    BY <1>4, <1>6, <2>1
  <2> QED
    BY <1>3, <1>5, <1>9, <2>1, <2>2, <2>3 DEF Speaking
<1>11. ASSUME w.loudness = "quiet", ~ ((q + 1) * Window >= MinSilence)
       PROVE  Speaking(s, o, q + 1)
  <2>1. \A k \in n - q + 1 .. n : QuietAt(speech, k)
    BY <1>2 DEF Speaking
  <2>2. ~ QuietAt(speech, n - q)
    BY <1>2 DEF Speaking
  <2>3. /\ \A k \in n + 1 - (q + 1) + 1 .. n + 1 : (k \in n - q + 1 .. n /\ k \in 1 .. n) \/ k = n + 1
        /\ n + 1 - (q + 1) = n - q /\ n - q \in 1 .. n
        /\ q + 1 \in 1 .. n + 1 - 1 /\ q + 1 \in 0 .. n + 1 - 1 /\ n + 1 \in Nat
    BY <1>4
  <2>4. \A k \in n + 1 - (q + 1) + 1 .. n + 1 : QuietAt(s, k)
    BY <1>7, <1>8, <1>11, <2>1, <2>3
  <2>5. ~ QuietAt(s, n + 1 - (q + 1))
    BY <1>7, <2>2, <2>3
  <2>6. ~ SilenceAt(s, n + 1)
    BY <1>11, <2>3, <2>4, <2>5, SilenceLasts
  <2>7. \A k \in 1 .. n + 1 : ~ SilenceAt(s, k)
    BY <1>4, <1>6, <2>6
  <2> QED
    BY <1>3, <1>5, <1>9, <2>3, <2>4, <2>5, <2>7 DEF Speaking
<1> QED
  BY <1>10, <1>11 DEF s

\* A quiet window that ends the speech makes a whole segment of it.
LEMMA SpeakingEnds ==
  ASSUME NEW speech, NEW o \in Nat, NEW q, Speaking(speech, o, q), NEW w \in Heard,
         w.samples = From(o + Len(speech) * Window, Window),
         w.loudness = "quiet", (q + 1) * Window >= MinSilence
  PROVE  /\ Append(speech, w) \in Seq(Heard) /\ Append(speech, w) # <<>>
         /\ Whole(Append(speech, w))
         /\ Append(speech, w)[1].samples[1] = o + 1
         /\ LastOf(Append(speech, w)) = o + Len(speech) * Window + Window
<1> DEFINE s == Append(speech, w)
<1>1. speech \in Seq(Heard) /\ speech # <<>> /\ q \in 0 .. Len(speech) - 1
  BY DEF Speaking
<1>2. PICK n \in Nat \ {0} : n = Len(speech)
  BY <1>1, EmptySeq
<1>3. /\ s \in Seq(Heard) /\ s # <<>> /\ Len(s) = n + 1
      /\ \A k \in 1 .. n : s[k] = speech[k]
      /\ s[n + 1] = w
  BY <1>1, <1>2, Appended
<1>4. /\ \A k \in 1 .. n + 1 : k \in 1 .. n \/ k = n + 1
      /\ n + 1 - 1 = n /\ 1 \in 1 .. n /\ q \in 0 .. n - 1
      /\ Window \in Nat /\ 1 \in 1 .. Window /\ Window \in 1 .. Window
  BY <1>1, <1>2, VadAssumption
<1>5. s[1].loudness = "loud"
  BY <1>3, <1>4 DEF Speaking
<1>6. \A k \in 1 .. n : ~ SilenceAt(s, k)
  BY <1>1, <1>2, SilenceStays DEF Speaking
<1>7. \A k \in 1 .. n + 1 : s[k].samples = From(o + (k - 1) * Window, Window)
  <2>1. \A k \in 1 .. n : s[k].samples = From(o + (k - 1) * Window, Window)
    BY <1>2, <1>3 DEF Speaking
  <2>2. ASSUME NEW k \in 1 .. n + 1, k = n + 1
        PROVE  s[k].samples = From(o + (k - 1) * Window, Window)
    <3>1. k - 1 = n
      BY <2>2
    <3>2. s[n + 1].samples = From(o + n * Window, Window)
      BY <1>2, <1>3
    <3> HIDE DEF s
    <3> QED
      BY <2>2, <3>1, <3>2
  <2> QED
    BY <1>4, <2>1, <2>2, Zenon
<1>8. SilenceAt(s, n + 1)
  <2>1. /\ \A k \in n - q + 1 .. n : QuietAt(speech, k)
        /\ ~ QuietAt(speech, n - q)
    BY <1>2 DEF Speaking
  <2>2. /\ \A k \in n + 1 - (q + 1) + 1 .. n + 1 : (k \in n - q + 1 .. n /\ k \in 1 .. n) \/ k = n + 1
        /\ n + 1 - (q + 1) = n - q /\ n - q \in 1 .. n
        /\ q + 1 \in 1 .. n + 1 - 1 /\ n + 1 \in Nat
    BY <1>4
  <2>3. /\ \A k \in 1 .. n : QuietAt(s, k) <=> QuietAt(speech, k)
        /\ QuietAt(s, n + 1)
    BY <1>3 DEF QuietAt
  <2>4. \A k \in n + 1 - (q + 1) + 1 .. n + 1 : QuietAt(s, k)
    BY <2>1, <2>2, <2>3
  <2>5. ~ QuietAt(s, n + 1 - (q + 1))
    BY <2>1, <2>2, <2>3
  <2> QED
    BY <2>2, <2>4, <2>5, SilenceLasts
<1> HIDE DEF s
<1>9. \A k \in 1 .. n + 1 : \A i \in 1 .. Window : s[k].samples[i] = o + (k - 1) * Window + i
  BY <1>7 DEF From
<1>10. ASSUME NEW k \in 1 .. n
       PROVE  s[k + 1].samples[1] = s[k].samples[Window] + 1
  <2>1. k \in 1 .. n + 1 /\ k + 1 \in 1 .. n + 1 /\ k + 1 - 1 = k /\ k - 1 \in Nat /\ k - 1 + 1 = k
    OBVIOUS
  <2>2. k * Window = (k - 1) * Window + Window
    BY <1>4, <2>1, Times
  <2>3. s[k + 1].samples[1] = o + k * Window + 1
    BY <1>4, <1>9, <2>1
  <2>4. s[k].samples[Window] = o + (k - 1) * Window + Window
    BY <1>4, <1>9, <2>1
  <2>5. (k - 1) * Window \in Nat
    BY <1>4, <2>1, Times
  <2> QED
    BY <1>4, <2>2, <2>3, <2>4, <2>5
<1>11. Whole(s)
  BY <1>3, <1>4, <1>5, <1>6, <1>8, <1>10 DEF Whole
<1>12. s[1].samples[1] = o + 1
  <2>1. s[1].samples[1] = o + (1 - 1) * Window + 1
    <3>1. 1 \in 1 .. n + 1
      OBVIOUS
    <3> QED
      BY <1>4, <1>9, <3>1, Zenon
  <2>2. o + (1 - 1) * Window + 1 = o + 1
    BY <1>4
  <2> QED
    BY <2>1, <2>2
<1>13. LastOf(s) = o + n * Window + Window
  <2>1. s[n + 1].samples = From(o + n * Window, Window)
    BY <1>2, <1>3
  <2>2. o + n * Window \in Nat
    BY <1>4, Times
  <2>3. Len(s[n + 1].samples) = Window /\ s[n + 1].samples[Window] = o + n * Window + Window
    BY <1>4, <2>1, <2>2, FromTypes
  <2> QED
    BY <1>3, <2>3 DEF LastOf
<1> QED
  BY <1>2, <1>3, <1>11, <1>12, <1>13 DEF s

-----------------------------------------------------------------------------
(***************************************************************************)
(* The VAD after each window.  z is the sample after which it was new.     *)
(***************************************************************************)
VadType ==
  [triggered : BOOLEAN, speech : Seq(Heard), start : Nat, now : Nat, silence : Nat,
   leftover : Seq(Nat)]

VadOk(v, z) ==
  /\ v \in VadType
  /\ v.triggered =>
       /\ v.now = v.start + Len(v.speech) * Window
       /\ \E q \in Nat :
            /\ Speaking(v.speech, z + v.start, q)
            /\ v.silence = IF q = 0 THEN 0 ELSE v.now - q * Window

\* What comes is after sample floor, and what there is of it too.
Later(v, z, floor) ==
  /\ floor \in Nat
  /\ floor <= z + v.now
  /\ v.triggered => floor <= z + v.start

Last(segment, floor) == IF segment = <<>> THEN floor ELSE LastOf(segment)

\* A segment after sample floor, or none, and a VAD whose speech is after both.
FedOk(fed, z, floor) ==
  /\ VadOk(fed.vad, z)
  /\ fed.segment # <<>> =>
       /\ fed.segment \in Seq(Heard)
       /\ Whole(fed.segment)
       /\ fed.segment[1].samples[1] > floor
  /\ floor <= Last(fed.segment, floor)
  /\ Later(fed.vad, z, Last(fed.segment, floor))

LEMMA NewVadOk ==
  ASSUME NEW z \in Nat
  PROVE  VadOk(NewVad, z) /\ NewVad.leftover = <<>> /\ NewVad.now = 0 /\ ~ NewVad.triggered
  BY DEF VadOk, VadType, NewVad

\* The silence that a quiet window would make of speech with q quiet windows.
LEMMA SilenceCounted ==
  ASSUME NEW v \in VadType, NEW z \in Nat, NEW q \in Nat, Speaking(v.speech, z + v.start, q),
         v.now = v.start + Len(v.speech) * Window,
         v.silence = IF q = 0 THEN 0 ELSE v.now - q * Window
  PROVE  /\ SilenceFrom(v) = v.now - q * Window
         /\ SilenceFrom(v) \in Nat \ {0}
         /\ SpeechEnds(v) <=> (q + 1) * Window >= MinSilence
<1>1. PICK n \in Nat : n = Len(v.speech) /\ q <= n - 1
  BY EmptySeq DEF Speaking
<1>2. Window \in Nat \ {0} /\ MinSilence \in Nat /\ v.start \in Nat /\ v.now \in Nat
  BY VadAssumption DEF VadType
<1>3. q * Window \in Nat /\ n * Window \in Nat /\ (q + 1) * Window = q * Window + Window
  BY <1>1, <1>2, Times
<1>4. (q + 1) * Window <= n * Window
  BY <1>1, <1>2, Times, SMTT(40)
<1>5. v.now - q * Window \in Nat \ {0}
  BY <1>1, <1>2, <1>3, <1>4, SMTT(40)
<1>6. SilenceFrom(v) = v.now - q * Window
  <2>1. CASE q = 0
    BY <1>2, <2>1 DEF SilenceFrom
  <2>2. CASE q # 0
    BY <1>5, <2>2 DEF SilenceFrom
  <2> QED
    BY <2>1, <2>2
<1>7. v.now - (v.now - q * Window) + Window = (q + 1) * Window
  BY <1>2, <1>3
<1> QED
  BY <1>5, <1>6, <1>7 DEF SpeechEnds

\* One turn of the loop: its VAD, field by field, and its segment.
LEMMA FeedWindowFields ==
  ASSUME NEW fed, fed.vad \in VadType, NEW w \in Heard
  PROVE  LET v == fed.vad
             r == FeedWindow(fed, w) IN
         /\ r.vad \in VadType
         /\ r.vad.now = v.now + Window /\ r.vad.leftover = v.leftover
         /\ ~ v.triggered /\ w.loudness # "loud" =>
              ~ r.vad.triggered /\ r.segment = fed.segment
         /\ ~ v.triggered /\ w.loudness = "loud" =>
              /\ r.vad.triggered /\ r.vad.start = v.now /\ r.vad.silence = 0
              /\ r.vad.speech = Append(<<>>, w) /\ r.segment = fed.segment
         /\ v.triggered /\ w.loudness # "quiet" =>
              /\ r.vad.triggered /\ r.vad.start = v.start /\ r.vad.silence = 0
              /\ r.vad.speech = Append(v.speech, w) /\ r.segment = fed.segment
         /\ v.triggered /\ w.loudness = "quiet" /\ ~ SpeechEnds(v) =>
              /\ r.vad.triggered /\ r.vad.start = v.start /\ r.vad.silence = SilenceFrom(v)
              /\ r.vad.speech = Append(v.speech, w) /\ r.segment = fed.segment
         /\ v.triggered /\ w.loudness = "quiet" /\ SpeechEnds(v) =>
              /\ ~ r.vad.triggered
              /\ r.segment \in {fed.segment, Append(v.speech, w)}
<1> DEFINE v == fed.vad
           r == FeedWindow(fed, w)
           t == Triggered(v, w.loudness)
           k == Kept(t, w)
           d == Silenced(k, w.loudness)
<1>1. /\ v \in VadType /\ v.now \in Nat /\ Window \in Nat /\ v.now + Window \in Nat
      /\ v.speech \in Seq(Heard) /\ v.silence \in Nat /\ v.triggered \in BOOLEAN
      /\ <<>> \in Seq(Heard)
  BY VadAssumption DEF VadType
<1>2. /\ Append(<<>>, w) \in Seq(Heard) /\ Append(v.speech, w) \in Seq(Heard)
  BY <1>1, Appended
<1>3. SilenceFrom(v) \in Nat
  BY <1>1 DEF SilenceFrom
<1> HIDE DEF v
<1>4. /\ r.vad = [d EXCEPT !.now = @ + Window]
      /\ r.segment = IF w.loudness = "quiet" /\ k.triggered /\ SpeechEnds(k) /\ LongEnough(k)
                     THEN k.speech ELSE fed.segment
  BY DEF FeedWindow, v
<1> HIDE DEF r
<1>9. ASSUME NEW e \in VadType, r.vad = [e EXCEPT !.now = @ + Window]
      PROVE  /\ r.vad \in VadType /\ r.vad.now = e.now + Window
             /\ r.vad.triggered = e.triggered /\ r.vad.start = e.start
             /\ r.vad.silence = e.silence /\ r.vad.leftover = e.leftover
             /\ r.vad.speech = e.speech
  <2>1. ASSUME NEW B, NEW S, NEW L, NEW n \in Nat,
               NEW f \in [triggered : B, speech : S, start : Nat, now : Nat, silence : Nat,
                          leftover : L]
        PROVE  LET g == [f EXCEPT !.now = n] IN
               /\ g \in [triggered : B, speech : S, start : Nat, now : Nat, silence : Nat,
                         leftover : L]
               /\ g.now = n /\ g.triggered = f.triggered /\ g.start = f.start
               /\ g.silence = f.silence /\ g.leftover = f.leftover /\ g.speech = f.speech
    OBVIOUS
  <2>2. e.now + Window \in Nat
    BY VadAssumption DEF VadType
  <2>3. ASSUME NEW n \in Nat
        PROVE  LET g == [e EXCEPT !.now = n] IN
               /\ g \in VadType
               /\ g.now = n /\ g.triggered = e.triggered /\ g.start = e.start
               /\ g.silence = e.silence /\ g.leftover = e.leftover /\ g.speech = e.speech
    BY <2>1, Zenon DEF VadType
  <2> QED
    BY <1>9, <2>2, <2>3, Zenon
<1>5. CASE ~ v.triggered /\ w.loudness # "loud"
  <2>1. t = v /\ k = v /\ d = v
    BY <1>5 DEF Triggered, Kept, Silenced
  <2> HIDE DEF t, k, d
  <2>2. r.vad = [v EXCEPT !.now = @ + Window] /\ r.segment = fed.segment
    BY <1>4, <1>5, <2>1
  <2> QED
    BY <1>1, <1>5, <2>2 DEF VadType, v, r
<1>6. CASE ~ v.triggered /\ w.loudness = "loud"
  <2>1. t = [v EXCEPT !.triggered = TRUE, !.start = v.now, !.speech = <<>>, !.silence = 0]
    BY <1>6 DEF Triggered
  <2>2. t \in VadType /\ t.triggered /\ t.speech = <<>>
    <3>1. ASSUME NEW e \in Seq(Heard)
          PROVE  [v EXCEPT !.triggered = TRUE, !.start = v.now, !.speech = e, !.silence = 0]
                   \in VadType
      BY <1>1 DEF VadType
    <3>2. t \in VadType
      BY <1>1, <2>1, <3>1
    <3> QED
      BY <1>1, <2>1, <3>2 DEF VadType
  <2> HIDE DEF t
  <2>3. k = [t EXCEPT !.speech = Append(<<>>, w)]
    BY <2>2 DEF Kept
  <2>4. k \in VadType /\ k.triggered
    BY <1>2, <2>2, <2>3 DEF VadType
  <2> HIDE DEF k
  <2>5. d = [k EXCEPT !.silence = 0]
    BY <1>6, <2>4 DEF Silenced
  <2> HIDE DEF d
  <2>6. /\ d \in VadType /\ d.triggered /\ d.start = v.now /\ d.silence = 0 /\ d.now = v.now
        /\ d.leftover = v.leftover /\ d.speech = Append(<<>>, w)
    BY <1>1, <2>1, <2>2, <2>3, <2>4, <2>5 DEF VadType
  <2>7. r.segment = fed.segment
    BY <1>4, <1>6
  <2> QED
    BY <1>1, <1>4, <1>6, <2>6, <2>7 DEF VadType, v, r
<1>7. CASE v.triggered
  <2>1. t = v
    BY <1>7 DEF Triggered
  <2> HIDE DEF t
  <2>2. k = [v EXCEPT !.speech = Append(@, w)]
    BY <1>7, <2>1 DEF Kept
  <2> HIDE DEF k
  <2>3. /\ k \in VadType /\ k.triggered /\ k.start = v.start /\ k.now = v.now
        /\ k.silence = v.silence /\ k.leftover = v.leftover /\ k.speech = Append(v.speech, w)
    BY <1>1, <1>2, <1>7, <2>2 DEF VadType
  <2>4. SilenceFrom(k) = SilenceFrom(v) /\ (SpeechEnds(k) <=> SpeechEnds(v))
    BY <2>3 DEF SilenceFrom, SpeechEnds
  <2>5. CASE w.loudness # "quiet"
    <3>1. d = [k EXCEPT !.silence = 0] /\ r.segment = fed.segment
      BY <1>4, <2>3, <2>5 DEF Silenced
    <3> HIDE DEF d
    <3>2. /\ d \in VadType /\ d.triggered /\ d.start = v.start /\ d.silence = 0
          /\ d.now = v.now /\ d.leftover = v.leftover /\ d.speech = Append(v.speech, w)
      BY <2>3, <3>1 DEF VadType
    <3>3. /\ r.vad \in VadType /\ r.vad.now = v.now + Window
          /\ r.vad.triggered = d.triggered /\ r.vad.start = d.start
          /\ r.vad.silence = d.silence /\ r.vad.leftover = d.leftover
          /\ r.vad.speech = d.speech
      BY <1>4, <1>9, <3>2
    <3> QED
      BY <1>7, <2>5, <3>1, <3>2, <3>3 DEF v, r
  <2>6. CASE w.loudness = "quiet" /\ ~ SpeechEnds(v)
    <3>1. d = [k EXCEPT !.silence = SilenceFrom(v)] /\ r.segment = fed.segment
      BY <1>4, <2>3, <2>4, <2>6 DEF Silenced
    <3> HIDE DEF d
    <3>2. /\ d \in VadType /\ d.triggered /\ d.start = v.start /\ d.silence = SilenceFrom(v)
          /\ d.now = v.now /\ d.leftover = v.leftover /\ d.speech = Append(v.speech, w)
      BY <1>3, <2>3, <3>1 DEF VadType
    <3>3. /\ r.vad \in VadType /\ r.vad.now = v.now + Window
          /\ r.vad.triggered = d.triggered /\ r.vad.start = d.start
          /\ r.vad.silence = d.silence /\ r.vad.leftover = d.leftover
          /\ r.vad.speech = d.speech
      BY <1>4, <1>9, <3>2
    <3> QED
      BY <1>7, <2>6, <3>1, <3>2, <3>3 DEF v, r
  <2>7. CASE w.loudness = "quiet" /\ SpeechEnds(v)
    <3>1. d = [k EXCEPT !.triggered = FALSE, !.speech = <<>>, !.silence = 0]
      BY <2>3, <2>4, <2>7 DEF Silenced, Ended
    <3>2. r.segment \in {fed.segment, Append(v.speech, w)}
      BY <1>4, <2>3
    <3> HIDE DEF d
    <3>3. d \in VadType /\ ~ d.triggered /\ d.now = v.now /\ d.leftover = v.leftover
      BY <1>1, <2>3, <3>1 DEF VadType
    <3> QED
      BY <1>1, <1>4, <1>7, <2>7, <3>2, <3>3 DEF VadType, v, r
  <2> QED
    BY <2>5, <2>6, <2>7
<1> QED
  BY <1>1, <1>5, <1>6, <1>7 DEF v

\* So the loop keeps what it has: a window heard makes the speech longer, ends it,
\* or goes by.
LEMMA FeedWindowOk ==
  ASSUME NEW z \in Nat, NEW floor \in Nat, NEW fed, FedOk(fed, z, floor),
         NEW w \in Heard, w.samples = From(z + fed.vad.now, Window)
  PROVE  FedOk(FeedWindow(fed, w), z, floor)
<1> DEFINE v == fed.vad
           r == FeedWindow(fed, w)
           bar == Last(fed.segment, floor)
<1> SUFFICES FedOk(r, z, floor)
  OBVIOUS
<1>1. /\ v \in VadType /\ v.now \in Nat /\ v.start \in Nat /\ v.triggered \in BOOLEAN
      /\ Window \in Nat \ {0} /\ bar \in Nat /\ floor <= bar
      /\ w.loudness \in Loudness
  BY VadAssumption DEF FedOk, VadOk, VadType, Later, Heard
<1>2. bar <= z + v.now + Window /\ bar <= z + v.now
  BY <1>1 DEF FedOk, Later
<1>3. fed.segment # <<>> =>
        fed.segment \in Seq(Heard) /\ Whole(fed.segment) /\ fed.segment[1].samples[1] > floor
  BY DEF FedOk
<1> HIDE DEF v, r
<1>4. r.vad \in VadType /\ r.vad.now = v.now + Window
  BY <1>1, FeedWindowFields DEF v, r
<1>5. ASSUME r.segment = fed.segment, VadOk(r.vad, z), r.vad.triggered => bar <= z + r.vad.start
      PROVE  FedOk(r, z, floor)
  BY <1>1, <1>2, <1>3, <1>4, <1>5 DEF FedOk, Later
<1> HIDE DEF bar
<1>6. CASE ~ v.triggered /\ w.loudness # "loud"
  <2>1. ~ r.vad.triggered /\ r.segment = fed.segment
    BY <1>1, <1>6, FeedWindowFields DEF v, r
  <2>2. VadOk(r.vad, z)
    BY <1>4, <2>1 DEF VadOk
  <2> QED
    BY <1>5, <2>1, <2>2
<1>7. CASE ~ v.triggered /\ w.loudness = "loud"
  <2>1. /\ r.vad.triggered /\ r.vad.start = v.now /\ r.vad.silence = 0
        /\ r.vad.speech = Append(<<>>, w) /\ r.segment = fed.segment
    BY <1>1, <1>7, FeedWindowFields DEF v, r
  <2>2. Speaking(r.vad.speech, z + r.vad.start, 0)
    BY <1>1, <1>7, <2>1, SpeakingBegins DEF v
  <2>3. Len(r.vad.speech) = 1
    BY <2>1, EmptySeq, AppendProperties
  <2>4. r.vad.now = r.vad.start + Len(r.vad.speech) * Window
    BY <1>1, <1>4, <2>1, <2>3
  <2>5. VadOk(r.vad, z)
    <3>1. 0 \in Nat /\ r.vad.silence = IF 0 = 0 THEN 0 ELSE r.vad.now - 0 * Window
      BY <2>1
    <3> QED
      BY <1>4, <2>2, <2>4, <3>1 DEF VadOk
  <2> QED
    BY <1>2, <1>5, <2>1, <2>5
<1>8. CASE v.triggered
  <2>1. PICK q \in Nat : /\ Speaking(v.speech, z + v.start, q)
                         /\ v.silence = IF q = 0 THEN 0 ELSE v.now - q * Window
    BY <1>8 DEF FedOk, VadOk, v
  <2>2. v.now = v.start + Len(v.speech) * Window /\ bar <= z + v.start
    BY <1>8 DEF FedOk, VadOk, Later, v, bar
  <2>3. /\ SilenceFrom(v) = v.now - q * Window
        /\ SpeechEnds(v) <=> (q + 1) * Window >= MinSilence
    BY <1>1, <2>1, <2>2, SilenceCounted
  <2>4. /\ Len(v.speech) \in Nat /\ v.speech \in Seq(Heard) /\ z + v.start \in Nat
        /\ Len(Append(v.speech, w)) = Len(v.speech) + 1
    BY <1>1, <2>1, Appended DEF Speaking
  <2>5. /\ Len(v.speech) * Window \in Nat
        /\ (Len(v.speech) + 1) * Window = Len(v.speech) * Window + Window
    BY <1>1, <2>4, Times
  <2>6. w.samples = From(z + v.start + Len(v.speech) * Window, Window)
    <3>1. z + v.now = z + v.start + Len(v.speech) * Window
      BY <1>1, <2>2, <2>5
    <3> QED
      BY <3>1 DEF v
  <2>7. v.now + Window = v.start + Len(Append(v.speech, w)) * Window
    BY <1>1, <2>2, <2>4, <2>5
  <2>8. CASE w.loudness # "quiet"
    <3>1. /\ r.vad.triggered /\ r.vad.start = v.start /\ r.vad.silence = 0
          /\ r.vad.speech = Append(v.speech, w) /\ r.segment = fed.segment
      BY <1>1, <1>8, <2>8, FeedWindowFields DEF v, r
    <3>2. Speaking(r.vad.speech, z + r.vad.start, 0)
      BY <2>1, <2>4, <2>6, <2>8, <3>1, SpeakingGoesOn
    <3>3. VadOk(r.vad, z)
      <4>1. 0 \in Nat /\ r.vad.silence = IF 0 = 0 THEN 0 ELSE r.vad.now - 0 * Window
        BY <3>1
      <4> QED
        BY <1>4, <2>7, <3>1, <3>2, <4>1 DEF VadOk
    <3> QED
      BY <1>5, <2>2, <3>1, <3>3
  <2>9. CASE w.loudness = "quiet" /\ ~ SpeechEnds(v)
    <3>1. /\ r.vad.triggered /\ r.vad.start = v.start /\ r.vad.silence = v.now - q * Window
          /\ r.vad.speech = Append(v.speech, w) /\ r.segment = fed.segment
      BY <1>1, <1>8, <2>3, <2>9, FeedWindowFields DEF v, r
    <3>2. Speaking(r.vad.speech, z + r.vad.start, q + 1)
      BY <2>1, <2>3, <2>4, <2>6, <2>9, <3>1, SpeakingGoesOn
    <3>3. r.vad.silence = IF q + 1 = 0 THEN 0 ELSE r.vad.now - (q + 1) * Window
      <4>1. (q + 1) * Window = q * Window + Window /\ q * Window \in Nat /\ q + 1 # 0
        BY <1>1, Times
      <4> QED
        BY <1>1, <1>4, <3>1, <4>1
    <3>4. q + 1 \in Nat
      OBVIOUS
    <3>5. VadOk(r.vad, z)
      BY <1>4, <2>7, <3>1, <3>2, <3>3, <3>4 DEF VadOk
    <3> QED
      BY <1>5, <2>2, <3>1, <3>5
  <2>10. CASE w.loudness = "quiet" /\ SpeechEnds(v)
    <3>1. /\ ~ r.vad.triggered
          /\ r.segment = fed.segment \/ r.segment = Append(v.speech, w)
      BY <1>1, <1>8, <2>10, FeedWindowFields DEF v, r
    <3>2. VadOk(r.vad, z)
      BY <1>4, <3>1 DEF VadOk
    <3>3. CASE r.segment = fed.segment
      BY <1>5, <3>1, <3>2, <3>3
    <3>4. CASE r.segment = Append(v.speech, w)
      <4>1. /\ r.segment \in Seq(Heard) /\ r.segment # <<>>
            /\ Whole(r.segment)
            /\ r.segment[1].samples[1] = z + v.start + 1
            /\ LastOf(r.segment) = z + v.start + Len(v.speech) * Window + Window
        <5> DEFINE o == z + v.start
        <5>1. /\ o \in Nat /\ Speaking(v.speech, o, q)
              /\ w.samples = From(o + Len(v.speech) * Window, Window)
              /\ w.loudness = "quiet" /\ (q + 1) * Window >= MinSilence
          BY <2>1, <2>3, <2>4, <2>6, <2>10
        <5> HIDE DEF o
        <5>2. /\ Append(v.speech, w) \in Seq(Heard) /\ Append(v.speech, w) # <<>>
              /\ Whole(Append(v.speech, w))
              /\ Append(v.speech, w)[1].samples[1] = o + 1
              /\ LastOf(Append(v.speech, w)) = o + Len(v.speech) * Window + Window
          BY <5>1, SpeakingEnds
        <5> QED
          BY <3>4, <5>2 DEF o
      <4>2. LastOf(r.segment) = z + r.vad.now /\ LastOf(r.segment) \in Nat
        <5> DEFINE m == Len(v.speech) * Window
        <5>1. m \in Nat /\ v.now = v.start + m
          BY <2>2, <2>5
        <5> HIDE DEF m
        <5>2. z + v.start + m + Window = z + (v.now + Window) /\ z + (v.now + Window) \in Nat
          BY <1>1, <5>1
        <5> QED
          BY <1>4, <4>1, <5>2 DEF m
      <4>3. z + v.start + 1 > floor /\ floor <= z + v.now + Window
        BY <1>1, <1>2, <2>2
      <4>4. Last(r.segment, floor) = LastOf(r.segment)
        BY <4>1 DEF Last
      <4>5. Later(r.vad, z, LastOf(r.segment))
        BY <3>1, <4>2 DEF Later
      <4>6. r.segment[1].samples[1] > floor
        BY <4>1, <4>3
      <4>7. floor <= LastOf(r.segment)
        BY <1>1, <1>4, <4>2, <4>3
      <4> QED
        BY <3>2, <4>1, <4>4, <4>5, <4>6, <4>7 DEF FedOk
    <3> QED
      BY <3>1, <3>3, <3>4
  <2> QED
    BY <2>8, <2>9, <2>10
<1> QED
  BY <1>1, <1>6, <1>7, <1>8

-----------------------------------------------------------------------------
(***************************************************************************)
(* The loop.                                                               *)
(***************************************************************************)
Start(v) == [vad |-> [v EXCEPT !.leftover = <<>>], segment |-> <<>>]

Loops(f, n, v, samples, verdict) ==
  f = [k \in 0 .. n |-> IF k = 0 THEN Start(v)
                        ELSE FeedWindow(f[k - 1], WindowAt(v, samples, verdict, k))]

\* The recursion of AfterWindows defines it.
LEMMA LoopExists ==
  ASSUME NEW v, NEW samples, NEW verdict, NEW n \in Nat
  PROVE  \E f : Loops(f, n, v, samples, verdict)
<1> DEFINE T == {m \in Nat : \E f : Loops(f, m, v, samples, verdict)}
<1>1. 0 \in T
  <2> DEFINE f == [k \in 0 .. 0 |-> Start(v)]
  <2>1. \A k \in 0 .. 0 : k = 0
    OBVIOUS
  <2>2. Loops(f, 0, v, samples, verdict)
    BY <2>1 DEF Loops
  <2> QED
    BY <2>2
<1>2. ASSUME NEW m \in T PROVE m + 1 \in T
  <2>1. PICK f : Loops(f, m, v, samples, verdict)
    OBVIOUS
  <2> DEFINE new == FeedWindow(f[m], WindowAt(v, samples, verdict, m + 1))
             g == [k \in 0 .. m + 1 |-> IF k = m + 1 THEN new ELSE f[k]]
  <2>2. /\ m \in Nat /\ m + 1 \in Nat /\ m + 1 # 0 /\ m + 1 - 1 = m /\ m # m + 1
        /\ m \in 0 .. m + 1 /\ m + 1 \in 0 .. m + 1
        /\ \A k \in 0 .. m + 1 : k # m + 1 => k \in 0 .. m
        /\ \A k \in 0 .. m + 1 : k # 0 /\ k # m + 1 => k - 1 \in 0 .. m + 1 /\ k - 1 # m + 1
    OBVIOUS
  <2>3. \A k \in 0 .. m : f[k] = IF k = 0 THEN Start(v)
                                 ELSE FeedWindow(f[k - 1], WindowAt(v, samples, verdict, k))
    BY <2>1, Zenon DEF Loops
  <2> HIDE DEF new
  <2>4. g[m] = f[m] /\ g[m + 1] = new
    BY <2>2
  <2>5. \A k \in 0 .. m + 1 : k # 0 /\ k # m + 1 => g[k - 1] = f[k - 1]
    BY <2>2
  <2>6. ASSUME NEW k \in 0 .. m + 1
        PROVE  g[k] = IF k = 0 THEN Start(v)
                      ELSE FeedWindow(g[k - 1], WindowAt(v, samples, verdict, k))
    <3>1. CASE k = m + 1
      BY <2>2, <2>4, <3>1 DEF new
    <3>2. CASE k # m + 1
      <4>1. g[k] = f[k] /\ k \in 0 .. m
        BY <2>2, <3>2
      <4> HIDE DEF g
      <4> QED
        BY <2>3, <2>5, <3>2, <4>1
    <3> QED
      BY <3>1, <3>2
  <2>7. Loops(g, m + 1, v, samples, verdict)
    <3>1. g = [k \in 0 .. m + 1 |-> g[k]]
      OBVIOUS
    <3> HIDE DEF g
    <3> QED
      BY <2>6, <3>1 DEF Loops
  <2> QED
    BY <2>2, <2>7
<1>3. T = Nat
  <2> HIDE DEF T
  <2>1. T \in SUBSET Nat
    BY DEF T
  <2> QED
    BY <1>1, <1>2, <2>1, NatSetInduction
<1> QED
  BY <1>3

LEMMA LoopIs ==
  ASSUME NEW v, NEW samples, NEW verdict, Windows(v, samples) \in Nat
  PROVE  LET g == AfterWindows(v, samples, verdict) IN
         /\ g[0] = Start(v)
         /\ \A k \in 1 .. Windows(v, samples) :
              g[k] = FeedWindow(g[k - 1], WindowAt(v, samples, verdict, k))
<1> DEFINE n == Windows(v, samples)
           g == AfterWindows(v, samples, verdict)
<1>1. \E f : Loops(f, n, v, samples, verdict)
  BY LoopExists
<1>2. g = CHOOSE f : Loops(f, n, v, samples, verdict)
  BY DEF AfterWindows, Loops, Start
<1>3. Loops(g, n, v, samples, verdict)
  BY <1>1, <1>2, Zenon
<1> HIDE DEF g, n
<1>4. 0 \in 0 .. n /\ \A k \in 1 .. n : k \in 0 .. n /\ k # 0
  BY DEF n
<1>5. \A k \in 0 .. n : g[k] = IF k = 0 THEN Start(v)
                               ELSE FeedWindow(g[k - 1], WindowAt(v, samples, verdict, k))
  BY <1>3, Zenon DEF Loops
<1> QED
  BY <1>4, <1>5 DEF g, n

\* What is left over does not matter to the rest.
LEMMA LeftoverOk ==
  ASSUME NEW z, NEW floor, NEW v, VadOk(v, z), Later(v, z, floor),
         NEW rest \in Seq(Nat), NEW u, u = [v EXCEPT !.leftover = rest]
  PROVE  VadOk(u, z) /\ u.now = v.now /\ u.leftover = rest /\ Later(u, z, floor)
<1>1. ASSUME NEW B, NEW S, NEW L, NEW e \in L,
             NEW f \in [triggered : B, speech : S, start : Nat, now : Nat, silence : Nat,
                        leftover : L]
      PROVE  LET g == [f EXCEPT !.leftover = e] IN
             /\ g \in [triggered : B, speech : S, start : Nat, now : Nat, silence : Nat,
                       leftover : L]
             /\ g.now = f.now /\ g.triggered = f.triggered /\ g.start = f.start
             /\ g.silence = f.silence /\ g.leftover = e /\ g.speech = f.speech
  OBVIOUS
<1>2. v \in VadType
  BY DEF VadOk
<1>3. /\ u \in VadType
      /\ u.now = v.now /\ u.triggered = v.triggered /\ u.start = v.start
      /\ u.silence = v.silence /\ u.leftover = rest /\ u.speech = v.speech
  BY <1>1, <1>2, Zenon DEF VadType
<1>4. VadOk(u, z)
  BY <1>3, Zenon DEF VadOk
<1>5. Later(u, z, floor)
  BY <1>3, Zenon DEF Later
<1> QED
  BY <1>3, <1>4, <1>5

LEMMA FeedOk ==
  ASSUME NEW z \in Nat, NEW floor \in Nat, NEW v, VadOk(v, z), Later(v, z, floor),
         NEW m \in Nat, v.leftover = From(z + v.now, m),
         NEW n \in Nat, NEW samples, samples = From(z + v.now + m, n),
         NEW verdict \in [1 .. Windows(v, samples) -> Loudness]
  PROVE  LET fed == Feed(v, samples, verdict) IN
         /\ FedOk(fed, z, floor)
         /\ \E l \in Nat : /\ fed.vad.leftover = From(z + fed.vad.now, l)
                           /\ z + fed.vad.now + l = z + v.now + m + n
<1> DEFINE count == Windows(v, samples)
           g == AfterWindows(v, samples, verdict)
<1>0. PICK p \in Nat : p = z + v.now
  BY DEF VadOk, VadType
<1>1. v \in VadType /\ v.now \in Nat /\ m + n \in Nat /\ Window \in Nat \ {0}
  BY VadAssumption DEF VadOk, VadType
<1>17. PICK t \in Nat : t = m + n
  BY <1>1
<1>2. v.leftover \o samples = From(p, t) /\ Len(v.leftover \o samples) = t
  <2>1. v.leftover = From(p, m) /\ samples = From(p + m, n)
    BY <1>0
  <2>2. From(p, m) \o From(p + m, n) = From(p, m + n)
    BY FromJoin
  <2>3. Len(From(p, t)) = t
    BY FromTypes
  <2> QED
    BY <1>17, <2>1, <2>2, <2>3
<1>3. count = (t) \div Window
  BY <1>2 DEF Windows
<1>4. /\ count \in Nat /\ count * Window \in Nat /\ count * Window <= t
      /\ \A k \in 1 .. count : k * Window <= t
  BY <1>1, <1>3, Division, Times
<1>5. /\ g[0] = Start(v)
      /\ \A k \in 1 .. count : g[k] = FeedWindow(g[k - 1], WindowAt(v, samples, verdict, k))
  BY <1>4, LoopIs
<1> HIDE DEF count, g
<1> DEFINE Done(k) == FedOk(g[k], z, floor) /\ g[k].vad.now = v.now + k * Window
<1>6. Done(0)
  <2>1. Start(v).vad = [v EXCEPT !.leftover = <<>>] /\ Start(v).segment = <<>>
    BY DEF Start
  <2>2. <<>> \in Seq(Nat)
    OBVIOUS
  <2>3. /\ VadOk(Start(v).vad, z) /\ Start(v).vad.now = v.now
        /\ Later(Start(v).vad, z, floor)
    <3>1. PICK r \in Seq(Nat) : r = <<>>
      BY <2>2
    <3>2. PICK u : u = [v EXCEPT !.leftover = r]
      OBVIOUS
    <3>3. Start(v).vad = u
      BY <2>1, <3>1, <3>2
    <3>4. VadOk(u, z) /\ u.now = v.now /\ Later(u, z, floor)
      <4> HIDE DEF count, g
      <4> QED
        BY <3>2, LeftoverOk
    <3> QED
      BY <3>3, <3>4
  <2>4. FedOk(Start(v), z, floor)
    BY <2>1, <2>3 DEF FedOk, Last
  <2>5. v.now + 0 * Window = v.now
    BY <1>1
  <2> QED
    BY <1>5, <2>3, <2>4, <2>5
<1>7. ASSUME NEW k \in Nat, k + 1 <= count, Done(k) PROVE Done(k + 1)
  <2> DEFINE w == WindowAt(v, samples, verdict, k + 1)
  <2>1. /\ k + 1 \in 1 .. count /\ k + 1 - 1 = k /\ k * Window \in Nat
        /\ (k + 1) * Window = k * Window + Window /\ (k + 1) * Window <= t
    BY <1>1, <1>4, <1>7, Times
  <2>2. w.samples = SubSeq(From(p, t), k * Window + 1, (k + 1) * Window)
    <3>1. PICK j \in Nat : j = k + 1 /\ j - 1 = k
      BY <2>1
    <3>2. WindowAt(v, samples, verdict, j).samples =
            SubSeq(v.leftover \o samples, (j - 1) * Window + 1, j * Window)
      BY DEF WindowAt
    <3> QED
      BY <1>2, <3>1, <3>2
  <2>3. /\ k * Window \in 0 .. t /\ (k + 1) * Window \in k * Window .. t
        /\ (k + 1) * Window - k * Window = Window
    BY <1>1, <2>1
  <2>4. w.samples = From(p + k * Window, Window)
    <3>1. PICK a \in 0 .. t : a = k * Window
      BY <2>3
    <3>3. PICK b \in a .. t : b = (k + 1) * Window /\ b - a = Window
      BY <2>3, <3>1
    <3>2. SubSeq(From(p, t), a + 1, b) = From(p + a, b - a)
      BY <1>1, FromPart
    <3> HIDE DEF w
    <3> QED
      BY <2>2, <3>1, <3>2, <3>3
  <2>5. w \in Heard /\ w.loudness \in Loudness
    <3>1. verdict[k + 1] \in Loudness
      BY <2>1, Zenon DEF count
    <3>2. From(p + k * Window, Window) \in Seq(Nat)
      <4>1. p + k * Window \in Nat /\ Window \in Nat
        BY <1>1, <2>1
      <4> QED
        BY <4>1, FromTypes, Zenon
    <3>3. w = [samples |-> w.samples, loudness |-> verdict[k + 1]]
      BY DEF WindowAt
    <3> HIDE DEF w
    <3>4. w.loudness = verdict[k + 1]
      BY <3>3
    <3> QED
      BY <2>4, <3>1, <3>2, <3>3, <3>4 DEF Heard
  <2>6. p + k * Window = z + g[k].vad.now
    BY <1>0, <1>1, <1>7, <2>1
  <2>7. g[k + 1] = FeedWindow(g[k], w)
    BY <1>5, <2>1
  <2> HIDE DEF w
  <2>8. FedOk(g[k + 1], z, floor)
    BY <1>7, <2>4, <2>5, <2>6, <2>7, FeedWindowOk
  <2>9. g[k + 1].vad.now = g[k].vad.now + Window
    <3>1. g[k].vad \in VadType
      BY <1>7 DEF FedOk, VadOk
    <3> QED
      BY <2>5, <2>7, <3>1, FeedWindowFields
  <2>10. g[k].vad.now + Window = v.now + (k + 1) * Window
    BY <1>1, <1>7, <2>1
  <2> QED
    BY <2>8, <2>9, <2>10
<1>8. Done(count)
  <2> DEFINE T == {k \in Nat : k <= count => Done(k)}
  <2> HIDE DEF Done
  <2>1. 0 \in T /\ T \in SUBSET Nat
    BY <1>6
  <2>2. \A k \in T : k + 1 \in T
    BY <1>4, <1>7
  <2> HIDE DEF T
  <2>3. T = Nat
    BY <2>1, <2>2, NatSetInduction
  <2> QED
    BY <1>4, <2>3 DEF T
<1> DEFINE fed == Feed(v, samples, verdict)
           rest == Rest(v, samples)
<1>9. PICK a \in 0 .. t : a = count * Window
  BY <1>4
<1>10. rest = From(p + a, t - a) /\ rest \in Seq(Nat)
  <2>1. rest = SubSeq(From(p, t), a + 1, t)
    BY <1>2, <1>9 DEF Rest, count
  <2>2. t \in a .. t /\ p + a \in Nat /\ t - a \in Nat
    OBVIOUS
  <2>3. SubSeq(From(p, t), a + 1, t) = From(p + a, t - a)
    BY <2>2, FromPart, Zenon
  <2>4. From(p + a, t - a) \in Seq(Nat)
    BY <2>2, FromTypes, Zenon
  <2> HIDE DEF rest
  <2> QED
    BY <2>1, <2>3, <2>4, Zenon
<1>11. /\ fed.vad = [g[count].vad EXCEPT !.leftover = rest]
       /\ fed.segment = g[count].segment
  <2>1. PICK x, y : g[count] = [vad |-> x, segment |-> y]
    <3>1. CASE count = 0
      BY <1>5, <3>1 DEF Start
    <3>2. CASE count # 0
      <4>1. count \in 1 .. count
        BY <1>4, <3>2
      <4>2. PICK x, y : g[count] = FeedWindow(x, y)
        BY <1>5, <4>1
      <4> QED
        BY <4>2 DEF FeedWindow
    <3> QED
      BY <3>1, <3>2
  <2>2. fed = [g[count] EXCEPT !.vad.leftover = rest]
    BY DEF Feed, g, count
  <2> HIDE DEF fed, rest
  <2> QED
    BY <2>1, <2>2
<1> HIDE DEF fed, rest
<1>12. VadOk(g[count].vad, z) /\ Later(g[count].vad, z, Last(g[count].segment, floor))
  BY <1>8 DEF FedOk
<1>13. Last(g[count].segment, floor) \in Nat
  BY <1>12 DEF Later
<1>14. /\ VadOk(fed.vad, z) /\ fed.vad.now = g[count].vad.now /\ fed.vad.leftover = rest
       /\ Later(fed.vad, z, Last(g[count].segment, floor))
  BY <1>10, <1>11, <1>12, <1>13, LeftoverOk
<1>15. FedOk(fed, z, floor)
  BY <1>8, <1>11, <1>14 DEF FedOk
<1>16. /\ z + fed.vad.now = p + a /\ t - a \in Nat
       /\ z + fed.vad.now + (t - a) = z + v.now + m + n
  <2>1. fed.vad.now = v.now + a
    BY <1>8, <1>9, <1>14, Zenon
  <2>2. /\ z + (v.now + a) = p + a /\ t - a \in Nat
        /\ z + (v.now + a) + (t - a) = z + v.now + m + n
    <3>1. ASSUME NEW b \in Nat, p = z + b
          PROVE  /\ z + (b + a) = p + a /\ t - a \in Nat
                 /\ z + (b + a) + (t - a) = z + b + m + n
      BY <1>17, <3>1
    <3>2. v.now \in Nat
      BY <1>1
    <3> QED
      BY <1>0, <3>1, <3>2, Zenon
  <2> QED
    BY <2>1, <2>2, Zenon
<1>18. fed.vad.leftover = From(z + fed.vad.now, t - a)
  BY <1>10, <1>14, <1>16, Zenon
<1> QED
  BY <1>15, <1>16, <1>18, Zenon DEF fed

-----------------------------------------------------------------------------
(***************************************************************************)
(* The turns: where the handler and the generating thread are, what is in  *)
(* the queue between them, and what the recording has of it.               *)
(***************************************************************************)
Messages == [kind : {"audio"}, samples : Seq(Nat)] \union [kind : {"prepare", "stop"}]

Items == [kind : {"chunk"}, number : Nat] \union [kind : {"done", "error"}]

Turns == [turn : Nat, parts : Seq(Nat), made : Nat]

\* The types of all but the VAD and the segment heard, which HearingInv has.
ClientOK ==
  client \in [connected : BOOLEAN, sent : 0 .. MaxAudio, prepares : 0 .. MaxPrepares]
InboxOK == inbox \in Seq(Messages) /\ Len(inbox) <= MaxInbox
HandlerOK == handler \in [at : Places, vad : {handler.vad}, turn : Nat, guard : BOOLEAN]
ThreadOK ==
  /\ stop \in BOOLEAN
  /\ thread \in [at : {"off", "running", "checking"}, made : 0 .. MaxChunks]
QueueOK == queue \in Seq(Items)
RecordOK == record \in [parts : Seq(Nat), turns : Seq(Turns)]

\* A generation belongs to a turn that is answered, or to a handler that ended.
\* A stop is counted from the turn it is asked for in.
Counted ==
  /\ thread.at # "off" => handler.at \in {"answer", "gone"}
  /\ after \in {NotAsked} \union 0 .. MaxChunks
  /\ thread.at # "off" => after <= thread.made
  /\ handler.at = "prefill" => after <= 0

TypeInv ==
  ClientOK /\ InboxOK /\ HandlerOK /\ ThreadOK /\ QueueOK /\ RecordOK /\ Counted

\* The chunks of an answer are in the recording or in the queue, in order; a
\* queue that ends with "done" or an error is that of a generation that is over.
Told ==
  /\ handler.at = "prefill" => record.parts = <<>>
  /\ handler.at = "answer" =>
       LET taken == Len(record.parts)
           left == Len(queue) IN
       /\ \A k \in 1 .. taken : record.parts[k] = k
       /\ \A i \in 1 .. left : queue[i].kind = "chunk" => queue[i].number = taken + i
       /\ thread.at # "off" =>
            taken + left = thread.made /\ \A i \in 1 .. left : queue[i].kind = "chunk"
       /\ thread.at = "off" =>
            /\ left > 0 /\ taken + left = thread.made + 1
            /\ \A i \in 1 .. left : queue[i].kind = "chunk" <=> i < left

\* What a message handed to the inbox is.
LEMMA MessageTypes ==
  /\ \A n \in Nat, c \in Nat :
       [kind |-> "audio", samples |-> [i \in 1 .. n |-> c + i]] \in Messages
  /\ [kind |-> "prepare"] \in Messages
  /\ [kind |-> "stop"] \in Messages
<1>1. ASSUME NEW n \in Nat, NEW c \in Nat
      PROVE  [i \in 1 .. n |-> c + i] \in Seq(Nat)
  OBVIOUS
<1> QED
  BY <1>1 DEF Messages

\* A message sent or read leaves messages.
LEMMA SendTypes ==
  ASSUME InboxOK, NEW message \in Messages, Send(message)
  PROVE  InboxOK'
  BY HalfDuplexAssumption DEF InboxOK, Send

LEMMA ReadTypes ==
  ASSUME InboxOK, NEW kind, Read(kind)
  PROVE  InboxOK' /\ handler.at = "waiting" /\ Head(inbox) \in Messages
<1>1. inbox # <<>> /\ inbox' = Tail(inbox) /\ inbox \in Seq(Messages)
  BY DEF Read, InboxOK
<1>2. Tail(inbox) \in Seq(Messages) /\ Len(Tail(inbox)) = Len(inbox) - 1
  BY <1>1
<1> QED
  BY <1>1, <1>2, HalfDuplexAssumption DEF InboxOK, Read

\* So for the items of the queue.
LEMMA PutTypes ==
  ASSUME QueueOK, NEW item \in Items, Put(item)
  PROVE  QueueOK'
  BY DEF QueueOK, Put

LEMMA TakenTypes ==
  ASSUME QueueOK, NEW kind, Item(kind), Taken
  PROVE  QueueOK' /\ handler.at = "answer" /\ Head(queue) \in Items
  BY DEF QueueOK, Item, Taken

\* The last item is taken when the generation is over and its chunks are recorded.
LEMMA LastItem ==
  ASSUME TypeInv, Told, NEW kind \in {"done", "error"}, Item(kind)
  PROVE  thread.at = "off" /\ Len(queue) = 1 /\ Len(record.parts) = thread.made
<1>1. /\ handler.at = "answer" /\ queue \in Seq(Items) /\ queue # <<>>
      /\ queue[1].kind # "chunk" /\ Len(queue) \in Nat \ {0}
  BY DEF Item, TypeInv, QueueOK
<1>2. Len(record.parts) \in Nat /\ thread.made \in Nat
  BY HalfDuplexAssumption DEF TypeInv, RecordOK, ThreadOK
<1>3. thread.at = "off"
  BY <1>1 DEF Told
<1>4. ~ (1 < Len(queue))
  BY <1>1, <1>3 DEF Told
<1>5. Len(queue) = 1
  <2>1. Len(queue) \in Nat /\ Len(queue) # 0
    BY <1>1
  <2>2. \A n \in Nat : n # 0 /\ ~ (1 < n) => n = 1
    OBVIOUS
  <2> QED
    BY <2>1, <2>2, <1>4, Zenon
<1>6. Len(record.parts) + 1 = thread.made + 1
  BY <1>1, <1>3, <1>5 DEF Told
<1> QED
  BY <1>2, <1>3, <1>5, <1>6

\* The recording of a turn changes, and the turns stay.
LEMMA PartsTypes ==
  ASSUME RecordOK, NEW parts \in Seq(Nat), record' = [record EXCEPT !.parts = parts]
  PROVE  RecordOK'
<1>1. ASSUME NEW P, NEW T, NEW r \in [parts : P, turns : T], NEW p \in P
      PROVE  [r EXCEPT !.parts = p] \in [parts : P, turns : T]
  OBVIOUS
<1> QED
  BY <1>1 DEF RecordOK

LEMMA InitTypes == Init => TypeInv
<1> SUFFICES ASSUME Init PROVE TypeInv
  OBVIOUS
<1>1. ClientOK
  BY HalfDuplexAssumption DEF Init, ClientOK
<1>2. InboxOK /\ QueueOK
  BY HalfDuplexAssumption DEF Init, InboxOK, QueueOK
<1>3. HandlerOK
  BY DEF Init, HandlerOK, Places
<1>4. ThreadOK
  <2>1. thread = [at |-> "off", made |-> 0] /\ stop = FALSE /\ 0 \in 0 .. MaxChunks
    BY HalfDuplexAssumption DEF Init
  <2> QED
    BY <2>1 DEF ThreadOK
<1>5. RecordOK
  BY DEF Init, RecordOK
<1>6. Counted
  BY HalfDuplexAssumption DEF Init, Counted, NotAsked
<1> QED
  BY <1>1, <1>2, <1>3, <1>4, <1>5, <1>6 DEF TypeInv

LEMMA StepTypes == TypeInv /\ Told /\ [Next]_vars => TypeInv'
<1>0. SUFFICES ASSUME TypeInv, Told, [Next]_vars PROVE TypeInv'
  OBVIOUS
<1> USE <1>0 DEF TypeInv
<1>1. ASSUME NEW n \in Pieces, SendAudio(n) PROVE TypeInv'
  <2>1. n \in Nat /\ client.sent \in Nat
    BY HalfDuplexAssumption DEF ClientOK
  <2>2. [kind |-> "audio", samples |-> [i \in 1 .. n |-> client.sent + i]] \in Messages
    BY <2>1, MessageTypes
  <2>3. InboxOK'
    BY <1>1, <2>2, SendTypes DEF SendAudio
  <2>4. ClientOK'
    BY <1>1, <2>1, HalfDuplexAssumption DEF SendAudio, ClientOK
  <2>5. HandlerOK' /\ ThreadOK' /\ QueueOK' /\ RecordOK' /\ Counted'
    BY <1>1 DEF SendAudio, HandlerOK, ThreadOK, QueueOK, RecordOK, Counted
  <2> QED
    BY <2>3, <2>4, <2>5
<1>2. CASE SendPrepare
  <2>1. HandlerOK' /\ ThreadOK' /\ QueueOK' /\ RecordOK' /\ Counted'
    BY <1>2 DEF SendPrepare, HandlerOK, ThreadOK, QueueOK, RecordOK, Counted
  <2>2. ClientOK'
    BY <1>2, HalfDuplexAssumption DEF SendPrepare, ClientOK
  <2>3. InboxOK'
    BY <1>2, MessageTypes, SendTypes DEF SendPrepare
  <2> QED
    BY <2>1, <2>2, <2>3
<1>3. CASE SendStop
  <2>1. ClientOK' /\ HandlerOK' /\ ThreadOK' /\ QueueOK' /\ RecordOK' /\ Counted'
    BY <1>3 DEF SendStop, ClientOK, HandlerOK, ThreadOK, QueueOK, RecordOK, Counted
  <2>2. InboxOK'
    BY <1>3, MessageTypes, SendTypes DEF SendStop
  <2> QED
    BY <2>1, <2>2
<1>4. CASE HangUp
  <2>1. InboxOK' /\ HandlerOK' /\ ThreadOK' /\ QueueOK' /\ RecordOK' /\ Counted'
    BY <1>4 DEF HangUp, InboxOK, HandlerOK, ThreadOK, QueueOK, RecordOK, Counted
  <2>2. ClientOK'
    BY <1>4 DEF HangUp, ClientOK
  <2> QED
    BY <2>1, <2>2
<1>5. CASE StopAll
  <2>1. ClientOK' /\ InboxOK' /\ HandlerOK' /\ QueueOK' /\ RecordOK'
    BY <1>5 DEF StopAll, ClientOK, InboxOK, HandlerOK, QueueOK, RecordOK
  <2>2. ThreadOK'
    BY <1>5, HalfDuplexAssumption DEF StopAll, ThreadOK
  <2>3. Counted'
    BY <1>5, HalfDuplexAssumption DEF StopAll, Counted, NotAsked, ThreadOK, HandlerOK, Asked
  <2> QED
    BY <2>1, <2>2, <2>3
<1>6. CASE ReadDisconnect
  <2>1. ClientOK' /\ InboxOK' /\ QueueOK' /\ RecordOK'
    BY <1>6 DEF ReadDisconnect, ClientOK, InboxOK, QueueOK, RecordOK
  <2>2. HandlerOK'
    BY <1>6 DEF ReadDisconnect, HandlerOK, Places, Leave
  <2>3. ThreadOK'
    BY <1>6, HalfDuplexAssumption DEF ReadDisconnect, ThreadOK, Leave
  <2>4. Counted'
    BY <1>6, HalfDuplexAssumption DEF ReadDisconnect, Counted, NotAsked, ThreadOK, HandlerOK, Leave, Asked
  <2> QED
    BY <2>1, <2>2, <2>3, <2>4
<1>7. CASE Timeout
  <2>1. ClientOK' /\ InboxOK' /\ QueueOK' /\ RecordOK'
    BY <1>7 DEF Timeout, ClientOK, InboxOK, QueueOK, RecordOK
  <2>2. HandlerOK'
    BY <1>7 DEF Timeout, HandlerOK, Places, Leave
  <2>3. ThreadOK'
    BY <1>7, HalfDuplexAssumption DEF Timeout, ThreadOK, Leave
  <2>4. Counted'
    BY <1>7, HalfDuplexAssumption DEF Timeout, Counted, NotAsked, ThreadOK, HandlerOK, Leave, Asked
  <2> QED
    BY <2>1, <2>2, <2>3, <2>4
<1>11. CASE PrepareRaises
  <2>1. ClientOK' /\ InboxOK' /\ QueueOK' /\ RecordOK'
    BY <1>11 DEF PrepareRaises, ClientOK, InboxOK, QueueOK, RecordOK
  <2>2. HandlerOK'
    BY <1>11 DEF PrepareRaises, HandlerOK, Places, Leave
  <2>3. ThreadOK'
    BY <1>11, HalfDuplexAssumption DEF PrepareRaises, ThreadOK, Leave
  <2>4. Counted'
    BY <1>11, HalfDuplexAssumption DEF PrepareRaises, Counted, NotAsked, ThreadOK, HandlerOK, Leave, Asked
  <2> QED
    BY <2>1, <2>2, <2>3, <2>4
<1>8. CASE ReadStop
  <2>1. ClientOK' /\ QueueOK' /\ RecordOK'
    BY <1>8 DEF ReadStop, ClientOK, QueueOK, RecordOK
  <2>2. InboxOK'
    BY <1>8, ReadTypes DEF ReadStop
  <2>3. HandlerOK'
    BY <1>8 DEF ReadStop, HandlerOK, Places, Leave
  <2>4. ThreadOK'
    BY <1>8, HalfDuplexAssumption DEF ReadStop, ThreadOK, Leave
  <2>5. Counted'
    BY <1>8, HalfDuplexAssumption DEF ReadStop, Counted, NotAsked, ThreadOK, HandlerOK, Read, Leave, Asked
  <2> QED
    BY <2>1, <2>2, <2>3, <2>4, <2>5
<1>9. CASE ReadPrepare
  <2>1. ClientOK' /\ ThreadOK' /\ QueueOK' /\ RecordOK'
    BY <1>9 DEF ReadPrepare, ClientOK, ThreadOK, QueueOK, RecordOK
  <2>2. InboxOK'
    BY <1>9, ReadTypes DEF ReadPrepare
  <2>3. HandlerOK'
    BY <1>9 DEF ReadPrepare, HandlerOK, Places
  <2>4. Counted'
    BY <1>9, HalfDuplexAssumption DEF ReadPrepare, Counted, NotAsked, ThreadOK, HandlerOK, Read
  <2> QED
    BY <2>1, <2>2, <2>3, <2>4
<1>10. CASE PrepareEnds
  <2>1. ClientOK' /\ InboxOK' /\ QueueOK'
    BY <1>10 DEF PrepareEnds, ClientOK, InboxOK, QueueOK
  <2>2. HandlerOK'
    BY <1>10 DEF PrepareEnds, HandlerOK, Places, Leave
  <2>3. ThreadOK'
    BY <1>10, HalfDuplexAssumption DEF PrepareEnds, ThreadOK, Leave
  <2>4. RecordOK'
    BY <1>10 DEF PrepareEnds, RecordOK
  <2>5. Counted'
    BY <1>10, HalfDuplexAssumption DEF PrepareEnds, Counted, NotAsked, ThreadOK, HandlerOK, Leave, Asked
  <2> QED
    BY <2>1, <2>2, <2>3, <2>4, <2>5
<1>12. CASE GuardEnds
  <2>1. ClientOK' /\ InboxOK' /\ ThreadOK' /\ QueueOK' /\ RecordOK'
    BY <1>12 DEF GuardEnds, ClientOK, InboxOK, ThreadOK, QueueOK, RecordOK
  <2>2. HandlerOK'
    BY <1>12 DEF GuardEnds, HandlerOK, Places
  <2>3. Counted'
    BY <1>12, HalfDuplexAssumption DEF GuardEnds, Counted, NotAsked, ThreadOK, HandlerOK
  <2> QED
    BY <2>1, <2>2, <2>3
<1>13. CASE SkipAudio
  <2>1. ClientOK' /\ QueueOK' /\ RecordOK'
    BY <1>13 DEF SkipAudio, ClientOK, QueueOK, RecordOK
  <2>2. InboxOK'
    BY <1>13, ReadTypes DEF SkipAudio
  <2>3. HandlerOK'
    BY <1>13 DEF SkipAudio, HandlerOK, Places, Leave, Goto
  <2>4. ThreadOK'
    BY <1>13, HalfDuplexAssumption DEF SkipAudio, ThreadOK, Leave, Goto
  <2>5. Counted'
    BY <1>13, HalfDuplexAssumption DEF SkipAudio, Counted, NotAsked, ThreadOK, HandlerOK, Read, Goto, Leave, Asked
  <2> QED
    BY <2>1, <2>2, <2>3, <2>4, <2>5
<1>14. ASSUME NEW verdict \in Verdicts, HearAudio(verdict) PROVE TypeInv'
  <2>1. ClientOK' /\ QueueOK'
    BY <1>14 DEF HearAudio, ClientOK, QueueOK
  <2>2. InboxOK'
    BY <1>14, ReadTypes DEF HearAudio
  <2>3. HandlerOK'
    BY <1>14 DEF HearAudio, HandlerOK, Places, Leave
  <2>4. ThreadOK'
    BY <1>14, HalfDuplexAssumption DEF HearAudio, ThreadOK, Leave
  <2>5. RecordOK'
    <3>1. record' = record \/ record' = [record EXCEPT !.parts = <<>>]
      BY <1>14 DEF HearAudio
    <3>2. RecordOK /\ <<>> \in Seq(Nat)
      OBVIOUS
    <3>3. CASE record' = record
      BY <3>2, <3>3 DEF RecordOK
    <3>4. CASE record' = [record EXCEPT !.parts = <<>>]
      BY <3>2, <3>4, PartsTypes
    <3> QED
      BY <3>1, <3>3, <3>4
  <2>6. Counted'
    <3>1. handler.at = "waiting" /\ thread' = thread
      BY <1>14 DEF HearAudio, Read
    <3>2. thread.at = "off"
      BY <3>1 DEF Counted
    <3>3. after' \in {after, NotAsked, 0} /\ (handler'.at = "prefill" => after' = NotAsked)
      BY <1>14, <3>1, <3>2 DEF HearAudio, Leave, Asked, HandlerOK
    <3>4. after' \in {NotAsked} \union 0 .. MaxChunks
      BY <3>3, HalfDuplexAssumption DEF Counted
    <3> QED
      BY <3>1, <3>2, <3>3, <3>4 DEF Counted, NotAsked
  <2> QED
    BY <2>1, <2>2, <2>3, <2>4, <2>5, <2>6
<1>15. CASE PrefillEnds
  <2>1. ClientOK' /\ InboxOK' /\ RecordOK'
    BY <1>15 DEF PrefillEnds, ClientOK, InboxOK, RecordOK
  <2>2. HandlerOK'
    BY <1>15 DEF PrefillEnds, HandlerOK, Places
  <2>3. ThreadOK'
    <3>1. thread' = [at |-> "running", made |-> 0] /\ stop' = FALSE
      BY <1>15 DEF PrefillEnds
    <3>2. 0 \in 0 .. MaxChunks
      BY HalfDuplexAssumption
    <3> QED
      BY <3>1, <3>2 DEF ThreadOK
  <2>4. QueueOK'
    BY <1>15 DEF PrefillEnds, QueueOK
  <2>5. Counted'
    BY <1>15, HalfDuplexAssumption DEF PrefillEnds, Counted, NotAsked, ThreadOK, HandlerOK
  <2> QED
    BY <2>1, <2>2, <2>3, <2>4, <2>5
<1>16. CASE PrefillRaises
  <2>1. ClientOK' /\ InboxOK' /\ QueueOK' /\ RecordOK'
    BY <1>16 DEF PrefillRaises, ClientOK, InboxOK, QueueOK, RecordOK
  <2>2. HandlerOK'
    BY <1>16 DEF PrefillRaises, HandlerOK, Places, TurnFails, Leave, Goto
  <2>3. ThreadOK'
    BY <1>16, HalfDuplexAssumption DEF PrefillRaises, ThreadOK, TurnFails, Leave, Goto
  <2>4. Counted'
    BY <1>16, HalfDuplexAssumption DEF PrefillRaises, Counted, NotAsked, ThreadOK, HandlerOK, TurnFails, Goto, Leave, Asked
  <2> QED
    BY <2>1, <2>2, <2>3, <2>4
<1>17. CASE ReceiveChunk
  <2>1. QueueOK' /\ handler.at = "answer" /\ Head(queue) \in Items
    BY <1>17, TakenTypes DEF ReceiveChunk
  <2>2. Head(queue).number \in Nat
    BY <1>17, <2>1 DEF ReceiveChunk, Item, Items
  <2>3. RecordOK'
    <3>1. record' = record \/ record' = [record EXCEPT !.parts = Append(@, Head(queue).number)]
      BY <1>17 DEF ReceiveChunk
    <3>2. RecordOK /\ Append(record.parts, Head(queue).number) \in Seq(Nat)
      BY <2>2 DEF RecordOK
    <3>3. CASE record' = record
      BY <3>2, <3>3 DEF RecordOK
    <3>4. CASE record' = [record EXCEPT !.parts = Append(@, Head(queue).number)]
      BY <3>2, <3>4, PartsTypes
    <3> QED
      BY <3>1, <3>3, <3>4
  <2>4. ClientOK' /\ InboxOK'
    BY <1>17 DEF ReceiveChunk, ClientOK, InboxOK
  <2>5. HandlerOK'
    BY <1>17 DEF ReceiveChunk, HandlerOK, Leave, Places
  <2>6. ThreadOK'
    BY <1>17 DEF ReceiveChunk, ThreadOK, Leave
  <2>7. Counted'
    BY <1>17, <2>1, HalfDuplexAssumption
    DEF ReceiveChunk, Counted, NotAsked, ThreadOK, HandlerOK, Leave, Asked
  <2> QED
    BY <2>1, <2>3, <2>4, <2>5, <2>6, <2>7
<1>18. CASE ReceiveDone
  <2>1. QueueOK' /\ handler.at = "answer"
    BY <1>18, TakenTypes DEF ReceiveDone
  <2>2. [turn |-> handler.turn, parts |-> record.parts, made |-> thread.made] \in Turns
    BY DEF Turns, HandlerOK, RecordOK, ThreadOK
  <2>3. RecordOK'
    BY <1>18, <2>2 DEF ReceiveDone, RecordOK
  <2>4. ClientOK' /\ InboxOK'
    BY <1>18 DEF ReceiveDone, ClientOK, InboxOK
  <2>5. HandlerOK'
    <3>1. \/ handler' = [handler EXCEPT !.at = "waiting", !.vad = NewVad, !.turn = @ + 1]
          \/ handler' = [handler EXCEPT !.at = "gone", !.turn = @ + 1]
      BY <1>18 DEF ReceiveDone
    <3>2. HandlerOK /\ handler.turn + 1 \in Nat
      BY DEF HandlerOK
    <3>3. CASE handler' = [handler EXCEPT !.at = "waiting", !.vad = NewVad, !.turn = @ + 1]
      BY <3>2, <3>3 DEF HandlerOK, Places
    <3>4. CASE handler' = [handler EXCEPT !.at = "gone", !.turn = @ + 1]
      BY <3>2, <3>4 DEF HandlerOK, Places
    <3> QED
      BY <3>1, <3>3, <3>4
  <2>6. ThreadOK'
    BY <1>18 DEF ReceiveDone, ThreadOK
  <2>7. Counted'
    <3>1. handler'.at \in {"waiting", "gone"} /\ thread' = thread /\ after' = after
      BY <1>18 DEF ReceiveDone, HandlerOK
    <3>2. thread.at = "off"
      BY <1>18, LastItem DEF ReceiveDone
    <3> QED
      BY <3>1, <3>2, <2>1 DEF Counted
  <2> QED
    BY <2>1, <2>3, <2>4, <2>5, <2>6, <2>7
<1>19. CASE ReceiveError
  <2>1. ClientOK' /\ InboxOK' /\ RecordOK'
    BY <1>19 DEF ReceiveError, ClientOK, InboxOK, RecordOK
  <2>2. QueueOK'
    BY <1>19, TakenTypes DEF ReceiveError
  <2>3. HandlerOK'
    BY <1>19 DEF ReceiveError, HandlerOK, Places, TurnFails, Leave, Goto
  <2>4. ThreadOK'
    BY <1>19, HalfDuplexAssumption DEF ReceiveError, ThreadOK, TurnFails, Leave, Goto
  <2>5. thread.at = "off"
    BY <1>19, LastItem DEF ReceiveError
  <2>6. Counted'
    BY <1>19, <2>5, HalfDuplexAssumption
    DEF ReceiveError, Counted, NotAsked, ThreadOK, HandlerOK, TurnFails, Goto, Leave, Asked
  <2> QED
    BY <2>1, <2>2, <2>3, <2>4, <2>6
<1>20. CASE MakeChunk
  <2>1. ClientOK' /\ InboxOK' /\ HandlerOK' /\ RecordOK'
    BY <1>20 DEF MakeChunk, ClientOK, InboxOK, HandlerOK, RecordOK
  <2>2. ThreadOK'
    BY <1>20, HalfDuplexAssumption DEF MakeChunk, ThreadOK
  <2>3. QueueOK'
    BY <1>20, PutTypes DEF MakeChunk, Items, ThreadOK
  <2>4. Counted'
    BY <1>20, HalfDuplexAssumption DEF MakeChunk, Counted, NotAsked, ThreadOK, HandlerOK
  <2> QED
    BY <2>1, <2>2, <2>3, <2>4
<1>21. CASE CheckStop
  <2>1. ClientOK' /\ InboxOK' /\ HandlerOK' /\ RecordOK'
    BY <1>21 DEF CheckStop, ClientOK, InboxOK, HandlerOK, RecordOK
  <2>2. ThreadOK'
    BY <1>21, HalfDuplexAssumption DEF CheckStop, ThreadOK
  <2>3. QueueOK'
    BY <1>21, PutTypes DEF CheckStop, Items, QueueOK
  <2>4. Counted'
    BY <1>21, HalfDuplexAssumption DEF CheckStop, Counted, NotAsked, ThreadOK, HandlerOK
  <2> QED
    BY <2>1, <2>2, <2>3, <2>4
<1>22. CASE AnswerEnds
  <2>1. ClientOK' /\ InboxOK' /\ HandlerOK' /\ RecordOK'
    BY <1>22 DEF AnswerEnds, ClientOK, InboxOK, HandlerOK, RecordOK
  <2>2. ThreadOK'
    BY <1>22, HalfDuplexAssumption DEF AnswerEnds, ThreadOK
  <2>3. QueueOK'
    BY <1>22, PutTypes DEF AnswerEnds, Items
  <2>4. Counted'
    BY <1>22, HalfDuplexAssumption DEF AnswerEnds, Counted, NotAsked, ThreadOK, HandlerOK
  <2> QED
    BY <2>1, <2>2, <2>3, <2>4
<1>23. CASE AnswerRaises
  <2>1. ClientOK' /\ InboxOK' /\ HandlerOK' /\ RecordOK'
    BY <1>23 DEF AnswerRaises, ClientOK, InboxOK, HandlerOK, RecordOK
  <2>2. ThreadOK'
    BY <1>23, HalfDuplexAssumption DEF AnswerRaises, ThreadOK
  <2>3. QueueOK'
    BY <1>23, PutTypes DEF AnswerRaises, Items
  <2>4. Counted'
    BY <1>23, HalfDuplexAssumption DEF AnswerRaises, Counted, NotAsked, ThreadOK, HandlerOK
  <2> QED
    BY <2>1, <2>2, <2>3, <2>4
<1>24. CASE UNCHANGED vars
  BY <1>24 DEF vars, ClientOK, InboxOK, HandlerOK, ThreadOK, QueueOK, RecordOK, Counted
<1> QED
  BY <1>1, <1>2, <1>3, <1>4, <1>5, <1>6, <1>7, <1>8, <1>9, <1>10, <1>11, <1>12, <1>13,
     <1>14, <1>15, <1>16, <1>17, <1>18, <1>19, <1>20, <1>21, <1>22, <1>23, <1>24
  DEF Next, HandlerStep, ThreadStep

-----------------------------------------------------------------------------
(***************************************************************************)
(* What is made is recorded.                                               *)
(***************************************************************************)
\* What Told speaks of when a step leaves it alone, or leaves the turn.
LEMMA ToldStays ==
  ASSUME Told
  PROVE  /\ handler'.at = handler.at /\ UNCHANGED <<thread, queue, record>> => Told'
         /\ handler'.at \notin {"prefill", "answer"} => Told'
  BY DEF Told

\* A chunk goes from the queue to the recording.
LEMMA ToldTake ==
  ASSUME TypeInv, Told, Item("chunk"), Taken,
         UNCHANGED thread, handler'.at = "answer",
         record'.parts = Append(record.parts, Head(queue).number)
  PROVE  Told'
<1> DEFINE taken == Len(record.parts)
           left == Len(queue)
<1>1. /\ queue \in Seq(Items) /\ left \in Nat \ {0} /\ queue[1].kind = "chunk"
      /\ Head(queue) = queue[1] /\ queue' = Tail(queue) /\ handler.at = "answer"
  BY DEF Item, Taken, TypeInv, QueueOK
<1>2. /\ Len(queue') = left - 1
      /\ \A i \in 1 .. left - 1 : i + 1 \in 1 .. left /\ queue'[i] = queue[i + 1]
  BY <1>1
<1>3. taken \in Nat /\ record.parts \in Seq(Nat) /\ thread.made \in Nat
  BY HalfDuplexAssumption DEF TypeInv, RecordOK, ThreadOK
<1>4. queue[1].number = taken + 1 /\ queue[1].number \in Nat
  BY <1>1, <1>3 DEF Told
<1>5. /\ Len(record'.parts) = taken + 1
      /\ \A k \in 1 .. taken : record'.parts[k] = record.parts[k]
      /\ record'.parts[taken + 1] = taken + 1
  BY <1>1, <1>3, <1>4
<1>6. \A k \in 1 .. taken + 1 : record'.parts[k] = k
  BY <1>1, <1>3, <1>5 DEF Told
<1>7. \A i \in 1 .. left - 1 : queue'[i].kind = "chunk" => queue'[i].number = taken + 1 + i
  BY <1>1, <1>2, <1>3 DEF Told
<1>8. thread.at # "off" =>
        taken + 1 + (left - 1) = thread.made /\ \A i \in 1 .. left - 1 : queue'[i].kind = "chunk"
  BY <1>1, <1>2, <1>3 DEF Told
<1>9. thread.at = "off" =>
        /\ left - 1 > 0 /\ taken + 1 + (left - 1) = thread.made + 1
        /\ \A i \in 1 .. left - 1 : queue'[i].kind = "chunk" <=> i < left - 1
  <2> SUFFICES ASSUME thread.at = "off"
               PROVE  /\ left - 1 > 0 /\ taken + 1 + (left - 1) = thread.made + 1
                      /\ \A i \in 1 .. left - 1 : queue'[i].kind = "chunk" <=> i < left - 1
    OBVIOUS
  <2>1. /\ left > 0 /\ taken + left = thread.made + 1
        /\ \A i \in 1 .. left : queue[i].kind = "chunk" <=> i < left
    BY <1>1 DEF Told
  <2>2. 1 < left
    BY <1>1, <2>1
  <2> QED
    BY <1>1, <1>2, <1>3, <2>1, <2>2
<1> HIDE DEF taken, left
<1> QED
  BY <1>1, <1>2, <1>3, <1>5, <1>6, <1>7, <1>8, <1>9 DEF Told

\* The generation puts a chunk, or its end, behind the others.
LEMMA ToldPut ==
  ASSUME TypeInv, Told, NEW item \in Items, Put(item),
         UNCHANGED <<handler, record>>, thread.at # "off",
         \/ item.kind = "chunk" /\ item.number = thread.made + 1
            /\ thread'.at # "off" /\ thread'.made = thread.made + 1
         \/ item.kind # "chunk" /\ thread'.at = "off" /\ thread'.made = thread.made
  PROVE  Told'
<1> DEFINE taken == Len(record.parts)
           left == Len(queue)
<1>1. CASE handler.at # "answer"
  <2>1. handler.at = "gone"
    BY <1>1 DEF TypeInv, Counted
  <2> QED
    BY <2>1 DEF Told
<1>2. CASE handler.at = "answer"
  <2>1. /\ queue \in Seq(Items) /\ left \in Nat /\ queue' = Append(queue, item)
    BY DEF Put, TypeInv, QueueOK
  <2>2. /\ Len(queue') = left + 1 /\ queue'[left + 1] = item
        /\ \A i \in 1 .. left : queue'[i] = queue[i]
    BY <2>1
  <2>3. taken \in Nat /\ thread.made \in Nat
    BY HalfDuplexAssumption DEF TypeInv, RecordOK, ThreadOK
  <2>4. /\ taken + left = thread.made
        /\ \A i \in 1 .. left : queue[i].kind = "chunk" /\ queue[i].number = taken + i
        /\ \A k \in 1 .. taken : record.parts[k] = k
    BY <1>2 DEF Told
  <2> HIDE DEF taken, left
  <2>5. /\ item.kind = "chunk" => item.number = taken + (left + 1)
        /\ \A i \in 1 .. left + 1 : i \in 1 .. left \/ i = left + 1
    BY <2>1, <2>3, <2>4
  <2>6. \A i \in 1 .. left + 1 : queue'[i].kind = "chunk" => queue'[i].number = taken + i
    BY <2>2, <2>4, <2>5
  <2>7. thread'.at # "off" =>
          taken + (left + 1) = thread'.made
          /\ \A i \in 1 .. left + 1 : queue'[i].kind = "chunk"
    <3> SUFFICES ASSUME thread'.at # "off"
                 PROVE  taken + (left + 1) = thread'.made
                        /\ \A i \in 1 .. left + 1 : queue'[i].kind = "chunk"
      OBVIOUS
    <3>1. item.kind = "chunk" /\ thread'.made = thread.made + 1
      OBVIOUS
    <3>2. \A i \in 1 .. left + 1 : queue'[i].kind = "chunk"
      BY <2>2, <2>4, <2>5, <3>1
    <3>3. taken \in Nat /\ left \in Nat /\ taken + left = thread.made
      BY <2>1, <2>3, <2>4
    <3>4. taken + (left + 1) = thread.made + 1
      BY <3>3
    <3> QED
      BY <3>1, <3>2, <3>4
  <2>8. thread'.at = "off" =>
          /\ left + 1 > 0 /\ taken + (left + 1) = thread'.made + 1
          /\ \A i \in 1 .. left + 1 : queue'[i].kind = "chunk" <=> i < left + 1
    <3> SUFFICES ASSUME thread'.at = "off"
                 PROVE  /\ left + 1 > 0 /\ taken + (left + 1) = thread'.made + 1
                        /\ \A i \in 1 .. left + 1 : queue'[i].kind = "chunk" <=> i < left + 1
      OBVIOUS
    <3>1. item.kind # "chunk" /\ thread'.made = thread.made
      OBVIOUS
    <3>2. \A i \in 1 .. left : i < left + 1
      BY <2>1
    <3>3. ~ (left + 1 < left + 1) /\ left + 1 > 0 /\ taken + (left + 1) = thread.made + 1
      BY <2>1, <2>3, <2>4
    <3>4. \A i \in 1 .. left + 1 : queue'[i].kind = "chunk" <=> i < left + 1
      BY <2>2, <2>4, <2>5, <3>1, <3>2, <3>3
    <3> QED
      BY <3>1, <3>3, <3>4
  <2>9. handler'.at # "prefill" /\ record'.parts = record.parts
    BY <1>2
  <2> QED
    BY <2>2, <2>4, <2>6, <2>7, <2>8, <2>9 DEF Told, taken
<1> QED
  BY <1>1, <1>2

LEMMA InitTold == Init => Told
  BY DEF Init, Told

LEMMA StepTold == TypeInv /\ Told /\ [Next]_vars => Told'
<1>0. SUFFICES ASSUME TypeInv, Told, [Next]_vars PROVE Told'
  OBVIOUS
<1>1. ASSUME NEW n \in Pieces, SendAudio(n) PROVE Told'
  BY <1>0, <1>1, ToldStays DEF SendAudio
<1>2. CASE SendPrepare \/ SendStop \/ HangUp \/ StopAll
  BY <1>0, <1>2, ToldStays DEF SendPrepare, SendStop, HangUp, StopAll
<1>3. CASE ReadDisconnect \/ Timeout \/ ReadStop \/ PrepareRaises
  BY <1>0, <1>3, ToldStays
  DEF TypeInv, HandlerOK, ReadDisconnect, Timeout, ReadStop, PrepareRaises, Leave
<1>4. CASE ReadPrepare \/ PrepareEnds
  BY <1>0, <1>4, ToldStays DEF TypeInv, HandlerOK, ReadPrepare, PrepareEnds, Leave
<1>5. CASE GuardEnds
  BY <1>0, <1>5, ToldStays DEF TypeInv, HandlerOK, GuardEnds
<1>6. CASE SkipAudio
  BY <1>0, <1>6, ToldStays DEF TypeInv, HandlerOK, SkipAudio, Leave, Goto
<1>7. ASSUME NEW verdict \in Verdicts, HearAudio(verdict) PROVE Told'
  <2>1. handler'.at \in {"waiting", "gone"} \/ (handler'.at = "prefill" /\ record'.parts = <<>>)
    BY <1>0, <1>7 DEF TypeInv, HandlerOK, RecordOK, HearAudio, Read, Leave
  <2> QED
    BY <2>1 DEF Told
<1>8. CASE PrefillEnds
  <2>1. /\ handler'.at = "answer" /\ thread'.at = "running" /\ thread'.made = 0
        /\ queue' = <<>> /\ record'.parts = <<>>
    BY <1>0, <1>8 DEF TypeInv, HandlerOK, PrefillEnds, Told
  <2> QED
    BY <2>1 DEF Told
<1>9. CASE PrefillRaises \/ ReceiveError
  BY <1>0, <1>9, ToldStays
  DEF TypeInv, HandlerOK, PrefillRaises, ReceiveError, TurnFails, Leave, Goto
<1>10. CASE ReceiveChunk
  <2>1. CASE client.connected
    BY <1>0, <1>10, <2>1, ToldTake DEF TypeInv, RecordOK, ReceiveChunk, Item
  <2>2. CASE ~ client.connected
    BY <1>0, <1>10, <2>2, ToldStays DEF TypeInv, HandlerOK, ReceiveChunk, Leave
  <2> QED
    BY <2>1, <2>2
<1>11. CASE ReceiveDone
  BY <1>0, <1>11, ToldStays DEF TypeInv, HandlerOK, ReceiveDone
<1>12. CASE MakeChunk
  <2>1. [kind |-> "chunk", number |-> thread.made + 1] \in Items
    BY <1>0, HalfDuplexAssumption DEF TypeInv, ThreadOK, Items
  <2> QED
    BY <1>0, <1>12, <2>1, ToldPut DEF MakeChunk
<1>13. CASE CheckStop
  <2>1. CASE stop
    <3>1. [kind |-> "done"] \in Items
      BY DEF Items
    <3>2. thread'.at = "off" /\ thread'.made = thread.made
      BY <1>0, <1>13, <2>1 DEF CheckStop, TypeInv, ThreadOK
    <3> QED
      BY <1>0, <1>13, <2>1, <3>1, <3>2, ToldPut DEF CheckStop
  <2>2. CASE ~ stop
    <3>1. thread'.at = "running" /\ thread'.made = thread.made /\ thread.at = "checking"
      BY <1>0, <1>13, <2>2 DEF CheckStop, TypeInv, ThreadOK
    <3> QED
      BY <1>0, <1>13, <2>2, <3>1 DEF CheckStop, Told
  <2> QED
    BY <2>1, <2>2
<1>14. CASE AnswerEnds \/ AnswerRaises
  <2>1. [kind |-> "done"] \in Items /\ [kind |-> "error"] \in Items
    BY DEF Items
  <2>2. thread'.at = "off" /\ thread'.made = thread.made
    BY <1>0, <1>14 DEF AnswerEnds, AnswerRaises, TypeInv, ThreadOK
  <2> QED
    BY <1>0, <1>14, <2>1, <2>2, ToldPut DEF AnswerEnds, AnswerRaises
<1>15. CASE UNCHANGED vars
  BY <1>0, <1>15, ToldStays DEF vars
<1> QED
  BY <1>0, <1>1, <1>2, <1>3, <1>4, <1>5, <1>6, <1>7, <1>8, <1>9, <1>10, <1>11, <1>12,
     <1>13, <1>14, <1>15
  DEF Next, HandlerStep, ThreadStep

-----------------------------------------------------------------------------
(***************************************************************************)
(* The properties of the turns.                                            *)
(***************************************************************************)
\* What TimelineTrue needs: a turn that is not recorded has a greater index.
TurnsInv == TimelineTrue /\ \A i \in 1 .. Len(record.turns) : record.turns[i].turn < handler.turn

LEMMA InitTurns == Init => TurnsInv
  BY DEF Init, TurnsInv, TimelineTrue

LEMMA StepTurns == TypeInv /\ Told /\ TurnsInv /\ [Next]_vars => TurnsInv'
<1>0. SUFFICES ASSUME TypeInv, Told, TurnsInv, [Next]_vars PROVE TurnsInv'
  OBVIOUS
<1>1. ASSUME record'.turns = record.turns, handler'.turn = handler.turn PROVE TurnsInv'
  BY <1>0, <1>1 DEF TurnsInv, TimelineTrue
<1>2. CASE PrepareEnds
  <2>1. record'.turns = <<>>
    BY <1>2 DEF PrepareEnds
  <2> QED
    BY <2>1 DEF TurnsInv, TimelineTrue
<1>3. CASE ReceiveDone
  <2>1. /\ record.turns \in Seq(Turns) /\ record.parts \in Seq(Nat) /\ handler.turn \in Nat
    BY <1>0 DEF TypeInv, RecordOK, HandlerOK
  <2>2. handler'.turn = handler.turn + 1
    BY <1>0, <1>3 DEF TypeInv, HandlerOK, ReceiveDone
  <2>3. PICK new : /\ record'.turns = Append(record.turns, new)
                   /\ new.turn = handler.turn /\ new.made = thread.made
                   /\ new.parts = record.parts
    BY <1>3 DEF ReceiveDone
  <2>4. PICK count \in Nat : count = Len(record.turns)
    BY <2>1
  <2>5. /\ Len(record'.turns) = count + 1 /\ record'.turns[count + 1] = new
        /\ \A i \in 1 .. count : record'.turns[i] = record.turns[i]
    <3>1. Len(Append(record.turns, new)) = count + 1
      BY <2>1, <2>4
    <3>2. /\ Append(record.turns, new)[count + 1] = new
          /\ \A i \in 1 .. count : Append(record.turns, new)[i] = record.turns[i]
      BY <2>1, <2>4
    <3> QED
      BY <2>3, <3>1, <3>2
  <2>6. new.parts = [k \in 1 .. new.made |-> k]
    <3>1. Len(record.parts) = thread.made /\ handler.at = "answer"
      BY <1>0, <1>3, LastItem DEF ReceiveDone, Item
    <3>2. \A k \in 1 .. thread.made : record.parts[k] = k
      BY <1>0, <3>1 DEF Told
    <3>3. record.parts = [k \in 1 .. thread.made |-> k]
      BY <2>1, <3>1, <3>2, SMTT(40)
    <3> QED
      BY <2>3, <3>3
  <2>7. \A i \in 1 .. count : record.turns[i].turn \in Nat
    <3>1. \A i \in 1 .. count : record.turns[i] \in Turns
      BY <2>1, <2>4
    <3>2. \A t \in Turns : t.turn \in Nat
      BY DEF Turns
    <3> QED
      BY <3>1, <3>2
  <2>8. \A i \in 1 .. count + 1 : i \in 1 .. count \/ i = count + 1
    OBVIOUS
  <2>9. /\ \A i \in 1 .. count :
              record.turns[i].parts = [k \in 1 .. record.turns[i].made |-> k]
        /\ \A i, j \in 1 .. count : i < j => record.turns[i].turn < record.turns[j].turn
        /\ \A i \in 1 .. count : record.turns[i].turn < handler.turn
    BY <1>0, <2>4 DEF TurnsInv, TimelineTrue
  <2>10. \A i \in 1 .. count + 1 :
           record'.turns[i].parts = [k \in 1 .. record'.turns[i].made |-> k]
    <3>1. ASSUME NEW i \in 1 .. count
          PROVE  record'.turns[i].parts = [k \in 1 .. record'.turns[i].made |-> k]
      BY <2>5, <2>9, Zenon
    <3>2. record'.turns[count + 1].parts = [k \in 1 .. record'.turns[count + 1].made |-> k]
      BY <2>5, <2>6, Zenon
    <3> QED
      BY <2>8, <3>1, <3>2, Zenon
  <2>11. \A i \in 1 .. count : record.turns[i].turn < handler.turn + 1
    <3>1. \A m, n \in Nat : m < n => m < n + 1
      OBVIOUS
    <3>2. ASSUME NEW i \in 1 .. count PROVE record.turns[i].turn < handler.turn + 1
      <4>1. record.turns[i].turn \in Nat /\ record.turns[i].turn < handler.turn
        BY <2>7, <2>9
      <4> QED
        BY <2>1, <3>1, <4>1, Zenon
    <3> QED
      BY <3>2
  <2>12. \A i \in 1 .. count + 1 : record'.turns[i].turn < handler'.turn
    <3>1. handler.turn < handler.turn + 1
      BY <2>1
    <3> QED
      BY <2>2, <2>3, <2>5, <2>8, <2>11, <3>1, Zenon
  <2>13. \A i, j \in 1 .. count + 1 : i < j => record'.turns[i].turn < record'.turns[j].turn
    <3>1. \A i, j \in 1 .. count + 1 : i < j => i \in 1 .. count
      OBVIOUS
    <3> SUFFICES ASSUME NEW i \in 1 .. count, NEW j \in 1 .. count + 1, i < j
                 PROVE  record'.turns[i].turn < record'.turns[j].turn
      BY <3>1
    <3>2. CASE j = count + 1
      BY <2>3, <2>5, <2>9, <3>2, Zenon
    <3>3. CASE j \in 1 .. count
      BY <2>5, <2>9, <3>3, Zenon
    <3> QED
      BY <2>8, <3>2, <3>3
  <2> QED
    BY <2>5, <2>10, <2>12, <2>13 DEF TurnsInv, TimelineTrue
<1>4. CASE \/ \E n \in Pieces : SendAudio(n)
           \/ SendPrepare \/ SendStop \/ HangUp \/ StopAll
           \/ MakeChunk \/ CheckStop \/ AnswerEnds \/ AnswerRaises
           \/ UNCHANGED vars
  BY <1>1, <1>4
  DEF SendAudio, SendPrepare, SendStop, HangUp, StopAll, MakeChunk, CheckStop, AnswerEnds,
      AnswerRaises, vars
<1>5. CASE ReadDisconnect \/ Timeout \/ ReadStop \/ ReadPrepare \/ PrepareRaises \/ GuardEnds
  BY <1>0, <1>1, <1>5
  DEF TypeInv, HandlerOK, ReadDisconnect, Timeout, ReadStop, ReadPrepare, PrepareRaises,
      GuardEnds, Leave
<1>6. CASE SkipAudio \/ PrefillEnds \/ PrefillRaises \/ ReceiveError
  BY <1>0, <1>1, <1>6
  DEF TypeInv, HandlerOK, SkipAudio, PrefillEnds, PrefillRaises, ReceiveError, TurnFails,
      Leave, Goto
<1>7. CASE \E verdict \in Verdicts : HearAudio(verdict)
  BY <1>0, <1>1, <1>7 DEF TypeInv, HandlerOK, RecordOK, HearAudio, Leave
<1>8. CASE ReceiveChunk
  BY <1>0, <1>1, <1>8 DEF TypeInv, HandlerOK, RecordOK, ReceiveChunk, Leave
<1> QED
  BY <1>0, <1>2, <1>3, <1>4, <1>5, <1>6, <1>7, <1>8 DEF Next, HandlerStep, ThreadStep

\* After a stop is asked for, the generation makes at most the chunk it is making;
\* a stop during the prefill is the one that the clearing of the event loses.
StopInv ==
  /\ handler.at = "prefill" => after = NotAsked
  /\ thread.at # "off" /\ after # NotAsked => stop
  /\ thread.at = "running" => after <= 0
  /\ after <= 1

LEMMA StepStop ==
  ~ EarlyStops /\ TypeInv /\ Told /\ StopInv /\ [Next]_vars => StopInv'
<1>0. SUFFICES ASSUME ~ EarlyStops, TypeInv, Told, StopInv, [Next]_vars PROVE StopInv'
  OBVIOUS
<1>1. ASSUME UNCHANGED <<stop, thread, after>>, handler'.at = "prefill" => handler.at = "prefill"
      PROVE  StopInv'
  BY <1>0, <1>1 DEF StopInv
<1>2. ASSUME UNCHANGED thread, stop', handler'.at # "prefill",
             after' = IF thread.at = "off" THEN after ELSE Asked
      PROVE  StopInv'
  BY <1>0, <1>2 DEF StopInv, Asked, NotAsked
<1>3. CASE StopAll
  BY <1>0, <1>3 DEF StopAll, StopInv, Asked, NotAsked
<1>4. CASE \/ \E n \in Pieces : SendAudio(n)
           \/ SendPrepare \/ SendStop \/ HangUp \/ UNCHANGED vars
  BY <1>1, <1>4 DEF SendAudio, SendPrepare, SendStop, HangUp, vars
<1>5. CASE ReadDisconnect \/ Timeout \/ ReadStop \/ PrepareRaises
  BY <1>0, <1>2, <1>5
  DEF TypeInv, HandlerOK, ReadDisconnect, Timeout, ReadStop, PrepareRaises, Leave
<1>6. CASE ReadPrepare \/ GuardEnds
  BY <1>0, <1>1, <1>6 DEF TypeInv, HandlerOK, ReadPrepare, GuardEnds
<1>7. CASE PrepareEnds
  BY <1>0, <1>1, <1>2, <1>7 DEF TypeInv, HandlerOK, PrepareEnds, Leave
<1>8. CASE SkipAudio
  BY <1>0, <1>1, <1>2, <1>8 DEF TypeInv, HandlerOK, SkipAudio, Leave, Goto
<1>9. ASSUME NEW verdict \in Verdicts, HearAudio(verdict) PROVE StopInv'
  <2>1. CASE UNCHANGED <<stop, after>> /\ handler'.at = "waiting"
    BY <1>1, <1>9, <2>1 DEF HearAudio
  <2>2. CASE Leave
    BY <1>0, <1>2, <1>9, <2>2 DEF TypeInv, HandlerOK, HearAudio, Leave
  <2>3. CASE UNCHANGED stop /\ after' = NotAsked /\ handler.at = "waiting"
    <3>1. thread.at = "off" /\ thread'.at = "off"
      BY <1>0, <1>9, <2>3 DEF TypeInv, Counted, HearAudio
    <3> QED
      BY <2>3, <3>1 DEF StopInv, NotAsked
  <2> QED
    BY <1>0, <1>9, <2>1, <2>2, <2>3 DEF TypeInv, HandlerOK, HearAudio, Read
<1>10. CASE PrefillEnds
  BY <1>0, <1>10 DEF PrefillEnds, StopInv, NotAsked, TypeInv, HandlerOK
<1>11. CASE PrefillRaises \/ ReceiveError
  BY <1>0, <1>1, <1>2, <1>11
  DEF TypeInv, HandlerOK, PrefillRaises, ReceiveError, TurnFails, Leave, Goto
<1>12. CASE ReceiveChunk
  BY <1>0, <1>1, <1>2, <1>12 DEF TypeInv, HandlerOK, ReceiveChunk, Leave
<1>13. CASE ReceiveDone
  <2>1. thread.at = "off" /\ thread'.at = "off" /\ handler'.at # "prefill" /\ after' = after
    BY <1>0, <1>13, LastItem DEF ReceiveDone, TypeInv, HandlerOK
  <2> QED
    BY <1>0, <2>1 DEF StopInv
<1>14. CASE MakeChunk
  <2>1. handler.at # "prefill" /\ thread'.at = "checking"
    BY <1>0, <1>14 DEF MakeChunk, TypeInv, Counted
  <2> QED
    BY <1>0, <1>14, <2>1 DEF MakeChunk, StopInv, NotAsked, TypeInv, Counted
<1>15. CASE CheckStop
  BY <1>0, <1>15 DEF CheckStop, StopInv, NotAsked, TypeInv, ThreadOK, Counted
<1>16. CASE AnswerEnds \/ AnswerRaises
  BY <1>0, <1>16 DEF AnswerEnds, AnswerRaises, StopInv, TypeInv, ThreadOK
<1> QED
  BY <1>0, <1>3, <1>4, <1>5, <1>6, <1>7, <1>8, <1>9, <1>10, <1>11, <1>12, <1>13, <1>14,
     <1>15, <1>16
  DEF Next, HandlerStep, ThreadStep

-----------------------------------------------------------------------------
(***************************************************************************)
(* What the handler has heard and will hear.  The unread messages hold the *)
(* samples after p, up to the last one sent; what the VAD has of the audio *)
(* begins after sample z and ends with p.                                  *)
(***************************************************************************)
Carries(message, p, q) ==
  \/ message.kind = "audio" /\ p <= q /\ message.samples = From(p, q - p)
  \/ message.kind # "audio" /\ q = p

\* The messages' audio, one after the other, is the samples after p up to end.
Carry(messages, p, end) ==
  \E f \in [0 .. Len(messages) -> Nat] :
    /\ f[0] = p /\ f[Len(messages)] = end
    /\ \A i \in 1 .. Len(messages) : Carries(messages[i], f[i - 1], f[i])

Floor == Last(heard.segment, 0)

Followed(v, z, p) ==
  /\ VadOk(v, z) /\ Later(v, z, Floor)
  /\ \E m \in Nat : v.leftover = From(z + v.now, m) /\ p = z + v.now + m

Listening(z, p) ==
  /\ Carry(inbox, p, client.sent)
  /\ Floor <= p
  /\ handler.guard \/ handler.at = "preparing" => handler.vad = NewVad
  /\ handler.at = "gone" \/ handler.vad = NoVad \/ Followed(handler.vad, z, p)

HearingInv ==
  /\ Floor \in Nat
  /\ SegmentWhole
  /\ SegmentsApart
  /\ \E z, p \in Nat : Listening(z, p)

\* A message sent carries on where the audio was.
LEMMA CarryAppend ==
  ASSUME NEW messages \in Seq(Messages), NEW p \in Nat, NEW end \in Nat, NEW new \in Nat,
         NEW message \in Messages, Carry(messages, p, end), Carries(message, end, new)
  PROVE  Carry(Append(messages, message), p, new)
<1> DEFINE longer == Append(messages, message)
<1>1. PICK n \in Nat : n = Len(messages)
  OBVIOUS
<1>2. Len(longer) = n + 1 /\ longer[n + 1] = message /\ \A i \in 1 .. n : longer[i] = messages[i]
  BY <1>1
<1>3. PICK f \in [0 .. n -> Nat] :
        /\ f[0] = p /\ f[n] = end
        /\ \A i \in 1 .. n : Carries(messages[i], f[i - 1], f[i])
  BY <1>1 DEF Carry
<1> DEFINE g == [i \in 0 .. n + 1 |-> IF i = n + 1 THEN new ELSE f[i]]
<1> HIDE DEF longer
<1>4. g \in [0 .. n + 1 -> Nat]
  OBVIOUS
<1>5. g[0] = p /\ g[n + 1] = new /\ g[n] = end
  BY <1>3
<1>6. ASSUME NEW i \in 1 .. n + 1 PROVE Carries(longer[i], g[i - 1], g[i])
  <2>1. CASE i = n + 1
    <3>1. i - 1 = n
      BY <2>1
    <3> HIDE DEF g
    <3> QED
      BY <1>2, <1>5, <2>1, <3>1
  <2>2. CASE i # n + 1
    <3>1. i \in 1 .. n /\ g[i - 1] = f[i - 1] /\ g[i] = f[i]
      BY <2>2
    <3> HIDE DEF g
    <3> QED
      BY <1>2, <1>3, <3>1
  <2> QED
    BY <2>1, <2>2
<1> HIDE DEF g
<1> QED
  BY <1>2, <1>4, <1>5, <1>6 DEF Carry, longer

\* A message read leaves the audio after what it carried.
LEMMA CarryTail ==
  ASSUME NEW messages \in Seq(Messages), messages # <<>>, NEW p \in Nat, NEW end,
         Carry(messages, p, end)
  PROVE  \E q \in Nat : Carries(Head(messages), p, q) /\ p <= q /\ Carry(Tail(messages), q, end)
<1>1. PICK n \in Nat : Len(messages) = n + 1
  <2>1. Len(messages) \in Nat \ {0}
    OBVIOUS
  <2>2. Len(messages) - 1 \in Nat /\ Len(messages) = (Len(messages) - 1) + 1
    BY <2>1
  <2> QED
    BY <2>2
<1>2. /\ Len(Tail(messages)) = n /\ Head(messages) = messages[1]
      /\ \A i \in 1 .. n : Tail(messages)[i] = messages[i + 1]
  BY <1>1
<1>3. PICK f \in [0 .. n + 1 -> Nat] :
        /\ f[0] = p /\ f[n + 1] = end
        /\ \A i \in 1 .. n + 1 : Carries(messages[i], f[i - 1], f[i])
  BY <1>1 DEF Carry
<1>4. Carries(messages[1], f[0], f[1]) /\ f[1] \in Nat
  BY <1>3
<1>5. f[0] <= f[1]
  BY <1>3, <1>4 DEF Carries
<1> DEFINE g == [i \in 0 .. n |-> f[i + 1]]
<1>6. g \in [0 .. n -> Nat] /\ g[0] = f[1] /\ g[n] = end
  BY <1>3
<1>7. ASSUME NEW i \in 1 .. n PROVE Carries(Tail(messages)[i], g[i - 1], g[i])
  <2>1. i + 1 \in 1 .. n + 1 /\ (i + 1) - 1 = i
    OBVIOUS
  <2>2. g[i - 1] = f[i] /\ g[i] = f[i + 1]
    OBVIOUS
  <2>3. Carries(messages[i + 1], f[i], f[i + 1])
    BY <1>3, <2>1
  <2> HIDE DEF g
  <2> QED
    BY <1>2, <2>2, <2>3
<1> HIDE DEF g
<1>8. Carry(Tail(messages), f[1], end)
  BY <1>2, <1>6, <1>7 DEF Carry
<1> QED
  BY <1>2, <1>3, <1>4, <1>5, <1>8

\* A new VAD follows whatever comes.
LEMMA NewVadFollows ==
  ASSUME Floor \in Nat, NEW p \in Nat, Floor <= p
  PROVE  Followed(NewVad, p, p)
<1>1. VadOk(NewVad, p) /\ NewVad.leftover = <<>> /\ NewVad.now = 0 /\ ~ NewVad.triggered
  BY NewVadOk
<1>2. From(p, 0) = <<>> /\ p + 0 = p
  BY FromTypes DEF From
<1>3. Later(NewVad, p, Floor)
  BY <1>1, <1>2 DEF Later
<1>4. NewVad.leftover = From(p + NewVad.now, 0) /\ p = p + NewVad.now + 0
  BY <1>1, <1>2
<1> QED
  BY <1>1, <1>3, <1>4 DEF Followed

\* A step that begins no turn: the VAD stays, begins anew, or is not used again.
LEMMA HeardStays ==
  ASSUME HearingInv, UNCHANGED heard,
         NEW z \in Nat, NEW p \in Nat, Listening(z, p),
         NEW q \in Nat, p <= q, Carry(inbox, q, client.sent)',
         handler'.guard \/ handler'.at = "preparing" => handler'.vad = NewVad,
         \/ handler'.at = "gone"
         \/ handler'.vad = NewVad
         \/ q = p /\ handler'.vad = handler.vad /\ handler.at # "gone"
  PROVE  HearingInv'
<1>1. Floor' = Floor /\ Floor \in Nat /\ Floor <= q
  <2>1. Floor' = Floor /\ Floor \in Nat /\ Floor <= p
    BY DEF HearingInv, Floor, Last, LastOf, Listening
  <2> HIDE DEF Floor
  <2> QED
    BY <2>1
<1>2. SegmentWhole' /\ SegmentsApart'
  BY DEF HearingInv, SegmentWhole, SegmentsApart, Whole, SilenceAt, QuietAt
<1>3. \E y \in Nat : handler'.at = "gone" \/ handler'.vad = NoVad \/ Followed(handler'.vad, y, q)
  <2>1. CASE handler'.vad = NewVad
    BY <1>1, <2>1, NewVadFollows
  <2>2. CASE q = p /\ handler'.vad = handler.vad /\ handler.at # "gone"
    BY <2>2 DEF Listening
  <2> QED
    BY <2>1, <2>2
<1>4. PICK y \in Nat :
        handler'.at = "gone" \/ handler'.vad = NoVad \/ Followed(handler'.vad, y, q)
  BY <1>3
<1>5. Followed(handler'.vad, y, q) => Followed(handler.vad, y, q)'
  BY <1>1 DEF Followed
<1>6. Listening(y, q)'
  BY <1>1, <1>4, <1>5 DEF Listening
<1> QED
  BY <1>1, <1>2, <1>6 DEF HearingInv

\* Audio that is heard.
LEMMA HearsOn ==
  ASSUME TypeInv, HearingInv, NEW verdict \in Verdicts, HearAudio(verdict)
  PROVE  HearingInv'
<1> DEFINE v == handler.vad
           fed == Feed(v, Head(inbox).samples, verdict)
<1>1. /\ Read("audio") /\ inbox \in Seq(Messages) /\ inbox # <<>> /\ inbox' = Tail(inbox)
      /\ Head(inbox).kind = "audio" /\ handler.at = "waiting"
      /\ v # NoVad /\ ~ handler.guard /\ client' = client
  BY DEF HearAudio, Read, TypeInv, InboxOK
<1>2. PICK z \in Nat, p \in Nat : Listening(z, p)
  BY DEF HearingInv
<1>3. PICK q \in Nat : /\ p <= q /\ Carries(Head(inbox), p, q)
                       /\ Carry(Tail(inbox), q, client.sent)
  BY <1>1, <1>2, CarryTail DEF Listening
<1>4. Carry(inbox, q, client.sent)'
  BY <1>1, <1>3
<1>5. Followed(v, z, p) /\ Floor \in Nat
  BY <1>1, <1>2 DEF Listening, HearingInv
<1>6. PICK m \in Nat : v.leftover = From(z + v.now, m) /\ p = z + v.now + m
  BY <1>5 DEF Followed
<1>7. PICK n \in Nat : n = q - p /\ p + n = q
  BY <1>3
<1>8. Head(inbox).samples = From(z + v.now + m, n)
  BY <1>1, <1>3, <1>6, <1>7 DEF Carries
<1>9. verdict \in [1 .. Windows(v, Head(inbox).samples) -> Loudness]
  BY <1>1 DEF Verdicts
<1>10. PICK floor \in Nat : floor = Floor
  BY <1>5
<1>11. VadOk(v, z) /\ Later(v, z, floor)
  BY <1>5, <1>10 DEF Followed
<1>12. /\ FedOk(fed, z, floor)
       /\ \E l \in Nat : /\ fed.vad.leftover = From(z + fed.vad.now, l)
                         /\ z + fed.vad.now + l = z + v.now + m + n
  <2> HIDE DEF v
  <2> QED
    BY <1>6, <1>8, <1>9, <1>11, FeedOk
<1> HIDE DEF fed
<1>13. PICK l \in Nat : fed.vad.leftover = From(z + fed.vad.now, l) /\ z + fed.vad.now + l = q
  BY <1>6, <1>7, <1>12
<1> DEFINE bar == Last(fed.segment, floor)
<1>14. bar \in Nat /\ Later(fed.vad, z, bar) /\ VadOk(fed.vad, z) /\ bar <= q
  <2>1. bar \in Nat /\ Later(fed.vad, z, bar) /\ VadOk(fed.vad, z) /\ bar <= z + fed.vad.now
    BY <1>12 DEF FedOk, Later
  <2>2. fed.vad.now \in Nat
    BY <2>1 DEF VadOk, VadType
  <2> HIDE DEF bar
  <2> QED
    BY <1>13, <2>1, <2>2
<1> HIDE DEF bar
<1>15. ASSUME Floor' = bar, handler'.vad = fed.vad, handler'.guard = handler.guard,
              handler'.at # "preparing"
       PROVE  Floor' \in Nat /\ Listening(z, q)'
  <2>1. Followed(handler.vad, z, q)'
    BY <1>13, <1>14, <1>15 DEF Followed
  <2> QED
    BY <1>1, <1>4, <1>14, <1>15, <2>1 DEF Listening
<1>16. CASE Leave /\ UNCHANGED heard
  <2>1. handler'.at = "gone" /\ ~ handler'.guard
    BY <1>1, <1>16 DEF Leave, TypeInv, HandlerOK
  <2> QED
    BY <1>2, <1>3, <1>4, <1>16, <2>1, HeardStays
<1>17. CASE /\ fed.segment = <<>> /\ UNCHANGED heard
            /\ handler' = [handler EXCEPT !.vad = fed.vad]
  <2>1. bar = Floor /\ Floor' = Floor
    BY <1>10, <1>17 DEF bar, Last, Floor, LastOf
  <2>2. /\ handler'.vad = fed.vad /\ handler'.guard = handler.guard
        /\ handler'.at # "preparing"
    BY <1>1, <1>17 DEF TypeInv, HandlerOK
  <2>3. SegmentWhole' /\ SegmentsApart'
    BY <1>17 DEF HearingInv, SegmentWhole, SegmentsApart, Whole, SilenceAt, QuietAt
  <2> QED
    BY <1>15, <2>1, <2>2, <2>3 DEF HearingInv
<1>18. CASE /\ fed.segment # <<>>
            /\ handler' = [handler EXCEPT !.vad = fed.vad, !.at = "prefill"]
            /\ heard' = [segment |-> fed.segment,
                         before |-> IF heard.segment = <<>> THEN 0 ELSE LastOf(heard.segment)]
  <2>1. heard'.segment = fed.segment /\ heard'.before = Floor
    BY <1>18 DEF Floor, Last
  <2>2. Floor' = bar
    BY <1>18, <2>1 DEF bar, Last, Floor, LastOf
  <2>3. /\ handler'.vad = fed.vad /\ handler'.guard = handler.guard
        /\ handler'.at # "preparing"
    BY <1>1, <1>18 DEF TypeInv, HandlerOK
  <2>4. Whole(fed.segment) /\ fed.segment[1].samples[1] > floor
    BY <1>12, <1>18 DEF FedOk
  <2>5. SegmentWhole'
    BY <2>1, <2>4 DEF SegmentWhole, Whole, SilenceAt, QuietAt
  <2>6. SegmentsApart'
    BY <1>10, <2>1, <2>4 DEF SegmentsApart
  <2> QED
    BY <1>15, <2>2, <2>3, <2>5, <2>6 DEF HearingInv
<1>19. \/ Leave /\ UNCHANGED heard
       \/ /\ fed.segment = <<>> /\ UNCHANGED heard
          /\ handler' = [handler EXCEPT !.vad = fed.vad]
       \/ /\ fed.segment # <<>>
          /\ handler' = [handler EXCEPT !.vad = fed.vad, !.at = "prefill"]
          /\ heard' = [segment |-> fed.segment,
                       before |-> IF heard.segment = <<>> THEN 0 ELSE LastOf(heard.segment)]
  BY DEF HearAudio, fed
<1> QED
  BY <1>16, <1>17, <1>18, <1>19

LEMMA InitHearing == Init => HearingInv
<1> SUFFICES ASSUME Init PROVE HearingInv
  OBVIOUS
<1>1. Floor = 0 /\ SegmentWhole /\ SegmentsApart
  BY DEF Init, Floor, Last, SegmentWhole, SegmentsApart
<1>2. Carry(inbox, 0, client.sent)
  <2>1. [i \in 0 .. 0 |-> 0] \in [0 .. 0 -> Nat] /\ [i \in 0 .. 0 |-> 0][0] = 0
    OBVIOUS
  <2>2. Len(inbox) = 0 /\ client.sent = 0 /\ 1 .. 0 = {}
    BY DEF Init
  <2> QED
    BY <2>1, <2>2 DEF Carry
<1>3. Listening(0, 0)
  BY <1>1, <1>2 DEF Init, Listening
<1> QED
  BY <1>1, <1>3 DEF HearingInv

LEMMA StepHearing == TypeInv /\ HearingInv /\ [Next]_vars => HearingInv'
<1>0. SUFFICES ASSUME TypeInv, HearingInv, [Next]_vars PROVE HearingInv'
  OBVIOUS
<1>1. PICK z \in Nat, p \in Nat : Listening(z, p)
  BY <1>0 DEF HearingInv
<1>2. /\ Carry(inbox, p, client.sent) /\ p <= p
      /\ handler.guard \/ handler.at = "preparing" => handler.vad = NewVad
      /\ inbox \in Seq(Messages) /\ client.sent \in Nat
  BY <1>0, <1>1, HalfDuplexAssumption DEF Listening, TypeInv, InboxOK, ClientOK
<1>3. HandlerOK
  BY <1>0 DEF TypeInv
\* The handler reads nothing, and hears nothing anew.
<1>4. ASSUME UNCHANGED <<client, inbox, heard>>, handler'.at = "gone", handler'.vad = handler.vad,
             handler'.guard = handler.guard
      PROVE  HearingInv'
  BY <1>0, <1>1, <1>2, <1>4, HeardStays
<1>5. ASSUME UNCHANGED <<inbox, heard>>, client'.sent = client.sent, handler'.vad = handler.vad,
             handler'.guard => handler.guard,
             handler'.at = handler.at \/ (handler.at # "gone" /\ handler'.at # "preparing")
      PROVE  HearingInv'
  <2>1. CASE handler.at = "gone"
    BY <1>0, <1>1, <1>2, <1>5, <2>1, HeardStays
  <2>2. CASE handler.at # "gone"
    BY <1>0, <1>1, <1>2, <1>5, <2>2, HeardStays
  <2> QED
    BY <2>1, <2>2
<1>6. ASSUME UNCHANGED <<client, inbox, heard>>, handler'.vad = NewVad
      PROVE  HearingInv'
  BY <1>0, <1>1, <1>2, <1>6, HeardStays
\* It reads a message.
<1>7. ASSUME NEW kind, Read(kind), client' = client
      PROVE  \E q \in Nat : /\ p <= q /\ Carry(inbox, q, client.sent)'
                            /\ kind # "audio" => q = p
  BY <1>2, <1>7, CarryTail DEF Read, Carries
\* The client sends one.
<1>8. ASSUME NEW message \in Messages, Send(message), UNCHANGED <<handler, heard>>,
             client'.sent \in Nat, Carries(message, client.sent, client'.sent)
      PROVE  HearingInv'
  <2>1. Carry(inbox, p, client.sent)'
    BY <1>2, <1>8, CarryAppend DEF Send
  <2>2. CASE handler.at = "gone"
    BY <1>0, <1>1, <1>2, <1>8, <2>1, <2>2, HeardStays
  <2>3. CASE handler.at # "gone"
    BY <1>0, <1>1, <1>2, <1>8, <2>1, <2>3, HeardStays
  <2> QED
    BY <2>2, <2>3
<1>9. ASSUME NEW n \in Pieces, SendAudio(n) PROVE HearingInv'
  <2>1. n \in Nat
    BY HalfDuplexAssumption
  <2>2. PICK c \in Nat : c = client.sent
    BY <1>2
  <2>3. client'.sent = c + n
    BY <1>0, <1>9, <2>2 DEF SendAudio, TypeInv, ClientOK
  <2> DEFINE message == [kind |-> "audio", samples |-> From(c, n)]
  <2>4. message \in Messages
    BY <2>1, MessageTypes DEF From
  <2>5. Send(message)
    BY <1>9, <2>2 DEF SendAudio, From
  <2>6. Carries(message, c, c + n) /\ c + n \in Nat
    BY <2>1 DEF Carries
  <2> HIDE DEF message
  <2> QED
    BY <1>8, <1>9, <2>2, <2>3, <2>4, <2>5, <2>6 DEF SendAudio
<1>10. CASE SendPrepare
  <2>1. client'.sent = client.sent
    BY <1>0, <1>10 DEF SendPrepare, TypeInv, ClientOK
  <2>2. Carries([kind |-> "prepare"], client.sent, client'.sent)
    BY <2>1 DEF Carries
  <2> QED
    BY <1>2, <1>8, <1>10, <2>1, <2>2, MessageTypes DEF SendPrepare
<1>11. CASE SendStop
  <2>1. Carries([kind |-> "stop"], client.sent, client'.sent) /\ client' = client
    BY <1>11 DEF SendStop, Carries
  <2> QED
    BY <1>2, <1>8, <1>11, <2>1, MessageTypes DEF SendStop
<1>12. CASE HangUp
  <2>1. client'.sent = client.sent
    BY <1>0, <1>12 DEF HangUp, TypeInv, ClientOK
  <2> QED
    BY <1>5, <1>12, <2>1 DEF HangUp
<1>13. CASE StopAll \/ MakeChunk \/ CheckStop \/ AnswerEnds \/ AnswerRaises \/ UNCHANGED vars
  BY <1>5, <1>13 DEF StopAll, MakeChunk, CheckStop, AnswerEnds, AnswerRaises, vars
<1>14. CASE ReadDisconnect \/ Timeout \/ PrepareRaises
  BY <1>3, <1>4, <1>14 DEF HandlerOK, ReadDisconnect, Timeout, PrepareRaises, Leave
<1>15. CASE ReadStop
  <2>1. handler'.at = "gone" /\ handler'.vad = handler.vad /\ handler'.guard = handler.guard
    BY <1>3, <1>15 DEF HandlerOK, ReadStop, Leave
  <2>2. handler.at # "preparing" /\ client' = client /\ heard' = heard
    BY <1>15 DEF ReadStop, Read
  <2> QED
    BY <1>0, <1>1, <1>2, <1>7, <1>15, <2>1, <2>2, HeardStays DEF ReadStop
<1>16. CASE ReadPrepare
  <2>1. handler'.vad = NewVad
    BY <1>3, <1>16 DEF HandlerOK, ReadPrepare
  <2> QED
    BY <1>0, <1>1, <1>7, <1>16, <2>1, HeardStays DEF ReadPrepare
<1>17. CASE PrepareEnds
  <2>1. handler'.vad = NewVad
    BY <1>2, <1>3, <1>17 DEF HandlerOK, PrepareEnds, Leave
  <2> QED
    BY <1>6, <1>17, <2>1 DEF PrepareEnds
<1>18. CASE GuardEnds
  BY <1>3, <1>5, <1>18 DEF HandlerOK, GuardEnds
<1>19. CASE SkipAudio
  <2>1. PICK q \in Nat : p <= q /\ Carry(inbox, q, client.sent)'
    BY <1>7, <1>19 DEF SkipAudio
  <2>2. /\ handler'.vad = handler.vad /\ handler'.guard = handler.guard
        /\ handler'.at = "gone" \/ handler'.at = "waiting"
        /\ heard' = heard /\ handler.at = "waiting"
    BY <1>3, <1>19 DEF HandlerOK, SkipAudio, Leave, Goto, Read
  <2>3. CASE handler.guard
    BY <1>0, <1>1, <1>2, <2>1, <2>2, <2>3, HeardStays
  <2>4. CASE handler.vad = NoVad /\ ~ handler.guard
    <3>1. Floor' = Floor /\ SegmentWhole' /\ SegmentsApart'
      BY <1>0, <2>2
      DEF HearingInv, SegmentWhole, SegmentsApart, Whole, SilenceAt, QuietAt, Floor, Last, LastOf
    <3>2. Floor \in Nat /\ Floor <= p
      BY <1>0, <1>1 DEF HearingInv, Listening
    <3>3. Floor <= q
      BY <2>1, <3>2
    <3>4. Listening(z, q)'
      BY <2>1, <2>2, <2>4, <3>1, <3>3 DEF Listening
    <3> QED
      BY <3>1, <3>2, <3>4 DEF HearingInv
  <2> QED
    BY <1>19, <2>3, <2>4 DEF SkipAudio
<1>20. ASSUME NEW verdict \in Verdicts, HearAudio(verdict) PROVE HearingInv'
  BY <1>0, <1>20, HearsOn
<1>21. CASE PrefillEnds
  BY <1>3, <1>5, <1>21 DEF HandlerOK, PrefillEnds
<1>22. CASE PrefillRaises \/ ReceiveError \/ ReceiveChunk
  BY <1>3, <1>4, <1>5, <1>22
  DEF HandlerOK, PrefillRaises, ReceiveError, ReceiveChunk, Item, TurnFails, Goto, Leave
<1>23. CASE ReceiveDone
  <2>1. CASE client.connected
    <3>1. handler'.vad = NewVad
      BY <1>3, <1>23, <2>1 DEF HandlerOK, ReceiveDone
    <3> QED
      BY <1>6, <1>23, <3>1 DEF ReceiveDone
  <2>2. CASE ~ client.connected
    <3>1. handler'.at = "gone" /\ handler'.vad = handler.vad /\ handler'.guard = handler.guard
      BY <1>3, <1>23, <2>2 DEF HandlerOK, ReceiveDone
    <3> QED
      BY <1>4, <1>23, <3>1 DEF ReceiveDone
  <2> QED
    BY <2>1, <2>2
<1> QED
  BY <1>0, <1>9, <1>10, <1>11, <1>12, <1>13, <1>14, <1>15, <1>16, <1>17, <1>18, <1>19, <1>20,
     <1>21, <1>22, <1>23
  DEF Next, HandlerStep, ThreadStep

-----------------------------------------------------------------------------
(***************************************************************************)
(* The theorems.                                                           *)
(***************************************************************************)

\* TypeOK holds of every behaviour.
THEOREM TypeCorrect == Spec => []TypeOK
<1>1. TypeInv => TypeOK
  BY DEF TypeInv, ClientOK, InboxOK, HandlerOK, ThreadOK, Counted, TypeOK
<1>2. Init => TypeInv /\ Told
  BY InitTypes, InitTold
<1>3. TypeInv /\ Told /\ [Next]_vars => (TypeInv /\ Told)'
  BY StepTypes, StepTold
<1> QED
  BY <1>1, <1>2, <1>3, PTL DEF Spec

\* TimelineTrue holds of every behaviour: no interleaving of the handler, the thread
\* and the queue between them loses or reorders a chunk of a turn that is recorded.
THEOREM TimelineIsTrue == Spec => []TimelineTrue
<1>1. TurnsInv => TimelineTrue
  BY DEF TurnsInv
<1>2. Init => TypeInv /\ Told /\ TurnsInv
  BY InitTypes, InitTold, InitTurns
<1>3. TypeInv /\ Told /\ TurnsInv /\ [Next]_vars => (TypeInv /\ Told /\ TurnsInv)'
  BY StepTypes, StepTold, StepTurns
<1> QED
  BY <1>1, <1>2, <1>3, PTL DEF Spec

\* StopHeeded holds of every behaviour in which no stop comes during a prefill.
THEOREM StopIsHeeded == ASSUME ~ EarlyStops PROVE Spec => []StopHeeded
<1>1. StopInv => StopHeeded
  BY DEF StopInv, StopHeeded
<1>2. Init => TypeInv /\ Told /\ StopInv
  <2>1. Init => StopInv
    BY DEF Init, StopInv, NotAsked
  <2> QED
    BY <2>1, InitTypes, InitTold
<1>3. TypeInv /\ Told /\ StopInv /\ [Next]_vars => (TypeInv /\ Told /\ StopInv)'
  BY StepTypes, StepTold, StepStop
<1> QED
  BY <1>1, <1>2, <1>3, PTL DEF Spec
\* HearingInv, like the invariants before it, holds of every behaviour.
LEMMA HearingKept == Spec => []HearingInv
<1>1. Init => TypeInv /\ Told /\ HearingInv
  BY InitTypes, InitTold, InitHearing
<1>2. TypeInv /\ Told /\ HearingInv /\ [Next]_vars => (TypeInv /\ Told /\ HearingInv)'
  BY StepTypes, StepTold, StepHearing
<1> QED
  BY <1>1, <1>2, PTL DEF Spec

\* SegmentWhole holds of every behaviour: however the audio is cut into messages,
\* and whatever turns, prepares and stops come between, what is answered begins
\* with a loud window, has no gap and ends with its first long silence.
THEOREM SegmentIsWhole == Spec => []SegmentWhole
<1>1. HearingInv => SegmentWhole
  BY DEF HearingInv
<1> QED
  BY <1>1, HearingKept, PTL

\* SegmentsApart holds of every behaviour: no sample is answered twice, though the
\* VAD begins anew with every turn and every prepare.
THEOREM SegmentsAreApart == Spec => []SegmentsApart
<1>1. HearingInv => SegmentsApart
  BY DEF HearingInv
<1> QED
  BY <1>1, HearingKept, PTL
=============================================================================
