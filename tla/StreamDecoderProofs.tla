------------------------ MODULE StreamDecoderProofs ------------------------
(***************************************************************************)
(* Proofs about StreamDecoder, for every length of prompt, unit and window *)
(* and every number of units.                                              *)
(***************************************************************************)
EXTENDS StreamDecoder, TLAPS

\* The lengths of the units, added up, never decrease.
Ordered(d) ==
  \A i \in 1..Len(d.units), j \in 1..Len(d.units) :
    i <= j => d.units[i].upto <= d.units[j].upto

\* No unit is shorter than the shortest.
Long(d) ==
  \A i \in 1..Len(d.units) : Upto(d, i - 1) + ShortestUnit <= Upto(d, i)

\* Every token is encoded with its position.
Exact(d) == \A i \in 1..Len(d.cache) : d.cache[i].pos = i - 1

\* The first preserve tokens are the prompt, and no other is.
Guarded(d) ==
  ~d.halfway => \A i \in 1..Len(d.cache) : d.cache[i].of < 0 <=> i <= d.preserve

\* The parts of the prompt, once they are known (in context mode always), add up.
Parted(d, m) ==
  d.prefix > 0 \/ d.suffix > 0 \/ d.prevLen > 0 \/ m = "context" =>
    d.preserve = d.prefix + d.prevLen + d.suffix

\* In context mode the parts are in their order, and no position is offset.
InOrder(d, m) ==
  m = "context" =>
    /\ d.offset = 0
    /\ ~d.halfway =>
         \A i \in 1..d.preserve :
           d.cache[i].of = IF i <= d.prefix THEN Prefix
                           ELSE IF i <= d.prefix + d.prevLen THEN Previous
                           ELSE Suffix

\* The units fit behind the prompt.
Full(d) == d.preserve + Total(d) <= Len(d.cache)

\* How much of the prompt may be registered and missing: a suffix, of which no unit
\* is shorter, so that the first rebuild makes up for it.
Lack(d, m) == IF d.halfway /\ m = "context" THEN ShortestUnit ELSE 0

Fits(d, m) == d.preserve + Total(d) <= Len(d.cache) + Lack(d, m)

Sound(d, m) ==
  /\ d \in Decoder
  /\ Ordered(d)
  /\ Long(d)
  /\ Exact(d)
  /\ Guarded(d)
  /\ Parted(d, m)
  /\ InOrder(d, m)
  /\ Fits(d, m)
-----------------------------------------------------------------------------
(***************************************************************************)
(* Sequences.                                                              *)
(***************************************************************************)

\* A function from an initial segment is a sequence.
LEMMA FunIsSeq ==
  ASSUME NEW S, NEW n \in Nat, NEW f \in [1..n -> S]
  PROVE  f \in Seq(S) /\ Len(f) = n
  OBVIOUS

\* A part of a sequence.
LEMMA PartIs ==
  ASSUME NEW S, NEW s \in Seq(S), NEW a \in Nat, a >= 1,
         NEW b \in 0..Len(s), a <= b + 1
  PROVE  /\ SubSeq(s, a, b) \in Seq(S)
         /\ Len(SubSeq(s, a, b)) = b + 1 - a
         /\ \A i \in 1..(b + 1 - a) : SubSeq(s, a, b)[i] = s[a + i - 1]
  OBVIOUS

\* Two sequences joined.
LEMMA JoinIs ==
  ASSUME NEW S, NEW s \in Seq(S), NEW t \in Seq(S)
  PROVE  /\ s \o t \in Seq(S)
         /\ Len(s \o t) = Len(s) + Len(t)
         /\ \A i \in 1..Len(s) : (s \o t)[i] = s[i]
         /\ \A i \in (Len(s) + 1)..(Len(s) + Len(t)) : (s \o t)[i] = t[i - Len(s)]
  OBVIOUS

\* What new tokens look like.
LEMMA SlotsAre ==
  ASSUME NEW of \in Int, NEW n \in Nat, NEW p \in Nat
  PROVE  /\ Slots(of, n, p) \in Seq(Slot)
         /\ Len(Slots(of, n, p)) = n
         /\ \A i \in 1..n : /\ Slots(of, n, p)[i].of = of
                            /\ Slots(of, n, p)[i].pos = p + i - 1
<1> DEFINE e(i) == [of |-> of, pos |-> p + i - 1]
<1>1. \A i \in 1..n : e(i) \in Slot
  BY DEF Slot
<1>2. Slots(of, n, p) = [i \in 1..n |-> e(i)]
  BY DEF Slots
<1> HIDE DEF e
<1>3. Slots(of, n, p) \in [1..n -> Slot]
  BY <1>1, <1>2
<1>4. \A i \in 1..n : Slots(of, n, p)[i] = e(i)
  BY <1>2
<1> QED
  BY <1>3, <1>4, FunIsSeq DEF e

\* A token moved, a unit counted from another place.
LEMMA SlotMoved ==
  ASSUME NEW x \in Slot, NEW k \in Int, x.pos + k >= 0
  PROVE  LET y == [x EXCEPT !.pos = @ + k]
         IN y \in Slot /\ y.of = x.of /\ y.pos = x.pos + k
  BY DEF Slot

LEMMA UnitMoved ==
  ASSUME NEW x \in Unit, NEW k \in Int, x.upto >= k
  PROVE  LET y == [x EXCEPT !.upto = @ - k]
         IN /\ y \in Unit /\ y.id = x.id /\ y.said = x.said
            /\ y.listen = x.listen /\ y.upto = x.upto - k
  BY DEF Unit

\* What moving tokens does: they stay the same tokens.
LEMMA RealignIs ==
  ASSUME NEW s \in Seq(Slot), NEW shift \in Int,
         \A i \in 1..Len(s) : s[i].pos + shift >= 0
  PROVE  /\ Realign(s, shift) \in Seq(Slot)
         /\ Len(Realign(s, shift)) = Len(s)
         /\ \A i \in 1..Len(s) : /\ Realign(s, shift)[i].of = s[i].of
                                 /\ Realign(s, shift)[i].pos = s[i].pos + shift
<1> DEFINE e(i) == [s[i] EXCEPT !.pos = @ + shift]
<1>1. \A i \in 1..Len(s) : /\ s[i] \in Slot
                           /\ e(i) \in Slot
                           /\ e(i).of = s[i].of
                           /\ e(i).pos = s[i].pos + shift
  BY SlotMoved
<1>2. Realign(s, shift) = [i \in 1..Len(s) |-> e(i)]
  BY DEF Realign
<1> HIDE DEF e
<1>3. Realign(s, shift) \in [1..Len(s) -> Slot]
  BY <1>1, <1>2
<1>4. \A i \in 1..Len(s) : Realign(s, shift)[i] = e(i)
  BY <1>2
<1>5. Len(s) \in Nat
  OBVIOUS
<1> QED
  <2>1. Realign(s, shift) \in Seq(Slot) /\ Len(Realign(s, shift)) = Len(s)
    BY <1>3, <1>5, FunIsSeq
  <2> QED
    BY <1>1, <1>4, <2>1

\* The lengths of the first units are a number, and grow with the units.
LEMMA UptoGrows ==
  ASSUME NEW d \in Decoder, Ordered(d), NEW i \in 0..Len(d.units)
  PROVE  /\ Upto(d, i) \in Nat
         /\ Total(d) \in Nat
         /\ Upto(d, i) <= Total(d)
         /\ \A j \in i..Len(d.units) : Upto(d, i) <= Upto(d, j)
<1>1. d.units \in Seq(Unit) /\ Len(d.units) \in Nat
  BY DEF Decoder
<1>2. \A j \in 1..Len(d.units) : d.units[j].upto \in Nat
  <2> TAKE j \in 1..Len(d.units)
  <2>1. d.units[j] \in Unit
    BY <1>1
  <2> QED
    BY <2>1 DEF Unit
<1>3. \A j \in 0..Len(d.units) : Upto(d, j) \in Nat
  BY <1>1, <1>2 DEF Upto
<1>4. \A j \in i..Len(d.units) : Upto(d, i) <= Upto(d, j)
  BY <1>1, <1>2, <1>3 DEF Upto, Ordered
<1> QED
  BY <1>1, <1>3, <1>4 DEF Total

\* The history without its first n units: the lengths are counted from there.
LEMMA LaterIs ==
  ASSUME NEW d \in Decoder, Ordered(d), NEW n \in 0..Len(d.units)
  PROVE  /\ Later(d, n) \in Seq(Unit)
         /\ Len(Later(d, n)) = Len(d.units) - n
         /\ \A i \in 1..(Len(d.units) - n) :
              /\ Later(d, n)[i].id = d.units[i + n].id
              /\ Later(d, n)[i].said = d.units[i + n].said
              /\ Later(d, n)[i].listen = d.units[i + n].listen
              /\ Later(d, n)[i].upto = d.units[i + n].upto - Upto(d, n)
<1> DEFINE u == Upto(d, n)
           e(i) == [d.units[i + n] EXCEPT !.upto = @ - u]
           m == Len(d.units) - n
<1>1. d.units \in Seq(Unit) /\ Len(d.units) \in Nat /\ m \in Nat
  BY DEF Decoder
<1>2. u \in Nat
  BY UptoGrows
<1>3. \A i \in 1..m : d.units[i + n] \in Unit /\ d.units[i + n].upto >= u
  <2> TAKE i \in 1..m
  <2>1. i + n \in 1..Len(d.units) /\ i + n \in n..Len(d.units)
    BY <1>1
  <2>2. d.units[i + n] \in Unit
    BY <1>1, <2>1
  <2>3. Upto(d, n) <= Upto(d, i + n)
    BY <2>1, UptoGrows
  <2> QED
    BY <2>1, <2>2, <2>3 DEF Upto
<1>4. Later(d, n) = [i \in 1..m |-> e(i)]
  BY DEF Later
<1> HIDE DEF u, m
<1>5. \A i \in 1..m : /\ e(i) \in Unit
                      /\ e(i).id = d.units[i + n].id
                      /\ e(i).said = d.units[i + n].said
                      /\ e(i).listen = d.units[i + n].listen
                      /\ e(i).upto = d.units[i + n].upto - u
  BY <1>2, <1>3, UnitMoved
<1> HIDE DEF e
<1>6. Later(d, n) \in [1..m -> Unit]
  BY <1>4, <1>5
<1>7. \A i \in 1..m : Later(d, n)[i] = e(i)
  BY <1>4
<1>8. Later(d, n) \in Seq(Unit) /\ Len(Later(d, n)) = m
  BY <1>1, <1>6, FunIsSeq
<1> QED
  BY <1>5, <1>7, <1>8 DEF m, u

\* The same for the sums.
LEMMA LaterUpto ==
  ASSUME NEW d \in Decoder, Ordered(d), NEW n \in 0..Len(d.units),
         NEW e, e.units = Later(d, n)
  PROVE  /\ Ordered(e)
         /\ Long(d) => Long(e)
         /\ \A i \in 0..(Len(d.units) - n) : Upto(e, i) = Upto(d, i + n) - Upto(d, n)
         /\ Total(e) = Total(d) - Upto(d, n)
<1> DEFINE l == Len(d.units)
<1>1. l \in Nat /\ l - n \in Nat
  BY DEF Decoder
<1>2. Len(e.units) = l - n
  BY LaterIs
<1>3. \A i \in 1..(l - n) : e.units[i].upto = d.units[i + n].upto - Upto(d, n)
  BY LaterIs
<1>4. \A i \in 0..l : Upto(d, i) \in Nat
  BY UptoGrows
<1>5. \A i \in 1..l : d.units[i].upto = Upto(d, i)
  BY DEF Upto
<1>6. \A i \in 0..(l - n) : i + n \in 0..l
  BY <1>1
<1>7. \A i \in 0..(l - n) : Upto(e, i) = Upto(d, i + n) - Upto(d, n)
  BY <1>1, <1>3, <1>4, <1>5, <1>6 DEF Upto
<1>8. Total(e) = Total(d) - Upto(d, n)
  <2>1. l - n \in 0..(l - n) /\ (l - n) + n = l
    BY <1>1
  <2> QED
    BY <1>2, <1>7, <2>1 DEF Total
<1>9. Ordered(e)
  <2> SUFFICES ASSUME NEW i \in 1..(l - n), NEW j \in 1..(l - n), i <= j
               PROVE  e.units[i].upto <= e.units[j].upto
    BY <1>2 DEF Ordered
  <2>1. i + n \in 1..l /\ j + n \in 1..l /\ i + n <= j + n
    BY <1>1
  <2>2. d.units[i + n].upto <= d.units[j + n].upto
    BY <2>1 DEF Ordered
  <2>3. d.units[i + n].upto \in Nat /\ d.units[j + n].upto \in Nat /\ Upto(d, n) \in Nat
    BY <1>4, <1>5, <2>1, SMTT(30)
  <2>4. /\ e.units[i].upto = d.units[i + n].upto - Upto(d, n)
        /\ e.units[j].upto = d.units[j + n].upto - Upto(d, n)
    BY <1>3
  <2> QED
    BY <2>2, <2>3, <2>4, SMTT(30)
<1>10. ASSUME Long(d) PROVE Long(e)
  <2> SUFFICES ASSUME NEW i \in 1..(l - n)
               PROVE  Upto(e, i - 1) + ShortestUnit <= Upto(e, i)
    BY <1>2 DEF Long
  <2> DEFINE a == Upto(d, (i + n) - 1)
             b == Upto(d, i + n)
             u == Upto(d, n)
  <2>1. /\ i + n \in 1..l /\ i + n \in 0..l /\ (i + n) - 1 \in 0..l /\ n \in 0..l
        /\ i \in 0..(l - n) /\ i - 1 \in 0..(l - n) /\ (i - 1) + n = (i + n) - 1
    BY <1>1
  <2>2. a \in Nat /\ b \in Nat /\ u \in Nat /\ ShortestUnit \in Nat
    BY <1>4, <2>1 DEF ShortestUnit, Closing
  <2>3. a + ShortestUnit <= b
    BY <1>10, <2>1 DEF Long
  <2>4. Upto(e, i) = b - u /\ Upto(e, i - 1) = a - u
    BY <1>7, <2>1
  <2> HIDE DEF a, b, u
  <2> QED
    BY <2>2, <2>3, <2>4
<1> QED
  BY <1>7, <1>8, <1>9, <1>10

\* A decoder whose cache and units are another's has the other's sums.
LEMMA SameUnits ==
  ASSUME NEW d, NEW e, e.units = d.units
  PROVE  /\ Ordered(d) => Ordered(e)
         /\ Long(d) => Long(e)
         /\ Total(e) = Total(d)
         /\ \A i : Upto(e, i) = Upto(d, i)
  BY DEF Ordered, Long, Total, Upto
-----------------------------------------------------------------------------
(***************************************************************************)
(* The cache.                                                              *)
(***************************************************************************)

\* The units' sums are numbers, and the prompt lies within the cache unless it was
\* cut short.
LEMMA SoundLengths ==
  ASSUME NEW d, NEW m, Sound(d, m)
  PROVE  /\ d.cache \in Seq(Slot) /\ Len(d.cache) \in Nat
         /\ d.preserve \in Nat /\ d.halfway \in BOOLEAN
         /\ Total(d) \in Nat
         /\ Lack(d, m) \in Nat /\ ShortestUnit \in Nat
         /\ d.preserve + Total(d) <= Len(d.cache) + Lack(d, m)
         /\ ~d.halfway \/ m # "context" => d.preserve + Total(d) <= Len(d.cache)
         /\ ~d.halfway \/ m # "context" => d.preserve <= Len(d.cache)
<1>1. d \in Decoder /\ Ordered(d) /\ Fits(d, m)
  BY DEF Sound
<1>2. /\ d.cache \in Seq(Slot) /\ d.preserve \in Nat /\ d.units \in Seq(Unit)
      /\ d.halfway \in BOOLEAN
  BY <1>1 DEF Decoder
<1>3. Total(d) \in Nat
  <2>1. 0 \in 0..Len(d.units)
    BY <1>2
  <2> QED
    BY <1>1, <2>1, UptoGrows
<1>4. Lack(d, m) \in Nat /\ ShortestUnit \in Nat
  BY DEF Lack, ShortestUnit, Closing
<1>5. ~d.halfway \/ m # "context" => Lack(d, m) = 0
  BY DEF Lack
<1> HIDE DEF Lack
<1> QED
  BY <1>1, <1>2, <1>3, <1>4, <1>5 DEF Fits

\* c is a new head before what lies in the cache from some place behind the prompt
\* on (or, where the prompt was cut short, from any place): positions are exact, and
\* the tokens of the units are the same as before.
Spliced(c, d, head, from) ==
  /\ c \in Seq(Slot)
  /\ Len(c) = Len(head) + (Len(d.cache) - from)
  /\ \A i \in 1..Len(c) : c[i].pos = i - 1
  /\ \A i \in 1..Len(head) : c[i] = head[i]
  /\ \A i \in (Len(head) + 1)..Len(c) :
       /\ i - Len(head) + from \in (from + 1)..Len(d.cache)
       /\ c[i].of = d.cache[i - Len(head) + from].of
       /\ ~d.halfway => c[i].of >= 0

LEMMA SpliceIs ==
  ASSUME NEW d, NEW m, Sound(d, m),
         NEW head \in Seq(Slot), \A i \in 1..Len(head) : head[i].pos = i - 1,
         NEW from \in Nat, ~d.halfway => d.preserve <= from, from <= Len(d.cache)
  PROVE  Spliced(head \o Realign(SubSeq(d.cache, from + 1, Len(d.cache)), Len(head) - from),
                 d, head, from)
<1> DEFINE l == Len(d.cache)
           h == Len(head)
           tail == SubSeq(d.cache, from + 1, l)
           moved == Realign(tail, h - from)
           c == head \o moved
<1>1. d.cache \in Seq(Slot) /\ l \in Nat /\ d.preserve \in Nat /\ h \in Nat
  BY SoundLengths
<1>2. /\ \A i \in 1..l : d.cache[i].pos = i - 1
      /\ ~d.halfway => \A i \in 1..l : d.cache[i].of < 0 <=> i <= d.preserve
  BY DEF Sound, Exact, Guarded
<1>3. /\ tail \in Seq(Slot)
      /\ Len(tail) = l - from
      /\ \A i \in 1..(l - from) : tail[i] = d.cache[i + from]
  <2>1. from + 1 \in Nat /\ from + 1 >= 1 /\ l \in 0..l /\ from + 1 <= l + 1
    BY <1>1
  <2>2. /\ tail \in Seq(Slot)
        /\ Len(tail) = l + 1 - (from + 1)
        /\ \A i \in 1..(l + 1 - (from + 1)) : tail[i] = d.cache[(from + 1) + i - 1]
    BY <1>1, <2>1, PartIs, ZenonT(30)
  <2> HIDE DEF tail, l
  <2>3. l + 1 - (from + 1) = l - from /\ \A i \in Int : (from + 1) + i - 1 = i + from
    BY <1>1
  <2> QED
    BY <2>2, <2>3
<1> HIDE DEF l, h, tail
<1>4. \A i \in 1..(l - from) : tail[i].pos = i + from - 1 /\ i + from \in (from + 1)..l
  <2> TAKE i \in 1..(l - from)
  <2>1. i + from \in (from + 1)..l /\ i + from \in 1..l
    BY <1>1 DEF l
  <2>2. d.cache[i + from].pos = i + from - 1
    BY <1>2, <2>1
  <2> QED
    BY <1>3, <2>1, <2>2
<1>5. /\ moved \in Seq(Slot)
      /\ Len(moved) = l - from
      /\ \A i \in 1..(l - from) : moved[i].of = tail[i].of /\ moved[i].pos = i + h - 1
  <2>1. \A i \in 1..Len(tail) : tail[i].pos + (h - from) >= 0
    <3> TAKE i \in 1..Len(tail)
    <3>1. i \in 1..(l - from)
      BY <1>3
    <3>2. tail[i].pos = i + from - 1
      BY <1>4, <3>1
    <3> QED
      BY <1>1, <3>1, <3>2
  <2>2. h - from \in Int
    BY <1>1
  <2>3. /\ moved \in Seq(Slot)
        /\ Len(moved) = Len(tail)
        /\ \A i \in 1..Len(tail) : /\ moved[i].of = tail[i].of
                                   /\ moved[i].pos = tail[i].pos + (h - from)
    BY <1>3, <2>1, <2>2, RealignIs
  <2> HIDE DEF moved
  <2> QED
    BY <1>1, <1>3, <1>4, <2>3, SMTT(30)
<1> HIDE DEF moved
<1>6. /\ c \in Seq(Slot)
      /\ Len(c) = h + (l - from)
      /\ \A i \in 1..h : c[i] = head[i]
      /\ \A i \in (h + 1)..(h + (l - from)) : c[i] = moved[i - h]
  <2>1. /\ head \o moved \in Seq(Slot)
        /\ Len(head \o moved) = Len(head) + Len(moved)
        /\ \A i \in 1..Len(head) : (head \o moved)[i] = head[i]
        /\ \A i \in (Len(head) + 1)..(Len(head) + Len(moved)) :
             (head \o moved)[i] = moved[i - Len(head)]
    BY <1>5, JoinIs
  <2> QED
    BY <1>5, <2>1 DEF h
<1> HIDE DEF c
<1>7. \A i \in (h + 1)..(h + (l - from)) :
        /\ i - h \in 1..(l - from)
        /\ i - h + from \in (from + 1)..l
        /\ c[i].pos = i - 1
        /\ c[i].of = d.cache[i - h + from].of
        /\ ~d.halfway => c[i].of >= 0
  <2> TAKE i \in (h + 1)..(h + (l - from))
  <2>1. i - h \in 1..(l - from) /\ i - h + from \in (from + 1)..l
    BY <1>1
  <2>2. c[i].pos = (i - h) + h - 1 /\ c[i].of = tail[i - h].of
    BY <1>5, <1>6, <2>1
  <2>3. c[i].of = d.cache[i - h + from].of
    BY <1>3, <2>1, <2>2
  <2>4. (~d.halfway => ~(i - h + from <= d.preserve)) /\ i - h + from \in 1..l
    BY <1>1, <2>1
  <2>5. d.cache[i - h + from] \in Slot
    BY <1>1, <2>4 DEF l
  <2>6. d.cache[i - h + from].of \in Int
    BY <2>5 DEF Slot
  <2>7. ~d.halfway => d.cache[i - h + from].of >= 0
    BY <1>2, <2>4, <2>6
  <2> QED
    BY <1>1, <2>1, <2>2, <2>3, <2>7
<1>8. \A i \in 1..h : c[i].pos = i - 1
  BY <1>6 DEF h
<1>9. \A i \in 1..Len(c) : c[i].pos = i - 1
  BY <1>1, <1>6, <1>7, <1>8
<1> QED
  BY <1>6, <1>7, <1>9 DEF Spliced, c, h, l, moved, tail

\* What lies behind some place of the cache of d lies behind the prompt of e.
Behind(e, d, from) ==
  /\ Len(e.cache) = e.preserve + (Len(d.cache) - from)
  /\ \A k \in 1..(Len(d.cache) - from) :
       e.cache[e.preserve + k].of = d.cache[from + k].of

LEMMA SplicedBehind ==
  ASSUME NEW d, NEW m, Sound(d, m), NEW e, NEW head \in Seq(Slot),
         NEW from \in Nat, from <= Len(d.cache),
         Spliced(e.cache, d, head, from), e.preserve = Len(head)
  PROVE  Behind(e, d, from)
<1> DEFINE h == Len(head)
           l == Len(d.cache)
           c == e.cache
<1>1. h \in Nat /\ l \in Nat
  BY SoundLengths
<1>2. /\ Len(c) = h + (l - from)
      /\ \A i \in (h + 1)..Len(c) : c[i].of = d.cache[i - h + from].of
  BY DEF Spliced
<1> HIDE DEF h, l, c
<1>3. ASSUME NEW k \in 1..(l - from) PROVE c[h + k].of = d.cache[from + k].of
  <2>1. h + k \in (h + 1)..Len(c) /\ (h + k) - h + from = from + k
    BY <1>1, <1>2
  <2> QED
    BY <1>2, <2>1
<1> QED
  BY <1>2, <1>3 DEF Behind, h, l, c

\* n tokens, each encoded with its position.
Placed(c, n) ==
  /\ c \in Seq(Slot)
  /\ Len(c) = n
  /\ \A i \in 1..Len(c) : c[i].pos = i - 1

\* New tokens go on from those before them.
LEMMA PlacedMore ==
  ASSUME NEW n \in Nat, NEW c, Placed(c, n), NEW of \in Int, NEW k \in Nat
  PROVE  Placed(c \o Slots(of, k, n), n + k)
<1> DEFINE new == Slots(of, k, n)
           e == c \o new
<1>1. /\ c \in Seq(Slot) /\ Len(c) = n
      /\ \A i \in 1..n : c[i].pos = i - 1
  BY DEF Placed
<1>2. /\ new \in Seq(Slot) /\ Len(new) = k
      /\ \A i \in 1..k : new[i].pos = n + i - 1
  BY SlotsAre
<1> HIDE DEF new
<1>3. /\ e \in Seq(Slot) /\ Len(e) = n + k
      /\ \A i \in 1..n : e[i] = c[i]
      /\ \A i \in (n + 1)..(n + k) : e[i] = new[i - n]
  <2>1. /\ e \in Seq(Slot)
        /\ Len(e) = Len(c) + Len(new)
        /\ \A i \in 1..Len(c) : e[i] = c[i]
        /\ \A i \in (Len(c) + 1)..(Len(c) + Len(new)) : e[i] = new[i - Len(c)]
    BY <1>1, <1>2, JoinIs
  <2> QED
    BY <1>1, <1>2, <2>1
<1> HIDE DEF e
<1>4. ASSUME NEW i \in 1..(n + k) PROVE e[i].pos = i - 1
  <2>1. CASE i <= n
    <3>1. i \in 1..n
      BY <2>1
    <3> QED
      BY <1>1, <1>3, <3>1
  <2>2. CASE ~(i <= n)
    <3>1. i \in (n + 1)..(n + k) /\ i - n \in 1..k /\ n + (i - n) - 1 = i - 1
      BY <2>2
    <3>2. e[i] = new[i - n] /\ new[i - n].pos = n + (i - n) - 1
      BY <1>2, <1>3, <3>1
    <3> QED
      BY <3>1, <3>2
  <2> QED
    BY <2>1, <2>2
<1> QED
  BY <1>3, <1>4 DEF Placed, e, new

\* A prompt of a prefix, previous content and a suffix.
IsHead(c, a, p, s) ==
  /\ c \in Seq(Slot)
  /\ Len(c) = a + p + s
  /\ \A i \in 1..Len(c) :
       /\ c[i].pos = i - 1
       /\ c[i].of = IF i <= a THEN Prefix ELSE IF i <= a + p THEN Previous ELSE Suffix

\* Previous content and suffix behind a prefix make a prompt.
LEMMA HeadIs ==
  ASSUME NEW a \in Nat, NEW p \in Nat, NEW s \in Nat,
         NEW first, IsHead(first, a, 0, 0)
  PROVE  IsHead(first \o Slots(Previous, p, a) \o Slots(Suffix, s, a + p), a, p, s)
<1> DEFINE second == Slots(Previous, p, a)
           third == Slots(Suffix, s, a + p)
           both == first \o second
           c == both \o third
<1>1. /\ first \in Seq(Slot)
      /\ Len(first) = a
      /\ \A i \in 1..a : first[i].pos = i - 1 /\ first[i].of = Prefix
  BY DEF IsHead
<1>2. /\ second \in Seq(Slot)
      /\ Len(second) = p
      /\ \A i \in 1..p : second[i].of = Previous /\ second[i].pos = a + i - 1
  <2>1. Previous \in Int
    BY DEF Previous
  <2> QED
    BY <2>1, SlotsAre
<1>3. /\ third \in Seq(Slot)
      /\ Len(third) = s
      /\ \A i \in 1..s : third[i].of = Suffix /\ third[i].pos = (a + p) + i - 1
  <2>1. Suffix \in Int /\ a + p \in Nat
    BY DEF Suffix
  <2> QED
    BY <2>1, SlotsAre
<1> HIDE DEF second, third
<1>4. /\ both \in Seq(Slot)
      /\ Len(both) = a + p
      /\ \A i \in 1..a : both[i] = first[i]
      /\ \A i \in (a + 1)..(a + p) : both[i] = second[i - a]
  <2>1. /\ both \in Seq(Slot)
        /\ Len(both) = Len(first) + Len(second)
        /\ \A i \in 1..Len(first) : both[i] = first[i]
        /\ \A i \in (Len(first) + 1)..(Len(first) + Len(second)) :
             both[i] = second[i - Len(first)]
    BY <1>1, <1>2, JoinIs
  <2> QED
    BY <1>1, <1>2, <2>1
<1> HIDE DEF both
<1>5. /\ c \in Seq(Slot)
      /\ Len(c) = a + p + s
      /\ \A i \in 1..(a + p) : c[i] = both[i]
      /\ \A i \in (a + p + 1)..(a + p + s) : c[i] = third[i - (a + p)]
  <2>1. /\ c \in Seq(Slot)
        /\ Len(c) = Len(both) + Len(third)
        /\ \A i \in 1..Len(both) : c[i] = both[i]
        /\ \A i \in (Len(both) + 1)..(Len(both) + Len(third)) :
             c[i] = third[i - Len(both)]
    BY <1>3, <1>4, JoinIs
  <2> QED
    BY <1>3, <1>4, <2>1
<1> HIDE DEF c
<1>6. ASSUME NEW i \in 1..(a + p + s)
      PROVE  /\ c[i].pos = i - 1
             /\ c[i].of = IF i <= a THEN Prefix ELSE IF i <= a + p THEN Previous ELSE Suffix
  <2>1. CASE i <= a
    <3>1. i \in 1..a /\ i \in 1..(a + p)
      BY <2>1
    <3> QED
      BY <1>1, <1>4, <1>5, <2>1, <3>1
  <2>2. CASE i > a /\ i <= a + p
    <3>1. i \in (a + 1)..(a + p) /\ i \in 1..(a + p) /\ i - a \in 1..p
      BY <2>2
    <3>2. c[i] = second[i - a]
      BY <1>4, <1>5, <3>1
    <3>3. second[i - a].of = Previous /\ second[i - a].pos = a + (i - a) - 1
      BY <1>2, <3>1
    <3> QED
      BY <2>2, <3>2, <3>3
  <2>3. CASE i > a + p
    <3>1. i \in (a + p + 1)..(a + p + s) /\ i - (a + p) \in 1..s
      BY <2>3
    <3>2. c[i] = third[i - (a + p)]
      BY <1>5, <3>1
    <3>3. third[i - (a + p)].of = Suffix /\ third[i - (a + p)].pos = (a + p) + (i - (a + p)) - 1
      BY <1>3, <3>1
    <3> QED
      BY <2>3, <3>2, <3>3
  <2> QED
    BY <2>1, <2>2, <2>3
<1> QED
  BY <1>5, <1>6 DEF IsHead, c, both, second, third

\* e is d with n new tokens, encoded with their positions, and nothing else.
Fed(e, d, of, n) ==
  /\ e \in Decoder
  /\ e = [d EXCEPT !.cache = e.cache]
  /\ Len(e.cache) = Len(d.cache) + n
  /\ \A i \in 1..Len(d.cache) : e.cache[i] = d.cache[i]
  /\ \A i \in (Len(d.cache) + 1)..(Len(d.cache) + n) :
       e.cache[i].of = of /\ e.cache[i].pos = i - 1

\* feed.
LEMMA FeedIs ==
  ASSUME NEW d \in Decoder, NEW of \in Int, NEW n \in Nat
  PROVE  Fed(Feed(d, of, n), d, of, n)
<1> DEFINE l == Len(d.cache)
           new == Slots(of, n, l)
           c == d.cache \o new
           e == Feed(d, of, n)
<1>1. d.cache \in Seq(Slot) /\ l \in Nat
  BY DEF Decoder
<1>2. e = [d EXCEPT !.cache = c]
  BY DEF Feed
<1> HIDE DEF e
<1>3. /\ new \in Seq(Slot)
      /\ Len(new) = n
      /\ \A i \in 1..n : new[i].of = of /\ new[i].pos = l + i - 1
  BY <1>1, SlotsAre
<1> HIDE DEF new
<1>4. /\ c \in Seq(Slot)
      /\ Len(c) = l + n
      /\ \A i \in 1..l : c[i] = d.cache[i]
      /\ \A i \in (l + 1)..(l + n) : c[i] = new[i - l]
  BY <1>1, <1>3, JoinIs, ZenonT(30)
<1> HIDE DEF c
<1>5. e \in Decoder /\ e.cache = c
  BY <1>2, <1>4 DEF Decoder
<1>6. e = [d EXCEPT !.cache = e.cache]
  BY <1>2, <1>5
<1> HIDE DEF l
<1>7. \A i \in (l + 1)..(l + n) : c[i].of = of /\ c[i].pos = i - 1
  <2> TAKE i \in (l + 1)..(l + n)
  <2>1. i - l \in 1..n
    BY <1>1
  <2>2. c[i].of = of /\ c[i].pos = l + (i - l) - 1
    BY <1>3, <1>4, <2>1
  <2> QED
    BY <1>1, <2>2
<1> QED
  BY <1>1, <1>4, <1>5, <1>6, <1>7 DEF Fed, l, e
-----------------------------------------------------------------------------
(***************************************************************************)
(* Every method of the decoder leaves it sound.                            *)
(***************************************************************************)

\* Feeding a unit.
LEMMA FeedSound ==
  ASSUME NEW d, NEW m, Sound(d, m), NEW of \in Nat, NEW n \in Nat,
         NEW e, Fed(e, d, of, n)
  PROVE  Sound(e, m)
<1> DEFINE l == Len(d.cache)
<1>1. /\ d \in Decoder /\ d.preserve \in Nat /\ l \in Nat
      /\ ~d.halfway => d.preserve <= l
  BY SoundLengths DEF Sound
<1>2. /\ e \in Decoder
      /\ e = [d EXCEPT !.cache = e.cache]
      /\ Len(e.cache) = l + n
      /\ \A i \in 1..l : e.cache[i] = d.cache[i]
      /\ \A i \in (l + 1)..(l + n) : e.cache[i].of = of /\ e.cache[i].pos = i - 1
  BY DEF Fed
<1>3. /\ e.units = d.units /\ e.preserve = d.preserve /\ e.prefix = d.prefix
      /\ e.prevLen = d.prevLen /\ e.suffix = d.suffix /\ e.offset = d.offset
      /\ e.halfway = d.halfway
  BY <1>1, <1>2 DEF Decoder
<1>4. Ordered(e) /\ Long(e) /\ Total(e) = Total(d)
  BY <1>3, SameUnits DEF Sound
<1>5. Exact(e)
  <2>1. \A i \in 1..l : d.cache[i].pos = i - 1
    BY DEF Sound, Exact
  <2> HIDE DEF l
  <2>2. \A i \in 1..(l + n) : i \in 1..l \/ i \in (l + 1)..(l + n)
    BY <1>1
  <2> QED
    BY <1>2, <2>1, <2>2 DEF Exact
<1>6. ASSUME ~d.halfway
      PROVE  \A i \in 1..Len(e.cache) : e.cache[i].of < 0 <=> i <= e.preserve
  <2>1. \A i \in 1..l : d.cache[i].of < 0 <=> i <= d.preserve
    BY <1>6 DEF Sound, Guarded
  <2> HIDE DEF l
  <2>2. \A i \in 1..(l + n) : i \in 1..l \/ (i \in (l + 1)..(l + n) /\ ~(i <= d.preserve))
    BY <1>1, <1>6
  <2>3. ~(of < 0)
    OBVIOUS
  <2> QED
    BY <1>2, <1>3, <2>1, <2>2, <2>3
<1>7. Parted(e, m)
  BY <1>3 DEF Sound, Parted
<1>8. InOrder(e, m)
  <2> HIDE DEF l
  <2>1. ~d.halfway => \A i \in 1..d.preserve : e.cache[i] = d.cache[i]
    BY <1>1, <1>2
  <2> QED
    BY <1>3, <2>1 DEF Sound, InOrder
<1>9. Fits(e, m)
  <2>1. Lack(e, m) = Lack(d, m)
    BY <1>3 DEF Lack
  <2> QED
    BY <1>1, <1>2, <1>3, <1>4, <2>1, SoundLengths, SMTT(40) DEF Fits
<1>10. Guarded(e)
  BY <1>3, <1>6 DEF Guarded
<1> QED
  BY <1>2, <1>4, <1>5, <1>7, <1>8, <1>9, <1>10 DEF Sound

\* Fields that soundness does not look at may change.
LEMMA SoundLike ==
  ASSUME NEW d, NEW m, Sound(d, m), NEW e \in Decoder,
         e.cache = d.cache, e.units = d.units, e.preserve = d.preserve,
         e.prefix = d.prefix, e.prevLen = d.prevLen, e.suffix = d.suffix,
         e.offset = d.offset, e.halfway = d.halfway
  PROVE  Sound(e, m)
<1>1. Ordered(e) /\ Long(e) /\ Total(e) = Total(d)
  BY SameUnits DEF Sound
<1> QED
  BY <1>1 DEF Sound, Exact, Guarded, Parted, InOrder, Fits, Lack

\* register_unit_start.
LEMMA UnitStartSound ==
  ASSUME NEW d, NEW m, Sound(d, m), NEW e, e = RegisterUnitStart(d)
  PROVE  /\ Sound(e, m)
         /\ e.open /\ e.start = Len(d.cache)
         /\ e.cache = d.cache /\ e.units = d.units /\ e.preserve = d.preserve
         /\ e.next = d.next /\ e.previous = d.previous /\ e.has = d.has
         /\ e.halfway = d.halfway
<1>1. d \in Decoder /\ Len(d.cache) \in Nat
  BY SoundLengths DEF Sound
<1>2. /\ e \in Decoder
      /\ e.open /\ e.start = Len(d.cache)
      /\ e.cache = d.cache /\ e.units = d.units /\ e.preserve = d.preserve
      /\ e.next = d.next /\ e.previous = d.previous /\ e.has = d.has
      /\ e.prefix = d.prefix /\ e.prevLen = d.prevLen /\ e.suffix = d.suffix
      /\ e.offset = d.offset /\ e.halfway = d.halfway
  BY <1>1 DEF RegisterUnitStart, Decoder
<1>3. Sound(e, m)
  BY <1>2, SoundLike
<1> QED
  BY <1>2, <1>3

\* The unit under way starts behind the units of the history, n tokens or more
\* before the end of the cache.
Begun(d, m, n) ==
  /\ d.preserve + Total(d) <= d.start + Lack(d, m)
  /\ d.start + n <= Len(d.cache)

\* e is d with one more unit, of the tokens since its start.
UnitAdded(e, d, said, listen) ==
  /\ e \in Decoder
  /\ ~e.open /\ e.next = d.next + 1 /\ e.start = 0
  /\ Len(e.units) = Len(d.units) + 1
  /\ \A i \in 1..Len(d.units) : e.units[i] = d.units[i]
  /\ e.units[Len(d.units) + 1] =
       [id |-> d.next, said |-> said, listen |-> listen,
        upto |-> Total(d) + Len(d.cache) - d.start]
  /\ e.cache = d.cache /\ e.preserve = d.preserve
  /\ e.prefix = d.prefix /\ e.prevLen = d.prevLen /\ e.suffix = d.suffix
  /\ e.offset = d.offset /\ e.previous = d.previous /\ e.has = d.has
  /\ e.halfway = d.halfway

\* register_unit_end.
LEMMA UnitEndIs ==
  ASSUME NEW d \in Decoder, Ordered(d), d.open, d.start <= Len(d.cache), NEW said \in Nat,
         NEW listen \in BOOLEAN
  PROVE  UnitAdded(RegisterUnitEnd(d, said, listen), d, said, listen)
<1> DEFINE e == RegisterUnitEnd(d, said, listen)
           n == Len(d.units)
           u == [id |-> d.next, said |-> said, listen |-> listen,
                 upto |-> Total(d) + Len(d.cache) - d.start]
<1>1. /\ d.units \in Seq(Unit) /\ n \in Nat /\ d.next \in Nat /\ d.start \in Nat
      /\ Len(d.cache) \in Nat
  BY DEF Decoder
<1>2. Total(d) \in Nat
  <2>1. 0 \in 0..n
    BY <1>1
  <2> QED
    BY <2>1, UptoGrows
<1>3. u \in Unit
  <2>1. Total(d) + Len(d.cache) - d.start \in Nat
    BY <1>1, <1>2
  <2> QED
    BY <1>1, <2>1 DEF Unit
<1> HIDE DEF u
<1>4. /\ Append(d.units, u) \in Seq(Unit)
      /\ Len(Append(d.units, u)) = n + 1
      /\ \A i \in 1..n : Append(d.units, u)[i] = d.units[i]
      /\ Append(d.units, u)[n + 1] = u
  BY <1>1, <1>3
<1>5. e = [d EXCEPT !.units = Append(d.units, u), !.open = FALSE, !.start = 0,
                    !.next = d.next + 1]
  BY DEF RegisterUnitEnd, u
<1> HIDE DEF e, n
<1> DEFINE all == Append(d.units, u)
<1> HIDE DEF all
<1>6. /\ e \in Decoder
      /\ e.units = all
      /\ ~e.open /\ e.next = d.next + 1 /\ e.start = 0
      /\ e.cache = d.cache /\ e.preserve = d.preserve
      /\ e.prefix = d.prefix /\ e.prevLen = d.prevLen /\ e.suffix = d.suffix
      /\ e.offset = d.offset /\ e.previous = d.previous /\ e.has = d.has
      /\ e.halfway = d.halfway
  <2>1. all \in Seq(Unit) /\ d.next + 1 \in Nat
    BY <1>1, <1>4 DEF all
  <2>2. e = [d EXCEPT !.units = all, !.open = FALSE, !.start = 0, !.next = d.next + 1]
    BY <1>5 DEF all
  <2>3. e \in Decoder
    BY <2>1, <2>2 DEF Decoder
  <2>4. e.units = all /\ e.open = FALSE /\ e.next = d.next + 1 /\ e.start = 0
    BY <2>2 DEF Decoder
  <2>5. /\ e.cache = d.cache /\ e.preserve = d.preserve
        /\ e.prefix = d.prefix /\ e.prevLen = d.prevLen /\ e.suffix = d.suffix
        /\ e.offset = d.offset /\ e.previous = d.previous /\ e.has = d.has
        /\ e.halfway = d.halfway
    BY <2>2 DEF Decoder
  <2> QED
    BY <2>3, <2>4, <2>5
<1> QED
  BY <1>4, <1>6 DEF UnitAdded, e, n, u, all

LEMMA UnitEndSound ==
  ASSUME NEW d, NEW m, Sound(d, m), Begun(d, m, ShortestUnit), NEW said, NEW listen,
         NEW e, UnitAdded(e, d, said, listen)
  PROVE  Sound(e, m)
<1> DEFINE n == Len(d.units)
           t == Total(d) + Len(d.cache) - d.start
<1>1. d \in Decoder /\ Ordered(d) /\ d.start \in Nat /\ n \in Nat
  BY DEF Sound, Decoder
<1>2. /\ e \in Decoder
      /\ Len(e.units) = n + 1
      /\ \A i \in 1..n : e.units[i] = d.units[i]
      /\ e.units[n + 1].upto = t
      /\ e.cache = d.cache /\ e.preserve = d.preserve
      /\ e.prefix = d.prefix /\ e.prevLen = d.prevLen /\ e.suffix = d.suffix
      /\ e.offset = d.offset /\ e.halfway = d.halfway
  BY DEF UnitAdded
<1>3. /\ Total(d) \in Nat /\ t \in Nat /\ Total(d) <= t /\ Total(d) + ShortestUnit <= t
      /\ d.preserve + t <= Len(d.cache) + Lack(d, m)
  <2>1. /\ Total(d) \in Nat /\ Len(d.cache) \in Nat /\ Lack(d, m) \in Nat
        /\ ShortestUnit \in Nat /\ d.preserve \in Nat
    BY SoundLengths
  <2>2. /\ d.preserve + Total(d) <= d.start + Lack(d, m)
        /\ d.start + ShortestUnit <= Len(d.cache)
    BY DEF Begun
  <2> DEFINE g == Lack(d, m)
             o == Total(d)
             u == ShortestUnit
             s == d.start
             c == Len(d.cache)
             v == d.preserve
  <2>3. g \in Nat /\ o \in Nat /\ u \in Nat /\ s \in Nat /\ c \in Nat /\ v \in Nat
    BY <1>1, <2>1
  <2>4. v + o <= s + g /\ s + u <= c
    BY <2>2
  <2> HIDE DEF g, o, u, s, c, v
  <2>5. o + c - s \in Nat /\ o <= o + c - s /\ o + u <= o + c - s
    BY <2>3, <2>4
  <2>6. v + (o + c - s) <= c + g
    BY <2>3, <2>4
  <2> QED
    BY <2>3, <2>5, <2>6, Zenon DEF g, o, u, s, c, v
<1>4. Total(e) = t
  BY <1>1, <1>2 DEF Total, Upto
<1>5. Ordered(e)
  <2> SUFFICES ASSUME NEW i \in 1..(n + 1), NEW j \in 1..(n + 1), i <= j
               PROVE  e.units[i].upto <= e.units[j].upto
    BY <1>2 DEF Ordered
  <2>1. CASE j <= n
    <3>1. i \in 1..n /\ j \in 1..n
      BY <1>1, <2>1
    <3> QED
      BY <1>1, <1>2, <3>1 DEF Ordered
  <2>2. CASE j = n + 1 /\ i <= n
    <3>1. i \in 0..n /\ i \in 1..n
      BY <1>1, <2>2
    <3>2. Upto(d, i) \in Nat /\ Upto(d, i) <= Total(d)
      BY <1>1, <3>1, UptoGrows
    <3>3. e.units[i].upto = Upto(d, i)
      BY <1>2, <3>1 DEF Upto
    <3> HIDE DEF t
    <3> QED
      BY <1>2, <1>3, <2>2, <3>2, <3>3
  <2>3. CASE i = n + 1 /\ j = n + 1
    <3> HIDE DEF t
    <3> QED
      BY <1>2, <1>3, <2>3
  <2> QED
    BY <1>1, <2>1, <2>2, <2>3
<1>6. Long(e)
  <2> SUFFICES ASSUME NEW i \in 1..(n + 1)
               PROVE  Upto(e, i - 1) + ShortestUnit <= Upto(e, i)
    BY <1>2 DEF Long
  <2>0. \A j \in 0..n : Upto(e, j) = Upto(d, j)
    BY <1>1, <1>2 DEF Upto
  <2>1. CASE i <= n
    <3>1. i \in 1..n /\ i \in 0..n /\ i - 1 \in 0..n
      BY <1>1, <2>1
    <3>2. Upto(d, i - 1) + ShortestUnit <= Upto(d, i)
      BY <3>1 DEF Sound, Long
    <3> QED
      BY <2>0, <3>1, <3>2
  <2>2. CASE i = n + 1
    <3>1. i - 1 = n /\ n \in 0..n
      BY <1>1, <2>2
    <3>2. Upto(e, i - 1) = Total(d)
      BY <2>0, <3>1 DEF Total
    <3>3. Upto(e, i) = t
      BY <1>2, <1>4, <2>2 DEF Total
    <3> HIDE DEF t
    <3> QED
      BY <1>3, <3>2, <3>3
  <2> QED
    BY <1>1, <2>1, <2>2
<1> HIDE DEF t
<1>7. Lack(e, m) = Lack(d, m)
  BY <1>2 DEF Lack
<1> QED
  BY <1>2, <1>3, <1>4, <1>5, <1>6, <1>7 DEF Sound, Exact, Guarded, Parted, InOrder, Fits

\* A decoder whose cache is a new prompt before the last of the old cache.
LEMMA SpliceSound ==
  ASSUME NEW d, NEW m, Sound(d, m), NEW from \in Nat, NEW head \in Seq(Slot),
         from <= Len(d.cache),
         NEW e \in Decoder, Spliced(e.cache, d, head, from),
         ~d.halfway => \A i \in 1..Len(head) : head[i].of < 0,
         e.preserve = Len(head), Ordered(e), Long(e), Total(e) \in Nat,
         Total(e) <= Len(d.cache) - from + Lack(d, m), Parted(e, m), InOrder(e, m),
         e.halfway = d.halfway
  PROVE  Sound(e, m)
<1>1. Len(head) \in Nat /\ Len(d.cache) \in Nat /\ Lack(d, m) \in Nat /\ Lack(e, m) = Lack(d, m)
  BY SoundLengths DEF Lack
<1>2. Exact(e)
  BY DEF Exact, Spliced
<1>3. Guarded(e)
  <2> SUFFICES ASSUME NEW i \in 1..Len(e.cache), ~d.halfway
               PROVE  e.cache[i].of < 0 <=> i <= Len(head)
    BY DEF Guarded
  <2>1. CASE i <= Len(head)
    <3>1. i \in 1..Len(head)
      BY <1>1, <2>1
    <3> QED
      BY <2>1, <3>1 DEF Spliced
  <2>2. CASE ~(i <= Len(head))
    <3>1. i \in (Len(head) + 1)..Len(e.cache)
      BY <1>1, <2>2
    <3>2. e.cache[i].of >= 0
      BY <3>1 DEF Spliced
    <3>3. e.cache[i] \in Slot
      BY SMTT(30) DEF Spliced
    <3>4. e.cache[i].of \in Int
      BY <3>3 DEF Slot
    <3> QED
      BY <2>2, <3>2, <3>4
  <2> QED
    BY <2>1, <2>2
<1>4. Fits(e, m)
  BY <1>1 DEF Fits, Spliced
<1> QED
  BY <1>2, <1>3, <1>4 DEF Sound

\* head is the first n tokens of the cache of d, of its prompt if that is whole.
Heads(head, d, n) ==
  /\ head \in Seq(Slot)
  /\ Len(head) = n
  /\ \A i \in 1..n : head[i] = d.cache[i]
  /\ \A i \in 1..n : head[i].pos = i - 1
  /\ ~d.halfway => \A i \in 1..n : head[i].of < 0

\* The prompt as it is.
LEMMA PromptIs ==
  ASSUME NEW d, NEW m, Sound(d, m), NEW n \in 0..d.preserve, n <= Len(d.cache)
  PROVE  Heads(SubSeq(d.cache, 1, n), d, n)
<1> DEFINE head == SubSeq(d.cache, 1, n)
<1>1. d.cache \in Seq(Slot) /\ d.preserve \in Nat /\ Len(d.cache) \in Nat
  BY SoundLengths
<1>2. n \in 0..Len(d.cache) /\ n + 1 - 1 = n /\ \A i \in Int : 1 + i - 1 = i
  BY <1>1
<1>3. /\ head \in Seq(Slot)
      /\ Len(head) = n
      /\ \A i \in 1..n : head[i] = d.cache[i]
  BY <1>1, <1>2, PartIs
<1>4. \A i \in 1..n : i \in 1..Len(d.cache) /\ i <= d.preserve
  BY <1>1
<1> HIDE DEF head
<1>5. /\ \A i \in 1..n : head[i].pos = i - 1
      /\ ~d.halfway => \A i \in 1..n : head[i].of < 0
  BY <1>3, <1>4 DEF Sound, Exact, Guarded
<1> QED
  BY <1>3, <1>5 DEF Heads, head

\* Dropping units, outside of context mode.
LEMMA DropSound ==
  ASSUME NEW d, NEW m, Sound(d, m), m # "context", NEW n \in 0..Len(d.units)
  PROVE  /\ Sound(DropUnits(d, n), m)
         /\ DropUnits(d, n).open = d.open
         /\ DropUnits(d, n).start = d.start
         /\ DropUnits(d, n).units = Later(d, n)
         /\ DropUnits(d, n).preserve = d.preserve
         /\ DropUnits(d, n).halfway = d.halfway
         /\ Behind(DropUnits(d, n), d, d.preserve + Upto(d, n))
<1> DEFINE e == DropUnits(d, n)
           dropped == Upto(d, n)
           from == d.preserve + dropped
           head == SubSeq(d.cache, 1, d.preserve)
           c == head \o Realign(SubSeq(d.cache, from + 1, Len(d.cache)), Len(head) - from)
           rest == Later(d, n)
<1>1. /\ d \in Decoder /\ Ordered(d) /\ Long(d)
      /\ d.preserve \in Nat /\ Len(d.cache) \in Nat
      /\ Total(d) \in Nat /\ d.preserve + Total(d) <= Len(d.cache)
      /\ d.preserve <= Len(d.cache) /\ Lack(d, m) \in Nat
  BY SoundLengths DEF Sound
<1>2. dropped \in Nat /\ dropped <= Total(d)
  BY <1>1, UptoGrows
<1>3. /\ head \in Seq(Slot)
      /\ Len(head) = d.preserve
      /\ \A i \in 1..d.preserve : head[i].pos = i - 1
      /\ ~d.halfway => \A i \in 1..d.preserve : head[i].of < 0
  <2>1. d.preserve \in 0..d.preserve
    BY <1>1
  <2>2. Heads(head, d, d.preserve)
    BY <1>1, <2>1, PromptIs
  <2> HIDE DEF head
  <2> QED
    BY <2>2 DEF Heads
<1> HIDE DEF dropped, head
<1>4. from \in Nat /\ d.preserve <= from /\ from <= Len(d.cache)
      /\ Len(head) - from = -dropped
  BY <1>1, <1>2, <1>3
<1> HIDE DEF from
<1>5. Spliced(c, d, head, from)
  BY <1>3, <1>4, SpliceIs
<1>6. rest \in Seq(Unit)
  BY <1>1, LaterIs
<1>7. e = [d EXCEPT !.cache = c, !.offset = d.offset + dropped, !.units = rest]
  BY <1>4 DEF DropUnits, dropped, head, from
<1> HIDE DEF c, rest, e
<1>8. c \in Seq(Slot)
  BY <1>5 DEF Spliced
<1>9. /\ e \in Decoder
      /\ e.cache = c /\ e.units = rest /\ e.preserve = d.preserve
      /\ e.prefix = d.prefix /\ e.prevLen = d.prevLen /\ e.suffix = d.suffix
      /\ e.open = d.open /\ e.start = d.start /\ e.halfway = d.halfway
  <2>1. d.offset + dropped \in Nat
    BY <1>1, <1>2, SMTT(30) DEF Decoder
  <2> DEFINE o == d.offset + dropped
  <2>2. o \in Nat /\ e = [d EXCEPT !.cache = c, !.offset = o, !.units = rest]
    BY <1>7, <2>1
  <2> HIDE DEF o
  <2>3. e \in Decoder
    BY <1>1, <1>6, <1>8, <2>2 DEF Decoder
  <2>4. e.cache = c /\ e.units = rest /\ e.preserve = d.preserve
    BY <1>1, <2>2 DEF Decoder
  <2>5. e.prefix = d.prefix /\ e.prevLen = d.prevLen /\ e.suffix = d.suffix
    BY <1>1, <2>2 DEF Decoder
  <2>6. e.open = d.open /\ e.start = d.start /\ e.halfway = d.halfway
    BY <1>1, <2>2 DEF Decoder
  <2> QED
    BY <2>3, <2>4, <2>5, <2>6
<1>10. Ordered(e) /\ Long(e) /\ Total(e) = Total(d) - dropped
  BY <1>1, <1>9, LaterUpto DEF rest, dropped
<1>11. Total(e) \in Nat /\ Total(e) <= Len(d.cache) - from + Lack(d, m)
  BY <1>1, <1>2, <1>10 DEF from
<1>12. Parted(e, m) /\ InOrder(e, m)
  BY <1>9 DEF Sound, Parted, InOrder
<1>13. Spliced(e.cache, d, head, from)
  BY <1>5, <1>9
<1>14. Sound(e, m)
  BY <1>3, <1>4, <1>9, <1>10, <1>11, <1>12, <1>13, SpliceSound
<1>15. Behind(e, d, from)
  BY <1>3, <1>4, <1>9, <1>13, SplicedBehind
<1> QED
  BY <1>9, <1>14, <1>15 DEF e, rest, from, dropped

\* e is d with another prompt of the parts a, p and s before the last tokens of the
\* cache.
NewPrompt(e, d, m, head, from, a, p, s) ==
  /\ e \in Decoder
  /\ head \in Seq(Slot) /\ Len(head) = a + p + s
  /\ \A i \in 1..Len(head) : head[i].pos = i - 1
  /\ from \in Nat /\ from <= Len(d.cache)
  /\ ~d.halfway => IsHead(head, a, p, s) /\ d.preserve <= from
  /\ Total(d) <= Len(d.cache) - from + Lack(d, m)
  /\ e.cache = head \o Realign(SubSeq(d.cache, from + 1, Len(d.cache)), Len(head) - from)
  /\ e.units = d.units /\ e.prefix = a /\ e.prevLen = p /\ e.suffix = s
  /\ e.preserve = a + p + s /\ (m = "context" => e.offset = 0) /\ e.halfway = d.halfway

LEMMA PromptSound ==
  ASSUME NEW d, NEW m, Sound(d, m), NEW a \in Nat, NEW p \in Nat, NEW s \in Nat,
         NEW head, NEW from, NEW e, NewPrompt(e, d, m, head, from, a, p, s)
  PROVE  Sound(e, m)
<1>0. /\ e \in Decoder
      /\ head \in Seq(Slot) /\ Len(head) = a + p + s
      /\ \A i \in 1..Len(head) : head[i].pos = i - 1
      /\ from \in Nat /\ from <= Len(d.cache)
      /\ ~d.halfway => IsHead(head, a, p, s) /\ d.preserve <= from
      /\ Total(d) <= Len(d.cache) - from + Lack(d, m)
      /\ e.cache = head \o Realign(SubSeq(d.cache, from + 1, Len(d.cache)), Len(head) - from)
      /\ e.units = d.units /\ e.prefix = a /\ e.prevLen = p /\ e.suffix = s
      /\ e.preserve = a + p + s /\ (m = "context" => e.offset = 0) /\ e.halfway = d.halfway
  BY DEF NewPrompt
<1>1. Len(d.cache) \in Nat /\ Total(d) \in Nat /\ from <= Len(d.cache)
  BY <1>0, SoundLengths
<1>2. ~d.halfway =>
        /\ \A i \in 1..Len(head) : head[i].of < 0
        /\ \A i \in 1..Len(head) :
             head[i].of = IF i <= a THEN Prefix ELSE IF i <= a + p THEN Previous ELSE Suffix
  <2>1. Prefix < 0 /\ Previous < 0 /\ Suffix < 0
    BY DEF Prefix, Previous, Suffix
  <2> QED
    BY <1>0, <2>1 DEF IsHead
<1>3. Spliced(e.cache, d, head, from)
  BY <1>0, SpliceIs
<1>4. Ordered(e) /\ Long(e) /\ Total(e) = Total(d)
  BY <1>0, SameUnits DEF Sound
<1>5. Parted(e, m)
  BY <1>0 DEF Parted
<1>6. InOrder(e, m)
  <2>1. \A i \in 1..Len(head) : e.cache[i] = head[i]
    BY <1>3 DEF Spliced
  <2> QED
    BY <1>0, <1>2, <2>1 DEF InOrder
<1> QED
  BY <1>0, <1>1, <1>2, <1>3, <1>4, <1>5, <1>6, SpliceSound

\* What a unit said, and the last of a sequence.
LEMMA SaidIs ==
  ASSUME NEW u \in Unit
  PROVE  Said(u) \in Seq(Nat)
<1>1. u.said \in Nat /\ u.id \in Nat
  BY DEF Unit
<1>2. Said(u) \in [1..u.said -> Nat]
  BY <1>1 DEF Said
<1> QED
  BY <1>1, <1>2, FunIsSeq

LEMMA LastOfIs ==
  ASSUME NEW S, NEW s \in Seq(S), NEW n \in Nat
  PROVE  LastOf(s, n) \in Seq(S)
<1>1. CASE Len(s) <= n
  BY <1>1 DEF LastOf
<1>2. CASE ~(Len(s) <= n)
  <2> DEFINE a == Len(s) - n + 1
             b == Len(s)
  <2>1. a \in Nat /\ a >= 1 /\ b \in 0..Len(s) /\ a <= b + 1
    BY <1>2
  <2> HIDE DEF a, b
  <2>2. SubSeq(s, a, b) \in Seq(S)
    BY <2>1, PartIs
  <2> QED
    BY <1>2, <2>2 DEF LastOf, a, b
<1> QED
  BY <1>1, <1>2

\* e is d without its first unit, and with other previous content.
Forgotten(e, d) ==
  /\ e \in Decoder
  /\ e.units = Later(d, 1)
  /\ e.cache = d.cache /\ e.next = d.next /\ e.open = d.open /\ e.start = d.start
  /\ e.preserve = d.preserve /\ e.prefix = d.prefix /\ e.prevLen = d.prevLen
  /\ e.suffix = d.suffix /\ e.offset = d.offset /\ e.halfway = d.halfway

LEMMA ForgetIs ==
  ASSUME NEW d \in Decoder, Ordered(d), Len(d.units) >= 1
  PROVE  Forgotten(Forget(d), d)
<1> DEFINE u == d.units[1]
           new == IF u.listen THEN <<>> ELSE Said(u)
           all == d.previous \o new
           kept == LastOf(all, PreviousMax)
           rest == Later(d, 1)
           has == d.has \/ new # <<>>
           e == Forget(d)
<1>1. /\ d.units \in Seq(Unit) /\ Len(d.units) \in Nat /\ 1 \in 0..Len(d.units)
      /\ d.previous \in Seq(Nat) /\ u \in Unit
  BY DEF Decoder
<1>2. new \in Seq(Nat)
  <2>1. <<>> \in Seq(Nat)
    OBVIOUS
  <2>2. Said(u) \in Seq(Nat)
    BY <1>1, SaidIs
  <2> QED
    BY <2>1, <2>2
<1> HIDE DEF new
<1>3. all \in Seq(Nat)
  BY <1>1, <1>2
<1> HIDE DEF all
<1>4. kept \in Seq(Nat)
  BY <1>3, LastOfIs, LimitAssumption
<1>5. rest \in Seq(Unit)
  BY <1>1, LaterIs
<1>6. has \in BOOLEAN
  OBVIOUS
<1>7. e = [d EXCEPT !.units = rest, !.has = has, !.previous = kept]
  BY DEF Forget, u, new, all
<1> HIDE DEF e, rest, has, kept
<1>8. e \in Decoder
  BY <1>4, <1>5, <1>6, <1>7 DEF Decoder
<1>9. /\ e.units = rest
      /\ e.cache = d.cache /\ e.next = d.next /\ e.open = d.open /\ e.start = d.start
  BY <1>7 DEF Decoder
<1>10. /\ e.preserve = d.preserve /\ e.prefix = d.prefix /\ e.prevLen = d.prevLen
       /\ e.suffix = d.suffix /\ e.offset = d.offset /\ e.halfway = d.halfway
  BY <1>7 DEF Decoder
<1> QED
  BY <1>8, <1>9, <1>10 DEF Forgotten, e, rest

\* _drop_unit_with_context: what stays fits even if the prompt was cut short.
LEMMA ForgetSound ==
  ASSUME NEW d, NEW m, Sound(d, m), Len(d.units) >= 1, NEW e, Forgotten(e, d)
  PROVE  Sound(e, m) /\ Full(e)
<1>1. /\ d \in Decoder /\ Ordered(d) /\ Long(d)
      /\ Len(d.units) \in Nat /\ 1 \in 0..Len(d.units) /\ 1 \in 1..Len(d.units)
  BY DEF Sound, Decoder
<1>2. /\ e \in Decoder /\ e.units = Later(d, 1)
      /\ e.cache = d.cache /\ e.preserve = d.preserve /\ e.prefix = d.prefix
      /\ e.prevLen = d.prevLen /\ e.suffix = d.suffix /\ e.offset = d.offset
      /\ e.halfway = d.halfway
  BY DEF Forgotten
<1>3. Ordered(e) /\ Long(e) /\ Total(e) = Total(d) - Upto(d, 1)
  BY <1>1, <1>2, LaterUpto
<1>4. Upto(d, 1) \in Nat /\ ShortestUnit <= Upto(d, 1)
  <2>1. Upto(d, 0) = 0 /\ Upto(d, 1 - 1) + ShortestUnit <= Upto(d, 1)
    BY <1>1 DEF Long, Upto
  <2>2. 1 - 1 = 0
    OBVIOUS
  <2>3. Upto(d, 1) \in Nat /\ ShortestUnit \in Nat
    BY <1>1, UptoGrows DEF ShortestUnit, Closing
  <2> QED
    BY <2>1, <2>2, <2>3
<1>5. Full(e) /\ Fits(e, m)
  <2>1. /\ Len(d.cache) \in Nat /\ d.preserve \in Nat /\ Total(d) \in Nat
        /\ Lack(d, m) \in Nat /\ ShortestUnit \in Nat
        /\ d.preserve + Total(d) <= Len(d.cache) + Lack(d, m)
    BY SoundLengths
  <2>2. Lack(d, m) <= ShortestUnit /\ Lack(e, m) = Lack(d, m)
    BY <1>2, <2>1 DEF Lack
  <2> QED
    BY <1>2, <1>3, <1>4, <2>1, <2>2 DEF Full, Fits
<1> QED
  BY <1>2, <1>3, <1>5 DEF Sound, Exact, Guarded, Parted, InOrder

\* e is d with another prompt and the same units and memory.
Reheaded(e, d) ==
  /\ e.units = d.units /\ e.next = d.next /\ e.open = d.open /\ e.start = d.start
  /\ e.has = d.has /\ e.previous = d.previous /\ e.halfway = d.halfway

\* _rebuild_cache_with_previous.
LEMMA RebuildSound ==
  ASSUME NEW d, Sound(d, "context"), Full(d)
  PROVE  /\ Sound(Rebuild(d), "context") /\ Reheaded(Rebuild(d), d)
         /\ Behind(Rebuild(d), d, Len(d.cache) - Total(d))
<1> DEFINE keep == Total(d)
           total == Len(d.cache)
           p == PreviousLen(d)
           same == SubSeq(d.cache, 1, d.prefix + d.suffix)
           first == SubSeq(d.cache, 1, d.prefix)
           anew == first \o Slots(Previous, p, d.prefix + d.offset)
                   \o Slots(Suffix, d.suffix, d.prefix + d.offset + p)
           head == IF p = 0 /\ d.prevLen = 0 THEN same ELSE anew
           from == total - keep
           n == d.prefix + p + d.suffix
           tail == SubSeq(d.cache, total - keep + 1, total)
           c == head \o Realign(tail, Len(head) - (total - keep))
           e == Rebuild(d)
<1>1. /\ d \in Decoder /\ d.cache \in Seq(Slot) /\ total \in Nat /\ keep \in Nat
      /\ d.preserve \in Nat /\ d.preserve + keep <= total
  BY SoundLengths DEF Sound, Full
<1>2. /\ d.prefix \in Nat /\ d.suffix \in Nat /\ d.prevLen \in Nat
      /\ d.previous \in Seq(Nat)
  BY <1>1 DEF Decoder
<1>3. p \in Nat
  BY <1>2, LimitAssumption DEF PreviousLen
<1>4. /\ d.offset = 0
      /\ d.preserve = d.prefix + d.prevLen + d.suffix
      /\ ~d.halfway =>
           \A i \in 1..d.preserve :
             d.cache[i].of = IF i <= d.prefix THEN Prefix
                             ELSE IF i <= d.prefix + d.prevLen THEN Previous
                             ELSE Suffix
  BY DEF Sound, InOrder, Parted
<1> HIDE DEF p, keep, total
<1>5. /\ head \in Seq(Slot) /\ Len(head) = n /\ \A i \in 1..Len(head) : head[i].pos = i - 1
      /\ ~d.halfway => IsHead(head, d.prefix, p, d.suffix)
  <2>1. CASE p = 0 /\ d.prevLen = 0
    <3>1. /\ d.prefix + d.suffix \in 0..d.preserve /\ d.prefix + d.suffix = d.preserve
          /\ d.prefix + d.suffix <= Len(d.cache)
      BY <1>1, <1>2, <1>4, <2>1 DEF total
    <3>2. Heads(same, d, d.prefix + d.suffix)
      BY <3>1, PromptIs
    <3> HIDE DEF same
    <3>3. ~d.halfway => IsHead(same, d.prefix, 0, d.suffix)
      BY <1>2, <1>4, <2>1, <3>1, <3>2 DEF Heads, IsHead
    <3>4. n = d.prefix + d.suffix
      BY <1>2, <2>1
    <3>5. same \in Seq(Slot) /\ Len(same) = n /\ \A i \in 1..Len(same) : same[i].pos = i - 1
      BY <3>2, <3>4 DEF Heads
    <3> QED
      BY <2>1, <3>3, <3>5
  <2>2. CASE ~(p = 0 /\ d.prevLen = 0)
    <3>1. d.prefix \in 0..d.preserve /\ d.prefix <= Len(d.cache)
      BY <1>1, <1>2, <1>4 DEF total
    <3>2. Heads(first, d, d.prefix)
      BY <3>1, PromptIs
    <3> HIDE DEF first
    <3>3. IsHead(first, d.prefix, 0, 0) \/ d.halfway
      <4>1. \A i \in 1..d.prefix : i \in 1..d.preserve /\ i <= d.prefix
        BY <1>1, <1>2, <3>1
      <4>2. \A i \in 1..d.prefix : first[i].of = Prefix \/ d.halfway
        BY <1>4, <3>2, <4>1 DEF Heads
      <4> QED
        BY <1>2, <3>2, <4>1, <4>2 DEF Heads, IsHead
    <3>4. d.prefix + d.offset = d.prefix
      BY <1>2, <1>4
    <3>5. ~d.halfway => IsHead(anew, d.prefix, p, d.suffix)
      <4>1. ASSUME ~d.halfway
            PROVE  IsHead(first \o Slots(Previous, p, d.prefix)
                                \o Slots(Suffix, d.suffix, d.prefix + p),
                          d.prefix, p, d.suffix)
        BY <1>2, <1>3, <3>3, <4>1, HeadIs
      <4> QED
        BY <3>4, <4>1
    <3>6. /\ anew \in Seq(Slot) /\ Len(anew) = n
          /\ \A i \in 1..Len(anew) : anew[i].pos = i - 1
      <4>1. Placed(first, d.prefix)
        BY <3>2 DEF Heads, Placed
      <4>2. Previous \in Int /\ Suffix \in Int /\ d.prefix + p \in Nat
        BY <1>2, <1>3 DEF Previous, Suffix
      <4>3. Placed(first \o Slots(Previous, p, d.prefix), d.prefix + p)
        BY <1>2, <1>3, <4>1, <4>2, PlacedMore
      <4>4. Placed(first \o Slots(Previous, p, d.prefix)
                         \o Slots(Suffix, d.suffix, d.prefix + p), n)
        BY <1>2, <4>2, <4>3, PlacedMore
      <4> QED
        BY <3>4, <4>4 DEF Placed
    <3> QED
      BY <2>2, <3>5, <3>6
  <2> QED
    BY <2>1, <2>2
<1> HIDE DEF head
<1>6. /\ from \in Nat /\ d.preserve <= from /\ from <= total /\ keep <= total - from
      /\ Lack(d, "context") \in Nat /\ keep <= total - from + Lack(d, "context")
  <2>1. Lack(d, "context") \in Nat
    BY SoundLengths
  <2> QED
    BY <1>1, <2>1
<1>7. c = head \o Realign(SubSeq(d.cache, from + 1, total), Len(head) - from)
  OBVIOUS
<1> HIDE DEF from
<1>8. head \in Seq(Slot) /\ \A i \in 1..Len(head) : head[i].pos = i - 1
  BY <1>5
<1> HIDE DEF c
<1>9. Spliced(c, d, head, from)
  BY <1>6, <1>7, <1>8, SpliceIs DEF total
<1>10. c \in Seq(Slot)
  BY <1>9 DEF Spliced
<1>11. e = [d EXCEPT !.cache = c, !.prevLen = p, !.preserve = n]
  BY DEF Rebuild, p, keep, total, head, c
<1>12. n \in Nat
  BY <1>2, <1>3
<1> HIDE DEF e, n
<1>13. e \in Decoder
  BY <1>1, <1>3, <1>10, <1>11, <1>12 DEF Decoder
<1>14. /\ e.cache = c /\ e.prevLen = p /\ e.preserve = n /\ e.prefix = d.prefix
       /\ e.suffix = d.suffix /\ e.offset = d.offset
  BY <1>1, <1>11 DEF Decoder
<1>15. Reheaded(e, d)
  BY <1>1, <1>11 DEF Decoder, Reheaded
<1>16. Sound(e, "context")
  <2>1. /\ e.units = d.units /\ e.preserve = d.prefix + p + d.suffix /\ e.offset = 0
        /\ e.halfway = d.halfway
    BY <1>4, <1>14, <1>15 DEF Reheaded, n
  <2>2. Len(head) = d.prefix + p + d.suffix
    BY <1>5 DEF n
  <2>3. /\ from <= Len(d.cache) /\ Total(d) <= Len(d.cache) - from + Lack(d, "context")
        /\ c = head \o Realign(SubSeq(d.cache, from + 1, Len(d.cache)), Len(head) - from)
    BY <1>6, <1>7 DEF keep, total
  <2> QED
    <3>1. NewPrompt(e, d, "context", head, from, d.prefix, p, d.suffix)
      BY <1>5, <1>6, <1>8, <1>13, <1>14, <2>1, <2>2, <2>3 DEF NewPrompt
    <3> QED
      BY <1>2, <1>3, <3>1, PromptSound
<1>17. Behind(e, d, from)
  <2>1. Len(head) = n
    BY <1>5
  <2> QED
    BY <1>6, <1>8, <1>9, <1>14, <2>1, SplicedBehind DEF total
<1> QED
  BY <1>15, <1>16, <1>17 DEF e, from, keep, total

\* update_system_prompt: where the prompt was cut short, nothing lies behind it.
LEMMA UpdatedSound ==
  ASSUME NEW d, NEW m, Sound(d, m), NEW p \in Nat, NEW s \in Nat
  PROVE  /\ Sound(Updated(d, p, s), m) /\ Reheaded(Updated(d, p, s), d)
         /\ d.preserve <= Len(d.cache) => Behind(Updated(d, p, s), d, d.preserve)
<1> DEFINE q == PreviousLen(d)
           head == Slots(Prefix, p, 0) \o Slots(Previous, q, p) \o Slots(Suffix, s, p + q)
           from == SystemEnd(d)
           n == Len(head)
           c == head \o Realign(SubSeq(d.cache, from + 1, Len(d.cache)), Len(head) - from)
           e == Updated(d, p, s)
<1>1. /\ d \in Decoder /\ d.cache \in Seq(Slot) /\ Len(d.cache) \in Nat /\ Total(d) \in Nat
      /\ d.preserve \in Nat /\ Lack(d, m) \in Nat
      /\ d.preserve + Total(d) <= Len(d.cache) + Lack(d, m)
      /\ ~d.halfway => d.preserve <= Len(d.cache)
  BY SoundLengths DEF Sound
<1>2. q \in Nat
  <2>1. d.previous \in Seq(Nat)
    BY <1>1 DEF Decoder
  <2> QED
    BY <2>1, LimitAssumption DEF PreviousLen
<1>3. from = IF d.preserve <= Len(d.cache) THEN d.preserve ELSE Len(d.cache)
  <2>1. Parted(d, m) /\ d.prefix \in Nat /\ d.suffix \in Nat /\ d.prevLen \in Nat
    BY <1>1 DEF Sound, Decoder
  <2> QED
    BY <1>1, <2>1 DEF SystemEnd, Smaller, Parted
<1> HIDE DEF q, from
<1>4. IsHead(head, p, q, s)
  <2> DEFINE first == Slots(Prefix, p, 0)
  <2>0. Prefix \in Int /\ 0 \in Nat
    BY DEF Prefix
  <2>1. /\ first \in Seq(Slot)
        /\ Len(first) = p
        /\ \A i \in 1..p : first[i].of = Prefix /\ first[i].pos = 0 + i - 1
    BY <2>0, SlotsAre
  <2> HIDE DEF first
  <2>2. IsHead(first, p, 0, 0)
    BY <2>1 DEF IsHead
  <2>3. IsHead(first \o Slots(Previous, q, p) \o Slots(Suffix, s, p + q), p, q, s)
    BY <1>2, <2>2, HeadIs
  <2> QED
    BY <2>3 DEF first
<1>5. e = [d EXCEPT !.cache = c, !.prefix = p, !.prevLen = q, !.suffix = s,
                    !.preserve = n, !.offset = 0]
  BY DEF Updated, q, from
<1> HIDE DEF head
<1>6. head \in Seq(Slot) /\ n = p + q + s /\ \A i \in 1..Len(head) : head[i].pos = i - 1
  BY <1>4 DEF IsHead
<1>7. /\ from \in Nat /\ from <= Len(d.cache)
      /\ ~d.halfway => d.preserve <= from
      /\ Total(d) <= Len(d.cache) - from + Lack(d, m)
  BY <1>1, <1>3
<1> HIDE DEF c
<1>8. Spliced(c, d, head, from)
  BY <1>6, <1>7, SpliceIs DEF c
<1>9. c \in Seq(Slot)
  BY <1>8 DEF Spliced
<1> HIDE DEF e, n
<1>10. n \in Nat
  BY <1>2, <1>6
<1>11. e \in Decoder
  BY <1>1, <1>2, <1>5, <1>9, <1>10 DEF Decoder
<1>12. /\ e.cache = c /\ e.prevLen = q /\ e.preserve = n /\ e.prefix = p
       /\ e.suffix = s /\ e.offset = 0
  BY <1>1, <1>5 DEF Decoder
<1>13. Reheaded(e, d)
  BY <1>1, <1>5 DEF Decoder, Reheaded
<1>14. Sound(e, m)
  <2>1. e.units = d.units /\ e.preserve = p + q + s /\ e.halfway = d.halfway
    BY <1>6, <1>12, <1>13 DEF Reheaded
  <2>2. e.cache = head \o Realign(SubSeq(d.cache, from + 1, Len(d.cache)), Len(head) - from)
    BY <1>12 DEF c
  <2>3. Len(head) = p + q + s
    BY <1>6 DEF n
  <2> QED
    <3>1. NewPrompt(e, d, m, head, from, p, q, s)
      BY <1>4, <1>6, <1>7, <1>11, <1>12, <2>1, <2>2, <2>3 DEF NewPrompt
    <3> QED
      BY <1>2, <3>1, PromptSound
<1>15. ASSUME d.preserve <= Len(d.cache) PROVE Behind(e, d, d.preserve)
  <2>1. Len(head) = n
    BY <1>6 DEF n
  <2>2. from = d.preserve
    BY <1>3, <1>15
  <2> QED
    BY <1>6, <1>7, <1>8, <1>12, <2>1, <2>2, SplicedBehind
<1> QED
  BY <1>13, <1>14, <1>15 DEF e

\* The decoder after reset.
LEMMA EmptySound ==
  ASSUME NEW m
  PROVE  Sound(Empty, m)
<1>1. Empty \in Decoder
  BY DEF Empty, Decoder
<1>2. /\ Empty.cache = <<>> /\ Empty.units = <<>> /\ Empty.preserve = 0 /\ Empty.offset = 0
      /\ Empty.prefix = 0 /\ Empty.prevLen = 0 /\ Empty.suffix = 0
  BY DEF Empty
<1>3. Ordered(Empty) /\ Long(Empty) /\ Exact(Empty) /\ Guarded(Empty)
  BY <1>2 DEF Ordered, Long, Exact, Guarded
<1>4. Parted(Empty, m)
  BY <1>2 DEF Parted
<1>5. InOrder(Empty, m)
  BY <1>2 DEF InOrder
<1>6. Fits(Empty, m)
  <2>1. Lack(Empty, m) = 0
    BY DEF Lack, Empty
  <2> QED
    BY <1>2, <2>1 DEF Fits, Total, Upto
<1> QED
  BY <1>1, <1>3, <1>4, <1>5, <1>6 DEF Sound

\* A decoder that holds a prompt and no unit.
PromptOnly(d, m, p, s) ==
  /\ d \in Decoder
  /\ d.units = <<>> /\ d.open = FALSE /\ d.start = 0 /\ d.next = 0
  /\ d.prevLen = 0 /\ d.offset = 0 /\ d.halfway = FALSE
  /\ Len(d.cache) = p + s /\ d.preserve = p + s
  /\ IF m = "context" THEN d.prefix = p /\ d.suffix = s
     ELSE d.prefix = 0 /\ d.suffix = 0
  /\ \A i \in 1..p : d.cache[i].of = Prefix /\ d.cache[i].pos = i - 1
  /\ \A i \in (p + 1)..(p + s) : d.cache[i].of = Suffix /\ d.cache[i].pos = i - 1

\* d has been reset and fed the first n tokens of a prompt.
Prefixed(d, n) ==
  /\ d \in Decoder
  /\ d.units = <<>> /\ d.preserve = 0 /\ d.offset = 0
  /\ d.prefix = 0 /\ d.prevLen = 0 /\ d.suffix = 0
  /\ d.open = FALSE /\ d.start = 0 /\ d.next = 0
  /\ d.has = FALSE /\ d.previous = <<>> /\ d.halfway = FALSE
  /\ Len(d.cache) = n
  /\ \A i \in 1..n : d.cache[i].of = Prefix /\ d.cache[i].pos = i - 1

LEMMA PrefixedIs ==
  ASSUME NEW n \in Nat
  PROVE  Prefixed(Feed(Empty, Prefix, n), n)
<1> DEFINE d == Feed(Empty, Prefix, n)
<1>1. Prefix \in Int
  BY DEF Prefix
<1>2. /\ Empty \in Decoder
      /\ Empty.cache = <<>> /\ Empty.units = <<>> /\ Empty.preserve = 0 /\ Empty.offset = 0
      /\ Empty.prefix = 0 /\ Empty.prevLen = 0 /\ Empty.suffix = 0
      /\ Empty.open = FALSE /\ Empty.start = 0 /\ Empty.next = 0
      /\ Empty.has = FALSE /\ Empty.previous = <<>> /\ Empty.halfway = FALSE
  <2>1. Empty \in Decoder
    BY EmptySound DEF Sound
  <2> QED
    BY <2>1 DEF Empty
<1>3. Fed(d, Empty, Prefix, n)
  BY <1>1, <1>2, FeedIs
<1> HIDE DEF d
<1>4. /\ d \in Decoder
      /\ d.units = <<>> /\ d.preserve = 0 /\ d.offset = 0
      /\ d.prefix = 0 /\ d.prevLen = 0 /\ d.suffix = 0
  BY <1>2, <1>3 DEF Fed, Decoder
<1>5. /\ d.open = FALSE /\ d.start = 0 /\ d.next = 0
      /\ d.has = FALSE /\ d.previous = <<>> /\ d.halfway = FALSE
  BY <1>2, <1>3 DEF Fed, Decoder
<1>6. Len(Empty.cache) = 0 /\ 0 + n = n /\ 0 + 1 = 1
  BY <1>2
<1>7. /\ Len(d.cache) = n
      /\ \A i \in 1..n : d.cache[i].of = Prefix /\ d.cache[i].pos = i - 1
  BY <1>3, <1>6 DEF Fed
<1> QED
  BY <1>4, <1>5, <1>7 DEF Prefixed, d

\* register_system_prompt_with_context, behind the prefix.
Registered(d, c, p, s) ==
  /\ d \in Decoder
  /\ d.cache = c
  /\ d.units = <<>> /\ d.preserve = p + s /\ d.offset = 0
  /\ d.prefix = p /\ d.prevLen = 0 /\ d.suffix = s
  /\ d.open = FALSE /\ d.start = 0 /\ d.next = 0
  /\ d.has = FALSE /\ d.previous = <<>> /\ d.halfway = FALSE

LEMMA RegisteredIs ==
  ASSUME NEW p \in Nat, NEW s \in Nat, NEW d1, Prefixed(d1, p)
  PROVE  Registered(RegisterSystemPromptWithContext(d1, s), d1.cache, p, s)
<1> DEFINE d2 == RegisterSystemPromptWithContext(d1, s)
<1> DEFINE k == p + s
<1>1. /\ d1 \in Decoder /\ Len(d1.cache) = p
      /\ d1.units = <<>> /\ d1.offset = 0 /\ d1.prevLen = 0
      /\ d1.open = FALSE /\ d1.start = 0 /\ d1.next = 0
      /\ d1.has = FALSE /\ d1.previous = <<>> /\ d1.halfway = FALSE
  BY DEF Prefixed
<1>2. d2 = [d1 EXCEPT !.prefix = p, !.suffix = s, !.preserve = k]
  BY <1>1 DEF RegisterSystemPromptWithContext
<1>3. k \in Nat
  OBVIOUS
<1> HIDE DEF k, d2
<1>4. d2 \in Decoder
  BY <1>1, <1>2, <1>3 DEF Decoder
<1>5. /\ d2.cache = d1.cache /\ d2.units = d1.units /\ d2.preserve = k
      /\ d2.offset = d1.offset /\ d2.prefix = p /\ d2.prevLen = d1.prevLen
  BY <1>1, <1>2 DEF Decoder
<1>6. /\ d2.suffix = s /\ d2.open = d1.open /\ d2.start = d1.start
      /\ d2.next = d1.next
  BY <1>1, <1>2 DEF Decoder
<1>7. d2.has = d1.has /\ d2.previous = d1.previous /\ d2.halfway = d1.halfway
  BY <1>1, <1>2 DEF Decoder
<1> QED
  BY <1>1, <1>4, <1>5, <1>6, <1>7 DEF k, d2, Registered

\* prepare().
LEMMA PreparedIs ==
  ASSUME NEW p \in Nat, NEW s \in Nat
  PROVE  PromptOnly(Prepared(p, s), mode, p, s)
<1> DEFINE d1 == Feed(Empty, Prefix, p)
<1>1. Prefix \in Int /\ Suffix \in Int
  BY DEF Prefix, Suffix
<1>2. Prefixed(d1, p)
  BY PrefixedIs
<1> HIDE DEF d1
<1>4. /\ d1 \in Decoder
      /\ d1.units = <<>> /\ d1.preserve = 0 /\ d1.offset = 0
      /\ d1.prefix = 0 /\ d1.prevLen = 0 /\ d1.suffix = 0
      /\ d1.open = FALSE /\ d1.start = 0 /\ d1.next = 0 /\ d1.halfway = FALSE
      /\ Len(d1.cache) = p
      /\ \A i \in 1..p : d1.cache[i].of = Prefix /\ d1.cache[i].pos = i - 1
  BY <1>2 DEF Prefixed
<1>5. CASE mode = "context"
  <2> DEFINE d2 == RegisterSystemPromptWithContext(d1, s)
             d3 == Feed(d2, Suffix, s)
  <2>0. Registered(d2, d1.cache, p, s)
    BY <1>2, RegisteredIs
  <2> HIDE DEF d2
  <2>1. /\ d2 \in Decoder
        /\ d2.cache = d1.cache
        /\ d2.units = <<>> /\ d2.preserve = p + s /\ d2.offset = 0
        /\ d2.prefix = p /\ d2.prevLen = 0 /\ d2.suffix = s
        /\ d2.open = FALSE /\ d2.start = 0 /\ d2.next = 0 /\ d2.halfway = FALSE
    BY <2>0 DEF Registered
  <2>2. Fed(d3, d2, Suffix, s)
    BY <1>1, <2>1, FeedIs
  <2> HIDE DEF d3
  <2>3. /\ d3 \in Decoder
        /\ d3.units = <<>> /\ d3.preserve = p + s /\ d3.offset = 0
        /\ d3.prefix = p /\ d3.prevLen = 0 /\ d3.suffix = s
        /\ d3.open = FALSE /\ d3.start = 0 /\ d3.next = 0 /\ d3.halfway = FALSE
    BY <2>1, <2>2 DEF Fed, Decoder
  <2>4. /\ Len(d3.cache) = p + s
        /\ \A i \in 1..p : d3.cache[i] = d1.cache[i]
        /\ \A i \in (p + 1)..(p + s) : d3.cache[i].of = Suffix /\ d3.cache[i].pos = i - 1
    BY <1>4, <2>1, <2>2 DEF Fed
  <2>5. PromptOnly(d3, mode, p, s)
    BY <1>4, <1>5, <2>3, <2>4 DEF PromptOnly
  <2>6. Prepared(p, s) = d3
    BY <1>5 DEF Prepared, d1, d2, d3
  <2> QED
    BY <2>5, <2>6
<1>6. CASE mode # "context"
  <2> DEFINE d2 == Feed(d1, Suffix, s)
             d3 == RegisterSystemPrompt(d2)
             n == Len(d2.cache)
  <2>1. Fed(d2, d1, Suffix, s)
    BY <1>1, <1>4, FeedIs
  <2> HIDE DEF d2
  <2>2. /\ d2 \in Decoder
        /\ d2.units = <<>> /\ d2.offset = 0
        /\ d2.prefix = 0 /\ d2.prevLen = 0 /\ d2.suffix = 0
        /\ d2.open = FALSE /\ d2.start = 0 /\ d2.next = 0 /\ d2.halfway = FALSE
    BY <1>4, <2>1 DEF Fed, Decoder
  <2>3. /\ n = p + s
        /\ \A i \in 1..p : d2.cache[i] = d1.cache[i]
        /\ \A i \in (p + 1)..(p + s) : d2.cache[i].of = Suffix /\ d2.cache[i].pos = i - 1
    BY <1>4, <2>1 DEF Fed
  <2>4. d3 = [d2 EXCEPT !.preserve = n]
    BY DEF RegisterSystemPrompt
  <2>5. n \in Nat
    BY <2>3
  <2> HIDE DEF d3, n
  <2>6. /\ d3 \in Decoder
        /\ d3.cache = d2.cache /\ d3.preserve = n
        /\ d3.units = <<>> /\ d3.offset = 0
        /\ d3.prefix = 0 /\ d3.prevLen = 0 /\ d3.suffix = 0
        /\ d3.open = FALSE /\ d3.start = 0 /\ d3.next = 0 /\ d3.halfway = FALSE
    BY <2>2, <2>4, <2>5 DEF Decoder
  <2>7. PromptOnly(d3, mode, p, s)
    BY <1>4, <1>6, <2>3, <2>6 DEF PromptOnly, n
  <2>8. Prepared(p, s) = d3
    BY <1>6 DEF Prepared, d1, d2, d3
  <2> QED
    BY <2>7, <2>8
<1> QED
  BY <1>5, <1>6

LEMMA PromptOnlySound ==
  ASSUME NEW d, NEW m, NEW p \in Nat, NEW s \in Nat, PromptOnly(d, m, p, s)
  PROVE  Sound(d, m)
<1>1. /\ Prefix = -3 /\ Suffix = -1
  BY DEF Prefix, Suffix
<1>2. /\ d \in Decoder
      /\ d.units = <<>> /\ d.prevLen = 0 /\ d.offset = 0
      /\ Len(d.cache) = p + s /\ d.preserve = p + s
      /\ \A i \in 1..p : d.cache[i].of = Prefix /\ d.cache[i].pos = i - 1
      /\ \A i \in (p + 1)..(p + s) : d.cache[i].of = Suffix /\ d.cache[i].pos = i - 1
  BY DEF PromptOnly
<1>3. \A i \in 1..(p + s) : i \in 1..p \/ (i \in (p + 1)..(p + s) /\ ~(i <= p))
  OBVIOUS
<1>4. Exact(d)
  BY <1>2, <1>3 DEF Exact
<1>5. Guarded(d)
  <2> SUFFICES ASSUME NEW i \in 1..(p + s)
               PROVE  d.cache[i].of < 0 <=> i <= p + s
    BY <1>2 DEF Guarded
  <2>1. d.cache[i].of = Prefix \/ d.cache[i].of = Suffix
    BY <1>2, <1>3
  <2> QED
    BY <1>1, <2>1
<1>6. Parted(d, m)
  BY <1>2 DEF Parted, PromptOnly
<1>7. InOrder(d, m)
  BY <1>2, <1>3 DEF InOrder, PromptOnly
<1>8. Ordered(d) /\ Long(d)
  BY <1>2 DEF Ordered, Long
<1>9. Fits(d, m)
  <2>1. Lack(d, m) = 0
    BY DEF Lack, PromptOnly
  <2> QED
    BY <1>2, <2>1 DEF Fits, Total, Upto
<1> QED
  BY <1>2, <1>4, <1>5, <1>6, <1>7, <1>8, <1>9 DEF Sound

\* What prepare() leaves where it raises half way.
LEMMA HalfWaySound ==
  ASSUME NEW d \in Decoder, d.units = <<>>, d.prevLen = 0, d.offset = 0, Exact(d),
         d.preserve = d.prefix + d.suffix,
         NEW m, d.preserve <= Len(d.cache) + (IF m = "context" THEN ShortestUnit ELSE 0)
  PROVE  /\ Sound(HalfWay(d), m)
         /\ HalfWay(d).units = <<>>
         /\ HalfWay(d).has = d.has /\ HalfWay(d).previous = d.previous
<1> DEFINE e == HalfWay(d)
<1>1. e = [d EXCEPT !.halfway = TRUE]
  BY DEF HalfWay
<1> HIDE DEF e
<1>2. /\ e \in Decoder /\ e.halfway
      /\ e.cache = d.cache /\ e.units = d.units /\ e.preserve = d.preserve
      /\ e.prefix = d.prefix /\ e.prevLen = d.prevLen /\ e.suffix = d.suffix
      /\ e.offset = d.offset
  BY <1>1 DEF Decoder
<1>3. e.has = d.has /\ e.previous = d.previous
  BY <1>1 DEF Decoder
<1>4. Ordered(e) /\ Long(e) /\ Exact(e) /\ Guarded(e)
  BY <1>2 DEF Ordered, Long, Exact, Guarded
<1>5. Parted(e, m) /\ InOrder(e, m)
  <2>1. d.prefix \in Nat /\ d.suffix \in Nat
    BY DEF Decoder
  <2> QED
    BY <1>2, <2>1 DEF Parted, InOrder
<1>6. Fits(e, m)
  <2>1. d.preserve \in Nat /\ Len(d.cache) \in Nat /\ Total(e) = 0
    BY <1>2 DEF Decoder, Total, Upto
  <2> QED
    BY <1>2, <2>1 DEF Fits, Lack
<1> QED
  BY <1>2, <1>3, <1>4, <1>5, <1>6 DEF Sound, e

LEMMA PrepareRaisesSound ==
  ASSUME NEW p \in Prefixes, NEW s \in Suffixes, PrepareRaises(p, s)
  PROVE  /\ Sound(dec', mode) /\ dec'.units = <<>>
         /\ dec'.has = FALSE /\ dec'.previous = <<>>
<1>1. p \in Nat /\ s \in Nat /\ s <= ShortestUnit /\ ShortestUnit \in Nat
  BY LengthAssumption, SuffixAssumption DEF ShortestUnit, Closing
<1>2. ASSUME NEW k \in 0..p, dec' = HalfWay(Feed(Empty, Prefix, k))
      PROVE  /\ Sound(dec', mode) /\ dec'.units = <<>>
             /\ dec'.has = FALSE /\ dec'.previous = <<>>
  <2> DEFINE d == Feed(Empty, Prefix, k)
  <2>1. k \in Nat
    BY <1>1
  <2>2. Prefixed(d, k)
    BY <2>1, PrefixedIs
  <2> HIDE DEF d
  <2>3. Exact(d) /\ d.preserve <= Len(d.cache) + (IF mode = "context" THEN ShortestUnit ELSE 0)
    BY <1>1, <2>1, <2>2 DEF Prefixed, Exact
  <2>4. /\ d \in Decoder
        /\ d.units = <<>> /\ d.preserve = d.prefix + d.suffix /\ d.offset = 0
        /\ d.prevLen = 0 /\ d.has = FALSE /\ d.previous = <<>>
    BY <2>2 DEF Prefixed
  <2>5. /\ Sound(HalfWay(d), mode) /\ HalfWay(d).units = <<>>
        /\ HalfWay(d).has = FALSE /\ HalfWay(d).previous = <<>>
    BY <2>3, <2>4, HalfWaySound
  <2>6. dec' = HalfWay(d)
    BY <1>2 DEF d
  <2> QED
    BY <2>5, <2>6
<1>3. ASSUME mode = "context",
             dec' = HalfWay(RegisterSystemPromptWithContext(Feed(Empty, Prefix, p), s))
      PROVE  /\ Sound(dec', mode) /\ dec'.units = <<>>
             /\ dec'.has = FALSE /\ dec'.previous = <<>>
  <2> DEFINE d1 == Feed(Empty, Prefix, p)
             d2 == RegisterSystemPromptWithContext(d1, s)
  <2>1. Prefixed(d1, p)
    BY <1>1, PrefixedIs
  <2> HIDE DEF d1
  <2>2. Registered(d2, d1.cache, p, s)
    BY <1>1, <2>1, RegisteredIs
  <2> HIDE DEF d2
  <2>3. /\ d2 \in Decoder
        /\ d2.units = <<>> /\ d2.preserve = d2.prefix + d2.suffix /\ d2.offset = 0
        /\ d2.prevLen = 0 /\ d2.has = FALSE /\ d2.previous = <<>>
    BY <2>2 DEF Registered
  <2>4. Exact(d2) /\ d2.preserve <= Len(d2.cache) + ShortestUnit
    BY <1>1, <2>1, <2>2 DEF Prefixed, Registered, Exact
  <2>5. /\ Sound(HalfWay(d2), mode) /\ HalfWay(d2).units = <<>>
        /\ HalfWay(d2).has = FALSE /\ HalfWay(d2).previous = <<>>
    BY <1>3, <2>3, <2>4, HalfWaySound
  <2>6. dec' = HalfWay(d2)
    BY <1>3 DEF d1, d2
  <2> QED
    BY <2>5, <2>6
<1> QED
  BY <1>2, <1>3 DEF PrepareRaises
-----------------------------------------------------------------------------
(***************************************************************************)
(* The calls of the session.                                               *)
(***************************************************************************)

\* A unit that may still be finalized: it starts behind the units before it and has
\* n tokens or more, or it is registered already.
Ready(d, m, n) == IF d.open THEN Begun(d, m, n) ELSE d.start = 0

\* Everything that holds between two calls.  TypeOK and the properties alone are
\* not inductive: a cut is right only because of how the lengths add up.
IInv ==
  /\ TypeOK
  /\ Sound(dec, mode)
  /\ logits \/ pending.on => Ready(dec, mode, 2)
  /\ UnitsBounded

LEMMA FeedReady ==
  ASSUME NEW d, NEW m, Sound(d, m), NEW of \in Nat, NEW n \in Nat
  PROVE  /\ Sound(Feed(d, of, n), m)
         /\ \A k \in Nat : Ready(d, m, k) => Ready(Feed(d, of, n), m, k + n)
         /\ Feed(d, of, n).units = d.units
         /\ Feed(d, of, n).open = d.open
         /\ Feed(d, of, n).next = d.next
         /\ Feed(d, of, n).halfway = d.halfway
<1> DEFINE e == Feed(d, of, n)
<1>1. d \in Decoder /\ Len(d.cache) \in Nat /\ d.start \in Nat
  BY SoundLengths DEF Sound, Decoder
<1>2. Fed(e, d, of, n)
  BY <1>1, FeedIs
<1> HIDE DEF e
<1>3. Sound(e, m)
  BY <1>2, FeedSound
<1>4. /\ e.units = d.units /\ e.open = d.open /\ e.next = d.next /\ e.start = d.start
      /\ e.preserve = d.preserve /\ e.halfway = d.halfway
  BY <1>1, <1>2 DEF Fed, Decoder
<1>5. /\ Total(e) = Total(d) /\ Len(e.cache) = Len(d.cache) + n
      /\ Lack(e, m) = Lack(d, m)
  BY <1>2, <1>4, SameUnits DEF Fed, Lack
<1>6. ASSUME NEW k \in Nat, Ready(d, m, k) PROVE Ready(e, m, k + n)
  BY <1>1, <1>4, <1>5, <1>6 DEF Ready, Begun
<1> QED
  BY <1>3, <1>4, <1>6 DEF e

\* The decoder between the calls, sound and with no unit under way.
Settled(d, m, bound) ==
  /\ Sound(d, m)
  /\ ~d.open /\ d.start = 0
  /\ m = "context" => Len(d.units) <= bound

\* It starts within the cache.
LEMMA ReadyWithin ==
  ASSUME NEW d, NEW m, Sound(d, m), NEW n \in Nat, Ready(d, m, n)
  PROVE  d.start <= Len(d.cache) /\ d \in Decoder /\ Ordered(d)
<1>1. d.start \in Nat /\ Len(d.cache) \in Nat
  BY SoundLengths DEF Sound, Decoder
<1>2. d.open => d.start <= Len(d.cache)
  BY <1>1 DEF Ready, Begun
<1>3. ~d.open => d.start <= Len(d.cache)
  BY <1>1 DEF Ready
<1> QED
  BY <1>2, <1>3 DEF Sound

\* finalize_unit up to the window.
LEMMA ClosedIs ==
  ASSUME IInv, pending.on
  PROVE  Settled(Closed, mode, MaxUnits + 1)
<1> DEFINE d == Feed(dec, dec.next, Closing)
<1>1. /\ Sound(dec, mode) /\ Ready(dec, mode, 2) /\ dec.next \in Nat /\ Closing \in Nat
      /\ dec.units \in Seq(Unit)
      /\ mode = "context" => Len(dec.units) <= MaxUnits
      /\ pending.said \in Nat /\ pending.listen \in BOOLEAN /\ ShortestUnit \in Nat
  BY DEF IInv, TypeOK, Decoder, UnitsBounded, Closing, ShortestUnit
<1>2. Sound(d, mode) /\ Ready(d, mode, ShortestUnit) /\ d.units = dec.units
  <2>1. ShortestUnit = 2 + Closing /\ 2 \in Nat
    BY DEF ShortestUnit
  <2> QED
    BY <1>1, <2>1, FeedReady, ZenonT(40)
<1>3. Closed = RegisterUnitEnd(d, pending.said, pending.listen)
  BY DEF Closed
<1> HIDE DEF d
<1>4. CASE d.open
  <2>1. d \in Decoder /\ Ordered(d) /\ d.start <= Len(d.cache)
    BY <1>1, <1>2, ReadyWithin
  <2>1b. Begun(d, mode, ShortestUnit)
    BY <1>2, <1>4 DEF Ready
  <2>2. UnitAdded(Closed, d, pending.said, pending.listen)
    BY <1>1, <1>3, <1>4, <2>1, UnitEndIs
  <2>3. Sound(Closed, mode)
    BY <1>2, <2>1b, <2>2, UnitEndSound
  <2>4. ~Closed.open /\ Closed.start = 0 /\ Len(Closed.units) = Len(dec.units) + 1
    BY <1>2, <2>2 DEF UnitAdded
  <2> HIDE DEF Closed
  <2> QED
    BY <1>1, <2>3, <2>4, LimitAssumption DEF Settled
<1>5. CASE ~d.open
  <2>1. Closed = d
    BY <1>3, <1>5 DEF RegisterUnitEnd
  <2> QED
    BY <1>1, <1>2, <1>5, <2>1, LimitAssumption DEF Settled, Ready
<1> QED
  BY <1>4, <1>5

\* enforce_window and enforce_window_with_context.
LEMMA EnforcedIs ==
  ASSUME NEW d, Settled(d, mode, MaxUnits + 1), NEW n, Evicts(d, n)
  PROVE  /\ Settled(Enforced(d, n), mode, MaxUnits)
         /\ n \in 0..Len(d.units)
<1>1. /\ Sound(d, mode) /\ ~d.open /\ d.start = 0 /\ n \in 0..Len(d.units)
      /\ d \in Decoder /\ Ordered(d) /\ Len(d.units) \in Nat /\ MaxUnits \in Nat
  BY LimitAssumption DEF Settled, Sound, Decoder, Evicts
<1>2. CASE n = 0
  <2>1. Enforced(d, n) = d
    BY <1>2 DEF Enforced
  <2>2. mode = "context" => Len(d.units) <= MaxUnits
    BY <1>1, <1>2 DEF Evicts
  <2> QED
    BY <1>1, <2>1, <2>2 DEF Settled
<1>3. CASE n # 0 /\ mode = "context"
  <2>1. n = 1 /\ Len(d.units) >= 1 /\ Len(d.units) <= MaxUnits + 1
    BY <1>1, <1>3 DEF Evicts, Settled
  <2> DEFINE f == Forget(d)
             e == Rebuild(f)
  <2>2. Forgotten(f, d)
    BY <1>1, <2>1, ForgetIs
  <2> HIDE DEF f
  <2>3. Sound(f, "context") /\ Full(f)
    BY <1>1, <1>3, <2>1, <2>2, ForgetSound
  <2>4. Sound(e, "context") /\ Reheaded(e, f)
    BY <2>3, RebuildSound
  <2>5. Enforced(d, n) = e
    BY <1>3 DEF Enforced, f
  <2> HIDE DEF e
  <2>6. ~e.open /\ e.start = 0 /\ e.units = Later(d, 1)
    BY <1>1, <2>2, <2>4 DEF Forgotten, Reheaded
  <2>7. Len(Later(d, 1)) = Len(d.units) - 1
    <3>1. 1 \in 0..Len(d.units)
      BY <1>1, <2>1
    <3> QED
      BY <1>1, <3>1, LaterIs
  <2>8. Len(e.units) <= MaxUnits
    BY <1>1, <2>1, <2>6, <2>7
  <2> QED
    BY <1>1, <1>3, <2>4, <2>5, <2>6, <2>8 DEF Settled
<1>4. CASE n # 0 /\ mode # "context"
  <2>1. Enforced(d, n) = DropUnits(d, n)
    BY <1>4 DEF Enforced
  <2>2. /\ Sound(DropUnits(d, n), mode)
        /\ DropUnits(d, n).open = d.open
        /\ DropUnits(d, n).start = d.start
    BY <1>1, <1>4, DropSound
  <2> QED
    BY <1>1, <1>4, <2>1, <2>2 DEF Settled
<1> QED
  BY <1>1, <1>2, <1>3, <1>4

\* What leaves is added to the history.
LEMMA LeavingIs ==
  ASSUME NEW d \in Decoder, NEW n \in 0..Len(d.units), NEW g \in Seq(Nat)
  PROVE  g \o Leaving(d, n) \in Seq(Nat)
<1>1. Leaving(d, n) \in Seq(Nat)
  <2>1. CASE n = 1 /\ mode = "context"
    <3>1. d.units[1] \in Unit
      BY <2>1 DEF Decoder
    <3>2. Said(d.units[1]) \in Seq(Nat)
      BY <3>1, SaidIs
    <3> QED
      BY <2>1, <3>2 DEF Leaving
  <2>2. CASE ~(n = 1 /\ mode = "context")
    BY <2>2 DEF Leaving
  <2> QED
    BY <2>1, <2>2
<1> QED
  BY <1>1

LEMMA InitIInv == Init => IInv
<1> SUFFICES ASSUME Init
             PROVE  IInv
  OBVIOUS
<1>1. Sound(dec, mode)
  BY EmptySound DEF Init
<1>2. TypeOK
  <2>1. dec \in Decoder
    BY <1>1 DEF Sound
  <2>2. <<>> \in Seq(Nat)
    OBVIOUS
  <2>3. NotPending \in [on : BOOLEAN, said : Nat, listen : BOOLEAN]
    BY DEF NotPending
  <2>4. mode \in {"off", "basic", "context"}
    BY ModeAssumption DEF Init
  <2>5. logits = FALSE /\ stop = FALSE /\ spoilt = FALSE /\ gone = <<>> /\ pending = NotPending
    BY DEF Init
  <2> QED
    BY <2>1, <2>2, <2>3, <2>4, <2>5 DEF TypeOK
<1>3. ~logits /\ ~pending.on
  BY DEF Init, NotPending
<1>4. UnitsBounded
  <2>1. dec.units = <<>>
    BY DEF Init, Empty
  <2> QED
    BY <2>1, LimitAssumption DEF UnitsBounded
<1> QED
  BY <1>1, <1>2, <1>3, <1>4 DEF IInv

\* Every call keeps it.
LEMMA StepIInv == IInv /\ [Next]_vars => IInv'
<1> SUFFICES ASSUME IInv, [Next]_vars
             PROVE  IInv'
  OBVIOUS
<1>0. /\ TypeOK /\ Sound(dec, mode) /\ dec \in Decoder /\ dec.next \in Nat
      /\ Len(dec.units) \in Nat /\ Len(dec.cache) \in Nat
      /\ logits \/ pending.on => Ready(dec, mode, 2)
      /\ mode = "context" => Len(dec.units) <= MaxUnits
  BY SoundLengths DEF IInv, TypeOK, Decoder, UnitsBounded
<1>b. <<>> \in Seq(Nat)
  OBVIOUS
<1>a. NotPending \in [on : BOOLEAN, said : Nat, listen : BOOLEAN] /\ ~NotPending.on
  BY DEF NotPending
<1>1. ASSUME NEW p \in Prefixes, NEW s \in Suffixes, Prepare(p, s)
      PROVE  IInv'
  <2>1. p \in Nat /\ s \in Nat
    BY LengthAssumption
  <2>2. PromptOnly(dec', mode, p, s)
    BY <1>1, <2>1, PreparedIs DEF Prepare
  <2>3. mode' = mode /\ logits' = FALSE /\ pending' = NotPending /\ stop' = FALSE
        /\ gone' = <<>> /\ spoilt' = FALSE
    BY <1>1 DEF Prepare
  <2>4. Sound(dec', mode') /\ dec' \in Decoder /\ dec'.units = <<>>
    BY <2>1, <2>2, <2>3, PromptOnlySound DEF PromptOnly
  <2>5. UnitsBounded'
    BY <2>4, LimitAssumption DEF UnitsBounded
  <2>6. TypeOK'
    BY <1>0, <1>a, <1>b, <2>3, <2>4 DEF TypeOK
  <2> QED
    BY <1>a, <2>3, <2>4, <2>5, <2>6 DEF IInv
<1>2. ASSUME NEW p \in Prefixes, NEW s \in Suffixes, Update(p, s)
      PROVE  IInv'
  <2>1. p \in Nat /\ s \in Nat
    BY LengthAssumption
  <2>2. mode' = mode /\ logits' = FALSE /\ pending' = NotPending /\ stop' = stop
        /\ spoilt' = spoilt
    BY <1>0, <1>2 DEF Update, TypeOK
  <2>3. \E d : /\ Sound(d, mode) /\ dec' = Updated(d, p, s)
               /\ mode = "context" => Len(d.units) <= MaxUnits
               /\ gone' \in Seq(Nat)
    <3>1. CASE pending.on
      <4>1. PICK n \in 0..Len(Closed.units) :
              /\ Evicts(Closed, n)
              /\ dec' = Updated(Enforced(Closed, n), p, s)
              /\ gone' = gone \o Leaving(Closed, n)
        BY <1>2, <3>1 DEF Update
      <4>2. Settled(Closed, mode, MaxUnits + 1)
        BY <3>1, ClosedIs
      <4>3. Settled(Enforced(Closed, n), mode, MaxUnits)
        BY <4>1, <4>2, EnforcedIs
      <4>4. Closed \in Decoder /\ gone \in Seq(Nat)
        BY <1>0, <4>2 DEF Settled, Sound, TypeOK
      <4>5. gone' \in Seq(Nat)
        BY <4>1, <4>4, LeavingIs
      <4> QED
        BY <4>1, <4>3, <4>5 DEF Settled
    <3>2. CASE ~pending.on
      <4>1. dec' = Updated(dec, p, s) /\ gone' = gone /\ gone \in Seq(Nat)
        BY <1>0, <1>2, <3>2 DEF Update, TypeOK
      <4> QED
        BY <1>0, <4>1
    <3> QED
      BY <3>1, <3>2
  <2>4. PICK d : /\ Sound(d, mode) /\ dec' = Updated(d, p, s)
                 /\ mode = "context" => Len(d.units) <= MaxUnits
                 /\ gone' \in Seq(Nat)
    BY <2>3
  <2>5. Sound(dec', mode) /\ Reheaded(dec', d)
    BY <2>1, <2>4, UpdatedSound
  <2>6. dec' \in Decoder /\ dec'.units = d.units
    BY <2>5 DEF Sound, Reheaded
  <2>7. TypeOK'
    BY <1>0, <1>a, <2>2, <2>4, <2>6 DEF TypeOK
  <2>8. UnitsBounded'
    BY <2>2, <2>4, <2>6 DEF UnitsBounded
  <2> QED
    BY <1>a, <2>2, <2>5, <2>7, <2>8 DEF IInv
\* A new unit of n tokens behind <unit>.
<1>3. ASSUME NEW n \in Nat, dec' = Feed(RegisterUnitStart(dec), dec.next, 1 + n)
      PROVE  /\ Sound(dec', mode) /\ (n > 0 => Ready(dec', mode, 2))
             /\ mode = "context" => Len(dec'.units) <= MaxUnits
  <2> DEFINE d == RegisterUnitStart(dec)
  <2>1. /\ Sound(d, mode)
        /\ d.open /\ d.start = Len(dec.cache)
        /\ d.cache = dec.cache /\ d.units = dec.units /\ d.preserve = dec.preserve
        /\ d.halfway = dec.halfway
    BY <1>0, UnitStartSound
  <2>2. dec' = Feed(d, dec.next, 1 + n)
    BY <1>3
  <2> HIDE DEF d
  <2>3. Ready(d, mode, 0)
    <3>1. Total(d) = Total(dec) /\ Lack(d, mode) = Lack(dec, mode)
      BY <2>1, SameUnits DEF Lack
    <3>2. dec.preserve + Total(dec) <= Len(dec.cache) + Lack(dec, mode)
      BY <1>0, SoundLengths
    <3> QED
      BY <1>0, <2>1, <3>1, <3>2 DEF Ready, Begun
  <2>4. 1 + n \in Nat /\ 0 \in Nat /\ 0 + (1 + n) = 1 + n
    OBVIOUS
  <2>5. Sound(dec', mode) /\ Ready(dec', mode, 1 + n) /\ dec'.units = d.units
    <3>1. /\ Sound(dec', mode) /\ dec'.units = d.units
          /\ \A k \in Nat : Ready(d, mode, k) => Ready(dec', mode, k + (1 + n))
      BY <1>0, <2>1, <2>2, <2>4, FeedReady
    <3>2. Ready(dec', mode, 0 + (1 + n))
      BY <2>3, <2>4, <3>1
    <3> QED
      BY <2>4, <3>1, <3>2
  <2>6. n > 0 => Ready(dec', mode, 2)
    <3>1. dec'.start \in Nat /\ Len(dec'.cache) \in Nat
      BY <2>5 DEF Sound, Decoder
    <3> QED
      BY <2>5, <3>1 DEF Ready, Begun
  <2> QED
    BY <1>0, <2>1, <2>5, <2>6
<1>4. ASSUME NEW n \in Inputs, Prefill(n)
      PROVE  IInv'
  <2>1. n \in Nat /\ n > 0
    BY LengthAssumption
  <2>2. /\ Sound(dec', mode) /\ Ready(dec', mode, 2)
        /\ mode = "context" => Len(dec'.units) <= MaxUnits
    BY <1>3, <1>4, <2>1 DEF Prefill
  <2>3. logits' = TRUE /\ UNCHANGED <<mode, pending, stop, gone, spoilt>>
    BY <1>4 DEF Prefill
  <2>4. TypeOK'
    BY <1>0, <2>2, <2>3 DEF TypeOK, Sound
  <2> QED
    BY <2>2, <2>3, <2>4 DEF IInv, UnitsBounded
<1>5. ASSUME NEW n \in Inputs \cup {0}, PrefillShort(n)
      PROVE  IInv'
  <2>1. n \in Nat
    BY LengthAssumption
  <2>2. /\ Sound(dec', mode)
        /\ mode = "context" => Len(dec'.units) <= MaxUnits
    BY <1>3, <1>5, <2>1 DEF PrefillShort
  <2>3. /\ spoilt' = TRUE /\ UNCHANGED <<mode, logits, pending, stop, gone>>
        /\ ~logits' /\ ~pending'.on
    BY <1>5 DEF PrefillShort, MayStart
  <2>4. TypeOK'
    BY <1>0, <2>2, <2>3 DEF TypeOK, Sound
  <2>5. Sound(dec, mode)' /\ UnitsBounded'
    BY <2>2, <2>3 DEF UnitsBounded
  <2> QED
    BY <2>3, <2>4, <2>5 DEF IInv
\* Tokens fed while the unit is generated.
<1>6. ASSUME NEW f \in Speeches, logits, dec' = Feed(dec, dec.next, f)
      PROVE  /\ Sound(dec', mode) /\ Ready(dec', mode, 2)
             /\ mode = "context" => Len(dec'.units) <= MaxUnits
  <2>1. f \in Nat
    BY LengthAssumption
  <2>2. Sound(dec', mode) /\ Ready(dec', mode, 2 + f) /\ dec'.units = dec.units
    BY <1>0, <1>6, <2>1, FeedReady
  <2>3. Ready(dec', mode, 2)
    <3>1. dec'.start \in Nat /\ Len(dec'.cache) \in Nat
      BY <2>2 DEF Sound, Decoder
    <3> QED
      BY <2>1, <2>2, <3>1 DEF Ready, Begun
  <2> QED
    BY <1>0, <2>2, <2>3
<1>7. ASSUME NEW f \in Speeches, NEW said \in 0..f, NEW listen \in BOOLEAN,
             Generate(f, said, listen)
      PROVE  IInv'
  <2>1. /\ Sound(dec', mode) /\ Ready(dec', mode, 2)
        /\ mode = "context" => Len(dec'.units) <= MaxUnits
    BY <1>6, <1>7 DEF Generate
  <2>2. /\ logits' = FALSE /\ pending' = [on |-> TRUE, said |-> said, listen |-> listen]
        /\ UNCHANGED <<mode, stop, gone, spoilt>>
    BY <1>7 DEF Generate
  <2>3. said \in Nat
    BY LengthAssumption
  <2>4. TypeOK'
    BY <1>0, <2>1, <2>2, <2>3 DEF TypeOK, Sound
  <2> QED
    BY <2>1, <2>2, <2>4 DEF IInv, UnitsBounded
<1>8. ASSUME NEW f \in Speeches, GenerateRaises(f)
      PROVE  IInv'
  <2>1. /\ Sound(dec', mode) /\ Ready(dec', mode, 2)
        /\ mode = "context" => Len(dec'.units) <= MaxUnits
    BY <1>6, <1>8 DEF GenerateRaises
  <2>2. logits' = FALSE /\ spoilt' = TRUE /\ UNCHANGED <<mode, pending, stop, gone>>
    BY <1>8 DEF GenerateRaises
  <2>3. TypeOK'
    BY <1>0, <2>1, <2>2 DEF TypeOK, Sound
  <2> QED
    BY <2>1, <2>2, <2>3 DEF IInv, UnitsBounded
<1>9. ASSUME NEW n \in 0..Len(Closed.units), Finalize(n)
      PROVE  IInv'
  <2>1. Settled(Closed, mode, MaxUnits + 1) /\ Evicts(Closed, n)
    BY <1>9, ClosedIs DEF Finalize
  <2>2. Settled(dec', mode, MaxUnits)
    BY <1>9, <2>1, EnforcedIs DEF Finalize
  <2>3. /\ gone' = gone \o Leaving(Closed, n) /\ pending' = NotPending
        /\ UNCHANGED <<mode, logits, stop, spoilt>>
    BY <1>9 DEF Finalize
  <2>4. gone' \in Seq(Nat)
    BY <1>0, <2>1, <2>3, LeavingIs DEF Settled, Sound, TypeOK
  <2>5. Sound(dec', mode) /\ dec' \in Decoder /\ Ready(dec', mode, 2)
        /\ (mode = "context" => Len(dec'.units) <= MaxUnits)
    BY <2>2 DEF Settled, Sound, Ready
  <2>6. TypeOK'
    BY <1>0, <1>a, <2>3, <2>4, <2>5 DEF TypeOK
  <2> QED
    BY <2>3, <2>5, <2>6 DEF IInv, UnitsBounded
<1>10. ASSUME FinalizeRaises
       PROVE  IInv'
  <2>1. Settled(Closed, mode, MaxUnits + 1) /\ Evicts(Closed, 1) /\ mode = "context"
    BY <1>10, ClosedIs DEF FinalizeRaises
  <2>2. /\ Closed \in Decoder /\ Ordered(Closed) /\ Sound(Closed, mode)
        /\ Len(Closed.units) \in Nat /\ 1 \in 0..Len(Closed.units)
        /\ ~Closed.open /\ Closed.start = 0 /\ Len(Closed.units) <= MaxUnits + 1
    BY <2>1 DEF Settled, Sound, Decoder, Evicts
  <2>3. /\ dec' = Forget(Closed) /\ gone' = gone \o Leaving(Closed, 1) /\ spoilt' = TRUE
        /\ UNCHANGED <<mode, logits, pending, stop>>
    BY <1>10 DEF FinalizeRaises
  <2> DEFINE d == Closed
  <2> HIDE DEF d
  <2>4. Forgotten(dec', d)
    BY <2>2, <2>3, ForgetIs DEF d
  <2>5. Sound(dec', mode)
    BY <2>2, <2>4, ForgetSound DEF d
  <2>6. Len(dec'.units) = Len(d.units) - 1
    BY <2>2, <2>4, LaterIs DEF Forgotten, d
  <2>7. Ready(dec', mode, 2) /\ dec' \in Decoder
    BY <2>2, <2>4 DEF Forgotten, Ready, d
  <2>8. gone' \in Seq(Nat)
    BY <1>0, <2>2, <2>3, LeavingIs DEF TypeOK
  <2>9. TypeOK'
    BY <1>0, <2>3, <2>7, <2>8 DEF TypeOK
  <2>10. Len(dec'.units) <= MaxUnits
    BY <2>2, <2>6, LimitAssumption DEF d
  <2> QED
    BY <2>3, <2>5, <2>7, <2>9, <2>10 DEF IInv, UnitsBounded
<1>11. ASSUME Stop
       PROVE  IInv'
  <2>1. stop' = TRUE /\ UNCHANGED <<mode, dec, logits, pending, gone, spoilt>>
    BY <1>11 DEF Stop
  <2>2. TypeOK'
    BY <1>0, <2>1 DEF TypeOK
  <2> QED
    BY <1>0, <2>1, <2>2 DEF IInv, UnitsBounded
<1>12. ASSUME Cleanup
       PROVE  IInv'
  <2>1. /\ dec' = Empty /\ logits' = FALSE /\ pending' = NotPending /\ gone' = <<>>
        /\ spoilt' = FALSE /\ UNCHANGED <<mode, stop>>
    BY <1>12 DEF Cleanup
  <2>2. Sound(dec', mode) /\ dec' \in Decoder
    BY <2>1, EmptySound DEF Sound
  <2>3. dec'.units = <<>>
    BY <2>1 DEF Empty
  <2>4. TypeOK'
    BY <1>0, <1>a, <1>b, <2>1, <2>2 DEF TypeOK
  <2>5. UnitsBounded'
    BY <2>3, LimitAssumption DEF UnitsBounded
  <2> QED
    BY <1>a, <2>1, <2>2, <2>4, <2>5 DEF IInv
<1>13. ASSUME UNCHANGED vars
       PROVE  IInv'
  <2>1. UNCHANGED <<mode, dec, logits, pending, stop, gone, spoilt>>
    BY <1>13 DEF vars
  <2>2. TypeOK'
    BY <1>0, <2>1 DEF TypeOK
  <2> QED
    BY <1>0, <2>1, <2>2 DEF IInv, UnitsBounded
<1>14. ASSUME NEW p \in Prefixes, NEW s \in Suffixes, PrepareRaises(p, s)
       PROVE  IInv'
  <2>1. Sound(dec', mode) /\ dec'.units = <<>>
    BY <1>14, PrepareRaisesSound
  <2>2. mode' = mode /\ logits' = FALSE /\ pending' = NotPending /\ stop' = FALSE
        /\ gone' = <<>> /\ spoilt' = TRUE
    BY <1>14 DEF PrepareRaises
  <2>3. UnitsBounded'
    BY <2>1, LimitAssumption DEF UnitsBounded
  <2>4. TypeOK'
    BY <1>0, <1>a, <1>b, <2>1, <2>2 DEF TypeOK, Sound
  <2> QED
    BY <1>a, <2>1, <2>2, <2>3, <2>4 DEF IInv
<1> QED
  BY <1>1, <1>2, <1>4, <1>5, <1>7, <1>8, <1>9, <1>10, <1>11, <1>12, <1>13, <1>14 DEF Next

LEMMA Invariance == Spec => []IInv
  BY InitIInv, StepIInv, PTL DEF Spec
-----------------------------------------------------------------------------
(***************************************************************************)
(* The units lie where their lengths say, until a call gives one up.       *)
(***************************************************************************)
UnitsInPlace(d) ==
  \A i \in 1..Len(d.units) : \A k \in (Upto(d, i - 1) + 1)..Upto(d, i) :
    d.cache[d.preserve + k].of = d.units[i].id

Aligned(d) ==
  /\ ~d.halfway
  /\ UnitsInPlace(d)
  /\ ~d.open => Len(d.cache) = d.preserve + Total(d)
  /\ d.open => /\ d.start = d.preserve + Total(d)
               /\ \A k \in (d.start + 1)..Len(d.cache) : d.cache[k].of = d.next

\* The tokens of a unit are among those of the history.
LEMMA UnitRange ==
  ASSUME NEW d, NEW m, Sound(d, m), ~d.halfway, NEW i \in 1..Len(d.units),
         NEW k \in (Upto(d, i - 1) + 1)..Upto(d, i)
  PROVE  /\ k \in 1..Total(d) /\ d.preserve + k \in 1..Len(d.cache)
         /\ Upto(d, i) \in Nat /\ Upto(d, i - 1) \in Nat
<1>1. d \in Decoder /\ Ordered(d)
  BY DEF Sound
<1>2. i \in 0..Len(d.units) /\ i - 1 \in 0..Len(d.units)
  BY <1>1 DEF Decoder
<1>3. Upto(d, i) \in Nat /\ Upto(d, i - 1) \in Nat /\ Upto(d, i) <= Total(d)
  BY <1>1, <1>2, UptoGrows
<1>4. /\ d.preserve \in Nat /\ Len(d.cache) \in Nat /\ Total(d) \in Nat
      /\ d.preserve + Total(d) <= Len(d.cache)
  BY SoundLengths
<1>5. k \in 1..Total(d)
  BY <1>3, <1>4
<1> QED
  BY <1>3, <1>4, <1>5

\* feed, for the unit under way.
LEMMA FeedAligned ==
  ASSUME NEW d, NEW m, Sound(d, m), Aligned(d), d.open, NEW n \in Nat,
         NEW e, Fed(e, d, d.next, n)
  PROVE  Aligned(e) /\ e.open
<1>1. d \in Decoder /\ Len(d.cache) \in Nat /\ d.start \in Nat
  BY SoundLengths DEF Sound, Decoder
<1>2. /\ e.units = d.units /\ e.open = d.open /\ e.next = d.next /\ e.start = d.start
      /\ e.preserve = d.preserve /\ e.halfway = d.halfway
  BY <1>1 DEF Fed, Decoder
<1>3. Total(e) = Total(d) /\ \A i : Upto(e, i) = Upto(d, i)
  BY <1>2, SameUnits
<1>4. /\ Len(e.cache) = Len(d.cache) + n
      /\ \A i \in 1..Len(d.cache) : e.cache[i] = d.cache[i]
      /\ \A i \in (Len(d.cache) + 1)..(Len(d.cache) + n) : e.cache[i].of = d.next
  BY DEF Fed
<1>5. UnitsInPlace(e)
  <2>1. ASSUME NEW i \in 1..Len(d.units), NEW k \in (Upto(d, i - 1) + 1)..Upto(d, i)
        PROVE  e.cache[d.preserve + k].of = d.units[i].id
    <3>1. d.preserve + k \in 1..Len(d.cache)
      BY UnitRange DEF Aligned
    <3>2. d.cache[d.preserve + k].of = d.units[i].id
      BY DEF Aligned, UnitsInPlace
    <3> QED
      BY <1>4, <3>1, <3>2
  <2> QED
    BY <1>2, <1>3, <2>1 DEF UnitsInPlace
<1>6. ASSUME NEW k \in (d.start + 1)..Len(e.cache) PROVE e.cache[k].of = d.next
  <2>1. \A j \in (d.start + 1)..Len(d.cache) : d.cache[j].of = d.next
    BY DEF Aligned
  <2>2. CASE k <= Len(d.cache)
    <3>1. k \in (d.start + 1)..Len(d.cache) /\ k \in 1..Len(d.cache)
      BY <1>1, <2>2
    <3> QED
      BY <1>4, <2>1, <3>1
  <2>3. CASE ~(k <= Len(d.cache))
    <3>1. k \in (Len(d.cache) + 1)..(Len(d.cache) + n)
      BY <1>1, <1>4, <2>3
    <3> QED
      BY <1>4, <3>1
  <2> QED
    BY <2>2, <2>3
<1> QED
  BY <1>2, <1>3, <1>5, <1>6 DEF Aligned

\* register_unit_start.
LEMMA StartAligned ==
  ASSUME NEW d, NEW m, Sound(d, m), Aligned(d), ~d.open, NEW e, e = RegisterUnitStart(d)
  PROVE  Aligned(e)
<1>1. /\ e.open /\ e.start = Len(d.cache)
      /\ e.cache = d.cache /\ e.units = d.units /\ e.preserve = d.preserve
      /\ e.halfway = d.halfway
  BY UnitStartSound
<1>2. Total(e) = Total(d) /\ \A i : Upto(e, i) = Upto(d, i)
  BY <1>1, SameUnits
<1>3. UnitsInPlace(e)
  BY <1>1, <1>2 DEF Aligned, UnitsInPlace
<1>4. e.start = e.preserve + Total(e)
  BY <1>1, <1>2 DEF Aligned
<1>5. (e.start + 1)..Len(e.cache) = {}
  BY <1>1, SoundLengths
<1> QED
  BY <1>1, <1>3, <1>4, <1>5 DEF Aligned

\* register_unit_end.
LEMMA EndAligned ==
  ASSUME NEW d, NEW m, Sound(d, m), Aligned(d), d.open, NEW said, NEW listen,
         NEW e, UnitAdded(e, d, said, listen)
  PROVE  Aligned(e)
<1> DEFINE n == Len(d.units)
           new == Total(d) + Len(d.cache) - d.start
<1>1. /\ d \in Decoder /\ Len(d.cache) \in Nat /\ d.start \in Nat /\ n \in Nat
      /\ d.preserve \in Nat /\ Total(d) \in Nat
  BY SoundLengths DEF Sound, Decoder
<1>2. d.start = d.preserve + Total(d) /\ \A k \in (d.start + 1)..Len(d.cache) : d.cache[k].of = d.next
  BY DEF Aligned
<1>3. /\ ~e.open /\ Len(e.units) = n + 1 /\ e.cache = d.cache /\ e.preserve = d.preserve
      /\ e.halfway = d.halfway
      /\ \A i \in 1..n : e.units[i] = d.units[i]
      /\ e.units[n + 1] = [id |-> d.next, said |-> said, listen |-> listen, upto |-> new]
  BY DEF UnitAdded
<1>4. new = Len(d.cache) - d.preserve
  BY <1>1, <1>2
<1> HIDE DEF n, new
<1>5. e.units[n + 1].upto = new /\ e.units[n + 1].id = d.next
  BY <1>3
<1>6. \A i \in 0..n : Upto(e, i) = Upto(d, i)
  BY <1>1, <1>3 DEF Upto
<1>7. Upto(e, n + 1) = new /\ Total(e) = new
  <2>1. n + 1 # 0
    BY <1>1
  <2> QED
    BY <1>3, <1>5, <2>1 DEF Upto, Total
<1>8. Upto(e, n) = Total(d)
  <2>1. n \in 0..n /\ Total(d) = Upto(d, n)
    BY <1>1 DEF Total, n
  <2> QED
    BY <1>6, <2>1
<1>9. ASSUME NEW i \in 1..(n + 1), NEW k \in (Upto(e, i - 1) + 1)..Upto(e, i)
      PROVE  d.cache[d.preserve + k].of = e.units[i].id
  <2>1. CASE i = n + 1
    <3>1. i - 1 = n
      BY <1>1, <2>1
    <3>2. k \in (Total(d) + 1)..new
      BY <1>7, <1>8, <2>1, <3>1
    <3>3. d.preserve + k \in (d.start + 1)..Len(d.cache)
      BY <1>1, <1>2, <1>4, <3>2, SMTT(40)
    <3> QED
      BY <1>2, <1>5, <2>1, <3>3
  <2>2. CASE i # n + 1
    <3>1. i \in 1..n /\ i \in 0..n /\ i - 1 \in 0..n
      BY <1>1, <2>2
    <3>2. k \in (Upto(d, i - 1) + 1)..Upto(d, i)
      BY <1>6, <3>1
    <3>3. d.cache[d.preserve + k].of = d.units[i].id
      BY <3>1, <3>2 DEF Aligned, UnitsInPlace, n
    <3> QED
      BY <1>3, <3>1, <3>3
  <2> QED
    BY <2>1, <2>2
<1>10. UnitsInPlace(e)
  BY <1>3, <1>9 DEF UnitsInPlace
<1>11. Len(e.cache) = e.preserve + Total(e)
  BY <1>1, <1>3, <1>4, <1>7
<1> QED
  BY <1>3, <1>10, <1>11 DEF Aligned

\* A cut behind the prompt, of whole units, and whatever prompt comes before it.
LEMMA CutAligned ==
  ASSUME NEW d, NEW m, Sound(d, m), Aligned(d), ~d.open, NEW n \in 0..Len(d.units),
         NEW e, NEW w, Sound(e, w), Behind(e, d, d.preserve + Upto(d, n)), ~e.open,
         e.halfway = d.halfway,
         Len(e.units) = Len(d.units) - n,
         \A i \in 1..(Len(d.units) - n) : e.units[i].id = d.units[i + n].id,
         \A i \in 0..(Len(d.units) - n) : Upto(e, i) = Upto(d, i + n) - Upto(d, n)
  PROVE  Aligned(e)
<1> DEFINE l == Len(d.units)
           u == Upto(d, n)
<1>0. /\ d \in Decoder /\ Ordered(d) /\ Len(d.cache) \in Nat /\ d.preserve \in Nat
      /\ Total(d) \in Nat /\ e.preserve \in Nat /\ Len(e.cache) \in Nat
  BY SoundLengths, Zenon DEF Sound
<1>b. l \in Nat
  BY <1>0 DEF Decoder
<1>1. l - n \in Nat /\ \A i \in 0..(l - n) : i + n \in 0..l
  BY <1>b
<1>2. u \in Nat /\ u <= Total(d) /\ Len(d.cache) = d.preserve + Total(d)
  BY <1>0, UptoGrows DEF Aligned
<1>3. Total(e) = Total(d) - u
  <2>1. l - n \in 0..(l - n) /\ (l - n) + n = l
    BY <1>1
  <2> QED
    BY <2>1 DEF Total
<1>4. /\ Len(e.cache) = e.preserve + (Len(d.cache) - (d.preserve + u))
      /\ \A k \in 1..(Len(d.cache) - (d.preserve + u)) :
           e.cache[e.preserve + k].of = d.cache[d.preserve + u + k].of
  BY DEF Behind
<1>5. Len(e.cache) = e.preserve + Total(e)
  <2> HIDE DEF u
  <2> QED
    BY <1>0, <1>2, <1>3, <1>4
<1>6. ASSUME NEW i \in 1..(l - n), NEW k \in (Upto(e, i - 1) + 1)..Upto(e, i)
      PROVE  e.cache[e.preserve + k].of = e.units[i].id
  <2>1. i + n \in 1..l /\ i - 1 \in 0..(l - n) /\ i \in 0..(l - n) /\ (i - 1) + n = (i + n) - 1
    BY <1>b, <1>1
  <2>2. Upto(e, i) = Upto(d, i + n) - u /\ Upto(e, i - 1) = Upto(d, (i + n) - 1) - u
    BY <2>1
  <2> DEFINE a == Upto(d, (i + n) - 1)
             b == Upto(d, i + n)
  <2>3. a \in Nat /\ b \in Nat /\ u <= a /\ b <= Total(d)
    <3>1. (i + n) - 1 \in 0..l /\ i + n \in 0..l /\ (i + n) - 1 \in n..l
      BY <1>b, <1>1, <2>1
    <3>2. a \in Nat /\ a <= Total(d) /\ b \in Nat /\ b <= Total(d)
      BY <1>0, <3>1, UptoGrows
    <3>3. u <= a
      BY <1>0, <3>1, UptoGrows
    <3> QED
      BY <3>2, <3>3
  <2> HIDE DEF a, b, u
  <2>4. k \in (a - u + 1)..(b - u)
    <3>1. Upto(e, i) = b - u /\ Upto(e, i - 1) = a - u
      BY <2>2 DEF a, b
    <3>2. k \in (Upto(e, i - 1) + 1)..Upto(e, i)
      OBVIOUS
    <3> QED
      BY <1>2, <2>3, <3>1, <3>2
  <2>5. u + k \in (a + 1)..b /\ k \in 1..(Total(d) - u)
    <3> DEFINE r == Total(d)
    <3>1. r \in Nat /\ b <= r
      BY <1>0, <2>3
    <3>2. u \in Nat /\ a \in Nat /\ b \in Nat /\ u <= a
      BY <1>2, <2>3
    <3> HIDE DEF r
    <3>3. k \in Int /\ a - u + 1 <= k /\ k <= b - u
      BY <2>4, <3>2
    <3>4. a + 1 <= u + k /\ u + k <= b /\ u + k \in Int /\ 1 <= k /\ k <= r - u
      BY <3>1, <3>2, <3>3
    <3> QED
      BY <3>1, <3>2, <3>3, <3>4 DEF r
  <2>6. d.cache[d.preserve + (u + k)].of = d.units[i + n].id
    <3>1. \A j \in 1..l : \A q \in (Upto(d, j - 1) + 1)..Upto(d, j) :
            d.cache[d.preserve + q].of = d.units[j].id
      BY DEF Aligned, UnitsInPlace
    <3>2. u + k \in (Upto(d, (i + n) - 1) + 1)..Upto(d, i + n)
      BY <2>5 DEF a, b
    <3> HIDE DEF l
    <3> QED
      BY <2>1, <3>1, <3>2
  <2>7. k \in 1..(Len(d.cache) - (d.preserve + u)) /\ d.preserve + u + k = d.preserve + (u + k)
    <3> DEFINE v == d.preserve
               o == Len(d.cache)
               r == Total(d)
    <3>1. v \in Nat /\ r \in Nat /\ u \in Nat /\ o = v + r /\ k \in 1..(r - u)
      BY <1>0, <1>2, <2>5
    <3> HIDE DEF v, o, r
    <3>2. k \in 1..(o - (v + u)) /\ v + u + k = v + (u + k)
      BY <3>1
    <3> QED
      BY <3>2 DEF v, o
  <2>8. e.cache[e.preserve + k].of = d.cache[d.preserve + (u + k)].of
    BY <1>4, <2>7
  <2> QED
    BY <2>6, <2>8
<1>7. UnitsInPlace(e)
  BY <1>6 DEF UnitsInPlace
<1> QED
  BY <1>5, <1>7 DEF Aligned

\* The decoder after prepare() and after reset.
LEMMA NoUnitsAligned ==
  ASSUME NEW d, d.units = <<>>, d.open = FALSE, Len(d.cache) = d.preserve, d.preserve \in Nat,
         d.halfway = FALSE
  PROVE  Aligned(d)
<1>1. Len(d.units) = 0 /\ Total(d) = 0
  BY DEF Total, Upto
<1> QED
  BY <1>1 DEF Aligned, UnitsInPlace

\* finalize_unit up to the window.
LEMMA ClosedAligned ==
  ASSUME IInv, pending.on, Aligned(dec), dec.open
  PROVE  Aligned(Closed)
<1> DEFINE d == Feed(dec, dec.next, Closing)
<1>1. /\ Sound(dec, mode) /\ Ready(dec, mode, 2) /\ dec \in Decoder /\ dec.next \in Nat
      /\ dec.next \in Int /\ Closing \in Nat
      /\ pending.said \in Nat /\ pending.listen \in BOOLEAN
  BY DEF IInv, TypeOK, Decoder, Closing
<1>2. Fed(d, dec, dec.next, Closing)
  BY <1>1, FeedIs
<1>3. Sound(d, mode) /\ Ready(d, mode, 2 + Closing)
  BY <1>1, FeedReady
<1>4. Closed = RegisterUnitEnd(d, pending.said, pending.listen)
  BY DEF Closed
<1> HIDE DEF d
<1>5. Aligned(d) /\ d.open
  BY <1>1, <1>2, FeedAligned
<1>6. UnitAdded(Closed, d, pending.said, pending.listen)
  <2>1. d \in Decoder /\ Ordered(d) /\ d.start <= Len(d.cache)
    <3>1. 2 + Closing \in Nat
      BY <1>1
    <3> QED
      BY <1>3, <3>1, ReadyWithin
  <2> QED
    BY <1>1, <1>4, <1>5, <2>1, UnitEndIs
<1> HIDE DEF Closed
<1> QED
  BY <1>3, <1>5, <1>6, EndAligned

\* enforce_window and enforce_window_with_context.
LEMMA EnforcedAligned ==
  ASSUME NEW d, Settled(d, mode, MaxUnits + 1), Aligned(d), NEW n, Evicts(d, n)
  PROVE  Aligned(Enforced(d, n))
<1>1. /\ Sound(d, mode) /\ ~d.open /\ n \in 0..Len(d.units)
      /\ d \in Decoder /\ Ordered(d) /\ Len(d.units) \in Nat
  BY DEF Settled, Sound, Decoder, Evicts
<1>2. CASE n = 0
  BY <1>2 DEF Enforced
<1>3. ASSUME NEW e, Sound(e, mode), ~e.open, Behind(e, d, d.preserve + Upto(d, n)),
             e.units = Later(d, n), e.halfway = d.halfway
      PROVE  Aligned(e)
  <2>1. /\ Len(e.units) = Len(d.units) - n
        /\ \A i \in 1..(Len(d.units) - n) : e.units[i].id = d.units[i + n].id
    BY <1>1, <1>3, LaterIs
  <2>2. \A i \in 0..(Len(d.units) - n) : Upto(e, i) = Upto(d, i + n) - Upto(d, n)
    BY <1>1, <1>3, LaterUpto
  <2> QED
    BY <1>1, <1>3, <2>1, <2>2, CutAligned
<1>4. CASE n # 0 /\ mode = "context"
  <2>1. n = 1 /\ Len(d.units) >= 1
    BY <1>1, <1>4 DEF Evicts
  <2> DEFINE f == Forget(d)
             e == Rebuild(f)
  <2>2. Forgotten(f, d)
    BY <1>1, <2>1, ForgetIs
  <2>3. Enforced(d, n) = e
    BY <1>4 DEF Enforced
  <2> HIDE DEF f
  <2>4. Sound(f, "context") /\ Full(f)
    BY <1>1, <1>4, <2>1, <2>2, ForgetSound
  <2>5. Sound(e, "context") /\ Reheaded(e, f) /\ Behind(e, f, Len(f.cache) - Total(f))
    BY <2>4, RebuildSound
  <2> HIDE DEF e
  <2>6. f.units = Later(d, 1) /\ f.cache = d.cache /\ f.open = d.open
        /\ f.halfway = d.halfway
    BY <2>2 DEF Forgotten
  <2>7. Total(f) = Total(d) - Upto(d, 1)
    BY <1>1, <2>1, <2>6, LaterUpto
  <2>8. Len(f.cache) - Total(f) = d.preserve + Upto(d, n)
    <3>1. Len(d.cache) = d.preserve + Total(d)
      BY <1>1 DEF Aligned
    <3>2. d.preserve \in Nat /\ Total(d) \in Nat
      BY <1>1, SoundLengths
    <3>3. Upto(d, 1) \in Nat
      BY <1>1, <2>1, UptoGrows
    <3> QED
      BY <2>1, <2>6, <2>7, <3>1, <3>2, <3>3
  <2>9. Behind(e, d, d.preserve + Upto(d, n))
    <3>1. Behind(e, f, d.preserve + Upto(d, n))
      BY <2>5, <2>8
    <3> QED
      BY <2>6, <3>1 DEF Behind
  <2>10. ~e.open /\ e.units = Later(d, n) /\ e.halfway = d.halfway
    BY <1>1, <2>1, <2>5, <2>6 DEF Reheaded
  <2> QED
    BY <1>3, <1>4, <2>3, <2>5, <2>9, <2>10
<1>5. CASE n # 0 /\ mode # "context"
  <2> DEFINE e == DropUnits(d, n)
  <2>1. Enforced(d, n) = e
    BY <1>5 DEF Enforced
  <2>2. /\ Sound(e, mode) /\ e.open = d.open /\ e.units = Later(d, n)
        /\ e.halfway = d.halfway
        /\ Behind(e, d, d.preserve + Upto(d, n))
    BY <1>1, <1>5, DropSound
  <2> HIDE DEF e
  <2> QED
    BY <1>1, <1>3, <2>1, <2>2
<1> QED
  BY <1>2, <1>4, <1>5

\* update_system_prompt.
LEMMA UpdatedAligned ==
  ASSUME NEW d, NEW m, Sound(d, m), Aligned(d), ~d.open, NEW p \in Nat, NEW s \in Nat
  PROVE  Aligned(Updated(d, p, s)) /\ ~Updated(d, p, s).open
<1> DEFINE e == Updated(d, p, s)
<1>0. d.preserve <= Len(d.cache)
  BY SoundLengths DEF Aligned
<1>1. Sound(e, m) /\ Reheaded(e, d) /\ Behind(e, d, d.preserve)
  BY <1>0, UpdatedSound
<1> HIDE DEF e
<1>2. e.units = d.units /\ e.open = d.open /\ e.halfway = d.halfway
  BY <1>1 DEF Reheaded
<1>3. Len(d.units) \in Nat /\ d.preserve \in Nat
  BY DEF Sound, Decoder
<1>4. /\ 0 \in 0..Len(d.units) /\ Len(d.units) - 0 = Len(d.units)
      /\ \A i \in 0..Len(d.units) : i + 0 = i
      /\ Upto(d, 0) = 0 /\ d.preserve + 0 = d.preserve
  BY <1>3 DEF Upto
<1>5. \A i \in 0..Len(d.units) : Upto(e, i) = Upto(d, i) - 0
  <2>1. \A i \in 0..Len(d.units) : Upto(d, i) \in Nat /\ Upto(e, i) = Upto(d, i)
    BY <1>2, SameUnits, UptoGrows DEF Sound
  <2> QED
    BY <2>1
<1>6. Aligned(e)
  BY <1>1, <1>2, <1>4, <1>5, CutAligned
<1> QED
  BY <1>2, <1>6 DEF e

\* A unit is under way just when there is something to generate or, later, to
\* finalize.
UnderWay == (dec.open <=> logits \/ pending.on) /\ ~(logits /\ pending.on)

AlignInv == ~spoilt => Aligned(dec) /\ UnderWay

LEMMA InitAlign == Init => AlignInv
<1> SUFFICES ASSUME Init PROVE AlignInv
  OBVIOUS
<1>1. /\ dec.units = <<>> /\ dec.open = FALSE /\ Len(dec.cache) = dec.preserve
      /\ dec.preserve \in Nat /\ dec.halfway = FALSE
  BY DEF Init, Empty
<1>2. Aligned(dec)
  BY <1>1, NoUnitsAligned
<1> QED
  BY <1>1, <1>2 DEF AlignInv, UnderWay, Init, NotPending

LEMMA StepAlign == IInv /\ AlignInv /\ [Next]_vars => AlignInv'
<1> SUFFICES ASSUME IInv, AlignInv, [Next]_vars, ~spoilt'
             PROVE  Aligned(dec') /\ UnderWay'
  BY DEF AlignInv, Aligned, UnitsInPlace, Total, Upto
<1>0. /\ Sound(dec, mode) /\ dec \in Decoder /\ dec.next \in Nat /\ dec.next \in Int
      /\ logits \in BOOLEAN /\ ~NotPending.on
  BY DEF IInv, TypeOK, Decoder, NotPending
<1>a. ASSUME NEW n, pending.on, ~spoilt, Evicts(Closed, n)
      PROVE  /\ Sound(Enforced(Closed, n), mode) /\ Aligned(Enforced(Closed, n))
             /\ ~Enforced(Closed, n).open
  <2>1. Aligned(dec) /\ dec.open
    BY <1>a DEF AlignInv, UnderWay
  <2>2. Settled(Closed, mode, MaxUnits + 1) /\ Aligned(Closed)
    BY <1>a, <2>1, ClosedIs, ClosedAligned
  <2> HIDE DEF Closed
  <2>3. Settled(Enforced(Closed, n), mode, MaxUnits) /\ Aligned(Enforced(Closed, n))
    BY <1>a, <2>2, EnforcedIs, EnforcedAligned
  <2> QED
    BY <2>3 DEF Settled
<1>1. ASSUME NEW p \in Prefixes, NEW s \in Suffixes, Prepare(p, s)
      PROVE  Aligned(dec') /\ UnderWay'
  <2>1. p \in Nat /\ s \in Nat
    BY LengthAssumption
  <2>2. PromptOnly(dec', mode, p, s)
    BY <1>1, <2>1, PreparedIs DEF Prepare
  <2>3. /\ dec'.units = <<>> /\ dec'.open = FALSE /\ Len(dec'.cache) = dec'.preserve
        /\ dec'.preserve \in Nat /\ dec'.halfway = FALSE
    BY <2>1, <2>2 DEF PromptOnly
  <2>4. Aligned(dec')
    BY <2>3, NoUnitsAligned
  <2> QED
    BY <1>0, <1>1, <2>3, <2>4 DEF Prepare, UnderWay
<1>2. ASSUME NEW p \in Prefixes, NEW s \in Suffixes, Update(p, s)
      PROVE  Aligned(dec') /\ UnderWay'
  <2>1. p \in Nat /\ s \in Nat
    BY LengthAssumption
  <2>2. ~logits' /\ ~pending'.on /\ ~logits /\ ~spoilt
    BY <1>0, <1>2 DEF Update
  <2>3. \E d : /\ Sound(d, mode) /\ Aligned(d) /\ ~d.open /\ dec' = Updated(d, p, s)
    <3>1. CASE pending.on
      <4>1. PICK n \in 0..Len(Closed.units) :
              /\ Evicts(Closed, n)
              /\ dec' = Updated(Enforced(Closed, n), p, s)
        BY <1>2, <3>1 DEF Update
      <4> QED
        BY <1>a, <2>2, <3>1, <4>1
    <3>2. CASE ~pending.on
      <4>1. dec' = Updated(dec, p, s)
        BY <1>2, <3>2 DEF Update
      <4>2. Aligned(dec) /\ ~dec.open
        BY <2>2, <3>2 DEF AlignInv, UnderWay
      <4> QED
        BY <1>0, <4>1, <4>2
    <3> QED
      BY <3>1, <3>2
  <2>4. PICK d : /\ Sound(d, mode) /\ Aligned(d) /\ ~d.open /\ dec' = Updated(d, p, s)
    BY <2>3
  <2>5. Aligned(dec') /\ ~dec'.open
    BY <2>1, <2>4, UpdatedAligned
  <2> QED
    BY <2>2, <2>5 DEF UnderWay
<1>3. ASSUME NEW n \in Inputs, Prefill(n)
      PROVE  Aligned(dec') /\ UnderWay'
  <2> DEFINE d == RegisterUnitStart(dec)
  <2>1. 1 + n \in Nat
    BY LengthAssumption
  <2>2. /\ ~spoilt /\ ~logits /\ ~pending.on /\ logits' /\ ~pending'.on
        /\ dec' = Feed(RegisterUnitStart(dec), dec.next, 1 + n)
    BY <1>3 DEF Prefill, MayStart
  <2>3. Aligned(dec) /\ ~dec.open
    BY <2>2 DEF AlignInv, UnderWay
  <2>4. Sound(d, mode) /\ d.open /\ d.next = dec.next /\ d \in Decoder
    BY <1>0, UnitStartSound DEF Sound
  <2>5. Aligned(d)
    BY <1>0, <2>3, StartAligned
  <2> HIDE DEF d
  <2>6. Fed(dec', d, d.next, 1 + n)
    BY <1>0, <2>1, <2>2, <2>4, FeedIs DEF d
  <2>7. Aligned(dec') /\ dec'.open
    BY <2>1, <2>4, <2>5, <2>6, FeedAligned
  <2> QED
    BY <2>2, <2>7 DEF UnderWay
<1>4. ASSUME NEW f \in Speeches, NEW said \in 0..f, NEW listen \in BOOLEAN,
             Generate(f, said, listen)
      PROVE  Aligned(dec') /\ UnderWay'
  <2>1. f \in Nat
    BY LengthAssumption
  <2>2. /\ ~spoilt /\ logits /\ dec' = Feed(dec, dec.next, f) /\ ~logits'
        /\ pending' = [on |-> TRUE, said |-> said, listen |-> listen]
    BY <1>4 DEF Generate
  <2>3. Aligned(dec) /\ dec.open
    BY <2>2 DEF AlignInv, UnderWay
  <2>4. Fed(dec', dec, dec.next, f)
    BY <1>0, <2>1, <2>2, FeedIs
  <2>5. Aligned(dec') /\ dec'.open
    BY <1>0, <2>1, <2>3, <2>4, FeedAligned
  <2> QED
    BY <2>2, <2>5 DEF UnderWay
<1>5. ASSUME NEW n \in 0..Len(Closed.units), Finalize(n)
      PROVE  Aligned(dec') /\ UnderWay'
  <2>1. /\ pending.on /\ ~spoilt /\ Evicts(Closed, n) /\ dec' = Enforced(Closed, n)
        /\ pending' = NotPending /\ logits' = logits
    BY <1>5 DEF Finalize
  <2>2. Aligned(dec') /\ ~dec'.open
    BY <1>a, <2>1
  <2>3. ~logits
    BY <2>1 DEF AlignInv, UnderWay
  <2> QED
    BY <1>0, <2>1, <2>2, <2>3 DEF UnderWay
<1>6. CASE Stop
  BY <1>6 DEF Stop, AlignInv, UnderWay
<1>7. CASE Cleanup
  <2>1. /\ dec' = Empty /\ ~logits' /\ ~pending'.on
    BY <1>0, <1>7 DEF Cleanup
  <2>2. /\ dec'.units = <<>> /\ dec'.open = FALSE /\ Len(dec'.cache) = dec'.preserve
        /\ dec'.preserve \in Nat /\ dec'.halfway = FALSE
    BY <2>1 DEF Empty
  <2> QED
    BY <2>1, <2>2, NoUnitsAligned DEF UnderWay
<1>8. CASE UNCHANGED vars
  BY <1>8 DEF vars, AlignInv, UnderWay
<1>9. ASSUME NEW n \in Inputs \cup {0}, PrefillShort(n) PROVE FALSE
  BY <1>9 DEF PrefillShort
<1>10. ASSUME NEW f \in Speeches, GenerateRaises(f) PROVE FALSE
  BY <1>10 DEF GenerateRaises
<1>11. CASE FinalizeRaises
  BY <1>11 DEF FinalizeRaises
<1>12. ASSUME NEW p \in Prefixes, NEW s \in Suffixes, PrepareRaises(p, s) PROVE FALSE
  BY <1>12 DEF PrepareRaises
<1> QED
  BY <1>1, <1>2, <1>3, <1>4, <1>5, <1>6, <1>7, <1>8, <1>9, <1>10, <1>11, <1>12 DEF Next

LEMMA AlwaysAligned == Spec => [](IInv /\ AlignInv)
<1>1. Init => IInv /\ AlignInv
  BY InitIInv, InitAlign
<1>2. IInv /\ AlignInv /\ [Next]_vars => (IInv /\ AlignInv)'
  BY StepIInv, StepAlign
<1> QED
  BY <1>1, <1>2, PTL DEF Spec

\* finalize_unit leaves no more in the cache than the window allows, or the prompt
\* alone.
LEMMA FinalizeBounds ==
  ASSUME IInv, AlignInv
  PROVE  WindowBoundedStep
<1> SUFFICES ASSUME mode = "basic", ~spoilt, NEW n \in 0..Len(Closed.units), Finalize(n)
             PROVE  Len(dec'.cache) <= High \/ Len(dec'.cache) = dec'.preserve
  BY DEF WindowBoundedStep
<1>1. pending.on /\ Evicts(Closed, n) /\ dec' = Enforced(Closed, n)
  BY DEF Finalize
<1>2. Settled(Closed, mode, MaxUnits + 1) /\ Aligned(Closed)
  BY <1>1, ClosedIs, ClosedAligned DEF AlignInv, UnderWay
<1> DEFINE d == Closed
<1> HIDE DEF d
<1>3. Sound(d, mode) /\ Len(d.cache) = d.preserve + Total(d) /\ d \in Decoder /\ Ordered(d)
  BY <1>2 DEF Settled, Aligned, Sound, d
<1>4. Len(d.cache) \in Nat /\ d.preserve \in Nat /\ Total(d) \in Nat
      /\ High \in Nat /\ Low \in Nat /\ Low <= High
  BY <1>3, SoundLengths, LimitAssumption
<1>5. CASE n = 0
  <2>1. dec' = d
    BY <1>1, <1>5 DEF Enforced, d
  <2>2. CASE Len(d.cache) <= High
    BY <2>1, <2>2
  <2>3. CASE ~(Len(d.cache) <= High)
    <3>1. 0 = Len(d.units) \/ Len(d.cache) - Upto(d, 0) <= Low
      BY <1>1, <1>5, <2>3 DEF Evicts, Enough, d
    <3>2. 0 = Len(d.units) => Total(d) = 0
      BY DEF Total, Upto
    <3>3. Upto(d, 0) = 0
      BY DEF Upto
    <3> QED
      BY <1>3, <1>4, <2>1, <2>3, <3>1, <3>2, <3>3
  <2> QED
    BY <2>2, <2>3
<1>6. CASE n # 0
  <2> DEFINE e == DropUnits(d, n)
  <2>1. dec' = e
    BY <1>1, <1>6 DEF Enforced, d
  <2>2. n \in 0..Len(d.units)
    BY DEF d
  <2>3. e.preserve = d.preserve /\ Behind(e, d, d.preserve + Upto(d, n))
    BY <1>3, <2>2, DropSound
  <2> HIDE DEF e
  <2>4. Upto(d, n) \in Nat
    BY <1>3, <2>2, UptoGrows
  <2>5. Len(e.cache) = Len(d.cache) - Upto(d, n)
    BY <1>4, <2>3, <2>4 DEF Behind
  <2>6. n = Len(d.units) \/ Len(d.cache) - Upto(d, n) <= Low
    BY <1>1, <1>6 DEF Evicts, Enough, d
  <2>7. CASE n = Len(d.units)
    <3>1. Upto(d, n) = Total(d)
      BY <2>7 DEF Total
    <3> QED
      BY <1>3, <1>4, <2>1, <2>3, <2>5, <3>1
  <2>8. CASE Len(d.cache) - Upto(d, n) <= Low
    BY <1>4, <2>1, <2>4, <2>5, <2>8
  <2> QED
    BY <2>6, <2>7, <2>8
<1> QED
  BY <1>5, <1>6
-----------------------------------------------------------------------------
(***************************************************************************)
(* The previous content.                                                   *)
(***************************************************************************)

\* r is the last l of the n elements of s.
Ends(r, s, n, l) ==
  /\ Len(r) = l
  /\ \A i \in 1..l : r[i] = s[n - l + i]

LEMMA LastOfAre ==
  ASSUME NEW S, NEW s \in Seq(S), NEW n \in Nat,
         NEW l, l = IF Len(s) <= n THEN Len(s) ELSE n
  PROVE  LastOf(s, n) \in Seq(S) /\ Ends(LastOf(s, n), s, Len(s), l)
<1>1. CASE Len(s) <= n
  <2>1. LastOf(s, n) = s /\ l = Len(s) /\ \A i \in 1..Len(s) : Len(s) - Len(s) + i = i
    BY <1>1 DEF LastOf
  <2> QED
    BY <2>1 DEF Ends
<1>2. CASE ~(Len(s) <= n)
  <2> DEFINE a == Len(s) - n + 1
             b == Len(s)
             r == SubSeq(s, a, b)
  <2>1. a \in Nat /\ a >= 1 /\ b \in 0..Len(s) /\ a <= b + 1 /\ b + 1 - a = n
    BY <1>2
  <2>2. \A i \in Int : a + i - 1 = Len(s) - n + i
    BY <1>2
  <2>3. LastOf(s, n) = r /\ l = n
    BY <1>2 DEF LastOf
  <2> HIDE DEF a, b
  <2>4. /\ r \in Seq(S) /\ Len(r) = b + 1 - a
        /\ \A i \in 1..(b + 1 - a) : r[i] = s[a + i - 1]
    BY <2>1, PartIs
  <2> HIDE DEF r
  <2>5. ASSUME NEW i \in 1..n PROVE r[i] = s[Len(s) - n + i]
    <3>1. i \in 1..(b + 1 - a) /\ a + i - 1 = Len(s) - n + i
      BY <2>1, <2>2
    <3> QED
      BY <2>4, <3>1
  <2> QED
    BY <2>1, <2>3, <2>4, <2>5 DEF Ends
<1> QED
  BY <1>1, <1>2

LEMMA SameSequence ==
  ASSUME NEW S, NEW s \in Seq(S), NEW t \in Seq(S), Len(s) = Len(t),
         \A i \in 1..Len(s) : s[i] = t[i]
  PROVE  s = t
  OBVIOUS

\* d is s, of n elements, followed by t, of m elements.
Joins(d, s, n, t, m) ==
  /\ Len(d) = n + m
  /\ \A i \in 1..n : d[i] = s[i]
  /\ \A i \in (n + 1)..(n + m) : d[i] = t[i - n]

LEMMA Joined ==
  ASSUME NEW S, NEW s \in Seq(S), NEW t \in Seq(S), NEW n, n = Len(s), NEW m, m = Len(t)
  PROVE  s \o t \in Seq(S) /\ Joins(s \o t, s, n, t, m)
  BY JoinIs DEF Joins

\* c and e are the last lc elements of b and d: d is s followed by t, and b is the
\* last la elements of s followed by t.
BothEnd(S, s, t, a, b, d, ls, lt, la, lc, c, e) ==
  /\ ls \in Nat /\ lt \in Nat /\ la \in Nat /\ lc \in Nat /\ la <= ls /\ lc <= la + lt
  /\ Ends(a, s, ls, la) /\ Joins(b, a, la, t, lt) /\ Joins(d, s, ls, t, lt)
  /\ c \in Seq(S) /\ Ends(c, b, la + lt, lc)
  /\ e \in Seq(S) /\ Ends(e, d, ls + lt, lc)

\* The end of a sequence is the end of every longer end.
LEMMA EndOfEnd ==
  ASSUME NEW S, NEW s, NEW t, NEW a, NEW b, NEW d, NEW ls, NEW lt, NEW la, NEW lc,
         NEW c, NEW e, BothEnd(S, s, t, a, b, d, ls, lt, la, lc, c, e)
  PROVE  c = e
<1>1. ls \in Nat /\ lt \in Nat /\ la \in Nat /\ lc \in Nat /\ la <= ls /\ lc <= la + lt
  BY DEF BothEnd
<1>2. c \in Seq(S) /\ e \in Seq(S)
  BY DEF BothEnd
<1>3. \A i \in 1..la : a[i] = s[ls - la + i]
  BY DEF BothEnd, Ends
<1>4. /\ \A i \in 1..la : b[i] = a[i]
      /\ \A i \in (la + 1)..(la + lt) : b[i] = t[i - la]
  BY DEF BothEnd, Joins
<1>5. /\ \A i \in 1..ls : d[i] = s[i]
      /\ \A i \in (ls + 1)..(ls + lt) : d[i] = t[i - ls]
  BY DEF BothEnd, Joins
<1>6. Len(c) = lc /\ \A i \in 1..lc : c[i] = b[la + lt - lc + i]
  BY DEF BothEnd, Ends
<1>7. Len(e) = lc /\ \A i \in 1..lc : e[i] = d[ls + lt - lc + i]
  BY DEF BothEnd, Ends
<1>8. ASSUME NEW i \in 1..lc PROVE c[i] = e[i]
  <2>1. PICK j \in Int : j = la + lt - lc + i
    BY <1>1
  <2>2. PICK k \in Int : k = ls + lt - lc + i
    BY <1>1
  <2>3. c[i] = b[j] /\ e[i] = d[k]
    BY <1>6, <1>7, <2>1, <2>2
  <2>5. CASE j <= la
    <3>1. j \in 1..la /\ ls - la + j = k /\ k \in 1..ls
      BY <1>1, <2>1, <2>2, <2>5
    <3>2. b[j] = s[k]
      BY <1>3, <1>4, <3>1
    <3>3. d[k] = s[k]
      BY <1>5, <3>1
    <3> QED
      BY <2>3, <3>2, <3>3
  <2>6. CASE ~(j <= la)
    <3>1. j \in (la + 1)..(la + lt) /\ k \in (ls + 1)..(ls + lt) /\ j - la = k - ls
      BY <1>1, <2>1, <2>2, <2>6
    <3>2. b[j] = t[j - la]
      BY <1>4, <3>1
    <3>3. d[k] = t[k - ls]
      BY <1>5, <3>1
    <3> QED
      BY <2>3, <3>1, <3>2, <3>3
  <2> QED
    BY <2>5, <2>6
<1> QED
  BY <1>2, <1>6, <1>7, <1>8, SameSequence

\* Nothing but two empty sequences joins to the empty one.
LEMMA JoinOfNothing ==
  ASSUME NEW S, NEW s \in Seq(S), NEW t \in Seq(S)
  PROVE  /\ s \o t = <<>> <=> s = <<>> /\ t = <<>>
         /\ s \o <<>> = s
<1>1. Len(s) \in Nat /\ Len(t) \in Nat /\ Len(s \o t) = Len(s) + Len(t) /\ s \o t \in Seq(S)
  BY JoinIs
<1>2. \A r \in Seq(S) : r = <<>> <=> Len(r) = 0
  OBVIOUS
<1>3. Len(s \o t) = 0 <=> Len(s) = 0 /\ Len(t) = 0
  BY <1>1
<1>4. s \o <<>> = s
  OBVIOUS
<1> QED
  BY <1>1, <1>2, <1>3, <1>4, Zenon

\* What is forgotten of the past is forgotten of the past and more.
LEMMA LastOfMore ==
  ASSUME NEW S, NEW s \in Seq(S), NEW t \in Seq(S), NEW n \in Nat
  PROVE  LastOf(LastOf(s, n) \o t, n) = LastOf(s \o t, n)
<1> DEFINE a == LastOf(s, n)
           b == a \o t
           d == s \o t
<1>1. PICK ls \in Nat : ls = Len(s)
  OBVIOUS
<1>2. PICK lt \in Nat : lt = Len(t)
  OBVIOUS
<1>3. PICK la \in Nat : la = IF ls <= n THEN ls ELSE n
  OBVIOUS
<1>4. PICK lc \in Nat : lc = IF la + lt <= n THEN la + lt ELSE n
  OBVIOUS
<1>5. a \in Seq(S) /\ Ends(a, s, ls, la)
  BY <1>1, <1>3, LastOfAre
<1> HIDE DEF a
<1>6. b \in Seq(S) /\ Joins(b, a, la, t, lt)
  <2>1. Len(a) = la
    BY <1>5 DEF Ends
  <2> QED
    BY <1>2, <1>5, <2>1, Joined
<1>6b. d \in Seq(S) /\ Joins(d, s, ls, t, lt)
  BY <1>1, <1>2, Joined
<1> HIDE DEF b, d
<1>7. Len(b) = la + lt /\ Len(d) = ls + lt
  BY <1>6, <1>6b DEF Joins
<1>8. lc = (IF Len(b) <= n THEN Len(b) ELSE n) /\ lc = (IF Len(d) <= n THEN Len(d) ELSE n)
  BY <1>3, <1>4, <1>7
<1>9. LastOf(b, n) \in Seq(S) /\ Ends(LastOf(b, n), b, la + lt, lc)
  BY <1>6, <1>7, <1>8, LastOfAre
<1>10. LastOf(d, n) \in Seq(S) /\ Ends(LastOf(d, n), d, ls + lt, lc)
  BY <1>6b, <1>7, <1>8, LastOfAre
<1>11. la <= ls /\ lc <= la + lt
  BY <1>1, <1>2, <1>3, <1>4
<1>12. LastOf(b, n) = LastOf(d, n)
  <2> DEFINE c == LastOf(b, n)
             e == LastOf(d, n)
  <2>1. c \in Seq(S) /\ Ends(c, b, la + lt, lc) /\ e \in Seq(S) /\ Ends(e, d, ls + lt, lc)
    BY <1>9, <1>10
  <2> HIDE DEF c, e
  <2>2. Ends(a, s, ls, la) /\ Joins(b, a, la, t, lt) /\ Joins(d, s, ls, t, lt)
    BY <1>5, <1>6, <1>6b
  <2>3. c = e
    <3>1. ls \in Nat /\ lt \in Nat /\ la \in Nat /\ lc \in Nat
      BY <1>1, <1>2, <1>3, <1>4
    <3>2. BothEnd(S, s, t, a, b, d, ls, lt, la, lc, c, e)
      BY <1>11, <2>1, <2>2, <3>1, Zenon DEF BothEnd
    <3> QED
      BY <3>2, EndOfEnd, Zenon
  <2> QED
    BY <2>3 DEF c, e
<1> QED
  BY <1>12 DEF a, b, d

\* What the units of d and the previous content have to do with g, everything said
\* in units that have left the window: a unit that listens has said nothing.
Remembers(d, g) ==
  /\ \A i \in 1..Len(d.units) : d.units[i].listen => d.units[i].said = 0
  /\ mode = "context" => /\ d.previous = LastOf(g, PreviousMax)
                         /\ d.has <=> g # <<>>

MemoryInv ==
  /\ pending.listen => pending.said = 0
  /\ Remembers(dec, gone)

LEMMA RemembersAlike ==
  ASSUME NEW d, NEW e, NEW g, Remembers(d, g), e.units = d.units, e.has = d.has,
         e.previous = d.previous
  PROVE  Remembers(e, g)
  BY DEF Remembers

LEMMA RemembersNothing ==
  ASSUME NEW d, d.units = <<>>, d.has = FALSE, d.previous = <<>>
  PROVE  Remembers(d, <<>>)
<1>1. <<>> \in Seq(Nat) /\ Len(<<>>) = 0 /\ 0 <= PreviousMax
  BY LimitAssumption
<1>2. LastOf(<<>>, PreviousMax) = <<>>
  BY <1>1 DEF LastOf
<1> QED
  BY <1>2 DEF Remembers

LEMMA FedRemembers ==
  ASSUME NEW d \in Decoder, NEW e, NEW of, NEW n, Fed(e, d, of, n), NEW g, Remembers(d, g)
  PROVE  Remembers(e, g)
<1>1. e.units = d.units /\ e.has = d.has /\ e.previous = d.previous
  BY DEF Fed, Decoder
<1> QED
  BY <1>1, RemembersAlike

\* prepare().
LEMMA PreparedEmpty ==
  ASSUME NEW p, NEW s
  PROVE  /\ Prepared(p, s).units = <<>> /\ Prepared(p, s).has = FALSE
         /\ Prepared(p, s).previous = <<>>
  BY DEF Prepared, Feed, RegisterSystemPrompt, RegisterSystemPromptWithContext, Empty

\* finalize_unit up to the window.
LEMMA ClosedRemembers ==
  ASSUME IInv, MemoryInv, pending.on
  PROVE  Remembers(Closed, gone)
<1> DEFINE d == Feed(dec, dec.next, Closing)
<1>1. /\ Sound(dec, mode) /\ Ready(dec, mode, 2) /\ dec \in Decoder /\ dec.next \in Nat
      /\ dec.next \in Int /\ Closing \in Nat
      /\ pending.said \in Nat /\ pending.listen \in BOOLEAN
  BY DEF IInv, TypeOK, Decoder, Closing
<1>2. Fed(d, dec, dec.next, Closing) /\ Sound(d, mode) /\ Ready(d, mode, 2 + Closing)
  BY <1>1, FeedIs, FeedReady
<1>3. Closed = RegisterUnitEnd(d, pending.said, pending.listen)
  BY DEF Closed
<1> HIDE DEF d
<1>4. Remembers(d, gone)
  BY <1>1, <1>2, FedRemembers DEF MemoryInv
<1>5. CASE ~d.open
  BY <1>3, <1>4, <1>5 DEF RegisterUnitEnd
<1>6. CASE d.open
  <2>1. /\ d \in Decoder /\ Ordered(d) /\ d.start <= Len(d.cache)
        /\ Len(d.units) \in Nat
    <3>1. 2 + Closing \in Nat
      BY <1>1
    <3>2. d \in Decoder /\ Ordered(d) /\ d.start <= Len(d.cache)
      BY <1>2, <3>1, ReadyWithin
    <3> QED
      BY <3>2 DEF Decoder
  <2>2. UnitAdded(Closed, d, pending.said, pending.listen)
    BY <1>1, <1>3, <1>6, <2>1, UnitEndIs
  <2> HIDE DEF Closed
  <2>3. /\ Len(Closed.units) = Len(d.units) + 1
        /\ \A i \in 1..Len(d.units) : Closed.units[i] = d.units[i]
        /\ Closed.units[Len(d.units) + 1].said = pending.said
        /\ Closed.units[Len(d.units) + 1].listen = pending.listen
        /\ Closed.has = d.has /\ Closed.previous = d.previous
    BY <2>2 DEF UnitAdded
  <2>4. ASSUME NEW i \in 1..Len(Closed.units), Closed.units[i].listen
        PROVE  Closed.units[i].said = 0
    <3>1. CASE i = Len(d.units) + 1
      BY <2>3, <2>4, <3>1 DEF MemoryInv
    <3>2. CASE i # Len(d.units) + 1
      <4>1. i \in 1..Len(d.units)
        BY <2>1, <2>3, <3>2
      <4> QED
        BY <1>4, <2>3, <2>4, <4>1 DEF Remembers
    <3> QED
      BY <3>1, <3>2
  <2> QED
    BY <1>4, <2>3, <2>4 DEF Remembers
<1> QED
  BY <1>5, <1>6

\* _drop_unit_with_context and _update_previous.
LEMMA ForgetRemembers ==
  ASSUME NEW d \in Decoder, Ordered(d), Len(d.units) >= 1, mode = "context",
         NEW g \in Seq(Nat), Remembers(d, g)
  PROVE  Remembers(Forget(d), g \o Said(d.units[1]))
<1> DEFINE u == d.units[1]
           said == Said(u)
           new == IF u.listen THEN <<>> ELSE said
           e == Forget(d)
<1>1. /\ Len(d.units) \in Nat /\ 1 \in 1..Len(d.units) /\ 1 \in 0..Len(d.units)
      /\ u \in Unit /\ d.previous \in Seq(Nat) /\ d.has \in BOOLEAN
  BY DEF Decoder
<1>2. said \in Seq(Nat) /\ (u.listen => u.said = 0)
  BY <1>1, SaidIs DEF Remembers
<1>3. new = said
  <2>1. CASE u.listen
    <3>1. said = <<>>
      BY <1>2, <2>1 DEF Said
    <3> QED
      BY <2>1, <3>1
  <2> QED
    BY <2>1
<1>4. e = [d EXCEPT !.units = Later(d, 1), !.has = d.has \/ new # <<>>,
                    !.previous = LastOf(d.previous \o new, PreviousMax)]
  BY DEF Forget
<1> HIDE DEF new, said, e
<1>5. /\ e.units = Later(d, 1) /\ (e.has <=> d.has \/ said # <<>>)
      /\ e.previous = LastOf(d.previous \o said, PreviousMax)
  BY <1>3, <1>4 DEF Decoder
<1>6. e.previous = LastOf(g \o said, PreviousMax)
  <2>1. d.previous = LastOf(g, PreviousMax) /\ PreviousMax \in Nat
    BY LimitAssumption DEF Remembers
  <2> QED
    BY <1>2, <1>5, <2>1, LastOfMore
<1>7. e.has <=> g \o said # <<>>
  <2>1. d.has <=> g # <<>>
    BY DEF Remembers
  <2>2. g \o said = <<>> <=> g = <<>> /\ said = <<>>
    BY <1>2, JoinOfNothing
  <2> QED
    BY <1>5, <2>1, <2>2
<1>8. ASSUME NEW i \in 1..Len(e.units), e.units[i].listen PROVE e.units[i].said = 0
  <2>1. /\ Len(e.units) = Len(d.units) - 1
        /\ \A j \in 1..(Len(d.units) - 1) : /\ e.units[j].said = d.units[j + 1].said
                                            /\ e.units[j].listen = d.units[j + 1].listen
    <3>1. /\ Len(Later(d, 1)) = Len(d.units) - 1
          /\ \A j \in 1..(Len(d.units) - 1) : /\ Later(d, 1)[j].said = d.units[j + 1].said
                                              /\ Later(d, 1)[j].listen = d.units[j + 1].listen
      BY <1>1, LaterIs
    <3> QED
      BY <1>5, <3>1
  <2>2. i \in 1..(Len(d.units) - 1) /\ i + 1 \in 1..Len(d.units)
    BY <1>1, <2>1
  <2> QED
    BY <1>8, <2>1, <2>2 DEF Remembers
<1> QED
  BY <1>6, <1>7, <1>8 DEF Remembers, e, said

\* enforce_window and enforce_window_with_context.
LEMMA EnforcedRemembers ==
  ASSUME NEW d, Settled(d, mode, MaxUnits + 1), NEW g \in Seq(Nat), Remembers(d, g),
         NEW n, Evicts(d, n)
  PROVE  Remembers(Enforced(d, n), g \o Leaving(d, n))
<1>1. /\ Sound(d, mode) /\ n \in 0..Len(d.units) /\ d \in Decoder /\ Ordered(d)
      /\ Len(d.units) \in Nat
  BY DEF Settled, Sound, Decoder, Evicts
<1>2. n # 1 \/ mode # "context" => g \o Leaving(d, n) = g
  <2>1. g \o <<>> = g
    BY JoinOfNothing
  <2>2. n # 1 \/ mode # "context" => Leaving(d, n) = <<>>
    BY DEF Leaving
  <2> QED
    BY <2>1, <2>2
<1>3. CASE n = 0
  <2>1. Enforced(d, n) = d /\ g \o Leaving(d, n) = g
    BY <1>2, <1>3 DEF Enforced
  <2> QED
    BY <2>1
<1>4. CASE n # 0 /\ mode = "context"
  <2>1. n = 1 /\ Len(d.units) >= 1
    BY <1>1, <1>4 DEF Evicts
  <2> DEFINE f == Forget(d)
             e == Rebuild(f)
  <2>2. Sound(f, "context") /\ Full(f)
    BY <1>1, <1>4, <2>1, ForgetIs, ForgetSound
  <2>3. Remembers(f, g \o Said(d.units[1]))
    BY <1>1, <1>4, <2>1, ForgetRemembers
  <2>4. Reheaded(e, f)
    BY <2>2, RebuildSound
  <2>5. Enforced(d, n) = e /\ Leaving(d, n) = Said(d.units[1])
    BY <1>4, <2>1 DEF Enforced, Leaving
  <2> HIDE DEF e, f
  <2>6. Remembers(e, g \o Said(d.units[1]))
    BY <2>3, <2>4, RemembersAlike DEF Reheaded
  <2> QED
    BY <2>5, <2>6
<1>5. CASE n # 0 /\ mode # "context"
  <2> DEFINE e == DropUnits(d, n)
  <2>1. e.units = Later(d, n)
    BY <1>1, <1>5, DropSound
  <2>2. Enforced(d, n) = e
    BY <1>5 DEF Enforced
  <2> HIDE DEF e
  <2>3. ASSUME NEW i \in 1..Len(e.units), e.units[i].listen PROVE e.units[i].said = 0
    <3>1. /\ Len(e.units) = Len(d.units) - n
          /\ \A j \in 1..(Len(d.units) - n) : /\ e.units[j].said = d.units[j + n].said
                                              /\ e.units[j].listen = d.units[j + n].listen
      BY <1>1, <2>1, LaterIs
    <3>2. i \in 1..(Len(d.units) - n) /\ i + n \in 1..Len(d.units)
      BY <1>1, <3>1
    <3> QED
      BY <2>3, <3>1, <3>2 DEF Remembers
  <2> QED
    BY <1>5, <2>2, <2>3 DEF Remembers
<1> QED
  BY <1>3, <1>4, <1>5

LEMMA InitMemory == Init => MemoryInv
<1> SUFFICES ASSUME Init PROVE MemoryInv
  OBVIOUS
<1>1. dec.units = <<>> /\ dec.has = FALSE /\ dec.previous = <<>> /\ gone = <<>>
  BY DEF Init, Empty
<1>2. Remembers(dec, gone)
  BY <1>1, RemembersNothing
<1> QED
  BY <1>2 DEF MemoryInv, Init, NotPending

\* A unit that ends listening has said nothing, unless the sampler ends it early.
LEMMA StepMemory ==
  ASSUME ~EarlyEnds, IInv, MemoryInv, [Next]_vars
  PROVE  MemoryInv'
<1>0. /\ Sound(dec, mode) /\ dec \in Decoder /\ dec.next \in Nat /\ dec.next \in Int
      /\ gone \in Seq(Nat) /\ Remembers(dec, gone) /\ (pending.listen => pending.said = 0)
  BY DEF IInv, TypeOK, Decoder, MemoryInv
<1>a. ~NotPending.listen
  BY DEF NotPending
\* Remembers(d, g) depends on the state through mode alone.
<1>b. ASSUME mode' = mode, NEW d, d = dec', NEW g, g = gone', Remembers(d, g)
      PROVE  Remembers(dec, gone)'
  BY <1>b DEF Remembers
<1>c. ASSUME NEW n, pending.on, Evicts(Closed, n)
      PROVE  /\ Sound(Enforced(Closed, n), mode)
             /\ Remembers(Enforced(Closed, n), gone \o Leaving(Closed, n))
  <2>1. Settled(Closed, mode, MaxUnits + 1) /\ Remembers(Closed, gone)
    BY <1>c, ClosedIs, ClosedRemembers
  <2> HIDE DEF Closed
  <2>2. Settled(Enforced(Closed, n), mode, MaxUnits)
    BY <1>c, <2>1, EnforcedIs
  <2>3. Remembers(Enforced(Closed, n), gone \o Leaving(Closed, n))
    BY <1>0, <1>c, <2>1, EnforcedRemembers
  <2> QED
    BY <2>2, <2>3 DEF Settled
\* Nothing is left of what was said before.
<1>d. ASSUME mode' = mode, pending' = NotPending, gone' = <<>>, dec'.units = <<>>,
             dec'.has = FALSE, dec'.previous = <<>>
      PROVE  MemoryInv'
  <2>1. Remembers(dec', <<>>)
    BY <1>d, RemembersNothing
  <2>2. Remembers(dec, gone)'
    BY <1>b, <1>d, <2>1
  <2> QED
    BY <1>a, <1>d, <2>2 DEF MemoryInv
\* <unit> and what is heard of it are fed.
<1>e. ASSUME NEW n \in Nat, dec' = Feed(RegisterUnitStart(dec), dec.next, 1 + n),
             UNCHANGED <<mode, pending, gone>>
      PROVE  MemoryInv'
  <2> DEFINE d == RegisterUnitStart(dec)
  <2>1. /\ Sound(d, mode) /\ d \in Decoder /\ d.units = dec.units
        /\ d.previous = dec.previous /\ d.has = dec.has
    BY <1>0, UnitStartSound DEF Sound
  <2>2. dec' = Feed(d, dec.next, 1 + n)
    BY <1>e
  <2> HIDE DEF d
  <2>3. Remembers(d, gone)
    BY <1>0, <2>1, RemembersAlike
  <2>4. 1 + n \in Nat
    OBVIOUS
  <2>5. Fed(dec', d, dec.next, 1 + n)
    BY <1>0, <2>1, <2>2, <2>4, FeedIs
  <2>6. Remembers(dec', gone)
    BY <2>1, <2>3, <2>5, FedRemembers
  <2>7. Remembers(dec, gone)'
    BY <1>b, <1>e, <2>6
  <2> QED
    BY <1>0, <1>e, <2>7 DEF MemoryInv
\* Tokens are fed while the unit is generated.
<1>f. ASSUME NEW f \in Speeches, dec' = Feed(dec, dec.next, f), UNCHANGED <<mode, gone>>
      PROVE  Remembers(dec, gone)'
  <2>1. f \in Nat
    BY LengthAssumption
  <2>2. Fed(dec', dec, dec.next, f)
    BY <1>0, <1>f, <2>1, FeedIs
  <2>3. Remembers(dec', gone)
    BY <1>0, <2>2, FedRemembers
  <2> QED
    BY <1>b, <1>f, <2>3
<1>1. ASSUME NEW p \in Prefixes, NEW s \in Suffixes, Prepare(p, s)
      PROVE  MemoryInv'
  <2>1. dec' = Prepared(p, s) /\ pending' = NotPending /\ gone' = <<>> /\ mode' = mode
    BY <1>1 DEF Prepare
  <2>2. dec'.units = <<>> /\ dec'.has = FALSE /\ dec'.previous = <<>>
    BY <2>1, PreparedEmpty
  <2> QED
    BY <1>d, <2>1, <2>2
<1>2. ASSUME NEW p \in Prefixes, NEW s \in Suffixes, Update(p, s)
      PROVE  MemoryInv'
  <2>1. p \in Nat /\ s \in Nat
    BY LengthAssumption
  <2>2. mode' = mode /\ pending' = NotPending
    BY <1>2 DEF Update
  <2>3. \E d : /\ Sound(d, mode) /\ dec' = Updated(d, p, s) /\ Remembers(d, gone')
    <3>1. CASE pending.on
      <4>1. PICK n \in 0..Len(Closed.units) :
              /\ Evicts(Closed, n)
              /\ dec' = Updated(Enforced(Closed, n), p, s)
              /\ gone' = gone \o Leaving(Closed, n)
        BY <1>2, <3>1 DEF Update
      <4>2. /\ Sound(Enforced(Closed, n), mode)
            /\ Remembers(Enforced(Closed, n), gone \o Leaving(Closed, n))
        BY <1>c, <3>1, <4>1
      <4> QED
        BY <4>1, <4>2
    <3>2. CASE ~pending.on
      <4>1. dec' = Updated(dec, p, s) /\ gone' = gone
        BY <1>2, <3>2 DEF Update
      <4> QED
        BY <1>0, <4>1
    <3> QED
      BY <3>1, <3>2
  <2>4. PICK d : Sound(d, mode) /\ dec' = Updated(d, p, s) /\ Remembers(d, gone')
    BY <2>3
  <2>5. dec'.units = d.units /\ dec'.has = d.has /\ dec'.previous = d.previous
    BY <2>1, <2>4, UpdatedSound DEF Reheaded
  <2>6. Remembers(dec', gone')
    BY <2>4, <2>5, RemembersAlike
  <2>7. Remembers(dec, gone)'
    BY <1>b, <2>2, <2>6
  <2> QED
    BY <1>a, <2>2, <2>7 DEF MemoryInv
<1>3. ASSUME NEW n \in Inputs, Prefill(n)
      PROVE  MemoryInv'
  BY <1>3, <1>e, LengthAssumption DEF Prefill
<1>4. ASSUME NEW n \in Inputs \cup {0}, PrefillShort(n)
      PROVE  MemoryInv'
  BY <1>4, <1>e, LengthAssumption DEF PrefillShort
<1>5. ASSUME NEW f \in Speeches, NEW said \in 0..f, NEW listen \in BOOLEAN,
             Generate(f, said, listen)
      PROVE  MemoryInv'
  <2>1. /\ MaySay(f, said, listen) /\ dec' = Feed(dec, dec.next, f)
        /\ pending' = [on |-> TRUE, said |-> said, listen |-> listen]
        /\ mode' = mode /\ gone' = gone
    BY <1>5 DEF Generate
  <2>2. listen => said = 0
    <3>1. said \in Nat
      BY LengthAssumption
    <3> QED
      BY <2>1, <3>1 DEF MaySay
  <2>3. Remembers(dec, gone)'
    BY <1>f, <2>1
  <2> QED
    BY <2>1, <2>2, <2>3 DEF MemoryInv
<1>6. ASSUME NEW f \in Speeches, GenerateRaises(f)
      PROVE  MemoryInv'
  <2>1. dec' = Feed(dec, dec.next, f) /\ mode' = mode /\ gone' = gone /\ pending' = pending
    BY <1>6 DEF GenerateRaises
  <2> QED
    BY <1>0, <1>f, <2>1 DEF MemoryInv
<1>7. ASSUME NEW n \in 0..Len(Closed.units), Finalize(n)
      PROVE  MemoryInv'
  <2>1. /\ pending.on /\ Evicts(Closed, n) /\ dec' = Enforced(Closed, n)
        /\ gone' = gone \o Leaving(Closed, n) /\ pending' = NotPending /\ mode' = mode
    BY <1>7 DEF Finalize
  <2>2. Remembers(Enforced(Closed, n), gone \o Leaving(Closed, n))
    BY <1>c, <2>1
  <2>3. Remembers(dec, gone)'
    BY <1>b, <2>1, <2>2
  <2> QED
    BY <1>a, <2>1, <2>3 DEF MemoryInv
<1>8. ASSUME FinalizeRaises
      PROVE  MemoryInv'
  <2>1. /\ pending.on /\ mode = "context" /\ Evicts(Closed, 1) /\ dec' = Forget(Closed)
        /\ gone' = gone \o Leaving(Closed, 1) /\ pending' = pending /\ mode' = mode
    BY <1>8 DEF FinalizeRaises
  <2>2. Settled(Closed, mode, MaxUnits + 1) /\ Remembers(Closed, gone)
    BY <2>1, ClosedIs, ClosedRemembers
  <2>3. Leaving(Closed, 1) = Said(Closed.units[1])
    BY <2>1 DEF Leaving
  <2> DEFINE d == Closed
  <2> HIDE DEF d
  <2>4. d \in Decoder /\ Ordered(d) /\ Len(d.units) \in Nat /\ Len(d.units) >= 1
    BY <2>1, <2>2 DEF Settled, Sound, Decoder, Evicts, d
  <2>5. Remembers(Forget(d), gone \o Said(d.units[1]))
    BY <1>0, <2>1, <2>2, <2>4, ForgetRemembers DEF d
  <2>6. Remembers(dec, gone)'
    BY <1>b, <2>1, <2>3, <2>5 DEF d
  <2> QED
    BY <1>0, <2>1, <2>6 DEF MemoryInv
<1>9. CASE Stop
  <2>1. UNCHANGED <<mode, dec, pending, gone>>
    BY <1>9 DEF Stop
  <2> QED
    BY <1>0, <1>b, <2>1 DEF MemoryInv
<1>10. CASE Cleanup
  <2>1. dec' = Empty /\ pending' = NotPending /\ gone' = <<>> /\ mode' = mode
    BY <1>10 DEF Cleanup
  <2>2. dec'.units = <<>> /\ dec'.has = FALSE /\ dec'.previous = <<>>
    BY <2>1 DEF Empty
  <2> QED
    BY <1>d, <2>1, <2>2
<1>11. CASE UNCHANGED vars
  <2>1. UNCHANGED <<mode, dec, pending, gone>>
    BY <1>11 DEF vars
  <2> QED
    BY <1>0, <1>b, <2>1 DEF MemoryInv
<1>12. ASSUME NEW p \in Prefixes, NEW s \in Suffixes, PrepareRaises(p, s)
       PROVE  MemoryInv'
  <2>1. pending' = NotPending /\ gone' = <<>> /\ mode' = mode
    BY <1>12 DEF PrepareRaises
  <2>2. dec'.units = <<>> /\ dec'.has = FALSE /\ dec'.previous = <<>>
    BY <1>12, PrepareRaisesSound
  <2> QED
    BY <1>d, <2>1, <2>2
<1> QED
  BY <1>1, <1>2, <1>3, <1>4, <1>5, <1>6, <1>7, <1>8, <1>9, <1>10, <1>11, <1>12 DEF Next
-----------------------------------------------------------------------------
(***************************************************************************)
(* The theorems.                                                           *)
(***************************************************************************)

\* Every field of the decoder and of the session keeps its type: no length is
\* ever negative, whatever is dropped (duplex.py, stream_decoder.py).
THEOREM TypeCorrect == Spec => []TypeOK
<1>1. IInv => TypeOK
  BY DEF IInv
<1> QED
  BY <1>1, Invariance, PTL

\* Every token of the cache is encoded with the position it has, for every window
\* and every prompt (realign_rotary_suffix, _rebuild_cache_with_previous).
THEOREM PositionsAlwaysExact == Spec => []PositionsExact
<1>1. IInv => PositionsExact
  BY DEF IInv, Sound, Exact, PositionsExact
<1> QED
  BY <1>1, Invariance, PTL

\* Unless the last prepare() raised half way, which may leave a prompt in the cache
\* that was never registered, the prompt is never evicted and nothing else is taken
\* for it (_system_preserve_length).
THEOREM PromptIsProtected == Spec => []PromptProtected
<1>1. IInv => PromptProtected
  BY DEF IInv, Sound, Guarded, PromptProtected
<1> QED
  BY <1>1, Invariance, PTL

\* In context mode the lengths of prefix, previous content and suffix always add up
\* to the prompt's, and the prompt is those three unless the last prepare() raised
\* half way.
THEOREM LayoutAlwaysKept == Spec => []ContextLayout
<1>1. IInv => ContextLayout
  BY DEF IInv, Sound, Parted, InOrder, ContextLayout
<1> QED
  BY <1>1, Invariance, PTL

\* No cut is ever longer than the cache: the units of the history fit behind the
\* prompt, even after a call has given a unit up or a rebuild has failed, and where
\* a prompt was registered and not fed to its end no more than the shortest unit is
\* missing, which the first rebuild gives up.
THEOREM UnitsAlwaysFit == Spec => []UnitsFit
<1>1. IInv => UnitsFit
  <2> SUFFICES ASSUME IInv
               PROVE  UnitsFit
    OBVIOUS
  <2>1. Sound(dec, mode) /\ (logits \/ pending.on => Ready(dec, mode, 2))
    BY DEF IInv
  <2>2. /\ Len(dec.cache) \in Nat /\ dec.preserve \in Nat /\ Total(dec) \in Nat
        /\ dec.preserve + Total(dec) <= Len(dec.cache) + Lack(dec, mode)
        /\ dec.halfway \in BOOLEAN /\ ShortestUnit \in Nat
    BY <2>1, SoundLengths
  <2>3. dec.preserve + Total(dec) <=
          Len(dec.cache) + (IF dec.halfway THEN ShortestUnit ELSE 0)
    <3> DEFINE lack == Lack(dec, mode)
    <3>1. /\ lack = 0 \/ lack = ShortestUnit
          /\ ~dec.halfway => lack = 0
      BY DEF Lack
    <3>2. dec.preserve + Total(dec) <= Len(dec.cache) + lack
      BY <2>2
    <3> HIDE DEF lack
    <3>3. CASE dec.halfway
      BY <2>2, <3>1, <3>2, <3>3
    <3>4. CASE ~dec.halfway
      BY <2>2, <3>1, <3>2, <3>4
    <3> QED
      BY <3>3, <3>4
  <2>4. pending.on \/ logits => dec.start <= Len(dec.cache)
    BY <2>1, ReadyWithin
  <2> QED
    BY <2>3, <2>4 DEF UnitsFit
<1> QED
  BY <1>1, Invariance, PTL

\* The context window holds at most MaxUnits units, so that its loop never has
\* more than one to drop (enforce_window_with_context).
THEOREM UnitsAlwaysBounded == Spec => []UnitsBounded
<1>1. IInv => UnitsBounded
  BY DEF IInv
<1> QED
  BY <1>1, Invariance, PTL

\* As long as no call, of prepare() on, gives a prompt or a unit up half way, the
\* cache is the prompt and the units of the history, each where its length says:
\* _verify_consistency finds no error, and a drop takes the tokens of the units it
\* drops.
THEOREM UnitsStayAligned == Spec => []UnitsAligned
<1>1. AlignInv => UnitsAligned
  BY DEF AlignInv, Aligned, UnitsInPlace, UnitsAligned, VerifyConsistency
<1> QED
  BY <1>1, AlwaysAligned, PTL

\* Once a unit is finalized in basic mode the cache is below the high mark or
\* holds the prompt alone (enforce_window).
THEOREM WindowAlwaysBounded == Spec => WindowBounded
<1>1. IInv /\ AlignInv => [WindowBoundedStep]_vars
  BY FinalizeBounds
<1> QED
  BY <1>1, AlwaysAligned, PTL DEF WindowBounded

\* The previous content is the last PreviousMax tokens of all that was said in the
\* units that have left the window, and is there just when something was
\* (_drop_unit_with_context, _update_previous), provided that a unit ends listening
\* only where nothing was said before in it: what a listening unit said is lost.
THEOREM MemoryIsKept ==
  ASSUME ~EarlyEnds
  PROVE  Spec => []MemoryKept
<1>1. Init => IInv /\ MemoryInv
  BY InitIInv, InitMemory
<1>2. IInv /\ MemoryInv /\ [Next]_vars => (IInv /\ MemoryInv)'
  BY StepIInv, StepMemory
<1>3. MemoryInv => MemoryKept
  BY DEF MemoryInv, Remembers, MemoryKept
<1> QED
  BY <1>1, <1>2, <1>3, PTL DEF Spec
=============================================================================
