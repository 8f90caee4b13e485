------------------------ MODULE StreamingSessionProofs ------------------------
(***************************************************************************)
(* Proofs about the session on the model (StreamingSession): the window    *)
(* over rounds, the system prompt, and the snapshot, for every window and  *)
(* every length of messages and answers.                                   *)
(***************************************************************************)
EXTENDS StreamingSession, SequenceTheorems, WellFoundedInduction, TLAPS

-----------------------------------------------------------------------------
(***************************************************************************)
(* Induction and recursion over the natural numbers, for sets and          *)
(* functions.                                                              *)
(***************************************************************************)
Below == OpToRel(<, Nat)

\* Every set of natural numbers has a least member, if it has any.
LEMMA LeastMember ==
  ASSUME NEW T \in SUBSET Nat, T # {}
  PROVE  \E x \in T : \A y \in T : x <= y
<1>1. IsWellFoundedOn(Below, Nat)
  BY NatLessThanWellFounded DEF Below
<1>2. \E x \in T : \A y \in T : ~ (<<y, x>> \in Below)
  BY <1>1, WFMin
<1>3. \A x, y \in Nat : <<x, y>> \in Below <=> x < y
  BY DEF Below, OpToRel
<1>4. PICK x \in T : \A y \in T : ~ (<<y, x>> \in Below)
  BY <1>2
<1>5. ASSUME NEW y \in T PROVE x <= y
  <2>1. x \in Nat /\ y \in Nat /\ ~ (<<y, x>> \in Below)
    BY <1>4
  <2>2. ~ (y < x)
    BY <1>3, <2>1
  <2> QED
    BY <2>1, <2>2
<1> QED
  BY <1>5

\* What holds of 0 and of the successor of each number it holds of, up to a limit,
\* holds up to that limit.
LEMMA RangeInduction ==
  ASSUME NEW N \in Nat, NEW T, 0 \in T, \A n \in 0 .. N - 1 : n \in T => n + 1 \in T
  PROVE  \A n \in 0 .. N : n \in T
<1>1. SUFFICES ASSUME (0 .. N) \ T # {} PROVE FALSE
  OBVIOUS
<1>2. PICK m \in (0 .. N) \ T : \A y \in (0 .. N) \ T : m <= y
  <2> DEFINE U == (0 .. N) \ T
  <2>1. U \in SUBSET Nat /\ U # {}
    BY <1>1
  <2> HIDE DEF U
  <2>2. \E x \in U : \A y \in U : x <= y
    BY <2>1, LeastMember
  <2> QED
    BY <2>2 DEF U
<1>3. m # 0
  OBVIOUS
<1>4. m - 1 \in 0 .. N - 1 /\ m - 1 + 1 = m /\ m - 1 \in 0 .. N /\ ~ (m <= m - 1)
  BY <1>3
<1>5. m - 1 \in T
  BY <1>2, <1>4
<1> QED
  BY <1>4, <1>5

Recursive(f, S, base, N, G) ==
  /\ f \in [0 .. N -> S] /\ f[0] = base
  /\ \A n \in 1 .. N : f[n] = G[<<f[n - 1], n>>]

\* A step on the values of a set, taken N times, defines a function.
LEMMA Recursion ==
  ASSUME NEW S, NEW base \in S, NEW N \in Nat, NEW G \in [S \X (1 .. N) -> S]
  PROVE  \E f : Recursive(f, S, base, N, G)
<1> USE DEF Recursive
<1> DEFINE Defines(f, k) == /\ f \in [0 .. k -> S] /\ f[0] = base
                         /\ \A n \in 1 .. k : f[n] = G[<<f[n - 1], n>>]
           T == {k \in Nat : \E f : Defines(f, k)}
<1>1. 0 \in T
  <2>1. Defines([n \in 0 .. 0 |-> base], 0)
    OBVIOUS
  <2> QED
    BY <2>1
<1>2. ASSUME NEW k \in 0 .. N - 1, k \in T PROVE k + 1 \in T
  <2>1. PICK f : Defines(f, k)
    BY <1>2
  <2> DEFINE new == G[<<f[k], k + 1>>]
             g == [n \in 0 .. k + 1 |-> IF n = k + 1 THEN new ELSE f[n]]
  <2>2. /\ k + 1 \in Nat /\ k + 1 \in 1 .. N /\ k \in 0 .. k /\ k + 1 - 1 = k
        /\ \A n \in 0 .. k + 1 : n # k + 1 => n \in 0 .. k
        /\ \A n \in 1 .. k + 1 : n - 1 \in 0 .. k + 1 /\ n - 1 # k + 1
                                 /\ n \in 0 .. k + 1 /\ (n # k + 1 => n \in 1 .. k)
        /\ 0 \in 0 .. k + 1 /\ 0 # k + 1
    OBVIOUS
  <2>3. new \in S
    BY <2>1, <2>2
  <2> HIDE DEF new
  <2>4. g \in [0 .. k + 1 -> S] /\ g[0] = base
    BY <2>1, <2>2, <2>3
  <2>5. ASSUME NEW n \in 1 .. k + 1 PROVE g[n] = G[<<g[n - 1], n>>]
    <3>1. g[n - 1] = f[n - 1]
      BY <2>2
    <3>2. CASE n = k + 1
      <4>1. g[n] = new /\ g[n - 1] = f[k]
        BY <2>2, <3>1, <3>2
      <4> QED
        BY <3>2, <4>1 DEF new
    <3>3. CASE n # k + 1
      <4>1. g[n] = f[n] /\ n \in 1 .. k
        BY <2>2, <3>3
      <4> QED
        BY <2>1, <3>1, <4>1
    <3> QED
      BY <3>2, <3>3
  <2>6. Defines(g, k + 1)
    BY <2>4, <2>5
  <2> QED
    BY <2>2, <2>6
<1>3. N \in T
  <2> HIDE DEF T
  <2>1. \A n \in 0 .. N : n \in T
    BY <1>1, <1>2, RangeInduction
  <2> QED
    BY <2>1
<1> QED
  BY <1>3

-----------------------------------------------------------------------------
(***************************************************************************)
(* The history's lengths.                                                  *)
(***************************************************************************)
LEMMA SumsAre ==
  ASSUME NEW h \in Seq(EntryType)
  PROVE  /\ Sums(h) \in [0 .. Len(h) -> Nat] /\ Sums(h)[0] = 0
         /\ \A n \in 1 .. Len(h) : Sums(h)[n] = Sums(h)[n - 1] + h[n].len
<1> DEFINE N == Len(h)
           G == [p \in Nat \X (1 .. N) |-> p[1] + h[p[2]].len]
           Eq(f) == f = [n \in 0 .. N |-> IF n = 0 THEN 0 ELSE f[n - 1] + h[n].len]
           g == Sums(h)
<1>1. N \in Nat /\ \A n \in 1 .. N : h[n].len \in Nat
  <2>1. \A n \in 1 .. N : h[n] \in EntryType
    OBVIOUS
  <2>2. \A e \in EntryType : e.len \in Nat
    BY DEF EntryType
  <2> QED
    BY <2>1, <2>2
<1>2. G \in [Nat \X (1 .. N) -> Nat]
  BY <1>1
<1>3. \A n \in 0 .. N : n # 0 => n \in 1 .. N /\ n - 1 \in 0 .. N
  BY <1>1
<1>4. PICK f : Recursive(f, Nat, 0, N, G)
  <2> HIDE DEF G, N
  <2> QED
    BY <1>1, <1>2, 0 \in Nat, Recursion, Zenon
<1>5. Eq(f)
  <2>1. ASSUME NEW n \in 1 .. N PROVE f[n] = f[n - 1] + h[n].len
    <3>1. f[n - 1] \in Nat
      BY <1>3, <1>4 DEF Recursive
    <3>2. G[<<f[n - 1], n>>] = f[n - 1] + h[n].len
      BY <3>1
    <3> HIDE DEF G, N
    <3> QED
      BY <1>4, <3>2 DEF Recursive
  <2>2. f[0] = 0 /\ f = [n \in 0 .. N |-> f[n]]
    BY <1>4 DEF Recursive
  <2> HIDE DEF N, G
  <2> QED
    BY <1>3, <2>1, <2>2
<1>6. Eq(g)
  <2>1. g = CHOOSE x : Eq(x)
    BY DEF Sums
  <2> HIDE DEF g, Eq
  <2> QED
    BY <1>5, <2>1
<1> HIDE DEF g, N
<1>7. g[0] = 0 /\ \A n \in 1 .. N : g[n] = g[n - 1] + h[n].len
  <2>1. 0 \in 0 .. N /\ \A n \in 1 .. N : n \in 0 .. N /\ n # 0
    BY <1>1
  <2> QED
    BY <1>6, <2>1
<1>8. \A n \in 0 .. N : g[n] \in Nat
  <2> DEFINE T == {n \in Nat : g[n] \in Nat}
  <2>1. 0 \in T
    BY <1>7
  <2>2. ASSUME NEW n \in 0 .. N - 1, n \in T PROVE n + 1 \in T
    <3>1. n + 1 \in 1 .. N /\ n + 1 - 1 = n /\ n + 1 \in Nat
      BY <1>1
    <3>2. g[n + 1] = g[n] + h[n + 1].len
      BY <1>7, <3>1
    <3> QED
      BY <1>1, <2>2, <3>1, <3>2
  <2>3. \A n \in 0 .. N : n \in T
    <3> HIDE DEF T
    <3> QED
      BY <1>1, <2>1, <2>2, RangeInduction
  <2> QED
    BY <2>3
<1>9. g \in [0 .. N -> Nat]
  BY <1>6, <1>8
<1> QED
  BY <1>7, <1>9 DEF g, N

LEMMA LensIsNat == ASSUME NEW h \in Seq(EntryType) PROVE Lens(h) \in Nat
<1>1. Len(h) \in 0 .. Len(h)
  OBVIOUS
<1> QED
  BY <1>1, SumsAre DEF Lens

LEMMA LensEmpty == Lens(<<>>) = 0
<1>1. <<>> \in Seq(EntryType) /\ Len(<<>>) = 0
  OBVIOUS
<1> QED
  BY <1>1, SumsAre DEF Lens

\* An entry adds its length.
LEMMA LensAppend ==
  ASSUME NEW h \in Seq(EntryType), NEW e \in EntryType
  PROVE  Lens(Append(h, e)) = Lens(h) + e.len
<1> DEFINE N == Len(h)
           a == Append(h, e)
           T == {n \in Nat : Sums(a)[n] = Sums(h)[n]}
<1>1. /\ N \in Nat /\ a \in Seq(EntryType) /\ Len(a) = N + 1
      /\ a[N + 1] = e /\ \A n \in 1 .. N : a[n] = h[n]
  OBVIOUS
<1> HIDE DEF a, N
<1>2. Sums(a)[0] = 0 /\ \A n \in 1 .. N + 1 : Sums(a)[n] = Sums(a)[n - 1] + a[n].len
  BY <1>1, SumsAre
<1>3. Sums(h)[0] = 0 /\ \A n \in 1 .. N : Sums(h)[n] = Sums(h)[n - 1] + h[n].len
  BY SumsAre DEF N
<1>4. 0 \in T
  BY <1>2, <1>3
<1>5. ASSUME NEW n \in 0 .. N - 1, n \in T PROVE n + 1 \in T
  <2>1. n + 1 \in 1 .. N /\ n + 1 \in 1 .. N + 1 /\ n + 1 - 1 = n /\ n + 1 \in Nat
    BY <1>1
  <2>2. Sums(a)[n + 1] = Sums(a)[n] + a[n + 1].len
    BY <1>2, <2>1
  <2>3. Sums(h)[n + 1] = Sums(h)[n] + h[n + 1].len
    BY <1>3, <2>1
  <2> QED
    BY <1>1, <1>5, <2>1, <2>2, <2>3
<1>6. \A n \in 0 .. N : n \in T
  <2> HIDE DEF T
  <2> QED
    BY <1>1, <1>4, <1>5, RangeInduction
<1>7. Sums(a)[N] = Sums(h)[N]
  BY <1>1, <1>6
<1>8. Sums(a)[N + 1] = Sums(a)[N] + e.len
  <2>1. N + 1 \in 1 .. N + 1 /\ N + 1 - 1 = N
    BY <1>1
  <2> QED
    BY <1>1, <1>2, <2>1
<1>9. Lens(a) = Sums(a)[N + 1] /\ Lens(h) = Sums(h)[N]
  BY <1>1 DEF Lens, N
<1> QED
  BY <1>7, <1>8, <1>9 DEF a

\* The recursion of Selected: the entries of other rounds are left out.
LEMMA SelectedAre ==
  ASSUME NEW h \in Seq(EntryType), NEW R
  PROVE  LET k == Selected(h, R) IN
         /\ k[0] = <<>> /\ \A n \in 0 .. Len(h) : k[n] \in Seq(EntryType)
         /\ \A n \in 1 .. Len(h) :
              k[n] = IF h[n].round \in R THEN Append(k[n - 1], h[n]) ELSE k[n - 1]
<1> DEFINE N == Len(h)
           S == Seq(EntryType)
           G == [p \in S \X (1 .. N) |->
                   IF h[p[2]].round \in R THEN Append(p[1], h[p[2]]) ELSE p[1]]
           Eq(f) == f = [n \in 0 .. N |->
                           IF n = 0 THEN <<>>
                           ELSE IF h[n].round \in R THEN Append(f[n - 1], h[n]) ELSE f[n - 1]]
           g == Selected(h, R)
<1>1. N \in Nat /\ (\A n \in 1 .. N : h[n] \in EntryType) /\ <<>> \in S
  OBVIOUS
<1>2. G \in [S \X (1 .. N) -> S]
  BY <1>1
<1>3. \A n \in 0 .. N : n # 0 => n \in 1 .. N /\ n - 1 \in 0 .. N
  BY <1>1
<1>4. PICK f : Recursive(f, S, <<>>, N, G)
  <2> HIDE DEF G, N, S
  <2> QED
    BY <1>1, <1>2, Recursion, Zenon
<1>5. Eq(f)
  <2>1. ASSUME NEW n \in 1 .. N
        PROVE  f[n] = IF h[n].round \in R THEN Append(f[n - 1], h[n]) ELSE f[n - 1]
    <3>1. f[n - 1] \in S
      <4> HIDE DEF S
      <4> QED
        BY <1>3, <1>4 DEF Recursive
    <3>2. G[<<f[n - 1], n>>]
            = IF h[n].round \in R THEN Append(f[n - 1], h[n]) ELSE f[n - 1]
      <4> HIDE DEF S, N
      <4> QED
        BY <3>1
    <3> HIDE DEF G, N, S
    <3> QED
      BY <1>4, <3>2 DEF Recursive
  <2> HIDE DEF S, G
  <2>2. f[0] = <<>> /\ f = [n \in 0 .. N |-> f[n]]
    BY <1>4 DEF Recursive
  <2> HIDE DEF N
  <2> QED
    BY <1>3, <2>1, <2>2
<1>6. Eq(g)
  <2>1. g = CHOOSE x : Eq(x)
    BY DEF Selected
  <2> HIDE DEF g, Eq
  <2> QED
    BY <1>5, <2>1
<1> HIDE DEF g, N, S, G
<1>7. /\ g[0] = <<>>
      /\ \A n \in 1 .. N :
           g[n] = IF h[n].round \in R THEN Append(g[n - 1], h[n]) ELSE g[n - 1]
  <2>1. 0 \in 0 .. N /\ \A n \in 1 .. N : n \in 0 .. N /\ n # 0
    BY <1>1
  <2> QED
    BY <1>6, <2>1
<1>8. \A n \in 0 .. N : g[n] \in S
  <2> DEFINE T == {n \in Nat : g[n] \in S}
  <2>1. 0 \in T
    BY <1>1, <1>7
  <2>2. ASSUME NEW n \in 0 .. N - 1, n \in T PROVE n + 1 \in T
    <3>1. n + 1 \in 1 .. N /\ n + 1 - 1 = n /\ n + 1 \in Nat
      BY <1>1
    <3>2. g[n + 1] = IF h[n + 1].round \in R THEN Append(g[n], h[n + 1]) ELSE g[n]
      BY <1>7, <3>1
    <3>3. \A s \in S, e \in EntryType : Append(s, e) \in S
      BY DEF S
    <3>4. g[n + 1] \in S
      BY <1>1, <2>2, <3>1, <3>2, <3>3
    <3> QED
      BY <3>1, <3>4
  <2>3. \A n \in 0 .. N : n \in T
    <3> HIDE DEF T
    <3> QED
      BY <1>1, <2>1, <2>2, RangeInduction
  <2> QED
    BY <2>3
<1> QED
  BY <1>7, <1>8 DEF g, N, S

\* A round and the rest of the history have its tokens between them.
LEMMA LensSplit ==
  ASSUME NEW h \in Seq(EntryType), NEW r \in Nat
  PROVE  /\ OfRound(h, r) \in Seq(EntryType) /\ Without(h, r) \in Seq(EntryType)
         /\ Lens(OfRound(h, r)) + Lens(Without(h, r)) = Lens(h)
<1> DEFINE N == Len(h)
           S == Seq(EntryType)
           k == Selected(h, {r})
           l == Selected(h, Nat \ {r})
           s == Sums(h)
           T == {n \in Nat : Lens(k[n]) + Lens(l[n]) = s[n]}
<1>1. N \in Nat /\ (\A n \in 1 .. N : h[n] \in EntryType) /\ N \in 0 .. N
  OBVIOUS
<1>2. \A e \in EntryType : e.round \in Nat /\ e.len \in Nat
  BY DEF EntryType
<1>3. /\ k[0] = <<>> /\ \A n \in 0 .. N : k[n] \in S
      /\ \A n \in 1 .. N : k[n] = IF h[n].round \in {r} THEN Append(k[n - 1], h[n]) ELSE k[n - 1]
  BY SelectedAre
<1>4. /\ l[0] = <<>> /\ \A n \in 0 .. N : l[n] \in S
      /\ \A n \in 1 .. N : l[n] = IF h[n].round \in Nat \ {r} THEN Append(l[n - 1], h[n])
                                  ELSE l[n - 1]
  BY SelectedAre
<1>5. s[0] = 0 /\ \A n \in 1 .. N : s[n] = s[n - 1] + h[n].len
  BY SumsAre
<1>6. \A a \in S, e \in EntryType : Lens(Append(a, e)) = Lens(a) + e.len
  BY LensAppend
<1>7. \A a \in S : Lens(a) \in Nat
  BY LensIsNat
<1> HIDE DEF N, S, k, l, s
<1>8. 0 \in T
  BY <1>3, <1>4, <1>5, LensEmpty
<1>9. ASSUME NEW n \in 0 .. N - 1, n \in T PROVE n + 1 \in T
  <2>1. n + 1 \in 1 .. N /\ n + 1 - 1 = n /\ n + 1 \in Nat /\ n \in 0 .. N
    BY <1>1
  <2>2. h[n + 1] \in EntryType /\ k[n] \in S /\ l[n] \in S
    BY <1>1, <1>3, <1>4, <2>1
  <2>3. /\ s[n + 1] = s[n] + h[n + 1].len
        /\ k[n + 1] = IF h[n + 1].round \in {r} THEN Append(k[n], h[n + 1]) ELSE k[n]
        /\ l[n + 1] = IF h[n + 1].round \in Nat \ {r} THEN Append(l[n], h[n + 1]) ELSE l[n]
    BY <1>3, <1>4, <1>5, <2>1
  <2>4. Lens(k[n]) \in Nat /\ Lens(l[n]) \in Nat /\ h[n + 1].len \in Nat /\ h[n + 1].round \in Nat
    BY <1>2, <1>7, <2>2
  <2>5. Lens(k[n]) + Lens(l[n]) = s[n]
    BY <1>9
  <2>6. /\ Lens(Append(k[n], h[n + 1])) = Lens(k[n]) + h[n + 1].len
        /\ Lens(Append(l[n], h[n + 1])) = Lens(l[n]) + h[n + 1].len
    BY <1>6, <2>2
  <2>7. CASE h[n + 1].round = r
    <3>1. k[n + 1] = Append(k[n], h[n + 1]) /\ l[n + 1] = l[n]
      BY <2>3, <2>7
    <3> QED
      BY <2>1, <2>3, <2>4, <2>5, <2>6, <3>1
  <2>8. CASE h[n + 1].round # r
    <3>1. k[n + 1] = k[n] /\ l[n + 1] = Append(l[n], h[n + 1])
      BY <2>3, <2>4, <2>8
    <3> QED
      BY <2>1, <2>3, <2>4, <2>5, <2>6, <3>1
  <2> QED
    BY <2>7, <2>8
<1>10. \A n \in 0 .. N : n \in T
  <2> HIDE DEF T
  <2> QED
    BY <1>1, <1>8, <1>9, RangeInduction
<1>11. k[N] \in S /\ l[N] \in S /\ Lens(k[N]) + Lens(l[N]) = s[N]
  BY <1>1, <1>3, <1>4, <1>10
<1> QED
  BY <1>11 DEF k, l, s, N, S, OfRound, Without, OfRounds, Lens

-----------------------------------------------------------------------------
(***************************************************************************)
(* What makes the session's state in the model sound, t turns into the     *)
(* behaviour: the history claims no more tokens than there are; every      *)
(* token is of a turn so far; and the tokens of the prompt are among those *)
(* that are preserved, of which there are some once there is any system    *)
(* message.                                                                *)
(***************************************************************************)
PromptInside(m) ==
  \A i \in DOMAIN m.cache :
    m.cache[i].who = "system" =>
      /\ m.preserve > 0
      /\ m.cache[i].turn = m.cache[1].turn => i <= m.preserve

Sound(m, t) ==
  /\ m \in ModelType
  /\ gained \in Nat
  /\ Lens(m.history) <= Len(m.cache) + gained
  /\ \A i \in DOMAIN m.cache : m.cache[i].turn <= t
  /\ PromptInside(m)

\* A state in the model that has other tokens, entries or preserved length.
With(m, cache, history, preserve) ==
  [m EXCEPT !.cache = cache, !.history = history, !.preserve = preserve]

SameOutside(m, p) ==
  /\ p.sid = m.sid /\ p.next = m.next /\ p.pending = m.pending
  /\ p.newUser = m.newUser /\ p.generated = m.generated /\ p.audio = m.audio

LEMMA WithIs ==
  ASSUME NEW m \in ModelType, NEW c \in Seq(TokenType), NEW h \in Seq(EntryType), NEW k \in Nat
  PROVE  LET p == With(m, c, h, k) IN
         /\ p \in ModelType /\ p.cache = c /\ p.history = h /\ p.preserve = k
         /\ SameOutside(m, p)
<1> DEFINE C == Seq(TokenType)
           H == Seq(EntryType)
           I == SessionId \cup {NoSession}
           P == Nat \cup {NoRound}
           U == [kv : Nat, idx : Nat]
<1>1. ModelType = [sid : I, cache : C, history : H, preserve : Nat, next : Nat,
                   pending : P, newUser : BOOLEAN, generated : BOOLEAN, audio : U]
  BY DEF ModelType
<1>2. c \in C /\ h \in H
  OBVIOUS
<1> HIDE DEF C, H, I, P, U
<1> QED
  BY <1>1, <1>2 DEF With, SameOutside

LEMMA ModelFields ==
  ASSUME NEW m \in ModelType
  PROVE  /\ m.cache \in Seq(TokenType) /\ m.history \in Seq(EntryType)
         /\ m.preserve \in Nat /\ m.next \in Nat /\ m.pending \in Nat \cup {NoRound}
         /\ m.sid \in SessionId \cup {NoSession}
         /\ m.audio.kv \in Nat /\ m.audio.idx \in Nat
         /\ m.newUser \in BOOLEAN /\ m.generated \in BOOLEAN
  BY DEF ModelType

LEMMA TokenFields ==
  ASSUME NEW c \in Seq(TokenType), NEW i \in 1 .. Len(c)
  PROVE  /\ c[i] \in TokenType /\ c[i].turn \in Nat /\ c[i].turn > 0
         /\ c[i].who \in Types \cup {Stray}
<1>1. c[i] \in TokenType
  OBVIOUS
<1>2. \A e \in TokenType : e.turn \in 1 .. MaxTurns /\ e.who \in Types \cup {Stray}
  BY DEF TokenType
<1>3. \A x \in 1 .. MaxTurns : x \in Nat /\ x > 0
  OBVIOUS
<1> QED
  BY <1>1, <1>2, <1>3

-----------------------------------------------------------------------------
(***************************************************************************)
(* A round is dropped from behind the preserved tokens.                    *)
(***************************************************************************)
LEMMA PartIs ==
  ASSUME NEW S, NEW s \in Seq(S), NEW m \in Nat, NEW n \in Nat, NEW l \in Nat,
         m > 0, n <= Len(s), l = n - m + 1
  PROVE  /\ SubSeq(s, m, n) \in Seq(S) /\ Len(SubSeq(s, m, n)) = l
         /\ \A i \in 1 .. l : SubSeq(s, m, n)[i] = s[m + i - 1]
<1>1. \A i \in m .. n : s[i] \in S
  OBVIOUS
<1>2. /\ SubSeq(s, m, n) \in Seq(S)
      /\ Len(SubSeq(s, m, n)) = IF m <= n THEN n - m + 1 ELSE 0
      /\ \A i \in 1 .. n - m + 1 : SubSeq(s, m, n)[i] = s[m + i - 1]
  BY <1>1, SubSeqProperties
<1> QED
  BY <1>2

LEMMA CutIs ==
  ASSUME NEW c \in Seq(TokenType), NEW k \in Nat, NEW l \in Nat, k + l <= Len(c)
  PROVE  LET d == CutBehind(c, k, l) IN
         /\ d \in Seq(TokenType) /\ Len(d) = Len(c) - l
         /\ \A i \in 1 .. Len(d) : d[i] = IF i <= k THEN c[i] ELSE c[i + l]
<1> DEFINE N == Len(c)
           a == SubSeq(c, 1, k)
           b == SubSeq(c, k + l + 1, N)
           d == CutBehind(c, k, l)
<1>1. N \in Nat /\ k <= N /\ N - l - k \in Nat /\ k + l + 1 \in Nat
  OBVIOUS
<1>3. a \in Seq(TokenType) /\ Len(a) = k /\ \A i \in 1 .. k : a[i] = c[1 + i - 1]
  <2>1. 1 \in Nat /\ 1 > 0 /\ k = k - 1 + 1
    OBVIOUS
  <2> QED
    BY <1>1, <2>1, PartIs
<1>4. /\ b \in Seq(TokenType) /\ Len(b) = N - l - k
      /\ \A i \in 1 .. N - l - k : b[i] = c[k + l + 1 + i - 1]
  <2>1. PICK f \in Nat, n \in Nat : f = k + l + 1 /\ n = N - l - k
    <3> HIDE DEF N
    <3> QED
      BY <1>1
  <2>2. f > 0 /\ n = N - f + 1
    BY <1>1, <2>1
  <2>3. /\ SubSeq(c, f, N) \in Seq(TokenType) /\ Len(SubSeq(c, f, N)) = n
        /\ \A i \in 1 .. n : SubSeq(c, f, N)[i] = c[f + i - 1]
    BY <1>1, <2>2, PartIs
  <2> HIDE DEF N
  <2> QED
    BY <2>1, <2>3
<1>5. d = a \o b
  BY DEF CutBehind
<1> HIDE DEF a, b, d
<1>6. /\ d \in Seq(TokenType) /\ Len(d) = Len(a) + Len(b)
      /\ \A i \in 1 .. Len(a) + Len(b) : d[i] = IF i <= Len(a) THEN a[i] ELSE b[i - Len(a)]
  BY <1>3, <1>4, <1>5, ConcatProperties, Zenon
<1>10. N - l \in Nat /\ k + (N - l - k) = N - l
  BY <1>1
<1> HIDE DEF N
<1>7. Len(d) = N - l /\ \A i \in 1 .. N - l : d[i] = IF i <= k THEN a[i] ELSE b[i - k]
  BY <1>3, <1>4, <1>6, <1>10, Zenon
<1>8. ASSUME NEW i \in 1 .. N - l PROVE d[i] = IF i <= k THEN c[i] ELSE c[i + l]
  <2>1. CASE i <= k
    <3>1. i \in 1 .. k /\ 1 + i - 1 = i
      BY <2>1
    <3>2. a[i] = c[i]
      BY <1>3, <3>1, Zenon
    <3> QED
      BY <1>7, <2>1, <3>2
  <2>2. CASE ~ (i <= k)
    <3>1. i - k \in 1 .. N - l - k /\ k + l + 1 + (i - k) - 1 = i + l
      BY <1>1, <2>2
    <3>2. b[i - k] = c[i + l]
      BY <1>4, <3>1, Zenon
    <3> QED
      BY <1>7, <2>2, <3>2
  <2> QED
    BY <2>1, <2>2
<1>9. d \in Seq(TokenType) /\ Len(d) = N - l
      /\ \A i \in 1 .. Len(d) : d[i] = IF i <= k THEN c[i] ELSE c[i + l]
  BY <1>6, <1>7, <1>8
<1> QED
  BY <1>9 DEF d, N

LEMMA WithTwo ==
  ASSUME NEW m \in ModelType, NEW c, NEW h
  PROVE  [m EXCEPT !.cache = c, !.history = h] = With(m, c, h, m.preserve)
<1> DEFINE C == Seq(TokenType)
           H == Seq(EntryType)
           I == SessionId \cup {NoSession}
           P == Nat \cup {NoRound}
           U == [kv : Nat, idx : Nat]
<1>1. ModelType = [sid : I, cache : C, history : H, preserve : Nat, next : Nat,
                   pending : P, newUser : BOOLEAN, generated : BOOLEAN, audio : U]
  BY DEF ModelType
<1> HIDE DEF C, H, I, P, U
<1> QED
  BY <1>1 DEF With

\* What a drop leaves is part of the same session: it is sound if it was, and
\* has the prompt where it was.
Trimmed(m, p) ==
  /\ p \in ModelType
  /\ SameOutside(m, p) /\ p.preserve = m.preserve
  /\ \A t \in Nat : Sound(m, t) =>
       Sound(p, t) /\ (Prompt(m) # {} => Prompt(p) = Prompt(m))

LEMMA TrimmedTwice ==
  ASSUME NEW m, NEW p, NEW q, Trimmed(m, p), Trimmed(p, q)
  PROVE  Trimmed(m, q)
<1>1. SameOutside(m, q)
  BY DEF Trimmed, SameOutside
<1>2. ASSUME NEW t \in Nat, Sound(m, t)
      PROVE  Sound(q, t) /\ (Prompt(m) # {} => Prompt(q) = Prompt(m))
  <2>1. Sound(p, t) /\ (Prompt(m) # {} => Prompt(p) = Prompt(m))
    BY <1>2 DEF Trimmed
  <2>2. Sound(q, t) /\ (Prompt(p) # {} => Prompt(q) = Prompt(p))
    BY <2>1 DEF Trimmed
  <2> QED
    BY <2>1, <2>2
<1>3. q \in ModelType /\ q.preserve = m.preserve
  BY DEF Trimmed
<1> QED
  BY <1>1, <1>2, <1>3 DEF Trimmed

LEMMA TrimmedNot ==
  ASSUME NEW m \in ModelType
  PROVE  Trimmed(m, m)
  BY DEF Trimmed, SameOutside

LEMMA PromptIs ==
  ASSUME NEW m \in ModelType
  PROVE  /\ \A i \in 1 .. Len(m.cache) :
              m.cache[i].who = "system" /\ m.cache[i].turn = m.cache[1].turn
              <=> <<i, m.cache[i].turn>> \in Prompt(m)
         /\ \A x \in Prompt(m) : \E i \in 1 .. Len(m.cache) :
              /\ m.cache[i].who = "system" /\ m.cache[i].turn = m.cache[1].turn
              /\ x = <<i, m.cache[i].turn>>
<1>1. DOMAIN m.cache = 1 .. Len(m.cache)
  BY ModelFields
<1>2. Prompt(m) = {<<i, m.cache[i].turn>> : i \in {j \in 1 .. Len(m.cache) :
        m.cache[j].who = "system" /\ m.cache[j].turn = m.cache[1].turn}}
  BY <1>1 DEF Prompt
<1> DEFINE N == Len(m.cache)
<1> HIDE DEF N
<1>3. \A i \in 1 .. N : m.cache[i].who = "system" /\ m.cache[i].turn = m.cache[1].turn
                        => <<i, m.cache[i].turn>> \in Prompt(m)
  BY <1>2, Zenon DEF N
<1>4. \A x \in Prompt(m) : \E i \in 1 .. N :
              /\ m.cache[i].who = "system" /\ m.cache[i].turn = m.cache[1].turn
              /\ x = <<i, m.cache[i].turn>>
  BY <1>2, Zenon DEF N
<1>5. ASSUME NEW i \in 1 .. N, <<i, m.cache[i].turn>> \in Prompt(m)
      PROVE  m.cache[i].who = "system" /\ m.cache[i].turn = m.cache[1].turn
  <2>1. PICK j \in 1 .. N :
              /\ m.cache[j].who = "system" /\ m.cache[j].turn = m.cache[1].turn
              /\ <<i, m.cache[i].turn>> = <<j, m.cache[j].turn>>
    BY <1>4, <1>5
  <2>2. i = j
    BY <2>1
  <2> QED
    BY <2>1, <2>2
<1> QED
  BY <1>3, <1>4, <1>5 DEF N

\* Two states have the same prompt if each of its tokens in one is in the other, at
\* the same place.
LEMMA SamePrompt ==
  ASSUME NEW m \in ModelType, NEW p \in ModelType,
         \A i \in 1 .. Len(m.cache) :
           m.cache[i].who = "system" /\ m.cache[i].turn = m.cache[1].turn =>
             i \in 1 .. Len(p.cache) /\ p.cache[i] = m.cache[i] /\ p.cache[1] = m.cache[1],
         \A i \in 1 .. Len(p.cache) :
           p.cache[i].who = "system" /\ p.cache[i].turn = p.cache[1].turn =>
             i \in 1 .. Len(m.cache) /\ p.cache[i] = m.cache[i] /\ p.cache[1] = m.cache[1]
  PROVE  Prompt(p) = Prompt(m)
<1>1. ASSUME NEW x \in Prompt(m) PROVE x \in Prompt(p)
  <2>1. PICK i \in 1 .. Len(m.cache) :
          /\ m.cache[i].who = "system" /\ m.cache[i].turn = m.cache[1].turn
          /\ x = <<i, m.cache[i].turn>>
    BY <1>1, PromptIs
  <2>2. i \in 1 .. Len(p.cache) /\ p.cache[i] = m.cache[i] /\ p.cache[1] = m.cache[1]
    BY <2>1
  <2>3. <<i, p.cache[i].turn>> \in Prompt(p)
    BY <2>1, <2>2, PromptIs
  <2> QED
    BY <2>1, <2>2, <2>3
<1>2. ASSUME NEW x \in Prompt(p) PROVE x \in Prompt(m)
  <2>1. PICK i \in 1 .. Len(p.cache) :
          /\ p.cache[i].who = "system" /\ p.cache[i].turn = p.cache[1].turn
          /\ x = <<i, p.cache[i].turn>>
    BY <1>2, PromptIs
  <2>2. i \in 1 .. Len(m.cache) /\ p.cache[i] = m.cache[i] /\ p.cache[1] = m.cache[1]
    BY <2>1
  <2>3. <<i, m.cache[i].turn>> \in Prompt(m)
    BY <2>1, <2>2, PromptIs
  <2> QED
    BY <2>1, <2>2, <2>3
<1> QED
  BY <1>1, <1>2

\* Cutting tokens from behind the preserved ones.
LEMMA CutKeepsPrompt ==
  ASSUME NEW m \in ModelType, NEW p \in ModelType, NEW l \in Nat,
         p.preserve = m.preserve, Kept(m) + l <= Len(m.cache),
         p.cache = CutBehind(m.cache, Kept(m), l), PromptInside(m)
  PROVE  /\ PromptInside(p)
         /\ Prompt(m) # {} => Prompt(p) = Prompt(m)
         /\ \A t \in Nat : (\A i \in DOMAIN m.cache : m.cache[i].turn <= t) =>
                            \A i \in DOMAIN p.cache : p.cache[i].turn <= t
         /\ Len(p.cache) = Len(m.cache) - l
<1> DEFINE c == m.cache
           d == p.cache
           k == Kept(m)
<1>1. c \in Seq(TokenType) /\ d \in Seq(TokenType) /\ m.preserve \in Nat
  BY ModelFields
<1>2. /\ k \in Nat /\ k <= Len(c) /\ k + l <= Len(c) /\ k <= m.preserve /\ (k < Len(c) => k = m.preserve)
  BY <1>1 DEF Kept
<1>12. d = CutBehind(c, k, l)
  OBVIOUS
<1> HIDE DEF k
<1>3. Len(d) = Len(c) - l /\ \A i \in 1 .. Len(d) : d[i] = IF i <= k THEN c[i] ELSE c[i + l]
  <2> HIDE DEF c, d
  <2> QED
    BY <1>1, <1>2, <1>12, CutIs
<1>4. DOMAIN c = 1 .. Len(c) /\ DOMAIN d = 1 .. Len(d)
  BY <1>1
<1>5. \A i \in 1 .. Len(c) :
        c[i].who = "system" => m.preserve > 0 /\ (c[i].turn = c[1].turn => i <= m.preserve)
  BY <1>4 DEF PromptInside
<1> HIDE DEF c, d
<1>6. \A i \in 1 .. Len(d) : \E j \in 1 .. Len(c) : d[i] = c[j] /\ (i > k => j >= i)
  <2>1. ASSUME NEW i \in 1 .. Len(d) PROVE \E j \in 1 .. Len(c) : d[i] = c[j] /\ (i > k => j >= i)
    <3>1. CASE i <= k
      <4>1. i \in 1 .. Len(c) /\ d[i] = c[i]
        BY <1>1, <1>2, <1>3, <3>1
      <4> QED
        BY <3>1, <4>1
    <3>2. CASE ~ (i <= k)
      <4>1. i + l \in 1 .. Len(c) /\ d[i] = c[i + l] /\ i + l >= i
        BY <1>1, <1>3, <3>2
      <4> QED
        BY <4>1
    <3> QED
      BY <3>1, <3>2
  <2> QED
    BY <2>1
<1>7. (\E i \in 1 .. Len(c) : c[i].who = "system") => \A i \in 1 .. Len(d) : d[1] = c[1] /\ 1 <= k
  <2>1. ASSUME NEW i \in 1 .. Len(c), c[i].who = "system", NEW j \in 1 .. Len(d)
        PROVE  d[1] = c[1] /\ 1 <= k
    <3>1. m.preserve > 0
      BY <1>5, <2>1
    <3>2. 1 <= k
      BY <1>1, <1>2, <3>1
    <3>3. 1 \in 1 .. Len(d)
      OBVIOUS
    <3> QED
      BY <1>3, <3>2, <3>3
  <2> QED
    BY <2>1
<1>8. ASSUME NEW i \in 1 .. Len(d), d[i].who = "system"
      PROVE  m.preserve > 0 /\ d[1] = c[1]
             /\ (d[i].turn = d[1].turn => i <= k /\ i \in 1 .. Len(c) /\ d[i] = c[i])
  <2>1. PICK j \in 1 .. Len(c) : d[i] = c[j] /\ (i > k => j >= i)
    BY <1>6
  <2>2. m.preserve > 0 /\ (c[j].turn = c[1].turn => j <= m.preserve)
    BY <1>5, <1>8, <2>1
  <2>3. d[1] = c[1]
    BY <1>7, <1>8, <2>1
  <2>4. ASSUME d[i].turn = d[1].turn PROVE i <= k /\ i \in 1 .. Len(c) /\ d[i] = c[i]
    <3>1. j <= m.preserve
      BY <2>1, <2>2, <2>3, <2>4
    <3>2. i <= k
      <4>1. CASE i > k
        <5>1. k < Len(c) /\ j >= i
          BY <1>2, <2>1, <4>1
        <5>2. k = m.preserve
          BY <1>2, <5>1
        <5> QED
          BY <1>1, <1>2, <3>1, <4>1, <5>1, <5>2
      <4> QED
        BY <1>2, <4>1
    <3> QED
      BY <1>1, <1>2, <1>3, <3>2
  <2> QED
    BY <2>2, <2>3, <2>4
<1>9. PromptInside(p)
  <2>1. ASSUME NEW i \in 1 .. Len(d), d[i].who = "system"
        PROVE  p.preserve > 0 /\ (d[i].turn = d[1].turn => i <= p.preserve)
    BY <1>1, <1>2, <1>8, <2>1
  <2> QED
    BY <1>4, <2>1 DEF PromptInside, d
<1>10. ASSUME Prompt(m) # {} PROVE Prompt(p) = Prompt(m)
  <2>1. ASSUME NEW i \in 1 .. Len(c), c[i].who = "system", c[i].turn = c[1].turn
        PROVE  i \in 1 .. Len(d) /\ d[i] = c[i] /\ d[1] = c[1]
    <3>1. i <= m.preserve /\ m.preserve > 0
      BY <1>5, <2>1
    <3>2. i <= k
      BY <1>1, <1>2, <3>1
    <3>3. i \in 1 .. Len(d) /\ 1 \in 1 .. Len(d) /\ 1 <= k
      BY <1>1, <1>2, <1>3, <3>2 DEF c
    <3> QED
      BY <1>3, <3>2, <3>3
  <2>2. ASSUME NEW i \in 1 .. Len(d), d[i].who = "system", d[i].turn = d[1].turn
        PROVE  i \in 1 .. Len(c) /\ d[i] = c[i] /\ d[1] = c[1]
    BY <1>8, <2>2
  <2> QED
    BY <2>1, <2>2, SamePrompt DEF c, d
<1>11. ASSUME NEW t \in Nat, \A i \in DOMAIN c : c[i].turn <= t
       PROVE  \A i \in DOMAIN d : d[i].turn <= t
  BY <1>4, <1>6, <1>11
<1> QED
  BY <1>3, <1>9, <1>10, <1>11 DEF c, d

LEMMA DropRoundTrims ==
  ASSUME NEW m \in ModelType, NEW r \in Nat,
         Lens(OfRound(m.history, r)) <= Len(m.cache) - Kept(m)
  PROVE  Trimmed(m, DropRound(m, r))
<1> DEFINE h == m.history
           l == Lens(OfRound(h, r))
           k == Kept(m)
           p == DropRound(m, r)
           d == CutBehind(m.cache, k, l)
<1>1. /\ m.cache \in Seq(TokenType) /\ h \in Seq(EntryType) /\ m.preserve \in Nat
      /\ Len(m.cache) \in Nat
  BY ModelFields
<1>2. k \in Nat /\ k <= Len(m.cache)
  BY <1>1 DEF Kept
<1>3. /\ OfRound(h, r) \in Seq(EntryType) /\ Without(h, r) \in Seq(EntryType)
      /\ l + Lens(Without(h, r)) = Lens(h)
  BY <1>1, LensSplit
<1>4. l \in Nat /\ Lens(Without(h, r)) \in Nat /\ Lens(h) \in Nat
  BY <1>1, <1>3, LensIsNat
<1>5. k + l <= Len(m.cache)
  <2>1. l <= Len(m.cache) - k
    OBVIOUS
  <2> HIDE DEF l, k
  <2> QED
    BY <1>1, <1>2, <1>4, <2>1
<1>6. d \in Seq(TokenType)
  <2> HIDE DEF l, k
  <2> QED
    BY <1>1, <1>2, <1>4, <1>5, CutIs
<1>7. p = With(m, d, Without(h, r), m.preserve)
  <2>1. p = [m EXCEPT !.cache = d, !.history = Without(h, r)]
    BY DEF DropRound
  <2> HIDE DEF d, p, h
  <2> QED
    BY <2>1, WithTwo
<1>8. /\ p \in ModelType /\ p.cache = d /\ p.history = Without(h, r) /\ p.preserve = m.preserve
      /\ SameOutside(m, p)
  <2>1. PICK w \in Seq(EntryType), q \in Nat : w = Without(h, r) /\ q = m.preserve
    BY <1>1, <1>3
  <2> HIDE DEF d, p, h
  <2>2. LET x == With(m, d, w, q) IN
        x \in ModelType /\ x.cache = d /\ x.history = w /\ x.preserve = q /\ SameOutside(m, x)
    BY <1>6, WithIs
  <2>3. p = With(m, d, w, q)
    BY <1>7, <2>1
  <2> QED
    BY <2>1, <2>2, <2>3
<1>9. ASSUME NEW t \in Nat, Sound(m, t)
      PROVE  Sound(p, t) /\ (Prompt(m) # {} => Prompt(p) = Prompt(m))
  <2>1. PromptInside(m) /\ \A i \in DOMAIN m.cache : m.cache[i].turn <= t
    BY <1>9 DEF Sound
  <2>2. p.cache = CutBehind(m.cache, Kept(m), l) /\ Kept(m) + l <= Len(m.cache)
    BY <1>5, <1>8
  <2> HIDE DEF d, p, l, k
  <2>3. /\ PromptInside(p)
        /\ Prompt(m) # {} => Prompt(p) = Prompt(m)
        /\ \A i \in DOMAIN p.cache : p.cache[i].turn <= t
        /\ Len(p.cache) = Len(m.cache) - l
    BY <1>4, <1>8, <2>1, <2>2, CutKeepsPrompt
  <2>4. gained \in Nat /\ Lens(p.history) <= Len(p.cache) + gained
    <3>1. gained \in Nat /\ Lens(h) <= Len(m.cache) + gained
      BY <1>9 DEF Sound
    <3> QED
      BY <1>1, <1>3, <1>4, <1>8, <2>3, <3>1
  <2> QED
    BY <1>8, <2>3, <2>4 DEF Sound
<1> HIDE DEF p
<1> QED
  BY <1>8, <1>9 DEF Trimmed, p

LEMMA DroppedTrims ==
  ASSUME NEW m \in ModelType
  PROVE  Trimmed(m, Dropped(m))
<1> DEFINE D == Droppable(m)
<1>1. CASE Len(m.cache) <= Low \/ D = {}
  BY <1>1, TrimmedNot DEF Dropped
<1>2. CASE ~ (Len(m.cache) <= Low \/ D = {})
  <2> DEFINE first == CHOOSE i \in D : \A j \in D : i <= j
             r == m.history[first].round
  <2>1. Dropped(m) = DropRound(m, r)
    BY <1>2 DEF Dropped, DropNextRound
  <2>2. m.history \in Seq(EntryType) /\ DOMAIN m.history = 1 .. Len(m.history)
    BY ModelFields
  <2>3. D \in SUBSET Nat /\ D # {}
    BY <1>2, <2>2 DEF Droppable
  <2>4. first \in D
    <3> HIDE DEF D
    <3>1. \E i \in D : \A j \in D : i <= j
      BY <2>3, LeastMember
    <3> QED
      BY <3>1, Zenon
  <2> HIDE DEF first
  <2>5. first \in 1 .. Len(m.history)
        /\ Lens(OfRound(m.history, r)) <= Len(m.cache) - Kept(m)
    BY <2>2, <2>4 DEF Droppable
  <2>6. r \in Nat
    <3>1. m.history[first] \in EntryType
      BY <2>2, <2>5
    <3> QED
      BY <3>1 DEF EntryType
  <2> HIDE DEF r
  <2> QED
    BY <2>1, <2>5, <2>6, DropRoundTrims DEF r
<1> QED
  BY <1>1, <1>2

LEMMA AfterDropsAre ==
  ASSUME NEW m \in ModelType
  PROVE  /\ AfterDrops(m)[0] = m
         /\ \A n \in 1 .. Len(m.history) : AfterDrops(m)[n] = Dropped(AfterDrops(m)[n - 1])
<1> DEFINE N == Len(m.history)
           G == [q \in ModelType \X (1 .. N) |-> Dropped(q[1])]
           Eq(f) == f = [n \in 0 .. N |-> IF n = 0 THEN m ELSE Dropped(f[n - 1])]
           g == AfterDrops(m)
<1>1. N \in Nat
  BY ModelFields
<1>2. \A q \in ModelType : Dropped(q) \in ModelType
  BY DroppedTrims DEF Trimmed
<1>3. G \in [ModelType \X (1 .. N) -> ModelType]
  BY <1>2
<1>4. \A n \in 0 .. N : n # 0 => n \in 1 .. N /\ n - 1 \in 0 .. N
  BY <1>1
<1>5. PICK f : Recursive(f, ModelType, m, N, G)
  <2> HIDE DEF G, N
  <2> QED
    BY <1>1, <1>3, Recursion, Zenon
<1>6. Eq(f)
  <2>1. ASSUME NEW n \in 1 .. N PROVE f[n] = Dropped(f[n - 1])
    <3>1. f[n - 1] \in ModelType
      BY <1>4, <1>5 DEF Recursive
    <3>2. G[<<f[n - 1], n>>] = Dropped(f[n - 1])
      <4> HIDE DEF N
      <4> QED
        BY <3>1
    <3> HIDE DEF G, N
    <3> QED
      BY <1>5, <3>2 DEF Recursive
  <2> HIDE DEF G
  <2>2. f[0] = m /\ f = [n \in 0 .. N |-> f[n]]
    BY <1>5 DEF Recursive
  <2> HIDE DEF N
  <2> QED
    BY <1>4, <2>1, <2>2
<1>7. Eq(g)
  <2>1. g = CHOOSE x : Eq(x)
    BY DEF AfterDrops
  <2> HIDE DEF g, Eq
  <2> QED
    BY <1>6, <2>1
<1> HIDE DEF g, N, G
<1>8. 0 \in 0 .. N /\ \A n \in 1 .. N : n \in 0 .. N /\ n # 0
  BY <1>1
<1>9. g[0] = m /\ \A n \in 1 .. N : g[n] = Dropped(g[n - 1])
  BY <1>7, <1>8
<1> QED
  BY <1>9 DEF g, N

\* _enforce_text_window, whatever the window and the rounds are.
LEMMA EnforcedTrims ==
  ASSUME NEW m \in ModelType
  PROVE  Trimmed(m, Enforced(m))
<1> DEFINE N == Len(m.history)
           g == AfterDrops(m)
           T == {n \in Nat : Trimmed(m, g[n])}
<1>1. N \in Nat /\ N \in 0 .. N
  BY ModelFields
<1>2. g[0] = m /\ \A n \in 1 .. N : g[n] = Dropped(g[n - 1])
  BY AfterDropsAre
<1>3. Trimmed(m, m)
  BY TrimmedNot
<1> HIDE DEF g, N
<1>4. 0 \in T
  BY <1>2, <1>3
<1>5. ASSUME NEW n \in 0 .. N - 1, n \in T PROVE n + 1 \in T
  <2>1. n + 1 \in 1 .. N /\ n + 1 - 1 = n /\ n + 1 \in Nat
    BY <1>1
  <2>2. Trimmed(m, g[n]) /\ g[n + 1] = Dropped(g[n])
    BY <1>2, <1>5, <2>1
  <2>3. Trimmed(g[n], g[n + 1])
    BY <2>2, DroppedTrims DEF Trimmed
  <2>4. Trimmed(m, g[n + 1])
    BY <2>2, <2>3, TrimmedTwice
  <2> QED
    BY <2>1, <2>4
<1>6. \A n \in 0 .. N : n \in T
  <2> HIDE DEF T
  <2> QED
    BY <1>1, <1>4, <1>5, RangeInduction
<1>7. Trimmed(m, g[N])
  BY <1>1, <1>6
<1> QED
  BY <1>3, <1>7 DEF Enforced, g, N

-----------------------------------------------------------------------------
(***************************************************************************)
(* Tokens are fed behind the others.                                       *)
(***************************************************************************)
LEMMA WithCache ==
  ASSUME NEW m \in ModelType, NEW c \in Seq(TokenType), NEW p, p = [m EXCEPT !.cache = c]
  PROVE  /\ p \in ModelType /\ p.cache = c /\ p.history = m.history /\ p.preserve = m.preserve
         /\ SameOutside(m, p)
<1> DEFINE C == Seq(TokenType)
           H == Seq(EntryType)
           I == SessionId \cup {NoSession}
           P == Nat \cup {NoRound}
           U == [kv : Nat, idx : Nat]
<1>1. ModelType = [sid : I, cache : C, history : H, preserve : Nat, next : Nat,
                   pending : P, newUser : BOOLEAN, generated : BOOLEAN, audio : U]
  BY DEF ModelType
<1>2. c \in C
  OBVIOUS
<1> HIDE DEF C, H, I, P, U
<1> QED
  BY <1>1, <1>2 DEF SameOutside

LEMMA WithEntry ==
  ASSUME NEW m \in ModelType, NEW h \in Seq(EntryType), NEW k \in Nat,
         NEW p, p = [m EXCEPT !.history = h, !.preserve = k]
  PROVE  /\ p \in ModelType /\ p.cache = m.cache /\ p.history = h /\ p.preserve = k
         /\ SameOutside(m, p)
<1> DEFINE C == Seq(TokenType)
           H == Seq(EntryType)
           I == SessionId \cup {NoSession}
           P == Nat \cup {NoRound}
           U == [kv : Nat, idx : Nat]
<1>1. ModelType = [sid : I, cache : C, history : H, preserve : Nat, next : Nat,
                   pending : P, newUser : BOOLEAN, generated : BOOLEAN, audio : U]
  BY DEF ModelType
<1>2. h \in H
  OBVIOUS
<1> HIDE DEF C, H, I, P, U
<1> QED
  BY <1>1, <1>2 DEF SameOutside

\* d is c with n tokens more, of one kind.
Longer(c, d, n, token) ==
  /\ d \in Seq(TokenType) /\ Len(d) = Len(c) + n
  /\ \A i \in 1 .. Len(c) : i \in 1 .. Len(d) /\ d[i] = c[i]
  /\ \A i \in 1 .. Len(d) : i \notin 1 .. Len(c) => d[i] = token

LEMMA TokensAre ==
  ASSUME NEW c \in Seq(TokenType), NEW n \in Nat, NEW who \in Types \cup {Stray},
         NEW t \in 1 .. MaxTurns, NEW d, d = c \o Tokens(n, who, t)
  PROVE  Longer(c, d, n, [who |-> who, turn |-> t])
<1> DEFINE N == Len(c)
           s == Tokens(n, who, t)
           e == [who |-> who, turn |-> t]
<1>8. d = c \o s
  OBVIOUS
<1>1. e \in TokenType
  BY DEF TokenType
<1>2. s \in Seq(TokenType) /\ Len(s) = n /\ \A i \in 1 .. n : s[i] = e
  <2> HIDE DEF e
  <2>1. s = [i \in 1 .. n |-> e]
    BY DEF Tokens, e
  <2> HIDE DEF s
  <2> QED
    BY <1>1, <2>1
<1>3. N \in Nat
  OBVIOUS
<1> HIDE DEF s, e
<1>4. /\ d \in Seq(TokenType) /\ Len(d) = N + Len(s)
      /\ \A i \in 1 .. N + Len(s) : d[i] = IF i <= N THEN c[i] ELSE s[i - N]
  <2>1. /\ c \o s \in Seq(TokenType) /\ Len(c \o s) = N + Len(s)
        /\ \A i \in 1 .. N + Len(s) : (c \o s)[i] = IF i <= N THEN c[i] ELSE s[i - N]
    BY <1>2, ConcatProperties, Zenon
  <2> HIDE DEF N
  <2> QED
    BY <1>8, <2>1
<1> HIDE DEF N
<1>5. Len(d) = N + n /\ \A i \in 1 .. N + n : d[i] = IF i <= N THEN c[i] ELSE s[i - N]
  BY <1>2, <1>4
<1>6. \A i \in 1 .. N : i \in 1 .. N + n /\ d[i] = c[i]
  BY <1>3, <1>5
<1>7. \A i \in 1 .. N + n : i \notin 1 .. N => d[i] = e
  <2>1. ASSUME NEW i \in 1 .. N + n, i \notin 1 .. N PROVE d[i] = e
    <3>1. ~ (i <= N) /\ i - N \in 1 .. n
      BY <1>3, <2>1
    <3> QED
      BY <1>2, <1>5, <3>1
  <2> QED
    BY <2>1
<1> QED
  BY <1>4, <1>5, <1>6, <1>7 DEF N, e, Longer

\* The prompt is safe in p, and is the one of m if that has one.
PromptKept(m, p) == PromptInside(p) /\ (Prompt(m) # {} => Prompt(p) = Prompt(m))

PromptFed(m, p, n, u) ==
  /\ PromptKept(m, p)
  /\ \A i \in DOMAIN p.cache : p.cache[i].turn <= u
  /\ Len(p.cache) = Len(m.cache) + n

\* New tokens are of a turn of their own, or of an answer; and a system message is
\* preserved.
LEMMA FedKeepsPrompt ==
  ASSUME NEW m \in ModelType, NEW p \in ModelType, NEW n \in Nat,
         NEW who \in Types \cup {Stray}, NEW t \in Nat, NEW u \in 1 .. MaxTurns, t <= u,
         PromptInside(m), \A i \in DOMAIN m.cache : m.cache[i].turn <= t,
         p.cache = m.cache \o Tokens(n, who, u), m.preserve <= p.preserve,
         who = "system" => t < u /\ 0 < p.preserve /\ n <= p.preserve
  PROVE  PromptFed(m, p, n, u)
<1> DEFINE c == m.cache
           d == p.cache
           N == Len(c)
<1>1. /\ c \in Seq(TokenType) /\ d \in Seq(TokenType)
      /\ m.preserve \in Nat /\ p.preserve \in Nat /\ N \in Nat
      /\ DOMAIN c = 1 .. N /\ DOMAIN d = 1 .. Len(d)
  <2>1. m.cache \in Seq(TokenType) /\ m.preserve \in Nat
    BY ModelFields, Zenon
  <2>2. p.cache \in Seq(TokenType) /\ p.preserve \in Nat
    BY ModelFields, Zenon
  <2>3. /\ c \in Seq(TokenType) /\ d \in Seq(TokenType)
        /\ m.preserve \in Nat /\ p.preserve \in Nat
    BY <2>1, <2>2
  <2> HIDE DEF c, d
  <2> QED
    BY <2>3
<1>2. /\ Len(d) = N + n
      /\ \A i \in 1 .. N : i \in 1 .. Len(d) /\ d[i] = c[i]
      /\ \A i \in 1 .. Len(d) : i \notin 1 .. N => d[i] = [who |-> who, turn |-> u]
  <2>1. d = c \o Tokens(n, who, u)
    OBVIOUS
  <2>2. c \in Seq(TokenType)
    BY <1>1
  <2> HIDE DEF c, d, N
  <2>3. Longer(c, d, n, [who |-> who, turn |-> u])
    BY <2>1, <2>2, TokensAre, Zenon
  <2> QED
    BY <2>3 DEF N, Longer
<1>3. \A i \in 1 .. N :
        c[i].who = "system" => m.preserve > 0 /\ (c[i].turn = c[1].turn => i <= m.preserve)
  BY <1>1 DEF PromptInside
<1>4. \A i \in 1 .. N : c[i].turn \in Nat /\ c[i].turn <= t
  BY <1>1, TokenFields
<1> HIDE DEF c, d, N
<1>5. \A i \in 1 .. Len(d) : i \notin 1 .. N => d[i].who = who /\ d[i].turn = u
  BY <1>2
<1>6. ASSUME NEW i \in 1 .. N PROVE d[1] = c[1] /\ 1 \in 1 .. N
  BY <1>1, <1>2
<1>7. ASSUME NEW i \in 1 .. Len(d), d[i].who = "system"
      PROVE  p.preserve > 0 /\ (d[i].turn = d[1].turn => i <= p.preserve)
  <2>1. CASE i \in 1 .. N
    <3>1. d[i] = c[i] /\ d[1] = c[1]
      BY <1>2, <1>6, <2>1
    <3> QED
      BY <1>1, <1>3, <1>7, <2>1, <3>1
  <2>2. CASE i \notin 1 .. N
    <3>1. who = "system" /\ d[i].turn = u
      BY <1>5, <1>7, <2>2
    <3>2. t < u /\ p.preserve > 0 /\ n <= p.preserve
      BY <1>1, <3>1
    <3>3. ASSUME d[i].turn = d[1].turn PROVE N = 0
      <4>1. CASE N # 0
        <5>1. 1 \in 1 .. N
          BY <1>1, <4>1
        <5>2. d[1] = c[1] /\ c[1].turn \in Nat /\ c[1].turn <= t
          BY <1>2, <1>4, <5>1
        <5> QED
          BY <3>1, <3>2, <3>3, <5>2
      <4> QED
        BY <4>1
    <3> QED
      BY <1>1, <1>2, <3>2, <3>3
  <2> QED
    BY <2>1, <2>2
<1>8. PromptInside(p)
  BY <1>1, <1>7 DEF PromptInside, d
<1>9. ASSUME Prompt(m) # {} PROVE Prompt(p) = Prompt(m)
  <2>1. PICK j \in 1 .. N : c[j].who = "system" /\ c[j].turn = c[1].turn
    <3>1. PICK x : x \in Prompt(m)
      BY <1>9
    <3> QED
      BY <3>1, PromptIs DEF c, N
  <2>2. d[1] = c[1] /\ 1 \in 1 .. N
    BY <1>6
  <2>3. ASSUME NEW i \in 1 .. N
        PROVE  i \in 1 .. Len(d) /\ d[i] = c[i] /\ d[1] = c[1]
    BY <1>2, <2>2
  <2>4. ASSUME NEW i \in 1 .. Len(d), d[i].who = "system", d[i].turn = d[1].turn
        PROVE  i \in 1 .. N /\ d[i] = c[i] /\ d[1] = c[1]
    <3>1. i \in 1 .. N
      <4>1. CASE i \notin 1 .. N
        <5>1. who = "system" /\ d[i].turn = u
          BY <1>5, <2>4, <4>1
        <5>2. t < u
          BY <5>1
        <5>3. c[1].turn \in Nat /\ c[1].turn <= t
          BY <1>4, <2>2
        <5> QED
          BY <2>2, <2>4, <5>1, <5>2, <5>3
      <4> QED
        BY <4>1
    <3> QED
      BY <2>3, <3>1
  <2> QED
    BY <2>3, <2>4, SamePrompt DEF c, d, N
<1>10. \A i \in 1 .. Len(d) : d[i].turn <= u
  <2>1. ASSUME NEW i \in 1 .. Len(d) PROVE d[i].turn <= u
    <3>1. CASE i \in 1 .. N
      BY <1>2, <1>4, <3>1
    <3>2. CASE i \notin 1 .. N
      BY <1>5, <3>2
    <3> QED
      BY <3>1, <3>2
  <2> QED
    BY <2>1
<1> QED
  BY <1>1, <1>2, <1>8, <1>9, <1>10 DEF c, d, N, PromptKept, PromptFed

-----------------------------------------------------------------------------
(***************************************************************************)
(* From turn t to turn u a sound session stays sound, and its prompt where *)
(* it is.                                                                  *)
(***************************************************************************)
Carried(m, p, t, u) ==
  /\ p \in ModelType
  /\ Sound(m, t) => Sound(p, u) /\ (Prompt(m) # {} => Prompt(p) = Prompt(m))

LEMMA CarriedOn ==
  ASSUME NEW m, NEW p, NEW q, NEW t, NEW u, NEW v, Carried(m, p, t, u), Carried(p, q, u, v)
  PROVE  Carried(m, q, t, v)
<1>1. q \in ModelType
  BY DEF Carried
<1>2. ASSUME Sound(m, t) PROVE Sound(q, v) /\ (Prompt(m) # {} => Prompt(q) = Prompt(m))
  <2>1. Sound(p, u) /\ (Prompt(m) # {} => Prompt(p) = Prompt(m))
    BY <1>2 DEF Carried
  <2>2. Sound(q, v) /\ (Prompt(p) # {} => Prompt(q) = Prompt(p))
    BY <2>1 DEF Carried
  <2> QED
    BY <2>1, <2>2
<1> QED
  BY <1>1, <1>2 DEF Carried

LEMMA TrimmedIsCarried ==
  ASSUME NEW m, NEW p, NEW t \in Nat, Trimmed(m, p)
  PROVE  Carried(m, p, t, t)
  BY DEF Trimmed, Carried

\* Fields other than the tokens, the entries and the preserved length do not matter.
LEMMA SameTokens ==
  ASSUME NEW m \in ModelType, NEW p \in ModelType, NEW t,
         p.cache = m.cache, p.history = m.history, p.preserve = m.preserve
  PROVE  Carried(m, p, t, t)
<1>1. Prompt(p) = Prompt(m)
  BY DEF Prompt
<1> QED
  BY <1>1 DEF Carried, Sound, PromptInside

Registered(m, p, type, l, r) ==
  /\ p \in ModelType /\ SameOutside(m, p) /\ p.cache = m.cache
  /\ p.history = Append(m.history, [len |-> l, type |-> type, round |-> r])
  /\ Lens(p.history) = Lens(m.history) + l
  /\ p.preserve = IF type = "system" /\ l > m.preserve THEN l ELSE m.preserve

\* _register_chunk.
LEMMA RegisterIs ==
  ASSUME NEW m \in ModelType, NEW type \in Types, NEW l \in Nat, l > 0, NEW r \in Nat,
         NEW p, p = Register(m, type, l, r)
  PROVE  Registered(m, p, type, l, r)
<1> DEFINE e == [len |-> l, type |-> type, round |-> r]
           h == Append(m.history, e)
           k == IF type = "system" /\ l > m.preserve THEN l ELSE m.preserve
<1>1. m.history \in Seq(EntryType) /\ m.preserve \in Nat
  BY ModelFields
<1>2. e \in EntryType /\ e.len = l
  BY DEF EntryType
<1>3. h \in Seq(EntryType) /\ Lens(h) = Lens(m.history) + l
  <2> HIDE DEF e
  <2> QED
    BY <1>1, <1>2, LensAppend
<1>4. k \in Nat
  BY <1>1
<1>5. p = [m EXCEPT !.history = h, !.preserve = k]
  <2>1. ~ (l <= 0)
    OBVIOUS
  <2> QED
    BY <2>1 DEF Register
<1> HIDE DEF h, k
<1>6. /\ p \in ModelType /\ p.cache = m.cache /\ p.history = h /\ p.preserve = k
      /\ SameOutside(m, p)
  BY <1>3, <1>4, <1>5, WithEntry, ZenonT(40)
<1> QED
  BY <1>3, <1>6 DEF h, k, Registered

FedTo(m, p, n, who, u, l, r) ==
  /\ p \in ModelType /\ SameOutside(m, p)
  /\ p.cache = m.cache \o Tokens(n, who, u)
  /\ p.history = Append(m.history, [len |-> l, type |-> who, round |-> r])
  /\ who # "system" => p.preserve = m.preserve
  /\ Carried(m, p, u - 1, u)

Fill(m, n, who, u) == [m EXCEPT !.cache = @ \o Tokens(n, who, u)]

\* Tokens are fed and registered, all of them or, of an answer, the first l.
LEMMA FedAndRegistered ==
  ASSUME NEW m \in ModelType, NEW n \in Nat, NEW who \in Types, NEW u \in 1 .. MaxTurns,
         NEW l \in Nat, 0 < l, l <= n, who = "system" => l = n, NEW r \in Nat,
         NEW q, q = Fill(m, n, who, u),
         NEW p, p = Register(q, who, l, r)
  PROVE  FedTo(m, p, n, who, u, l, r)
<1> DEFINE d == m.cache \o Tokens(n, who, u)
<1>1. m.cache \in Seq(TokenType) /\ m.history \in Seq(EntryType) /\ m.preserve \in Nat
  BY ModelFields
<1>2. d \in Seq(TokenType)
  BY <1>1, TokensAre, ZenonT(40) DEF Longer
<1> HIDE DEF d
<1>3. /\ q \in ModelType /\ q.cache = d /\ q.history = m.history /\ q.preserve = m.preserve
      /\ SameOutside(m, q)
  <2>1. q = [m EXCEPT !.cache = d]
    BY DEF d, Fill
  <2> QED
    BY <1>2, <2>1, WithCache
<1>4. /\ p \in ModelType /\ SameOutside(q, p) /\ p.cache = q.cache
      /\ p.history = Append(q.history, [len |-> l, type |-> who, round |-> r])
      /\ Lens(p.history) = Lens(q.history) + l
      /\ p.preserve = IF who = "system" /\ l > q.preserve THEN l ELSE q.preserve
  <2>1. l > 0
    OBVIOUS
  <2> QED
    <3>1. q \in ModelType /\ p = Register(q, who, l, r)
      BY <1>3
    <3>2. Registered(q, p, who, l, r)
      BY <2>1, <3>1, RegisterIs, Zenon
    <3> QED
      BY <3>2, Zenon DEF Registered
<1>5. /\ p.cache = d /\ Lens(p.history) = Lens(m.history) + l
      /\ p.preserve \in Nat /\ m.preserve <= p.preserve
      /\ who = "system" => l <= p.preserve
      /\ who # "system" => p.preserve = m.preserve
  <2> DEFINE x == p.preserve
             y == m.preserve
             w == who = "system"
  <2>1. x = IF w /\ l > y THEN l ELSE y
    BY <1>3, <1>4, Zenon
  <2>2. y \in Nat
    BY <1>1
  <2>3. p.cache = d /\ Lens(p.history) = Lens(m.history) + l
    BY <1>3, <1>4, Zenon
  <2> HIDE DEF x, y, w
  <2>4. x \in Nat /\ y <= x /\ (w => l <= x) /\ (~ w => x = y)
    BY <2>1, <2>2
  <2> QED
    BY <2>3, <2>4 DEF x, y, w
<1>6. SameOutside(m, p)
  BY <1>3, <1>4 DEF SameOutside
<1>7. ASSUME Sound(m, u - 1)
      PROVE  Sound(p, u) /\ (Prompt(m) # {} => Prompt(p) = Prompt(m))
  <2>1. /\ PromptInside(m) /\ \A i \in DOMAIN m.cache : m.cache[i].turn <= u - 1
        /\ gained \in Nat /\ Lens(m.history) <= Len(m.cache) + gained
    BY <1>7 DEF Sound
  <2>2. PICK t \in Nat : t = u - 1 /\ t <= u /\ t < u
    OBVIOUS
  <2>3. who = "system" => t < u /\ 0 < p.preserve /\ n <= p.preserve
    BY <1>5, <2>2
  <2>4. p.cache = m.cache \o Tokens(n, who, u)
    BY <1>5 DEF d
  <2>5. \A i \in DOMAIN m.cache : m.cache[i].turn <= t
    BY <2>1, <2>2
  <2>6. /\ PromptKept(m, p)
        /\ \A i \in DOMAIN p.cache : p.cache[i].turn <= u
        /\ Len(p.cache) = Len(m.cache) + n
    <3>1. p \in ModelType /\ m.preserve <= p.preserve
      BY <1>4, <1>5, Zenon
    <3>2. t <= u
      BY <2>2
    <3> QED
      <4>1. PromptFed(m, p, n, u)
        BY <2>1, <2>3, <2>4, <2>5, <3>1, <3>2, FedKeepsPrompt, Zenon
      <4> QED
        BY <4>1, Zenon DEF PromptFed
  <2>7. Lens(p.history) <= Len(p.cache) + gained
    BY <1>1, <1>5, <2>1, <2>6, LensIsNat
  <2> QED
    BY <1>4, <2>1, <2>6, <2>7 DEF Sound, PromptKept
<1>8. Carried(m, p, u - 1, u)
  BY <1>4, <1>7 DEF Carried
<1> QED
  BY <1>3, <1>4, <1>5, <1>6, <1>8, Zenon DEF d, FedTo

\* An update of the round of the next answer alone.
LEMMA PendingIs ==
  ASSUME NEW m \in ModelType, NEW x \in Nat \cup {NoRound},
         NEW p, p = [m EXCEPT !.pending = x]
  PROVE  /\ p \in ModelType /\ p.cache = m.cache /\ p.history = m.history
         /\ p.preserve = m.preserve /\ p.sid = m.sid /\ p.next = m.next
  BY DEF ModelType

\* A turn goes by.
LEMMA LaterIsCarried ==
  ASSUME NEW m \in ModelType, NEW t \in Nat
  PROVE  Carried(m, m, t, t + 1)
<1>1. ASSUME NEW i \in DOMAIN m.cache, m.cache[i].turn <= t PROVE m.cache[i].turn <= t + 1
  <2>1. m.cache[i].turn \in Nat
    BY ModelFields, TokenFields
  <2> QED
    BY <1>1, <2>1
<1> QED
  BY <1>1 DEF Carried, Sound

\* Tokens that nobody registers.
LEMMA StrayIs ==
  ASSUME NEW m \in ModelType, NEW n \in Nat, turns \in Nat, turns < MaxTurns
  PROVE  /\ Fed(m, n, Stray) \in ModelType /\ Fed(m, n, Stray).sid = m.sid
         /\ Carried(m, Fed(m, n, Stray), turns, turns + 1)
<1> DEFINE d == m.cache \o Tokens(n, Stray, turns + 1)
           p == Fed(m, n, Stray)
<1>1. /\ m.cache \in Seq(TokenType) /\ m.history \in Seq(EntryType) /\ m.preserve \in Nat
      /\ Len(m.cache) \in Nat
  BY ModelFields
<1>2. PICK u \in 1 .. MaxTurns : u = turns + 1 /\ turns < u /\ turns <= u
  BY SessionAssumption
<1>3. d \in Seq(TokenType)
  <2>1. d = m.cache \o Tokens(n, Stray, u) /\ Stray \in Types \cup {Stray}
    BY <1>2
  <2> HIDE DEF d
  <2> QED
    BY <1>1, <2>1, TokensAre, ZenonT(40) DEF Longer
<1>4. p = [m EXCEPT !.cache = d]
  BY DEF Fed
<1> HIDE DEF d, p
<1>5. /\ p \in ModelType /\ p.cache = d /\ p.history = m.history /\ p.preserve = m.preserve
      /\ SameOutside(m, p)
  BY <1>3, <1>4, WithCache
<1>6. ASSUME Sound(m, turns)
      PROVE  Sound(p, turns + 1) /\ (Prompt(m) # {} => Prompt(p) = Prompt(m))
  <2>1. /\ PromptInside(m) /\ \A i \in DOMAIN m.cache : m.cache[i].turn <= turns
        /\ gained \in Nat /\ Lens(m.history) <= Len(m.cache) + gained
    BY <1>6 DEF Sound
  <2>2. p.cache = m.cache \o Tokens(n, Stray, u) /\ m.preserve <= p.preserve
    BY <1>1, <1>2, <1>5 DEF d
  <2>3. Stray # "system" /\ Stray \in Types \cup {Stray}
    BY DEF Stray
  <2>4. PromptFed(m, p, n, u)
    BY <1>2, <1>5, <2>1, <2>2, <2>3, FedKeepsPrompt, ZenonT(40)
  <2>5. /\ PromptKept(m, p) /\ \A i \in DOMAIN p.cache : p.cache[i].turn <= turns + 1
        /\ Len(p.cache) = Len(m.cache) + n
    BY <1>2, <2>4 DEF PromptFed
  <2>6. Lens(p.history) <= Len(p.cache) + gained
    BY <1>1, <1>5, <2>1, <2>5, LensIsNat
  <2> QED
    BY <1>5, <2>1, <2>5, <2>6 DEF Sound, PromptKept
<1>7. Carried(m, p, turns, turns + 1)
  BY <1>5, <1>6 DEF Carried
<1> QED
  BY <1>5, <1>7 DEF p, SameOutside

\* A prefill with the window around it.
LEMMA ExtendedIs ==
  ASSUME NEW m \in ModelType, NEW n \in Nat, n > 0, NEW type \in Types,
         turns \in Nat, turns < MaxTurns
  PROVE  /\ Extended(m, n, type) \in ModelType /\ Extended(m, n, type).sid = m.sid
         /\ Carried(m, Extended(m, n, type), turns, turns + 1)
<1> DEFINE a == [m EXCEPT !.pending = m.next]
           b == Enforced(a)
           q == Fed(b, n, type)
           c == Register(q, type, n, m.next)
           d == Enforced(c)
<1>0. Extended(m, n, type) = d
  BY DEF Extended
<1>1. m.next \in Nat /\ m.next \in Nat \cup {NoRound}
  BY ModelFields
<1>2. /\ a \in ModelType /\ a.cache = m.cache /\ a.history = m.history
      /\ a.preserve = m.preserve /\ a.sid = m.sid
  BY <1>1, PendingIs
<1> HIDE DEF a
<1>3. Trimmed(a, b)
  BY <1>2, EnforcedTrims
<1>4. b \in ModelType /\ b.sid = m.sid
  BY <1>2, <1>3 DEF Trimmed, SameOutside
<1>5. turns + 1 \in 1 .. MaxTurns /\ (turns + 1) - 1 = turns
  BY SessionAssumption
<1>6. q = Fill(b, n, type, turns + 1)
  BY DEF Fed, Fill
<1> HIDE DEF b, q
<1>7. c \in ModelType /\ SameOutside(b, c) /\ Carried(b, c, turns, turns + 1)
  <2>1. PICK u \in 1 .. MaxTurns : u = turns + 1 /\ u - 1 = turns
    BY <1>5
  <2>2. n <= n /\ 0 < n
    OBVIOUS
  <2>3. q = Fill(b, n, type, u)
    BY <1>6, <2>1
  <2>4. c = Register(q, type, n, m.next)
    OBVIOUS
  <2> HIDE DEF c
  <2>5. FedTo(b, c, n, type, u, n, m.next)
    BY <1>1, <1>4, <2>2, <2>3, <2>4, FedAndRegistered
  <2> QED
    BY <2>1, <2>5 DEF FedTo
<1> HIDE DEF c
<1>8. Trimmed(c, d)
  BY <1>7, EnforcedTrims
<1>9. d \in ModelType /\ d.sid = m.sid
  BY <1>4, <1>7, <1>8 DEF Trimmed, SameOutside
<1> HIDE DEF d
<1>10. Carried(m, a, turns, turns)
  BY <1>2, SameTokens
<1>11. Carried(a, b, turns, turns)
  BY <1>3, TrimmedIsCarried
<1>12. Carried(c, d, turns + 1, turns + 1)
  <2>1. turns + 1 \in Nat
    OBVIOUS
  <2> QED
    BY <1>8, <2>1, TrimmedIsCarried
<1>13. Carried(m, b, turns, turns)
  BY <1>10, <1>11, CarriedOn
<1>14. Carried(m, c, turns, turns + 1)
  BY <1>7, <1>13, CarriedOn
<1>15. Carried(m, d, turns, turns + 1)
  BY <1>12, <1>14, CarriedOn
<1> QED
  BY <1>0, <1>9, <1>15

-----------------------------------------------------------------------------
(***************************************************************************)
(* Types.                                                                  *)
(***************************************************************************)
GenType == [on : {TRUE}, audio : BOOLEAN, round : Nat \cup {NoRound}, said : Nat]

SnapshotType ==
  [there : {TRUE}, cacheLen : Nat, historyLen : Nat, newUser : BOOLEAN, generated : BOOLEAN,
   next : Nat, pending : Nat \cup {NoRound}, audio : [kv : Nat, idx : Nat]]

TypeInv ==
  /\ model \in ModelType
  /\ saved \in ModelType
  /\ snapshot \in SnapshotType \cup {NoSnapshot}
  /\ gen \in GenType \cup {NoGenerator}
  /\ turns \in 0 .. MaxTurns
  /\ gen.on => turns > 0
  /\ since \in BOOLEAN
  /\ gained \in Nat

SameTexts(m, p) == p.cache = m.cache /\ p.history = m.history /\ p.preserve = m.preserve

LEMMA AudioOf ==
  ASSUME NEW m \in ModelType
  PROVE  m.audio \in [kv : Nat, idx : Nat]
  BY DEF ModelType

\* reset_session and what keeps the session but for its audio and its flags.
LEMMA StartedIs ==
  ASSUME NEW id \in SessionId \cup {NoSession}, NEW x \in Nat
  PROVE  LET p == Started(id, x) IN
         p \in ModelType /\ p.sid = id /\ p.cache = <<>> /\ p.history = <<>>
<1> DEFINE C == Seq(TokenType)
           H == Seq(EntryType)
           I == SessionId \cup {NoSession}
           P == Nat \cup {NoRound}
           U == [kv : Nat, idx : Nat]
           e == <<>>
           a == [kv |-> 0, idx |-> x]
<1>1. ModelType = [sid : I, cache : C, history : H, preserve : Nat, next : Nat,
                   pending : P, newUser : BOOLEAN, generated : BOOLEAN, audio : U]
  BY DEF ModelType
<1>2. e \in C /\ e \in H /\ NoRound \in P /\ id \in I /\ a \in U
  OBVIOUS
<1>3. Started(id, x) = [sid |-> id, cache |-> e, history |-> e, preserve |-> 0,
                        next |-> 0, pending |-> NoRound, newUser |-> TRUE,
                        generated |-> FALSE, audio |-> a]
  BY DEF Started
<1> HIDE DEF C, H, I, P, U, e, a
<1>4. LET p == Started(id, x) IN p \in ModelType /\ p.sid = id /\ p.cache = e /\ p.history = e
  BY <1>1, <1>2, <1>3
<1> QED
  BY <1>4 DEF e

\* Flags, audio and rounds change, and nothing else.
LEMMA Restyled ==
  ASSUME NEW m \in ModelType, NEW x \in BOOLEAN, NEW y \in BOOLEAN, NEW z \in Nat,
         NEW w \in Nat \cup {NoRound}, NEW a \in [kv : Nat, idx : Nat],
         NEW p, p = [m EXCEPT !.newUser = x, !.generated = y, !.next = z, !.pending = w,
                              !.audio = a]
  PROVE  /\ p \in ModelType /\ p.sid = m.sid /\ SameTexts(m, p)
         /\ p.newUser = x /\ p.generated = y /\ p.next = z /\ p.pending = w /\ p.audio = a
<1> DEFINE C == Seq(TokenType)
           H == Seq(EntryType)
           I == SessionId \cup {NoSession}
           P == Nat \cup {NoRound}
           U == [kv : Nat, idx : Nat]
<1>1. ModelType = [sid : I, cache : C, history : H, preserve : Nat, next : Nat,
                   pending : P, newUser : BOOLEAN, generated : BOOLEAN, audio : U]
  BY DEF ModelType
<1>2. w \in P /\ a \in U
  OBVIOUS
<1> HIDE DEF C, H, I, P, U
<1> QED
  BY <1>1, <1>2 DEF SameTexts

\* A state in the model is its fields.
LEMMA ModelIs ==
  ASSUME NEW m \in ModelType, NEW p \in ModelType, p.sid = m.sid, SameTexts(m, p),
         p.newUser = m.newUser, p.generated = m.generated, p.next = m.next,
         p.pending = m.pending, p.audio = m.audio
  PROVE  p = m
<1> DEFINE C == Seq(TokenType)
           H == Seq(EntryType)
           I == SessionId \cup {NoSession}
           P == Nat \cup {NoRound}
           U == [kv : Nat, idx : Nat]
<1>1. ModelType = [sid : I, cache : C, history : H, preserve : Nat, next : Nat,
                   pending : P, newUser : BOOLEAN, generated : BOOLEAN, audio : U]
  BY DEF ModelType
<1> HIDE DEF C, H, I, P, U
<1> QED
  BY <1>1 DEF SameTexts

\* A role is told.
LEMMA ToldIs ==
  ASSUME NEW m \in ModelType, NEW role
  PROVE  LET p == Told(m, role) IN
         p \in ModelType /\ p.sid = m.sid /\ SameTexts(m, p) /\ p.next = m.next
<1> DEFINE C == Seq(TokenType)
           H == Seq(EntryType)
           I == SessionId \cup {NoSession}
           P == Nat \cup {NoRound}
<1>1. ModelType = [sid : I, cache : C, history : H, preserve : Nat, next : Nat,
                   pending : P, newUser : BOOLEAN, generated : BOOLEAN,
                   audio : [kv : Nat, idx : Nat]]
  BY DEF ModelType
<1>2. CASE role = "user"
  <2>1. Told(m, role) = [m EXCEPT !.newUser = FALSE]
    BY <1>2 DEF Told, ModelType
  <2> HIDE DEF C, H, I, P
  <2> QED
    BY <1>1, <2>1 DEF SameTexts
<1>3. CASE role # "user"
  <2> DEFINE a == [m.audio EXCEPT !.kv = 0]
  <2>1. Told(m, role) = [m EXCEPT !.newUser = TRUE, !.audio = a]
    BY <1>3 DEF Told, ModelType
  <2>2. a \in [kv : Nat, idx : Nat]
    BY AudioOf
  <2> HIDE DEF C, H, I, P, a
  <2> QED
    BY <1>1, <2>1, <2>2 DEF SameTexts
<1> QED
  BY <1>2, <1>3

\* Of a message that is told, the audio is counted or encoded.
LEMMA CountedIs ==
  ASSUME NEW m \in ModelType, NEW y \in Nat, NEW z \in Nat,
         NEW p, p = [m EXCEPT !.audio = [kv |-> y, idx |-> z]]
  PROVE  p \in ModelType /\ p.sid = m.sid /\ SameTexts(m, p) /\ p.next = m.next
<1> DEFINE C == Seq(TokenType)
           H == Seq(EntryType)
           I == SessionId \cup {NoSession}
           P == Nat \cup {NoRound}
<1>1. ModelType = [sid : I, cache : C, history : H, preserve : Nat, next : Nat,
                   pending : P, newUser : BOOLEAN, generated : BOOLEAN,
                   audio : [kv : Nat, idx : Nat]]
  BY DEF ModelType
<1> DEFINE a == [kv |-> y, idx |-> z]
<1>2. a \in [kv : Nat, idx : Nat]
  OBVIOUS
<1> HIDE DEF C, H, I, P, a
<1>3. p = [m EXCEPT !.audio = a]
  BY DEF a
<1> QED
  BY <1>1, <1>2, <1>3 DEF SameTexts

LEMMA HeardIs ==
  ASSUME NEW m \in ModelType, NEW first, NEW role
  PROVE  LET p == Heard(m, first, role) IN
         p \in ModelType /\ p.sid = m.sid /\ SameTexts(m, p) /\ p.next = m.next
<1> DEFINE q == Told(m, role)
           y == IF first THEN 0 ELSE q.audio.kv + 1
           z == q.audio.idx + 1
           p == Heard(m, first, role)
<1>1. q \in ModelType /\ q.sid = m.sid /\ SameTexts(m, q) /\ q.next = m.next
  BY ToldIs
<1>2. p = [q EXCEPT !.audio = [kv |-> y, idx |-> z]] \/ p = q
  BY DEF Heard
<1> HIDE DEF q, p
<1>3. y \in Nat /\ z \in Nat
  BY <1>1, ModelFields
<1> HIDE DEF y, z
<1>4. p \in ModelType /\ p.sid = q.sid /\ SameTexts(q, p) /\ p.next = q.next
  <2>1. CASE p = q
    BY <1>1, <2>1 DEF SameTexts
  <2>2. CASE p = [q EXCEPT !.audio = [kv |-> y, idx |-> z]]
    BY <1>1, <1>3, <2>2, CountedIs
  <2> QED
    BY <1>2, <2>1, <2>2
<1>5. p \in ModelType /\ p.sid = m.sid /\ SameTexts(m, p) /\ p.next = m.next
  BY <1>1, <1>4 DEF SameTexts
<1> QED
  BY <1>5 DEF p

LEMMA EmptyIsSound ==
  ASSUME NEW m \in ModelType, m.cache = <<>>, m.history = <<>>, NEW t, gained \in Nat
  PROVE  Sound(m, t)
<1>1. Len(m.cache) = 0 /\ DOMAIN m.cache = {}
  BY ModelFields
<1>2. Lens(m.history) = 0
  BY LensEmpty
<1> QED
  BY <1>1, <1>2 DEF Sound, PromptInside

LEMMA SoundLater ==
  ASSUME NEW m, NEW t \in Nat, NEW u \in Nat, t <= u, Sound(m, t)
  PROVE  Sound(m, u)
<1>1. m \in ModelType /\ m.cache \in Seq(TokenType)
  BY ModelFields DEF Sound
<1>2. ASSUME NEW i \in DOMAIN m.cache PROVE m.cache[i].turn <= u
  <2>1. m.cache[i].turn \in Nat
    BY <1>1, TokenFields
  <2>2. m.cache[i].turn <= t
    BY DEF Sound
  <2> QED
    BY <2>1, <2>2
<1> QED
  BY <1>2 DEF Sound

\* A step keeps a sound session sound, and its prompt unless it starts over.
Held ==
  Sound(model, turns) =>
    /\ Sound(model, turns)'
    /\ Prompt(model) # {} /\ ~ StartsOver => Prompt(model') = Prompt(model)

LEMMA CarriedHolds ==
  ASSUME gained' = gained,
         Sound(model, turns) =>
           /\ Sound(model', turns')
           /\ Prompt(model) # {} /\ ~ StartsOver => Prompt(model') = Prompt(model)
  PROVE  Held
  BY DEF Held, Sound, PromptInside

LEMMA LaterHolds ==
  ASSUME gained \in Nat, gained' \in Nat, gained <= gained', turns' = turns,
         model' \in ModelType, model \in ModelType,
         Sound(model, turns) => Sound(model', turns) /\ Prompt(model') = Prompt(model)
  PROVE  Held
<1>1. Len(model'.cache) \in Nat /\ Lens(model'.history) \in Nat
  BY ModelFields, LensIsNat
<1> QED
  BY <1>1 DEF Held, Sound, PromptInside

\* A model that goes on from the present one, or from an empty one.
LEMMA PrefilledHolds ==
  ASSUME TypeInv, NEW m \in ModelType, NEW base \in ModelType, Prefilled(m),
         Carried(base, m, turns, turns + 1),
         base = model \/ (base.cache = <<>> /\ base.history = <<>> /\ StartsOver)
  PROVE  TypeInv' /\ Held
<1>1. /\ model \in ModelType /\ turns \in Nat /\ turns < MaxTurns /\ turns' = turns + 1
      /\ turns' \in 0 .. MaxTurns /\ model' = m /\ gained \in Nat /\ gained' = gained
  BY SessionAssumption DEF TypeInv, Prefilled
<1>2. TypeInv'
  <2>1. gen' \in GenType \cup {NoGenerator} /\ ~ gen'.on
    BY DEF Prefilled, NoGenerator
  <2> QED
    BY <1>1, <2>1 DEF TypeInv, Prefilled
<1>3. Held
  <2>1. CASE base.cache = <<>> /\ base.history = <<>> /\ StartsOver
    <3>1. Sound(base, turns)
      BY <1>1, <2>1, EmptyIsSound
    <3> QED
      BY <1>1, <2>1, <3>1, CarriedHolds DEF Carried
  <2>2. CASE base = model
    BY <1>1, <2>2, CarriedHolds DEF Carried
  <2> QED
    BY <2>1, <2>2
<1> QED
  BY <1>2, <1>3

\* The model a prefill goes on from.
LEMMA BaseIs ==
  ASSUME TypeInv, NEW id \in SessionId
  PROVE  LET p == Base(id) IN
         /\ p \in ModelType /\ p.sid = id
         /\ p = model \/ (model.sid # id /\ p.cache = <<>> /\ p.history = <<>>)
<1>1. CASE model.sid # id
  BY <1>1, StartedIs DEF Base
<1>2. CASE model.sid = id
  BY <1>2 DEF Base, TypeInv
<1> QED
  BY <1>1, <1>2

\* A prefill that ends, and one that raises.
LEMMA PrefillHolds ==
  ASSUME TypeInv, NEW id \in SessionId, NEW role \in Types, NEW n \in Lengths,
         StreamingPrefill(id, role, n)
  PROVE  TypeInv' /\ Held
<1> DEFINE base == Base(id)
           first == model.sid # id
           heard == Heard(base, first, role)
           m == Extended(heard, n, role)
<1>1. turns \in Nat /\ turns < MaxTurns /\ n \in Nat /\ n > 0
  BY SessionAssumption DEF TypeInv, StreamingPrefill, Prefilled
<1>2. Prefilled(m)
  BY DEF StreamingPrefill
<1>3. /\ base \in ModelType /\ base.sid = id
      /\ base = model \/ (model.sid # id /\ base.cache = <<>> /\ base.history = <<>>)
  BY BaseIs
<1> HIDE DEF base, first
<1>4. heard \in ModelType /\ heard.sid = id /\ SameTexts(base, heard)
  BY <1>3, HeardIs
<1> HIDE DEF heard
<1>5. m \in ModelType /\ m.sid = id /\ Carried(heard, m, turns, turns + 1)
  BY <1>1, <1>4, ExtendedIs
<1> HIDE DEF m
<1>6. Carried(base, m, turns, turns + 1)
  BY <1>3, <1>4, <1>5, SameTokens, CarriedOn DEF SameTexts
<1>7. model.sid # id => StartsOver
  BY <1>2, <1>5 DEF StartsOver, Prefilled
<1> QED
  BY <1>2, <1>3, <1>5, <1>6, <1>7, PrefilledHolds

LEMMA LeftIs ==
  ASSUME TypeInv, NEW id \in SessionId, NEW role \in Types, NEW n \in Lengths,
         turns < MaxTurns, NEW m \in LeftHalfWay(id, role, n)
  PROVE  m \in ModelType /\ m.sid = id /\ Carried(Base(id), m, turns, turns + 1)
<1> DEFINE base == Base(id)
           told == Told(base, role)
           heard == Heard(base, model.sid # id, role)
           waiting == [heard EXCEPT !.pending = base.next]
           before == Enforced(waiting)
           Good(p) == p \in ModelType /\ p.sid = id /\ Carried(base, p, turns, turns)
<1>1. turns \in Nat /\ n \in Nat
  BY SessionAssumption DEF TypeInv
<1>2. base \in ModelType /\ base.sid = id
  BY BaseIs
<1>3. /\ m \in {told, before}
      \/ \E k \in {0, 1} : m = [told EXCEPT !.audio = [kv |-> told.audio.kv + k,
                                                      idx |-> told.audio.idx + 1]]
      \/ m = Fed(before, n, Stray)
  BY ModelFields DEF LeftHalfWay
<1> HIDE DEF base
<1>4. told \in ModelType /\ told.sid = id /\ SameTexts(base, told)
  BY <1>2, ToldIs
<1>5. heard \in ModelType /\ heard.sid = id /\ SameTexts(base, heard)
  BY <1>2, HeardIs
<1> HIDE DEF told, heard
<1>6. Good(told)
  BY <1>2, <1>4, SameTokens DEF SameTexts
<1>7. ASSUME NEW k \in {0, 1},
             m = [told EXCEPT !.audio = [kv |-> told.audio.kv + k, idx |-> told.audio.idx + 1]]
      PROVE  Good(m)
  <2>1. told.audio.kv + k \in Nat /\ told.audio.idx + 1 \in Nat
    BY <1>4, ModelFields
  <2>2. m \in ModelType /\ m.sid = told.sid /\ SameTexts(told, m)
    BY <1>4, <1>7, <2>1, CountedIs
  <2>3. SameTexts(base, m)
    BY <1>4, <2>2 DEF SameTexts
  <2> QED
    BY <1>2, <1>4, <2>2, <2>3, SameTokens DEF SameTexts
<1>8. Good(before)
  <2>1. base.next \in Nat \cup {NoRound}
    BY <1>2, ModelFields
  <2>2. /\ waiting \in ModelType /\ waiting.cache = heard.cache
        /\ waiting.history = heard.history /\ waiting.preserve = heard.preserve
        /\ waiting.sid = heard.sid
    BY <1>5, <2>1, PendingIs
  <2> HIDE DEF waiting
  <2>3. Carried(base, waiting, turns, turns)
    BY <1>2, <1>5, <2>2, SameTokens DEF SameTexts
  <2>4. Trimmed(waiting, before)
    BY <2>2, EnforcedTrims
  <2> HIDE DEF before
  <2>5. Carried(waiting, before, turns, turns) /\ before \in ModelType /\ before.sid = id
    BY <1>1, <1>5, <2>2, <2>4, TrimmedIsCarried DEF Trimmed, SameOutside
  <2> QED
    BY <2>3, <2>5, CarriedOn
<1> HIDE DEF before
<1>9. CASE m = Fed(before, n, Stray)
  <2>1. m \in ModelType /\ m.sid = before.sid /\ Carried(before, m, turns, turns + 1)
    BY <1>1, <1>8, <1>9, StrayIs
  <2> QED
    BY <1>8, <2>1, CarriedOn DEF base
<1>10. CASE Good(m)
  BY <1>1, <1>10, LaterIsCarried, CarriedOn DEF base
<1> QED
  BY <1>3, <1>6, <1>7, <1>8, <1>9, <1>10

LEMMA PrefillRaisesHolds ==
  ASSUME TypeInv, NEW id \in SessionId, NEW role \in Types, NEW n \in Lengths,
         PrefillRaises(id, role, n)
  PROVE  TypeInv' /\ Held
<1>1. PICK m \in LeftHalfWay(id, role, n) : Prefilled(m)
  BY DEF PrefillRaises
<1>2. m \in ModelType /\ m.sid = id /\ Carried(Base(id), m, turns, turns + 1)
  BY <1>1, LeftIs DEF Prefilled
<1>3. /\ Base(id) \in ModelType
      /\ \/ Base(id) = model
         \/ model.sid # id /\ Base(id).cache = <<>> /\ Base(id).history = <<>>
  BY BaseIs
<1>4. model.sid # id => StartsOver
  BY <1>1, <1>2 DEF StartsOver, Prefilled
<1> QED
  BY <1>1, <1>2, <1>3, <1>4, PrefilledHolds

LEMMA AllAtOnceHolds ==
  ASSUME TypeInv, NEW id \in SessionId, NEW n \in Lengths, NonStreamingPrefill(id, n)
  PROVE  TypeInv' /\ Held
<1> DEFINE base == Started(id, 0)
           m == Extended(base, n, "user")
<1>1. turns \in Nat /\ turns < MaxTurns /\ n \in Nat /\ n > 0 /\ "user" \in Types
  BY SessionAssumption DEF TypeInv, NonStreamingPrefill, Prefilled, Types
<1>2. Prefilled(m) /\ StartsOver
  BY DEF NonStreamingPrefill, StartsOver
<1>3. base \in ModelType /\ base.cache = <<>> /\ base.history = <<>>
  BY StartedIs
<1> HIDE DEF base
<1>4. m \in ModelType /\ Carried(base, m, turns, turns + 1)
  BY <1>1, <1>3, ExtendedIs
<1> HIDE DEF m
<1> QED
  BY <1>2, <1>3, <1>4, PrefilledHolds

LEMMA AllAtOnceRaisesHolds ==
  ASSUME TypeInv, NEW id \in SessionId, NonStreamingPrefillRaises(id)
  PROVE  TypeInv' /\ Held
<1> DEFINE base == Started(id, 0)
<1>1. PICK round \in {NoRound, 0} : Prefilled([base EXCEPT !.pending = round])
  BY DEF NonStreamingPrefillRaises
<1> DEFINE m == [base EXCEPT !.pending = round]
<1>2. turns \in Nat /\ Prefilled(m) /\ StartsOver /\ round \in Nat \cup {NoRound}
  BY <1>1 DEF TypeInv, StartsOver
<1>3. base \in ModelType /\ base.cache = <<>> /\ base.history = <<>>
  BY StartedIs
<1> HIDE DEF base
<1>4. /\ m \in ModelType /\ m.cache = base.cache /\ m.history = base.history
      /\ m.preserve = base.preserve
  BY <1>2, <1>3, PendingIs
<1> HIDE DEF m
<1>5. Carried(base, m, turns, turns + 1)
  BY <1>2, <1>3, <1>4, SameTokens, LaterIsCarried, CarriedOn
<1> QED
  BY <1>2, <1>3, <1>4, <1>5, PrefilledHolds

-----------------------------------------------------------------------------
(***************************************************************************)
(* The actions that append to the session.                                 *)
(***************************************************************************)
LEMMA FlagsKeep ==
  ASSUME NEW m \in ModelType, NEW w \in Nat \cup {NoRound}, NEW z \in Nat,
         NEW a \in [kv : Nat, idx : Nat]
  PROVE  /\ LET p == [m EXCEPT !.pending = w, !.newUser = TRUE, !.generated = TRUE]
            IN  p \in ModelType /\ p.sid = m.sid /\ SameTexts(m, p)
         /\ LET p == [m EXCEPT !.newUser = TRUE, !.generated = TRUE, !.audio = a]
            IN  p \in ModelType /\ p.sid = m.sid /\ SameTexts(m, p)
         /\ LET p == [m EXCEPT !.pending = w, !.next = z]
            IN  p \in ModelType /\ p.sid = m.sid /\ SameTexts(m, p)
         /\ LET p == [m EXCEPT !.pending = w]
            IN  p \in ModelType /\ p.sid = m.sid /\ SameTexts(m, p)
<1> DEFINE C == Seq(TokenType)
           H == Seq(EntryType)
           I == SessionId \cup {NoSession}
           P == Nat \cup {NoRound}
           U == [kv : Nat, idx : Nat]
<1>1. ModelType = [sid : I, cache : C, history : H, preserve : Nat, next : Nat,
                   pending : P, newUser : BOOLEAN, generated : BOOLEAN, audio : U]
  BY DEF ModelType
<1>2. w \in P /\ a \in U
  OBVIOUS
<1> HIDE DEF C, H, I, P, U
<1>3. LET p == [m EXCEPT !.pending = w, !.newUser = TRUE, !.generated = TRUE]
      IN  p \in ModelType /\ p.sid = m.sid /\ SameTexts(m, p)
  BY <1>1, <1>2 DEF SameTexts
<1>4. LET p == [m EXCEPT !.newUser = TRUE, !.generated = TRUE, !.audio = a]
      IN  p \in ModelType /\ p.sid = m.sid /\ SameTexts(m, p)
  BY <1>1, <1>2 DEF SameTexts
<1>5. LET p == [m EXCEPT !.pending = w, !.next = z]
      IN  p \in ModelType /\ p.sid = m.sid /\ SameTexts(m, p)
  BY <1>1, <1>2 DEF SameTexts
<1>6. LET p == [m EXCEPT !.pending = w]
      IN  p \in ModelType /\ p.sid = m.sid /\ SameTexts(m, p)
  BY <1>1, <1>2 DEF SameTexts
<1> QED
  BY <1>3, <1>4, <1>5, <1>6

\* s begins t.
Begins(s, t) == Len(s) <= Len(t) /\ \A i \in 1 .. Len(s) : t[i] = s[i]

\* p is m with tokens of answers and entries more.
Answered(m, p) ==
  /\ p \in ModelType /\ p.sid = m.sid /\ p.preserve = m.preserve
  /\ Begins(m.cache, p.cache) /\ Begins(m.history, p.history)
  /\ \A i \in 1 .. Len(p.cache) : i \notin 1 .. Len(m.cache) => p.cache[i].who = "assistant"

LEMMA BeginsItself == ASSUME NEW S, NEW s \in Seq(S) PROVE Begins(s, s)
  BY DEF Begins

LEMMA AnsweredTwice ==
  ASSUME NEW m \in ModelType, NEW p, NEW q, Answered(m, p), Answered(p, q)
  PROVE  Answered(m, q)
<1>1. /\ Len(m.cache) \in Nat /\ Len(p.cache) \in Nat /\ Len(q.cache) \in Nat
      /\ Len(m.history) \in Nat /\ Len(p.history) \in Nat /\ Len(q.history) \in Nat
  BY ModelFields DEF Answered
<1>2. Begins(m.cache, q.cache)
  BY <1>1 DEF Answered, Begins
<1>3. Begins(m.history, q.history)
  BY <1>1 DEF Answered, Begins
<1>4. ASSUME NEW i \in 1 .. Len(q.cache), i \notin 1 .. Len(m.cache)
      PROVE  q.cache[i].who = "assistant"
  <2>1. CASE i \in 1 .. Len(p.cache)
    <3>1. q.cache[i] = p.cache[i]
      BY <2>1 DEF Answered, Begins
    <3> QED
      BY <1>4, <2>1, <3>1 DEF Answered
  <2>2. CASE i \notin 1 .. Len(p.cache)
    BY <2>2 DEF Answered
  <2> QED
    BY <2>1, <2>2
<1> QED
  BY <1>2, <1>3, <1>4 DEF Answered

LEMMA AnsweredNot ==
  ASSUME NEW m \in ModelType, NEW p \in ModelType, p.sid = m.sid, SameTexts(m, p)
  PROVE  Answered(m, p)
<1>1. m.cache \in Seq(TokenType) /\ m.history \in Seq(EntryType)
  BY ModelFields
<1>2. Begins(m.cache, m.cache) /\ Begins(m.history, m.history)
  BY <1>1, BeginsItself
<1> QED
  BY <1>2 DEF Answered, SameTexts

LEMMA AppendBegins ==
  ASSUME NEW h \in Seq(EntryType), NEW e \in EntryType
  PROVE  Begins(h, Append(h, e))
  BY DEF Begins

LEMMA LongerBegins ==
  ASSUME NEW c \in Seq(TokenType), NEW d, NEW n \in Nat, NEW e, Longer(c, d, n, e)
  PROVE  Begins(c, d) /\ \A i \in 1 .. Len(d) : i \notin 1 .. Len(c) => d[i] = e
<1>1. Len(c) <= Len(d)
  <2>1. Len(c) \in Nat
    OBVIOUS
  <2> QED
    BY <2>1 DEF Longer
<1> QED
  BY <1>1 DEF Longer, Begins

\* Tokens of an answer alone.
LEMMA FilledIs ==
  ASSUME NEW m \in ModelType, NEW n \in Nat, NEW u \in 1 .. MaxTurns,
         NEW q, q = Fill(m, n, "assistant", u)
  PROVE  /\ Answered(m, q) /\ q.history = m.history /\ Len(q.cache) = Len(m.cache) + n
         /\ Carried(m, q, u, u)
<1> DEFINE d == m.cache \o Tokens(n, "assistant", u)
           e == [who |-> "assistant", turn |-> u]
<1>1. m.cache \in Seq(TokenType) /\ m.history \in Seq(EntryType) /\ m.preserve \in Nat
  BY ModelFields
<1>2. "assistant" \in Types /\ "assistant" # "system"
  BY DEF Types
<1>3. Longer(m.cache, d, n, e)
  BY <1>1, <1>2, TokensAre
<1>4. q = [m EXCEPT !.cache = d]
  BY DEF Fill
<1> HIDE DEF d
<1>5. d \in Seq(TokenType)
  BY <1>3 DEF Longer
<1>6. /\ q \in ModelType /\ q.cache = d /\ q.history = m.history /\ q.preserve = m.preserve
      /\ SameOutside(m, q)
  BY <1>4, <1>5, WithCache
<1>7. Answered(m, q)
  <2> HIDE DEF e
  <2>1. Begins(m.cache, d) /\ \A i \in 1 .. Len(d) : i \notin 1 .. Len(m.cache) => d[i] = e
    BY <1>1, <1>3, LongerBegins
  <2>2. Begins(m.history, m.history)
    BY <1>1, BeginsItself
  <2>3. e.who = "assistant"
    BY DEF e
  <2> QED
    BY <1>6, <2>1, <2>2, <2>3 DEF Answered, SameOutside
<1>8. Len(q.cache) = Len(m.cache) + n
  BY <1>3, <1>6 DEF Longer
<1>9. ASSUME Sound(m, u) PROVE Sound(q, u) /\ (Prompt(m) # {} => Prompt(q) = Prompt(m))
  <2>1. /\ PromptInside(m) /\ \A i \in DOMAIN m.cache : m.cache[i].turn <= u
        /\ gained \in Nat /\ Lens(m.history) <= Len(m.cache) + gained
    BY <1>9 DEF Sound
  <2>2. q.cache = m.cache \o Tokens(n, "assistant", u) /\ m.preserve <= q.preserve
    BY <1>1, <1>6 DEF d
  <2>3. u \in Nat /\ u <= u
    OBVIOUS
  <2>4. "assistant" = "system" => u < u /\ 0 < q.preserve /\ n <= q.preserve
    BY <1>2
  <2>5. PromptFed(m, q, n, u)
    BY <1>2, <1>6, <2>1, <2>2, <2>3, <2>4, FedKeepsPrompt
  <2>6. Lens(q.history) <= Len(q.cache) + gained
    BY <1>1, <1>6, <1>8, <2>1, LensIsNat
  <2> QED
    BY <1>6, <2>1, <2>5, <2>6 DEF Sound, PromptFed, PromptKept
<1> QED
  BY <1>6, <1>7, <1>8, <1>9 DEF Carried

\* non_streaming_generate.
LEMMA OneShotHolds ==
  ASSUME TypeInv, NEW n \in Lengths, NonStreamingGenerate(n)
  PROVE  TypeInv' /\ Held /\ Answered(model, model')
<1> DEFINE k == Bos + n
           q == Fed(model, k, "assistant")
           r == Register(q, "assistant", Bos, model.next)
<1>1. /\ model \in ModelType /\ turns \in Nat /\ turns' = turns + 1
      /\ turns' \in 0 .. MaxTurns /\ gained' = gained
      /\ k \in Nat /\ Bos \in Nat /\ 0 < Bos /\ Bos <= k
      /\ model.next \in Nat
  BY SessionAssumption, ModelFields DEF TypeInv, NonStreamingGenerate
<1>2. PICK u \in 1 .. MaxTurns : u = turns + 1 /\ u - 1 = turns
  BY SessionAssumption DEF TypeInv, NonStreamingGenerate
<1>3. "assistant" \in Types /\ ("assistant" = "system" => Bos = k)
  BY DEF Types
<1>4. model' = [r EXCEPT !.pending = model.next, !.newUser = TRUE, !.generated = TRUE]
  BY DEF NonStreamingGenerate
<1>5. q = Fill(model, k, "assistant", u)
  BY <1>2 DEF Fed, Fill
<1>6. r = Register(q, "assistant", Bos, model.next)
  OBVIOUS
<1> HIDE DEF k, q, r
<1>7. /\ r \in ModelType /\ SameOutside(model, r)
      /\ r.cache = model.cache \o Tokens(k, "assistant", u)
      /\ r.history = Append(model.history,
                            [len |-> Bos, type |-> "assistant", round |-> model.next])
      /\ "assistant" # "system" => r.preserve = model.preserve
      /\ Carried(model, r, u - 1, u)
  <2>1. FedTo(model, r, k, "assistant", u, Bos, model.next)
    BY <1>1, <1>3, <1>5, <1>6, FedAndRegistered
  <2> QED
    BY <2>1 DEF FedTo
<1>8. model' \in ModelType /\ model'.sid = r.sid /\ SameTexts(r, model')
  <2>1. model.next \in Nat \cup {NoRound}
    BY <1>1
  <2>2. [kv |-> 0, idx |-> 0] \in [kv : Nat, idx : Nat]
    OBVIOUS
  <2> QED
    BY <1>1, <1>4, <1>7, <2>1, <2>2, FlagsKeep
<1>9. Answered(model, r)
  <2> DEFINE e == [len |-> Bos, type |-> "assistant", round |-> model.next]
             a == [who |-> "assistant", turn |-> u]
  <2>1. model.cache \in Seq(TokenType) /\ model.history \in Seq(EntryType)
    BY <1>1, ModelFields
  <2>2. e \in EntryType
    BY <1>1, <1>3 DEF EntryType
  <2>3. r.history = Append(model.history, e)
    BY <1>7
  <2> HIDE DEF e
  <2>4. Begins(model.history, r.history)
    BY <2>1, <2>2, <2>3, AppendBegins
  <2>5. Longer(model.cache, r.cache, k, a)
    BY <1>1, <1>3, <1>7, <2>1, TokensAre
  <2>6. a.who = "assistant"
    OBVIOUS
  <2> HIDE DEF a
  <2>7. Begins(model.cache, r.cache)
        /\ \A i \in 1 .. Len(r.cache) : i \notin 1 .. Len(model.cache) => r.cache[i] = a
    BY <1>1, <2>1, <2>5, LongerBegins
  <2>8. r.preserve = model.preserve
    BY <1>7
  <2> QED
    BY <1>7, <2>4, <2>6, <2>7, <2>8 DEF Answered, SameOutside
<1>10. Answered(model, model')
  BY <1>1, <1>7, <1>8, <1>9, AnsweredNot, AnsweredTwice
<1>11. Carried(model, model', u - 1, u)
  BY <1>7, <1>8, SameTokens, CarriedOn DEF SameTexts
<1>12. Held
  BY <1>1, <1>2, <1>11, CarriedHolds DEF Carried
<1>13. TypeInv'
  <2>1. gen' \in GenType \cup {NoGenerator} /\ ~ gen'.on
    BY DEF NonStreamingGenerate, NoGenerator
  <2> QED
    BY <1>1, <1>8, <2>1 DEF TypeInv, NonStreamingGenerate
<1> QED
  BY <1>10, <1>12, <1>13

LEMMA SnapshotIs ==
  ASSUME NEW m \in ModelType
  PROVE  Snapshot(m) \in SnapshotType
<1> DEFINE P == Nat \cup {NoRound}
           U == [kv : Nat, idx : Nat]
           c == Len(m.cache)
           h == Len(m.history)
<1>1. /\ c \in Nat /\ h \in Nat /\ m.newUser \in BOOLEAN /\ m.generated \in BOOLEAN
      /\ m.next \in Nat /\ m.pending \in P /\ m.audio \in U
  BY ModelFields, AudioOf
<1> HIDE DEF P, U, c, h
<1>2. [there |-> TRUE, cacheLen |-> c, historyLen |-> h, newUser |-> m.newUser,
       generated |-> m.generated, next |-> m.next, pending |-> m.pending, audio |-> m.audio]
      \in [there : {TRUE}, cacheLen : Nat, historyLen : Nat, newUser : BOOLEAN,
           generated : BOOLEAN, next : Nat, pending : P, audio : U]
  BY <1>1
<1> QED
  BY <1>2 DEF Snapshot, SnapshotType, P, U, c, h

\* streaming_generate up to the first piece.
LEMMA GenerateHolds ==
  ASSUME TypeInv, NEW audio \in BOOLEAN, NEW speculative \in BOOLEAN,
         Generate(audio, speculative)
  PROVE  TypeInv' /\ Held /\ Answered(model, model')
<1> DEFINE a == [kv |-> 0, idx |-> 0]
<1>1. /\ model \in ModelType /\ turns \in Nat /\ turns' = turns + 1 /\ turns' \in Nat
      /\ turns' \in 0 .. MaxTurns /\ turns' > 0 /\ turns <= turns' /\ gained' = gained
      /\ model.pending \in Nat \cup {NoRound}
  BY SessionAssumption, ModelFields DEF TypeInv, Generate
<1>2. a \in [kv : Nat, idx : Nat] /\ NoRound \in Nat \cup {NoRound} /\ 0 \in Nat
  OBVIOUS
<1>3. model' = [model EXCEPT !.newUser = TRUE, !.generated = TRUE, !.audio = a]
  BY DEF Generate
<1> HIDE DEF a
<1>4. model' \in ModelType /\ model'.sid = model.sid /\ SameTexts(model, model')
  BY <1>1, <1>2, <1>3, FlagsKeep
<1>5. Carried(model, model', turns, turns)
  BY <1>1, <1>4, SameTokens DEF SameTexts
<1>6. Held
  <2>1. Sound(model', turns) => Sound(model', turns')
    BY <1>1, SoundLater
  <2> QED
    BY <1>1, <1>5, <2>1, CarriedHolds DEF Carried
<1>7. Answered(model, model')
  BY <1>1, <1>4, AnsweredNot
<1>8. gen' \in GenType
  BY <1>1 DEF Generate, GenType
<1>9. snapshot' \in SnapshotType \cup {NoSnapshot}
  BY <1>1, SnapshotIs DEF Generate, TypeInv
<1>10. saved' \in ModelType /\ since' \in BOOLEAN /\ gained' \in Nat
  BY <1>1 DEF Generate, TypeInv
<1> QED
  BY <1>1, <1>4, <1>6, <1>7, <1>8, <1>9, <1>10 DEF TypeInv

LEMMA GenFields ==
  ASSUME TypeInv, gen.on
  PROVE  /\ gen \in GenType /\ gen.audio \in BOOLEAN /\ gen.round \in Nat \cup {NoRound}
         /\ gen.said \in Nat /\ turns \in 1 .. MaxTurns
<1>1. gen \in GenType
  BY DEF TypeInv, NoGenerator
<1>2. turns \in 1 .. MaxTurns
  BY DEF TypeInv
<1> QED
  BY <1>1, <1>2 DEF GenType

LEMMA SaidMore ==
  ASSUME NEW S, NEW f \in [on : {TRUE}, audio : BOOLEAN, round : S, said : Nat], NEW n \in Nat,
         NEW g, g = [f EXCEPT !.said = @ + n]
  PROVE  g \in [on : {TRUE}, audio : BOOLEAN, round : S, said : Nat] /\ g.on
         /\ g.said = f.said + n
<1>1. f.said + n \in Nat
  OBVIOUS
<1>2. PICK k \in Nat : k = f.said + n
  BY <1>1
<1>3. g = [f EXCEPT !.said = k]
  BY <1>2
<1>4. g \in [on : {TRUE}, audio : BOOLEAN, round : S, said : Nat] /\ g.on /\ g.said = k
  BY <1>3
<1> QED
  BY <1>2, <1>4

\* chunk_generate: a piece.
LEMMA PieceHolds ==
  ASSUME TypeInv, NEW n \in Lengths, Piece(n)
  PROVE  /\ TypeInv' /\ Held /\ Answered(model, model')
         /\ gen'.on /\ gen'.said = gen.said + n /\ model'.history = model.history
         /\ Len(model'.cache) = Len(model.cache) + (IF gen.said = 0 THEN Bos + n ELSE n)
<1> DEFINE k == IF gen.said = 0 THEN Bos + n ELSE n
<1>1. model \in ModelType /\ k \in Nat /\ n \in Nat /\ turns' = turns /\ gained' = gained
  BY SessionAssumption DEF TypeInv, Piece
<1>2. /\ gen \in GenType /\ gen.audio \in BOOLEAN /\ gen.round \in Nat \cup {NoRound}
      /\ gen.said \in Nat /\ turns \in 1 .. MaxTurns
  BY GenFields DEF Piece
<1>3. model' = Fill(model, k, "assistant", turns)
  BY DEF Piece, Fill
<1> HIDE DEF k
<1>4. /\ Answered(model, model') /\ model'.history = model.history
      /\ Len(model'.cache) = Len(model.cache) + k
      /\ Carried(model, model', turns, turns)
  BY <1>1, <1>2, <1>3, FilledIs, SMTT(40)
<1>5. gen' = [gen EXCEPT !.said = @ + n]
  BY DEF Piece
<1>6. gen' \in GenType /\ gen'.on /\ gen'.said = gen.said + n
  BY <1>1, <1>2, <1>5, SaidMore DEF GenType
<1>7. Held
  BY <1>1, <1>4, CarriedHolds DEF Carried
<1>8. TypeInv'
  BY <1>1, <1>2, <1>4, <1>6 DEF TypeInv, Piece, Carried
<1> QED
  BY <1>4, <1>6, <1>7, <1>8 DEF k

LEMMA RaisesHolds ==
  ASSUME TypeInv, GenerateRaises
  PROVE  TypeInv' /\ Held /\ Answered(model, model')
<1>1. model \in ModelType /\ Bos \in Nat /\ turns' = turns /\ gained' = gained
  BY SessionAssumption DEF TypeInv, GenerateRaises
<1>2. turns \in 1 .. MaxTurns
  BY GenFields DEF GenerateRaises
<1>3. model' = Fill(model, Bos, "assistant", turns)
  BY DEF GenerateRaises, Fill
<1>4. Answered(model, model') /\ Carried(model, model', turns, turns)
  BY <1>1, <1>2, <1>3, FilledIs
<1>5. Held
  BY <1>1, <1>4, CarriedHolds DEF Carried
<1>6. TypeInv'
  <2>1. gen' \in GenType \cup {NoGenerator} /\ ~ gen'.on
    BY DEF GenerateRaises, NoGenerator
  <2> QED
    BY <1>1, <1>4, <2>1 DEF TypeInv, GenerateRaises, Carried
<1> QED
  BY <1>4, <1>5, <1>6

\* The opening tokens and the pieces of the answer are not registered yet.
AnswerUnregistered ==
  gen.on /\ gen.said > 0 =>
    Lens(model.history) + Bos + gen.said <= Len(model.cache) + gained

LEMMA GainIs ==
  ASSUME NEW l \in Nat, NEW c \in Nat, NEW g \in Nat, NEW b \in Nat, NEW s \in Nat,
         NEW d \in Int, NEW e \in Nat, l + b + s <= c + g, d - b <= e
  PROVE  l + (s + d) <= c + (g + e)
  OBVIOUS

\* The answer is registered, by the length of its text encoded again.
LEMMA EndsHolds ==
  ASSUME TypeInv, NEW drift \in Drift, GenerateEnds(drift)
  PROVE  /\ TypeInv' /\ Answered(model, model')
         /\ AnswerUnregistered => Held
<1> DEFINE len == gen.said + drift
           r == Register(model, "assistant", len, gen.round)
<1>1. /\ model \in ModelType /\ turns' = turns /\ drift \in Int /\ Bos \in Nat
      /\ model.history \in Seq(EntryType) /\ model.cache \in Seq(TokenType)
      /\ gen.on /\ gen.said > 0 /\ len > 0 /\ model.next \in Nat
  BY SessionAssumption, ModelFields DEF TypeInv, GenerateEnds
<1>2. /\ gen \in GenType /\ gen.audio \in BOOLEAN /\ gen.round \in Nat \cup {NoRound}
      /\ gen.said \in Nat /\ turns \in 1 .. MaxTurns
  BY <1>1, GenFields
<1>3. len \in Nat
  BY <1>1, <1>2
<1>4. /\ NoRound \in Nat \cup {NoRound} /\ [kv |-> 0, idx |-> 0] \in [kv : Nat, idx : Nat]
      /\ "assistant" \in Types /\ "assistant" # "system" /\ 0 \in Nat
  BY DEF Types
<1>5. gen' = NoGenerator /\ ~ gen'.on
  BY DEF GenerateEnds, NoGenerator
<1>11. gained \in Nat /\ gained' \in Nat /\ gained <= gained'
  BY <1>1 DEF TypeInv, GenerateEnds, Excess
<1>6. ASSUME model' \in ModelType PROVE TypeInv'
  BY <1>1, <1>2, <1>5, <1>6, <1>11 DEF TypeInv, GenerateEnds
<1>7. ASSUME model' \in ModelType, model'.sid = model.sid, SameTexts(model, model')
      PROVE  TypeInv' /\ Answered(model, model') /\ Held
  <2>1. Answered(model, model')
    BY <1>1, <1>7, AnsweredNot
  <2>2. Carried(model, model', turns, turns)
    BY <1>1, <1>7, SameTokens DEF SameTexts
  <2>3. Prompt(model') = Prompt(model)
    BY <1>7 DEF SameTexts, Prompt
  <2> QED
    BY <1>1, <1>6, <1>7, <1>11, <2>1, <2>2, <2>3, LaterHolds DEF Carried
<1>8. CASE ~ gen.audio
  <2>1. model' = model
    BY <1>8 DEF GenerateEnds
  <2> QED
    BY <1>1, <1>7, <2>1 DEF SameTexts
<1>9. CASE gen.audio /\ gen.round = NoRound
  <2>1. model' = [model EXCEPT !.pending = NoRound]
    BY <1>9 DEF GenerateEnds, FinalizeRound
  <2>2. model' \in ModelType /\ model'.sid = model.sid /\ SameTexts(model, model')
    BY <1>1, <1>4, <2>1, FlagsKeep
  <2> QED
    BY <1>7, <2>2
<1>10. CASE gen.audio /\ gen.round # NoRound
  <2> DEFINE e == [len |-> len, type |-> "assistant", round |-> gen.round]
  <2>1. model' = [r EXCEPT !.pending = NoRound, !.next = @ + 1]
    BY <1>10 DEF GenerateEnds, FinalizeRound
  <2>2. gen.round \in Nat
    BY <1>2, <1>10
  <2>3. Registered(model, r, "assistant", len, gen.round)
    <3> HIDE DEF len
    <3> QED
      BY <1>1, <1>3, <1>4, <2>2, RegisterIs
  <2> HIDE DEF r
  <2>4. /\ r \in ModelType /\ r.sid = model.sid /\ r.cache = model.cache
        /\ r.history = Append(model.history, e) /\ Lens(r.history) = Lens(model.history) + len
        /\ r.preserve = model.preserve
    BY <1>4, <2>3 DEF Registered, SameOutside
  <2>5. r.next + 1 \in Nat
    BY <2>4, ModelFields
  <2>6. model' \in ModelType /\ model'.sid = r.sid /\ SameTexts(r, model')
    BY <1>4, <2>1, <2>4, <2>5, FlagsKeep, ZenonT(40)
  <2>7. e \in EntryType
    BY <1>1, <1>3, <1>4, <2>2 DEF EntryType
  <2> HIDE DEF e
  <2>8. Begins(model.history, model'.history) /\ Begins(model.cache, model'.cache)
    BY <1>1, <2>4, <2>6, <2>7, AppendBegins, BeginsItself DEF SameTexts
  <2>9. Answered(model, model')
    BY <2>4, <2>6, <2>8 DEF Answered, SameTexts
  <2>10. ASSUME AnswerUnregistered, Sound(model, turns)
         PROVE  Sound(model, turns)' /\ Prompt(model') = Prompt(model)
    <3>1. Lens(model.history) + Bos + gen.said <= Len(model.cache) + gained
      BY <1>1, <2>10 DEF AnswerUnregistered
    <3>2. Lens(model'.history) = Lens(model.history) + len
      BY <2>4, <2>6 DEF SameTexts
    <3>3. Lens(model.history) \in Nat
      BY <1>1, LensIsNat
    <3>7. /\ gained' = gained + Excess(drift) /\ drift - Bos <= Excess(drift)
          /\ Excess(drift) \in Nat /\ Len(model.cache) \in Nat
      BY <1>1, <1>10 DEF GenerateEnds, Excess
    <3>4. Lens(model'.history) <= Len(model.cache) + gained'
      <4>1. Lens(model.history) + (gen.said + drift) <= Len(model.cache) + (gained + Excess(drift))
        BY <1>1, <1>2, <1>11, <3>1, <3>3, <3>7, GainIs
      <4> QED
        BY <3>2, <3>7, <4>1, Zenon
    <3>5. model'.cache = model.cache /\ model'.preserve = model.preserve
      BY <2>4, <2>6 DEF SameTexts
    <3>6. Prompt(model') = Prompt(model)
      BY <3>5 DEF Prompt
    <3> QED
      BY <1>1, <1>11, <2>6, <2>10, <3>4, <3>5, <3>6 DEF Sound, PromptInside
  <2>11. AnswerUnregistered => Held
    BY <1>1, <2>10 DEF Held
  <2> QED
    BY <1>6, <2>6, <2>9, <2>11
<1> QED
  BY <1>2, <1>7, <1>8, <1>9, <1>10

LEMMA UptoIs ==
  ASSUME NEW S, NEW s \in Seq(S), NEW n \in Nat
  PROVE  Upto(s, n) \in Seq(S)
  BY DEF Upto

LEMMA RestoredIs ==
  ASSUME NEW m \in ModelType, NEW s \in SnapshotType
  PROVE  LET p == Restored(m, s) IN
         /\ p \in ModelType /\ p.sid = m.sid /\ p.preserve = m.preserve
         /\ p.cache = Upto(m.cache, s.cacheLen) /\ p.history = Upto(m.history, s.historyLen)
         /\ p.newUser = s.newUser /\ p.generated = s.generated /\ p.next = s.next
         /\ p.pending = s.pending /\ p.audio = s.audio
<1> DEFINE C == Seq(TokenType)
           H == Seq(EntryType)
           I == SessionId \cup {NoSession}
           P == Nat \cup {NoRound}
           U == [kv : Nat, idx : Nat]
           c == Upto(m.cache, s.cacheLen)
           h == Upto(m.history, s.historyLen)
<1>1. ModelType = [sid : I, cache : C, history : H, preserve : Nat, next : Nat,
                   pending : P, newUser : BOOLEAN, generated : BOOLEAN, audio : U]
  BY DEF ModelType
<1>2. /\ s.cacheLen \in Nat /\ s.historyLen \in Nat /\ s.newUser \in BOOLEAN
      /\ s.generated \in BOOLEAN /\ s.next \in Nat /\ s.pending \in P /\ s.audio \in U
  BY DEF SnapshotType
<1>3. c \in C /\ h \in H
  BY <1>2, ModelFields, UptoIs
<1>4. Restored(m, s) =
        [m EXCEPT !.cache = c, !.history = h, !.newUser = s.newUser,
                  !.generated = s.generated, !.next = s.next, !.pending = s.pending,
                  !.audio = s.audio]
  BY DEF Restored
<1> HIDE DEF C, H, I, P, U, c, h
<1>5. LET p == Restored(m, s) IN
      /\ p \in ModelType /\ p.sid = m.sid /\ p.preserve = m.preserve
      /\ p.cache = c /\ p.history = h
      /\ p.newUser = s.newUser /\ p.generated = s.generated /\ p.next = s.next
      /\ p.pending = s.pending /\ p.audio = s.audio
  BY <1>1, <1>2, <1>3, <1>4
<1> QED
  BY <1>5 DEF c, h

\* As long as a sequence was, it is that sequence.
LEMMA UptoBegins ==
  ASSUME NEW S, NEW s \in Seq(S), NEW t \in Seq(S), Begins(s, t)
  PROVE  Upto(t, Len(s)) = s
<1>1. Len(s) \in Nat /\ Len(t) \in Nat
  OBVIOUS
<1>2. Len(s) <= Len(t) /\ \A i \in 1 .. Len(s) : t[i] = s[i]
  BY DEF Begins
<1>3. CASE Len(t) > Len(s)
  <2> DEFINE u == SubSeq(t, 1, Len(s))
  <2>1. Upto(t, Len(s)) = u
    BY <1>3 DEF Upto
  <2>2. PICK n \in Nat : n = Len(s)
    BY <1>1
  <2>3. 1 \in Nat /\ 1 > 0 /\ n <= Len(t) /\ n = n - 1 + 1
    BY <1>2, <2>2
  <2>4. /\ SubSeq(t, 1, n) \in Seq(S) /\ Len(SubSeq(t, 1, n)) = n
        /\ \A i \in 1 .. n : SubSeq(t, 1, n)[i] = t[1 + i - 1]
    BY <2>3, PartIs
  <2>5. \A i \in 1 .. n : 1 + i - 1 = i
    OBVIOUS
  <2>6. u \in Seq(S) /\ Len(u) = Len(s)
    BY <2>2, <2>4
  <2>7. \A i \in 1 .. Len(s) : u[i] = s[i]
    BY <1>2, <2>2, <2>4, <2>5
  <2> HIDE DEF u
  <2> QED
    BY <2>1, <2>6, <2>7, SeqEqual
<1>4. CASE ~ (Len(t) > Len(s))
  <2>1. Upto(t, Len(s)) = t /\ Len(t) = Len(s)
    BY <1>1, <1>2, <1>4 DEF Upto
  <2> QED
    BY <1>2, <2>1, SeqEqual
<1> QED
  BY <1>3, <1>4

-----------------------------------------------------------------------------
(***************************************************************************)
(* The snapshot and the invariant.                                         *)
(***************************************************************************)
LEMMA RollbackTypes ==
  ASSUME TypeInv, Rollback
  PROVE  TypeInv'
<1>1. snapshot \in SnapshotType
  BY DEF TypeInv, Rollback, NoSnapshot
<1>2. model' \in ModelType
  BY <1>1, RestoredIs DEF TypeInv, Rollback
<1>3. gen' \in GenType \cup {NoGenerator} /\ ~ gen'.on
  BY DEF Rollback, NoGenerator
<1> QED
  BY <1>2, <1>3 DEF TypeInv, Rollback

LEMMA ClearTypes ==
  ASSUME TypeInv, ClearRollbackPoint
  PROVE  TypeInv'
  BY DEF TypeInv, ClearRollbackPoint

LEMMA ResetHolds ==
  ASSUME TypeInv, ResetSession
  PROVE  TypeInv' /\ Held
<1>1. /\ model \in ModelType /\ turns' = turns /\ turns \in Nat /\ model.audio.idx \in Nat
      /\ gained' = gained /\ gained \in Nat
  BY ModelFields DEF TypeInv, ResetSession
<1>2. model' = Started(NoSession, model.audio.idx)
  BY DEF ResetSession
<1>3. model' \in ModelType /\ model'.cache = <<>> /\ model'.history = <<>>
  BY <1>1, <1>2, StartedIs
<1>4. Sound(model', turns')
  BY <1>1, <1>3, EmptyIsSound
<1>5. StartsOver
  BY DEF StartsOver
<1>6. gen' \in GenType \cup {NoGenerator} /\ ~ gen'.on
  BY DEF ResetSession, NoGenerator
<1>7. TypeInv'
  BY <1>1, <1>3, <1>6 DEF TypeInv, ResetSession
<1> QED
  BY <1>1, <1>4, <1>5, <1>7, CarriedHolds

LEMMA TypeInit == Init => TypeInv
<1> SUFFICES ASSUME Init PROVE TypeInv
  OBVIOUS
<1>1. Fresh \in ModelType
  BY StartedIs DEF Fresh
<1>2. 0 \in 0 .. MaxTurns /\ ~ NoGenerator.on
  BY SessionAssumption DEF NoGenerator
<1> QED
  BY <1>1, <1>2 DEF Init, TypeInv

LEMMA TypeStep == TypeInv /\ [Next]_vars => TypeInv'
<1> SUFFICES ASSUME TypeInv, [Next]_vars PROVE TypeInv'
  OBVIOUS
<1>1. ASSUME NEW id \in SessionId, NEW role \in {"system", "user", "assistant"}, NEW n \in Lengths,
             StreamingPrefill(id, role, n)
      PROVE  TypeInv'
  BY <1>1, PrefillHolds DEF Types
<1>2. ASSUME NEW id \in SessionId, NEW n \in Lengths, NonStreamingPrefill(id, n) PROVE TypeInv'
  BY <1>2, AllAtOnceHolds
<1>3. ASSUME NEW n \in Lengths, NonStreamingGenerate(n) PROVE TypeInv'
  BY <1>3, OneShotHolds
<1>4. ASSUME NEW audio \in BOOLEAN, NEW speculative \in BOOLEAN, Generate(audio, speculative)
      PROVE  TypeInv'
  BY <1>4, GenerateHolds
<1>5. ASSUME NEW n \in Lengths, Piece(n) PROVE TypeInv'
  BY <1>5, PieceHolds
<1>6. ASSUME NEW drift \in Drift, GenerateEnds(drift) PROVE TypeInv'
  BY <1>6, EndsHolds
<1>7. CASE GenerateRaises
  BY <1>7, RaisesHolds
<1>8. CASE Rollback
  BY <1>8, RollbackTypes
<1>9. CASE ClearRollbackPoint
  BY <1>9, ClearTypes
<1>10. CASE ResetSession
  BY <1>10, ResetHolds
<1>12. ASSUME NEW id \in SessionId, NEW role \in {"system", "user", "assistant"}, NEW n \in Lengths,
              PrefillRaises(id, role, n)
       PROVE  TypeInv'
  BY <1>12, PrefillRaisesHolds DEF Types
<1>13. ASSUME NEW id \in SessionId, NonStreamingPrefillRaises(id) PROVE TypeInv'
  BY <1>13, AllAtOnceRaisesHolds
<1>11. CASE UNCHANGED vars
  BY <1>11 DEF vars, TypeInv
<1> QED
  BY <1>1, <1>2, <1>3, <1>4, <1>5, <1>6, <1>7, <1>8, <1>9, <1>10, <1>11, <1>12, <1>13 DEF Next

\* The session, the history's lengths and the snapshot keep their types, also if
\* callers roll back to a snapshot of a session that has been replaced
\* (restore_speculative_snapshot cuts only what is long enough).
THEOREM TypeCorrect == Spec => []TypeOK
<1>1. ASSUME TypeInv PROVE TypeOK
  <2>1. CASE snapshot \in SnapshotType
    <3>1. snapshot.cacheLen \in Nat /\ snapshot.historyLen \in Nat
      BY <2>1 DEF SnapshotType
    <3> QED
      BY <1>1, <3>1 DEF TypeInv, TypeOK
  <2>2. CASE snapshot = NoSnapshot
    <3>1. ~ snapshot.there
      BY <2>2 DEF NoSnapshot
    <3> QED
      BY <1>1, <3>1 DEF TypeInv, TypeOK
  <2> QED
    BY <1>1, <2>1, <2>2 DEF TypeInv
<1> QED
  BY <1>1, TypeInit, TypeStep, PTL DEF Spec

\* The snapshot is of a model that the present one continues.
SnapshotKept ==
  snapshot.there /\ ~ since =>
    /\ snapshot = Snapshot(saved)
    /\ Sound(saved, turns)
    /\ saved.cache # <<>>
    /\ Answered(saved, model)

SessionInv ==
  /\ TypeInv
  /\ Sound(model, turns)
  /\ AnswerUnregistered
  /\ SnapshotKept

\* What the snapshot does not have is what no answer changes.
LEMMA RollbackGivesSaved ==
  ASSUME SessionInv, ~ StaleRollbacks, Rollback
  PROVE  model' = saved
<1>1. /\ snapshot = Snapshot(saved) /\ Answered(saved, model) /\ saved \in ModelType
      /\ model \in ModelType /\ model' = Restored(model, snapshot)
  BY DEF SessionInv, SnapshotKept, TypeInv, Rollback
<1>2. snapshot \in SnapshotType
  BY <1>1, SnapshotIs
<1>3. /\ model' \in ModelType /\ model'.sid = model.sid /\ model'.preserve = model.preserve
      /\ model'.cache = Upto(model.cache, snapshot.cacheLen)
      /\ model'.history = Upto(model.history, snapshot.historyLen)
      /\ model'.newUser = snapshot.newUser /\ model'.generated = snapshot.generated
      /\ model'.next = snapshot.next /\ model'.pending = snapshot.pending
      /\ model'.audio = snapshot.audio
  BY <1>1, <1>2, RestoredIs
<1>4. /\ snapshot.cacheLen = Len(saved.cache) /\ snapshot.historyLen = Len(saved.history)
      /\ snapshot.newUser = saved.newUser /\ snapshot.generated = saved.generated
      /\ snapshot.next = saved.next /\ snapshot.pending = saved.pending
      /\ snapshot.audio = saved.audio
  BY <1>1 DEF Snapshot
<1>5. /\ saved.cache \in Seq(TokenType) /\ model.cache \in Seq(TokenType)
      /\ saved.history \in Seq(EntryType) /\ model.history \in Seq(EntryType)
  BY <1>1, ModelFields
<1>6. /\ Begins(saved.cache, model.cache) /\ Begins(saved.history, model.history)
      /\ model.sid = saved.sid /\ model.preserve = saved.preserve
  BY <1>1 DEF Answered
<1>7. Upto(model.cache, Len(saved.cache)) = saved.cache
  BY <1>5, <1>6, UptoBegins
<1>8. Upto(model.history, Len(saved.history)) = saved.history
  BY <1>5, <1>6, UptoBegins
<1>9. SameTexts(saved, model')
  BY <1>3, <1>4, <1>6, <1>7, <1>8 DEF SameTexts
<1> QED
  BY <1>1, <1>3, <1>4, <1>6, <1>9, ModelIs

\* The answer that is taken back has no token of the prompt.
LEMMA AnsweredPrompt ==
  ASSUME NEW m \in ModelType, NEW p \in ModelType, m.cache # <<>>, Answered(m, p)
  PROVE  Prompt(m) = Prompt(p)
<1> DEFINE c == m.cache
           d == p.cache
<1>1. c \in Seq(TokenType) /\ d \in Seq(TokenType) /\ Len(c) \in Nat /\ Len(c) # 0
  BY ModelFields
<1>2. /\ Len(c) <= Len(d) /\ \A i \in 1 .. Len(c) : d[i] = c[i]
      /\ \A i \in 1 .. Len(d) : i \notin 1 .. Len(c) => d[i].who = "assistant"
  BY DEF Answered, Begins
<1> HIDE DEF c, d
<1>3. 1 \in 1 .. Len(c) /\ d[1] = c[1]
  BY <1>1, <1>2
<1>4. \A i \in 1 .. Len(c) : i \in 1 .. Len(d) /\ d[i] = c[i]
  BY <1>1, <1>2
<1>5. ASSUME NEW i \in 1 .. Len(d), d[i].who = "system" PROVE i \in 1 .. Len(c)
  BY <1>2, <1>5
<1>6. ASSUME NEW i \in 1 .. Len(d), d[i].who = "system", d[i].turn = d[1].turn
      PROVE  i \in 1 .. Len(c) /\ c[i] = d[i] /\ c[1] = d[1]
  BY <1>3, <1>4, <1>5, <1>6
<1>7. ASSUME NEW i \in 1 .. Len(c), c[i].who = "system", c[i].turn = c[1].turn
      PROVE  i \in 1 .. Len(d) /\ c[i] = d[i] /\ c[1] = d[1]
  BY <1>3, <1>4, <1>7
<1> QED
  BY <1>6, <1>7, SamePrompt DEF c, d

\* What the texts gain more does not matter to the snapshot.
LEMMA SoundGained ==
  ASSUME Sound(saved, turns'), saved' = saved, gained \in Nat, gained' \in Nat, gained <= gained'
  PROVE  Sound(saved, turns)'
<1>1. Len(saved.cache) \in Nat /\ Lens(saved.history) \in Nat
  BY ModelFields, LensIsNat DEF Sound
<1> QED
  BY <1>1 DEF Sound, PromptInside

\* An answer goes on, or begins: the snapshot stays good.
LEMMA SnapshotStays ==
  ASSUME TypeInv, SnapshotKept, Answered(model, model'), turns <= turns', turns' \in Nat,
         gained <= gained', gained' \in Nat, UNCHANGED <<snapshot, saved, since>>
  PROVE  SnapshotKept'
<1>1. ASSUME snapshot.there, ~ since PROVE Sound(saved, turns') /\ Answered(saved, model')
  <2>1. Sound(saved, turns) /\ Answered(saved, model)
    BY <1>1 DEF SnapshotKept
  <2>2. turns \in Nat /\ saved \in ModelType
    BY DEF TypeInv
  <2> QED
    BY <2>1, <2>2, SoundLater, AnsweredTwice
<1>2. ASSUME snapshot'.there, ~ since'
      PROVE  /\ snapshot' = Snapshot(saved') /\ Sound(saved, turns)' /\ saved'.cache # <<>>
             /\ Answered(saved', model')
  <2>1. Sound(saved, turns') /\ gained \in Nat
    BY <1>1, <1>2 DEF TypeInv
  <2>2. Sound(saved, turns)'
    BY <2>1, SoundGained
  <2> QED
    BY <1>1, <1>2, <2>2 DEF SnapshotKept
<1> QED
  BY <1>2 DEF SnapshotKept, Snapshot, Answered, Begins

LEMMA SessionInit == Init => SessionInv
<1> SUFFICES ASSUME Init PROVE SessionInv
  OBVIOUS
<1>1. Fresh \in ModelType /\ Fresh.cache = <<>> /\ Fresh.history = <<>>
  BY StartedIs DEF Fresh
<1>2. Sound(model, turns)
  BY <1>1, EmptyIsSound DEF Init
<1>3. ~ gen.on /\ ~ snapshot.there
  BY DEF Init, NoGenerator, NoSnapshot
<1> QED
  BY <1>2, <1>3, TypeInit DEF SessionInv, AnswerUnregistered, SnapshotKept

\* A model that is prefilled or reset has neither an answer nor a snapshot to
\* speak of.
LEMMA SinceHolds ==
  ASSUME SessionInv, TypeInv', Held, since', ~ gen'.on
  PROVE  SessionInv'
  BY DEF SessionInv, AnswerUnregistered, SnapshotKept, Held

\* An answer that is over, in one shot or in pieces.
LEMMA AnswerHolds ==
  ASSUME SessionInv, TypeInv', Held, Answered(model, model'), ~ gen'.on,
         turns <= turns', gained <= gained', UNCHANGED <<snapshot, saved, since>>
  PROVE  SessionInv'
<1>1. turns' \in Nat /\ gained' \in Nat
  BY DEF TypeInv
<1>2. SnapshotKept'
  BY <1>1, SnapshotStays DEF SessionInv
<1>3. AnswerUnregistered'
  BY DEF AnswerUnregistered
<1>4. Sound(model, turns)'
  BY DEF SessionInv, Held
<1> QED
  BY <1>2, <1>3, <1>4 DEF SessionInv

LEMMA Room ==
  ASSUME NEW l \in Nat, NEW c \in Nat, NEW b \in Nat, NEW s \in Nat, NEW n \in Nat,
         NEW g \in Nat, s = 0 => l <= c + g, s > 0 => l + b + s <= c + g
  PROVE  l + b + (s + n) <= (c + (IF s = 0 THEN b + n ELSE n)) + g
  OBVIOUS

LEMMA PieceStep ==
  ASSUME SessionInv, NEW n \in Lengths, Piece(n)
  PROVE  SessionInv' /\ Held
<1>1. /\ TypeInv' /\ Held /\ Answered(model, model')
      /\ gen'.on /\ gen'.said = gen.said + n /\ model'.history = model.history
      /\ Len(model'.cache) = Len(model.cache) + (IF gen.said = 0 THEN Bos + n ELSE n)
  BY PieceHolds DEF SessionInv
<1>2. /\ turns' = turns /\ turns' \in Nat /\ turns <= turns'
      /\ gained \in Nat /\ gained' \in Nat /\ gained <= gained'
      /\ UNCHANGED <<snapshot, saved, since, gained>>
  BY DEF SessionInv, TypeInv, Piece
<1>3. SnapshotKept'
  BY <1>1, <1>2, SnapshotStays DEF SessionInv
<1>4. /\ gen.on /\ gen.said \in Nat /\ n \in Nat /\ Bos \in Nat
      /\ Len(model.cache) \in Nat /\ Lens(model.history) \in Nat
  BY SessionAssumption, GenFields, ModelFields, LensIsNat DEF SessionInv, TypeInv, Piece
<1>5. Lens(model'.history) + Bos + gen'.said <= Len(model'.cache) + gained'
  <2>1. gen.said = 0 => Lens(model.history) <= Len(model.cache) + gained
    BY DEF SessionInv, Sound
  <2>2. gen.said > 0 => Lens(model.history) + Bos + gen.said <= Len(model.cache) + gained
    BY <1>4 DEF SessionInv, AnswerUnregistered
  <2>3. Lens(model.history) + Bos + (gen.said + n)
          <= (Len(model.cache) + (IF gen.said = 0 THEN Bos + n ELSE n)) + gained
    BY <1>2, <1>4, <2>1, <2>2, Room
  <2>4. gained' = gained
    BY <1>2
  <2> QED
    BY <1>1, <2>3, <2>4, Zenon
<1>6. AnswerUnregistered'
  BY <1>5 DEF AnswerUnregistered
<1>7. Sound(model, turns)'
  BY <1>1 DEF SessionInv, Held
<1> QED
  BY <1>1, <1>3, <1>6, <1>7 DEF SessionInv

LEMMA GenerateStep ==
  ASSUME SessionInv, NEW audio \in BOOLEAN, NEW speculative \in BOOLEAN,
         Generate(audio, speculative)
  PROVE  SessionInv' /\ Held
<1>1. TypeInv' /\ Held /\ Answered(model, model')
  BY GenerateHolds DEF SessionInv
<1>2. /\ turns \in Nat /\ turns' \in Nat /\ turns <= turns' /\ since \in BOOLEAN
      /\ model.cache # <<>> /\ gained \in Nat /\ gained' \in Nat /\ gained' = gained
      /\ gained <= gained'
  BY DEF SessionInv, TypeInv, Generate
<1>3. SnapshotKept'
  <2>1. CASE speculative
    <3>1. snapshot' = Snapshot(model) /\ saved' = model
      BY <2>1 DEF Generate
    <3>2. Sound(model, turns')
      BY <1>2, SoundLater DEF SessionInv
    <3>3. snapshot' = Snapshot(saved') /\ saved'.cache # <<>> /\ Answered(saved', model')
      BY <1>1, <1>2, <3>1
    <3>4. Sound(saved, turns)'
      BY <1>2, <3>1, <3>2 DEF Sound, PromptInside
    <3> QED
      BY <3>3, <3>4 DEF SnapshotKept, Snapshot, Answered, Begins
  <2>2. CASE ~ speculative
    <3>1. UNCHANGED <<snapshot, saved, since>>
      BY <1>2, <2>2 DEF Generate
    <3> QED
      BY <1>1, <1>2, <3>1, SnapshotStays DEF SessionInv
  <2> QED
    BY <2>1, <2>2
<1>4. AnswerUnregistered'
  <2>1. gen'.said = 0
    BY DEF Generate
  <2> QED
    BY <2>1 DEF AnswerUnregistered
<1>5. Sound(model, turns)'
  BY <1>1 DEF SessionInv, Held
<1> QED
  BY <1>1, <1>3, <1>4, <1>5 DEF SessionInv

LEMMA RollbackStep ==
  ASSUME SessionInv, ~ StaleRollbacks, Rollback
  PROVE  SessionInv' /\ Held
<1>1. TypeInv'
  BY RollbackTypes DEF SessionInv
<1>2. /\ Sound(saved, turns) /\ saved.cache # <<>> /\ Answered(saved, model)
      /\ saved \in ModelType /\ model \in ModelType
  BY DEF SessionInv, TypeInv, SnapshotKept, Rollback
<1>3. model' = saved /\ turns' = turns /\ gained' = gained
  BY RollbackGivesSaved DEF Rollback
<1>4. ~ gen'.on /\ ~ snapshot'.there
  BY DEF Rollback, NoGenerator, NoSnapshot
<1>5. Sound(model', turns')
  BY <1>2, <1>3
<1>6. Prompt(model') = Prompt(model)
  BY <1>2, <1>3, AnsweredPrompt
<1>7. SessionInv'
  <2>1. Sound(model, turns)'
    BY <1>3, <1>5 DEF Sound, PromptInside
  <2> QED
    BY <1>1, <1>4, <2>1 DEF SessionInv, AnswerUnregistered, SnapshotKept
<1> QED
  BY <1>3, <1>5, <1>6, <1>7, CarriedHolds

LEMMA SessionStep ==
  ASSUME SessionInv, ~ StaleRollbacks, [Next]_vars
  PROVE  SessionInv' /\ (Held \/ UNCHANGED <<model, turns>>)
<1>1. TypeInv /\ ~ NoGenerator.on
  BY DEF SessionInv, NoGenerator
<1>2. ASSUME NEW id \in SessionId, NEW role \in {"system", "user", "assistant"}, NEW n \in Lengths,
             StreamingPrefill(id, role, n)
      PROVE  SessionInv' /\ Held
  <2>1. TypeInv' /\ Held
    BY <1>1, <1>2, PrefillHolds DEF Types
  <2>2. since' /\ ~ gen'.on
    BY <1>1, <1>2 DEF StreamingPrefill, Prefilled
  <2> QED
    BY <2>1, <2>2, SinceHolds
<1>3. ASSUME NEW id \in SessionId, NEW n \in Lengths, NonStreamingPrefill(id, n)
      PROVE  SessionInv' /\ Held
  <2>1. TypeInv' /\ Held
    BY <1>1, <1>3, AllAtOnceHolds
  <2>2. since' /\ ~ gen'.on
    BY <1>1, <1>3 DEF NonStreamingPrefill, Prefilled
  <2> QED
    BY <2>1, <2>2, SinceHolds
<1>4. ASSUME NEW n \in Lengths, NonStreamingGenerate(n) PROVE SessionInv' /\ Held
  <2>1. TypeInv' /\ Held /\ Answered(model, model')
    BY <1>1, <1>4, OneShotHolds
  <2>2. /\ ~ gen'.on /\ turns <= turns' /\ gained <= gained'
        /\ UNCHANGED <<snapshot, saved, since>>
    BY <1>1, <1>4, SessionAssumption DEF NonStreamingGenerate, TypeInv
  <2> QED
    BY <2>1, <2>2, AnswerHolds
<1>5. ASSUME NEW audio \in BOOLEAN, NEW speculative \in BOOLEAN, Generate(audio, speculative)
      PROVE  SessionInv' /\ Held
  BY <1>5, GenerateStep
<1>6. ASSUME NEW n \in Lengths, Piece(n) PROVE SessionInv' /\ Held
  BY <1>6, PieceStep
<1>7. ASSUME NEW drift \in Drift, GenerateEnds(drift) PROVE SessionInv' /\ Held
  <2>1. TypeInv' /\ Held /\ Answered(model, model')
    BY <1>1, <1>7, EndsHolds DEF SessionInv
  <2>2. /\ ~ gen'.on /\ turns <= turns' /\ gained <= gained'
        /\ UNCHANGED <<snapshot, saved, since>>
    BY <1>1, <1>7, SessionAssumption DEF GenerateEnds, TypeInv, Excess
  <2> QED
    BY <2>1, <2>2, AnswerHolds
<1>8. CASE GenerateRaises
  <2>1. TypeInv' /\ Held /\ Answered(model, model')
    BY <1>1, <1>8, RaisesHolds
  <2>2. /\ ~ gen'.on /\ turns <= turns' /\ gained <= gained'
        /\ UNCHANGED <<snapshot, saved, since>>
    BY <1>1, <1>8, SessionAssumption DEF GenerateRaises, TypeInv
  <2> QED
    BY <2>1, <2>2, AnswerHolds
<1>9. CASE Rollback
  BY <1>9, RollbackStep
<1>10. CASE ClearRollbackPoint
  <2>1. TypeInv' /\ ~ snapshot'.there /\ UNCHANGED <<model, gen, turns, gained>>
    BY <1>1, <1>10, ClearTypes DEF ClearRollbackPoint, NoSnapshot
  <2>2. Sound(model, turns)' /\ AnswerUnregistered'
    BY <2>1 DEF SessionInv, AnswerUnregistered, Sound, PromptInside
  <2> QED
    BY <2>1, <2>2 DEF SessionInv, SnapshotKept
<1>11. CASE ResetSession
  <2>1. TypeInv' /\ Held
    BY <1>1, <1>11, ResetHolds
  <2>2. since' /\ ~ gen'.on
    BY <1>1, <1>11 DEF ResetSession
  <2> QED
    BY <2>1, <2>2, SinceHolds
<1>13. ASSUME NEW id \in SessionId, NEW role \in {"system", "user", "assistant"},
              NEW n \in Lengths, PrefillRaises(id, role, n)
       PROVE  SessionInv' /\ Held
  <2>1. TypeInv' /\ Held
    BY <1>1, <1>13, PrefillRaisesHolds DEF Types
  <2>2. since' /\ ~ gen'.on
    BY <1>1, <1>13 DEF PrefillRaises, Prefilled
  <2> QED
    BY <2>1, <2>2, SinceHolds
<1>14. ASSUME NEW id \in SessionId, NonStreamingPrefillRaises(id) PROVE SessionInv' /\ Held
  <2>1. TypeInv' /\ Held
    BY <1>1, <1>14, AllAtOnceRaisesHolds
  <2>2. since' /\ ~ gen'.on
    BY <1>1, <1>14 DEF NonStreamingPrefillRaises, Prefilled
  <2> QED
    BY <2>1, <2>2, SinceHolds
<1>12. CASE UNCHANGED vars
  <2>1. UNCHANGED <<model, snapshot, gen, turns, saved, since, gained>>
    BY <1>12 DEF vars
  <2> QED
    BY <2>1 DEF SessionInv, TypeInv, Sound, PromptInside, AnswerUnregistered, SnapshotKept,
              Snapshot, Answered, Begins
<1> QED
  BY <1>2, <1>3, <1>4, <1>5, <1>6, <1>7, <1>8, <1>9, <1>10, <1>11, <1>12, <1>13, <1>14
     DEF Next

-----------------------------------------------------------------------------
(***************************************************************************)
(* The theorems.  They are about callers that roll back before they        *)
(* prefill again, as the handlers do.                                      *)
(***************************************************************************)
LEMMA SessionAlways == ASSUME ~ StaleRollbacks PROVE Spec => []SessionInv
<1>1. ASSUME SessionInv, [Next]_vars PROVE SessionInv'
  BY <1>1, SessionStep
<1> QED
  BY <1>1, SessionInit, PTL DEF Spec

\* Whatever a text gains or loses in tokens when it is encoded again (Drift is any
\* set of integers), the history claims more tokens than the cache has by no more
\* than the texts have gained beyond the opening tokens, however many rounds have
\* been dropped and prefills have raised.
THEOREM HistoryIsInCache == ASSUME ~ StaleRollbacks PROVE Spec => []HistoryInCache
<1>1. ASSUME SessionInv PROVE HistoryInCache
  BY <1>1 DEF SessionInv, Sound, HistoryInCache
<1> QED
  BY <1>1, SessionAlways, PTL

\* The system prompt at the head of the cache outlives every drop of
\* _enforce_text_window, every answer and every rollback of the session.
THEOREM PromptIsKept == ASSUME ~ StaleRollbacks PROVE Spec => SystemKept
<1>1. ASSUME SessionInv, [Next]_vars
      PROVE  [Prompt(model) # {} /\ ~ StartsOver => Prompt(model') = Prompt(model)]_vars
  <2>1. Sound(model, turns)
    BY <1>1 DEF SessionInv
  <2>2. Held \/ UNCHANGED <<model, turns>>
    BY <1>1, SessionStep
  <2>3. UNCHANGED model => Prompt(model') = Prompt(model)
    BY DEF Prompt
  <2> QED
    BY <2>1, <2>2, <2>3 DEF Held
<1>2. (Spec /\ []SessionInv) =>
        [][Prompt(model) # {} /\ ~ StartsOver => Prompt(model') = Prompt(model)]_vars
  BY <1>1, PTL DEF Spec
<1> QED
  BY <1>2, SessionAlways DEF SystemKept

\* restore_speculative_snapshot gives back the model of the moment
\* streaming_generate was called, of which the snapshot has two lengths, four
\* scalars and the audio cache.
THEOREM AnswerIsTakenBack == ASSUME ~ StaleRollbacks PROVE Spec => RollbackRestores
<1>1. ASSUME SessionInv, [Next]_vars PROVE [Rollback => model' = saved]_vars
  BY <1>1, RollbackGivesSaved
<1>2. (Spec /\ []SessionInv) => [][Rollback => model' = saved]_vars
  BY <1>1, PTL DEF Spec
<1> QED
  BY <1>2, SessionAlways DEF RollbackRestores
=============================================================================
