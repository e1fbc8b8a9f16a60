-------------------------- MODULE ProcessTimerProofs --------------------------
(***************************************************************************)
(* Theorems about the process timers, for any finite number of timers, all *)
(* intervals and words of the clock that suit each other: the list of the  *)
(* scheduler is what was started, and the timers are a timer set.          *)
(*                                                                         *)
(* The invariant says what sequence the list is a chain of, which is what  *)
(* the recursive walk Listed is then shown to be (ListedIs), and how late  *)
(* each timer of it may be: those the search has been at in this pass were *)
(* not due then, the others not when the pass before was at them.          *)
(***************************************************************************)
EXTENDS ProcessTimer, FiniteSetTheorems, SequenceTheorems, WellFoundedInduction, TLAPS

Maybe == PTimer \cup {NoTimer}

Milliseconds == [start : Count, interval : Interval \cup {0}, flags : {"TIMER_MS"}]

\* s is the chain that begins at h.
Chain(s, links, h) ==
    /\ h = IF s = <<>> THEN NoTimer ELSE s[1]
    /\ \A i \in 1..Len(s) : links[s[i]] = IF i < Len(s) THEN s[i + 1] ELSE NoTimer

Injective(s) == \A i, j \in 1..Len(s) : s[i] = s[j] => i = j

Elements(s) == {s[i] : i \in 1..Len(s)}

\* A timer whose time was not over d milliseconds ago.
InTime(t, now, d) ==
    t.interval # 0 => (now - t.start) % Word < t.interval + d

\* The search that goes on at p has been at the i-th timer of s.
Passed(s, i, a, p) == a = "search" /\ \A j \in 1..i : s[j] # p

Fields ==
    /\ clock_ms \in Count
    /\ process_timer_head \in Maybe
    /\ next \in [PTimer -> Maybe]
    /\ timer \in [PTimer -> Milliseconds]
    /\ at \in {"idle", "search", "thread"}
    /\ tmp \in Maybe
    /\ lag \in 0..MaxLag

\* The list is the chain of s.
Represents(s) ==
    /\ s \in Seq(PTimer) /\ Injective(s)
    /\ Chain(s, next, process_timer_head)
    /\ started = Elements(s)
    /\ \A i \in 1..Len(s) :
        InTime(timer[s[i]], clock_ms,
               IF Passed(s, i, at, tmp) THEN lag ELSE MaxLag + lag)

IInv ==
    /\ Fields
    /\ at = "search" /\ tmp # NoTimer => tmp \in started
    /\ \E s : Represents(s)

----------------------------------------------------------------------------
(* The walk.                                                               *)

\* The natural numbers are well ordered.
LEMMA LeastNumber ==
    ASSUME NEW T, T \subseteq Nat, T # {}
    PROVE  \E n \in T : \A m \in T : n <= m
<1>1. \E n \in T : \A m \in T : ~ (<<m, n>> \in OpToRel(<, Nat))
    BY NatLessThanWellFounded, WFMin
<1>2. PICK n \in T : \A m \in T : ~ (<<m, n>> \in OpToRel(<, Nat))
    BY <1>1
<1>3. \A m \in T : ~(m < n)
    BY <1>2 DEF OpToRel
<1> QED
    BY <1>3

\* One more step of the walk: w has those that are one step shorter.
Body(w, links, n) ==
    [t \in Maybe |-> IF n = 0 \/ t = NoTimer THEN <<>> ELSE <<t>> \o w[n - 1][links[t]]]

Recursion(w, links, k) == w = [n \in 0..k |-> Body(w, links, n)]

LEMMA WalkExists ==
    ASSUME NEW links \in [PTimer -> Maybe], NEW k \in Nat
    PROVE  \E w : Recursion(w, links, k)
<1> DEFINE T == {j \in Nat : ~ \E w : Recursion(w, links, j)}
<1> SUFFICES ASSUME T # {} PROVE FALSE
    OBVIOUS
<1>1. PICK j \in T : \A i \in T : j <= i
    BY LeastNumber
<1>2. CASE j = 0
  <2> DEFINE w == [n \in 0..0 |-> [t \in Maybe |-> <<>>]]
  <2>1. \A n \in 0..0 : Body(w, links, n) = [t \in Maybe |-> <<>>]
      BY DEF Body
  <2>2. Recursion(w, links, 0)
      BY <2>1 DEF Recursion
  <2> QED
      BY <1>1, <1>2, <2>2
<1>3. CASE j > 0
  <2>1. j - 1 \in Nat /\ j - 1 \notin T
      BY <1>1, <1>3
  <2>2. PICK v : Recursion(v, links, j - 1)
      BY <2>1
  <2> DEFINE w == [n \in 0..j |-> Body(v, links, n)]
  <2>3. ASSUME NEW n \in 0..(j - 1)
        PROVE  v[n] = Body(v, links, n)
      BY <2>2 DEF Recursion
  <2>4. ASSUME NEW n \in 0..j
        PROVE  w[n] = Body(v, links, n)
      OBVIOUS
  <2>5. ASSUME NEW n \in 0..j
        PROVE  Body(v, links, n) = Body(w, links, n)
    <3>1. CASE n = 0
        BY <3>1 DEF Body
    <3>2. CASE n # 0
      <4>1. n - 1 \in 0..(j - 1) /\ n - 1 \in 0..j
          BY <3>2
      <4>2. v[n - 1] = w[n - 1]
          BY <4>1, <2>3, <2>4
      <4> HIDE DEF w
      <4> QED
          BY <4>2 DEF Body
    <3> QED
        BY <3>1, <3>2
  <2>6. w = [n \in 0..j |-> Body(w, links, n)]
      BY <2>5
  <2> QED
      BY <1>1, <2>6 DEF Recursion
<1> QED
    BY <1>1, <1>2, <1>3

\* The walk takes the first timer, and goes on with the timer behind it.
LEMMA WalkSteps ==
    ASSUME NEW links \in [PTimer -> Maybe], NEW first
    PROVE  \E w : /\ Walk(links, first) = w[Cardinality(PTimer) + 1][first]
                  /\ \A n \in 0..Cardinality(PTimer) + 1 : w[n] = Body(w, links, n)
<1> DEFINE N == Cardinality(PTimer) + 1
           w == CHOOSE f : f = [n \in 0..N |-> Body(f, links, n)]
<1>1. N \in Nat
    BY FS_CardinalityType, ProcessTimerAssumption
<1>2. Walk(links, first) = w[N][first]
    BY DEF Walk, Body, Maybe
<1>3. \E f : f = [n \in 0..N |-> Body(f, links, n)]
    BY <1>1, WalkExists DEF Recursion
<1>4. w = [n \in 0..N |-> Body(w, links, n)]
    BY <1>3
<1> HIDE DEF w
<1>5. \A n \in 0..N : w[n] = Body(w, links, n)
    BY <1>4
<1> QED
    BY <1>2, <1>5

LEMMA SeqFacts ==
    ASSUME NEW s \in Seq(PTimer)
    PROVE  /\ Len(s) \in Nat
           /\ s \in [1..Len(s) -> PTimer]
           /\ s = <<>> <=> Len(s) = 0
           /\ \A i \in 1..Len(s) : s[i] \in PTimer /\ s[i] # NoTimer
<1>1. Len(s) \in Nat /\ s \in [1..Len(s) -> PTimer]
    BY LenProperties
<1>2. s = <<>> <=> Len(s) = 0
    BY EmptySeq
<1>3. \A i \in 1..Len(s) : s[i] \in PTimer /\ s[i] # NoTimer
    BY <1>1, ProcessTimerAssumption
<1> QED
    BY <1>1, <1>2, <1>3

LEMMA FitsInWalk ==
    ASSUME NEW s \in Seq(PTimer), Injective(s)
    PROVE  Len(s) <= Cardinality(PTimer) /\ Cardinality(Elements(s)) = Len(s)
<1>1. Len(s) \in Nat /\ s \in [1..Len(s) -> PTimer]
    BY SeqFacts
<1>2. s \in Injection(1..Len(s), PTimer)
    BY <1>1 DEF Injection, IsInjective, Injective
<1>3. IsFiniteSet(1..Len(s)) /\ Cardinality(1..Len(s)) = Len(s)
    BY <1>1, FS_Interval
<1>4. Len(s) <= Cardinality(PTimer)
    BY <1>2, <1>3, FS_Injection, ProcessTimerAssumption
<1>5. s \in Bijection(1..Len(s), Elements(s))
    BY <1>1, <1>2 DEF Bijection, Injection, Surjection, Elements, Injective
<1>6. Cardinality(Elements(s)) = Len(s)
    BY <1>3, <1>5, FS_Bijection DEF ExistsBijection
<1> QED
    BY <1>4, <1>6

\* The last i timers of s, and the place where they begin.
Place(s, i) == IF i = 0 THEN NoTimer ELSE s[Len(s) + 1 - i]
Rest(s, i) == SubSeq(s, Len(s) + 1 - i, Len(s))

\* Every walk that is long enough and begins there comes past them.
WalksRest(w, s, i, N) == \A n \in 1..N : n >= i => w[n][Place(s, i)] = Rest(s, i)

LEMMA RestGrows ==
    ASSUME NEW s \in Seq(PTimer), NEW i \in 1..Len(s), NEW links \in [PTimer -> Maybe],
           NEW h, Chain(s, links, h)
    PROVE  /\ Place(s, i) \in PTimer /\ Place(s, i) # NoTimer
           /\ links[Place(s, i)] = Place(s, i - 1)
           /\ Rest(s, i) = <<Place(s, i)>> \o Rest(s, i - 1)
           /\ Rest(s, 0) = <<>>
<1> DEFINE k == Len(s) + 1 - i
<1>1. /\ Len(s) \in Nat /\ k \in 1..Len(s) /\ k + 1 = Len(s) + 1 - (i - 1)
      /\ Len(s) \in k..Len(s)
      /\ \A j \in 1..Len(s) : s[j] \in PTimer /\ s[j] # NoTimer
    BY SeqFacts
<1> HIDE DEF k
<1>2. Place(s, i) = s[k]
    BY DEF Place, k
<1>3. links[s[k]] = Place(s, i - 1)
    BY <1>1 DEF Chain, Place
<1>4. SubSeq(s, k, Len(s)) = <<s[k]>> \o SubSeq(s, k + 1, Len(s))
    BY <1>1, SubSeqRecursiveFirst
<1>5. Rest(s, i) = SubSeq(s, k, Len(s)) /\ Rest(s, i - 1) = SubSeq(s, k + 1, Len(s))
    BY <1>1 DEF Rest, k
<1>6. Rest(s, 0) = <<>>
    BY <1>1, SubSeqEmpty DEF Rest
<1> QED
    BY <1>1, <1>2, <1>3, <1>4, <1>5, <1>6

\* A walk along a chain comes past the timers of the chain.
LEMMA WalkIsChain ==
    ASSUME NEW links \in [PTimer -> Maybe], NEW s \in Seq(PTimer), Injective(s),
           NEW h, Chain(s, links, h)
    PROVE  Walk(links, h) = s
<1> DEFINE N == Cardinality(PTimer) + 1
<1>1. PICK w : /\ Walk(links, h) = w[N][h]
               /\ \A n \in 0..N : w[n] = Body(w, links, n)
    BY WalkSteps
<1>2. N \in Nat /\ Len(s) \in Nat /\ Len(s) < N
    BY FitsInWalk, SeqFacts, FS_CardinalityType, ProcessTimerAssumption
<1> HIDE DEF N
<1>3. ASSUME NEW n \in 0..N
      PROVE  w[n][NoTimer] = <<>>
    BY <1>1, <1>3 DEF Body, Maybe
<1>4. WalksRest(w, s, 0, N)
  <2>1. Rest(s, 0) = <<>> /\ Place(s, 0) = NoTimer
      BY <1>2, SubSeqEmpty DEF Rest, Place
  <2> QED
      BY <1>2, <1>3, <2>1 DEF WalksRest
<1>5. ASSUME NEW i \in 1..Len(s), WalksRest(w, s, i - 1, N)
      PROVE  WalksRest(w, s, i, N)
  <2> SUFFICES ASSUME NEW n \in 1..N, n >= i
               PROVE  w[n][Place(s, i)] = Rest(s, i)
      BY DEF WalksRest
  <2>1. /\ Place(s, i) \in PTimer /\ Place(s, i) # NoTimer
        /\ links[Place(s, i)] = Place(s, i - 1)
        /\ Rest(s, i) = <<Place(s, i)>> \o Rest(s, i - 1)
        /\ Rest(s, 0) = <<>>
      BY RestGrows
  <2>2. w[n] = Body(w, links, n) /\ n # 0
      BY <1>1, <1>2
  <2>3. w[n][Place(s, i)] = <<Place(s, i)>> \o w[n - 1][Place(s, i - 1)]
      BY <2>1, <2>2 DEF Body, Maybe
  <2>4. w[n - 1][Place(s, i - 1)] = Rest(s, i - 1)
    <3>1. CASE n = 1
      <4>1. i = 1 /\ n - 1 \in 0..N
          BY <1>2, <3>1
      <4>2. Place(s, i - 1) = NoTimer
          BY <4>1 DEF Place
      <4> QED
          BY <1>3, <2>1, <4>1, <4>2
    <3>2. CASE n > 1
      <4>1. n - 1 \in 1..N /\ n - 1 >= i - 1
          BY <1>2, <3>2
      <4> QED
          BY <1>5, <4>1 DEF WalksRest
    <3> QED
        BY <1>2, <3>1, <3>2
  <2> QED
      BY <2>1, <2>3, <2>4
<1> DEFINE T == {i \in 0..Len(s) : ~WalksRest(w, s, i, N)}
<1>6. T = {}
  <2> SUFFICES ASSUME T # {} PROVE FALSE
      OBVIOUS
  <2>1. T \subseteq Nat
      BY <1>2
  <2>2. PICK i \in T : \A j \in T : i <= j
      BY <2>1, LeastNumber
  <2>3. i \in 1..Len(s)
      BY <1>2, <1>4, <2>2
  <2>4. i - 1 \in 0..Len(s) /\ i - 1 \notin T
      BY <1>2, <2>2, <2>3
  <2> QED
      BY <1>5, <2>2, <2>3, <2>4
<1>7. WalksRest(w, s, Len(s), N)
    BY <1>2, <1>6
<1>8. w[N][Place(s, Len(s))] = Rest(s, Len(s))
    BY <1>2, <1>7 DEF WalksRest
<1>9. Place(s, Len(s)) = h
    BY <1>2, SeqFacts DEF Place, Chain
<1>10. Rest(s, Len(s)) = s
    BY <1>2, SubSeqFull DEF Rest
<1> QED
    BY <1>1, <1>8, <1>9, <1>10

----------------------------------------------------------------------------
(* What the list is.                                                       *)

LEMMA ListedIs ==
    ASSUME Fields, NEW s, Represents(s)
    PROVE  Listed = s /\ \A t : Contains(Listed, t) <=> t \in started
<1>1. s \in Seq(PTimer) /\ Injective(s) /\ started = Elements(s)
    BY DEF Represents
<1>2. Listed = s
    BY <1>1, WalkIsChain DEF Listed, Fields, Represents
<1> QED
    BY <1>1, <1>2 DEF Contains, Elements

\* The same of the next state.
LEMMA ListedNext ==
    ASSUME Fields', NEW s, Represents(s)'
    PROVE  Listed' = s
<1>1. s \in Seq(PTimer) /\ Injective(s) /\ Chain(s, next', process_timer_head')
    BY DEF Represents
<1>2. next' \in [PTimer -> Maybe]
    BY DEF Fields
<1> QED
    BY <1>1, <1>2, WalkIsChain DEF Listed

LEMMA ListIs ==
    ASSUME IInv
    PROVE  ListedIsStarted
<1>1. PICK s : Represents(s)
    BY DEF IInv
<1>2. Listed = s /\ s \in Seq(PTimer) /\ Injective(s) /\ started = Elements(s)
    BY <1>1, ListedIs DEF IInv, Represents
<1>3. DOMAIN s = 1..Len(s)
    BY <1>2, SeqFacts
<1>4. ToSet(s) = Elements(s)
    BY <1>3 DEF ToSet, Elements
<1> QED
    BY <1>2, <1>4, FitsInWalk DEF ListedIsStarted, IInv

----------------------------------------------------------------------------
(* The clock.                                                              *)

LEMMA WordIs == Word \in Nat /\ Word > 0 /\ MaxLag \in Nat /\ MaxLag > 0
BY TimerAssumption, ProcessTimerAssumption

LEMMA IntervalIs ==
    ASSUME NEW i \in Interval \cup {0}
    PROVE  i \in Nat /\ (i # 0 => i + 2 * MaxLag <= Word)
BY ProcessTimerAssumption

\* A millisecond passes.
LEMMA Elapses ==
    ASSUME NEW c \in Count, NEW b \in Count
    PROVE  /\ (c + 1) % Word \in Count
           /\ (c - b) % Word \in Count
           /\ (c - c) % Word = 0
           /\ (c - b) % Word < Word - 1 =>
                    (((c + 1) % Word) - b) % Word = ((c - b) % Word) + 1
<1> USE WordIs DEF Count
<1>1. (c - b) % Word = IF c >= b THEN c - b ELSE c - b + Word
  <2>1. CASE c >= b
      BY <2>1
  <2>2. CASE c < b
      BY <2>2
  <2> QED
      BY <2>1, <2>2
<1>2. (c + 1) % Word = IF c + 1 = Word THEN 0 ELSE c + 1
  <2>1. CASE c + 1 = Word
      BY <2>1
  <2>2. CASE c + 1 # Word
      BY <2>2
  <2> QED
      BY <2>1, <2>2
<1>3. (c + 1) % Word \in Count /\ (c - b) % Word \in Count /\ (c - c) % Word = 0
    BY <1>1, <1>2
<1>4. ASSUME (c - b) % Word < Word - 1
      PROVE  (((c + 1) % Word) - b) % Word = ((c - b) % Word) + 1
  <2>1. CASE c + 1 = Word
    <3>1. b > 0 /\ (c - b) % Word = c - b
        BY <1>1, <1>4, <2>1
    <3>2. (0 - b) % Word = Word - b
        BY <3>1
    <3> QED
        BY <1>2, <2>1, <3>1, <3>2
  <2>2. CASE c + 1 # Word
    <3> DEFINE d == c + 1
    <3>1. d \in Count /\ (c + 1) % Word = d
        BY <1>2, <2>2
    <3>2. CASE d >= b
      <4>1. (d - b) % Word = d - b
          BY <3>1, <3>2
      <4>2. c >= b
          BY <1>1, <1>4, <3>2
      <4> QED
          BY <1>1, <3>1, <4>1, <4>2
    <3>3. CASE d < b
      <4>1. (d - b) % Word = d - b + Word
          BY <3>1, <3>3
      <4> QED
          BY <1>1, <3>1, <3>3, <4>1
    <3> QED
        BY <3>1, <3>2, <3>3
  <2> QED
      BY <2>1, <2>2
<1> QED
    BY <1>3, <1>4

----------------------------------------------------------------------------
(* The operations, on the sequence.                                        *)

Cut(s, k) == [i \in 1..(Len(s) - 1) |-> IF i < k THEN s[i] ELSE s[i + 1]]

Pushed(s, t) == [i \in 1..(Len(s) + 1) |-> IF i = 1 THEN t ELSE s[i - 1]]

LEMMA CutFacts ==
    ASSUME NEW s \in Seq(PTimer), Injective(s), NEW k \in 1..Len(s)
    PROVE  /\ Cut(s, k) \in Seq(PTimer)
           /\ Len(Cut(s, k)) = Len(s) - 1
           /\ Injective(Cut(s, k))
           /\ Elements(Cut(s, k)) = Elements(s) \ {s[k]}
<1> DEFINE r == Cut(s, k)
           m == Len(s) - 1
<1>1. /\ Len(s) \in Nat /\ m \in Nat /\ Len(s) = m + 1
      /\ \A i \in 1..Len(s) : s[i] \in PTimer
    BY SeqFacts
<1>2. ASSUME NEW i \in 1..m
      PROVE  /\ i < k => i \in 1..Len(s) /\ r[i] = s[i]
             /\ i >= k => i + 1 \in 1..Len(s) /\ r[i] = s[i + 1]
    BY <1>1 DEF Cut
<1>3. r = [i \in 1..m |-> IF i < k THEN s[i] ELSE s[i + 1]]
    BY DEF Cut
<1>4. \A i \in 1..m : (IF i < k THEN s[i] ELSE s[i + 1]) \in PTimer
    BY <1>1
<1>5. r \in [1..m -> PTimer]
    BY <1>3, <1>4
<1> HIDE DEF r, m
<1>6. r \in Seq(PTimer)
    BY <1>1, <1>5
<1>7. Len(r) = m
    BY <1>1, <1>5, <1>6
<1>8. Injective(r)
    BY <1>1, <1>2, <1>7 DEF Injective
<1>9. ASSUME NEW i \in 1..m
      PROVE  r[i] \in Elements(s) \ {s[k]}
    BY <1>1, <1>2 DEF Elements, Injective
<1>10. ASSUME NEW j \in 1..Len(s), s[j] # s[k]
       PROVE  \E i \in 1..m : r[i] = s[j]
  <2>1. CASE j < k
      BY <1>1, <1>2, <2>1
  <2>2. CASE j > k
    <3>1. j - 1 \in 1..m /\ j - 1 >= k
        BY <1>1, <2>2
    <3>2. r[j - 1] = s[(j - 1) + 1]
        BY <1>2, <3>1
    <3> QED
        BY <3>1, <3>2
  <2> QED
      BY <1>10, <2>1, <2>2
<1>11. Elements(r) = Elements(s) \ {s[k]}
  <2>1. Elements(r) \subseteq Elements(s) \ {s[k]}
      BY <1>7, <1>9 DEF Elements
  <2>2. ASSUME NEW e \in Elements(s) \ {s[k]}
        PROVE  e \in Elements(r)
    <3>1. PICK j \in 1..Len(s) : e = s[j]
        BY DEF Elements
    <3> QED
        BY <1>7, <1>10, <3>1 DEF Elements
  <2> QED
      BY <2>1, <2>2
<1> QED
    BY <1>6, <1>7, <1>8, <1>11 DEF r, m

\* Taken off at the head, or by the link of the timer before.
LEMMA CutChain ==
    ASSUME NEW s \in Seq(PTimer), Injective(s), NEW k \in 1..Len(s),
           NEW links, NEW h, Chain(s, links, h), NEW other, NEW g,
           k = 1 => g = links[s[k]] /\ other = links,
           k > 1 => g = h,
           \A i \in 1..Len(s) :
                other[s[i]] = IF links[s[i]] = s[k] THEN links[s[k]] ELSE links[s[i]]
    PROVE  Chain(Cut(s, k), other, g)
<1> DEFINE r == Cut(s, k)
           m == Len(s) - 1
<1>1. /\ Len(s) \in Nat /\ m \in Nat /\ Len(s) = m + 1
      /\ \A i \in 1..Len(s) : s[i] \in PTimer /\ s[i] # NoTimer
    BY SeqFacts
<1>2. Len(r) = m /\ r \in Seq(PTimer)
    BY CutFacts
<1>3. ASSUME NEW i \in 1..m
      PROVE  /\ i < k => i \in 1..Len(s) /\ r[i] = s[i]
             /\ i >= k => i + 1 \in 1..Len(s) /\ r[i] = s[i + 1]
    BY <1>1 DEF Cut
<1>4. r = <<>> <=> m = 0
    BY <1>2, SeqFacts
<1> HIDE DEF r, m
<1>5. \A i \in 1..Len(s) : links[s[i]] = IF i < Len(s) THEN s[i + 1] ELSE NoTimer
    BY DEF Chain
<1>6. h = s[1]
    BY <1>1, SeqFacts DEF Chain
<1>7. g = IF r = <<>> THEN NoTimer ELSE r[1]
  <2>1. CASE k = 1
    <3>1. g = links[s[1]]
        BY <2>1
    <3>2. CASE m = 0
        BY <1>1, <1>4, <1>5, <3>1, <3>2
    <3>3. CASE m > 0
      <4>1. 1 \in 1..m /\ 1 \in 1..Len(s) /\ 1 < Len(s)
          BY <1>1, <3>3
      <4>2. r[1] = s[1 + 1]
          BY <1>3, <2>1, <4>1
      <4>3. links[s[1]] = s[1 + 1]
          BY <1>5, <4>1
      <4> QED
          BY <1>4, <3>1, <3>3, <4>2, <4>3
    <3> QED
        BY <1>1, <3>2, <3>3
  <2>2. CASE k > 1
    <3>1. 1 \in 1..m /\ m > 0
        BY <1>1, <2>2
    <3>2. r[1] = s[1]
        BY <1>3, <2>2, <3>1
    <3> QED
        BY <1>4, <1>6, <2>2, <3>1, <3>2
  <2> QED
      BY <1>1, <2>1, <2>2
<1>8. ASSUME NEW i \in 1..m
      PROVE  other[r[i]] = IF i < m THEN r[i + 1] ELSE NoTimer
  <2>1. CASE i >= k
    <3>1. i + 1 \in 1..Len(s) /\ r[i] = s[i + 1]
        BY <1>3, <2>1
    <3>2. links[s[i + 1]] = IF i + 1 < Len(s) THEN s[(i + 1) + 1] ELSE NoTimer
        BY <1>5, <3>1
    <3>3. links[s[i + 1]] # s[k]
      <4>1. CASE i + 1 < Len(s)
        <5>1. (i + 1) + 1 \in 1..Len(s) /\ (i + 1) + 1 # k
            BY <1>1, <2>1, <3>1, <4>1
        <5>2. s[(i + 1) + 1] # s[k]
            BY <5>1 DEF Injective
        <5> QED
            BY <3>2, <4>1, <5>2
      <4>2. CASE ~(i + 1 < Len(s))
          BY <1>1, <3>2, <4>2
      <4> QED
          BY <4>1, <4>2
    <3>4. other[r[i]] = links[s[i + 1]]
        BY <3>1, <3>3
    <3>5. CASE i < m
      <4>1. i + 1 \in 1..m /\ i + 1 >= k /\ i + 1 < Len(s)
          BY <1>1, <2>1, <3>5
      <4>2. r[i + 1] = s[(i + 1) + 1]
          BY <1>3, <4>1
      <4> QED
          BY <3>2, <3>4, <3>5, <4>1, <4>2
    <3>6. CASE ~(i < m)
        BY <1>1, <3>2, <3>4, <3>6
    <3> QED
        BY <3>5, <3>6
  <2>2. CASE i + 1 = k
    <3>1. i \in 1..Len(s) /\ r[i] = s[i] /\ i < Len(s)
        BY <1>1, <1>3, <2>2
    <3>2. links[s[i]] = s[k]
        BY <1>5, <2>2, <3>1
    <3>3. other[r[i]] = links[s[k]]
        BY <3>1, <3>2
    <3>4. links[s[k]] = IF k < Len(s) THEN s[k + 1] ELSE NoTimer
        BY <1>5
    <3>5. CASE i < m
      <4>1. i + 1 \in 1..m /\ i + 1 >= k /\ k < Len(s)
          BY <1>1, <2>2, <3>5
      <4>2. r[i + 1] = s[(i + 1) + 1]
          BY <1>3, <4>1
      <4> QED
          BY <2>2, <3>3, <3>4, <3>5, <4>1, <4>2
    <3>6. CASE ~(i < m)
        BY <1>1, <2>2, <3>3, <3>4, <3>6
    <3> QED
        BY <3>5, <3>6
  <2>3. CASE i + 1 < k
    <3>1. /\ i \in 1..Len(s) /\ r[i] = s[i] /\ i < Len(s)
          /\ i + 1 \in 1..m /\ i < m /\ r[i + 1] = s[i + 1]
          /\ i + 1 \in 1..Len(s)
        BY <1>1, <1>3, <2>3
    <3>2. links[s[i]] = s[i + 1]
        BY <1>5, <3>1
    <3>3. s[i + 1] # s[k]
        BY <2>3, <3>1 DEF Injective
    <3> QED
        BY <3>1, <3>2, <3>3
  <2> QED
      BY <1>1, <2>1, <2>2, <2>3
<1>9. Chain(r, other, g)
    BY <1>2, <1>7, <1>8 DEF Chain
<1> QED
    BY <1>9 DEF r

\* Changes of the next field of a timer that is not on the chain do not matter.
LEMMA ChainSame ==
    ASSUME NEW s \in Seq(PTimer), NEW links, NEW other, NEW h, Chain(s, links, h),
           \A i \in 1..Len(s) : other[s[i]] = links[s[i]]
    PROVE  Chain(s, other, h)
BY DEF Chain

LEMMA UnlinkFacts ==
    ASSUME Fields, NEW s, Represents(s), NEW t \in PTimer, Unlink(t)
    PROVE  \E r : /\ r \in Seq(PTimer) /\ Injective(r)
                  /\ Chain(r, next', process_timer_head')
                  /\ Elements(r) = started \ {t}
                  /\ next' \in [PTimer -> Maybe] /\ process_timer_head' \in Maybe
<1>1. /\ s \in Seq(PTimer) /\ Injective(s) /\ started = Elements(s)
      /\ Chain(s, next, process_timer_head)
    BY DEF Represents
<1>2. \A q : Contains(Listed, q) <=> q \in started
    BY ListedIs
<1>3. /\ Len(s) \in Nat /\ \A i \in 1..Len(s) : s[i] \in PTimer /\ s[i] # NoTimer
    BY <1>1, SeqFacts
<1>4. next' \in [PTimer -> Maybe] /\ process_timer_head' \in Maybe
  <2>1. next \in [PTimer -> Maybe] /\ process_timer_head \in Maybe
      BY DEF Fields
  <2>2. CASE t = process_timer_head
      BY <2>1, <2>2 DEF Unlink
  <2>3. CASE t # process_timer_head
      BY <2>1, <2>3 DEF Unlink
  <2> QED
      BY <2>2, <2>3
<1>5. CASE t \notin started
  <2>1. t # process_timer_head
      BY <1>1, <1>3, <1>5, SeqFacts, ProcessTimerAssumption DEF Chain, Elements
  <2>2. \A i \in 1..Len(s) : next[s[i]] # t
    <3> SUFFICES ASSUME NEW i \in 1..Len(s)
                 PROVE  next[s[i]] # t
        OBVIOUS
    <3>1. next[s[i]] = IF i < Len(s) THEN s[i + 1] ELSE NoTimer
        BY <1>1 DEF Chain
    <3>2. i < Len(s) => i + 1 \in 1..Len(s)
        BY <1>3
    <3> QED
        BY <1>1, <1>5, <3>1, <3>2, ProcessTimerAssumption DEF Elements
  <2>3. /\ process_timer_head' = process_timer_head
        /\ \A i \in 1..Len(s) : next'[s[i]] = next[s[i]]
      BY <1>3, <2>1, <2>2 DEF Unlink
  <2>4. Chain(s, next', process_timer_head')
      BY <1>1, <2>3, ChainSame
  <2>5. Elements(s) = started \ {t}
      BY <1>1, <1>5
  <2> QED
      BY <1>1, <1>4, <2>4, <2>5
<1>6. CASE t \in started
  <2>1. PICK k \in 1..Len(s) : t = s[k]
      BY <1>1, <1>6 DEF Elements
  <2>2. process_timer_head = s[1] /\ 1 \in 1..Len(s)
      BY <1>1, <1>3, <2>1, SeqFacts DEF Chain
  <2>3. k = 1 <=> t = process_timer_head
      BY <1>1, <2>1, <2>2 DEF Injective
  <2>4. k = 1 => process_timer_head' = next[s[k]] /\ next' = next
      BY <2>1, <2>3 DEF Unlink
  <2>5. k > 1 => process_timer_head' = process_timer_head
      BY <2>1, <2>3 DEF Unlink
  <2>6. ASSUME NEW i \in 1..Len(s)
        PROVE  next'[s[i]] = IF next[s[i]] = s[k] THEN next[s[k]] ELSE next[s[i]]
    <3>1. CASE k = 1
      <4>1. next[s[i]] = IF i < Len(s) THEN s[i + 1] ELSE NoTimer
          BY <1>1 DEF Chain
      <4>2. i < Len(s) => i + 1 \in 1..Len(s) /\ i + 1 # k
          BY <1>3, <3>1
      <4>3. next[s[i]] # s[k]
          BY <1>1, <1>3, <2>1, <4>1, <4>2 DEF Injective
      <4> QED
          BY <2>4, <3>1, <4>3
    <3>2. CASE k > 1
      <4>1. t # process_timer_head
          BY <2>3, <3>2
      <4>2. s[i] \in PTimer /\ s[i] \in started
          BY <1>1, <1>3 DEF Elements
      <4> QED
          BY <1>2, <2>1, <4>1, <4>2 DEF Unlink
    <3> QED
        BY <1>3, <3>1, <3>2
  <2>7. Chain(Cut(s, k), next', process_timer_head')
      BY <1>1, <2>4, <2>5, <2>6, CutChain
  <2>8. /\ Cut(s, k) \in Seq(PTimer) /\ Injective(Cut(s, k))
        /\ Elements(Cut(s, k)) = started \ {t}
      BY <1>1, <2>1, CutFacts
  <2> QED
      BY <1>4, <2>7, <2>8
<1> QED
    BY <1>5, <1>6

LEMMA PushedFacts ==
    ASSUME NEW s \in Seq(PTimer), Injective(s), NEW t \in PTimer, t \notin Elements(s)
    PROVE  /\ Pushed(s, t) \in Seq(PTimer)
           /\ Len(Pushed(s, t)) = Len(s) + 1
           /\ Injective(Pushed(s, t))
           /\ Elements(Pushed(s, t)) = Elements(s) \cup {t}
<1> DEFINE r == Pushed(s, t)
           m == Len(s) + 1
<1>1. Len(s) \in Nat /\ m \in Nat /\ \A i \in 1..Len(s) : s[i] \in PTimer
    BY SeqFacts
<1>2. r = [i \in 1..m |-> IF i = 1 THEN t ELSE s[i - 1]]
    BY DEF Pushed
<1>3. \A i \in 1..m : (IF i = 1 THEN t ELSE s[i - 1]) \in PTimer
    BY <1>1
<1>4. r \in [1..m -> PTimer]
    BY <1>2, <1>3
<1>5. ASSUME NEW i \in 1..m
      PROVE  /\ i = 1 => r[i] = t
             /\ i # 1 => i - 1 \in 1..Len(s) /\ r[i] = s[i - 1]
    BY <1>1, <1>2
<1> HIDE DEF r
<1>6. r \in Seq(PTimer)
    BY <1>1, <1>4
<1>7. Len(r) = m
    BY <1>1, <1>4, <1>6
<1>8. Injective(r)
    BY <1>1, <1>5, <1>7 DEF Injective, Elements
<1>9. ASSUME NEW j \in 1..Len(s)
      PROVE  \E i \in 1..m : r[i] = s[j]
  <2>1. j + 1 \in 1..m /\ j + 1 # 1 /\ (j + 1) - 1 = j
      BY <1>1
  <2> QED
      BY <1>5, <2>1
<1>10. 1 \in 1..m /\ r[1] = t
    BY <1>1, <1>5
<1>11. Elements(r) = Elements(s) \cup {t}
    BY <1>5, <1>7, <1>9, <1>10 DEF Elements
<1> QED
    BY <1>6, <1>7, <1>8, <1>11 DEF r

LEMMA PushedChain ==
    ASSUME NEW s \in Seq(PTimer), Injective(s), NEW t \in PTimer, t \notin Elements(s),
           NEW h, NEW links \in [PTimer -> Maybe], Chain(s, links, h)
    PROVE  Chain(Pushed(s, t), [links EXCEPT ![t] = h], t)
<1> DEFINE r == Pushed(s, t)
           m == Len(s) + 1
           other == [links EXCEPT ![t] = h]
<1>1. /\ Len(s) \in Nat /\ m \in Nat
      /\ \A i \in 1..Len(s) : s[i] \in PTimer /\ s[i] # t
    BY SeqFacts DEF Elements
<1>2. r \in Seq(PTimer) /\ Len(r) = m
    BY PushedFacts
<1>3. ASSUME NEW i \in 1..m
      PROVE  /\ i = 1 => r[i] = t
             /\ i # 1 => i - 1 \in 1..Len(s) /\ r[i] = s[i - 1]
    BY <1>1 DEF Pushed
<1>4. other[t] = h /\ \A i \in 1..Len(s) : other[s[i]] = links[s[i]]
    BY <1>1
<1>5. s = <<>> <=> Len(s) = 0
    BY SeqFacts
<1> HIDE DEF r, other
<1>6. r # <<>> /\ r[1] = t
    BY <1>1, <1>2, <1>3, SeqFacts
<1>7. ASSUME NEW i \in 1..m
      PROVE  other[r[i]] = IF i < m THEN r[i + 1] ELSE NoTimer
  <2>1. CASE i = 1
    <3>1. other[r[i]] = IF s = <<>> THEN NoTimer ELSE s[1]
        BY <1>3, <1>4, <2>1 DEF Chain
    <3>2. i < m => i + 1 \in 1..m /\ i + 1 # 1 /\ r[i + 1] = s[1]
        BY <1>1, <1>3, <2>1
    <3> QED
        BY <1>1, <1>5, <2>1, <3>1, <3>2
  <2>2. CASE i # 1
    <3>1. i - 1 \in 1..Len(s) /\ r[i] = s[i - 1]
        BY <1>3, <2>2
    <3>2. other[r[i]] = IF i - 1 < Len(s) THEN s[(i - 1) + 1] ELSE NoTimer
        BY <1>4, <3>1 DEF Chain
    <3>3. i < m => i + 1 \in 1..m /\ i + 1 # 1 /\ (i + 1) - 1 = (i - 1) + 1
        BY <1>1, <2>2
    <3>4. i < m => r[i + 1] = s[(i + 1) - 1]
        BY <1>3, <3>3
    <3> QED
        BY <1>1, <3>2, <3>3, <3>4
  <2> QED
      BY <2>1, <2>2
<1>8. Chain(r, other, t)
    BY <1>2, <1>6, <1>7 DEF Chain
<1> QED
    BY <1>8 DEF r, other

----------------------------------------------------------------------------
(* The invariant.                                                          *)

AllInTime(S, tm, now, d) == \A t \in S : InTime(tm[t], now, d)

LEMMA InTimeGrows ==
    ASSUME NEW t \in Milliseconds, NEW now \in Count, NEW d \in Int, NEW e \in Int,
           d <= e, InTime(t, now, d)
    PROVE  InTime(t, now, e)
<1>1. t.start \in Count /\ t.interval \in Interval \cup {0}
    BY DEF Milliseconds
<1>2. (now - t.start) % Word \in Count
    BY <1>1, Elapses
<1>3. t.interval \in Nat /\ (now - t.start) % Word \in Int
    BY <1>1, <1>2, IntervalIs, WordIs DEF Count
<1> QED
    BY <1>3 DEF InTime

\* Each timer of the list is late by the rest of one pass and this one at most.
LEMMA NotLater ==
    ASSUME Fields, NEW s, Represents(s)
    PROVE  AllInTime(started, timer, clock_ms, MaxLag + lag)
<1> SUFFICES ASSUME NEW i \in 1..Len(s)
             PROVE  InTime(timer[s[i]], clock_ms, MaxLag + lag)
    BY DEF Represents, Elements, AllInTime
<1>1. s \in Seq(PTimer)
    BY DEF Represents
<1>2. s[i] \in PTimer
    BY <1>1, SeqFacts
<1>3. timer[s[i]] \in Milliseconds /\ clock_ms \in Count
    BY <1>2 DEF Fields
<1>4. lag \in Int /\ MaxLag + lag \in Int /\ lag <= MaxLag + lag
    BY WordIs DEF Fields
<1>5. \/ InTime(timer[s[i]], clock_ms, lag)
      \/ InTime(timer[s[i]], clock_ms, MaxLag + lag)
    BY DEF Represents
<1> QED
    BY <1>3, <1>4, <1>5, InTimeGrows

\* The next state, if no search is under way or one begins.
LEMMA NextList ==
    ASSUME Fields', at' # "search" \/ tmp' = process_timer_head',
           NEW r \in Seq(PTimer), Injective(r), Chain(r, next', process_timer_head'),
           started' = Elements(r),
           AllInTime(Elements(r), timer', clock_ms', MaxLag + lag')
    PROVE  IInv'
<1>1. ASSUME NEW i \in 1..Len(r)
      PROVE  ~Passed(r, i, at', tmp')
  <2>1. 1 \in 1..i /\ r[1] = process_timer_head'
      BY SeqFacts DEF Chain
  <2> QED
      BY <2>1 DEF Passed
<1>2. \A i \in 1..Len(r) :
        InTime(timer'[r[i]], clock_ms', IF Passed(r, i, at', tmp') THEN lag' ELSE MaxLag + lag')
    BY <1>1 DEF AllInTime, Elements
<1>3. Represents(r)'
    BY <1>2 DEF Represents
<1>4. (at = "search" /\ tmp # NoTimer => tmp \in started)'
    BY SeqFacts DEF Chain, Elements
<1> QED
    BY <1>3, <1>4 DEF IInv

LEMMA StartStep ==
    ASSUME IInv, NEW t \in PTimer, NEW i \in Interval, scheduler_timer_start(t, i)
    PROVE  IInv'
<1>1. PICK s : Represents(s)
    BY DEF IInv
<1>2. /\ Fields /\ s \in Seq(PTimer) /\ Injective(s) /\ started = Elements(s)
      /\ Chain(s, next, process_timer_head)
    BY <1>1 DEF IInv, Represents
<1> DEFINE new == timer_start("TIMER_MS", i)
<1>3. new \in Milliseconds /\ new.start = clock_ms /\ new.interval = i
    BY <1>2 DEF timer_start, timer_tstamp, clock_get_milis, Milliseconds, Fields
<1> HIDE DEF new
<1>4. /\ UNCHANGED <<clock, at, tmp, lag>> /\ at # "search"
      /\ timer' = [timer EXCEPT ![t] = new]
      /\ started' = started \cup {t}
    BY DEF scheduler_timer_start, UserCode, new
<1>5. clock_ms' = clock_ms
    BY <1>4 DEF clock
<1>6. timer' \in [PTimer -> Milliseconds]
    BY <1>2, <1>3, <1>4 DEF Fields
<1>7. AllInTime(started', timer', clock_ms', MaxLag + lag')
  <2>1. InTime(new, clock_ms, MaxLag + lag)
    <3>1. (clock_ms - clock_ms) % Word = 0
        BY <1>2, Elapses DEF Fields
    <3>2. i \in Nat /\ lag \in Nat
        BY <1>2, IntervalIs, WordIs DEF Fields
    <3> QED
        BY <1>3, <3>1, <3>2, WordIs DEF InTime
  <2>2. AllInTime(started, timer, clock_ms, MaxLag + lag)
      BY <1>1, <1>2, NotLater
  <2>3. \A u \in PTimer : timer'[u] = IF u = t THEN new ELSE timer[u]
      BY <1>2, <1>4 DEF Fields
  <2>4. started \subseteq PTimer
      BY <1>2, SeqFacts DEF Elements
  <2> QED
      BY <1>4, <1>5, <2>1, <2>2, <2>3, <2>4 DEF AllInTime
<1>8. CASE Contains(Listed, t) /\ UNCHANGED list
  <2>1. started' = Elements(s)
      BY <1>1, <1>2, <1>4, <1>8, ListedIs
  <2>2. Chain(s, next', process_timer_head') /\ Fields'
      BY <1>2, <1>4, <1>5, <1>6, <1>8 DEF list, Fields
  <2> QED
      BY <1>2, <1>4, <1>7, <2>1, <2>2, NextList
<1>9. CASE /\ ~Contains(Listed, t)
           /\ next' = [next EXCEPT ![t] = process_timer_head]
           /\ process_timer_head' = t
  <2>1. t \notin Elements(s)
      BY <1>1, <1>2, <1>9, ListedIs
  <2>2. /\ Pushed(s, t) \in Seq(PTimer) /\ Injective(Pushed(s, t))
        /\ started' = Elements(Pushed(s, t))
      BY <1>2, <1>4, <2>1, PushedFacts
  <2>3. Chain(Pushed(s, t), next', process_timer_head')
      BY <1>2, <1>9, <2>1, PushedChain DEF Fields
  <2>4. Fields'
      BY <1>2, <1>4, <1>5, <1>6, <1>9 DEF Fields, Maybe
  <2> QED
      BY <1>4, <1>7, <2>2, <2>3, <2>4, NextList
<1> QED
    BY <1>8, <1>9 DEF scheduler_timer_start

\* A timer is stopped and taken off the list.
LEMMA TakenOff ==
    ASSUME IInv, NEW t \in PTimer, Unlink(t), timer' = [timer EXCEPT ![t] = timer_stop],
           started' = started \ {t}, UNCHANGED <<clock, tmp, lag>>,
           at' \in {"idle", "thread"}
    PROVE  IInv'
<1>1. PICK s : Represents(s)
    BY DEF IInv
<1>2. PICK r : /\ r \in Seq(PTimer) /\ Injective(r)
               /\ Chain(r, next', process_timer_head')
               /\ Elements(r) = started \ {t}
               /\ next' \in [PTimer -> Maybe] /\ process_timer_head' \in Maybe
    BY <1>1, UnlinkFacts DEF IInv
<1>3. clock_ms' = clock_ms /\ lag' = lag /\ tmp' = tmp /\ Fields
    BY DEF clock, IInv
<1>4. timer_stop \in Milliseconds
    BY WordIs DEF timer_stop, Milliseconds, Count
<1>5. timer' \in [PTimer -> Milliseconds] /\ \A u \in PTimer : u # t => timer'[u] = timer[u]
    BY <1>3, <1>4 DEF Fields
<1>6. Fields'
    BY <1>2, <1>3, <1>5 DEF Fields
<1>7. AllInTime(started, timer, clock_ms, MaxLag + lag)
    BY <1>1, <1>3, NotLater
<1>8. Elements(r) \subseteq PTimer
    BY <1>2, SeqFacts DEF Elements
<1>9. AllInTime(Elements(r), timer', clock_ms', MaxLag + lag')
    BY <1>2, <1>3, <1>5, <1>7, <1>8 DEF AllInTime
<1> QED
    BY <1>2, <1>6, <1>9, NextList

\* The handler begins a pass, ends it, or searches from the head again.
LEMMA PassStep ==
    ASSUME IInv, HandlerBegins \/ ThreadReturns \/ HandlerReturns
    PROVE  IInv'
<1>1. PICK s : Represents(s)
    BY DEF IInv
<1>2. /\ Fields /\ s \in Seq(PTimer) /\ Injective(s) /\ started = Elements(s)
      /\ Chain(s, next, process_timer_head)
    BY <1>1 DEF IInv, Represents
<1>3. UNCHANGED <<clock, list, timer, started>>
    BY DEF HandlerBegins, ThreadReturns, HandlerReturns
<1>4. /\ clock_ms' = clock_ms /\ next' = next
      /\ process_timer_head' = process_timer_head
    BY <1>3 DEF clock, list
<1>5. /\ at' # "search" \/ tmp' = process_timer_head'
      /\ at' \in {"idle", "search"} /\ tmp' \in Maybe
      /\ lag' = lag \/ (HandlerReturns /\ lag' = 0)
  <2>1. process_timer_head \in Maybe /\ tmp \in Maybe
      BY <1>2 DEF Fields
  <2>2. CASE HandlerBegins
      BY <1>4, <2>1, <2>2 DEF HandlerBegins
  <2>3. CASE ThreadReturns
      BY <1>4, <2>1, <2>3 DEF ThreadReturns
  <2>4. CASE HandlerReturns
      BY <2>1, <2>4 DEF HandlerReturns
  <2> QED
      BY <2>2, <2>3, <2>4
<1>6. Fields'
    BY <1>2, <1>3, <1>4, <1>5, WordIs DEF Fields
<1>7. AllInTime(started, timer, clock_ms, MaxLag + lag')
  <2>1. CASE lag' = lag
      BY <1>1, <1>2, <2>1, NotLater
  <2>2. CASE HandlerReturns /\ lag' = 0
    <3> SUFFICES ASSUME NEW i \in 1..Len(s)
                 PROVE  InTime(timer[s[i]], clock_ms, MaxLag + 0)
        BY <1>2, <2>2 DEF AllInTime, Elements
    <3>1. at = "search" /\ tmp = NoTimer
        BY <2>2 DEF HandlerReturns
    <3>2. Len(s) \in Nat /\ \A j \in 1..Len(s) : s[j] \in PTimer /\ s[j] # NoTimer
        BY <1>2, SeqFacts
    <3>3. Passed(s, i, at, tmp)
        BY <3>1, <3>2 DEF Passed
    <3>4. InTime(timer[s[i]], clock_ms, lag)
        BY <1>1, <3>3 DEF Represents
    <3>5. timer[s[i]] \in Milliseconds /\ clock_ms \in Count
        BY <1>2, <3>2 DEF Fields
    <3>6. lag \in Int /\ MaxLag + 0 \in Int /\ lag <= MaxLag + 0
        BY <1>2, WordIs DEF Fields
    <3> QED
        BY <3>4, <3>5, <3>6, InTimeGrows
  <2> QED
      BY <1>5, <2>1, <2>2
<1>8. AllInTime(Elements(s), timer', clock_ms', MaxLag + lag')
    BY <1>2, <1>3, <1>4, <1>7
<1> QED
    BY <1>2, <1>3, <1>4, <1>5, <1>6, <1>8, NextList

LEMMA SearchStep ==
    ASSUME IInv, SearchGoesOn
    PROVE  IInv'
<1>1. PICK s : Represents(s)
    BY DEF IInv
<1>2. /\ Fields /\ s \in Seq(PTimer) /\ Injective(s) /\ started = Elements(s)
      /\ Chain(s, next, process_timer_head) /\ tmp \in started
    BY <1>1 DEF IInv, Represents, SearchGoesOn
<1>3. /\ at = "search" /\ tmp # NoTimer /\ ~timer_expired(timer[tmp])
      /\ tmp' = next[tmp] /\ at' = at /\ lag' = lag
      /\ UNCHANGED <<clock, list, timer, started>>
    BY DEF SearchGoesOn
<1>4. /\ clock_ms' = clock_ms /\ next' = next
      /\ process_timer_head' = process_timer_head
    BY <1>3 DEF clock, list
<1>5. PICK k \in 1..Len(s) : tmp = s[k]
    BY <1>2 DEF Elements
<1>6. Len(s) \in Nat /\ \A i \in 1..Len(s) : s[i] \in PTimer /\ s[i] # NoTimer
    BY <1>2, SeqFacts
<1>7. tmp' = IF k < Len(s) THEN s[k + 1] ELSE NoTimer
    BY <1>2, <1>3, <1>5 DEF Chain
<1>8. k < Len(s) => k + 1 \in 1..Len(s)
    BY <1>6
<1>9. Fields'
    BY <1>2, <1>3, <1>4, <1>6, <1>7, <1>8 DEF Fields, Maybe
<1>10. tmp' # NoTimer => tmp' \in started'
    BY <1>2, <1>3, <1>7, <1>8 DEF Elements
<1>11. ASSUME NEW i \in 1..Len(s)
       PROVE  InTime(timer[s[i]], clock_ms,
                     IF Passed(s, i, at', tmp') THEN lag ELSE MaxLag + lag)
  <2>1. CASE i < k
    <3>1. Passed(s, i, at, tmp)
        BY <1>2, <1>3, <1>5, <1>6, <2>1 DEF Passed, Injective
    <3>2. Passed(s, i, at', tmp')
        BY <1>2, <1>3, <1>6, <1>7, <1>8, <2>1 DEF Passed, Injective
    <3> QED
        BY <1>1, <3>1, <3>2 DEF Represents
  <2>2. CASE i = k
    <3>1. Passed(s, i, at', tmp')
        BY <1>2, <1>3, <1>6, <1>7, <1>8, <2>2 DEF Passed, Injective
    <3>2. timer[tmp] \in Milliseconds /\ clock_ms \in Count /\ lag \in Nat
        BY <1>2, <1>5, <1>6, WordIs DEF Fields
    <3>3. timer_value(timer[tmp]) = (clock_ms - timer[tmp].start) % Word
        BY <3>2 DEF timer_value, timer_tstamp, clock_get_milis, Milliseconds
    <3>4. timer[tmp].interval = 0 \/ ~((clock_ms - timer[tmp].start) % Word >= timer[tmp].interval)
        BY <1>3, <3>3 DEF timer_expired
    <3>5. timer[tmp].start \in Count /\ timer[tmp].interval \in Nat
        BY <3>2, IntervalIs DEF Milliseconds
    <3>6. (clock_ms - timer[tmp].start) % Word \in Int
        BY <3>2, <3>5, Elapses, WordIs DEF Count
    <3>7. InTime(timer[tmp], clock_ms, lag)
        BY <3>2, <3>4, <3>5, <3>6 DEF InTime
    <3> QED
        BY <1>5, <2>2, <3>1, <3>7
  <2>3. CASE i > k
    <3>1. k + 1 \in 1..i /\ k \in 1..i /\ k < Len(s)
        BY <1>6, <2>3
    <3>2. ~Passed(s, i, at, tmp) /\ ~Passed(s, i, at', tmp')
        BY <1>5, <1>7, <3>1 DEF Passed
    <3> QED
        BY <1>1, <3>2 DEF Represents
  <2> QED
      BY <1>6, <2>1, <2>2, <2>3
<1>12. Represents(s)'
    BY <1>2, <1>3, <1>4, <1>11 DEF Represents
<1> QED
    BY <1>9, <1>10, <1>12 DEF IInv

LEMMA TickStep ==
    ASSUME IInv, Tick
    PROVE  IInv'
<1>1. PICK s : Represents(s)
    BY DEF IInv
<1>2. /\ Fields /\ s \in Seq(PTimer) /\ Injective(s) /\ started = Elements(s)
      /\ Chain(s, next, process_timer_head)
    BY <1>1 DEF IInv, Represents
<1>3. /\ lag < MaxLag /\ lag' = lag + 1 /\ lag \in Nat
      /\ clock_ms' = (clock_ms + 1) % Word
      /\ UNCHANGED <<list, timer, at, tmp, started>>
    BY <1>2 DEF Tick, clock_update, Fields
<1>4. /\ next' = next /\ process_timer_head' = process_timer_head
    BY <1>3 DEF list
<1>5. Fields'
  <2>1. clock_ms' \in Count
      BY <1>2, <1>3, Elapses DEF Fields
  <2>2. lag' \in 0..MaxLag
      BY <1>3, WordIs
  <2> QED
      BY <1>2, <1>3, <1>4, <2>1, <2>2 DEF Fields
<1>6. ASSUME NEW i \in 1..Len(s), NEW d \in {lag, MaxLag + lag},
             InTime(timer[s[i]], clock_ms, d)
      PROVE  InTime(timer[s[i]], clock_ms', d + 1)
  <2> DEFINE t == timer[s[i]]
             v == (clock_ms - t.start) % Word
  <2>1. s[i] \in PTimer
      BY <1>2, SeqFacts
  <2>2. t \in Milliseconds /\ clock_ms \in Count
      BY <1>2, <2>1 DEF Fields
  <2>3. /\ t.start \in Count /\ t.interval \in Nat
        /\ t.interval # 0 => t.interval + 2 * MaxLag <= Word
      BY <2>2, IntervalIs DEF Milliseconds
  <2>4. v \in Count /\ (v < Word - 1 => (clock_ms' - t.start) % Word = v + 1)
      BY <1>3, <2>2, <2>3, Elapses
  <2>5. d \in Nat /\ d < 2 * MaxLag
      BY <1>3, WordIs
  <2>6. t.interval # 0 => v < t.interval + d
      BY <1>6 DEF InTime
  <2> HIDE DEF v, t
  <2>7. ASSUME t.interval # 0
        PROVE  (clock_ms' - t.start) % Word < t.interval + (d + 1)
    <3>1. v \in Int /\ v < Word - 1
        BY <2>3, <2>4, <2>5, <2>6, <2>7, WordIs DEF Count
    <3> QED
        BY <2>3, <2>4, <2>5, <2>6, <2>7, <3>1
  <2>8. InTime(t, clock_ms', d + 1)
      BY <2>7 DEF InTime
  <2> QED
      BY <2>8 DEF t
<1>7. \A i \in 1..Len(s) :
        InTime(timer'[s[i]], clock_ms',
               IF Passed(s, i, at', tmp') THEN lag' ELSE MaxLag + lag')
  <2> SUFFICES ASSUME NEW i \in 1..Len(s)
               PROVE  InTime(timer[s[i]], clock_ms',
                             IF Passed(s, i, at, tmp) THEN lag + 1 ELSE MaxLag + (lag + 1))
      BY <1>3
  <2>1. InTime(timer[s[i]], clock_ms, IF Passed(s, i, at, tmp) THEN lag ELSE MaxLag + lag)
      BY <1>1 DEF Represents
  <2>2. (MaxLag + lag) + 1 = MaxLag + (lag + 1)
      BY <1>3, WordIs
  <2>3. CASE Passed(s, i, at, tmp)
      BY <1>6, <2>1, <2>3
  <2>4. CASE ~Passed(s, i, at, tmp)
      BY <1>6, <2>1, <2>2, <2>4
  <2> QED
      BY <2>3, <2>4
<1>8. Represents(s)'
    BY <1>2, <1>3, <1>4, <1>7 DEF Represents
<1>9. (at = "search" /\ tmp # NoTimer => tmp \in started)'
    BY <1>3 DEF IInv
<1> QED
    BY <1>5, <1>8, <1>9 DEF IInv

LEMMA Initially ==
    Init => IInv
<1> SUFFICES ASSUME Init PROVE IInv
    OBVIOUS
<1>1. timer_stop \in Milliseconds
    BY WordIs DEF timer_stop, Milliseconds, Count
<1>2. Fields
    BY <1>1, WordIs DEF Init, InitClock, Fields, Maybe, Count
<1>3. <<>> \in Seq(PTimer) /\ Len(<<>>) = 0
    BY EmptySeq
<1>4. Represents(<<>>)
    BY <1>3 DEF Represents, Injective, Chain, Elements, Init
<1> QED
    BY <1>2, <1>4 DEF IInv, Init

LEMMA StepKeeps ==
    IInv /\ [Next]_vars => IInv'
<1> SUFFICES ASSUME IInv, [Next]_vars PROVE IInv'
    OBVIOUS
<1>1. ASSUME NEW t \in PTimer, NEW i \in Interval, scheduler_timer_start(t, i)
      PROVE  IInv'
    BY <1>1, StartStep
<1>2. ASSUME NEW t \in PTimer, scheduler_timer_stop(t)
      PROVE  IInv'
  <2>1. /\ Unlink(t) /\ timer' = [timer EXCEPT ![t] = timer_stop]
        /\ started' = started \ {t} /\ UNCHANGED <<clock, tmp, lag>>
        /\ at' \in {"idle", "thread"}
      BY <1>2 DEF scheduler_timer_stop, UserCode
  <2> QED
      BY <2>1, TakenOff
<1>3. CASE TimerFires
  <2>1. tmp \in PTimer
      BY <1>3 DEF TimerFires, IInv, Fields, Maybe
  <2>2. /\ Unlink(tmp) /\ timer' = [timer EXCEPT ![tmp] = timer_stop]
        /\ started' = started \ {tmp} /\ UNCHANGED <<clock, tmp, lag>>
        /\ at' \in {"idle", "thread"}
      BY <1>3 DEF TimerFires
  <2> QED
      BY <2>1, <2>2, TakenOff
<1>4. CASE Tick
    BY <1>4, TickStep
<1>5. CASE SearchGoesOn
    BY <1>5, SearchStep
<1>6. CASE HandlerBegins \/ ThreadReturns \/ HandlerReturns
    BY <1>6, PassStep
<1>7. CASE UNCHANGED vars
  <2>1. /\ clock_ms' = clock_ms /\ next' = next /\ at' = at /\ tmp' = tmp /\ lag' = lag
        /\ process_timer_head' = process_timer_head
        /\ timer' = timer /\ started' = started
      BY <1>7 DEF vars, clock, list
  <2>2. Fields'
      BY <2>1 DEF IInv, Fields
  <2>3. \A s : Represents(s) => Represents(s)'
      BY <2>1 DEF Represents
  <2> QED
      BY <2>1, <2>2, <2>3 DEF IInv
<1> QED
    BY <1>1, <1>2, <1>3, <1>4, <1>5, <1>6, <1>7 DEF Next, Handler

\* The list is the chain of a sequence without repetitions, whose timers are those
\* that were started, none later than by the rest of one pass and the next one.
THEOREM IInvHolds ==
    Spec => []IInv
<1> QED
    BY Initially, StepKeeps, PTL DEF Spec

\* scheduler.c: a walk of the list comes past each timer that was started, and not
\* stopped or fired, once and ends: whatever the thread of an expired timer starts
\* and stops, the timer that fired and its neighbours on the list among them.
THEOREM ListIsRight ==
    Spec => []ListedIsStarted
<1>1. IInv => ListedIsStarted
    BY ListIs
<1> QED
    BY <1>1, IInvHolds, PTL

----------------------------------------------------------------------------
(* The refinement of TimerSet.                                             *)

\* What is left of the time of timer t, as Wait has it.
TimeLeft(S, tm, now, t) ==
    IF t \in S /\ tm[t].interval # 0
    THEN <<tm[t].interval - ((now - tm[t].start) % Word)>> ELSE <<>>

Waiting(S, tm, now) == [t \in PTimer |-> TimeLeft(S, tm, now, t)]

LEMMA ElementsAre ==
    ASSUME NEW s \in Seq(PTimer)
    PROVE  ToSet(s) = Elements(s) /\ Elements(s) \subseteq PTimer
BY SeqFacts DEF ToSet, Elements

LEMMA WaitIs ==
    ASSUME IInv
    PROVE  Wait = Waiting(started, timer, clock_ms)
<1>1. PICK s : Represents(s)
    BY DEF IInv
<1>2. ToSet(Listed) = started /\ started \subseteq PTimer
    BY <1>1, ListedIs, ElementsAre DEF IInv, Represents
<1>3. ASSUME NEW t \in PTimer
      PROVE  timer[t] \in Milliseconds
    BY DEF IInv, Fields
<1>4. \A t \in PTimer : timer_value(timer[t]) = (clock_ms - timer[t].start) % Word
    BY <1>3 DEF timer_value, timer_tstamp, clock_get_milis, Milliseconds
<1> QED
    BY <1>2, <1>4 DEF Wait, Waiting, TimeLeft, process_timer_running, timer_running

LEMMA WaitNext ==
    ASSUME IInv'
    PROVE  Wait' = Waiting(started', timer', clock_ms')
<1>1. PICK s : Represents(s)'
    BY DEF IInv
<1>2. ToSet(Listed') = started' /\ started' \subseteq PTimer
    BY <1>1, ListedNext, ElementsAre DEF IInv, Represents
<1>3. ASSUME NEW t \in PTimer
      PROVE  timer'[t] \in Milliseconds
    BY DEF IInv, Fields
<1>4. \A t \in PTimer : timer_value(timer[t])' = (clock_ms' - timer'[t].start) % Word
    BY <1>3 DEF timer_value, timer_tstamp, clock_get_milis, Milliseconds
<1> QED
    BY <1>2, <1>4 DEF Wait, Waiting, TimeLeft, process_timer_running, timer_running

\* S and T differ in t at most; g is f with x for t.
Agree(S, T, t) == \A u \in PTimer : u # t => (u \in S <=> u \in T)

Sets(f, g, t, x) == g = [f EXCEPT ![t] = x]

\* What a call or an event does to one timer.
LEMMA OneChanges ==
    ASSUME NEW S, NEW T, NEW tm \in [PTimer -> Milliseconds], NEW tn, NEW t \in PTimer,
           NEW x, NEW c, NEW y, Agree(S, T, t), Sets(tm, tn, t, x),
           TimeLeft(T, tn, c, t) = y
    PROVE  Sets(Waiting(S, tm, c), Waiting(T, tn, c), t, y)
<1>1. tn[t] = x /\ \A u \in PTimer : u # t => tn[u] = tm[u]
    BY DEF Sets
<1>2. \A u \in PTimer : u # t => TimeLeft(T, tn, c, u) = TimeLeft(S, tm, c, u)
    BY <1>1 DEF TimeLeft, Agree
<1>3. Waiting(T, tn, c) = [Waiting(S, tm, c) EXCEPT ![t] = TimeLeft(T, tn, c, t)]
    BY <1>2 DEF Waiting
<1> QED
    BY <1>3 DEF Sets

Event == IF at = "thread" THEN tmp ELSE NoTimer

LEMMA TickImplements ==
    ASSUME IInv, IInv', Tick
    PROVE  Abstract!Tick
<1> DEFINE W == Waiting(started, timer, clock_ms)
           X == Waiting(started', timer', clock_ms')
<1>1. Wait = W /\ Wait' = X
    BY WaitIs, WaitNext
<1>2. /\ lag < MaxLag /\ lag \in Nat /\ UNCHANGED <<timer, at, tmp, started>>
      /\ clock_ms' = (clock_ms + 1) % Word /\ clock_ms \in Count
    BY DEF Tick, clock_update, IInv, Fields
<1>3. AllInTime(started, timer, clock_ms, MaxLag + lag)
    BY NotLater DEF IInv
<1>4. ASSUME NEW t \in PTimer, t \in started, timer[t].interval # 0
      PROVE  /\ timer[t].interval - ((clock_ms - timer[t].start) % Word) > -(2 * MaxLag - 1)
             /\ timer[t].interval - ((clock_ms' - timer[t].start) % Word) =
                    (timer[t].interval - ((clock_ms - timer[t].start) % Word)) - 1
  <2> DEFINE i == timer[t].interval
             v == (clock_ms - timer[t].start) % Word
  <2>1. timer[t] \in Milliseconds
      BY DEF IInv, Fields
  <2>2. timer[t].start \in Count /\ i \in Nat /\ i + 2 * MaxLag <= Word
      BY <1>4, <2>1, IntervalIs DEF Milliseconds
  <2>3. v \in Count /\ (v < Word - 1 => (clock_ms' - timer[t].start) % Word = v + 1)
      BY <1>2, <2>2, Elapses
  <2>4. v < i + (MaxLag + lag)
      BY <1>3, <1>4 DEF AllInTime, InTime
  <2> HIDE DEF i, v
  <2>5. v \in Int /\ i - v > -(2 * MaxLag - 1) /\ v < Word - 1
      BY <1>2, <2>2, <2>3, <2>4, WordIs DEF Count
  <2>6. i - (v + 1) = (i - v) - 1
      BY <2>2, <2>5
  <2> QED
      BY <2>3, <2>5, <2>6 DEF i, v
<1>5. \A t \in PTimer : W[t] # <<>> => W[t][1] > -(2 * MaxLag - 1)
    BY <1>4 DEF Waiting, TimeLeft
<1>6. ASSUME NEW t \in PTimer
      PROVE  X[t] = IF W[t] = <<>> THEN <<>> ELSE <<W[t][1] - 1>>
    BY <1>2, <1>4 DEF Waiting, TimeLeft
<1>7. X = [t \in PTimer |-> IF W[t] = <<>> THEN <<>> ELSE <<W[t][1] - 1>>]
  <2>1. X = [t \in PTimer |-> X[t]]
      BY DEF Waiting
  <2> HIDE DEF X, W
  <2> QED
      BY <1>6, <2>1
<1>8. Event' = Event
    BY <1>2 DEF Event
<1> HIDE DEF X, W
<1> QED
    BY <1>1, <1>5, <1>7, <1>8 DEF Abstract!Tick, Event

LEMMA StartImplements ==
    ASSUME IInv, IInv', NEW t \in PTimer, NEW i \in Interval, scheduler_timer_start(t, i)
    PROVE  Abstract!Start(t, i)
<1> DEFINE new == timer_start("TIMER_MS", i)
<1>1. /\ Wait = Waiting(started, timer, clock_ms)
      /\ Wait' = Waiting(started', timer', clock_ms')
    BY WaitIs, WaitNext
<1>2. new.start = clock_ms /\ new.interval = i
    BY DEF timer_start, timer_tstamp, clock_get_milis
<1> HIDE DEF new
<1>3. /\ clock_ms' = clock_ms /\ at' = at /\ tmp' = tmp
      /\ timer' = [timer EXCEPT ![t] = new] /\ started' = started \cup {t}
      /\ clock_ms \in Count /\ timer \in [PTimer -> Milliseconds]
    BY DEF scheduler_timer_start, new, clock, IInv, Fields
<1>4. i \in Nat /\ (clock_ms - new.start) % Word = 0
    BY <1>2, <1>3, Elapses, IntervalIs
<1>5. TimeLeft(started', timer', clock_ms, t) = IF i = 0 THEN <<>> ELSE <<i>>
  <2>1. timer'[t] = new /\ i - 0 = i
      BY <1>3, <1>4
  <2> QED
      BY <1>2, <1>3, <1>4, <2>1 DEF TimeLeft
<1>6. Wait' = [Wait EXCEPT ![t] = IF i = 0 THEN <<>> ELSE <<i>>]
  <2>1. Agree(started, started', t) /\ Sets(timer, timer', t, new)
      BY <1>3 DEF Agree, Sets
  <2>2. Sets(Waiting(started, timer, clock_ms), Waiting(started', timer', clock_ms), t,
             IF i = 0 THEN <<>> ELSE <<i>>)
      BY <1>3, <1>5, <2>1, OneChanges, Zenon
  <2> QED
      BY <1>1, <1>3, <2>2 DEF Sets
<1> QED
    BY <1>3, <1>6 DEF Abstract!Start

LEMMA TakenOffWaits ==
    ASSUME IInv, IInv', NEW t \in PTimer, timer' = [timer EXCEPT ![t] = timer_stop],
           started' = started \ {t}, clock_ms' = clock_ms
    PROVE  Wait' = [Wait EXCEPT ![t] = <<>>]
<1>1. /\ Wait = Waiting(started, timer, clock_ms)
      /\ Wait' = Waiting(started', timer', clock_ms')
    BY WaitIs, WaitNext
<1>2. timer \in [PTimer -> Milliseconds] /\ t \notin started'
    BY DEF IInv, Fields
<1>3. Agree(started, started', t) /\ Sets(timer, timer', t, timer_stop)
    BY DEF Agree, Sets
<1>4. TimeLeft(started', timer', clock_ms, t) = <<>>
    BY <1>2 DEF TimeLeft
<1>5. Sets(Waiting(started, timer, clock_ms), Waiting(started', timer', clock_ms), t, <<>>)
    BY <1>2, <1>3, <1>4, OneChanges, Zenon
<1> QED
    BY <1>1, <1>5 DEF Sets

\* The timer that fires is one that runs, and is due.
LEMMA FireImplements ==
    ASSUME IInv, IInv', TimerFires
    PROVE  tmp \in PTimer /\ Abstract!Fire(tmp)
<1>1. /\ at = "search" /\ tmp # NoTimer /\ timer_expired(timer[tmp])
      /\ timer' = [timer EXCEPT ![tmp] = timer_stop] /\ started' = started \ {tmp}
      /\ clock_ms' = clock_ms /\ at' = "thread" /\ tmp' = tmp
    BY DEF TimerFires, clock
<1>2. tmp \in PTimer /\ tmp \in started /\ timer[tmp] \in Milliseconds /\ clock_ms \in Count
    BY <1>1 DEF IInv, Fields, Maybe
<1>3. Wait' = [Wait EXCEPT ![tmp] = <<>>]
    BY <1>1, <1>2, TakenOffWaits
<1>4. Wait = Waiting(started, timer, clock_ms)
    BY WaitIs
<1> DEFINE i == timer[tmp].interval
           v == (clock_ms - timer[tmp].start) % Word
<1>5. i # 0 /\ v >= i
    BY <1>1, <1>2 DEF timer_expired, timer_value, timer_tstamp, clock_get_milis, Milliseconds
<1>6. i \in Nat /\ v \in Int
    BY <1>2, IntervalIs, Elapses, WordIs DEF Milliseconds, Count
<1>7. Wait[tmp] = <<i - v>>
    BY <1>2, <1>4, <1>5 DEF Waiting, TimeLeft
<1> HIDE DEF i, v
<1>8. Wait[tmp] # <<>> /\ Wait[tmp][1] <= 0
    BY <1>5, <1>6, <1>7
<1>9. (IF at = "thread" THEN tmp ELSE NoTimer) = NoTimer
      /\ (IF at = "thread" THEN tmp ELSE NoTimer)' = tmp
    BY <1>1
<1> QED
    BY <1>2, <1>3, <1>8, <1>9 DEF Abstract!Fire

LEMMA StepImplements ==
    IInv /\ IInv' /\ [Next]_vars => [Abstract!Next]_<<Wait, Event>>
<1> SUFFICES ASSUME IInv, IInv', [Next]_vars
             PROVE  [Abstract!Next]_<<Wait, Event>>
    OBVIOUS
<1>1. ASSUME NEW t \in PTimer, NEW i \in Interval, scheduler_timer_start(t, i)
      PROVE  Abstract!Next
    BY <1>1, StartImplements DEF Abstract!Next
<1>2. ASSUME NEW t \in PTimer, scheduler_timer_stop(t)
      PROVE  Abstract!Next
  <2>1. /\ timer' = [timer EXCEPT ![t] = timer_stop] /\ started' = started \ {t}
        /\ clock_ms' = clock_ms /\ at' = at /\ tmp' = tmp
      BY <1>2 DEF scheduler_timer_stop, clock
  <2>2. Wait' = [Wait EXCEPT ![t] = <<>>]
      BY <2>1, TakenOffWaits
  <2>3. Abstract!Stop(t)
      BY <2>1, <2>2 DEF Abstract!Stop
  <2> QED
      BY <2>3 DEF Abstract!Next
<1>3. CASE TimerFires
    BY <1>3, FireImplements DEF Abstract!Next
<1>4. CASE Tick
    BY <1>4, TickImplements DEF Abstract!Next
<1>5. ASSUME UNCHANGED <<clock, timer, started>>
      PROVE  Wait' = Wait
  <2>1. clock_ms' = clock_ms /\ timer' = timer /\ started' = started
      BY <1>5 DEF clock
  <2> QED
      BY <2>1, WaitIs, WaitNext
<1>6. CASE ThreadReturns
  <2>1. UNCHANGED <<clock, timer, started>> /\ at' = "search"
      BY <1>6 DEF ThreadReturns
  <2>2. Abstract!Handled
      BY <1>5, <2>1 DEF Abstract!Handled
  <2> QED
      BY <2>2 DEF Abstract!Next
<1>7. CASE HandlerBegins \/ SearchGoesOn \/ HandlerReturns
  <2>1. UNCHANGED <<clock, timer, started>> /\ at # "thread" /\ at' # "thread"
      BY <1>7 DEF HandlerBegins, SearchGoesOn, HandlerReturns
  <2>2. Event' = Event
      BY <2>1 DEF Event
  <2> QED
      BY <1>5, <2>1, <2>2
<1>8. CASE UNCHANGED vars
  <2>1. UNCHANGED <<clock, timer, started>> /\ Event' = Event
      BY <1>8 DEF vars, Event
  <2> QED
      BY <1>5, <2>1
<1> QED
    BY <1>1, <1>2, <1>3, <1>4, <1>6, <1>7, <1>8 DEF Next, Handler

LEMMA InitImplements ==
    Init => Abstract!Init
<1> SUFFICES ASSUME Init PROVE Abstract!Init
    OBVIOUS
<1>1. Wait = Waiting({}, timer, clock_ms)
    BY Initially, WaitIs DEF Init
<1>2. Wait = [t \in PTimer |-> <<>>]
    BY <1>1 DEF Waiting, TimeLeft
<1>3. at # "thread"
    BY DEF Init
<1> QED
    BY <1>2, <1>3 DEF Abstract!Init

\* process-timer.c and the handler of scheduler.c: a timer that is started fires once,
\* in time, unless it is stopped or started again, and no other one does; also when
\* the clock wraps and when threads change the list that is being searched.
THEOREM TimerSetIsImplemented ==
    Spec => ImplementsTimerSet
<1>1. IInv /\ IInv' /\ [Next]_vars =>
            [Abstract!Next]_<<Wait, IF at = "thread" THEN tmp ELSE NoTimer>>
    BY StepImplements DEF Event
<1> QED
    BY <1>1, InitImplements, IInvHolds, PTL DEF Spec, ImplementsTimerSet, Abstract!Spec

===============================================================================
