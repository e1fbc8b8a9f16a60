---------------------------- MODULE MsgQueueProofs ----------------------------
(***************************************************************************)
(* Theorems about the message lists and the queue made of them, for every  *)
(* set of messages and every order of calls: no message is lost, a search  *)
(* finds what is pending, and the three linked lists are a priority queue. *)
(*                                                                         *)
(* The invariant says what sequence each list is a chain of (Chain), and   *)
(* that no message is twice in these sequences (Disjoint); Listed, which   *)
(* is a recursive walk along the links, is then shown to be that sequence  *)
(* (WalkIsChain).                                                          *)
(***************************************************************************)
EXTENDS MsgQueue, FiniteSetTheorems, SequenceTheorems, WellFoundedInduction, TLAPS

Maybe == Msg \cup {NoMsg}

\* s is the chain that begins at h and ends at t.
Chain(s, links, h, t) ==
    /\ h = IF s = <<>> THEN NoMsg ELSE s[1]
    /\ t = IF s = <<>> THEN NoMsg ELSE s[Len(s)]
    /\ \A i \in 1..Len(s) : links[s[i]] = IF i < Len(s) THEN s[i + 1] ELSE NoMsg

Disjoint(q) ==
    \A l, k \in List : \A i \in 1..Len(q[l]), j \in 1..Len(q[k]) :
        q[l][i] = q[k][j] => l = k /\ i = j

Elements(s) == {s[i] : i \in 1..Len(s)}

Fields ==
    /\ msg_head \in [List -> Maybe]
    /\ msg_tail \in [List -> Maybe]
    /\ length \in [List -> Nat]
    /\ next \in [Msg -> Maybe]
    /\ handed \in [List -> SUBSET Msg]

\* The lists are the chains of the sequences in q.
Represents(q) ==
    /\ q \in [List -> Seq(Msg)]
    /\ Disjoint(q)
    /\ \A l \in List : /\ Chain(q[l], next, msg_head[l], msg_tail[l])
                       /\ length[l] = Len(q[l])
                       /\ handed[l] = Elements(q[l])

IInv ==
    /\ Fields
    /\ \E q : Represents(q)

----------------------------------------------------------------------------
(* The walk.                                                               *)

\* The natural numbers are well ordered.
LEMMA LeastNumber ==
    ASSUME NEW T, T \subseteq Nat, T # {}
    PROVE  \E n \in T : \A m \in T : n <= m
<1>1. \E n \in T : \A m \in T : ~ (<<m, n>> \in OpToRel(<, Nat))
    BY NatLessThanWellFounded, WFMin
<1>2. PICK n \in T : \A m \in T : ~ (<<m, n>> \in OpToRel(<, Nat))
    BY <1>1
<1>3. \A m \in T : ~(m < n)
    BY <1>2 DEF OpToRel
<1> QED
    BY <1>3

\* One more step of the walk: w has those that are one step shorter.
Body(w, links, n) ==
    [m \in Maybe |-> IF n = 0 \/ m = NoMsg THEN <<>> ELSE <<m>> \o w[n - 1][links[m]]]

Recursion(w, links, k) == w = [n \in 0..k |-> Body(w, links, n)]

LEMMA WalkExists ==
    ASSUME NEW links \in [Msg -> Maybe], NEW k \in Nat
    PROVE  \E w : Recursion(w, links, k)
<1> DEFINE T == {j \in Nat : ~ \E w : Recursion(w, links, j)}
<1> SUFFICES ASSUME T # {} PROVE FALSE
    OBVIOUS
<1>1. PICK j \in T : \A i \in T : j <= i
    BY LeastNumber
<1>2. CASE j = 0
  <2> DEFINE w == [n \in 0..0 |-> [m \in Maybe |-> <<>>]]
  <2>1. \A n \in 0..0 : Body(w, links, n) = [m \in Maybe |-> <<>>]
      BY DEF Body
  <2>2. Recursion(w, links, 0)
      BY <2>1 DEF Recursion
  <2> QED
      BY <1>1, <1>2, <2>2
<1>3. CASE j > 0
  <2>1. j - 1 \in Nat /\ j - 1 \notin T
      BY <1>1, <1>3
  <2>2. PICK v : Recursion(v, links, j - 1)
      BY <2>1
  <2> DEFINE w == [n \in 0..j |-> Body(v, links, n)]
  <2>3. ASSUME NEW n \in 0..(j - 1)
        PROVE  v[n] = Body(v, links, n)
      BY <2>2 DEF Recursion
  <2>4. ASSUME NEW n \in 0..j
        PROVE  w[n] = Body(v, links, n)
      OBVIOUS
  <2>5. ASSUME NEW n \in 0..j
        PROVE  Body(v, links, n) = Body(w, links, n)
    <3>1. CASE n = 0
        BY <3>1 DEF Body
    <3>2. CASE n # 0
      <4>1. n - 1 \in 0..(j - 1) /\ n - 1 \in 0..j
          BY <3>2
      <4>2. v[n - 1] = w[n - 1]
          BY <4>1, <2>3, <2>4
      <4> HIDE DEF w
      <4> QED
          BY <4>2 DEF Body
    <3> QED
        BY <3>1, <3>2
  <2>6. w = [n \in 0..j |-> Body(w, links, n)]
      BY <2>5
  <2> QED
      BY <1>1, <2>6 DEF Recursion
<1> QED
    BY <1>1, <1>2, <1>3

\* The walk takes the first message, and goes on with the message behind it.
LEMMA WalkSteps ==
    ASSUME NEW links \in [Msg -> Maybe], NEW first
    PROVE  \E w : /\ Walk(links, first) = w[Cardinality(Msg) + 1][first]
                  /\ \A n \in 0..Cardinality(Msg) + 1 : w[n] = Body(w, links, n)
<1> DEFINE N == Cardinality(Msg) + 1
           w == CHOOSE f : f = [n \in 0..N |-> Body(f, links, n)]
<1>1. N \in Nat
    BY FS_CardinalityType, MsgListAssumption
<1>2. Walk(links, first) = w[N][first]
    BY DEF Walk, Body, Maybe
<1>3. \E f : f = [n \in 0..N |-> Body(f, links, n)]
    BY <1>1, WalkExists DEF Recursion
<1>4. w = [n \in 0..N |-> Body(w, links, n)]
    BY <1>3
<1> HIDE DEF w
<1>5. \A n \in 0..N : w[n] = Body(w, links, n)
    BY <1>4
<1> QED
    BY <1>2, <1>5

Injective(s) == \A i, j \in 1..Len(s) : s[i] = s[j] => i = j

LEMMA SeqFacts ==
    ASSUME NEW s \in Seq(Msg)
    PROVE  /\ Len(s) \in Nat
           /\ s \in [1..Len(s) -> Msg]
           /\ s = <<>> <=> Len(s) = 0
           /\ \A i \in 1..Len(s) : s[i] \in Msg /\ s[i] # NoMsg
<1>1. Len(s) \in Nat /\ s \in [1..Len(s) -> Msg]
    BY LenProperties
<1>2. s = <<>> <=> Len(s) = 0
    BY EmptySeq
<1>3. \A i \in 1..Len(s) : s[i] \in Msg /\ s[i] # NoMsg
    BY <1>1, MsgListAssumption
<1> QED
    BY <1>1, <1>2, <1>3

LEMMA FitsInWalk ==
    ASSUME NEW s \in Seq(Msg), Injective(s)
    PROVE  Len(s) <= Cardinality(Msg) /\ Cardinality(Elements(s)) = Len(s)
<1>1. Len(s) \in Nat /\ s \in [1..Len(s) -> Msg]
    BY SeqFacts
<1>2. s \in Injection(1..Len(s), Msg)
    BY <1>1 DEF Injection, IsInjective, Injective
<1>3. IsFiniteSet(1..Len(s)) /\ Cardinality(1..Len(s)) = Len(s)
    BY <1>1, FS_Interval
<1>4. Len(s) <= Cardinality(Msg)
    BY <1>2, <1>3, FS_Injection, MsgListAssumption
<1>5. s \in Bijection(1..Len(s), Elements(s))
    BY <1>1, <1>2 DEF Bijection, Injection, Surjection, Elements, Injective
<1>6. Cardinality(Elements(s)) = Len(s)
    BY <1>3, <1>5, FS_Bijection DEF ExistsBijection
<1> QED
    BY <1>4, <1>6

\* The last i messages of s, and the place where they begin.
Place(s, i) == IF i = 0 THEN NoMsg ELSE s[Len(s) + 1 - i]
Rest(s, i) == SubSeq(s, Len(s) + 1 - i, Len(s))

\* Every walk that is long enough and begins there comes past them.
WalksRest(w, s, i, N) == \A n \in 1..N : n >= i => w[n][Place(s, i)] = Rest(s, i)

LEMMA RestGrows ==
    ASSUME NEW s \in Seq(Msg), NEW i \in 1..Len(s), NEW links \in [Msg -> Maybe],
           NEW h, NEW t, Chain(s, links, h, t)
    PROVE  /\ Place(s, i) \in Msg /\ Place(s, i) # NoMsg
           /\ links[Place(s, i)] = Place(s, i - 1)
           /\ Rest(s, i) = <<Place(s, i)>> \o Rest(s, i - 1)
           /\ Rest(s, 0) = <<>>
<1> DEFINE k == Len(s) + 1 - i
<1>1. /\ Len(s) \in Nat /\ k \in 1..Len(s) /\ k + 1 = Len(s) + 1 - (i - 1)
      /\ Len(s) \in k..Len(s)
      /\ \A j \in 1..Len(s) : s[j] \in Msg /\ s[j] # NoMsg
    BY SeqFacts
<1> HIDE DEF k
<1>2. Place(s, i) = s[k]
    BY DEF Place, k
<1>3. links[s[k]] = Place(s, i - 1)
    BY <1>1 DEF Chain, Place
<1>4. SubSeq(s, k, Len(s)) = <<s[k]>> \o SubSeq(s, k + 1, Len(s))
    BY <1>1, SubSeqRecursiveFirst
<1>5. Rest(s, i) = SubSeq(s, k, Len(s)) /\ Rest(s, i - 1) = SubSeq(s, k + 1, Len(s))
    BY <1>1 DEF Rest, k
<1>6. Rest(s, 0) = <<>>
    BY <1>1, SubSeqEmpty DEF Rest
<1> QED
    BY <1>1, <1>2, <1>3, <1>4, <1>5, <1>6

\* A walk along a chain comes past the messages of the chain.
LEMMA WalkIsChain ==
    ASSUME NEW links \in [Msg -> Maybe], NEW s \in Seq(Msg), Injective(s),
           NEW h, NEW t, Chain(s, links, h, t)
    PROVE  Walk(links, h) = s
<1> DEFINE N == Cardinality(Msg) + 1
<1>1. PICK w : /\ Walk(links, h) = w[N][h]
               /\ \A n \in 0..N : w[n] = Body(w, links, n)
    BY WalkSteps
<1>2. N \in Nat /\ Len(s) \in Nat /\ Len(s) < N
    BY FitsInWalk, SeqFacts, FS_CardinalityType, MsgListAssumption
<1> HIDE DEF N
<1>3. ASSUME NEW n \in 0..N
      PROVE  w[n][NoMsg] = <<>>
    BY <1>1, <1>3 DEF Body, Maybe
<1>4. WalksRest(w, s, 0, N)
  <2>1. Rest(s, 0) = <<>> /\ Place(s, 0) = NoMsg
      BY <1>2, SubSeqEmpty DEF Rest, Place
  <2> QED
      BY <1>2, <1>3, <2>1 DEF WalksRest
<1>5. ASSUME NEW i \in 1..Len(s), WalksRest(w, s, i - 1, N)
      PROVE  WalksRest(w, s, i, N)
  <2> SUFFICES ASSUME NEW n \in 1..N, n >= i
               PROVE  w[n][Place(s, i)] = Rest(s, i)
      BY DEF WalksRest
  <2>1. /\ Place(s, i) \in Msg /\ Place(s, i) # NoMsg
        /\ links[Place(s, i)] = Place(s, i - 1)
        /\ Rest(s, i) = <<Place(s, i)>> \o Rest(s, i - 1)
        /\ Rest(s, 0) = <<>>
      BY RestGrows
  <2>2. w[n] = Body(w, links, n) /\ n # 0
      BY <1>1, <1>2
  <2>3. w[n][Place(s, i)] = <<Place(s, i)>> \o w[n - 1][Place(s, i - 1)]
      BY <2>1, <2>2 DEF Body, Maybe
  <2>4. w[n - 1][Place(s, i - 1)] = Rest(s, i - 1)
    <3>1. CASE n = 1
      <4>1. i = 1 /\ n - 1 \in 0..N
          BY <1>2, <3>1
      <4>2. Place(s, i - 1) = NoMsg
          BY <4>1 DEF Place
      <4> QED
          BY <1>3, <2>1, <4>1, <4>2
    <3>2. CASE n > 1
      <4>1. n - 1 \in 1..N /\ n - 1 >= i - 1
          BY <1>2, <3>2
      <4> QED
          BY <1>5, <4>1 DEF WalksRest
    <3> QED
        BY <1>2, <3>1, <3>2
  <2> QED
      BY <2>1, <2>3, <2>4
<1> DEFINE T == {i \in 0..Len(s) : ~WalksRest(w, s, i, N)}
<1>6. T = {}
  <2> SUFFICES ASSUME T # {} PROVE FALSE
      OBVIOUS
  <2>1. T \subseteq Nat
      BY <1>2
  <2>2. PICK i \in T : \A j \in T : i <= j
      BY <2>1, LeastNumber
  <2>3. i \in 1..Len(s)
      BY <1>2, <1>4, <2>2
  <2>4. i - 1 \in 0..Len(s) /\ i - 1 \notin T
      BY <1>2, <2>2, <2>3
  <2> QED
      BY <1>5, <2>2, <2>3, <2>4
<1>7. WalksRest(w, s, Len(s), N)
    BY <1>2, <1>6
<1>8. w[N][Place(s, Len(s))] = Rest(s, Len(s))
    BY <1>2, <1>7 DEF WalksRest
<1>9. Place(s, Len(s)) = h
    BY <1>2, SeqFacts DEF Place, Chain
<1>10. Rest(s, Len(s)) = s
    BY <1>2, SubSeqFull DEF Rest
<1> QED
    BY <1>1, <1>8, <1>9, <1>10

----------------------------------------------------------------------------
(* What the lists are.                                                     *)

LEMMA Lists == List = 0..2 /\ MSG_PRIO_LENGTH = 3
BY MsgQueueAssumption DEF MSG_PRIO_LENGTH

LEMMA ListedIs ==
    ASSUME Fields, NEW q, Represents(q)
    PROVE  /\ \A l \in List : Listed(l) = q[l] /\ q[l] \in Seq(Msg) /\ Injective(q[l])
           /\ [l \in List |-> Listed(l)] = q
<1>1. ASSUME NEW l \in List
      PROVE  q[l] \in Seq(Msg) /\ Injective(q[l]) /\ Listed(l) = q[l]
  <2>1. q[l] \in Seq(Msg)
      BY DEF Represents
  <2>2. Injective(q[l])
      BY DEF Represents, Disjoint, Injective
  <2>3. Chain(q[l], next, msg_head[l], msg_tail[l])
      BY DEF Represents
  <2> QED
      BY <2>1, <2>2, <2>3, WalkIsChain DEF Fields, Listed
<1> QED
    BY <1>1 DEF Represents

LEMMA NothingLostIs ==
    ASSUME Fields, NEW q, Represents(q)
    PROVE  NothingLost
<1>1. LengthIsListed
    BY ListedIs DEF LengthIsListed, msg_list_length, Represents
<1>2. ASSUME NEW l \in List
      PROVE  /\ handed[l] = ToSet(Listed(l))
             /\ Cardinality(handed[l]) = Len(Listed(l))
             /\ msg_tail[l] = IF Listed(l) = <<>> THEN NoMsg ELSE Last(Listed(l))
  <2>1. Listed(l) = q[l] /\ q[l] \in Seq(Msg) /\ Injective(q[l])
      BY ListedIs
  <2>2. handed[l] = Elements(q[l]) /\ Chain(q[l], next, msg_head[l], msg_tail[l])
      BY DEF Represents
  <2>3. DOMAIN q[l] = 1..Len(q[l])
      BY <2>1, SeqFacts
  <2>4. ToSet(q[l]) = Elements(q[l])
      BY <2>3 DEF ToSet, Elements
  <2> QED
      BY <2>1, <2>2, <2>4, FitsInWalk DEF Chain, Last
<1> QED
    BY <1>1, <1>2 DEF NothingLost

----------------------------------------------------------------------------
(* The operations, on the sequences.                                       *)

\* What is with a caller is in no sequence.
LEMMA CallersMessage ==
    ASSUME NEW q, Represents(q), NEW m \in Msg, WithCaller(m)
    PROVE  \A l \in List : \A i \in 1..Len(q[l]) : q[l][i] # m
BY DEF WithCaller, Represents, Elements

\* Changes of the next field of a message that is on no chain do not matter.
LEMMA ChainSame ==
    ASSUME NEW s \in Seq(Msg), NEW links, NEW other, NEW h, NEW t,
           Chain(s, links, h, t),
           \A i \in 1..Len(s) : other[s[i]] = links[s[i]]
    PROVE  Chain(s, other, h, t)
BY DEF Chain

LEMMA ReuseStep ==
    ASSUME Fields, NEW q, Represents(q), NEW m \in Msg, Reuse(m)
    PROVE  Fields' /\ Represents(q)'
<1>1. Fields'
    BY DEF Reuse, Fields, Maybe
<1>2. ASSUME NEW l \in List
      PROVE  Chain(q[l], next', msg_head'[l], msg_tail'[l])
  <2>1. Chain(q[l], next, msg_head[l], msg_tail[l]) /\ q[l] \in Seq(Msg)
      BY DEF Represents
  <2>2. \A i \in 1..Len(q[l]) : next'[q[l][i]] = next[q[l][i]]
      BY <2>1, SeqFacts, CallersMessage DEF Reuse, Fields
  <2> QED
      BY <2>1, <2>2, ChainSame DEF Reuse
<1> QED
    BY <1>1, <1>2 DEF Represents, Reuse

LEMMA DisjointGrows ==
    ASSUME NEW q \in [List -> Seq(Msg)], Disjoint(q), NEW l \in List, NEW m \in Msg,
           \A k \in List : \A i \in 1..Len(q[k]) : q[k][i] # m
    PROVE  Disjoint([q EXCEPT ![l] = Append(@, m)])
<1> DEFINE r == [q EXCEPT ![l] = Append(@, m)]
<1>1. \A k \in List : r[k] = IF k = l THEN Append(q[l], m) ELSE q[k]
    OBVIOUS
<1>2. /\ Len(q[l]) \in Nat /\ Len(Append(q[l], m)) = Len(q[l]) + 1
      /\ \A i \in 1..Len(q[l]) : Append(q[l], m)[i] = q[l][i]
      /\ Append(q[l], m)[Len(q[l]) + 1] = m
    BY LenProperties, AppendProperties
<1> HIDE DEF r
<1>3. ASSUME NEW k \in List, NEW i \in 1..Len(r[k])
      PROVE  \/ k = l /\ i = Len(q[l]) + 1 /\ r[k][i] = m
             \/ i \in 1..Len(q[k]) /\ r[k][i] = q[k][i] /\ r[k][i] # m
  <2>1. CASE k # l
      BY <1>1, <1>3, <2>1
  <2>2. CASE k = l /\ i \in 1..Len(q[l])
      BY <1>1, <1>2, <2>2
  <2>3. CASE k = l /\ i \notin 1..Len(q[l])
    <3>1. r[l] = Append(q[l], m)
        BY <1>1
    <3>2. Len(r[l]) = Len(q[l]) + 1
        BY <1>2, <3>1
    <3>3. i \in 1..Len(r[l])
        BY <2>3
    <3>4. i = Len(q[l]) + 1
        BY <1>2, <2>3, <3>2, <3>3
    <3> QED
        BY <1>2, <2>3, <3>1, <3>4
  <2> QED
      BY <2>1, <2>2, <2>3
<1>4. ASSUME NEW k \in List, NEW j \in List, NEW i \in 1..Len(r[k]), NEW n \in 1..Len(r[j]),
             r[k][i] = r[j][n]
      PROVE  k = j /\ i = n
  <2>1. CASE r[k][i] = m
    <3>1. k = l /\ i = Len(q[l]) + 1
        BY <1>3, <2>1
    <3>2. j = l /\ n = Len(q[l]) + 1
        BY <1>3, <1>4, <2>1
    <3> QED
        BY <3>1, <3>2
  <2>2. CASE r[k][i] # m
    <3>1. /\ i \in 1..Len(q[k]) /\ q[k][i] = r[k][i]
          /\ n \in 1..Len(q[j]) /\ q[j][n] = r[j][n]
        BY <1>3, <1>4, <2>2
    <3> QED
        BY <1>4, <3>1 DEF Disjoint
  <2> QED
      BY <2>1, <2>2
<1>5. Disjoint(r)
    BY <1>4 DEF Disjoint
<1> QED
    BY <1>5 DEF r

LEMMA PushStep ==
    ASSUME Fields, NEW q, Represents(q), NEW l \in List, NEW m \in Msg, Push(l, m)
    PROVE  Fields' /\ Represents([q EXCEPT ![l] = Append(@, m)])'
<1> DEFINE s == q[l]
           t == Append(s, m)
           r == [q EXCEPT ![l] = Append(@, m)]
<1>1. /\ q \in [List -> Seq(Msg)] /\ s \in Seq(Msg)
      /\ Chain(s, next, msg_head[l], msg_tail[l])
      /\ WithCaller(m)
    BY DEF Represents, Push
<1>2. /\ Len(s) \in Nat /\ t \in Seq(Msg) /\ Len(t) = Len(s) + 1 /\ t # <<>>
      /\ \A i \in 1..Len(s) : t[i] = s[i]
      /\ t[Len(s) + 1] = m
    BY <1>1, LenProperties, AppendProperties
<1>3. \A k \in List : r[k] = IF k = l THEN t ELSE q[k]
    BY <1>1
<1>4. r \in [List -> Seq(Msg)]
    BY <1>1, <1>2
<1>5. Disjoint(r)
  <2>1. Disjoint(q) /\ \A k \in List : \A i \in 1..Len(q[k]) : q[k][i] # m
      BY <1>1, CallersMessage DEF Represents
  <2> QED
      BY <1>1, <2>1, DisjointGrows
<1>6. \A k \in List : \A i \in 1..Len(q[k]) : q[k][i] # m /\ q[k][i] \in Msg
    BY <1>1, CallersMessage, SeqFacts
<1>7. /\ s = <<>> => msg_tail[l] = NoMsg /\ msg_head[l] = NoMsg
      /\ s # <<>> => /\ Len(s) \in 1..Len(s) /\ msg_tail[l] = s[Len(s)] /\ msg_tail[l] \in Msg
                     /\ msg_tail[l] # NoMsg /\ msg_head[l] = s[1] /\ msg_head[l] # NoMsg
    BY <1>1, <1>2, SeqFacts DEF Chain
<1> HIDE DEF s, t, r
<1>8. /\ next' \in [Msg -> Maybe]
      /\ \A o \in Msg : next'[o] = IF o = msg_tail[l] THEN m
                                   ELSE IF o = m THEN NoMsg ELSE next[o]
    BY <1>7, MsgListAssumption DEF Push, Fields, Maybe
<1>9. Fields'
    BY <1>8 DEF Push, Fields, Maybe
<1>10. Chain(t, next', msg_head'[l], msg_tail'[l])
  <2>1. msg_tail'[l] = m /\ msg_head'[l] = IF s = <<>> THEN m ELSE s[1]
      BY <1>7 DEF Push, Fields
  <2>2. next'[m] = NoMsg
      BY <1>6, <1>7, <1>8 DEF s
  <2>3. s = <<>> <=> Len(s) = 0
      BY <1>1, SeqFacts
  <2>4. ASSUME NEW i \in 1..Len(s)
        PROVE  next'[s[i]] = t[i + 1]
    <3>1. next[s[i]] = IF i < Len(s) THEN s[i + 1] ELSE NoMsg
        BY <1>1 DEF Chain
    <3>2. s[i] = msg_tail[l] <=> i = Len(s)
        BY <1>1, <1>2, <1>7, <2>3 DEF Represents, Disjoint, s
    <3> QED
        BY <1>2, <1>6, <1>8, <3>1, <3>2 DEF s
  <2> QED
      BY <1>2, <2>1, <2>2, <2>3, <2>4 DEF Chain
<1>11. ASSUME NEW k \in List, k # l
       PROVE  Chain(q[k], next', msg_head'[k], msg_tail'[k])
  <2>1. Chain(q[k], next, msg_head[k], msg_tail[k]) /\ q[k] \in Seq(Msg)
      BY DEF Represents
  <2>2. \A i \in 1..Len(q[k]) : q[k][i] # msg_tail[l] /\ q[k][i] # m /\ q[k][i] \in Msg
      BY <1>6, <1>7, <1>11, <2>1, SeqFacts DEF Represents, Disjoint, s
  <2>3. msg_head'[k] = msg_head[k] /\ msg_tail'[k] = msg_tail[k]
      BY <1>11 DEF Push, Fields
  <2> QED
      BY <1>8, <2>1, <2>2, <2>3, ChainSame
<1>12. ASSUME NEW k \in List
       PROVE  length'[k] = Len(r[k]) /\ handed'[k] = Elements(r[k])
  <2>1. length[k] = Len(q[k]) /\ handed[k] = Elements(q[k])
      BY DEF Represents
  <2>2. Elements(t) = Elements(s) \cup {m}
      BY <1>2 DEF Elements
  <2> QED
      BY <1>2, <1>3, <2>1, <2>2 DEF Push, Fields, s
<1> QED
    BY <1>3, <1>4, <1>5, <1>9, <1>10, <1>11, <1>12 DEF Represents, r

\* The messages that are left when the one at place n is taken out.
LEMMA RemoveAtFacts ==
    ASSUME NEW s \in Seq(Msg), NEW n \in 1..Len(s)
    PROVE  /\ RemoveAt(s, n) \in Seq(Msg)
           /\ Len(RemoveAt(s, n)) = Len(s) - 1
           /\ \A i \in 1..(Len(s) - 1) : RemoveAt(s, n)[i] = IF i < n THEN s[i] ELSE s[i + 1]
           /\ n = 1 => RemoveAt(s, n) = Tail(s)
<1>1. Len(s) \in Nat /\ \A i \in 1..Len(s) : s[i] \in Msg
    BY SeqFacts
<1> DEFINE a == SubSeq(s, 1, n - 1)
           b == SubSeq(s, n + 1, Len(s))
<1>2. /\ a \in Seq(Msg) /\ Len(a) = n - 1
      /\ \A i \in 1..(n - 1) : a[i] = s[i]
  <2>1. 1 \in Int /\ n - 1 \in Int /\ \A i \in 1..(n - 1) : s[i] \in Msg
      BY <1>1
  <2>2. /\ a \in Seq(Msg) /\ Len(a) = IF 1 <= n - 1 THEN (n - 1) - 1 + 1 ELSE 0
        /\ \A i \in 1..((n - 1) - 1 + 1) : a[i] = s[1 + i - 1]
      BY <2>1, SubSeqProperties
  <2> HIDE DEF a
  <2> QED
      BY <1>1, <2>2
<1>3. /\ b \in Seq(Msg) /\ Len(b) = Len(s) - n
      /\ \A i \in 1..(Len(s) - n) : b[i] = s[n + i]
  <2>1. n + 1 \in Int /\ Len(s) \in Int /\ \A i \in (n + 1)..Len(s) : s[i] \in Msg
      BY <1>1
  <2>2. /\ b \in Seq(Msg) /\ Len(b) = IF n + 1 <= Len(s) THEN Len(s) - (n + 1) + 1 ELSE 0
        /\ \A i \in 1..(Len(s) - (n + 1) + 1) : b[i] = s[(n + 1) + i - 1]
      BY <2>1, SubSeqProperties
  <2> HIDE DEF b
  <2> QED
      BY <1>1, <2>2
<1>4. RemoveAt(s, n) = a \o b
    BY DEF RemoveAt
<1> HIDE DEF a, b
<1>5. /\ a \o b \in Seq(Msg)
      /\ Len(a \o b) = Len(a) + Len(b)
      /\ \A i \in 1..(Len(a) + Len(b)) : (a \o b)[i] = IF i <= Len(a) THEN a[i] ELSE b[i - Len(a)]
    BY <1>2, <1>3, ConcatProperties
<1>6. \A i \in 1..(Len(s) - 1) : (a \o b)[i] = IF i < n THEN s[i] ELSE s[i + 1]
  <2> SUFFICES ASSUME NEW i \in 1..(Len(s) - 1)
               PROVE  (a \o b)[i] = IF i < n THEN s[i] ELSE s[i + 1]
      OBVIOUS
  <2>1. i \in 1..(Len(a) + Len(b))
      BY <1>1, <1>2, <1>3
  <2>2. (a \o b)[i] = IF i <= Len(a) THEN a[i] ELSE b[i - Len(a)]
      BY <1>5, <2>1
  <2>3. CASE i < n
      BY <1>1, <1>2, <2>2, <2>3
  <2>4. CASE i >= n
    <3>1. i - Len(a) \in 1..(Len(s) - n) /\ n + (i - Len(a)) = i + 1
        BY <1>1, <1>2, <2>4
    <3>2. b[i - Len(a)] = s[i + 1]
        BY <1>3, <3>1
    <3> QED
        BY <1>1, <1>2, <2>2, <2>4, <3>2
  <2>5. i < n \/ i >= n
      BY <1>1
  <2> QED
      BY <2>3, <2>4, <2>5
<1>7. ASSUME n = 1
      PROVE  a \o b = Tail(s)
  <2>1. s # <<>>
      BY <1>1, SeqFacts
  <2>2. /\ Tail(s) \in Seq(Msg) /\ Len(Tail(s)) = Len(s) - 1
        /\ \A i \in 1..Len(Tail(s)) : Tail(s)[i] = s[i + 1]
      BY <2>1, HeadTailProperties
  <2>3. Len(a \o b) = Len(Tail(s)) /\ \A i \in 1..Len(a \o b) : (a \o b)[i] = Tail(s)[i]
      BY <1>1, <1>2, <1>3, <1>5, <1>6, <1>7, <2>2
  <2> QED
      BY <1>5, <2>2, <2>3, SeqEqual
<1> QED
    BY <1>1, <1>2, <1>3, <1>4, <1>5, <1>6, <1>7

LEMMA DisjointShrinks ==
    ASSUME NEW q \in [List -> Seq(Msg)], Disjoint(q), NEW l \in List, NEW n \in 1..Len(q[l])
    PROVE  Disjoint([q EXCEPT ![l] = RemoveAt(@, n)])
<1> DEFINE r == [q EXCEPT ![l] = RemoveAt(@, n)]
           At(k, i) == IF k # l \/ i < n THEN i ELSE i + 1
<1>1. \A k \in List : r[k] = IF k = l THEN RemoveAt(q[l], n) ELSE q[k]
    OBVIOUS
<1>2. /\ Len(q[l]) \in Nat /\ Len(RemoveAt(q[l], n)) = Len(q[l]) - 1
      /\ \A i \in 1..(Len(q[l]) - 1) :
            RemoveAt(q[l], n)[i] = IF i < n THEN q[l][i] ELSE q[l][i + 1]
    BY LenProperties, RemoveAtFacts
<1> HIDE DEF r
<1>3. ASSUME NEW k \in List, NEW i \in 1..Len(r[k])
      PROVE  At(k, i) \in 1..Len(q[k]) /\ r[k][i] = q[k][At(k, i)]
  <2>1. CASE k # l
      BY <1>1, <1>3, <2>1
  <2>2. CASE k = l
      BY <1>1, <1>2, <1>3, <2>2
  <2> QED
      BY <2>1, <2>2
<1>4. ASSUME NEW k \in List, NEW j \in List, NEW i \in 1..Len(r[k]), NEW o \in 1..Len(r[j]),
             r[k][i] = r[j][o]
      PROVE  k = j /\ i = o
  <2>1. /\ At(k, i) \in 1..Len(q[k]) /\ r[k][i] = q[k][At(k, i)]
        /\ At(j, o) \in 1..Len(q[j]) /\ r[j][o] = q[j][At(j, o)]
      BY <1>3
  <2>2. k = j /\ At(k, i) = At(j, o)
    <3>1. \A x \in 1..Len(q[k]), y \in 1..Len(q[j]) : q[k][x] = q[j][y] => k = j /\ x = y
        BY DEF Disjoint
    <3>2. q[k][At(k, i)] = q[j][At(j, o)]
        BY <1>4, <2>1
    <3> HIDE DEF At
    <3> QED
        BY <2>1, <3>1, <3>2
  <2> QED
      BY <2>1, <2>2
<1>5. Disjoint(r)
    BY <1>4 DEF Disjoint
<1> QED
    BY <1>5 DEF r

\* What the two operations that take the message at place n out of a list do
\* to the links: that of its predecessor, if there is one, comes past it.
Taken(s, n, l) ==
    /\ msg_head' = [msg_head EXCEPT ![l] = IF n = 1 THEN next[s[1]] ELSE @]
    /\ msg_tail' = [msg_tail EXCEPT ![l] = IF Len(s) = 1 THEN NoMsg ELSE @]
    /\ next' \in [Msg -> Maybe]
    /\ \A m \in Msg : next'[m] = IF n > 1 /\ m = s[n - 1] THEN next[s[n]] ELSE next[m]
    /\ HandOut(l, s[n])

LEMMA TakenStep ==
    ASSUME Fields, NEW q, Represents(q), NEW l \in List, NEW n \in 1..Len(q[l]),
           n < Len(q[l]) \/ n = 1, Taken(q[l], n, l)
    PROVE  Fields' /\ Represents([q EXCEPT ![l] = RemoveAt(@, n)])'
<1> DEFINE s == q[l]
           t == RemoveAt(s, n)
           r == [q EXCEPT ![l] = RemoveAt(@, n)]
<1>1. /\ q \in [List -> Seq(Msg)] /\ s \in Seq(Msg)
      /\ Chain(s, next, msg_head[l], msg_tail[l])
      /\ length[l] = Len(s) /\ handed[l] = Elements(s)
    BY DEF Represents
<1>2. /\ Len(s) \in Nat /\ t \in Seq(Msg) /\ Len(t) = Len(s) - 1
      /\ \A i \in 1..(Len(s) - 1) : t[i] = IF i < n THEN s[i] ELSE s[i + 1]
      /\ \A i \in 1..Len(s) : s[i] \in Msg /\ s[i] # NoMsg
      /\ t = <<>> <=> Len(t) = 0
      /\ s # <<>>
  <2>1. n \in 1..Len(s)
      OBVIOUS
  <2>2. /\ t \in Seq(Msg) /\ Len(t) = Len(s) - 1
        /\ \A i \in 1..(Len(s) - 1) : t[i] = IF i < n THEN s[i] ELSE s[i + 1]
      BY <1>1, <2>1, RemoveAtFacts
  <2> HIDE DEF s, t
  <2> QED
      BY <1>1, <2>1, <2>2, SeqFacts
<1>3. \A k \in List : r[k] = IF k = l THEN t ELSE q[k]
    BY <1>1
<1>4. r \in [List -> Seq(Msg)]
    BY <1>1, <1>2
<1>5. Disjoint(r)
    BY <1>1, DisjointShrinks DEF Represents
<1>6. \A i, j \in 1..Len(s) : s[i] = s[j] => i = j
    BY DEF Represents, Disjoint
<1> HIDE DEF s, t, r
<1>7. Taken(s, n, l) /\ n \in 1..Len(s) /\ (n < Len(s) \/ n = 1)
    BY DEF s
<1>8. next[s[1]] \in Maybe
    BY <1>2, <1>7 DEF Fields
<1>9. Fields'
  <2>1. msg_head' \in [List -> Maybe] /\ msg_tail' \in [List -> Maybe] /\ next' \in [Msg -> Maybe]
      BY <1>7, <1>8 DEF Taken, Fields, Maybe
  <2>2. length' \in [List -> Nat] /\ handed' \in [List -> SUBSET Msg]
      BY <1>7 DEF Taken, HandOut, Fields
  <2> QED
      BY <2>1, <2>2 DEF Fields
<1>10. Chain(t, next', msg_head'[l], msg_tail'[l])
  <2>1. \A i \in 1..Len(s) : next[s[i]] = IF i < Len(s) THEN s[i + 1] ELSE NoMsg
      BY <1>1 DEF Chain
  <2>2. \A i \in 1..Len(s) : next'[s[i]] = IF n > 1 /\ i = n - 1 THEN next[s[n]] ELSE next[s[i]]
      BY <1>2, <1>6, <1>7 DEF Taken
  <2>3. ASSUME NEW i \in 1..Len(t)
        PROVE  next'[t[i]] = IF i < Len(t) THEN t[i + 1] ELSE NoMsg
    <3>1. /\ i \in Int /\ n \in Int /\ 1 <= i /\ i < Len(s) /\ 1 <= n /\ n <= Len(s)
          /\ Len(s) \in Nat /\ Len(t) = Len(s) - 1
          /\ i \in 1..Len(s) /\ i \in 1..(Len(s) - 1) /\ i + 1 \in 1..Len(s)
          /\ t[i] = IF i < n THEN s[i] ELSE s[i + 1]
        BY <1>2, <1>7
    <3>2. i < Len(t) => t[i + 1] = IF i + 1 < n THEN s[i + 1] ELSE s[(i + 1) + 1]
      <4>1. i < Len(t) => i + 1 \in 1..(Len(s) - 1)
          BY <3>1
      <4> QED
          BY <1>2, <4>1
    <3>3. CASE i + 1 < n
      <4>1. next'[s[i]] = next[s[i]] /\ next[s[i]] = s[i + 1]
          BY <2>1, <2>2, <3>1, <3>3
      <4>2. i < n /\ i < Len(t)
          BY <3>1, <3>3
      <4> QED
          BY <3>1, <3>2, <3>3, <4>1, <4>2
    <3>4. CASE i + 1 = n
      <4>1. next'[s[i]] = next[s[n]]
          BY <2>2, <3>1, <3>4
      <4>2. n < Len(s) /\ next[s[n]] = s[n + 1]
          BY <1>7, <2>1, <3>1, <3>4
      <4>3. i < n /\ i < Len(t) /\ (i + 1) + 1 = n + 1 /\ ~(i + 1 < n)
          BY <3>1, <3>4, <4>2
      <4> QED
          BY <3>1, <3>2, <4>1, <4>2, <4>3
    <3>5. CASE n <= i
      <4>1. next'[s[i + 1]] = next[s[i + 1]]
          BY <2>2, <3>1, <3>5
      <4>2. next[s[i + 1]] = IF i + 1 < Len(s) THEN s[(i + 1) + 1] ELSE NoMsg
          BY <2>1, <3>1
      <4>3. ~(i < n) /\ ~(i + 1 < n) /\ (i < Len(t) <=> i + 1 < Len(s))
          BY <3>1, <3>5
      <4> QED
          BY <3>1, <3>2, <4>1, <4>2, <4>3
    <3> QED
        BY <3>1, <3>3, <3>4, <3>5
  <2>4. msg_head'[l] = IF t = <<>> THEN NoMsg ELSE t[1]
    <3>1. msg_head'[l] = IF n = 1 THEN next[s[1]] ELSE s[1]
        BY <1>1, <1>2, <1>7 DEF Taken, Fields, Chain
    <3> QED
        BY <1>2, <1>7, <2>1, <3>1
  <2>5. msg_tail'[l] = IF t = <<>> THEN NoMsg ELSE t[Len(t)]
    <3>1. msg_tail'[l] = IF Len(s) = 1 THEN NoMsg ELSE s[Len(s)]
        BY <1>1, <1>2, <1>7 DEF Taken, Fields, Chain
    <3> QED
        BY <1>2, <1>7, <3>1
  <2> QED
      BY <2>3, <2>4, <2>5 DEF Chain
<1>11. ASSUME NEW k \in List, k # l
       PROVE  Chain(q[k], next', msg_head'[k], msg_tail'[k])
  <2>1. Chain(q[k], next, msg_head[k], msg_tail[k]) /\ q[k] \in Seq(Msg)
      BY DEF Represents
  <2>2. \A i \in 1..Len(q[k]) : q[k][i] \in Msg /\ \A j \in 1..Len(s) : q[k][i] # s[j]
      BY <1>11, <2>1, SeqFacts DEF Represents, Disjoint, s
  <2>3. \A i \in 1..Len(q[k]) : next'[q[k][i]] = next[q[k][i]]
      BY <1>2, <1>7, <2>2 DEF Taken
  <2>4. msg_head'[k] = msg_head[k] /\ msg_tail'[k] = msg_tail[k]
      BY <1>7, <1>11 DEF Taken, Fields
  <2> QED
      BY <2>1, <2>3, <2>4, ChainSame
<1>12. ASSUME NEW k \in List
       PROVE  length'[k] = Len(r[k]) /\ handed'[k] = Elements(r[k])
  <2>1. length[k] = Len(q[k]) /\ handed[k] = Elements(q[k])
      BY DEF Represents
  <2>2. Elements(t) = Elements(s) \ {s[n]}
    <3>1. ASSUME NEW i \in 1..Len(t)
          PROVE  t[i] \in Elements(s) \ {s[n]}
        BY <1>2, <1>6, <1>7 DEF Elements
    <3>2. ASSUME NEW i \in 1..Len(s), s[i] # s[n]
          PROVE  s[i] \in Elements(t)
      <4>1. CASE i < n
          BY <1>2, <1>7, <4>1 DEF Elements
      <4>2. CASE i > n
        <5>1. i - 1 \in 1..Len(t) /\ t[i - 1] = s[i]
            BY <1>2, <1>7, <4>2
        <5> QED
            BY <5>1 DEF Elements
      <4> QED
          BY <1>7, <3>2, <4>1, <4>2
    <3> QED
        BY <3>1, <3>2 DEF Elements
  <2>3. k = l => length'[l] = Len(s) - 1 /\ handed'[l] = Elements(s) \ {s[n]}
      BY <1>1, <1>2, <1>7 DEF Taken, HandOut, Fields
  <2>4. k # l => length'[k] = length[k] /\ handed'[k] = handed[k]
      BY <1>7 DEF Taken, HandOut, Fields
  <2> QED
      BY <1>2, <1>3, <2>1, <2>2, <2>3, <2>4
<1> QED
    BY <1>3, <1>4, <1>5, <1>9, <1>10, <1>11, <1>12 DEF Represents, r

LEMMA PopTakes ==
    ASSUME Fields, NEW q, Represents(q), NEW l \in List, Pop(l)
    PROVE  1 \in 1..Len(q[l]) /\ msg_head[l] = q[l][1] /\ Taken(q[l], 1, l)
<1> DEFINE s == q[l]
<1>1. s \in Seq(Msg) /\ Chain(s, next, msg_head[l], msg_tail[l])
    BY DEF Represents
<1>2. Len(s) \in Nat /\ s # <<>> /\ Len(s) # 0 /\ msg_head[l] = s[1]
    BY <1>1, SeqFacts DEF Chain, Pop
<1>3. msg_tail[l] = s[Len(s)]
    BY <1>1, <1>2 DEF Chain
<1>4. s[Len(s)] = s[1] <=> Len(s) = 1
  <2>1. \A i, j \in 1..Len(s) : s[i] = s[j] => i = j
      BY DEF Represents, Disjoint
  <2>2. 1 \in 1..Len(s) /\ Len(s) \in 1..Len(s)
      BY <1>2
  <2> HIDE DEF s
  <2> QED
      BY <2>1, <2>2
<1> HIDE DEF s
<1>5. Taken(s, 1, l)
  <2>1. msg_head' = [msg_head EXCEPT ![l] = next[s[1]]]
      BY <1>2 DEF Pop, Fields
  <2>2. msg_tail' = [msg_tail EXCEPT ![l] = IF Len(s) = 1 THEN NoMsg ELSE @]
      BY <1>2, <1>3, <1>4 DEF Pop, Fields
  <2>3. next' \in [Msg -> Maybe] /\ next' = next
      BY DEF Pop, Fields
  <2>4. HandOut(l, s[1])
      BY <1>2 DEF Pop
  <2> QED
      BY <2>1, <2>2, <2>3, <2>4 DEF Taken
<1>6. 1 \in 1..Len(s)
    BY <1>2
<1> QED
    BY <1>2, <1>5, <1>6 DEF s

LEMMA RemoveTakes ==
    ASSUME Fields, NEW q, Represents(q), NEW l \in List, NEW m, RemoveMsg(l, m), ~RemoveLast
    PROVE  \E n \in 1..Len(q[l]) : n < Len(q[l]) /\ Taken(q[l], n, l)
<1> DEFINE s == q[l]
<1>1. /\ s \in Seq(Msg) /\ Listed(l) = s
      /\ Chain(s, next, msg_head[l], msg_tail[l])
      /\ \A i, j \in 1..Len(s) : s[i] = s[j] => i = j
  <2>1. s \in Seq(Msg) /\ Listed(l) = s
      BY ListedIs
  <2>2. Chain(s, next, msg_head[l], msg_tail[l])
      BY DEF Represents
  <2>3. \A i, j \in 1..Len(s) : s[i] = s[j] => i = j
      BY DEF Represents, Disjoint
  <2> QED
      BY <2>1, <2>2, <2>3
<1> HIDE DEF s
<1>2. PICK n \in 1..Len(s) : s[n] = m
    BY <1>1 DEF RemoveMsg, Contains
<1>3. /\ Len(s) \in Nat /\ s # <<>>
      /\ \A i \in 1..Len(s) : s[i] \in Msg /\ s[i] # NoMsg
    BY <1>1, <1>2, SeqFacts
<1>4. msg_head[l] = s[1] /\ msg_tail[l] = s[Len(s)]
    BY <1>1, <1>3 DEF Chain
<1>5. n < Len(s)
    BY <1>2, <1>3, <1>4 DEF RemoveMsg
<1>6. s[1] = m <=> n = 1
    BY <1>1, <1>2, <1>3
<1>7. msg_head' = [msg_head EXCEPT ![l] = IF n = 1 THEN next[s[1]] ELSE @]
    BY <1>2, <1>4, <1>6 DEF RemoveMsg, Fields
<1>8. msg_tail' = [msg_tail EXCEPT ![l] = IF Len(s) = 1 THEN NoMsg ELSE @]
  <2>1. Len(s) # 1
      BY <1>2, <1>3, <1>5
  <2>2. msg_tail' = msg_tail
      BY DEF RemoveMsg
  <2>3. msg_tail = [msg_tail EXCEPT ![l] = @]
      BY DEF Fields
  <2> QED
      BY <2>1, <2>2, <2>3
<1>9. \A o \in Msg : next'[o] = IF Contains(s, o) /\ next[o] = m THEN next[m] ELSE next[o]
    BY <1>1 DEF RemoveMsg
<1>10. next' \in [Msg -> Maybe]
  <2>1. next[m] \in Maybe
      BY <1>2, <1>3 DEF Fields
  <2> QED
      BY <2>1 DEF RemoveMsg, Fields
<1>11. ASSUME NEW o \in Msg
       PROVE  Contains(s, o) /\ next[o] = m <=> n > 1 /\ o = s[n - 1]
  <2>1. ASSUME NEW i \in 1..Len(s), next[s[i]] = m
        PROVE  n > 1 /\ i = n - 1
    <3>1. i < Len(s) /\ s[i + 1] = m
        BY <1>1, <1>2, <1>3, <2>1 DEF Chain
    <3>2. i + 1 \in 1..Len(s)
        BY <1>3, <3>1
    <3>3. i + 1 = n
        BY <1>1, <1>2, <3>1, <3>2
    <3> QED
        BY <3>3
  <2>2. ASSUME n > 1
        PROVE  n - 1 \in 1..Len(s) /\ next[s[n - 1]] = m
    <3>1. n - 1 \in 1..Len(s) /\ n - 1 < Len(s) /\ (n - 1) + 1 = n
        BY <1>3, <2>2
    <3>2. next[s[n - 1]] = s[(n - 1) + 1]
        BY <1>1, <3>1 DEF Chain
    <3> QED
        BY <1>2, <3>1, <3>2
  <2> QED
      BY <2>1, <2>2 DEF Contains
<1>12. Taken(s, n, l)
    BY <1>2, <1>7, <1>8, <1>9, <1>10, <1>11 DEF Taken, RemoveMsg
<1> QED
    BY <1>2, <1>5, <1>12 DEF s

----------------------------------------------------------------------------
(* The steps.                                                              *)

\* What a step does to the sequences.
QueueStep(q, r) ==
    \/ r = q /\ popped' = NoMsg
    \/ \E l \in List, m \in Msg :
        /\ \A k \in List : \A i \in 1..Len(q[k]) : q[k][i] # m
        /\ r = [q EXCEPT ![l] = Append(@, m)]
        /\ popped' = NoMsg
    \/ \E l \in List : \E n \in 1..Len(q[l]) :
        /\ r = [q EXCEPT ![l] = RemoveAt(@, n)]
        /\ \/ popped' = NoMsg
           \/ /\ n = 1 /\ popped' = q[l][1]
              /\ \A k \in List : k < l => q[k] = <<>>

Steps(q) == \E r : Fields' /\ Represents(r)' /\ QueueStep(q, r)

LEMMA TakenSteps ==
    ASSUME Fields, NEW q, Represents(q), NEW l \in List, NEW n \in 1..Len(q[l]),
           n < Len(q[l]) \/ n = 1, Taken(q[l], n, l),
           \/ popped' = NoMsg
           \/ n = 1 /\ popped' = q[l][1] /\ \A k \in List : k < l => q[k] = <<>>
    PROVE  Steps(q)
<1> DEFINE r == [q EXCEPT ![l] = RemoveAt(@, n)]
<1>1. Fields' /\ Represents(r)'
    BY TakenStep
<1>2. QueueStep(q, r)
    BY DEF QueueStep
<1> HIDE DEF r
<1> QED
    BY <1>1, <1>2 DEF Steps

LEMMA GottenList ==
    ASSUME NEW prio \in Argument, msg_queue_get_msg_list(prio) # NoList
    PROVE  msg_queue_get_msg_list(prio) \in List
<1> DEFINE S == {l \in List : msg_list_peek(l) # NoMsg}
<1>1. ASSUME S # {} PROVE Min(S) \in List
  <2>1. S \subseteq Nat
      BY Lists
  <2>2. \E x \in S : \A y \in S : x <= y
      BY <1>1, <2>1, LeastNumber
  <2> QED
      BY <2>2 DEF Min
<1> QED
    BY <1>1, Lists DEF msg_queue_get_msg_list, FirstList, Argument, MSG_PRIO_ANY

LEMMA NextSteps ==
    ASSUME Fields, NEW q, Represents(q), Next, ~RemoveLast
    PROVE  Steps(q)
<1>1. CASE msg_queue_pop
  <2>1. PICK l \in List : /\ \A k \in List : k < l => msg_head[k] = NoMsg
                          /\ Pop(l) /\ popped' = msg_head[l]
      BY <1>1 DEF msg_queue_pop
  <2>2. 1 \in 1..Len(q[l]) /\ msg_head[l] = q[l][1] /\ Taken(q[l], 1, l)
      BY <2>1, PopTakes
  <2>3. ASSUME NEW k \in List, k < l PROVE q[k] = <<>>
    <3>1. msg_head[k] = NoMsg /\ q[k] \in Seq(Msg)
          /\ Chain(q[k], next, msg_head[k], msg_tail[k])
        BY <2>1, <2>3 DEF Represents
    <3>2. q[k] # <<>> => 1 \in 1..Len(q[k])
        BY <3>1, SeqFacts
    <3> QED
        BY <3>1, <3>2, SeqFacts DEF Chain
  <2> QED
      BY <2>1, <2>2, <2>3, TakenSteps
<1>2. ASSUME NEW prio \in Argument, PopList(prio)
      PROVE  Steps(q)
  <2>1. PICK l \in List : Pop(l) /\ popped' = NoMsg
      BY <1>2, GottenList DEF PopList
  <2> QED
      BY <2>1, PopTakes, TakenSteps
<1>3. ASSUME NEW prio \in Argument, NEW m \in Msg, RemoveFromList(prio, m)
      PROVE  Steps(q)
  <2>1. PICK l \in List : RemoveMsg(l, m) /\ popped' = NoMsg
      BY <1>3, GottenList DEF RemoveFromList
  <2>2. PICK n \in 1..Len(q[l]) : n < Len(q[l]) /\ Taken(q[l], n, l)
      BY <2>1, RemoveTakes
  <2> QED
      BY <2>1, <2>2, TakenSteps
<1>4. ASSUME NEW prio \in Argument, NEW m \in Msg, msg_queue_push(prio, m)
      PROVE  Steps(q)
  <2>1. CASE prio < MSG_PRIO_LENGTH /\ Push(prio, m)
    <3> DEFINE r == [q EXCEPT ![prio] = Append(@, m)]
    <3>1. prio \in List
        BY <2>1, Lists DEF Argument
    <3>2. Fields' /\ Represents(r)'
        BY <2>1, <3>1, PushStep
    <3>3. QueueStep(q, r)
        BY <1>4, <2>1, <3>1, CallersMessage DEF QueueStep, msg_queue_push, Push
    <3> HIDE DEF r
    <3> QED
        BY <3>2, <3>3 DEF Steps
  <2>2. CASE UNCHANGED listVars
    <3>1. Fields' /\ Represents(q)'
        BY <2>2 DEF listVars, Fields, Represents
    <3> QED
        BY <1>4, <3>1 DEF Steps, QueueStep, msg_queue_push
  <2> QED
      BY <1>4, <2>1, <2>2 DEF msg_queue_push
<1>5. ASSUME NEW m \in Msg, Reuse(m), popped' = NoMsg
      PROVE  Steps(q)
    BY <1>5, ReuseStep DEF Steps, QueueStep
<1> QED
    BY <1>1, <1>2, <1>3, <1>4, <1>5 DEF Next

LEMMA InitRepresents == Init => Fields /\ Represents([l \in List |-> <<>>])
<1> SUFFICES ASSUME Init PROVE Fields /\ Represents([l \in List |-> <<>>])
    OBVIOUS
<1>1. Fields
    BY DEF Init, InitLists, Fields, Maybe
<1>2. <<>> \in Seq(Msg) /\ Len(<<>>) = 0
    BY EmptySeq
<1>3. Elements(<<>>) = {}
    BY <1>2 DEF Elements
<1>4. \A h, t : h = NoMsg /\ t = NoMsg => Chain(<<>>, next, h, t)
    BY <1>2 DEF Chain
<1>5. Disjoint([l \in List |-> <<>>])
    BY <1>2 DEF Disjoint
<1> QED
    BY <1>1, <1>2, <1>3, <1>4, <1>5 DEF Represents, Init, InitLists

LEMMA IInvStep == ~RemoveLast /\ IInv /\ [Next]_vars => IInv'
<1> SUFFICES ASSUME ~RemoveLast, IInv, [Next]_vars PROVE IInv'
    OBVIOUS
<1>1. PICK q : Represents(q)
    BY DEF IInv
<1>2. CASE Next
    BY <1>1, <1>2, NextSteps DEF IInv, Steps
<1>3. CASE UNCHANGED vars
  <2>1. Fields' /\ Represents(q)'
      BY <1>1, <1>3 DEF vars, listVars, IInv, Fields, Represents
  <2> QED
      BY <2>1 DEF IInv
<1> QED
    BY <1>2, <1>3

\* message-list.c, message-queue.c: the inductive invariant, for callers that
\* remove no last message.  Each list is the chain of a sequence, and no message
\* is in two places.
THEOREM IInvHolds == ~RemoveLast => (Spec => []IInv)
<1> SUFFICES ASSUME ~RemoveLast PROVE Spec => []IInv
    OBVIOUS
<1>1. Init => IInv
    BY InitRepresents DEF IInv
<1>2. IInv /\ [Next]_vars => IInv'
    BY IInvStep
<1> QED
    BY <1>1, <1>2, PTL DEF Spec

\* msg_list_push, msg_list_pop, msg_list_remove: a walk of each list comes past
\* exactly the messages that were handed to it, its tail is the last of them,
\* and its length is their number.
THEOREM NothingIsLost == ~RemoveLast => (Spec => []NothingLost)
<1>1. IInv => NothingLost
    BY NothingLostIs DEF IInv
<1> QED
    BY <1>1, IInvHolds, PTL

----------------------------------------------------------------------------
(* A search finds what is pending.                                         *)

LEMMA FirstOf ==
    ASSUME NEW S \in SUBSET Nat, S # {}
    PROVE  Min(S) \in S /\ \A x \in S : Min(S) <= x
<1>1. \E x \in S : \A y \in S : x <= y
    BY LeastNumber
<1> QED
    BY <1>1 DEF Min

LEMMA FoundInList ==
    ASSUME Fields, NEW q, Represents(q), NEW l \in List, NEW type
    PROVE  LET found == msg_list_find_msgtype(l, type)
           IN  IF \E m \in handed[l] : TypeOf[m] = type
               THEN found \in handed[l] /\ TypeOf[found] = type /\ found # NoMsg
               ELSE found = NoMsg
<1> DEFINE s == q[l]
           hits == {i \in DOMAIN s : TypeOf[s[i]] = type}
<1>1. /\ s \in Seq(Msg) /\ Listed(l) = s /\ DOMAIN s = 1..Len(s) /\ Len(s) \in Nat
      /\ handed[l] = Elements(s)
      /\ \A i \in 1..Len(s) : s[i] # NoMsg
    BY ListedIs, SeqFacts DEF Represents
<1>2. msg_list_find_msgtype(l, type) = IF hits = {} THEN NoMsg ELSE s[Min(hits)]
    BY <1>1 DEF msg_list_find_msgtype
<1> HIDE DEF s
<1>3. hits # {} => Min(hits) \in hits
  <2>1. hits \in SUBSET Nat
      BY <1>1
  <2> HIDE DEF hits
  <2> QED
      BY <2>1, FirstOf
<1>4. hits # {} <=> \E m \in handed[l] : TypeOf[m] = type
    BY <1>1 DEF Elements
<1>5. \A i \in hits : s[i] \in handed[l] /\ TypeOf[s[i]] = type /\ s[i] # NoMsg
    BY <1>1 DEF Elements
<1> HIDE DEF hits
<1> QED
    BY <1>2, <1>3, <1>4, <1>5

LEMMA PendingIs ==
    ASSUME Fields, NEW q, Represents(q)
    PROVE  PendingIsFound
<1>1. /\ NoList \notin List /\ ~(MSG_PRIO_ANY < MSG_PRIO_LENGTH) /\ List \subseteq Nat
    BY Lists DEF NoList, MSG_PRIO_ANY
<1>2. ASSUME NEW S \in SUBSET List
      PROVE  IF S = {} THEN FirstList(S) = NoList
             ELSE FirstList(S) = Min(S) /\ Min(S) \in S /\ Min(S) # NoList
    BY <1>1, FirstOf DEF FirstList
<1>3. ASSUME NEW type \in MsgType
      PROVE  LET queued == {l \in List : \E m \in handed[l] : TypeOf[m] = type}
                 found == msg_queue_find_msgtype(MSG_PRIO_ANY, type)
             IN  IF queued = {} THEN found = NoMsg
                 ELSE found \in handed[Min(queued)] /\ TypeOf[found] = type
  <2> DEFINE queued == {l \in List : \E m \in handed[l] : TypeOf[m] = type}
             first == FirstList(queued)
  <2>1. queued = {k \in List : msg_list_find_msgtype(k, type) # NoMsg}
      BY FoundInList
  <2>2. msg_queue_find_msgtype(MSG_PRIO_ANY, type) =
            IF first = NoList THEN NoMsg ELSE msg_list_find_msgtype(first, type)
      BY <1>1, <2>1 DEF msg_queue_find_msgtype
  <2>3. CASE queued = {}
      BY <1>2, <2>2, <2>3
  <2>4. CASE queued # {}
    <3>1. first = Min(queued) /\ first \in queued /\ first # NoList
        BY <1>2, <2>4
    <3>2. first \in List /\ \E m \in handed[first] : TypeOf[m] = type
        BY <3>1
    <3>3. LET found == msg_list_find_msgtype(first, type)
          IN  found \in handed[first] /\ TypeOf[found] = type
        BY <3>2, FoundInList
    <3> QED
        BY <2>2, <2>4, <3>1, <3>3
  <2> QED
      BY <2>3, <2>4
<1>4. msg_queue_peek = NoMsg <=> \A l \in List : handed[l] = {}
  <2> DEFINE full == {l \in List : msg_list_peek(l) # NoMsg}
             first == FirstList(full)
  <2>1. \A l \in List : msg_list_peek(l) = msg_head[l]
      BY <1>1 DEF msg_list_peek
  <2>2. msg_queue_peek = msg_list_peek(first)
      BY <1>1 DEF msg_queue_peek, msg_queue_get_msg_list
  <2>3. ASSUME NEW l \in List
        PROVE  msg_head[l] = NoMsg <=> handed[l] = {}
    <3>1. /\ q[l] \in Seq(Msg) /\ Chain(q[l], next, msg_head[l], msg_tail[l])
          /\ handed[l] = Elements(q[l])
        BY DEF Represents
    <3>2. CASE q[l] = <<>>
        BY <3>1, <3>2, SeqFacts DEF Chain, Elements
    <3>3. CASE q[l] # <<>>
      <4>1. 1 \in 1..Len(q[l]) /\ q[l][1] # NoMsg
          BY <3>1, <3>3, SeqFacts
      <4> QED
          BY <3>1, <3>3, <4>1 DEF Chain, Elements
    <3> QED
        BY <3>2, <3>3
  <2>4. CASE full = {}
    <3>1. first = NoList
        BY <1>2, <2>4
    <3> QED
        BY <2>1, <2>2, <2>3, <2>4, <3>1 DEF msg_list_peek
  <2>5. CASE full # {}
    <3>1. first \in full
        BY <1>2, <2>5
    <3> QED
        BY <2>1, <2>2, <2>3, <3>1
  <2> QED
      BY <2>4, <2>5
<1> QED
    BY <1>3, <1>4 DEF PendingIsFound

\* msg_queue_find_msgtype, msg_queue_peek: a search for a type finds the pending
\* message of the highest priority that has it, and NULL when there is none.
THEOREM PendingFound == ~RemoveLast => (Spec => []PendingIsFound)
<1>1. IInv => PendingIsFound
    BY PendingIs DEF IInv
<1> QED
    BY <1>1, IInvHolds, PTL

----------------------------------------------------------------------------
(* The lists implement a priority queue.                                   *)

Queue == [l \in List |-> Listed(l)]

LEMMA QueueIs ==
    ASSUME Fields', NEW r, Represents(r)'
    PROVE  Queue' = r
<1>1. ASSUME NEW l \in List
      PROVE  Listed(l)' = r[l]
  <2>1. r[l] \in Seq(Msg) /\ Injective(r[l])
      BY DEF Represents, Disjoint, Injective
  <2>2. Chain(r[l], next', msg_head'[l], msg_tail'[l])
      BY DEF Represents
  <2>3. next' \in [Msg -> Maybe]
      BY DEF Fields
  <2> QED
      BY <2>1, <2>2, <2>3, WalkIsChain DEF Listed
<1> QED
    BY <1>1 DEF Queue, Represents

LEMMA InitImplements == Init => Abstract!Init
<1> SUFFICES ASSUME Init PROVE Abstract!Init
    OBVIOUS
<1>1. Queue = [l \in List |-> <<>>]
    BY InitRepresents, ListedIs DEF Queue
<1> QED
    BY <1>1 DEF Abstract!Init, Queue, Init

LEMMA QueueStepIs ==
    ASSUME NEW q \in [List -> Seq(Msg)], NEW r, QueueStep(q, r), Queue = q, Queue' = r
    PROVE  Abstract!Next
<1>1. \A l \in List : DOMAIN q[l] = 1..Len(q[l])
    BY SeqFacts
<1>2. CASE r = q /\ popped' = NoMsg
    BY <1>2 DEF Abstract!Next, Abstract!Refuse, Queue
<1>3. ASSUME NEW l \in List, NEW m \in Msg,
             \A k \in List : \A i \in 1..Len(q[k]) : q[k][i] # m,
             r = [q EXCEPT ![l] = Append(@, m)],
             popped' = NoMsg
      PROVE  Abstract!Next
  <2>1. ~Abstract!Queued(m)
      BY <1>3 DEF Abstract!Queued, Abstract!Contains, Queue
  <2>2. Abstract!Push(l, m)
      BY <1>3, <2>1 DEF Abstract!Push, Queue
  <2> QED
      BY <2>2 DEF Abstract!Next
<1>4. ASSUME NEW l \in List, NEW n \in 1..Len(q[l]),
             r = [q EXCEPT ![l] = RemoveAt(@, n)]
      PROVE  /\ popped' = NoMsg => Abstract!Next
             /\ n = 1 /\ popped' = q[l][1] /\ (\A k \in List : k < l => q[k] = <<>>)
                  => Abstract!Next
  <2>1. ASSUME popped' = NoMsg
        PROVE  Abstract!TakeOut(l)
      BY <1>1, <1>4, <2>1 DEF Abstract!TakeOut, Abstract!RemoveAt, RemoveAt, Queue
  <2>2. ASSUME n = 1, popped' = q[l][1], \A k \in List : k < l => q[k] = <<>>
        PROVE  Abstract!Pop(l)
    <3>1. RemoveAt(q[l], n) = Tail(q[l])
        BY <2>2, RemoveAtFacts
    <3>2. q[l] # <<>> /\ Head(q[l]) = q[l][1]
        BY <2>2, SeqFacts
    <3>3. r = [q EXCEPT ![l] = Tail(@)]
        BY <1>4, <3>1
    <3> QED
        BY <2>2, <3>2, <3>3 DEF Abstract!Pop, Queue
  <2> QED
      BY <2>1, <2>2 DEF Abstract!Next
<1> QED
    BY <1>2, <1>3, <1>4 DEF QueueStep

LEMMA NextImplements ==
    ~RemoveLast /\ IInv /\ [Next]_vars => [Abstract!Next]_<<Queue, popped>>
<1> SUFFICES ASSUME ~RemoveLast, IInv, [Next]_vars
             PROVE  [Abstract!Next]_<<Queue, popped>>
    OBVIOUS
<1>1. PICK q : Represents(q)
    BY DEF IInv
<1>2. Queue = q /\ q \in [List -> Seq(Msg)]
    BY <1>1, ListedIs DEF IInv, Queue, Represents
<1>3. CASE Next
  <2>1. PICK r : Fields' /\ Represents(r)' /\ QueueStep(q, r)
      BY <1>1, <1>3, NextSteps DEF IInv, Steps
  <2>2. Queue' = r
      BY <2>1, QueueIs
  <2> QED
      BY <1>2, <2>1, <2>2, QueueStepIs
<1>4. CASE UNCHANGED vars
    BY <1>4 DEF vars, listVars, Queue, Listed
<1> QED
    BY <1>3, <1>4

\* message-queue.c: the three linked lists are a priority queue, in which the
\* messages of one priority keep their order.
THEOREM QueueIsImplemented == ~RemoveLast => (Spec => ImplementsPrioQueue)
<1> SUFFICES ASSUME ~RemoveLast PROVE Spec => ImplementsPrioQueue
    OBVIOUS
<1>1. IInv /\ [Next]_vars => [Abstract!Next]_<<Queue, popped>>
    BY NextImplements
<1>2. IInv /\ [Next]_vars => [Abstract!Next]_<<[l \in List |-> Listed(l)], popped>>
    BY <1>1 DEF Queue
<1>3. Init => Abstract!Init
    BY InitImplements
<1> QED
    BY <1>2, <1>3, IInvHolds, PTL DEF Spec, ImplementsPrioQueue, Abstract!Spec
===============================================================================
