------------------------------ MODULE CbaProofs ------------------------------
(***************************************************************************)
(* Proofs about the circular buffer allocator.                             *)
(*                                                                         *)
(* The invariants of Cba are not inductive: why a new chunk overlaps none  *)
(* of the others depends on where all of them lie relative to tail_idx and *)
(* free_idx.  Shape says it for a chain s that starts at t and after which *)
(* f is free.  The chunks in front of t are those behind the wrap.         *)
(***************************************************************************)
EXTENDS Cba, SequenceTheorems, TLAPS

ChunkType == [idx : 0..(Size - 1), len : 0..(LenMod - 1),
              bound : BOOLEAN, held : BOOLEAN, req : Requests]

InZone(c, f, t) ==
    IF c.idx < t THEN f < t /\ End(c) <= f
    ELSE End(c) <= (IF f < t THEN Size ELSE f)

Ordered(c, d, t) ==
    /\ c.idx < t => d.idx < t
    /\ (c.idx < t <=> d.idx < t) => End(c) <= d.idx

Shape(s, f, t) ==
    /\ s \in Seq(ChunkType)
    /\ f \in 0..(Size - 1)
    /\ t \in 0..(Size - 1)
    /\ s = <<>> => f = t
    /\ s # <<>> => /\ s[1].idx = t
                   /\ cba_next_chunk_idx(s[Len(s)]) = f
                   /\ f # t
    /\ \A i \in 1..(Len(s) - 1) : s[i + 1].idx = cba_next_chunk_idx(s[i])
    /\ \A i \in 1..Len(s) : InZone(s[i], f, t)
    /\ \A i, j \in 1..Len(s) : i < j => Ordered(s[i], s[j], t)

\* What a single header promises its caller.
Sound(c) == c.held => c.bound /\ c.req + CBA_END_MARKER_LEN <= c.len

\* No chunk of the chain was freed: what an allocator whose chunks are freed in
\* the order of their allocation keeps true.
AllHeld(s) == \A i \in 1..Len(s) : s[i].held

IInv ==
    /\ Shape(chunks, free_idx, tail_idx)
    /\ chunks = <<>> => free_idx = 0 /\ head_idx = 0
    /\ chunks # <<>> => head_idx = chunks[Len(chunks)].idx /\ chunks[1].bound
    /\ \A i \in 1..Len(chunks) : Sound(chunks[i])
    /\ ordered \in BOOLEAN
    /\ ordered => AllHeld(chunks)

----------------------------------------------------------------------------
(* Arithmetic.                                                             *)

\* cba_chunk_len rounds up and leaves room for the marker; nothing is lost to
\* the 16 bits of its result.
LEMMA ChunkLenBounds ==
    ASSUME Representable, NEW req \in Requests
    PROVE  /\ cba_chunk_len(req) \in Nat
           /\ req + CBA_END_MARKER_LEN <= cba_chunk_len(req)
<1> DEFINE n == IF req < 3 THEN 3 ELSE req
           up == (n \div 4 + 1) * 4
<1>1. req \in Nat /\ req + 4 < WordMod /\ WordMod \in Nat \ {0}
    BY CbaAssumption DEF Representable, CBA_ALLIGNMENT
<1>2. n \in Nat /\ req <= n /\ n + 1 < WordMod
    BY <1>1
<1>3. up \in Nat /\ n + 1 <= up /\ up <= n + 4
  <2> HIDE DEF n
  <2>1. n \div 4 \in Nat /\ n % 4 \in 0..3 /\ n = 4 * (n \div 4) + (n % 4)
      BY <1>2
  <2> QED
      BY <1>2, <2>1
<1>4. up <= req + 4 \/ up = 4
    BY <1>1, <1>3
<1>5. up < WordMod
    BY <1>1, <1>4
<1>6. up % WordMod = up /\ n % WordMod = n
    BY <1>1, <1>2, <1>3, <1>5
<1> QED
    BY <1>1, <1>2, <1>3, <1>6
    DEF cba_chunk_len, CBA_END_MARKER_LEN, CBA_MIN_CHUNK_LEN, CBA_ALLIGNMENT

\* A part of a sequence.
LEMMA PartOfSeq ==
    ASSUME NEW S, NEW s \in Seq(S),
           NEW m \in 1..(Len(s) + 1), NEW n \in 0..Len(s), m <= n + 1
    PROVE  /\ SubSeq(s, m, n) \in Seq(S)
           /\ Len(SubSeq(s, m, n)) = n - m + 1
           /\ \A i \in 1..(n - m + 1) : SubSeq(s, m, n)[i] = s[m + i - 1]
<1>1. Len(s) \in Nat /\ m \in Int /\ n \in Int
    BY LenProperties
<1>2. \A i \in m..n : s[i] \in S
    BY <1>1, ElementOfSeq
<1>3. /\ SubSeq(s, m, n) \in Seq(S)
      /\ Len(SubSeq(s, m, n)) = IF m <= n THEN n - m + 1 ELSE 0
      /\ \A i \in 1..(n - m + 1) : SubSeq(s, m, n)[i] = s[m + i - 1]
    BY <1>1, <1>2, SubSeqProperties
<1>4. ~(m <= n) => n - m + 1 = 0
    BY <1>1
<1> QED
    BY <1>3, <1>4

\* A chunk of a chain, and where it ends.
LEMMA ChunkOfChain ==
    ASSUME NEW s \in Seq(ChunkType), NEW i \in 1..Len(s)
    PROVE  /\ s[i] \in ChunkType
           /\ s[i].idx \in 0..(Size - 1)
           /\ End(s[i]) \in Nat
           /\ s[i].idx < End(s[i])
<1>1. s[i] \in ChunkType
    BY ElementOfSeq
<1>2. s[i].idx \in 0..(Size - 1) /\ s[i].len \in 0..(LenMod - 1)
    BY <1>1 DEF ChunkType
<1>3. s[i].idx \in Nat /\ s[i].len \in Nat
    BY <1>2
<1>4. End(s[i]) = s[i].idx + 4 + s[i].len
    BY DEF End, CBA_HEADER_LEN, CBA_ALLIGNMENT
<1> QED
    BY <1>1, <1>2, <1>3, <1>4

\* The index behind a chunk that ends inside the buffer, or at its end.
LEMMA NextIdxValue ==
    ASSUME NEW c \in ChunkType, End(c) <= Size
    PROVE  cba_next_chunk_idx(c) = IF End(c) = Size THEN 0 ELSE End(c)
<1>1. End(c) \in Nat /\ Size \in Nat \ {0}
    BY CbaAssumption DEF ChunkType, End, CBA_HEADER_LEN, CBA_ALLIGNMENT
<1> QED
    BY <1>1 DEF cba_next_chunk_idx

----------------------------------------------------------------------------
(* What the operations do to the shape of a chain.                         *)

\* A chunk is put where the chain ends.  It stays clear of the tail or of the
\* end of the buffer, or, when there is room in front of the tail, reaches
\* just up to the end of the buffer.
LEMMA ShapeGrows ==
    ASSUME NEW s, NEW f, NEW t, Shape(s, f, t),
           NEW c \in ChunkType, c.idx = f,
           IF f < t THEN End(c) < t
           ELSE End(c) < Size \/ (End(c) = Size /\ t > 0)
    PROVE  Shape(Append(s, c), cba_next_chunk_idx(c), t)
<1> DEFINE S == Append(s, c)
           g == cba_next_chunk_idx(c)
<1>0. Size \in Nat \ {0} /\ LenMod \in Nat \ {0}
    BY CbaAssumption
<1>1. /\ s \in Seq(ChunkType)
      /\ f \in 0..(Size - 1)
      /\ t \in 0..(Size - 1)
      /\ Len(s) \in Nat
    BY DEF Shape
<1>2. /\ End(c) \in Nat
      /\ f < End(c)
      /\ End(c) <= Size
    BY <1>0, <1>1 DEF End, ChunkType, CBA_HEADER_LEN, CBA_ALLIGNMENT
<1>3. g = IF End(c) = Size THEN 0 ELSE End(c)
    BY <1>2, <1>0, NextIdxValue
<1> HIDE DEF g
<1>4. /\ S \in Seq(ChunkType)
      /\ Len(S) = Len(s) + 1
      /\ S[Len(S)] = c
      /\ \A i \in 1..Len(s) : S[i] = s[i]
    BY <1>1
<1>5. \A i \in 1..Len(s) : s[i] \in ChunkType /\ End(s[i]) \in Nat
    BY <1>1, ChunkOfChain
<1>6. g # t /\ g \in 0..(Size - 1)
    BY <1>0, <1>1, <1>2, <1>3
<1>7. S[1].idx = t
    BY <1>1, <1>4 DEF Shape
<1>8. \A i \in 1..(Len(S) - 1) : S[i + 1].idx = cba_next_chunk_idx(S[i])
  <2> SUFFICES ASSUME NEW i \in 1..(Len(S) - 1)
               PROVE  S[i + 1].idx = cba_next_chunk_idx(S[i])
      OBVIOUS
  <2>1. CASE i < Len(s)
      BY <2>1, <1>1, <1>4 DEF Shape
  <2>2. CASE i = Len(s)
      BY <2>2, <1>1, <1>4 DEF Shape
  <2> QED
      BY <2>1, <2>2, <1>1, <1>4
<1>9. \A i \in 1..Len(s) : InZone(s[i], g, t) /\ Ordered(s[i], c, t)
  <2> SUFFICES ASSUME NEW i \in 1..Len(s)
               PROVE  InZone(s[i], g, t) /\ Ordered(s[i], c, t)
      OBVIOUS
  <2>1. InZone(s[i], f, t)
      BY DEF Shape
  <2>2. s[i].idx \in Nat
      BY <1>5 DEF ChunkType
  <2> QED
      BY <2>1, <2>2, <1>0, <1>1, <1>2, <1>3, <1>5 DEF InZone, Ordered
<1>10. InZone(c, g, t)
    BY <1>0, <1>1, <1>2, <1>3 DEF InZone
<1>11. \A i \in 1..Len(S) : InZone(S[i], g, t)
    BY <1>1, <1>4, <1>9, <1>10
<1>12. \A i, j \in 1..Len(S) : i < j => Ordered(S[i], S[j], t)
  <2> SUFFICES ASSUME NEW i \in 1..Len(S), NEW j \in 1..Len(S), i < j
               PROVE  Ordered(S[i], S[j], t)
      OBVIOUS
  <2>1. i \in 1..Len(s)
      BY <1>1, <1>4
  <2>2. CASE j \in 1..Len(s)
      BY <2>1, <2>2, <1>4 DEF Shape
  <2>3. CASE j = Len(S)
      BY <2>1, <2>3, <1>4, <1>9
  <2> QED
      BY <2>2, <2>3, <1>1, <1>4
<1>13. S # <<>> /\ S[Len(S)] = c
    BY <1>1, <1>4
<1>14. cba_next_chunk_idx(S[Len(S)]) = g
    BY <1>13 DEF g
<1> HIDE DEF S
<1>15. Shape(S, g, t)
    BY <1>1, <1>4, <1>6, <1>7, <1>8, <1>11, <1>12, <1>13, <1>14 DEF Shape
<1> QED
    BY <1>15 DEF S, g

\* The last chunk is taken off.
LEMMA ShapeShrinks ==
    ASSUME NEW s, NEW f, NEW t, Shape(s, f, t), s # <<>>
    PROVE  Shape(SubSeq(s, 1, Len(s) - 1), s[Len(s)].idx, t)
<1> DEFINE S == SubSeq(s, 1, Len(s) - 1)
           h == s[Len(s)].idx
<1>0. Size \in Nat \ {0} /\ LenMod \in Nat \ {0}
    BY CbaAssumption
<1>1. /\ s \in Seq(ChunkType)
      /\ f \in 0..(Size - 1)
      /\ t \in 0..(Size - 1)
      /\ Len(s) \in Nat \ {0}
    BY DEF Shape
<1>2. /\ S \in Seq(ChunkType)
      /\ Len(S) = Len(s) - 1
      /\ \A i \in 1..Len(S) : S[i] = s[i]
  <2>1. /\ 1 \in 1..(Len(s) + 1)
        /\ Len(s) - 1 \in 0..Len(s)
        /\ 1 <= (Len(s) - 1) + 1
        /\ (Len(s) - 1) - 1 + 1 = Len(s) - 1
      BY <1>1
  <2>2. /\ S \in Seq(ChunkType)
        /\ Len(S) = (Len(s) - 1) - 1 + 1
        /\ \A i \in 1..((Len(s) - 1) - 1 + 1) : S[i] = s[1 + i - 1]
      BY <2>1, <1>1, PartOfSeq
  <2>3. \A i \in 1..(Len(s) - 1) : 1 + i - 1 = i
      BY <1>1
  <2> HIDE DEF S
  <2> QED
      BY <2>1, <2>2, <2>3
<1>3. \A i \in 1..Len(s) : s[i] \in ChunkType /\ End(s[i]) \in Nat
                           /\ s[i].idx < End(s[i])
    BY <1>1, ChunkOfChain
<1>4. h \in 0..(Size - 1)
    BY <1>1, ChunkOfChain
<1>5. S = <<>> => h = t
  <2> HIDE DEF S
  <2>1. S = <<>> => Len(s) = 1
      BY <1>1, <1>2, EmptySeq
  <2> QED
      BY <2>1 DEF Shape
<1>6. ASSUME S # <<>>
      PROVE  /\ S[1].idx = t
             /\ cba_next_chunk_idx(S[Len(S)]) = h
             /\ h # t
  <2>1. Len(S) \in 1..(Len(s) - 1)
      BY <1>1, <1>2, <1>6
  <2>2. S[1].idx = t /\ S[1] = s[1]
      BY <2>1, <1>1, <1>2 DEF Shape
  <2>3. cba_next_chunk_idx(S[Len(S)]) = h
      BY <2>1, <1>1, <1>2 DEF Shape
  <2>4. Ordered(s[1], s[Len(s)], t)
      BY <2>1, <1>1, <1>2 DEF Shape
  <2>5. h # t
      BY <2>2, <2>4, <1>1, <1>3, <1>4 DEF Ordered
  <2> QED
      BY <2>2, <2>3, <2>5
<1>7. \A i \in 1..(Len(S) - 1) : S[i + 1].idx = cba_next_chunk_idx(S[i])
    BY <1>1, <1>2 DEF Shape
<1>8. \A i \in 1..Len(S) : InZone(S[i], h, t)
  <2> SUFFICES ASSUME NEW i \in 1..Len(S)
               PROVE  InZone(s[i], h, t)
      BY <1>2
  <2>1. i \in 1..Len(s) /\ Len(s) \in 1..Len(s) /\ i < Len(s)
      BY <1>1, <1>2
  <2>2. /\ InZone(s[i], f, t)
        /\ InZone(s[Len(s)], f, t)
        /\ Ordered(s[i], s[Len(s)], t)
      BY <2>1 DEF Shape
  <2>3. s[i].idx \in Nat
      BY <2>1, <1>3 DEF ChunkType
  <2> QED
      BY <2>1, <2>2, <2>3, <1>0, <1>1, <1>3, <1>4 DEF InZone, Ordered
<1>9. \A i, j \in 1..Len(S) : i < j => Ordered(S[i], S[j], t)
  <2>1. \A i, j \in 1..Len(s) : i < j => Ordered(s[i], s[j], t)
      BY DEF Shape
  <2>2. 1..Len(S) \subseteq 1..Len(s)
      BY <1>1, <1>2
  <2> QED
      BY <1>2, <2>1, <2>2
<1> QED
    BY <1>1, <1>2, <1>4, <1>5, <1>6, <1>7, <1>8, <1>9 DEF Shape

\* The rest of the buffer behind a header fits into the header's length field.
LEMMA RestFits ==
    ASSUME NEW size \in Nat, NEW mod \in Nat \ {0}, size <= mod + 4,
           NEW idx \in Nat \ {0}, NEW len \in Nat, idx + 4 + len <= size
    PROVE  LET rest == size - (idx + 4)
           IN  rest \in 0..(mod - 1) /\ rest >= len /\ rest % mod = rest
<1> DEFINE rest == size - (idx + 4)
<1>1. rest \in 0..(mod - 1) /\ rest >= len
    OBVIOUS
<1> HIDE DEF rest
<1>2. rest % mod = rest
    BY <1>1
<1> QED
    BY <1>1, <1>2 DEF rest

\* The last chunk is extended to the end of the buffer, if there is memory in
\* front of the tail: the chain then ends at the beginning of the buffer.
LEMMA ShapeStretches ==
    ASSUME Representable,
           NEW s, NEW f, NEW t, Shape(s, f, t), s # <<>>,
           t > 0, s[Len(s)].idx >= t,
           NEW e, e = [s[Len(s)] EXCEPT
                        !.len = (Size - (s[Len(s)].idx + CBA_HEADER_LEN)) % LenMod,
                        !.bound = TRUE]
    PROVE  /\ e \in ChunkType
           /\ e.len >= s[Len(s)].len
           /\ cba_next_chunk_idx(e) = 0
           /\ Shape(Append(SubSeq(s, 1, Len(s) - 1), e), 0, t)
<1> DEFINE c == s[Len(s)]
           rest == Size - (c.idx + 4)
<1>0. Size \in Nat \ {0} /\ LenMod \in Nat \ {0} /\ Size <= LenMod + 4
    BY CbaAssumption DEF Representable, CBA_HEADER_LEN, CBA_ALLIGNMENT
<1>1. /\ s \in Seq(ChunkType)
      /\ Len(s) \in Nat \ {0}
      /\ t \in 0..(Size - 1)
      /\ InZone(c, f, t)
      /\ f \in 0..(Size - 1)
    BY DEF Shape
<1>2. /\ c \in ChunkType
      /\ c.idx \in Nat /\ c.len \in Nat
      /\ End(c) = c.idx + 4 + c.len
  <2>1. Len(s) \in 1..Len(s)
      BY <1>1
  <2>2. c \in ChunkType
      BY <2>1, <1>1, ElementOfSeq
  <2> QED
      BY <2>2 DEF ChunkType, End, CBA_HEADER_LEN, CBA_ALLIGNMENT
<1>3. c.idx + 4 + c.len <= Size
  <2>1. End(c) <= f \/ End(c) <= Size
      BY <1>1 DEF InZone
  <2>2. End(c) \in Nat
      BY <1>2
  <2>3. End(c) <= Size
      BY <1>0, <1>1, <2>1, <2>2
  <2> QED
      BY <1>2, <2>3
<1>3a. c.idx \in Nat \ {0} /\ c.len \in Nat
    BY <1>1, <1>2
<1>4. rest \in 0..(LenMod - 1) /\ rest >= c.len
    BY <1>0, <1>3, <1>3a, RestFits
<1>5. rest % LenMod = rest
    BY <1>0, <1>3, <1>3a, RestFits
<1>6. e = [c EXCEPT !.len = rest, !.bound = TRUE]
    BY <1>5 DEF CBA_HEADER_LEN, CBA_ALLIGNMENT
<1>7. e \in ChunkType /\ e.idx = c.idx /\ e.len = rest
    BY <1>2, <1>4, <1>6 DEF ChunkType
<1>8. End(e) = Size
    BY <1>0, <1>2, <1>7 DEF End, CBA_HEADER_LEN, CBA_ALLIGNMENT
<1>9. cba_next_chunk_idx(e) = 0
    BY <1>0, <1>7, <1>8, NextIdxValue
<1>10. Shape(SubSeq(s, 1, Len(s) - 1), c.idx, t)
    BY ShapeShrinks
<1>11. ~(c.idx < t)
    BY <1>1, <1>2
<1> HIDE DEF c
<1>12. Shape(Append(SubSeq(s, 1, Len(s) - 1), e), cba_next_chunk_idx(e), t)
    BY <1>7, <1>8, <1>10, <1>11, ShapeGrows
<1> QED
    BY <1>4, <1>7, <1>9, <1>12 DEF c

\* When chunk a becomes the first one of the chain the others keep their order.
LEMMA OrderedFrom ==
    ASSUME NEW t \in Nat,
           NEW a \in ChunkType, NEW c \in ChunkType, NEW d \in ChunkType,
           c = a \/ Ordered(a, c, t), Ordered(a, d, t), Ordered(c, d, t)
    PROVE  Ordered(c, d, a.idx)
<1>1. /\ a.idx \in Nat /\ c.idx \in Nat /\ d.idx \in Nat
      /\ End(a) \in Nat /\ End(c) \in Nat
      /\ a.idx < End(a) /\ c.idx < End(c)
    BY CbaAssumption DEF ChunkType, End, CBA_HEADER_LEN, CBA_ALLIGNMENT
<1>2. CASE a.idx < t
    BY <1>1, <1>2 DEF Ordered
<1>3. CASE ~(a.idx < t)
    BY <1>1, <1>3 DEF Ordered
<1> QED
    BY <1>2, <1>3

\* A chunk stays in its zone when the tail moves to chunk a in front of it.
LEMMA InZoneFrom ==
    ASSUME NEW f \in 0..(Size - 1), NEW t \in 0..(Size - 1),
           NEW a \in ChunkType, NEW c \in ChunkType, a.idx # f,
           InZone(a, f, t), InZone(c, f, t), Ordered(a, c, t)
    PROVE  InZone(c, f, a.idx)
<1>1. /\ a.idx \in Nat /\ c.idx \in Nat /\ End(a) \in Nat /\ End(c) \in Nat
      /\ a.idx < End(a) /\ c.idx < End(c) /\ Size \in Nat
    BY CbaAssumption DEF ChunkType, End, CBA_HEADER_LEN, CBA_ALLIGNMENT
<1>2. f \in Nat /\ t \in Nat /\ f < Size /\ t < Size
    BY <1>1
<1>3. CASE a.idx < t
  <2>1. c.idx < t /\ End(a) <= c.idx /\ f < t /\ End(c) <= f
      BY <1>3 DEF InZone, Ordered
  <2>2. ~(c.idx < a.idx) /\ ~(f < a.idx)
      BY <1>1, <1>2, <2>1
  <2> QED
      BY <2>1, <2>2 DEF InZone
<1>4. CASE ~(a.idx < t)
  <2>1. CASE c.idx < t
    <3>1. f < t /\ End(c) <= f
        BY <2>1 DEF InZone
    <3>2. c.idx < a.idx /\ f < a.idx
        BY <1>1, <1>2, <1>4, <2>1, <3>1
    <3> QED
        BY <3>1, <3>2 DEF InZone
  <2>2. CASE ~(c.idx < t)
    <3>1. /\ End(a) <= c.idx /\ End(c) <= (IF f < t THEN Size ELSE f)
          /\ End(a) <= (IF f < t THEN Size ELSE f)
        BY <1>4, <2>2 DEF InZone, Ordered
    <3>2. ~(c.idx < a.idx) /\ (f < t => f < a.idx) /\ (~(f < t) => ~(f < a.idx))
        BY <1>1, <1>2, <1>4, <3>1
    <3> QED
        BY <3>1, <3>2 DEF InZone
  <2> QED
      BY <2>1, <2>2
<1> QED
    BY <1>3, <1>4

\* Of two chunks of a chain one ends before the other begins.
LEMMA OrderedApart ==
    ASSUME NEW f \in 0..(Size - 1), NEW t \in 0..(Size - 1),
           NEW a \in ChunkType, NEW b \in ChunkType,
           InZone(a, f, t), InZone(b, f, t), Ordered(a, b, t)
    PROVE  End(a) <= b.idx \/ End(b) <= a.idx
<1>1. /\ a.idx \in Nat /\ b.idx \in Nat /\ End(a) \in Nat /\ End(b) \in Nat
      /\ Size \in Nat
    BY CbaAssumption DEF ChunkType, End, CBA_HEADER_LEN, CBA_ALLIGNMENT
<1>2. CASE a.idx < t <=> b.idx < t
    BY <1>2 DEF Ordered
<1>3. CASE ~(a.idx < t) /\ b.idx < t
  <2>1. f < t /\ End(b) <= f
      BY <1>3 DEF InZone
  <2>2. End(b) <= a.idx
      BY <1>1, <1>3, <2>1
  <2> QED
      BY <2>2
<1> QED
    BY <1>2, <1>3 DEF Ordered

\* The walk from the tail goes from chunk to chunk, and a chain is left when
\* it stops.
LEMMA ShapeDrops ==
    ASSUME NEW s, NEW f, NEW t, Shape(s, f, t), NEW k \in 1..Len(s)
    PROVE  /\ k = Len(s) => cba_next_chunk_idx(s[k]) = f
           /\ k < Len(s) =>
                /\ cba_next_chunk_idx(s[k]) = s[k + 1].idx
                /\ s[k + 1].idx # f
                /\ Shape(SubSeq(s, k + 1, Len(s)), f, s[k + 1].idx)
<1>0. Size \in Nat \ {0} /\ LenMod \in Nat \ {0}
    BY CbaAssumption
<1>1. /\ s \in Seq(ChunkType)
      /\ Len(s) \in Nat
      /\ f \in 0..(Size - 1)
      /\ t \in 0..(Size - 1)
    BY DEF Shape
<1>2. CASE k = Len(s)
    BY <1>1, <1>2, EmptySeq DEF Shape
<1>3. CASE k < Len(s)
  <2> DEFINE S == SubSeq(s, k + 1, Len(s))
             u == s[k + 1].idx
             d(i) == s[k + i]
  <2>1. /\ k + 1 \in 1..Len(s)
        /\ k + 1 \in 1..(Len(s) + 1)
        /\ Len(s) \in 0..Len(s)
        /\ k + 1 <= Len(s) + 1
      BY <1>1, <1>3
  <2>2. /\ S \in Seq(ChunkType)
        /\ Len(S) = Len(s) - (k + 1) + 1
        /\ \A i \in 1..(Len(s) - (k + 1) + 1) : S[i] = s[(k + 1) + i - 1]
      BY <2>1, <1>1, PartOfSeq
  <2> HIDE DEF S
  <2>3. /\ Len(S) = Len(s) - k
        /\ Len(S) \in Nat \ {0}
        /\ \A i \in 1..Len(S) : /\ S[i] = s[k + i]
                                /\ k + i \in 1..Len(s)
    <3>1. Len(S) = Len(s) - k /\ Len(S) \in Nat \ {0}
        BY <1>1, <1>3, <2>2
    <3>2. \A i \in 1..Len(S) : /\ (k + 1) + i - 1 = k + i
                               /\ i \in 1..(Len(s) - (k + 1) + 1)
                               /\ k + i \in 1..Len(s)
        BY <1>1, <3>1
    <3> QED
        BY <2>2, <3>1, <3>2
  <2>4. u = cba_next_chunk_idx(s[k])
      BY <1>1, <1>3 DEF Shape
  <2>5. \A i \in 1..Len(S) : /\ s[k + i].idx \in 0..(Size - 1)
                             /\ End(s[k + i]) \in Nat
                             /\ s[k + i].idx < End(s[k + i])
                             /\ InZone(s[k + i], f, t)
      BY <1>1, <2>3, ChunkOfChain DEF Shape
  <2>6. u \in 0..(Size - 1) /\ u # f
    <3>1. 1 \in 1..Len(S)
        BY <2>3
    <3> QED
        BY <1>0, <1>1, <2>5, <3>1 DEF InZone
  <2>7. \A i \in 2..Len(S) : Ordered(s[k + 1], s[k + i], t)
    <3>1. \A i \in 2..Len(S) : k + 1 \in 1..Len(s) /\ k + i \in 1..Len(s)
                               /\ k + 1 < k + i
        BY <1>1, <2>1, <2>3
    <3> QED
        BY <3>1 DEF Shape
  <2>8. \A i \in 1..Len(S) : InZone(s[k + i], f, u)
    <3> SUFFICES ASSUME NEW i \in 1..Len(S)
                 PROVE  InZone(s[k + i], f, u)
        OBVIOUS
    <3>1. CASE i = 1
        BY <3>1, <1>0, <1>1, <2>5, <2>6 DEF InZone
    <3>2. CASE i # 1
      <4>1. i \in 2..Len(S) /\ 1 \in 1..Len(S)
          BY <2>3, <3>2
      <4>2. Ordered(s[k + 1], s[k + i], t)
          BY <4>1, <2>7
      <4>3. InZone(s[k + i], f, t) /\ InZone(s[k + 1], f, t)
          BY <4>1, <2>5
      <4>4. s[k + 1] \in ChunkType /\ s[k + i] \in ChunkType
          BY <1>1, <2>1, <2>3, <4>1, ChunkOfChain
      <4> QED
          BY <1>1, <2>6, <4>2, <4>3, <4>4, InZoneFrom
    <3> QED
        BY <3>1, <3>2
  <2>9. \A i, j \in 1..Len(S) : i < j => Ordered(s[k + i], s[k + j], u)
    <3> SUFFICES ASSUME NEW i \in 1..Len(S), NEW j \in 1..Len(S), i < j
                 PROVE  Ordered(s[k + i], s[k + j], u)
        OBVIOUS
    <3>1. /\ k + i \in 1..Len(s) /\ k + j \in 1..Len(s) /\ k + i < k + j
          /\ j \in 2..Len(S)
        BY <1>1, <2>3
    <3>2. Ordered(s[k + i], s[k + j], t)
        BY <3>1 DEF Shape
    <3>3. /\ i = 1 \/ Ordered(s[k + 1], s[k + i], t)
          /\ Ordered(s[k + 1], s[k + j], t)
        BY <3>1, <2>7, <2>3
    <3>4. /\ s[k + 1] \in ChunkType
          /\ s[k + i] \in ChunkType
          /\ s[k + j] \in ChunkType
        BY <1>1, <2>1, <3>1, ElementOfSeq
    <3> QED
        BY <1>1, <3>2, <3>3, <3>4, OrderedFrom
  <2>10. \A i \in 1..(Len(S) - 1) : S[i + 1].idx = cba_next_chunk_idx(S[i])
    <3> SUFFICES ASSUME NEW i \in 1..(Len(S) - 1)
                 PROVE  S[i + 1].idx = cba_next_chunk_idx(S[i])
        OBVIOUS
    <3>1. /\ i \in 1..Len(S) /\ i + 1 \in 1..Len(S)
          /\ k + i \in 1..(Len(s) - 1) /\ k + (i + 1) = (k + i) + 1
        BY <1>1, <2>3
    <3>2. s[(k + i) + 1].idx = cba_next_chunk_idx(s[k + i])
        BY <3>1 DEF Shape
    <3> QED
        BY <3>1, <3>2, <2>3
  <2>11. S # <<>> /\ S[1].idx = u /\ cba_next_chunk_idx(S[Len(S)]) = f
    <3>1. 1 \in 1..Len(S) /\ Len(S) \in 1..Len(S) /\ k + Len(S) = Len(s)
        BY <1>1, <2>3
    <3>2. s # <<>>
        BY <1>1, <1>3, EmptySeq
    <3> QED
        BY <3>1, <3>2, <2>3, EmptySeq DEF Shape
  <2>12. Shape(S, f, u)
      BY <1>1, <2>2, <2>3, <2>6, <2>8, <2>9, <2>10, <2>11 DEF Shape
  <2> QED
      BY <1>3, <2>4, <2>6, <2>12 DEF S
<1> QED
    BY <1>1, <1>2, <1>3

\* Only the places and lengths of the chunks matter.
LEMMA ShapeKept ==
    ASSUME NEW s, NEW f, NEW t, Shape(s, f, t),
           NEW S \in Seq(ChunkType), Len(S) = Len(s),
           \A i \in 1..Len(s) : S[i].idx = s[i].idx /\ S[i].len = s[i].len
    PROVE  Shape(S, f, t)
<1>1. /\ s \in Seq(ChunkType)
      /\ Len(s) \in Nat
      /\ s = <<>> <=> S = <<>>
    BY EmptySeq DEF Shape
<1>2. \A i \in 1..Len(s) : /\ End(S[i]) = End(s[i])
                           /\ cba_next_chunk_idx(S[i]) = cba_next_chunk_idx(s[i])
    BY DEF End, cba_next_chunk_idx
<1>3. \A i \in 1..(Len(s) - 1) : i \in 1..Len(s) /\ i + 1 \in 1..Len(s)
    BY <1>1
<1>4. \A i \in 1..(Len(S) - 1) : S[i + 1].idx = cba_next_chunk_idx(S[i])
    BY <1>2, <1>3 DEF Shape
<1>5. \A i \in 1..Len(S) : InZone(S[i], f, t)
    BY <1>2 DEF Shape, InZone
<1>6. \A i, j \in 1..Len(S) : i < j => Ordered(S[i], S[j], t)
    BY <1>2 DEF Shape, Ordered
<1>7. S # <<>> => S[1].idx = t /\ cba_next_chunk_idx(S[Len(S)]) = f /\ f # t
  <2>1. S # <<>> => 1 \in 1..Len(s) /\ Len(s) \in 1..Len(s)
      BY <1>1, EmptySeq
  <2> QED
      BY <1>1, <1>2, <2>1 DEF Shape
<1> QED
    BY <1>1, <1>4, <1>5, <1>6, <1>7 DEF Shape

----------------------------------------------------------------------------
(* What the operations do to the allocator.                                *)

\* A chunk for which there is room is what its caller asked for.
LEMMA ChunkSound ==
    ASSUME Representable, NEW idx \in 0..(Size - 1), NEW req \in Requests,
           cba_chunk_len(req) + CBA_HEADER_LEN < Size
    PROVE  LET c == Chunk(idx, cba_chunk_len(req), req)
           IN  /\ c \in ChunkType
               /\ c.idx = idx
               /\ c.bound
               /\ c.held
               /\ Sound(c)
               /\ End(c) = idx + CBA_HEADER_LEN + cba_chunk_len(req)
<1> DEFINE len == cba_chunk_len(req)
<1>1. /\ len \in Nat
      /\ req + CBA_END_MARKER_LEN <= len
    BY ChunkLenBounds
<1>2. Size \in Nat \ {0} /\ LenMod \in Nat \ {0} /\ Size <= LenMod + 4
    BY CbaAssumption DEF Representable, CBA_HEADER_LEN, CBA_ALLIGNMENT
<1> HIDE DEF len
<1>3. len \in 0..(LenMod - 1) /\ len % LenMod = len
  <2>1. len + 4 < Size
      BY DEF len, CBA_HEADER_LEN, CBA_ALLIGNMENT
  <2>2. len \in 0..(LenMod - 1)
      BY <1>1, <1>2, <2>1
  <2> QED
      BY <1>2, <2>2
<1>4. Chunk(idx, len, req) = [idx |-> idx, len |-> len, bound |-> TRUE,
                              held |-> TRUE, req |-> req]
    BY <1>3 DEF Chunk
<1>5. Chunk(idx, len, req) \in ChunkType
    BY <1>3, <1>4 DEF ChunkType
<1> QED
    BY <1>1, <1>4, <1>5 DEF len, Sound, End

\* A chunk is written at the end of chain s.
LEMMA PlaceKeepsIInv ==
    ASSUME Representable,
           NEW STATE s, NEW STATE f, Shape(s, f, tail_idx),
           s # <<>> => s[1].bound,
           \A i \in 1..Len(s) : Sound(s[i]),
           ordered \in BOOLEAN, ordered => AllHeld(s),
           NEW c \in ChunkType, c.idx = f, c.bound, c.held, Sound(c),
           IF f < tail_idx THEN End(c) < tail_idx ELSE End(c) < Size,
           Place(s, c), tail_idx' = tail_idx, ordered' = ordered
    PROVE  IInv'
<1> DEFINE S == Append(s, c)
<1>1. s \in Seq(ChunkType) /\ Len(s) \in Nat
    BY DEF Shape
<1>2. /\ S \in Seq(ChunkType)
      /\ Len(S) = Len(s) + 1
      /\ S[Len(S)] = c
      /\ \A i \in 1..Len(s) : S[i] = s[i]
    BY <1>1
<1>3. Shape(S, cba_next_chunk_idx(c), tail_idx)
  <2>1. IF f < tail_idx THEN End(c) < tail_idx
        ELSE End(c) < Size \/ (End(c) = Size /\ tail_idx > 0)
      OBVIOUS
  <2> QED
      BY <2>1, ShapeGrows, Zenon
<1>4. \A i \in 1..Len(S) : Sound(S[i])
    BY <1>1, <1>2
<1>5. ordered => AllHeld(S)
    BY <1>1, <1>2 DEF AllHeld
<1>6. S # <<>> /\ S[1].bound
  <2>1. CASE s = <<>>
      BY <2>1
  <2>2. CASE s # <<>>
      BY <2>2, <1>1, <1>2, EmptySeq
  <2> QED
      BY <2>1, <2>2
<1> HIDE DEF S
<1>7. /\ chunks' = S
      /\ head_idx' = S[Len(S)].idx
      /\ free_idx' = cba_next_chunk_idx(c)
      /\ tail_idx' = tail_idx
    BY <1>2 DEF Place, S
<1> QED
    BY <1>3, <1>4, <1>6, <1>7, <1>5 DEF IInv, AllHeld

\* Chunk i of chain s is freed.
LEMMA ReleaseKeepsIInv ==
    ASSUME NEW STATE s, NEW STATE f, Shape(s, f, tail_idx),
           s[1].bound,
           \A j \in 1..Len(s) : Sound(s[j]),
           ordered \in BOOLEAN, ordered => AllHeld(s),
           NEW i \in 1..Len(s),
           Release(s, i, s[Len(s)].idx, f),
           ordered' = (chunks' = <<>> \/ (ordered /\ i = 1))
    PROVE  IInv'
<1> DEFINE e == [s[i] EXCEPT !.bound = FALSE, !.held = FALSE]
           T == [s EXCEPT ![i] = e]
           h == s[Len(s)].idx
<1>1. s \in Seq(ChunkType) /\ Len(s) \in Nat \ {0}
    BY DEF Shape
<1>2. e \in ChunkType /\ e.idx = s[i].idx /\ e.len = s[i].len /\ Sound(e)
  <2>1. s[i] \in ChunkType
      BY <1>1, ElementOfSeq
  <2> QED
      BY <2>1 DEF ChunkType, Sound
<1> HIDE DEF e
<1>3. /\ T \in Seq(ChunkType)
      /\ Len(T) = Len(s)
      /\ \A j \in 1..Len(s) : T[j] = IF j = i THEN e ELSE s[j]
    BY <1>1, <1>2, ExceptSeq
<1>4. [s EXCEPT ![i].bound = FALSE, ![i].held = FALSE] = T
    BY <1>1, LenProperties DEF e
<1> HIDE DEF T
<1>5. Shape(T, f, tail_idx)
    BY <1>2, <1>3, ShapeKept
<1>6. \A j \in 1..Len(T) : Sound(T[j])
    BY <1>2, <1>3
<1>7. T # <<>> /\ T[Len(T)].idx = h /\ s[1].idx = tail_idx
    BY <1>1, <1>2, <1>3, EmptySeq DEF Shape
<1>8. CASE s[i].idx # tail_idx
  <2>1. T[1].bound
      BY <1>1, <1>3, <1>7, <1>8
  <2>2. /\ chunks' = T
        /\ head_idx' = T[Len(T)].idx
        /\ free_idx' = f
        /\ tail_idx' = tail_idx
      BY <1>4, <1>7, <1>8 DEF Release
  <2>3. ordered' = FALSE
      BY <1>7, <1>8, <2>2
  <2> QED
      BY <1>5, <1>6, <1>7, <2>1, <2>2, <2>3 DEF IInv
<1>9. CASE s[i].idx = tail_idx
  <2> DEFINE After(k) ==
        LET tail == cba_next_chunk_idx(T[k])
        IN  \/ /\ tail # f
               /\ chunks' = SubSeq(T, k + 1, Len(T))
               /\ head_idx' = h /\ free_idx' = f /\ tail_idx' = tail
            \/ /\ tail = f
               /\ chunks' = <<>>
               /\ head_idx' = 0 /\ free_idx' = 0 /\ tail_idx' = 0
  <2>1. \E k \in 1..Len(s) : UnboundPrefix(T, k) /\ After(k)
      BY <1>4, <1>9 DEF Release
  <2>2. PICK k \in 1..Len(T) : UnboundPrefix(T, k) /\ After(k)
      BY <2>1, <1>3
  <2>3. /\ k = Len(T) => cba_next_chunk_idx(T[k]) = f
        /\ k < Len(T) =>
             /\ cba_next_chunk_idx(T[k]) = T[k + 1].idx
             /\ T[k + 1].idx # f
             /\ Shape(SubSeq(T, k + 1, Len(T)), f, T[k + 1].idx)
      BY <1>5, ShapeDrops
  <2>4. CASE k = Len(T)
    <3>1. chunks' = <<>> /\ head_idx' = 0 /\ free_idx' = 0 /\ tail_idx' = 0
        BY <2>2, <2>3, <2>4
    <3>2. ordered' = TRUE
        BY <3>1
    <3> QED
        BY <3>1, <3>2, CbaAssumption, EmptySeq DEF IInv, Shape, AllHeld
  <2>5. CASE k < Len(T)
    <3> DEFINE S == SubSeq(T, k + 1, Len(T))
    <3>1. /\ chunks' = S
          /\ head_idx' = h
          /\ free_idx' = f
          /\ tail_idx' = T[k + 1].idx
        BY <2>2, <2>3, <2>5
    <3>2. /\ S \in Seq(ChunkType)
          /\ Len(S) = Len(T) - (k + 1) + 1
          /\ \A j \in 1..(Len(T) - (k + 1) + 1) : S[j] = T[(k + 1) + j - 1]
      <4>1. /\ k + 1 \in 1..(Len(T) + 1)
            /\ Len(T) \in 0..Len(T)
            /\ k + 1 <= Len(T) + 1
          BY <1>1, <1>3, <2>5
      <4> QED
          BY <4>1, <1>3, PartOfSeq
    <3>3. Shape(S, f, T[k + 1].idx)
        BY <2>3, <2>5
    <3> HIDE DEF S
    <3>4. /\ Len(S) = Len(T) - k
          /\ Len(S) \in Nat \ {0}
          /\ \A j \in 1..Len(S) : S[j] = T[k + j] /\ k + j \in 1..Len(T)
      <4>1. Len(S) = Len(T) - k /\ Len(S) \in Nat \ {0}
          BY <1>1, <1>3, <2>5, <3>2
      <4>2. \A j \in 1..Len(S) : /\ (k + 1) + j - 1 = k + j
                                 /\ j \in 1..(Len(T) - (k + 1) + 1)
                                 /\ k + j \in 1..Len(T)
          BY <1>1, <1>3, <4>1
      <4> QED
          BY <3>2, <4>1, <4>2
    <3>5. S # <<>> /\ S[1].bound /\ S[Len(S)].idx = h
      <4>1. /\ 1 \in 1..Len(S) /\ Len(S) \in 1..Len(S)
            /\ k + Len(S) = Len(T)
          BY <1>1, <1>3, <3>4
      <4>2. T[k + 1].bound
          BY <2>2, <2>5 DEF UnboundPrefix
      <4> QED
          BY <1>7, <3>4, <4>1, <4>2, EmptySeq
    <3>6. \A j \in 1..Len(S) : Sound(S[j])
        BY <1>6, <3>4
    <3>7. ordered' = (ordered /\ i = 1)
        BY <3>1, <3>5
    <3>8. ordered' => AllHeld(S)
      <4>1. \A j \in 1..Len(S) : k + j # 1 /\ k + j \in 1..Len(s)
          BY <1>1, <1>3, <3>4
      <4> QED
          BY <1>3, <3>4, <3>7, <4>1 DEF AllHeld
    <3> QED
        BY <3>1, <3>3, <3>5, <3>6, <3>7, <3>8 DEF IInv, AllHeld
  <2> QED
      BY <2>4, <2>5, <1>1, <1>3
<1> QED
    BY <1>8, <1>9

\* The chain that cba_allocate_chunk prepares before it wraps.
LEMMA StretchedChain ==
    ASSUME Representable, IInv, tail_idx > 0, head_idx >= tail_idx
    PROVE  /\ chunks # <<>>
           /\ Stretched \in Seq(ChunkType)
           /\ Len(Stretched) = Len(chunks)
           /\ Shape(Stretched, 0, tail_idx)
           /\ cba_next_chunk_idx(Stretched[Len(chunks)]) = 0
           /\ Stretched[1].bound
           /\ \A i \in 1..Len(chunks) :
                i # Len(chunks) => Stretched[i] = chunks[i]
           /\ \A i \in 1..Len(chunks) :
                /\ Sound(Stretched[i])
                /\ Stretched[i].idx = chunks[i].idx
                /\ Stretched[i].held = chunks[i].held
                /\ Stretched[i].req = chunks[i].req
<1> DEFINE n == Len(chunks)
           e == [chunks[n] EXCEPT
                    !.len = (Size - (chunks[n].idx + CBA_HEADER_LEN)) % LenMod,
                    !.bound = TRUE]
<1>1. /\ chunks \in Seq(ChunkType)
      /\ Shape(chunks, free_idx, tail_idx)
      /\ tail_idx \in 0..(Size - 1)
    BY DEF IInv, Shape
<1>2. chunks # <<>>
    BY <1>1 DEF IInv, Shape
<1>3. n \in Nat \ {0} /\ n \in 1..n /\ head_idx = chunks[n].idx
    BY <1>1, <1>2, EmptySeq DEF IInv
<1>4. Stretched = Append(SubSeq(chunks, 1, n - 1), e)
    BY <1>3 DEF Stretched, Below, HeadChunk
<1>5. /\ e \in ChunkType
      /\ e.len >= chunks[n].len
      /\ cba_next_chunk_idx(e) = 0
      /\ Shape(Append(SubSeq(chunks, 1, n - 1), e), 0, tail_idx)
    BY <1>1, <1>2, <1>3, ShapeStretches
<1>6. /\ e.idx = chunks[n].idx
      /\ e.held = chunks[n].held
      /\ e.req = chunks[n].req
      /\ e.bound
      /\ chunks[n] \in ChunkType
  <2>1. chunks[n] \in ChunkType
      BY <1>1, <1>3, ElementOfSeq
  <2> QED
      BY <2>1 DEF ChunkType
<1>7. Sound(e)
  <2>1. Sound(chunks[n])
      BY <1>3 DEF IInv
  <2> HIDE DEF e
  <2>2. /\ e.len \in Nat
        /\ chunks[n].len \in Nat
        /\ e.req \in Requests
      BY <1>5, <1>6, CbaAssumption DEF ChunkType
  <2>3. e.req \in Nat /\ CBA_END_MARKER_LEN \in Nat
      BY <2>2, CbaAssumption DEF CBA_END_MARKER_LEN
  <2> QED
      BY <1>5, <1>6, <2>1, <2>2, <2>3 DEF Sound
<1>8. /\ SubSeq(chunks, 1, n - 1) \in Seq(ChunkType)
      /\ Len(SubSeq(chunks, 1, n - 1)) = n - 1
      /\ \A i \in 1..(n - 1) : SubSeq(chunks, 1, n - 1)[i] = chunks[i]
  <2>1. /\ 1 \in 1..(n + 1) /\ n - 1 \in 0..n /\ 1 <= (n - 1) + 1
        /\ (n - 1) - 1 + 1 = n - 1
        /\ \A i \in 1..(n - 1) : 1 + i - 1 = i
      BY <1>3
  <2>2. /\ SubSeq(chunks, 1, n - 1) \in Seq(ChunkType)
        /\ Len(SubSeq(chunks, 1, n - 1)) = (n - 1) - 1 + 1
        /\ \A i \in 1..((n - 1) - 1 + 1) :
                SubSeq(chunks, 1, n - 1)[i] = chunks[1 + i - 1]
      BY <1>1, <2>1, PartOfSeq
  <2> QED
      BY <2>1, <2>2
<1> HIDE DEF e
<1>9. /\ Stretched \in Seq(ChunkType)
      /\ Len(Stretched) = n
      /\ \A i \in 1..n : Stretched[i] = IF i = n THEN e ELSE chunks[i]
  <2> DEFINE B == SubSeq(chunks, 1, n - 1)
  <2> HIDE DEF B
  <2>1. B \in Seq(ChunkType) /\ Len(B) = n - 1 /\ \A i \in 1..(n - 1) : B[i] = chunks[i]
      BY <1>8 DEF B
  <2>2. Stretched = Append(B, e)
      BY <1>4 DEF B
  <2> QED
      BY <2>1, <2>2, <1>3, <1>5
<1>10. \A i \in 1..n : /\ Sound(Stretched[i])
                       /\ Stretched[i].idx = chunks[i].idx
                       /\ Stretched[i].held = chunks[i].held
                       /\ Stretched[i].req = chunks[i].req
    BY <1>6, <1>7, <1>9 DEF IInv
<1>11. Stretched[1].bound
    BY <1>2, <1>3, <1>6, <1>9 DEF IInv
<1> QED
    BY <1>2, <1>3, <1>4, <1>5, <1>9, <1>10, <1>11

\* A request for which there is room at idx, or at the beginning.
LEMMA FitsChunk ==
    ASSUME Representable, IInv,
           NEW idx \in 0..(Size - 1), NEW req \in Requests
    PROVE  LET len == cba_chunk_len(req)
               c == Chunk(idx, len, req)
               d == Chunk(0, len, req)
           IN  /\ FitsHere(idx, len) =>
                    /\ c \in ChunkType /\ c.idx = idx /\ c.bound /\ c.held /\ Sound(c)
                    /\ IF idx < tail_idx THEN End(c) < tail_idx
                       ELSE End(c) < Size
               /\ FitsAtStart(idx, len) =>
                    /\ d \in ChunkType /\ d.idx = 0 /\ d.bound /\ d.held /\ Sound(d)
                    /\ 0 < tail_idx /\ End(d) < tail_idx
                    /\ tail_idx <= idx
<1> DEFINE len == cba_chunk_len(req)
<1>1. /\ Size \in Nat \ {0}
      /\ tail_idx \in 0..(Size - 1)
      /\ 0 \in 0..(Size - 1)
      /\ CBA_END_MARKER_LEN \in Nat
    BY CbaAssumption DEF IInv, Shape, CBA_END_MARKER_LEN
<1>2. len \in Nat
    BY ChunkLenBounds
<1>3. CBA_HEADER_LEN = 4
    BY DEF CBA_HEADER_LEN, CBA_ALLIGNMENT
<1>4. ASSUME NEW i \in 0..(Size - 1), len + CBA_HEADER_LEN < Size
      PROVE  LET c == Chunk(i, len, req)
             IN  /\ c \in ChunkType /\ c.idx = i /\ c.bound /\ c.held /\ Sound(c)
                 /\ End(c) = i + CBA_HEADER_LEN + len
    BY <1>4, ChunkSound
<1> HIDE DEF len
<1>5. ASSUME FitsHere(idx, len)
      PROVE  /\ len + CBA_HEADER_LEN < Size
             /\ IF idx < tail_idx THEN idx + CBA_HEADER_LEN + len < tail_idx
                ELSE idx + CBA_HEADER_LEN + len < Size
    BY <1>1, <1>2, <1>3, <1>5 DEF FitsHere
<1>6. ASSUME FitsAtStart(idx, len)
      PROVE  /\ len + CBA_HEADER_LEN < Size
             /\ 0 < tail_idx /\ tail_idx <= idx
             /\ 0 + CBA_HEADER_LEN + len < tail_idx
    BY <1>1, <1>2, <1>3, <1>6 DEF FitsAtStart
<1>7. ASSUME FitsHere(idx, len)
      PROVE  LET c == Chunk(idx, len, req)
             IN  /\ c \in ChunkType /\ c.idx = idx /\ c.bound /\ c.held /\ Sound(c)
                 /\ IF idx < tail_idx THEN End(c) < tail_idx
                    ELSE End(c) < Size
    BY <1>4, <1>5, <1>7
<1>8. ASSUME FitsAtStart(idx, len)
      PROVE  LET d == Chunk(0, len, req)
             IN  /\ d \in ChunkType /\ d.idx = 0 /\ d.bound /\ d.held /\ Sound(d)
                 /\ 0 < tail_idx /\ End(d) < tail_idx
                 /\ tail_idx <= idx
    BY <1>1, <1>4, <1>6, <1>8
<1> QED
    BY <1>7, <1>8 DEF len

\* When the free memory is not in front of the tail, neither is the last chunk.
LEMMA HeadBehindTail ==
    ASSUME IInv, tail_idx <= free_idx
    PROVE  tail_idx <= head_idx
<1>1. Shape(chunks, free_idx, tail_idx) /\ Size \in Nat
    BY CbaAssumption DEF IInv
<1>2. CASE chunks = <<>>
    BY <1>1, <1>2 DEF IInv, Shape
<1>3. CASE chunks # <<>>
  <2> DEFINE n == Len(chunks)
  <2>1. n \in 1..n /\ chunks \in Seq(ChunkType)
      BY <1>1, <1>3, EmptySeq DEF Shape
  <2>2. InZone(chunks[n], free_idx, tail_idx) /\ head_idx = chunks[n].idx
      BY <1>1, <1>3, <2>1 DEF IInv, Shape
  <2>3. chunks[n].idx \in 0..(Size - 1)
      BY <2>1, ChunkOfChain
  <2> QED
      BY <1>1, <2>2, <2>3 DEF InZone, Shape
<1> QED
    BY <1>2, <1>3

----------------------------------------------------------------------------
(* The inductive invariant.                                                *)

LEMMA InitIInv == Init => IInv
<1> SUFFICES ASSUME Init PROVE IInv
    OBVIOUS
<1>1. /\ chunks = <<>> /\ free_idx = 0 /\ head_idx = 0 /\ tail_idx = 0
      /\ chunks \in Seq(ChunkType) /\ Len(chunks) = 0
      /\ ordered = TRUE
    BY EmptySeq DEF Init
<1> QED
    BY <1>1, CbaAssumption DEF IInv, Shape, AllHeld

LEMMA MallocKeepsIInv ==
    ASSUME Representable, IInv, NEW req \in Requests, Malloc(req)
    PROVE  IInv'
<1> DEFINE len == cba_chunk_len(req)
<1>1. /\ Shape(chunks, free_idx, tail_idx)
      /\ free_idx \in 0..(Size - 1)
      /\ chunks # <<>> => chunks[1].bound
      /\ \A i \in 1..Len(chunks) : Sound(chunks[i])
      /\ ordered \in BOOLEAN
      /\ ordered => AllHeld(chunks)
      /\ tail_idx' = tail_idx /\ ordered' = ordered
    BY DEF IInv, Shape, Malloc
<1>2. CASE FitsHere(free_idx, len) /\ Place(chunks, Chunk(free_idx, len, req))
  <2> DEFINE c == Chunk(free_idx, len, req)
  <2>1. /\ c \in ChunkType /\ c.idx = free_idx /\ c.bound /\ c.held /\ Sound(c)
        /\ IF free_idx < tail_idx THEN End(c) < tail_idx ELSE End(c) < Size
      BY <1>1, <1>2, FitsChunk
  <2> HIDE DEF c
  <2>2. Place(chunks, c)
      BY <1>2 DEF c
  <2> QED
      BY <1>1, <2>1, <2>2, PlaceKeepsIInv
<1>3. CASE /\ FitsAtStart(free_idx, len)
           /\ Place(Stretched,
                    Chunk(cba_next_chunk_idx(Stretched[Len(chunks)]), len, req))
  <2> DEFINE d == Chunk(0, len, req)
  <2>1. /\ d \in ChunkType /\ d.idx = 0 /\ d.bound /\ d.held /\ Sound(d)
        /\ 0 < tail_idx /\ End(d) < tail_idx
        /\ tail_idx <= free_idx
      BY <1>1, <1>3, FitsChunk
  <2>2. tail_idx > 0 /\ head_idx >= tail_idx
    <3>1. tail_idx \in Int /\ head_idx \in Int /\ tail_idx <= head_idx
      <4>1. CASE chunks = <<>>
          BY <1>1, <2>1, <4>1, HeadBehindTail DEF IInv, Shape
      <4>2. CASE chunks # <<>>
        <5>1. Len(chunks) \in 1..Len(chunks) /\ chunks \in Seq(ChunkType)
            BY <1>1, <4>2, EmptySeq DEF Shape
        <5>2. chunks[Len(chunks)].idx \in 0..(Size - 1)
            BY <5>1, ChunkOfChain
        <5> QED
            BY <1>1, <2>1, <4>2, <5>2, HeadBehindTail, CbaAssumption
            DEF IInv, Shape
      <4> QED
          BY <4>1, <4>2
    <3> QED
        BY <2>1, <3>1
  <2>3. /\ Stretched \in Seq(ChunkType)
        /\ Len(Stretched) = Len(chunks)
        /\ Shape(Stretched, 0, tail_idx)
        /\ cba_next_chunk_idx(Stretched[Len(chunks)]) = 0
        /\ Stretched[1].bound
        /\ \A i \in 1..Len(chunks) : Sound(Stretched[i])
        /\ AllHeld(chunks) => AllHeld(Stretched)
      BY <2>2, StretchedChain DEF AllHeld
  <2> HIDE DEF d
  <2>4. Place(Stretched, d)
      BY <1>3, <2>3 DEF d
  <2> QED
      BY <1>1, <2>1, <2>3, <2>4, PlaceKeepsIInv
<1> QED
    BY <1>2, <1>3 DEF Malloc

\* When nothing is lost yet, the chunk to free in order is the first one.
LEMMA OldestFreed ==
    ASSUME ordered \in BOOLEAN, ordered => AllHeld(chunks),
           NEW i \in 1..Len(chunks), Freed(i)
    PROVE  ordered' = (chunks' = <<>> \/ (ordered /\ i = 1))
<1>1. ordered => ((\A j \in 1..(i - 1) : ~chunks[j].held) <=> i = 1)
  <2>1. CASE i = 1
      BY <2>1
  <2>2. CASE i # 1
    <3>1. 1 \in 1..(i - 1) /\ 1 \in 1..Len(chunks)
        BY <2>2
    <3> QED
        BY <2>2, <3>1 DEF AllHeld
  <2> QED
      BY <2>1, <2>2
<1>2. ordered' = (chunks' = <<>> \/ (ordered /\ \A j \in 1..(i - 1) : ~chunks[j].held))
    BY DEF Freed
<1> QED
    BY <1>1, <1>2

LEMMA FreeKeepsIInv ==
    ASSUME IInv, NEW i \in DOMAIN chunks, Free(i)
    PROVE  IInv'
<1>1. /\ chunks \in Seq(ChunkType)
      /\ Shape(chunks, free_idx, tail_idx)
    BY DEF IInv, Shape
<1>2. i \in 1..Len(chunks) /\ chunks # <<>>
    BY <1>1, LenProperties, EmptySeq
<1>3. /\ head_idx = chunks[Len(chunks)].idx
      /\ chunks[1].bound
      /\ \A j \in 1..Len(chunks) : Sound(chunks[j])
      /\ ordered \in BOOLEAN
      /\ ordered => AllHeld(chunks)
    BY <1>2 DEF IInv
<1>4. ordered' = (chunks' = <<>> \/ (ordered /\ i = 1))
    BY <1>2, <1>3, OldestFreed DEF Free
<1>5. Release(chunks, i, chunks[Len(chunks)].idx, free_idx)
    BY <1>3 DEF Free
<1> QED
    BY <1>1, <1>2, <1>3, <1>5, <1>4, ReleaseKeepsIInv

LEMMA ReallocEnoughKeepsIInv ==
    ASSUME IInv, NEW i \in DOMAIN chunks, NEW req \in Requests,
           ReallocEnough(i, req)
    PROVE  IInv'
<1> DEFINE e == [chunks[i] EXCEPT !.req = req]
           T == [chunks EXCEPT ![i] = e]
<1>1. /\ chunks \in Seq(ChunkType)
      /\ Len(chunks) \in Nat
      /\ Shape(chunks, free_idx, tail_idx)
    BY DEF IInv, Shape
<1>2. i \in 1..Len(chunks) /\ chunks # <<>> /\ chunks[i] \in ChunkType
    BY <1>1, LenProperties, EmptySeq, ElementOfSeq
<1>3. /\ e \in ChunkType /\ e.idx = chunks[i].idx /\ e.len = chunks[i].len
      /\ e.bound = chunks[i].bound /\ e.held = chunks[i].held /\ e.req = req
    BY <1>2 DEF ChunkType
<1>4. Sound(e)
  <2>1. Sound(chunks[i]) /\ chunks[i].held
      BY <1>2 DEF IInv, ReallocEnough
  <2>2. chunks[i].len > req + CBA_END_MARKER_LEN
      BY DEF ReallocEnough
  <2>3. chunks[i].len \in Int /\ req + CBA_END_MARKER_LEN \in Int
      BY <1>2, CbaAssumption DEF ChunkType, CBA_END_MARKER_LEN
  <2> HIDE DEF e
  <2> QED
      BY <1>3, <2>1, <2>2, <2>3 DEF Sound
<1>5. chunks' = T
    BY <1>1, <1>2 DEF ReallocEnough
<1> HIDE DEF e
<1>6. /\ T \in Seq(ChunkType)
      /\ Len(T) = Len(chunks)
      /\ \A j \in 1..Len(chunks) : T[j] = IF j = i THEN e ELSE chunks[j]
    BY <1>1, <1>2, <1>3, ExceptSeq
<1> HIDE DEF T
<1>7. Shape(T, free_idx, tail_idx)
    BY <1>1, <1>2, <1>3, <1>6, ShapeKept
<1>8. \A j \in 1..Len(T) : Sound(T[j])
    BY <1>4, <1>6 DEF IInv
<1>9. ordered' \in BOOLEAN /\ (ordered' => AllHeld(T))
    BY <1>3, <1>6 DEF IInv, ReallocEnough, AllHeld
<1>10. T # <<>> /\ T[Len(T)].idx = head_idx /\ T[1].bound
  <2>1. 1 \in 1..Len(chunks) /\ Len(chunks) \in 1..Len(chunks)
      BY <1>1, <1>2
  <2> QED
      BY <1>1, <1>2, <1>3, <1>6, <2>1, EmptySeq DEF IInv
<1> QED
    BY <1>5, <1>7, <1>8, <1>10, <1>9 DEF IInv, ReallocEnough, AllHeld

LEMMA ReallocHeadKeepsIInv ==
    ASSUME Representable, IInv, NEW req \in Requests, ReallocHead(req)
    PROVE  IInv'
<1> DEFINE n == Len(chunks)
           len == cba_chunk_len(req)
<1>1. /\ chunks \in Seq(ChunkType)
      /\ Shape(chunks, free_idx, tail_idx)
      /\ chunks # <<>>
      /\ tail_idx \in 0..(Size - 1)
      /\ \A i \in 1..n : Sound(chunks[i])
      /\ ordered \in BOOLEAN
      /\ ordered => AllHeld(chunks)
    BY DEF IInv, Shape, ReallocHead
<1>2. /\ n \in Nat \ {0} /\ n \in 1..n
      /\ head_idx = chunks[n].idx
      /\ head_idx \in 0..(Size - 1)
  <2>1. n \in Nat \ {0} /\ n \in 1..n
      BY <1>1, EmptySeq
  <2> QED
      BY <1>1, <2>1, ChunkOfChain DEF IInv
<1>3. CASE /\ FitsHere(head_idx, len)
           /\ Place(Below, Chunk(head_idx, len, req))
           /\ tail_idx' = tail_idx /\ ordered' = ordered
  <2> DEFINE c == Chunk(head_idx, len, req)
  <2>1. /\ c \in ChunkType /\ c.idx = head_idx /\ c.bound /\ c.held /\ Sound(c)
        /\ IF head_idx < tail_idx THEN End(c) < tail_idx ELSE End(c) < Size
      BY <1>2, <1>3, FitsChunk
  <2> HIDE DEF c
  <2>2. Place(Below, c)
      BY <1>3 DEF c
  <2>3. /\ Below \in Seq(ChunkType)
        /\ Len(Below) = n - 1
        /\ \A i \in 1..(n - 1) : Below[i] = chunks[i]
    <3>1. /\ 1 \in 1..(n + 1) /\ n - 1 \in 0..n /\ 1 <= (n - 1) + 1
          /\ (n - 1) - 1 + 1 = n - 1
          /\ \A i \in 1..(n - 1) : 1 + i - 1 = i
        BY <1>2
    <3>2. /\ Below \in Seq(ChunkType)
          /\ Len(Below) = (n - 1) - 1 + 1
          /\ \A i \in 1..((n - 1) - 1 + 1) : Below[i] = chunks[1 + i - 1]
        BY <1>1, <3>1, PartOfSeq DEF Below
    <3> QED
        BY <3>1, <3>2
  <2>4. Shape(Below, head_idx, tail_idx)
      BY <1>1, <1>2, ShapeShrinks DEF Below
  <2>5. Below # <<>> => Below[1].bound
    <3>1. Below # <<>> => 1 \in 1..(n - 1)
        BY <1>2, <2>3, EmptySeq
    <3> QED
        BY <1>1, <2>3, <3>1 DEF IInv
  <2>6. \A i \in 1..Len(Below) : Sound(Below[i])
      BY <1>1, <1>2, <2>3
  <2>7. ordered => AllHeld(Below)
      BY <1>1, <1>2, <2>3 DEF AllHeld
  <2> QED
      BY <1>1, <1>3, <2>1, <2>2, <2>4, <2>5, <2>6, <2>7, PlaceKeepsIInv
<1>4. CASE /\ FitsAtStart(head_idx, len)
           /\ Freed(n)
           /\ LET new == Chunk(cba_next_chunk_idx(Stretched[n]), len, req)
              IN  Release(Append(Stretched, new), n,
                          new.idx, cba_next_chunk_idx(new))
  <2> DEFINE d == Chunk(0, len, req)
             S == Append(Stretched, d)
  <2>1. /\ d \in ChunkType /\ d.idx = 0 /\ d.bound /\ d.held /\ Sound(d)
        /\ 0 < tail_idx /\ End(d) < tail_idx
        /\ tail_idx <= head_idx
      BY <1>2, <1>4, FitsChunk
  <2>2. tail_idx > 0 /\ head_idx >= tail_idx
      BY <1>1, <1>2, <2>1
  <2>3. /\ Stretched \in Seq(ChunkType)
        /\ Len(Stretched) = n
        /\ Shape(Stretched, 0, tail_idx)
        /\ cba_next_chunk_idx(Stretched[n]) = 0
        /\ Stretched[1].bound
        /\ \A i \in 1..n : Sound(Stretched[i])
        /\ AllHeld(chunks) => AllHeld(Stretched)
      BY <2>2, StretchedChain DEF AllHeld
  <2> HIDE DEF d
  <2>4. Release(S, n, d.idx, cba_next_chunk_idx(d))
      BY <1>4, <2>3 DEF d
  <2>5. /\ S \in Seq(ChunkType)
        /\ Len(S) = n + 1
        /\ S[Len(S)] = d
        /\ \A i \in 1..n : S[i] = Stretched[i]
      BY <1>2, <2>1, <2>3
  <2>6. Shape(S, cba_next_chunk_idx(d), tail_idx)
    <3>1. IF 0 < tail_idx THEN End(d) < tail_idx
          ELSE End(d) < Size \/ (End(d) = Size /\ tail_idx > 0)
        BY <2>1
    <3> QED
        BY <2>1, <2>3, <3>1, ShapeGrows
  <2>7. S[1].bound /\ \A i \in 1..Len(S) : Sound(S[i])
    <3>1. 1 \in 1..n /\ \A i \in 1..(n + 1) : i \in 1..n \/ i = n + 1
        BY <1>2
    <3> QED
        BY <2>1, <2>3, <2>5, <3>1
  <2> HIDE DEF S
  <2>8. n \in 1..Len(S) /\ Release(S, n, S[Len(S)].idx, cba_next_chunk_idx(d))
      BY <1>2, <2>4, <2>5
  <2>9. ordered' = (chunks' = <<>> \/ (ordered /\ n = 1))
      BY <1>1, <1>2, <1>4, OldestFreed
  <2>10. ordered => AllHeld(S)
    <3>1. \A i \in 1..(n + 1) : i \in 1..n \/ i = n + 1
        BY <1>2
    <3> QED
        BY <1>1, <2>1, <2>3, <2>5, <3>1 DEF AllHeld, S
  <2> QED
      BY <1>1, <2>6, <2>7, <2>8, <2>9, <2>10, ReleaseKeepsIInv
<1> QED
    BY <1>3, <1>4 DEF ReallocHead

LEMMA NextKeepsIInv == Representable /\ IInv /\ [Next]_vars => IInv'
<1> SUFFICES ASSUME Representable, IInv, [Next]_vars
             PROVE  IInv'
    OBVIOUS
<1>1. ASSUME NEW req \in Requests, Malloc(req) PROVE IInv'
    BY <1>1, MallocKeepsIInv
<1>2. ASSUME NEW req \in Requests, ReallocHead(req) PROVE IInv'
    BY <1>2, ReallocHeadKeepsIInv
<1>3. ASSUME NEW i \in DOMAIN chunks, Free(i) PROVE IInv'
    BY <1>3, FreeKeepsIInv
<1>4. ASSUME NEW i \in DOMAIN chunks, NEW req \in Requests,
             ReallocEnough(i, req)
      PROVE  IInv'
    BY <1>4, ReallocEnoughKeepsIInv
<1>5. CASE Reset
  <2>1. (Init)'
      BY <1>5 DEF Reset, Init
  <2> QED
      BY <2>1, InitIInv, PTL
<1>6. CASE UNCHANGED vars
    BY <1>6 DEF IInv, AllHeld, vars
<1> QED
    BY <1>1, <1>2, <1>3, <1>4, <1>5, <1>6 DEF Next

\* IInv says all that the properties of Cba do about a single state.
LEMMA IInvImplies ==
    ASSUME IInv
    PROVE  /\ TypeOK /\ ChainLinked /\ NoOverlap
           /\ BlockHoldsRequest /\ InOrderLosesNothing
<1>1. /\ chunks \in Seq(ChunkType)
      /\ DOMAIN chunks = 1..Len(chunks)
      /\ Len(chunks) \in Nat
      /\ Shape(chunks, free_idx, tail_idx)
      /\ Size \in Nat \ {0}
    BY LenProperties, CbaAssumption DEF IInv, Shape
<1>2. \A i \in 1..Len(chunks) : /\ chunks[i].idx \in 0..(Size - 1)
                                /\ End(chunks[i]) \in Nat
                                /\ chunks[i].idx < End(chunks[i])
    BY <1>1, ChunkOfChain
<1>3. chunks # <<>> => Len(chunks) \in 1..Len(chunks)
    BY <1>1, EmptySeq
<1>4. TypeOK
  <2>1. head_idx \in 0..(Size - 1)
      BY <1>1, <1>2, <1>3 DEF IInv
  <2> QED
      BY <1>1, <2>1 DEF IInv, TypeOK, Shape, ChunkType
<1>5. ChainLinked
    BY <1>1 DEF ChainLinked, HeadChunk, IInv, Shape
<1>6. NoOverlap
  <2>1. \A i \in 1..Len(chunks) : End(chunks[i]) <= Size
      BY <1>1, <1>2 DEF Shape, InZone
  <2>2. ASSUME NEW i \in 1..Len(chunks), NEW j \in 1..Len(chunks), i < j
        PROVE  \/ End(chunks[i]) <= chunks[j].idx
               \/ End(chunks[j]) <= chunks[i].idx
    <3>1. /\ InZone(chunks[i], free_idx, tail_idx)
          /\ InZone(chunks[j], free_idx, tail_idx)
          /\ Ordered(chunks[i], chunks[j], tail_idx)
        BY <1>1, <2>2 DEF Shape
    <3> QED
        BY <1>1, <1>2, <3>1 DEF InZone, Ordered, Shape
  <2> QED
      BY <1>1, <2>1, <2>2 DEF NoOverlap
<1>7. BlockHoldsRequest
    BY <1>1 DEF BlockHoldsRequest, IInv, Sound
<1>8. InOrderLosesNothing
    BY <1>1 DEF InOrderLosesNothing, IInv, AllHeld
<1> QED
    BY <1>4, <1>5, <1>6, <1>7, <1>8

----------------------------------------------------------------------------
(* The theorems.                                                           *)

\* The inductive invariant holds of every buffer and all requests that the
\* fields of a header can describe.
THEOREM IInvHolds == Representable => (Spec => []IInv)
<1> SUFFICES ASSUME Representable PROVE Spec => []IInv
    OBVIOUS
<1>1. Init => IInv
    BY InitIInv
<1>2. IInv /\ [Next]_vars => IInv'
    BY NextKeepsIInv
<1> QED
    BY <1>1, <1>2, PTL DEF Spec

\* The indexes stay in the buffer and the lengths fit in their headers, so
\* no field that cba.c reads has lost a bit when it was written.
THEOREM TypeIsCorrect == Representable => (Spec => []TypeOK)
<1>1. IInv => TypeOK
    BY IInvImplies
<1> QED
    BY <1>1, IInvHolds, PTL

\* The walk of cba_free from the tail is one along the headers, and ends at
\* free_idx.
THEOREM ChainStaysLinked == Representable => (Spec => []ChainLinked)
<1>1. IInv => ChainLinked
    BY IInvImplies
<1> QED
    BY <1>1, IInvHolds, PTL

\* Chunks lie in the buffer and apart from each other.
THEOREM ChunksAreApart == Representable => (Spec => []NoOverlap)
<1>1. IInv => NoOverlap
    BY IInvImplies
<1> QED
    BY <1>1, IInvHolds, PTL

\* cba_malloc and cba_realloc give their caller what it asked for, and room
\* for the end marker behind it.
THEOREM BlocksAreBigEnough == Representable => (Spec => []BlockHoldsRequest)
<1>1. IInv => BlockHoldsRequest
    BY IInvImplies
<1> QED
    BY <1>1, IInvHolds, PTL

\* As long as chunks are freed in order, all memory of the chain is in use.
THEOREM NothingLostInOrder == Representable => (Spec => []InOrderLosesNothing)
<1>1. IInv => InOrderLosesNothing
    BY IInvImplies
<1> QED
    BY <1>1, IInvHolds, PTL

----------------------------------------------------------------------------
(* What is freed, and what is not.                                         *)

\* The chunks of chain s that are bound stay when another one is freed.
LEMMA ReleaseSpares ==
    ASSUME NEW STATE s, NEW STATE f, Shape(s, f, tail_idx),
           NEW i \in 1..Len(s), NEW STATE h, Release(s, i, h, f),
           NEW j \in 1..Len(s), j # i, s[j].bound
    PROVE  \E m \in 1..Len(chunks') : chunks'[m] = s[j]
<1> DEFINE e == [s[i] EXCEPT !.bound = FALSE, !.held = FALSE]
           T == [s EXCEPT ![i] = e]
<1>1. s \in Seq(ChunkType) /\ Len(s) \in Nat \ {0}
    BY DEF Shape
<1>2. e \in ChunkType /\ e.idx = s[i].idx /\ e.len = s[i].len
  <2>1. s[i] \in ChunkType
      BY <1>1, ElementOfSeq
  <2> QED
      BY <2>1 DEF ChunkType
<1> HIDE DEF e
<1>3. /\ T \in Seq(ChunkType)
      /\ Len(T) = Len(s)
      /\ \A k \in 1..Len(s) : T[k] = IF k = i THEN e ELSE s[k]
    BY <1>1, <1>2, ExceptSeq
<1>4. [s EXCEPT ![i].bound = FALSE, ![i].held = FALSE] = T
    BY <1>1, LenProperties DEF e
<1> HIDE DEF T
<1>5. Shape(T, f, tail_idx)
    BY <1>2, <1>3, ShapeKept
<1>6. T[j] = s[j] /\ T[j].bound /\ j \in 1..Len(T)
    BY <1>3
<1>7. CASE chunks' = T
    BY <1>6, <1>7
<1>8. ASSUME NEW k \in 1..Len(T), UnboundPrefix(T, k),
             \/ cba_next_chunk_idx(T[k]) # f /\ chunks' = SubSeq(T, k + 1, Len(T))
             \/ cba_next_chunk_idx(T[k]) = f /\ chunks' = <<>>
      PROVE  \E m \in 1..Len(chunks') : chunks'[m] = s[j]
  <2> DEFINE S == SubSeq(T, k + 1, Len(T))
  <2>1. k < j
      BY <1>6, <1>8 DEF UnboundPrefix
  <2>2. k < Len(T)
      BY <1>1, <1>3, <2>1
  <2>3. chunks' = S
      BY <1>5, <1>8, <2>2, ShapeDrops
  <2>4. /\ Len(S) = Len(T) - (k + 1) + 1
        /\ \A m \in 1..(Len(T) - (k + 1) + 1) : S[m] = T[(k + 1) + m - 1]
    <3>1. /\ k + 1 \in 1..(Len(T) + 1)
          /\ Len(T) \in 0..Len(T)
          /\ k + 1 <= Len(T) + 1
        BY <1>1, <1>3, <2>2
    <3> QED
        BY <3>1, <1>3, PartOfSeq
  <2> HIDE DEF S
  <2>5. /\ j - k \in 1..(Len(T) - (k + 1) + 1)
        /\ (k + 1) + (j - k) - 1 = j
      BY <1>1, <1>3, <2>1, <2>2
  <2> QED
      BY <1>6, <2>3, <2>4, <2>5
<1>9. CASE s[i].idx = tail_idx
  <2>1. \E k \in 1..Len(s) :
            /\ UnboundPrefix(T, k)
            /\ \/ cba_next_chunk_idx(T[k]) # f /\ chunks' = SubSeq(T, k + 1, Len(T))
               \/ cba_next_chunk_idx(T[k]) = f /\ chunks' = <<>>
      BY <1>4, <1>9 DEF Release
  <2> QED
      BY <1>3, <1>8, <2>1
<1> QED
    BY <1>4, <1>7, <1>9 DEF Release

\* The chain is one of chunks before and after a step, and none of them is
\* unbound at the tail.
LEMMA TailIsBound ==
    ASSUME IInv, IInv'
    PROVE  /\ chunks \in Seq(ChunkType) /\ DOMAIN chunks = 1..Len(chunks)
           /\ chunks' \in Seq(ChunkType) /\ DOMAIN chunks' = 1..Len(chunks')
           /\ chunks' # <<>> => chunks'[1].bound
<1>1. chunks \in Seq(ChunkType) /\ chunks' \in Seq(ChunkType)
    BY DEF IInv, Shape
<1> QED
    BY <1>1, LenProperties DEF IInv

LEMMA FreeSpares ==
    ASSUME IInv, IInv', NEW i \in DOMAIN chunks, Free(i)
    PROVE  Reclaims(i)
<1>1. i \in 1..Len(chunks) /\ DOMAIN chunks = 1..Len(chunks)
    BY TailIsBound
<1>2. Shape(chunks, free_idx, tail_idx) /\ Release(chunks, i, head_idx, free_idx)
    BY DEF IInv, Free
<1>3. ASSUME NEW j \in 1..Len(chunks), j # i, chunks[j].bound
      PROVE  \E m \in 1..Len(chunks') : chunks'[m] = chunks[j]
    BY <1>1, <1>2, <1>3, ReleaseSpares
<1> QED
    BY <1>1, <1>3, TailIsBound DEF Reclaims

LEMMA ReallocHeadSpares ==
    ASSUME Representable, IInv, IInv', NEW req \in Requests, ReallocHead(req)
    PROVE  Reclaims(Len(chunks))
<1> DEFINE n == Len(chunks)
           len == cba_chunk_len(req)
<1>1. /\ chunks \in Seq(ChunkType)
      /\ chunks # <<>>
      /\ Shape(chunks, free_idx, tail_idx)
      /\ tail_idx \in 0..(Size - 1)
    BY DEF IInv, Shape, ReallocHead
<1>2. /\ n \in Nat \ {0} /\ n \in 1..n
      /\ head_idx \in 0..(Size - 1)
  <2>1. n \in Nat \ {0} /\ n \in 1..n
      BY <1>1, EmptySeq
  <2> QED
      BY <1>1, <2>1, ChunkOfChain DEF IInv
<1>3. CASE /\ FitsHere(head_idx, len)
           /\ Place(Below, Chunk(head_idx, len, req))
  <2> DEFINE c == Chunk(head_idx, len, req)
  <2>1. c \in ChunkType
      BY <1>2, <1>3, FitsChunk
  <2> HIDE DEF c
  <2>2. chunks' = Append(Below, c)
      BY <1>3 DEF Place, c
  <2>3. /\ Below \in Seq(ChunkType)
        /\ Len(Below) = n - 1
        /\ \A i \in 1..(n - 1) : Below[i] = chunks[i]
    <3>1. /\ 1 \in 1..(n + 1) /\ n - 1 \in 0..n /\ 1 <= (n - 1) + 1
          /\ (n - 1) - 1 + 1 = n - 1
          /\ \A i \in 1..(n - 1) : 1 + i - 1 = i
        BY <1>2
    <3>2. /\ Below \in Seq(ChunkType)
          /\ Len(Below) = (n - 1) - 1 + 1
          /\ \A i \in 1..((n - 1) - 1 + 1) : Below[i] = chunks[1 + i - 1]
        BY <1>1, <3>1, PartOfSeq DEF Below
    <3> QED
        BY <3>1, <3>2
  <2>4. /\ Len(chunks') = n
        /\ \A i \in 1..(n - 1) : chunks'[i] = chunks[i]
    <3>1. /\ Len(chunks') = (n - 1) + 1
          /\ \A i \in 1..(n - 1) : chunks'[i] = Below[i]
        BY <2>1, <2>2, <2>3, AppendProperties
    <3>2. (n - 1) + 1 = n
        BY <1>2
    <3> QED
        BY <2>3, <3>1, <3>2
  <2>5. \A j \in 1..n : j # n => j \in 1..(n - 1)
      BY <1>2
  <2>6. \A j \in 1..n : j # n => \E k \in 1..Len(chunks') : chunks'[k] = chunks[j]
      BY <2>4, <2>5
  <2> QED
      BY <2>6, TailIsBound DEF Reclaims
<1>4. CASE /\ FitsAtStart(head_idx, len)
           /\ LET new == Chunk(cba_next_chunk_idx(Stretched[n]), len, req)
              IN  Release(Append(Stretched, new), n,
                          new.idx, cba_next_chunk_idx(new))
  <2> DEFINE d == Chunk(0, len, req)
             S == Append(Stretched, d)
  <2>1. /\ d \in ChunkType /\ d.idx = 0
        /\ 0 < tail_idx /\ End(d) < tail_idx
        /\ tail_idx <= head_idx
      BY <1>2, <1>4, FitsChunk
  <2>2. tail_idx > 0 /\ head_idx >= tail_idx
      BY <1>1, <1>2, <2>1
  <2>3. /\ Stretched \in Seq(ChunkType)
        /\ Len(Stretched) = n
        /\ Shape(Stretched, 0, tail_idx)
        /\ cba_next_chunk_idx(Stretched[n]) = 0
        /\ \A i \in 1..n : i # n => Stretched[i] = chunks[i]
      BY <2>2, StretchedChain
  <2> HIDE DEF d
  <2>4. Release(S, n, d.idx, cba_next_chunk_idx(d))
      BY <1>4, <2>3 DEF d
  <2>5. /\ S \in Seq(ChunkType)
        /\ Len(S) = n + 1
        /\ \A i \in 1..n : S[i] = Stretched[i]
      BY <1>2, <2>1, <2>3, AppendProperties
  <2>6. Shape(S, cba_next_chunk_idx(d), tail_idx)
    <3>1. IF 0 < tail_idx THEN End(d) < tail_idx
          ELSE End(d) < Size \/ (End(d) = Size /\ tail_idx > 0)
        BY <2>1
    <3> QED
        BY <2>1, <2>3, <3>1, ShapeGrows
  <2> HIDE DEF S
  <2>7. ASSUME NEW j \in 1..n, j # n, chunks[j].bound
        PROVE  \E k \in 1..Len(chunks') : chunks'[k] = chunks[j]
    <3>1. S[j] = chunks[j] /\ j \in 1..Len(S) /\ n \in 1..Len(S)
        BY <1>2, <2>3, <2>5, <2>7
    <3>2. \E k \in 1..Len(chunks') : chunks'[k] = S[j]
        BY <2>4, <2>6, <2>7, <3>1, ReleaseSpares
    <3> QED
        BY <3>1, <3>2
  <2> QED
      BY <2>7, TailIsBound DEF Reclaims
<1> QED
    BY <1>3, <1>4 DEF ReallocHead

\* cba_free, and the one inside cba_realloc, takes no chunk of another caller,
\* however long the row of freed chunks it walks along, and leaves nothing to
\* reclaim at the tail.
THEOREM ReclaimIsRight == Representable => (Spec => ReclaimsRightly)
<1> SUFFICES ASSUME Representable PROVE Spec => ReclaimsRightly
    OBVIOUS
<1> DEFINE A == /\ \A i \in DOMAIN chunks : Free(i) => Reclaims(i)
                /\ \A req \in Requests : ReallocHead(req) => Reclaims(Len(chunks))
<1>1. IInv /\ IInv' => A
    BY FreeSpares, ReallocHeadSpares
<1> HIDE DEF A
<1>2. IInv /\ IInv' => [A]_vars
    BY <1>1
<1>3. [][A]_vars <=> ReclaimsRightly
    BY DEF A, ReclaimsRightly
<1> QED
    BY <1>2, <1>3, IInvHolds, PTL

----------------------------------------------------------------------------
(* The allocator implements a pool of blocks.                              *)

HeldBlocks(s) == {Block(s[i]) : i \in {j \in DOMAIN s : s[j].held}}

LEMMA BlocksOf ==
    ASSUME NEW s \in Seq(ChunkType)
    PROVE  HeldBlocks(s) = {Block(s[i]) : i \in {j \in 1..Len(s) : s[j].held}}
<1>1. DOMAIN s = 1..Len(s)
    BY LenProperties
<1> QED
    BY <1>1 DEF HeldBlocks

LEMMA NoBlocks == HeldBlocks(<<>>) = {}
<1>1. <<>> \in Seq(ChunkType) /\ Len(<<>>) = 0
    BY EmptySeq
<1>2. {j \in 1..Len(<<>>) : <<>>[j].held} = {}
    BY <1>1
<1>3. HeldBlocks(<<>>) = {Block(<<>>[i]) : i \in {j \in 1..Len(<<>>) : <<>>[j].held}}
    BY <1>1, BlocksOf
<1> QED
    BY <1>2, <1>3

\* A block lies behind its chunk's header and in the chunk.
Placed(c) ==
    /\ c.idx \in Nat /\ Block(c).lo \in Nat /\ Block(c).hi \in Nat /\ End(c) \in Nat
    /\ c.idx < Block(c).lo
    /\ Block(c).lo <= Block(c).hi
    /\ Block(c).hi <= End(c)

\* A used chunk's block lies behind its header, in the chunk and in the buffer.
LEMMA BlockBounds ==
    ASSUME NEW f \in 0..(Size - 1), NEW t \in 0..(Size - 1),
           NEW c \in ChunkType, InZone(c, f, t), Sound(c), c.held
    PROVE  Placed(c) /\ End(c) <= Size
<1>1. c.idx \in 0..(Size - 1) /\ c.len \in 0..(LenMod - 1) /\ c.req \in Requests
    BY DEF ChunkType
<1>2. c.idx \in Nat
    BY <1>1
<1>3. c.len \in Nat
    BY <1>1, CbaAssumption
<1>4. c.req \in Nat
  <2>1. Requests \subseteq Nat
      BY CbaAssumption
  <2> QED
      BY <1>1, <2>1
<1>5. End(c) = c.idx + 4 + c.len
    BY DEF End, CBA_HEADER_LEN, CBA_ALLIGNMENT
<1>6. End(c) <= Size
  <2>1. Size \in Nat /\ End(c) \in Nat
      BY <1>2, <1>3, <1>5, CbaAssumption
  <2>2. End(c) <= f \/ End(c) <= Size
      BY DEF InZone
  <2> QED
      BY <2>1, <2>2
<1>7. c.req <= c.len
  <2>1. CBA_END_MARKER_LEN \in Nat
      BY DEF CBA_END_MARKER_LEN
  <2> QED
      BY <1>3, <1>4, <2>1 DEF Sound
<1>8. Block(c).lo = c.idx + 4 /\ Block(c).hi = c.idx + 4 + c.req
    BY DEF Block, CBA_HEADER_LEN, CBA_ALLIGNMENT
<1> HIDE DEF InZone, Sound
<1>9. /\ c.idx + 4 \in Nat /\ c.idx + 4 + c.req \in Nat /\ c.idx + 4 + c.len \in Nat
      /\ c.idx < c.idx + 4 /\ c.idx + 4 <= c.idx + 4 + c.req
      /\ c.idx + 4 + c.req <= c.idx + 4 + c.len
    BY <1>2, <1>3, <1>4, <1>7
<1> QED
    BY <1>2, <1>5, <1>6, <1>8, <1>9 DEF Placed

\* Two chunks of which one ends before the other begins have blocks apart.
LEMMA PlacedApart ==
    ASSUME NEW c, NEW d, Placed(c), Placed(d), End(c) <= d.idx \/ End(d) <= c.idx
    PROVE  /\ Block(c).hi <= Block(d).lo \/ Block(d).hi <= Block(c).lo
           /\ Block(c).lo # Block(d).lo
<1>1. CASE End(c) <= d.idx
  <2>1. Block(c).hi <= d.idx
      BY <1>1 DEF Placed
  <2> QED
      BY <2>1 DEF Placed
<1>2. CASE End(d) <= c.idx
  <2>1. Block(d).hi <= c.idx
      BY <1>2 DEF Placed
  <2> QED
      BY <2>1 DEF Placed
<1> QED
    BY <1>1, <1>2

\* The blocks of a chain lie in the buffer and apart from each other.
LEMMA BlocksApart ==
    ASSUME NEW s, NEW f, NEW t, Shape(s, f, t), \A i \in 1..Len(s) : Sound(s[i]),
           NEW i \in 1..Len(s), s[i].held
    PROVE  /\ Block(s[i]) \in Pool!Block /\ Block(s[i]).lo <= Block(s[i]).hi
           /\ \A j \in 1..Len(s) : j # i /\ s[j].held =>
                /\ Block(s[j]) # Block(s[i])
                /\ Pool!Apart(Block(s[i]), Block(s[j]))
<1>1. s \in Seq(ChunkType) /\ Size \in Nat \ {0} /\ Len(s) \in Nat
    BY CbaAssumption, LenProperties DEF Shape
<1>2. ASSUME NEW j \in 1..Len(s), s[j].held
      PROVE  Placed(s[j]) /\ End(s[j]) <= Size
  <2>1. s[j] \in ChunkType
      BY <1>1, ChunkOfChain
  <2>2. InZone(s[j], f, t) /\ f \in 0..(Size - 1) /\ t \in 0..(Size - 1)
      BY DEF Shape
  <2> QED
      BY <1>2, <2>1, <2>2, BlockBounds
<1>3. Block(s[i]) \in Pool!Block /\ Block(s[i]).lo <= Block(s[i]).hi
  <2>1. Block(s[i]) = [lo |-> Block(s[i]).lo, hi |-> Block(s[i]).hi]
      BY DEF Block
  <2>2. Block(s[i]).lo \in 0..Size /\ Block(s[i]).hi \in 0..Size
    <3>1. Placed(s[i]) /\ End(s[i]) <= Size
        BY <1>2
    <3> QED
        BY <1>1, <3>1 DEF Placed
  <2>3. Block(s[i]).lo <= Block(s[i]).hi
      BY <1>2 DEF Placed
  <2> QED
      BY <2>1, <2>2, <2>3 DEF Pool!Block
<1>4. ASSUME NEW j \in 1..Len(s), j # i, s[j].held
      PROVE  /\ Block(s[j]) # Block(s[i])
             /\ Pool!Apart(Block(s[i]), Block(s[j]))
  <2>1. End(s[i]) <= s[j].idx \/ End(s[j]) <= s[i].idx
    <3>1. ASSUME NEW a \in 1..Len(s), NEW b \in 1..Len(s), a < b, s[a].held, s[b].held
          PROVE  End(s[a]) <= s[b].idx \/ End(s[b]) <= s[a].idx
      <4>1. /\ InZone(s[a], f, t) /\ InZone(s[b], f, t) /\ Ordered(s[a], s[b], t)
            /\ f \in 0..(Size - 1) /\ t \in 0..(Size - 1)
          BY <3>1 DEF Shape
      <4>2. s[a] \in ChunkType /\ s[b] \in ChunkType
          BY <1>1, ChunkOfChain
      <4> QED
          BY <4>1, <4>2, OrderedApart
    <3>2. i < j \/ j < i
        BY <1>1, <1>4
    <3> QED
        BY <1>4, <3>1, <3>2
  <2>2. Placed(s[i])
      BY <1>2
  <2>3. Placed(s[j])
      BY <1>2, <1>4
  <2>4. /\ Block(s[i]).hi <= Block(s[j]).lo \/ Block(s[j]).hi <= Block(s[i]).lo
        /\ Block(s[i]).lo # Block(s[j]).lo
      BY <2>1, <2>2, <2>3, PlacedApart
  <2> QED
      BY <2>4 DEF Pool!Apart
<1> QED
    BY <1>3, <1>4

\* A chunk that is put behind a chain adds its block.
LEMMA BlocksGrow ==
    ASSUME NEW s \in Seq(ChunkType), NEW c \in ChunkType, c.held,
           NEW f, NEW t, Shape(Append(s, c), f, t),
           \A i \in 1..Len(Append(s, c)) : Sound(Append(s, c)[i])
    PROVE  /\ HeldBlocks(Append(s, c)) = HeldBlocks(s) \cup {Block(c)}
           /\ Block(c) \notin HeldBlocks(s)
           /\ Block(c) \in Pool!Block /\ Block(c).lo <= Block(c).hi
           /\ \A b \in HeldBlocks(s) : Pool!Apart(Block(c), b)
<1> DEFINE S == Append(s, c)
           n == Len(s) + 1
<1>1. /\ S \in Seq(ChunkType) /\ Len(S) = n /\ Len(s) \in Nat
      /\ \A i \in 1..Len(s) : S[i] = s[i]
      /\ S[n] = c
    BY LenProperties, AppendProperties
<1> HIDE DEF S
<1>2. n \in 1..Len(S) /\ S[n].held
    BY <1>1
<1>3. /\ Block(c) \in Pool!Block /\ Block(c).lo <= Block(c).hi
      /\ \A j \in 1..Len(S) : j # n /\ S[j].held =>
            /\ Block(S[j]) # Block(c)
            /\ Pool!Apart(Block(c), Block(S[j]))
  <2>1. Shape(S, f, t) /\ \A i \in 1..Len(S) : Sound(S[i])
      BY DEF S
  <2> HIDE DEF n
  <2> QED
      BY <1>1, <1>2, <2>1, BlocksApart
<1>4. \A i \in 1..Len(s) : i \in 1..Len(S) /\ i # n
    BY <1>1
<1>5. \A i \in 1..Len(S) : i \in 1..Len(s) \/ i = n
    BY <1>1
<1>6. HeldBlocks(S) = HeldBlocks(s) \cup {Block(c)}
  <2>1. HeldBlocks(s) = {Block(s[i]) : i \in {j \in 1..Len(s) : s[j].held}}
      BY BlocksOf
  <2>2. HeldBlocks(S) = {Block(S[i]) : i \in {j \in 1..Len(S) : S[j].held}}
      BY <1>1, BlocksOf
  <2> HIDE DEF n
  <2> QED
      BY <1>1, <1>2, <1>4, <1>5, <2>1, <2>2
<1>7. ASSUME NEW b \in HeldBlocks(s)
      PROVE  b # Block(c) /\ Pool!Apart(Block(c), b)
  <2>1. PICK i \in 1..Len(s) : s[i].held /\ b = Block(s[i])
      BY BlocksOf
  <2> QED
      BY <1>1, <1>3, <1>4, <2>1
<1> QED
    BY <1>3, <1>6, <1>7 DEF S

\* A chunk that is freed takes its block away, and no chunk that is reclaimed
\* has one.
LEMMA BlocksShrink ==
    ASSUME NEW STATE s, NEW STATE f, Shape(s, f, tail_idx),
           \A j \in 1..Len(s) : Sound(s[j]),
           NEW i \in 1..Len(s), s[i].held, NEW STATE h,
           Release(s, i, h, f)
    PROVE  /\ Block(s[i]) \in HeldBlocks(s)
           /\ HeldBlocks(chunks') = HeldBlocks(s) \ {Block(s[i])}
<1> DEFINE e == [s[i] EXCEPT !.bound = FALSE, !.held = FALSE]
           T == [s EXCEPT ![i] = e]
<1>1. s \in Seq(ChunkType) /\ Len(s) \in Nat \ {0}
    BY DEF Shape
<1>2. e \in ChunkType /\ e.idx = s[i].idx /\ e.len = s[i].len /\ ~e.held /\ ~e.bound
  <2>1. s[i] \in ChunkType
      BY <1>1, ElementOfSeq
  <2> QED
      BY <2>1 DEF ChunkType
<1> HIDE DEF e
<1>3. /\ T \in Seq(ChunkType)
      /\ Len(T) = Len(s)
      /\ \A j \in 1..Len(s) : T[j] = IF j = i THEN e ELSE s[j]
    BY <1>1, <1>2, ExceptSeq
<1>4. [s EXCEPT ![i].bound = FALSE, ![i].held = FALSE] = T
    BY <1>1, LenProperties DEF e
<1> HIDE DEF T
<1>5. Shape(T, f, tail_idx)
    BY <1>2, <1>3, ShapeKept
<1>6. Block(s[i]) \in HeldBlocks(s)
    BY <1>1, BlocksOf
<1>7. HeldBlocks(T) = HeldBlocks(s) \ {Block(s[i])}
  <2>1. \A j \in 1..Len(s) : j # i /\ s[j].held => Block(s[j]) # Block(s[i])
      BY BlocksApart
  <2>2. HeldBlocks(s) = {Block(s[k]) : k \in {j \in 1..Len(s) : s[j].held}}
      BY <1>1, BlocksOf
  <2>3. HeldBlocks(T) = {Block(T[k]) : k \in {j \in 1..Len(s) : T[j].held}}
      BY <1>3, BlocksOf
  <2> QED
      BY <1>2, <1>3, <2>1, <2>2, <2>3
<1>8. CASE chunks' = T
    BY <1>6, <1>7, <1>8
<1>9. ASSUME NEW k \in 1..Len(T), UnboundPrefix(T, k),
             \/ cba_next_chunk_idx(T[k]) # f /\ chunks' = SubSeq(T, k + 1, Len(T))
             \/ cba_next_chunk_idx(T[k]) = f /\ chunks' = <<>>
      PROVE  HeldBlocks(chunks') = HeldBlocks(T)
  <2>1. \A j \in 1..k : j \in 1..Len(T) /\ ~T[j].held
    <3>1. ASSUME NEW j \in 1..k
          PROVE  j \in 1..Len(T) /\ ~T[j].held
      <4>1. j \in 1..Len(T) /\ j \in 1..Len(s) /\ ~T[j].bound
          BY <1>1, <1>3, <1>9 DEF UnboundPrefix
      <4> QED
          BY <1>2, <1>3, <4>1 DEF Sound
    <3> QED
        BY <3>1
  <2>2. HeldBlocks(T) = {Block(T[m]) : m \in {j \in 1..Len(T) : T[j].held}}
      BY <1>3, BlocksOf
  <2>3. CASE k = Len(T)
    <3>1. HeldBlocks(T) = {}
        BY <2>1, <2>2, <2>3
    <3>2. chunks' = <<>>
        BY <1>5, <1>9, <2>3, ShapeDrops
    <3> QED
        BY <3>1, <3>2, NoBlocks
  <2>4. CASE k < Len(T)
    <3> DEFINE S == SubSeq(T, k + 1, Len(T))
    <3>1. chunks' = S
        BY <1>5, <1>9, <2>4, ShapeDrops
    <3>2. /\ S \in Seq(ChunkType)
          /\ Len(S) = Len(T) - (k + 1) + 1
          /\ \A j \in 1..(Len(T) - (k + 1) + 1) : S[j] = T[(k + 1) + j - 1]
      <4>1. /\ k + 1 \in 1..(Len(T) + 1)
            /\ Len(T) \in 0..Len(T)
            /\ k + 1 <= Len(T) + 1
          BY <1>1, <1>3, <2>4
      <4> QED
          BY <4>1, <1>3, PartOfSeq
    <3> HIDE DEF S
    <3>3. \A j \in 1..Len(S) : S[j] = T[k + j] /\ k + j \in 1..Len(T)
      <4>1. \A j \in 1..Len(S) : /\ (k + 1) + j - 1 = k + j
                                 /\ j \in 1..(Len(T) - (k + 1) + 1)
                                 /\ k + j \in 1..Len(T)
          BY <1>1, <1>3, <2>4, <3>2
      <4> QED
          BY <3>2, <4>1
    <3>4. \A m \in 1..Len(T) : m \in 1..k \/ (m - k \in 1..Len(S) /\ k + (m - k) = m)
        BY <1>1, <1>3, <2>4, <3>2
    <3>5. HeldBlocks(S) = {Block(S[m]) : m \in {j \in 1..Len(S) : S[j].held}}
        BY <3>2, BlocksOf
    <3>6. ASSUME NEW m \in 1..Len(T), T[m].held
          PROVE  Block(T[m]) \in HeldBlocks(S)
      <4>1. m - k \in 1..Len(S) /\ S[m - k] = T[m]
          BY <2>1, <3>3, <3>4, <3>6
      <4> QED
          BY <3>5, <3>6, <4>1
    <3>7. ASSUME NEW m \in 1..Len(S), S[m].held
          PROVE  Block(S[m]) \in HeldBlocks(T)
        BY <2>2, <3>3, <3>7
    <3>8. HeldBlocks(S) = HeldBlocks(T)
        BY <2>2, <3>5, <3>6, <3>7
    <3> QED
        BY <3>1, <3>8
  <2> QED
      BY <1>1, <1>3, <2>3, <2>4
<1>10. CASE s[i].idx = tail_idx
  <2>1. \E k \in 1..Len(s) :
            /\ UnboundPrefix(T, k)
            /\ \/ cba_next_chunk_idx(T[k]) # f /\ chunks' = SubSeq(T, k + 1, Len(T))
               \/ cba_next_chunk_idx(T[k]) = f /\ chunks' = <<>>
      BY <1>4, <1>10 DEF Release
  <2>2. HeldBlocks(chunks') = HeldBlocks(T)
      BY <1>3, <1>9, <2>1
  <2> QED
      BY <1>6, <1>7, <2>2
<1> QED
    BY <1>4, <1>8, <1>10 DEF Release

\* Chains that differ in nothing a caller sees have the same blocks.
LEMMA BlocksSame ==
    ASSUME NEW s \in Seq(ChunkType), NEW S \in Seq(ChunkType), Len(S) = Len(s),
           \A i \in 1..Len(s) : /\ S[i].idx = s[i].idx
                                /\ S[i].held = s[i].held
                                /\ S[i].req = s[i].req
    PROVE  HeldBlocks(S) = HeldBlocks(s)
<1>1. \A i \in 1..Len(s) : Block(S[i]) = Block(s[i])
    BY DEF Block
<1>2. /\ HeldBlocks(s) = {Block(s[i]) : i \in {j \in 1..Len(s) : s[j].held}}
      /\ HeldBlocks(S) = {Block(S[i]) : i \in {j \in 1..Len(s) : S[j].held}}
    BY BlocksOf
<1>3. {j \in 1..Len(s) : S[j].held} = {j \in 1..Len(s) : s[j].held}
    OBVIOUS
<1> QED
    BY <1>1, <1>2, <1>3

\* The block of a chunk has the length that was asked for.
LEMMA BlockLength ==
    ASSUME NEW c \in ChunkType
    PROVE  Block(c).hi - Block(c).lo = c.req
<1>1. c.idx \in Int /\ c.req \in Int
  <2>1. c.idx \in 0..(Size - 1) /\ c.req \in Requests
      BY DEF ChunkType
  <2>2. c.idx \in Int
      BY <2>1
  <2>3. c.req \in Nat
      BY <2>1, CbaAssumption
  <2> QED
      BY <2>2, <2>3
<1>2. Block(c).lo = c.idx + 4 /\ Block(c).hi = c.idx + 4 + c.req
    BY DEF Block, CBA_HEADER_LEN, CBA_ALLIGNMENT
<1> QED
    BY <1>1, <1>2

LEMMA StretchedBlocks ==
    ASSUME Representable, IInv, tail_idx > 0, head_idx >= tail_idx
    PROVE  /\ Stretched \in Seq(ChunkType) /\ Len(Stretched) = Len(chunks)
           /\ HeldBlocks(Stretched) = Blocks
           /\ cba_next_chunk_idx(Stretched[Len(chunks)]) = 0
           /\ Block(Stretched[Len(chunks)]) = Block(chunks[Len(chunks)])
           /\ Stretched[Len(chunks)].held = chunks[Len(chunks)].held
           /\ Shape(Stretched, 0, tail_idx)
           /\ \A i \in 1..Len(chunks) : Sound(Stretched[i])
<1>1. /\ chunks # <<>>
      /\ Stretched \in Seq(ChunkType)
      /\ Len(Stretched) = Len(chunks)
      /\ Shape(Stretched, 0, tail_idx)
      /\ cba_next_chunk_idx(Stretched[Len(chunks)]) = 0
      /\ \A i \in 1..Len(chunks) :
            /\ Sound(Stretched[i])
            /\ Stretched[i].idx = chunks[i].idx
            /\ Stretched[i].held = chunks[i].held
            /\ Stretched[i].req = chunks[i].req
    BY StretchedChain
<1>2. chunks \in Seq(ChunkType)
    BY DEF IInv, Shape
<1>3. Len(chunks) \in 1..Len(chunks)
    BY <1>1, <1>2, EmptySeq
<1>4. HeldBlocks(Stretched) = HeldBlocks(chunks)
    BY <1>1, <1>2, BlocksSame
<1> QED
    BY <1>1, <1>3, <1>4 DEF Blocks, HeldBlocks, Block

LEMMA HeadBehindTailToo ==
    ASSUME IInv, 0 < tail_idx, tail_idx <= free_idx
    PROVE  tail_idx > 0 /\ head_idx >= tail_idx
<1>1. Shape(chunks, free_idx, tail_idx) /\ Size \in Nat /\ tail_idx \in Int
    BY CbaAssumption DEF IInv, Shape
<1>2. head_idx \in Int
  <2>1. CASE chunks = <<>>
      BY <2>1 DEF IInv
  <2>2. CASE chunks # <<>>
    <3>1. Len(chunks) \in 1..Len(chunks) /\ chunks \in Seq(ChunkType)
        BY <1>1, <2>2, EmptySeq DEF Shape
    <3>2. chunks[Len(chunks)].idx \in 0..(Size - 1)
        BY <3>1, ChunkOfChain
    <3> QED
        BY <1>1, <2>2, <3>2 DEF IInv
  <2> QED
      BY <2>1, <2>2
<1> QED
    BY <1>1, <1>2, HeadBehindTail

\* cba_malloc adds a block of the length asked for, apart from all others.
LEMMA MallocAcquires ==
    ASSUME Representable, IInv, IInv', NEW req \in Requests, Malloc(req)
    PROVE  Pool!Acquire(req)
<1> DEFINE len == cba_chunk_len(req)
<1>1. /\ Shape(chunks, free_idx, tail_idx)
      /\ free_idx \in 0..(Size - 1)
      /\ chunks \in Seq(ChunkType)
    BY DEF IInv, Shape
<1>2. /\ Shape(chunks', free_idx', tail_idx')
      /\ \A i \in 1..Len(chunks') : Sound(chunks'[i])
    BY DEF IInv
<1>3. ASSUME NEW STATE s, s \in Seq(ChunkType), NEW STATE c, c \in ChunkType, c.held,
             c.req = req, chunks' = Append(s, c), HeldBlocks(s) = Blocks
      PROVE  Pool!Acquire(req)
  <2>1. /\ HeldBlocks(Append(s, c)) = HeldBlocks(s) \cup {Block(c)}
        /\ Block(c) \notin HeldBlocks(s) /\ Block(c) \in Pool!Block
        /\ \A b \in HeldBlocks(s) : Pool!Apart(Block(c), b)
      BY <1>2, <1>3, BlocksGrow
  <2>2. Blocks' = Blocks \cup {Block(c)}
      BY <1>3, <2>1 DEF Blocks, HeldBlocks
  <2>3. Block(c).hi - Block(c).lo = req
      BY <1>3, BlockLength
  <2>4. Pool!Gives(Block(c), req, Blocks) /\ Block(c) \in Blocks'
      BY <1>3, <2>1, <2>2, <2>3 DEF Pool!Gives
  <2> QED
      BY <2>2, <2>4 DEF Pool!Acquire
<1>4. CASE FitsHere(free_idx, len) /\ Place(chunks, Chunk(free_idx, len, req))
  <2> DEFINE c == Chunk(free_idx, len, req)
  <2>1. c \in ChunkType /\ c.held /\ c.req = req
      BY <1>1, <1>4, FitsChunk DEF Chunk
  <2>2. chunks' = Append(chunks, c)
      BY <1>4 DEF Place
  <2>3. HeldBlocks(chunks) = Blocks
      BY DEF Blocks, HeldBlocks
  <2> HIDE DEF c
  <2> QED
      BY <1>1, <1>3, <2>1, <2>2, <2>3
<1>5. CASE /\ FitsAtStart(free_idx, len)
           /\ Place(Stretched,
                    Chunk(cba_next_chunk_idx(Stretched[Len(chunks)]), len, req))
  <2> DEFINE d == Chunk(0, len, req)
  <2>1. /\ d \in ChunkType /\ d.held /\ d.req = req
        /\ 0 < tail_idx /\ tail_idx <= free_idx
      BY <1>1, <1>5, FitsChunk DEF Chunk
  <2>2. tail_idx > 0 /\ head_idx >= tail_idx
      BY <1>1, <2>1, HeadBehindTailToo
  <2>3. /\ Stretched \in Seq(ChunkType) /\ HeldBlocks(Stretched) = Blocks
        /\ cba_next_chunk_idx(Stretched[Len(chunks)]) = 0
      BY <2>2, StretchedBlocks
  <2> HIDE DEF d
  <2>4. chunks' = Append(Stretched, d)
      BY <1>5, <2>3 DEF Place, d
  <2> QED
      BY <1>3, <2>1, <2>3, <2>4
<1> QED
    BY <1>4, <1>5 DEF Malloc

\* cba_free takes away the block it was given, and no other.
LEMMA FreeReleases ==
    ASSUME IInv, NEW i \in DOMAIN chunks, Free(i)
    PROVE  Pool!Release(Block(chunks[i]))
<1>1. /\ chunks \in Seq(ChunkType) /\ Shape(chunks, free_idx, tail_idx)
      /\ \A j \in 1..Len(chunks) : Sound(chunks[j])
    BY DEF IInv, Shape
<1>2. i \in 1..Len(chunks) /\ chunks[i].held /\ Release(chunks, i, head_idx, free_idx)
    BY <1>1, LenProperties DEF Free
<1>3. /\ Block(chunks[i]) \in HeldBlocks(chunks)
      /\ HeldBlocks(chunks') = HeldBlocks(chunks) \ {Block(chunks[i])}
    BY <1>1, <1>2, BlocksShrink
<1> QED
    BY <1>3 DEF Pool!Release, Blocks, HeldBlocks

\* A block is replaced by that of chunk i of a chain in which every other block
\* has a chunk of its own.
LEMMA BlockReplaced ==
    ASSUME NEW T, NEW f, NEW t, Shape(T, f, t), \A j \in 1..Len(T) : Sound(T[j]),
           NEW i \in 1..Len(T), T[i].held, NEW old \in Blocks,
           \A o \in Blocks \ {old} :
                \E j \in 1..Len(T) : j # i /\ T[j].held /\ o = Block(T[j]),
           NEW req, T[i].req = req,
           Blocks' = (Blocks \ {old}) \cup {Block(T[i])}
    PROVE  Pool!Resize(old, req)
<1>1. /\ Block(T[i]) \in Pool!Block
      /\ \A j \in 1..Len(T) : j # i /\ T[j].held =>
            /\ Block(T[j]) # Block(T[i])
            /\ Pool!Apart(Block(T[i]), Block(T[j]))
    BY BlocksApart
<1>2. \A o \in Blocks \ {old} : o # Block(T[i]) /\ Pool!Apart(Block(T[i]), o)
    BY <1>1
<1>3. Block(T[i]).hi - Block(T[i]).lo = req
  <2>1. T[i] \in ChunkType
      BY ChunkOfChain DEF Shape
  <2> QED
      BY <2>1, BlockLength
<1>4. Pool!Gives(Block(T[i]), req, Blocks \ {old})
    BY <1>1, <1>2, <1>3 DEF Pool!Gives
<1> QED
    BY <1>4 DEF Pool!Resize

LEMMA ReallocEnoughResizes ==
    ASSUME IInv, IInv', NEW i \in DOMAIN chunks, NEW req \in Requests,
           ReallocEnough(i, req)
    PROVE  Pool!Resize(Block(chunks[i]), req)
<1> DEFINE e == [chunks[i] EXCEPT !.req = req]
           T == [chunks EXCEPT ![i] = e]
<1>1. /\ chunks \in Seq(ChunkType) /\ Shape(chunks, free_idx, tail_idx)
      /\ \A j \in 1..Len(chunks) : Sound(chunks[j])
    BY DEF IInv, Shape
<1>2. i \in 1..Len(chunks) /\ chunks[i].held
    BY <1>1, LenProperties DEF ReallocEnough
<1>3. chunks[i] \in ChunkType
    BY <1>1, <1>2, ElementOfSeq
<1>4. e \in ChunkType /\ e.held /\ e.req = req
    BY <1>2, <1>3 DEF ChunkType
<1>5. chunks' = T
    BY DEF ReallocEnough
<1> HIDE DEF e
<1>6. /\ T \in Seq(ChunkType)
      /\ Len(T) = Len(chunks)
      /\ \A j \in 1..Len(chunks) : T[j] = IF j = i THEN e ELSE chunks[j]
    BY <1>1, <1>2, <1>4, ExceptSeq
<1> HIDE DEF T
<1>7. Shape(T, free_idx', tail_idx') /\ \A j \in 1..Len(T) : Sound(T[j])
    BY <1>5 DEF IInv
<1>8. Blocks = {Block(chunks[k]) : k \in {j \in 1..Len(chunks) : chunks[j].held}}
    BY <1>1, BlocksOf DEF Blocks, HeldBlocks
<1>9. Blocks' = {Block(T[k]) : k \in {j \in 1..Len(T) : T[j].held}}
  <2>1. Blocks' = HeldBlocks(T)
      BY <1>5 DEF Blocks, HeldBlocks
  <2> QED
      BY <1>6, <2>1, BlocksOf
<1>10. \A j \in 1..Len(chunks) :
            j # i /\ chunks[j].held => Block(chunks[j]) # Block(chunks[i])
    BY <1>1, <1>2, BlocksApart
<1>11. Block(chunks[i]) \in Blocks
    BY <1>2, <1>8
<1>12. \A o \in Blocks \ {Block(chunks[i])} :
            \E j \in 1..Len(T) : j # i /\ T[j].held /\ o = Block(T[j])
    BY <1>2, <1>6, <1>8
<1>13. i \in 1..Len(T) /\ T[i].held /\ T[i].req = req
    BY <1>2, <1>4, <1>6
<1>14. Blocks' = (Blocks \ {Block(chunks[i])}) \cup {Block(T[i])}
    BY <1>2, <1>4, <1>6, <1>8, <1>9, <1>10
<1> QED
    BY <1>7, <1>11, <1>12, <1>13, <1>14, BlockReplaced

LEMMA ReallocHeadResizes ==
    ASSUME Representable, IInv, IInv', NEW req \in Requests, ReallocHead(req)
    PROVE  Pool!Resize(Block(HeadChunk), req)
<1> DEFINE n == Len(chunks)
           len == cba_chunk_len(req)
<1>1. /\ chunks \in Seq(ChunkType)
      /\ Shape(chunks, free_idx, tail_idx)
      /\ chunks # <<>>
      /\ tail_idx \in 0..(Size - 1)
      /\ \A i \in 1..n : Sound(chunks[i])
      /\ chunks[n].held
    BY DEF IInv, Shape, ReallocHead, HeadChunk
<1>2. /\ n \in Nat \ {0} /\ n \in 1..n
      /\ head_idx \in 0..(Size - 1)
  <2>1. n \in Nat \ {0} /\ n \in 1..n
      BY <1>1, EmptySeq
  <2> QED
      BY <1>1, <2>1, ChunkOfChain DEF IInv
<1>3. Blocks = {Block(chunks[k]) : k \in {j \in 1..n : chunks[j].held}}
    BY <1>1, BlocksOf DEF Blocks, HeldBlocks
<1>4. \A j \in 1..n : j # n /\ chunks[j].held => Block(chunks[j]) # Block(chunks[n])
    BY <1>1, <1>2, BlocksApart
<1>5. Block(chunks[n]) \in Blocks
    BY <1>1, <1>2, <1>3
<1>6. CASE FitsHere(head_idx, len) /\ Place(Below, Chunk(head_idx, len, req))
  <2> DEFINE c == Chunk(head_idx, len, req)
             T == Append(Below, c)
  <2>1. c \in ChunkType /\ c.held /\ c.req = req
      BY <1>2, <1>6, FitsChunk DEF Chunk
  <2> HIDE DEF c
  <2>2. chunks' = T
      BY <1>6 DEF Place, c
  <2>3. /\ Below \in Seq(ChunkType)
        /\ Len(Below) = n - 1
        /\ \A i \in 1..(n - 1) : Below[i] = chunks[i]
    <3>1. /\ 1 \in 1..(n + 1) /\ n - 1 \in 0..n /\ 1 <= (n - 1) + 1
          /\ (n - 1) - 1 + 1 = n - 1
          /\ \A i \in 1..(n - 1) : 1 + i - 1 = i
        BY <1>2
    <3>2. /\ Below \in Seq(ChunkType)
          /\ Len(Below) = (n - 1) - 1 + 1
          /\ \A i \in 1..((n - 1) - 1 + 1) : Below[i] = chunks[1 + i - 1]
        BY <1>1, <3>1, PartOfSeq DEF Below
    <3> QED
        BY <3>1, <3>2
  <2>4. /\ T \in Seq(ChunkType) /\ Len(T) = n /\ T[n] = c
        /\ \A i \in 1..(n - 1) : T[i] = chunks[i]
    <3>1. /\ T \in Seq(ChunkType)
          /\ Len(T) = (n - 1) + 1
          /\ \A i \in 1..(n - 1) : T[i] = Below[i]
          /\ T[(n - 1) + 1] = c
        BY <1>2, <2>1, <2>3, AppendProperties
    <3>2. (n - 1) + 1 = n
        BY <1>2
    <3> HIDE DEF T
    <3> QED
        BY <2>3, <3>1, <3>2
  <2> HIDE DEF T
  <2>5. Shape(T, free_idx', tail_idx') /\ \A j \in 1..Len(T) : Sound(T[j])
      BY <2>2 DEF IInv
  <2>6. Blocks' = {Block(T[k]) : k \in {j \in 1..n : T[j].held}}
    <3>1. Blocks' = HeldBlocks(T)
        BY <2>2 DEF Blocks, HeldBlocks
    <3> QED
        BY <2>4, <3>1, BlocksOf
  <2>7. \A j \in 1..n : j = n \/ j \in 1..(n - 1)
      BY <1>2
  <2>8. \A j \in 1..(n - 1) : j \in 1..n /\ j # n
      BY <1>2
  <2> HIDE DEF n
  <2>9. \A o \in Blocks \ {Block(chunks[n])} :
            \E j \in 1..Len(T) : j # n /\ T[j].held /\ o = Block(T[j])
      BY <1>3, <2>4, <2>7, <2>8
  <2>10. Blocks' = (Blocks \ {Block(chunks[n])}) \cup {Block(T[n])}
      BY <1>1, <1>2, <1>3, <1>4, <2>1, <2>4, <2>6, <2>7, <2>8
  <2>11. n \in 1..Len(T) /\ T[n].held /\ T[n].req = req
      BY <1>2, <2>1, <2>4
  <2>12. Pool!Resize(Block(chunks[n]), req)
      BY <1>5, <2>5, <2>9, <2>10, <2>11, BlockReplaced
  <2> QED
      BY <2>12 DEF HeadChunk, n
<1>7. CASE /\ FitsAtStart(head_idx, len)
           /\ LET new == Chunk(cba_next_chunk_idx(Stretched[n]), len, req)
              IN  Release(Append(Stretched, new), n,
                          new.idx, cba_next_chunk_idx(new))
  <2> DEFINE d == Chunk(0, len, req)
             S == Append(Stretched, d)
             f == cba_next_chunk_idx(d)
  <2>1. /\ d \in ChunkType /\ d.idx = 0 /\ d.bound /\ d.held /\ Sound(d)
        /\ d.req = req
        /\ 0 < tail_idx /\ End(d) < tail_idx
        /\ tail_idx <= head_idx
      BY <1>2, <1>7, FitsChunk DEF Chunk
  <2>2. tail_idx > 0 /\ head_idx >= tail_idx
      BY <1>1, <1>2, <2>1
  <2>3. /\ Stretched \in Seq(ChunkType) /\ Len(Stretched) = n
        /\ HeldBlocks(Stretched) = Blocks
        /\ cba_next_chunk_idx(Stretched[n]) = 0
        /\ Block(Stretched[n]) = Block(chunks[n])
        /\ Stretched[n].held
        /\ Shape(Stretched, 0, tail_idx)
        /\ \A i \in 1..n : Sound(Stretched[i])
      BY <1>1, <2>2, StretchedBlocks
  <2> HIDE DEF d
  <2>4. Release(S, n, d.idx, f)
      BY <1>7, <2>3 DEF d
  <2>5. /\ S \in Seq(ChunkType)
        /\ Len(S) = n + 1
        /\ S[n + 1] = d
        /\ \A i \in 1..n : S[i] = Stretched[i]
      BY <1>2, <2>1, <2>3, AppendProperties
  <2>6. Shape(S, f, tail_idx)
    <3>1. IF 0 < tail_idx THEN End(d) < tail_idx
          ELSE End(d) < Size \/ (End(d) = Size /\ tail_idx > 0)
        BY <2>1
    <3> QED
        BY <2>1, <2>3, <3>1, ShapeGrows
  <2>7. \A i \in 1..(n + 1) : i \in 1..n \/ i = n + 1
      BY <1>2
  <2>8. \A i \in 1..Len(S) : Sound(S[i])
      BY <2>1, <2>3, <2>5, <2>7
  <2>9. /\ HeldBlocks(S) = Blocks \cup {Block(d)}
        /\ Block(d) \notin Blocks
        /\ Block(d) \in Pool!Block
        /\ \A b \in Blocks : Pool!Apart(Block(d), b)
      BY <2>1, <2>3, <2>6, <2>8, BlocksGrow
  <2>10. n \in 1..Len(S) /\ S[n].held /\ Block(S[n]) = Block(chunks[n])
      BY <1>2, <2>3, <2>5
  <2> HIDE DEF S, f
  <2>11. HeldBlocks(chunks') = HeldBlocks(S) \ {Block(chunks[n])}
      BY <2>4, <2>6, <2>8, <2>10, BlocksShrink
  <2>12. Blocks' = (Blocks \ {Block(chunks[n])}) \cup {Block(d)}
    <3>1. Blocks' = HeldBlocks(chunks')
        BY DEF Blocks, HeldBlocks
    <3> QED
        BY <1>5, <2>9, <2>11, <3>1
  <2>13. Block(d).hi - Block(d).lo = req
      BY <2>1, BlockLength
  <2>14. Pool!Gives(Block(d), req, Blocks \ {Block(chunks[n])}) /\ Block(d) \in Blocks'
      BY <2>9, <2>12, <2>13 DEF Pool!Gives
  <2> QED
      BY <1>5, <2>12, <2>14 DEF Pool!Resize, HeadChunk
<1> QED
    BY <1>6, <1>7 DEF ReallocHead

\* Each call changes the blocks as it should, and there is no other step.
LEMMA EachCallIsRight ==
    ASSUME Representable, IInv, IInv'
    PROVE  EachCall
<1>1. ASSUME NEW req \in Requests, Malloc(req) PROVE Pool!Acquire(req)
    BY <1>1, MallocAcquires
<1>2. ASSUME NEW req \in Requests, ReallocHead(req)
      PROVE  Pool!Resize(Block(HeadChunk), req)
    BY <1>2, ReallocHeadResizes
<1>3. ASSUME NEW i \in DOMAIN chunks, Free(i)
      PROVE  Pool!Release(Block(chunks[i]))
    BY <1>3, FreeReleases
<1>4. ASSUME NEW i \in DOMAIN chunks, NEW req \in Requests, ReallocEnough(i, req)
      PROVE  Pool!Resize(Block(chunks[i]), req)
    BY <1>4, ReallocEnoughResizes
<1>5. ASSUME Reset PROVE Pool!ReleaseAll
  <2>1. chunks' = <<>>
      BY <1>5 DEF Reset
  <2> QED
      BY <2>1, NoBlocks DEF Blocks, HeldBlocks, Pool!ReleaseAll
<1> QED
    BY <1>1, <1>2, <1>3, <1>4, <1>5 DEF EachCall

\* A step of the allocator is one of the pool, or none.
LEMMA NextIsPoolStep ==
    ASSUME EachCall, [Next]_vars
    PROVE  Pool!Next \/ UNCHANGED Blocks
<1>1. ASSUME NEW old, NEW req \in Requests, Pool!Resize(old, req) PROVE Pool!Next
    BY <1>1 DEF Pool!Resize, Pool!Next
<1>2. ASSUME NEW b, Pool!Release(b) PROVE Pool!Next
    BY <1>2 DEF Pool!Release, Pool!Next
<1>3. ASSUME NEW req \in Requests, Malloc(req) \/ ReallocHead(req) PROVE Pool!Next
    BY <1>1, <1>3 DEF EachCall, Pool!Next
<1>4. ASSUME NEW i \in DOMAIN chunks, Free(i) PROVE Pool!Next
    BY <1>2, <1>4 DEF EachCall
<1>5. ASSUME NEW i \in DOMAIN chunks, NEW req \in Requests,
             ReallocEnough(i, req)
      PROVE  Pool!Next
    BY <1>1, <1>5 DEF EachCall
<1>6. CASE Reset
    BY <1>6 DEF EachCall, Pool!Next
<1>7. CASE UNCHANGED vars
    BY <1>7 DEF Blocks, vars
<1> QED
    BY <1>3, <1>4, <1>5, <1>6, <1>7 DEF Next

\* Whatever its callers allocate, free and reallocate, in whatever order, the
\* allocator has the effect on the blocks they hold that a memory allocator
\* promises: cba_malloc adds a block of the length asked for, apart from the
\* others, cba_free takes away the one it was given, cba_realloc replaces the
\* one it was given, and none of these calls touches any other block.
THEOREM PoolIsImplemented == Representable => (Spec => ImplementsPool)
<1> SUFFICES ASSUME Representable PROVE Spec => ImplementsPool
    OBVIOUS
<1>1. Init => Pool!Init
    BY NoBlocks DEF Init, Pool!Init, Blocks, HeldBlocks
<1>2. IInv /\ IInv' => EachCall
    BY EachCallIsRight
<1>3. IInv /\ IInv' => [EachCall]_vars
    BY <1>2
<1>4. IInv /\ IInv' /\ [Next]_vars => [Pool!Next]_Blocks
    BY <1>2, NextIsPoolStep
<1> QED
    BY <1>1, <1>3, <1>4, IInvHolds, PTL DEF Spec, ImplementsPool, Pool!Spec
=============================================================================
