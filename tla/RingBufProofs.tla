---------------------------- MODULE RingBufProofs ----------------------------
(***************************************************************************)
(* Theorems about the ring buffer, for every size and set of bytes: its    *)
(* type invariant, and that what one side decided by the other one's index *)
(* stays true until it acts.                                               *)
(***************************************************************************)
EXTENDS RingBuf, SequenceTheorems, TLAPS

\* Once a side has decided the other one can only make it easier: the put side
\* adds elements, the get side takes them away.
IInv ==
    /\ TypeOK
    /\ RoomIsKept
    /\ putting # "idle" => c \in Byte

----------------------------------------------------------------------------
(* The masks of ringbuf.c, as sums and differences.                        *)

LEMMA SizeType == Size \in Nat /\ Size >= 2
BY RingBufAssumption

\* The number of elements counts from get_ptr up to put_ptr, round the end of
\* the buffer if need be.
LEMMA Distance ==
    ASSUME NEW p \in Index, NEW g \in Index
    PROVE  (p - g) % Size = IF p >= g THEN p - g ELSE p - g + Size
<1>1. CASE Size = 2 BY <1>1 DEF Index
<1>2. CASE Size = 4 BY <1>2 DEF Index
<1>3. CASE Size = 8 BY <1>3 DEF Index
<1>4. CASE Size = 16 BY <1>4 DEF Index
<1>5. CASE Size = 32 BY <1>5 DEF Index
<1>6. CASE Size = 64 BY <1>6 DEF Index
<1>7. CASE Size = 128 BY <1>7 DEF Index
<1> QED BY <1>1, <1>2, <1>3, <1>4, <1>5, <1>6, <1>7, RingBufAssumption

\* The slots behind an index, round the end of the buffer if need be.
LEMMA Slot ==
    ASSUME NEW g \in Index, NEW k \in Index
    PROVE  (g + k) % Size = IF g + k < Size THEN g + k ELSE g + k - Size
<1>1. CASE Size = 2 BY <1>1 DEF Index
<1>2. CASE Size = 4 BY <1>2 DEF Index
<1>3. CASE Size = 8 BY <1>3 DEF Index
<1>4. CASE Size = 16 BY <1>4 DEF Index
<1>5. CASE Size = 32 BY <1>5 DEF Index
<1>6. CASE Size = 64 BY <1>6 DEF Index
<1>7. CASE Size = 128 BY <1>7 DEF Index
<1> QED BY <1>1, <1>2, <1>3, <1>4, <1>5, <1>6, <1>7, RingBufAssumption

\* An index goes up by one, or back to 0 from the end.
LEMMA Advance ==
    ASSUME NEW i \in Index
    PROVE  Successor(i) = IF i = Size - 1 THEN 0 ELSE i + 1
<1>1. CASE Size = 2 BY <1>1 DEF Index, Successor
<1>2. CASE Size = 4 BY <1>2 DEF Index, Successor
<1>3. CASE Size = 8 BY <1>3 DEF Index, Successor
<1>4. CASE Size = 16 BY <1>4 DEF Index, Successor
<1>5. CASE Size = 32 BY <1>5 DEF Index, Successor
<1>6. CASE Size = 64 BY <1>6 DEF Index, Successor
<1>7. CASE Size = 128 BY <1>7 DEF Index, Successor
<1> QED BY <1>1, <1>2, <1>3, <1>4, <1>5, <1>6, <1>7, RingBufAssumption

\* The number of elements, as the two sides' indexes go on.
LEMMA Counting ==
    ASSUME NEW p \in Index, NEW g \in Index
    PROVE  /\ (p - g) % Size \in Index
           /\ (p - g) % Size = 0 <=> p = g
           /\ Successor(p) \in Index
           /\ (p - g) % Size < Size - 1 =>
                (Successor(p) - g) % Size = ((p - g) % Size) + 1
           /\ (p - g) % Size > 0 =>
                (p - Successor(g)) % Size = ((p - g) % Size) - 1
<1>1. Successor(p) \in Index /\ Successor(g) \in Index
    BY SizeType, Advance DEF Index
<1>2. (p - g) % Size \in Index /\ ((p - g) % Size = 0 <=> p = g)
    BY SizeType, Distance DEF Index
<1>3. ASSUME (p - g) % Size < Size - 1
      PROVE  (Successor(p) - g) % Size = ((p - g) % Size) + 1
    <2>1. (p - g) % Size = IF p >= g THEN p - g ELSE p - g + Size
        BY Distance
    <2>2. (Successor(p) - g) % Size =
            IF Successor(p) >= g THEN Successor(p) - g ELSE Successor(p) - g + Size
        BY <1>1, Distance
    <2>3. Successor(p) = IF p = Size - 1 THEN 0 ELSE p + 1
        BY Advance
    <2> QED BY <1>3, <2>1, <2>2, <2>3, SizeType DEF Index
<1>4. ASSUME (p - g) % Size > 0
      PROVE  (p - Successor(g)) % Size = ((p - g) % Size) - 1
    <2>1. (p - g) % Size = IF p >= g THEN p - g ELSE p - g + Size
        BY Distance
    <2>2. (p - Successor(g)) % Size =
            IF p >= Successor(g) THEN p - Successor(g) ELSE p - Successor(g) + Size
        BY <1>1, Distance
    <2>3. Successor(g) = IF g = Size - 1 THEN 0 ELSE g + 1
        BY Advance
    <2> QED BY <1>4, <2>1, <2>2, <2>3, SizeType DEF Index
<1> QED BY <1>1, <1>2, <1>3, <1>4

----------------------------------------------------------------------------
(* The invariant.                                                          *)

LEMMA InitEstablishes == Init => IInv
BY SizeType, RingBufAssumption DEF Init, IInv, TypeOK, RoomIsKept, Index

LEMMA PutCheckKeeps ==
    ASSUME IInv, NEW b \in Byte, PutChecks(b)
    PROVE  IInv'
<1>1. ringbuf_elements \in Index
    BY Counting DEF IInv, TypeOK, ringbuf_elements
<1>2. ringbuf_elements' = ringbuf_elements
    BY DEF PutChecks, getVars, ringbuf_elements
<1>3. TypeOK'
    BY DEF IInv, TypeOK, PutChecks, getVars
<1>4. RoomIsKept'
    BY <1>1, <1>2, SizeType DEF IInv, RoomIsKept, PutChecks, getVars, Index
<1> QED BY <1>3, <1>4 DEF IInv, PutChecks

\* The slot that is written to is not the one that is read.
LEMMA PutStoreKeeps ==
    ASSUME IInv, PutStores
    PROVE  IInv'
<1>1. c \in Byte
    BY DEF IInv, PutStores
<1>2. TypeOK'
    BY <1>1 DEF IInv, TypeOK, PutStores, getVars
<1>3. ringbuf_elements' = ringbuf_elements
    BY DEF PutStores, getVars, ringbuf_elements
<1>4. getting = "advance" => put_ptr # get_ptr
    <2>1. ringbuf_elements = 0 <=> put_ptr = get_ptr
        BY Counting DEF IInv, TypeOK, ringbuf_elements
    <2>2. getting = "advance" => ringbuf_elements > 0
        BY DEF IInv, RoomIsKept
    <2> QED BY <2>1, <2>2
<1>5. RoomIsKept'
    BY <1>3, <1>4 DEF IInv, TypeOK, RoomIsKept, PutStores, getVars
<1> QED BY <1>1, <1>2, <1>5 DEF IInv, PutStores

LEMMA PutAdvanceKeeps ==
    ASSUME IInv, PutAdvances
    PROVE  IInv'
<1>1. /\ ringbuf_elements \in Index
      /\ ringbuf_elements < Size - 1
      /\ ringbuf_elements' = ringbuf_elements + 1
      /\ put_ptr' \in Index
    BY Counting DEF IInv, TypeOK, RoomIsKept, PutAdvances, getVars, ringbuf_elements
<1>2. TypeOK'
    BY <1>1 DEF IInv, TypeOK, PutAdvances, getVars
<1>3. RoomIsKept'
    BY <1>1, SizeType DEF IInv, RoomIsKept, PutAdvances, getVars, Index
<1> QED BY <1>2, <1>3 DEF IInv, PutAdvances

LEMMA GetCheckKeeps ==
    ASSUME IInv, GetChecks
    PROVE  IInv'
<1>1. ringbuf_elements' = ringbuf_elements
    BY DEF GetChecks, putVars, ringbuf_elements
<1>2. TypeOK'
    BY DEF IInv, TypeOK, GetChecks, putVars
<1>3. RoomIsKept'
    BY <1>1 DEF IInv, RoomIsKept, GetChecks, putVars
<1> QED BY <1>2, <1>3 DEF IInv, GetChecks, putVars

LEMMA GetLoadKeeps ==
    ASSUME IInv, GetLoads
    PROVE  IInv'
<1>1. ringbuf_elements' = ringbuf_elements
    BY DEF GetLoads, putVars, ringbuf_elements
<1>2. TypeOK'
    BY DEF IInv, TypeOK, GetLoads, putVars
<1>3. RoomIsKept'
    BY <1>1 DEF IInv, RoomIsKept, GetLoads, putVars
<1> QED BY <1>2, <1>3 DEF IInv, GetLoads, putVars

LEMMA GetAdvanceKeeps ==
    ASSUME IInv, GetAdvances
    PROVE  IInv'
<1>1. /\ ringbuf_elements \in Index
      /\ ringbuf_elements' = ringbuf_elements - 1
    BY Counting DEF IInv, TypeOK, RoomIsKept, GetAdvances, putVars, ringbuf_elements
<1>2. get_ptr' \in Index
    BY Counting DEF IInv, TypeOK, GetAdvances
<1>3. TypeOK'
    BY <1>2 DEF IInv, TypeOK, GetAdvances, putVars
<1>4. RoomIsKept'
    BY <1>1, SizeType DEF IInv, RoomIsKept, GetAdvances, putVars, Index
<1> QED BY <1>3, <1>4 DEF IInv, GetAdvances, putVars

LEMMA NextKeeps == IInv /\ [Next]_vars => IInv'
<1> SUFFICES ASSUME IInv, [Next]_vars PROVE IInv'
    OBVIOUS
<1>1. CASE \E b \in Byte : PutChecks(b)
    BY <1>1, PutCheckKeeps
<1>2. CASE PutSteps
    BY <1>2, PutStoreKeeps, PutAdvanceKeeps DEF PutSteps
<1>3. CASE GetSteps
    BY <1>3, GetCheckKeeps, GetLoadKeeps, GetAdvanceKeeps DEF GetSteps
<1>4. CASE UNCHANGED vars
    BY <1>4 DEF vars, putVars, getVars, IInv, TypeOK, RoomIsKept, ringbuf_elements
<1> QED BY <1>1, <1>2, <1>3, <1>4 DEF Next

----------------------------------------------------------------------------
(* The refinement: a byte is in the queue from when put_ptr is stored until *)
(* get_ptr is; all other steps stutter.                                     *)

\* The slots of the queue's bytes, for indexes p and g.
LEMMA Slots ==
    ASSUME NEW p \in Index, NEW g \in Index,
           NEW i \in 1..((p - g) % Size)
    PROVE  /\ (g + i - 1) % Size \in Index
           /\ (g + i - 1) % Size # p
<1>1. i - 1 \in Index /\ g + (i - 1) = g + i - 1
    BY Counting, SizeType DEF Index
<1>2. (g + i - 1) % Size =
        IF g + (i - 1) < Size THEN g + (i - 1) ELSE g + (i - 1) - Size
    BY <1>1, Slot
<1>3. (p - g) % Size = IF p >= g THEN p - g ELSE p - g + Size
    BY Distance
<1> QED BY <1>2, <1>3, SizeType DEF Index

LEMMA ContentType ==
    ASSUME IInv
    PROVE  /\ Content \in Seq(Byte)
           /\ Len(Content) = ringbuf_elements
           /\ ringbuf_elements \in Nat
<1>1. ringbuf_elements \in Nat
    BY Counting, SizeType DEF IInv, TypeOK, ringbuf_elements, Index
<1>2. \A i \in 1..ringbuf_elements : data[(get_ptr + i - 1) % Size] \in Byte
    BY Slots DEF IInv, TypeOK, ringbuf_elements
<1> QED BY <1>1, <1>2 DEF Content

LEMMA PutAdvanceIsPut ==
    ASSUME IInv, PutAdvances
    PROVE  \E b \in Byte : Abstract!Put(b)
<1> DEFINE n == ringbuf_elements
<1>1. /\ n \in Nat /\ n < Size - 1 /\ n' = n + 1
      /\ get_ptr' = get_ptr /\ data' = data /\ taken' = taken
    BY Counting, ContentType
    DEF IInv, TypeOK, RoomIsKept, PutAdvances, getVars, ringbuf_elements
<1>2. (get_ptr + (n + 1) - 1) % Size = put_ptr
    <2>1. n \in Index /\ get_ptr \in Index /\ put_ptr \in Index
        BY <1>1, SizeType DEF IInv, TypeOK, Index
    <2>2. (get_ptr + n) % Size =
            IF get_ptr + n < Size THEN get_ptr + n ELSE get_ptr + n - Size
        BY <2>1, Slot
    <2>3. n = IF put_ptr >= get_ptr THEN put_ptr - get_ptr
              ELSE put_ptr - get_ptr + Size
        BY <2>1, Distance DEF ringbuf_elements
    <2>4. get_ptr + (n + 1) - 1 = get_ptr + n
        BY <2>1, SizeType DEF Index
    <2> QED BY <2>1, <2>2, <2>3, <2>4, SizeType DEF Index
<1>3. data[put_ptr] \in Byte
    BY DEF IInv, TypeOK
<1>4. Content' = [i \in 1..(n + 1) |-> data[(get_ptr + i - 1) % Size]]
    BY <1>1 DEF Content
<1>5. Content' = Append(Content, data[put_ptr])
    <2> HIDE DEF n
    <2>1. Content = [i \in 1..n |-> data[(get_ptr + i - 1) % Size]]
        BY DEF Content, n
    <2>2. Content \in Seq(Byte) /\ Len(Content) = n
        BY ContentType DEF n
    <2> QED BY <1>1, <1>2, <1>3, <1>4, <2>1, <2>2
<1> QED BY <1>1, <1>3, <1>5, ContentType, SizeType DEF Abstract!Put, ringbuf_size

LEMMA GetAdvanceIsGet ==
    ASSUME IInv, GetAdvances
    PROVE  Abstract!Get
<1> DEFINE n == ringbuf_elements
<1>1. /\ n \in Nat /\ n > 0 /\ n' = n - 1 /\ n \in Index
      /\ get_ptr' = Successor(get_ptr) /\ data' = data /\ taken' = data[get_ptr]
    BY Counting, ContentType
    DEF IInv, TypeOK, RoomIsKept, GetAdvances, putVars, ringbuf_elements
<1>2. Content = [i \in 1..n |-> data[(get_ptr + i - 1) % Size]]
    BY DEF Content
<1>3. Content' = [i \in 1..(n - 1) |-> data[(Successor(get_ptr) + i - 1) % Size]]
    BY <1>1 DEF Content
<1>4. \A i \in 1..(n - 1) :
        (Successor(get_ptr) + i - 1) % Size = (get_ptr + (i + 1) - 1) % Size
    <2> SUFFICES ASSUME NEW i \in 1..(n - 1)
                 PROVE  (Successor(get_ptr) + i - 1) % Size
                            = (get_ptr + (i + 1) - 1) % Size
        OBVIOUS
    <2> HIDE DEF n
    <2>1. /\ get_ptr \in Index /\ i \in Index /\ i - 1 \in Index
          /\ Successor(get_ptr) \in Index
        BY <1>1, Counting, SizeType DEF IInv, TypeOK, Index
    <2>2. (get_ptr + i) % Size =
            IF get_ptr + i < Size THEN get_ptr + i ELSE get_ptr + i - Size
        BY <2>1, Slot
    <2>3. (Successor(get_ptr) + (i - 1)) % Size =
            IF Successor(get_ptr) + (i - 1) < Size
            THEN Successor(get_ptr) + (i - 1)
            ELSE Successor(get_ptr) + (i - 1) - Size
        BY <2>1, Slot
    <2>4. Successor(get_ptr) = IF get_ptr = Size - 1 THEN 0 ELSE get_ptr + 1
        BY <2>1, Advance
    <2>5. /\ get_ptr + (i + 1) - 1 = get_ptr + i
          /\ Successor(get_ptr) + i - 1 = Successor(get_ptr) + (i - 1)
        BY <2>1, SizeType DEF Index
    <2>6. (get_ptr + i) % Size = (Successor(get_ptr) + (i - 1)) % Size
        BY <2>1, <2>2, <2>3, <2>4, SizeType DEF Index
    <2> QED BY <2>5, <2>6
<1>5. Content # <<>> /\ Head(Content) = data[get_ptr]
    <2> HIDE DEF n
    <2>1. (get_ptr + 1 - 1) % Size = get_ptr
        <3>1. get_ptr \in Index /\ 0 \in Index
            BY SizeType DEF IInv, TypeOK, Index
        <3>2. (get_ptr + 0) % Size =
                IF get_ptr + 0 < Size THEN get_ptr + 0 ELSE get_ptr + 0 - Size
            BY <3>1, Slot
        <3>3. get_ptr + 1 - 1 = get_ptr + 0
            BY <3>1, SizeType DEF Index
        <3> QED BY <3>1, <3>2, <3>3, SizeType DEF Index
    <2>2. Content \in Seq(Byte) /\ Len(Content) = n
        BY ContentType DEF n
    <2>3. Content[1] = data[get_ptr]
        BY <1>1, <1>2, <2>1
    <2> QED BY <1>1, <2>2, <2>3
<1>6. Content' = Tail(Content)
    <2> HIDE DEF n
    <2>1. Content \in Seq(Byte) /\ Len(Content) = n
        BY ContentType DEF n
    <2>2. /\ Tail(Content) \in Seq(Byte) /\ Len(Tail(Content)) = n - 1
          /\ \A i \in 1..(n - 1) : Tail(Content)[i] = Content[i + 1]
        BY <1>1, <1>5, <2>1, HeadTailProperties
    <2>3. \A i \in 1..(n - 1) :
            /\ Content[i + 1] = data[(get_ptr + (i + 1) - 1) % Size]
            /\ Content[i + 1] \in Byte
        <3> SUFFICES ASSUME NEW i \in 1..(n - 1)
                     PROVE  /\ Content[i + 1] = data[(get_ptr + (i + 1) - 1) % Size]
                            /\ Content[i + 1] \in Byte
            OBVIOUS
        <3>1. i + 1 \in 1..n BY <1>1
        <3>2. Content[i + 1] \in Byte BY <2>1, <3>1, ElementOfSeq
        <3> QED BY <1>2, <3>1, <3>2
    <2>4. \A i \in 1..(n - 1) : Content'[i] = Content[i + 1]
        BY <1>3, <1>4, <2>3
    <2>5. Content' \in Seq(Byte) /\ Len(Content') = n - 1
        <3>1. n - 1 \in Nat BY <1>1
        <3>2. \A i \in 1..(n - 1) :
                data[(Successor(get_ptr) + i - 1) % Size] \in Byte
            BY <1>4, <2>3
        <3> QED BY <1>3, <3>1, <3>2
    <2> QED BY <2>2, <2>4, <2>5, SeqEqual
<1> QED BY <1>1, <1>5, <1>6 DEF Abstract!Get

\* Only the slot behind the queue is written to.
LEMMA PutStoreStutters ==
    ASSUME IInv, PutStores
    PROVE  UNCHANGED <<Content, taken>>
<1>1. /\ ringbuf_elements' = ringbuf_elements
      /\ get_ptr' = get_ptr /\ taken' = taken
      /\ data' = [data EXCEPT ![put_ptr] = c]
    BY DEF PutStores, getVars, ringbuf_elements
<1>2. \A i \in 1..ringbuf_elements :
        data'[(get_ptr + i - 1) % Size] = data[(get_ptr + i - 1) % Size]
    BY <1>1, Slots DEF IInv, TypeOK, ringbuf_elements
<1> QED BY <1>1, <1>2 DEF Content

LEMMA NextImplements ==
    IInv /\ [Next]_vars => [Abstract!Next]_(Abstract!vars)
<1> SUFFICES ASSUME IInv, [Next]_vars
             PROVE  Abstract!Next \/ UNCHANGED <<Content, taken>>
    BY DEF Abstract!vars
<1>1. ASSUME UNCHANGED <<data, put_ptr, get_ptr, taken>>
      PROVE  UNCHANGED <<Content, taken>>
    BY <1>1 DEF Content, ringbuf_elements
<1>2. CASE \E b \in Byte : PutChecks(b)
    BY <1>1, <1>2 DEF PutChecks, getVars
<1>3. CASE PutStores
    BY <1>3, PutStoreStutters
<1>4. CASE PutAdvances
    BY <1>4, PutAdvanceIsPut DEF Abstract!Next
<1>5. CASE GetChecks \/ GetLoads
    BY <1>1, <1>5 DEF GetChecks, GetLoads, putVars
<1>6. CASE GetAdvances
    BY <1>6, GetAdvanceIsGet DEF Abstract!Next
<1>7. CASE UNCHANGED vars
    BY <1>1, <1>7 DEF vars, putVars, getVars
<1> QED BY <1>2, <1>3, <1>4, <1>5, <1>6, <1>7 DEF Next, PutSteps, GetSteps

LEMMA InitImplements == Init => Abstract!Init
<1> SUFFICES ASSUME Init PROVE Abstract!Init
    OBVIOUS
<1>1. ringbuf_elements = 0
    BY Counting, SizeType DEF Init, Index, ringbuf_elements
<1>2. Content = <<>>
    BY <1>1 DEF Content
<1> QED BY <1>2 DEF Init, Abstract!Init

----------------------------------------------------------------------------
(* The theorems.                                                           *)

\* The inductive invariant of producer and consumer.
THEOREM IInvHolds == Spec => []IInv
BY InitEstablishes, NextKeeps, PTL DEF Spec

\* Masked indexes stay in the buffer.
THEOREM TypeIsCorrect == Spec => []TypeOK
<1>1. IInv => TypeOK BY DEF IInv
<1> QED BY <1>1, IInvHolds, PTL

\* A byte that ringbuf_put found room for has room until put_ptr is stored, and
\* one that ringbuf_get found is there until get_ptr is stored and is the one it
\* returns, in whatever order the two sides take their steps.
THEOREM RoomStays == Spec => []RoomIsKept
<1>1. IInv => RoomIsKept BY DEF IInv
<1> QED BY <1>1, IInvHolds, PTL

\* Whatever the order of the two sides' loads and stores, the bytes that come
\* out are those that were put, unchanged, in their order, each once: every
\* step of the ring buffer is a step of the bounded queue or changes nothing
\* of it.
THEOREM StepsAreByteQueue ==
    Spec => Abstract!Init /\ [][Abstract!Next]_(Abstract!vars)
BY InitImplements, IInvHolds, NextImplements, PTL DEF Spec
=============================================================================
