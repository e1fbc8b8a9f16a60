------------------------------- MODULE RingBuf -------------------------------
(***************************************************************************)
(* The ring buffer between an interrupt handler and the main loop:         *)
(* ringbuf.c.  One of them puts bytes and the other one gets them, without *)
(* a lock, so each load and store of the other one's index or of the data  *)
(* is a step of its own.  An index is only stored by its own side.         *)
(***************************************************************************)
EXTENDS Integers

CONSTANTS
    Size,       \* the size of the buffer
    Byte,       \* the bytes it can hold
    NoByte      \* no byte is being put

\* Sizes are powers of two that fit an uint8_t, as the mask needs them.
ASSUME RingBufAssumption ==
    /\ Size \in {2, 4, 8, 16, 32, 64, 128}
    /\ Byte # {}
    /\ NoByte \notin Byte

VARIABLES
    data,
    put_ptr,
    get_ptr,
    putting,    \* where ringbuf_put is: "idle", "store", "advance"
    c,          \* the byte it puts
    getting,    \* where ringbuf_get is: "idle", "load", "advance"
    loaded,     \* *c of ringbuf_get
    taken       \* history: the byte ringbuf_get returned last

putVars == <<put_ptr, putting, c>>
getVars == <<get_ptr, getting, loaded, taken>>
vars == <<data, putVars, getVars>>

Index == 0..Size - 1
Successor(i) == (i + 1) % Size

ringbuf_size == Size

ringbuf_elements == (put_ptr - get_ptr) % Size

\* ringbuf_init, with a buffer of any contents.
Init ==
    /\ data \in [Index -> Byte]
    /\ put_ptr = 0
    /\ get_ptr = 0
    /\ putting = "idle" /\ c = NoByte
    /\ getting = "idle" /\ loaded \in Byte
    /\ taken = loaded

----------------------------------------------------------------------------
\* Mutant: the last slot is used as well.
PutChecks_NoGap(b) ==
    /\ putting = "idle"
    /\ ringbuf_elements <= Size - 1
    /\ putting' = "store"
    /\ c' = b
    /\ UNCHANGED <<data, put_ptr, getVars>>

\* ringbuf_put looks at get_ptr, and returns false when the buffer is full.
PutChecks(b) ==
    /\ putting = "idle"
    /\ ringbuf_elements # Size - 1
    /\ putting' = "store"
    /\ c' = b
    /\ UNCHANGED <<data, put_ptr, getVars>>

PutStores ==
    /\ putting = "store"
    /\ data' = [data EXCEPT ![put_ptr] = c]
    /\ putting' = "advance"
    /\ UNCHANGED <<put_ptr, c, getVars>>

PutAdvances ==
    /\ putting = "advance"
    /\ put_ptr' = Successor(put_ptr)
    /\ putting' = "idle"
    /\ c' = NoByte
    /\ UNCHANGED <<data, getVars>>

\* Mutant: one byte is left in the buffer.
GetChecks_LeavesOne ==
    /\ getting = "idle"
    /\ ringbuf_elements > 1
    /\ getting' = "load"
    /\ UNCHANGED <<data, putVars, get_ptr, loaded, taken>>

\* ringbuf_get looks at put_ptr, and returns false when the buffer is empty.
GetChecks ==
    /\ getting = "idle"
    /\ ringbuf_elements > 0
    /\ getting' = "load"
    /\ UNCHANGED <<data, putVars, get_ptr, loaded, taken>>

GetLoads ==
    /\ getting = "load"
    /\ loaded' = data[get_ptr]
    /\ getting' = "advance"
    /\ UNCHANGED <<data, putVars, get_ptr, taken>>

\* Mutant: the index is not masked.
GetAdvances_Unmasked ==
    /\ getting = "advance"
    /\ get_ptr' = get_ptr + 1
    /\ getting' = "idle"
    /\ taken' = loaded
    /\ UNCHANGED <<data, putVars, loaded>>

GetAdvances ==
    /\ getting = "advance"
    /\ get_ptr' = Successor(get_ptr)
    /\ getting' = "idle"
    /\ taken' = loaded
    /\ UNCHANGED <<data, putVars, loaded>>

PutSteps == PutStores \/ PutAdvances
GetSteps == GetChecks \/ GetLoads \/ GetAdvances

Next == (\E b \in Byte : PutChecks(b)) \/ PutSteps \/ GetSteps

Spec == Init /\ [][Next]_vars

\* The main loop or the handler that gets the bytes asks again and again.
FairSpec == Spec /\ WF_vars(GetSteps)

----------------------------------------------------------------------------
(* Properties.                                                             *)

\* The fields hold values of their types, indexes stay in the buffer.
TypeOK ==
    /\ data \in [Index -> Byte]
    /\ put_ptr \in Index /\ get_ptr \in Index
    /\ putting \in {"idle", "store", "advance"}
    /\ c \in Byte \cup {NoByte}
    /\ getting \in {"idle", "load", "advance"}
    /\ loaded \in Byte /\ taken \in Byte

\* What each side decided by the other one's index is still true when it acts,
\* whatever the other one did between its look and its store: there is room for
\* the byte that is being put, and the byte that is being taken is there; so
\* the two are never at the same slot.
RoomIsKept ==
    /\ putting # "idle" => ringbuf_elements < Size - 1
    /\ getting # "idle" => ringbuf_elements > 0
    /\ getting = "advance" => loaded = data[get_ptr]

\* The bytes between the two indexes, the next one to get first.
Content == [i \in 1..ringbuf_elements |-> data[(get_ptr + i - 1) % Size]]

Abstract == INSTANCE ByteQueue WITH queue <- Content, Capacity <- ringbuf_size - 1

\* However the steps of the two interleave, bytes come out unchanged, in
\* their order, each once, none before it is stored, and all that are put.
ImplementsByteQueue == Abstract!Spec
=============================================================================
