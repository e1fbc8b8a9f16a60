------------------------------ MODULE ByteQueue ------------------------------
(***************************************************************************)
(* What a ring buffer promises its two users: a bounded queue of bytes.    *)
(***************************************************************************)
EXTENDS Integers, Sequences

CONSTANTS
    Byte,       \* the bytes
    Capacity    \* how many of them the queue holds

VARIABLES
    queue,
    taken       \* the byte that was taken last

Init ==
    /\ queue = <<>>
    /\ taken \in Byte

Put(b) ==
    /\ Len(queue) < Capacity
    /\ queue' = Append(queue, b)
    /\ UNCHANGED taken

Get ==
    /\ queue # <<>>
    /\ queue' = Tail(queue)
    /\ taken' = Head(queue)

Next == Get \/ \E b \in Byte : Put(b)

vars == <<queue, taken>>

\* What is put is taken, if it is asked for again and again.
Spec == Init /\ [][Next]_vars /\ WF_vars(Get)
=============================================================================
