------------------------------ MODULE BlockPool ------------------------------
(***************************************************************************)
(* What a memory allocator promises to its callers: the blocks they hold   *)
(* lie inside the buffer and apart from each other, and each call changes  *)
(* the block it is about and no other.  Where a block is placed, and when  *)
(* the allocator gives up, is left open.                                   *)
(***************************************************************************)
EXTENDS Integers

CONSTANTS
    Size,       \* length of the buffer
    Requests    \* lengths that callers ask for

VARIABLE blocks     \* the blocks that are held, as [lo, hi) ranges

Block == [lo : 0..Size, hi : 0..Size]

Apart(a, b) == a.hi <= b.lo \/ b.hi <= a.lo

\* b is a new block of the length asked for, apart from the others.
Gives(b, req, others) ==
    /\ b \in Block
    /\ b.hi - b.lo = req
    /\ b \notin others
    /\ \A o \in others : Apart(b, o)

Init == blocks = {}

\* The block that a call returns is one of those that are held then.
Acquire(req) ==
    \E b \in blocks' :
        /\ Gives(b, req, blocks)
        /\ blocks' = blocks \cup {b}

Release(b) == b \in blocks /\ blocks' = blocks \ {b}

\* The block grows, shrinks or moves.
Resize(old, req) ==
    /\ old \in blocks
    /\ \E b \in blocks' :
        /\ Gives(b, req, blocks \ {old})
        /\ blocks' = (blocks \ {old}) \cup {b}

ReleaseAll == blocks' = {}

Next ==
    \/ \E req \in Requests : Acquire(req) \/ \E old \in blocks : Resize(old, req)
    \/ \E b \in blocks : Release(b)
    \/ ReleaseAll

Spec == Init /\ [][Next]_blocks
=============================================================================
