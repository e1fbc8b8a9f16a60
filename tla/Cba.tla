--------------------------------- MODULE Cba ---------------------------------
(***************************************************************************)
(* The circular buffer allocator: cba.c.                                   *)
(*                                                                         *)
(* The buffer holds a chain of chunks, each a header and the memory given  *)
(* to a caller.  The chain runs from tail_idx to head_idx, following each  *)
(* header's length, and wraps around at most once; free_idx is where the   *)
(* next chunk goes.  "chunks" is that chain, the oldest chunk first: what  *)
(* the headers say (idx, len, bound) and, as history, what the callers     *)
(* know (held, and req, the number of bytes they asked for).               *)
(***************************************************************************)
EXTENDS Integers, Sequences

CONSTANTS
    Size,           \* length of the buffer
    Requests,       \* lengths that callers ask for
    Validation,     \* compiled with CBA_VALIDATION: chunks end in a marker
    Realloc,        \* compiled with CBA_REALLOC
    LenMod,         \* 2^12: the header has 12 bits for the length
    WordMod         \* 2^16: lengths and indexes are of type uint16_t

CBA_ALLIGNMENT == 4
CBA_HEADER_LEN == CBA_ALLIGNMENT
CBA_MIN_CHUNK_LEN == 3
CBA_END_MARKER_LEN == IF Validation THEN 1 ELSE 0

ASSUME CbaAssumption ==
    /\ Size \in Nat \ {0}
    /\ Requests \subseteq Nat
    /\ Validation \in BOOLEAN
    /\ Realloc \in BOOLEAN
    /\ LenMod \in Nat \ {0}
    /\ WordMod \in Nat \ {0}

\* Every length in use fits in its field: the buffer is no longer than what a
\* header of 12 bits can describe, and no request is within 4 of 2^16.
Representable ==
    /\ Size <= LenMod + CBA_HEADER_LEN
    /\ \A req \in Requests : req + CBA_ALLIGNMENT < WordMod

VARIABLES
    free_idx, head_idx, tail_idx,
    chunks,
    ordered     \* history: since the allocator was last empty, chunks were
                \*   freed in the order of their allocation

vars == <<free_idx, head_idx, tail_idx, chunks, ordered>>

----------------------------------------------------------------------------
\* Mutant: no room is made for the end marker.
cba_chunk_len_NoMarker(req) ==
    LET n == IF req < CBA_MIN_CHUNK_LEN THEN CBA_MIN_CHUNK_LEN ELSE req
    IN  (IF n % CBA_ALLIGNMENT = 0 THEN n
         ELSE (n \div CBA_ALLIGNMENT + 1) * CBA_ALLIGNMENT) % WordMod

cba_chunk_len(req) ==
    LET n == IF req < CBA_MIN_CHUNK_LEN THEN CBA_MIN_CHUNK_LEN ELSE req
    IN  (IF ~Validation /\ n % CBA_ALLIGNMENT = 0 THEN n
         ELSE (n \div CBA_ALLIGNMENT + 1) * CBA_ALLIGNMENT) % WordMod

\* A chunk as cba_reallocate_chunk writes it, with the length its header keeps.
Chunk(idx, len, req) ==
    [idx |-> idx, len |-> len % LenMod, bound |-> TRUE, held |-> TRUE,
     req |-> req]

\* The first byte behind a chunk.
End(c) == c.idx + CBA_HEADER_LEN + c.len

\* Mutant: the index does not wrap.
cba_next_chunk_idx_NoWrap(c) == End(c)

cba_next_chunk_idx(c) == End(c) % Size

HeadChunk == chunks[Len(chunks)]
Below == SubSeq(chunks, 1, Len(chunks) - 1)

\* The chain when its last chunk is extended to the end of the buffer.
Stretched == Append(Below,
                [HeadChunk EXCEPT !.len = (Size - (head_idx + CBA_HEADER_LEN)) % LenMod,
                             !.bound = TRUE])

----------------------------------------------------------------------------
Init ==
    /\ free_idx = 0
    /\ head_idx = 0
    /\ tail_idx = 0
    /\ chunks = <<>>
    /\ ordered = TRUE

\* Mutant: the end of the buffer is the limit also behind the wrap.
FitsHere_IgnoresTail(idx, len) ==
    len + CBA_HEADER_LEN < Size - idx - CBA_END_MARKER_LEN

\* cba_allocate_chunk: there is room at idx, before the tail or the end ...
FitsHere(idx, len) ==
    len + CBA_HEADER_LEN <
        (IF idx < tail_idx THEN tail_idx ELSE Size) - idx - CBA_END_MARKER_LEN

\* ... or only at the beginning of the buffer.
FitsAtStart(idx, len) ==
    /\ idx >= tail_idx
    /\ ~FitsHere(idx, len)
    /\ tail_idx > 0
    /\ len + CBA_HEADER_LEN < tail_idx - CBA_END_MARKER_LEN

\* cba_reallocate_chunk, with the chunks below the one that is written.
Place(below, c) ==
    /\ chunks' = Append(below, c)
    /\ head_idx' = c.idx
    /\ free_idx' = cba_next_chunk_idx(c)

Malloc(req) ==
    LET len == cba_chunk_len(req)
    IN  /\ \/ /\ FitsHere(free_idx, len)
              /\ Place(chunks, Chunk(free_idx, len, req))
           \/ /\ FitsAtStart(free_idx, len)
              /\ Place(Stretched,
                       Chunk(cba_next_chunk_idx(Stretched[Len(chunks)]), len, req))
        /\ UNCHANGED <<tail_idx, ordered>>

\* Mutant: the walk does not stop at a chunk that is bound.
UnboundPrefix_All(s, k) == k = Len(s)

\* The first k chunks of s are not bound, and no more than these.
UnboundPrefix(s, k) ==
    /\ k \in 0..Len(s)
    /\ \A j \in 1..k : ~s[j].bound
    /\ k < Len(s) => s[k + 1].bound

\* Mutant: a chunk at the tail is unbound as any other.
Release_OnlyUnbinds(s, i, h, f) ==
    /\ chunks' = [s EXCEPT ![i].bound = FALSE, ![i].held = FALSE]
    /\ head_idx' = h /\ free_idx' = f /\ tail_idx' = tail_idx

\* Mutant: an empty allocator goes on where it is.
Release_NoRestart(s, i, h, f) ==
    LET t == [s EXCEPT ![i].bound = FALSE, ![i].held = FALSE]
    IN  /\ head_idx' = h
        /\ free_idx' = f
        /\ IF s[i].idx # tail_idx THEN chunks' = t /\ tail_idx' = tail_idx
           ELSE \E k \in 1..Len(s) :
                    /\ UnboundPrefix(t, k)
                    /\ chunks' = SubSeq(t, k + 1, Len(t))
                    /\ tail_idx' = cba_next_chunk_idx(t[k])

\* cba_free of chunk i in chain s, whose indexes are h and f: the unbound
\* chunks at the tail go, and an empty allocator starts over at 0.
Release(s, i, h, f) ==
    LET t == [s EXCEPT ![i].bound = FALSE, ![i].held = FALSE]
    IN  \/ /\ s[i].idx # tail_idx
           /\ chunks' = t
           /\ head_idx' = h /\ free_idx' = f /\ tail_idx' = tail_idx
        \/ /\ s[i].idx = tail_idx
           /\ \E k \in 1..Len(s) :
                /\ UnboundPrefix(t, k)
                /\ LET tail == cba_next_chunk_idx(t[k])
                   IN  \/ /\ tail # f
                          /\ chunks' = SubSeq(t, k + 1, Len(t))
                          /\ head_idx' = h /\ free_idx' = f /\ tail_idx' = tail
                       \/ /\ tail = f
                          /\ chunks' = <<>>
                          /\ head_idx' = 0 /\ free_idx' = 0 /\ tail_idx' = 0

\* Chunk i was the oldest one still held, or the allocator is empty now.
Freed(i) ==
    ordered' = \/ chunks' = <<>>
               \/ ordered /\ \A j \in 1..(i - 1) : ~chunks[j].held

Free(i) ==
    /\ chunks[i].held
    /\ Release(chunks, i, head_idx, free_idx)
    /\ Freed(i)

\* cba_realloc of chunk i: it is big enough as it is, or it is the last one
\* and is extended in place, or moved to the beginning of the buffer.
ReallocEnough(i, req) ==
    /\ Realloc
    /\ chunks[i].held
    /\ chunks[i].len > req + CBA_END_MARKER_LEN
    /\ chunks' = [chunks EXCEPT ![i].req = req]
    /\ UNCHANGED <<free_idx, head_idx, tail_idx, ordered>>

\* Mutant: the chunk that moved is not given back.
ReallocHead_KeepsOld(req) ==
    /\ Realloc
    /\ chunks # <<>>
    /\ HeadChunk.held
    /\ HeadChunk.len <= req + CBA_END_MARKER_LEN
    /\ LET len == cba_chunk_len(req)
           new == Chunk(cba_next_chunk_idx(Stretched[Len(chunks)]), len, req)
       IN  \/ FitsHere(head_idx, len) /\ Place(Below, Chunk(head_idx, len, req))
           \/ FitsAtStart(head_idx, len) /\ Place(Stretched, new)
    /\ UNCHANGED <<tail_idx, ordered>>

ReallocHead(req) ==
    /\ Realloc
    /\ chunks # <<>>
    /\ HeadChunk.held
    /\ HeadChunk.len <= req + CBA_END_MARKER_LEN
    /\ LET len == cba_chunk_len(req)
       IN  \/ /\ FitsHere(head_idx, len)
              /\ Place(Below, Chunk(head_idx, len, req))
              /\ UNCHANGED <<tail_idx, ordered>>
           \/ /\ FitsAtStart(head_idx, len)
              /\ LET n == Len(chunks)
                     new == Chunk(cba_next_chunk_idx(Stretched[n]), len, req)
                 IN  Release(Append(Stretched, new), n,
                             new.idx, cba_next_chunk_idx(new))
              /\ Freed(Len(chunks))

\* Every chunk is given up.
Reset ==
    /\ free_idx' = 0
    /\ head_idx' = 0
    /\ tail_idx' = 0
    /\ chunks' = <<>>
    /\ ordered' = TRUE

Next ==
    \/ \E req \in Requests : Malloc(req) \/ ReallocHead(req)
    \/ \E i \in DOMAIN chunks : Free(i)
    \/ \E i \in DOMAIN chunks, req \in Requests : ReallocEnough(i, req)
    \/ Reset

Spec == Init /\ [][Next]_vars

----------------------------------------------------------------------------
(* Properties.                                                             *)

\* The indexes stay in the buffer and the headers' fields in their ranges.
TypeOK ==
    /\ free_idx \in 0..(Size - 1)
    /\ head_idx \in 0..(Size - 1)
    /\ tail_idx \in 0..(Size - 1)
    /\ chunks \in Seq([idx : 0..(Size - 1), len : 0..(LenMod - 1),
                       bound : BOOLEAN, held : BOOLEAN, req : Requests])
    /\ ordered \in BOOLEAN

\* The three indexes and the headers describe one chain: the walk that
\* cba_free makes from the tail comes past every chunk and ends at free_idx.
ChainLinked ==
    IF chunks = <<>> THEN free_idx = 0 /\ head_idx = 0 /\ tail_idx = 0
    ELSE /\ chunks[1].idx = tail_idx
         /\ HeadChunk.idx = head_idx
         /\ cba_next_chunk_idx(HeadChunk) = free_idx
         /\ free_idx # tail_idx
         /\ \A i \in 1..(Len(chunks) - 1) :
                chunks[i + 1].idx = cba_next_chunk_idx(chunks[i])

\* No two chunks share a byte, headers included, and all lie in the buffer,
\* over any number of wraps, out-of-order frees and reallocations.
NoOverlap ==
    /\ \A i \in DOMAIN chunks : End(chunks[i]) <= Size
    /\ \A i, j \in DOMAIN chunks : i < j =>
            \/ End(chunks[i]) <= chunks[j].idx
            \/ End(chunks[j]) <= chunks[i].idx

\* A chunk has the memory its caller asked for, and room for the end marker
\* behind it, so that a caller never overwrites the marker cba_free validates.
BlockHoldsRequest ==
    \A i \in DOMAIN chunks :
        chunks[i].held => chunks[i].req + CBA_END_MARKER_LEN <= chunks[i].len

\* When chunk i is freed every other chunk that is bound stays in the chain as
\* it is, and none that is not bound is left at the tail.
Reclaims(i) ==
    /\ \A j \in DOMAIN chunks :
            j # i /\ chunks[j].bound => \E k \in DOMAIN chunks' : chunks'[k] = chunks[j]
    /\ chunks' # <<>> => chunks'[1].bound

\* The walk of cba_free stops at the first chunk that is bound and not before:
\* it reclaims no chunk of another caller, and leaves none unbound at the
\* tail, where no later call would come past it.  So does the cba_free inside
\* cba_realloc, when the last chunk moves to the beginning of the buffer.
ReclaimsRightly ==
    [][/\ \A i \in DOMAIN chunks : Free(i) => Reclaims(i)
       /\ \A req \in Requests : ReallocHead(req) => Reclaims(Len(chunks))]_vars

\* As long as chunks are freed in order no memory is lost: every chunk of the
\* chain is in use, so that when the last one is freed the whole buffer is
\* free again.
InOrderLosesNothing == ordered => \A i \in DOMAIN chunks : chunks[i].held

\* test_cba.c:98: "Memory should be reused, after free".  When every chunk has
\* been freed the allocator is back where it started.
ReusedAfterFree ==
    (\A i \in DOMAIN chunks : ~chunks[i].held) => chunks = <<>>

\* The callers' view of the allocator.
Block(c) == [lo |-> c.idx + CBA_HEADER_LEN,
             hi |-> c.idx + CBA_HEADER_LEN + c.req]

Blocks == {Block(chunks[i]) : i \in {j \in DOMAIN chunks : chunks[j].held}}

Pool == INSTANCE BlockPool WITH blocks <- Blocks

\* What each call may do to the blocks that callers hold.
EachCall ==
    /\ \A req \in Requests :
        /\ Malloc(req) => Pool!Acquire(req)
        /\ ReallocHead(req) => Pool!Resize(Block(HeadChunk), req)
    /\ \A i \in DOMAIN chunks :
        /\ Free(i) => Pool!Release(Block(chunks[i]))
        /\ \A req \in Requests :
                ReallocEnough(i, req) => Pool!Resize(Block(chunks[i]), req)
    /\ Reset => Pool!ReleaseAll

\* Each call has the effect on the held blocks that a memory allocator
\* promises, and no effect on those of other callers: cba_malloc adds one of
\* the length asked for and leaves all others, cba_free takes away the one it
\* was given, cba_realloc replaces the one it was given.
ImplementsPool == Pool!Spec /\ [][EachCall]_vars
=============================================================================
