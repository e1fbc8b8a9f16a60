------------------------------- MODULE MsgList -------------------------------
(***************************************************************************)
(* Singly linked message lists: message-list.c.                            *)
(*                                                                         *)
(* A message object is linked through its own next field, which keeps its  *)
(* value while the message is with a caller, who may push it to another    *)
(* list.                                                                   *)
(***************************************************************************)
EXTENDS Integers, SequencesExt

CONSTANTS
    Msg,        \* the message objects
    NoMsg,      \* NULL
    List,       \* the lists
    RemoveLast  \* TRUE: msg_list_remove is also called for a last message

ASSUME MsgListAssumption ==
    /\ IsFiniteSet(Msg)
    /\ NoMsg \notin Msg
    /\ RemoveLast \in BOOLEAN

VARIABLES
    msg_head,
    msg_tail,
    length,
    next,       \* the next field of every message object
    handed      \* history: what was pushed to each list, and not handed out

listVars == <<msg_head, msg_tail, length, next, handed>>

----------------------------------------------------------------------------
\* The messages a walk from m along the links comes past, cut off behind the
\* longest possible one.
Walk(links, first) ==
    LET walk[n \in 0..Cardinality(Msg) + 1] ==
            [m \in Msg \cup {NoMsg} |->
                IF n = 0 \/ m = NoMsg THEN <<>>
                ELSE <<m>> \o walk[n - 1][links[m]]]
    IN  walk[Cardinality(Msg) + 1][first]

Listed(l) == Walk(next, msg_head[l])

InitLists ==
    /\ msg_head = [l \in List |-> NoMsg]
    /\ msg_tail = [l \in List |-> NoMsg]
    /\ length = [l \in List |-> 0]
    /\ next = [m \in Msg |-> NoMsg]
    /\ handed = [l \in List |-> {}]

msg_list_length(l) == length[l]

WithCaller(m) == \A l \in List : m \notin handed[l]

\* A caller frees a message object, and another one gets it: msg_ptr_free,
\* msg_ptr_malloc.
Reuse(m) ==
    /\ WithCaller(m)
    /\ next' = [next EXCEPT ![m] = NoMsg]
    /\ UNCHANGED <<msg_head, msg_tail, length, handed>>

\* One message less on list l, whose length does not go below 0.
HandOut(l, m) ==
    /\ length' = [length EXCEPT ![l] = IF @ > 0 THEN @ - 1 ELSE @]
    /\ handed' = [handed EXCEPT ![l] = @ \ {m}]

\* Mutant: the message comes with the next field of an earlier listing.
Push_StaleNext(l, m) ==
    /\ WithCaller(m)
    /\ next' = IF msg_tail[l] = NoMsg THEN next
               ELSE [next EXCEPT ![msg_tail[l]] = m]
    /\ msg_tail' = [msg_tail EXCEPT ![l] = m]
    /\ msg_head' = [msg_head EXCEPT ![l] = IF @ = NoMsg THEN m ELSE @]
    /\ length' = [length EXCEPT ![l] = @ + 1]
    /\ handed' = [handed EXCEPT ![l] = @ \cup {m}]

Push(l, m) ==
    /\ WithCaller(m)
    /\ LET cleared == [next EXCEPT ![m] = NoMsg]
       IN  next' = IF msg_tail[l] = NoMsg THEN cleared
                   ELSE [cleared EXCEPT ![msg_tail[l]] = m]
    /\ msg_tail' = [msg_tail EXCEPT ![l] = m]
    /\ msg_head' = [msg_head EXCEPT ![l] = IF @ = NoMsg THEN m ELSE @]
    /\ length' = [length EXCEPT ![l] = @ + 1]
    /\ handed' = [handed EXCEPT ![l] = @ \cup {m}]

Pop(l) ==
    /\ msg_head[l] # NoMsg
    /\ msg_head' = [msg_head EXCEPT ![l] = next[@]]
    /\ msg_tail' = [msg_tail EXCEPT ![l] = IF @ = msg_head[l] THEN NoMsg ELSE @]
    /\ HandOut(l, msg_head[l])
    /\ UNCHANGED next

\* A message that is not on the list is looked for and left alone.
RemoveMsg(l, m) ==
    /\ Contains(Listed(l), m)
    /\ RemoveLast \/ m # msg_tail[l]
    /\ msg_head' = [msg_head EXCEPT ![l] = IF @ = m THEN next[m] ELSE @]
    /\ next' = [q \in Msg |-> IF Contains(Listed(l), q) /\ next[q] = m
                              THEN next[m] ELSE next[q]]
    /\ HandOut(l, m)
    /\ UNCHANGED msg_tail

----------------------------------------------------------------------------
(* Properties.                                                             *)

\* message-list.c:154: msg_list_length is to "Return number of listed messages".
LengthIsListed == \A l \in List : msg_list_length(l) = Len(Listed(l))

\* A list is what was handed to it: no message is lost from the chain, none
\* comes twice or leads into another list, and the tail, by which the next
\* message is linked, is the last one, whatever stale next fields messages
\* come with from the list they were on before; and the length is right.
NothingLost ==
    /\ LengthIsListed
    /\ \A l \in List :
        /\ handed[l] = ToSet(Listed(l))
        /\ Cardinality(handed[l]) = Len(Listed(l))
        /\ msg_tail[l] = IF Listed(l) = <<>> THEN NoMsg ELSE Last(Listed(l))
=============================================================================
