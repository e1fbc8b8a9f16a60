------------------------------- MODULE MsgQueue -------------------------------
(***************************************************************************)
(* The message queue: message-queue.c, one message list for each priority. *)
(* Its users also take the list of a priority out of it, and pop and       *)
(* remove messages of that list.                                           *)
(***************************************************************************)
EXTENDS MsgList

CONSTANTS
    MsgType,
    TypeOf      \* the type of each message object

MSG_PRIO_LENGTH == 3
MSG_PRIO_ANY == 4

\* The priorities a caller may pass, valid ones and others.
Argument == 0..MSG_PRIO_ANY

NoList == MSG_PRIO_LENGTH

ASSUME MsgQueueAssumption ==
    /\ List = 0..MSG_PRIO_LENGTH - 1
    /\ TypeOf \in [Msg -> MsgType]

VARIABLE popped     \* what the last call returned, if it was msg_queue_pop

vars == <<listVars, popped>>

----------------------------------------------------------------------------
\* A search through the lists ends at the first one that it hits.
FirstList(hits) == IF hits = {} THEN NoList ELSE Min(hits)

msg_list_peek(l) == IF l = NoList THEN NoMsg ELSE msg_head[l]

msg_queue_get_msg_list(prio) ==
    IF prio < MSG_PRIO_LENGTH THEN prio
    ELSE IF prio = MSG_PRIO_ANY
         THEN FirstList({l \in List : msg_list_peek(l) # NoMsg})
         ELSE NoList

msg_list_find_msgtype(l, type) ==
    LET hits == {i \in DOMAIN Listed(l) : TypeOf[Listed(l)[i]] = type}
    IN  IF hits = {} THEN NoMsg ELSE Listed(l)[Min(hits)]

\* Mutant: only the first list that is not empty is searched.
msg_queue_find_msgtype_FirstList(prio, type) ==
    LET l == msg_queue_get_msg_list(prio)
    IN  IF l = NoList THEN NoMsg ELSE msg_list_find_msgtype(l, type)

\* A priority out of range stands for any.
msg_queue_find_msgtype(prio, type) ==
    LET l == IF prio < MSG_PRIO_LENGTH THEN prio
             ELSE FirstList({k \in List : msg_list_find_msgtype(k, type) # NoMsg})
    IN  IF l = NoList THEN NoMsg ELSE msg_list_find_msgtype(l, type)

msg_queue_peek == msg_list_peek(msg_queue_get_msg_list(MSG_PRIO_ANY))

----------------------------------------------------------------------------
Init == InitLists /\ popped = NoMsg

\* A message pushed with a priority out of range stays with its caller.
msg_queue_push(prio, m) ==
    /\ \/ prio < MSG_PRIO_LENGTH /\ Push(prio, m)
       \/ prio >= MSG_PRIO_LENGTH /\ UNCHANGED listVars
    /\ popped' = NoMsg

\* Mutant: the lists are searched from the lowest priority on.
msg_queue_pop_LowFirst ==
    \E l \in List :
        /\ \A k \in List : k > l => msg_head[k] = NoMsg
        /\ Pop(l)
        /\ popped' = msg_head[l]

msg_queue_pop ==
    \E l \in List :
        /\ \A k \in List : k < l => msg_head[k] = NoMsg
        /\ Pop(l)
        /\ popped' = msg_head[l]

\* A user pops the list that msg_queue_get_msg_list returns.
PopList(prio) ==
    LET l == msg_queue_get_msg_list(prio)
    IN  l # NoList /\ Pop(l) /\ popped' = NoMsg

RemoveFromList(prio, m) ==
    LET l == msg_queue_get_msg_list(prio)
    IN  l # NoList /\ RemoveMsg(l, m) /\ popped' = NoMsg

Next ==
    \/ msg_queue_pop
    \/ \E prio \in Argument :
        \/ PopList(prio)
        \/ \E m \in Msg : msg_queue_push(prio, m) \/ RemoveFromList(prio, m)
    \/ \E m \in Msg : Reuse(m) /\ popped' = NoMsg

Spec == Init /\ [][Next]_vars

----------------------------------------------------------------------------
(* Properties.                                                             *)

\* message-queue.h:24: MSG_PRIO_ANY "May be used to check if message is
\* pending": a search finds a message of the type, of the highest priority
\* among them, exactly when one was pushed and not handed out; and what can
\* be peeked is there when anything is.
PendingIsFound ==
    /\ \A type \in MsgType :
        LET queued == {l \in List : \E m \in handed[l] : TypeOf[m] = type}
            found == msg_queue_find_msgtype(MSG_PRIO_ANY, type)
        IN  IF queued = {} THEN found = NoMsg
            ELSE found \in handed[Min(queued)] /\ TypeOf[found] = type
    /\ msg_queue_peek = NoMsg <=> \A l \in List : handed[l] = {}

Abstract == INSTANCE PrioQueue WITH queue <- [l \in List |-> Listed(l)]

\* The three linked lists are a priority queue.
ImplementsPrioQueue == Abstract!Spec
=============================================================================
