------------------------------ MODULE PrioQueue ------------------------------
(***************************************************************************)
(* What a message queue promises: the messages handed to it come back by   *)
(* priority, those of one priority in their order, each once, or are taken *)
(* out of the middle by their owner.                                       *)
(***************************************************************************)
EXTENDS Integers, SequencesExt

CONSTANTS
    Msg,        \* the message objects
    NoMsg,      \* NULL
    List        \* the priorities, 0 is the highest

VARIABLES
    queue,
    popped      \* what the last call returned, if it popped the queue

Init ==
    /\ queue = [l \in List |-> <<>>]
    /\ popped = NoMsg

Queued(m) == \E l \in List : Contains(queue[l], m)

Push(l, m) ==
    /\ ~Queued(m)
    /\ queue' = [queue EXCEPT ![l] = Append(@, m)]
    /\ popped' = NoMsg

Pop(l) ==
    /\ queue[l] # <<>>
    /\ \A k \in List : k < l => queue[k] = <<>>
    /\ queue' = [queue EXCEPT ![l] = Tail(@)]
    /\ popped' = Head(queue[l])

TakeOut(l) ==
    /\ \E i \in DOMAIN queue[l] : queue' = [queue EXCEPT ![l] = RemoveAt(@, i)]
    /\ popped' = NoMsg

\* The queue does not take a message pushed with no valid priority.
Refuse == popped' = NoMsg /\ UNCHANGED queue

Next ==
    \/ Refuse
    \/ \E l \in List : Pop(l) \/ TakeOut(l) \/ \E m \in Msg : Push(l, m)

Spec == Init /\ [][Next]_<<queue, popped>>
=============================================================================
