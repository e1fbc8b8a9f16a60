------------------------------ MODULE MCDartLink ------------------------------
(* A small set of messages, for TLC. *)
EXTENDS DartLink

CONSTANTS a, b

Message(from, kind, id) ==
    [from |-> from, kind |-> kind, id |-> id, prio |-> GuessPriority(kind)]

Request == Message(a, "REQUEST", 1)
Response == Message(b, "RESPONSE", 1)

Messages == {Request, Response, Message(a, "REQUEST", 2)}
=============================================================================
