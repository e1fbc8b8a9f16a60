------------------------------- MODULE TimerSet -------------------------------
(***************************************************************************)
(* What the process timers promise: a timer that is started fires once,    *)
(* not before its time and not long after it, unless it is stopped or      *)
(* started again; one that is not running never fires.                     *)
(***************************************************************************)
EXTENDS Integers

CONSTANTS
    PTimer,     \* the timers
    NoTimer,
    Interval,   \* the intervals they are started with
    Grace       \* how late a timer may fire

VARIABLES
    wait,       \* <<the time left>>, negative when late, or <<>>
    event       \* the timer whose event is being handled

Init ==
    /\ wait = [t \in PTimer |-> <<>>]
    /\ event = NoTimer

\* An interval of 0 starts no timer.
Start(t, i) ==
    /\ wait' = [wait EXCEPT ![t] = IF i = 0 THEN <<>> ELSE <<i>>]
    /\ UNCHANGED event

Stop(t) ==
    /\ wait' = [wait EXCEPT ![t] = <<>>]
    /\ UNCHANGED event

Fire(t) ==
    /\ event = NoTimer
    /\ wait[t] # <<>> /\ wait[t][1] <= 0
    /\ wait' = [wait EXCEPT ![t] = <<>>]
    /\ event' = t

Handled ==
    /\ event' = NoTimer
    /\ UNCHANGED wait

Tick ==
    /\ \A t \in PTimer : wait[t] # <<>> => wait[t][1] > -Grace
    /\ wait' = [t \in PTimer |->
                    IF wait[t] = <<>> THEN <<>> ELSE <<wait[t][1] - 1>>]
    /\ UNCHANGED event

Next ==
    \/ Tick \/ Handled
    \/ \E t \in PTimer : \/ \E i \in Interval : Start(t, i)
                         \/ Stop(t)
                         \/ Fire(t)

Spec == Init /\ [][Next]_<<wait, event>>
=============================================================================
