----------------------------- MODULE ProcessTimer -----------------------------
(***************************************************************************)
(* Process timers: process-timer.c and the timers of scheduler.c.          *)
(*                                                                         *)
(* The scheduler links the timers in a list through their own next fields. *)
(* Its timer handler looks for an expired timer, takes it off the list and *)
(* hands its event to a process, whose thread may start and stop any timer *)
(* in its turn; then it looks again from the head.  The clock ticks in an  *)
(* interrupt handler, between any two steps.                               *)
(***************************************************************************)
EXTENDS Timer, SequencesExt

CONSTANTS
    PTimer,     \* the struct process_timer objects
    NoTimer,    \* NULL
    Interval,   \* the intervals timers are started with
    MaxLag,     \* milliseconds in which the main loop completes a pass
    MaxCalls    \* bound: calls that one thread makes

\* The handler runs often enough for the words of the clock: a timer may be
\* seen just before it expires by one pass and be due until the next one ends.
ASSUME ProcessTimerAssumption ==
    /\ IsFiniteSet(PTimer)
    /\ NoTimer \notin PTimer
    /\ MaxLag \in Nat \ {0} /\ MaxCalls \in Nat
    /\ \A i \in Interval : i \in Nat /\ i + 2 * MaxLag <= Word

VARIABLES
    process_timer_head,
    next,       \* the next field of every timer
    timer,      \* the timer field of every timer
    at,         \* "idle": outside of the handler, "search", "thread"
    tmp,        \* where the search is
    calls,      \* calls the thread may still make
    lag,        \* milliseconds since the handler found nothing more to do
    started     \* history: started, and neither stopped nor fired since

list == <<process_timer_head, next>>
vars == <<clock, list, timer, at, tmp, calls, lag, started>>

----------------------------------------------------------------------------
\* The timers a walk along the links comes past, cut off behind the longest
\* possible one.
Walk(links, first) ==
    LET walk[n \in 0..Cardinality(PTimer) + 1] ==
            [t \in PTimer \cup {NoTimer} |->
                IF n = 0 \/ t = NoTimer THEN <<>>
                ELSE <<t>> \o walk[n - 1][links[t]]]
    IN  walk[Cardinality(PTimer) + 1][first]

Listed == Walk(next, process_timer_head)

Init ==
    /\ InitClock
    /\ process_timer_head = NoTimer
    /\ next = [t \in PTimer |-> NoTimer]
    /\ timer = [t \in PTimer |-> timer_stop]
    /\ at = "idle"
    /\ tmp = NoTimer
    /\ calls = 0
    /\ lag = 0
    /\ started = {}

\* A timer that is on no list is looked for and left alone.
Unlink(t) ==
    IF t = process_timer_head
    THEN /\ process_timer_head' = next[t]
         /\ UNCHANGED next
    ELSE /\ next' = [q \in PTimer |-> IF Contains(Listed, q) /\ next[q] = t
                                      THEN next[t] ELSE next[q]]
         /\ UNCHANGED process_timer_head

----------------------------------------------------------------------------
(* The interface, called by the program or by the thread of an event.      *)

UserCode ==
    \/ at = "idle" /\ UNCHANGED calls
    \/ at = "thread" /\ calls > 0 /\ calls' = calls - 1

\* Mutant: a timer that is on the list is linked again.
scheduler_timer_start_Relinks(t, time_ms) ==
    /\ UserCode
    /\ timer' = [timer EXCEPT ![t] = timer_start("TIMER_MS", time_ms)]
    /\ next' = [next EXCEPT ![t] = process_timer_head]
    /\ process_timer_head' = t
    /\ started' = started \cup {t}
    /\ UNCHANGED <<clock, at, tmp, lag>>

\* A timer that is on the list already is only set anew.
scheduler_timer_start(t, time_ms) ==
    /\ UserCode
    /\ timer' = [timer EXCEPT ![t] = timer_start("TIMER_MS", time_ms)]
    /\ \/ Contains(Listed, t) /\ UNCHANGED list
       \/ /\ ~Contains(Listed, t)
          /\ next' = [next EXCEPT ![t] = process_timer_head]
          /\ process_timer_head' = t
    /\ started' = started \cup {t}
    /\ UNCHANGED <<clock, at, tmp, lag>>

scheduler_timer_stop(t) ==
    /\ UserCode
    /\ timer' = [timer EXCEPT ![t] = timer_stop]
    /\ Unlink(t)
    /\ started' = started \ {t}
    /\ UNCHANGED <<clock, at, tmp, lag>>

----------------------------------------------------------------------------
(* scheduler_timer_handler.                                                *)

HandlerBegins ==
    /\ at = "idle"
    /\ at' = "search"
    /\ tmp' = process_timer_head
    /\ UNCHANGED <<clock, list, timer, calls, lag, started>>

SearchGoesOn ==
    /\ at = "search" /\ tmp # NoTimer
    /\ ~timer_expired(timer[tmp])
    /\ tmp' = next[tmp]
    /\ UNCHANGED <<clock, list, timer, at, calls, lag, started>>

\* The expired timer is taken off the list before its event is handled.
TimerFires ==
    /\ at = "search" /\ tmp # NoTimer
    /\ timer_expired(timer[tmp])
    /\ timer' = [timer EXCEPT ![tmp] = timer_stop]
    /\ Unlink(tmp)
    /\ at' = "thread"
    /\ calls' = MaxCalls
    /\ started' = started \ {tmp}
    /\ UNCHANGED <<clock, tmp, lag>>

\* The next search begins at the head.
ThreadReturns ==
    /\ at = "thread"
    /\ at' = "search"
    /\ tmp' = process_timer_head
    /\ calls' = 0
    /\ UNCHANGED <<clock, list, timer, lag, started>>

HandlerReturns ==
    /\ at = "search" /\ tmp = NoTimer
    /\ at' = "idle"
    /\ lag' = 0
    /\ UNCHANGED <<clock, list, timer, tmp, calls, started>>

Tick ==
    /\ lag < MaxLag
    /\ clock_update(1, 0)
    /\ lag' = lag + 1
    /\ UNCHANGED <<list, timer, at, tmp, calls, started>>

Handler ==
    \/ HandlerBegins \/ SearchGoesOn \/ TimerFires \/ ThreadReturns
    \/ HandlerReturns

Next ==
    \/ Handler \/ Tick
    \/ \E t \in PTimer : \/ scheduler_timer_stop(t)
                         \/ \E i \in Interval : scheduler_timer_start(t, i)

Spec == Init /\ [][Next]_vars

----------------------------------------------------------------------------
(* Properties.                                                             *)

\* The list is what was started: threads that stop and start the timers of
\* the list their handler is called from, the one that fired among them, leave
\* none behind, link none twice and make no ring of the list; and the search
\* that goes on afterwards is at a timer of the list.
ListedIsStarted ==
    /\ ToSet(Listed) = started
    /\ Len(Listed) = Cardinality(started)
    /\ at = "search" /\ tmp # NoTimer => tmp \in started

process_timer_running(t) == timer_running(timer[t])

\* What is left of the time of each timer that runs; late ones count on.
Wait ==
    LET running == {t \in ToSet(Listed) : process_timer_running(t)}
    IN  [t \in PTimer |->
            IF t \in running
            THEN <<timer[t].interval - timer_value(timer[t])>> ELSE <<>>]

Abstract == INSTANCE TimerSet WITH
                wait <- Wait,
                event <- IF at = "thread" THEN tmp ELSE NoTimer,
                Grace <- 2 * MaxLag - 1

\* Each timer that runs fires once, in time, and no other one does: also when
\* the clock wraps, when threads change the list that is being searched, and
\* when a timer is started again before its event.
ImplementsTimerSet == Abstract!Spec
=============================================================================
