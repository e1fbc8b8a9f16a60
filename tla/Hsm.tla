---------------------------------- MODULE Hsm ----------------------------------
(***************************************************************************)
(* The hierarchical state machine: hsm.c.                                  *)
(*                                                                         *)
(* The handlers of the states are the environment.  A step is the return   *)
(* of the handler that runs, with all that hsm_handle_event does until it  *)
(* calls the next one, or a step of the loops of hsm_handle_time.          *)
(*                                                                         *)
(* Handlers are written as the macros of hsm.h suggest: what a state does  *)
(* not handle goes to its parent, EXIT is passed on to the parent, a       *)
(* transition says how many levels it leaves, counted from the current     *)
(* state, and enters a state one level below what remains.                 *)
(***************************************************************************)
EXTENDS Integers, FiniteSetsExt

CONSTANTS
    State,
    Parent,         \* the parent of each state that has one
    Initial,        \* initial_state
    NoEvent,
    Timer,          \* the timers in use, numbered from 0 as their bits are
    Period,         \* the milliseconds of each timer
    MaxLapse,       \* bound: milliseconds handed to one hsm_handle_time
    Horizon         \* bound: milliseconds spent in one state

\* Timers 0 to 2 are looked at one by one; the slower ones are served
\* whenever a second is full.
HSM_TIMER_1S == 3

ASSUME HsmAssumption ==
    /\ Parent \in [DOMAIN Parent -> State]
    /\ DOMAIN Parent \subseteq State
    /\ Initial \in State
    /\ Timer \subseteq 0..5
    /\ Period \in [0..5 -> Nat \ {0}]
    /\ Period[0] = 1
    /\ \A k \in 1..5 : Period[k] % Period[k - 1] = 0
    /\ NoEvent \notin Timer
    /\ MaxLapse \in Nat /\ Horizon \in Nat \ {0}

\* A state and those around it: a walk along the parents.
Closed(S) == \A r \in S \cap DOMAIN Parent : Parent[r] \in S

Path == [s \in State |->
            {q \in State : \A S \in SUBSET State : s \in S /\ Closed(S) => q \in S}]

\* The parents of a state do not come back to it.
ASSUME HierarchyAssumption ==
    /\ IsFiniteSet(State)
    /\ \A s \in DOMAIN Parent : s \notin Path[Parent[s]]

VARIABLES
    state, current_state, unwind,   \* struct hsm
    counter, mask,                  \* struct hsm_timer
    calls,          \* the kind of handler that runs, "none" if none does
    new_state,      \* the local variables of hsm_handle_event ...
    ev,             \*   the timer that the event is for, or NoEvent
    time_lapse, ready_mask,         \* ... and of hsm_handle_time
    inside          \* history: the states entered and not exited

machine == <<state, current_state, unwind>>
timer == <<counter, mask>>
event == <<new_state, ev>>
loop == <<time_lapse, ready_mask>>
vars == <<machine, timer, calls, event, loop, inside>>

\* hsm_init.  The timer is not initialized: what the memory held before.
Init ==
    /\ state = Initial
    /\ current_state = Initial
    /\ unwind = 0
    /\ counter \in 0..1
    /\ mask \in SUBSET Timer
    /\ calls = "none"
    /\ new_state = Initial
    /\ ev = NoEvent
    /\ time_lapse = 0
    /\ ready_mask = {}
    /\ inside = Path[Initial]

----------------------------------------------------------------------------
(* hsm_handle_event                                                        *)

Dispatch(e) ==
    /\ current_state' = state
    /\ calls' = "event"
    /\ ev' = e

\* The event has been handled.
Done ==
    /\ calls' = "none"
    /\ state' = current_state

hsm_timer_init == counter' = 0 /\ mask' = {}

\* A state is entered, with none of its timers running.
Enter(s, left) ==
    /\ state' = s
    /\ current_state' = s
    /\ hsm_timer_init
    /\ calls' = "enter"
    /\ inside' = left \cup {s}

\* HSM_TRANS(s, depth), HSM_PASS(s) for depth 0: the inner "depth" levels of
\* the current state are left, and s lies one level below the others.
MayTrans(s, depth) ==
    LET around == Path[s] \ {s}
    IN  /\ around \subseteq Path[current_state]
        /\ Cardinality(Path[current_state] \ around) = depth

EventGoesUp ==
    /\ calls = "event"
    /\ state \in DOMAIN Parent
    /\ state' = Parent[state]
    /\ UNCHANGED <<current_state, unwind, timer, calls, event, loop, inside>>

EventIsHandled ==
    /\ calls = "event"
    /\ Done
    /\ UNCHANGED <<current_state, unwind, timer, event, loop, inside>>

\* Nothing is left or entered when s is the current state already.
EventMakesTransition(s, depth) ==
    /\ calls = "event"
    /\ MayTrans(s, depth)
    /\ unwind' = depth
    /\ \/ /\ s = current_state
          /\ Done
          /\ UNCHANGED <<current_state, timer, new_state, inside>>
       \/ /\ s # current_state /\ depth > 0
          /\ new_state' = s
          /\ state' = current_state
          /\ calls' = "exit"
          /\ UNCHANGED <<current_state, timer, inside>>
       \/ /\ s # current_state /\ depth = 0
          /\ new_state' = s
          /\ Enter(s, inside)
    /\ UNCHANGED <<ev, loop>>

\* Mutant: the last level is not left.
ExitGoesUp_OneLess == state \in DOMAIN Parent /\ unwind > 2

\* Mutant: the levels are not counted.
ExitGoesUp_Uncounted == state \in DOMAIN Parent

\* The EXIT handler returned HSM_RET_SUPER, and a level remains.
ExitGoesUp == state \in DOMAIN Parent /\ unwind > 1

ExitReturns ==
    /\ calls = "exit"
    /\ \/ /\ ExitGoesUp
          /\ state' = Parent[state]
          /\ unwind' = unwind - 1
          /\ inside' = inside \ {state}
          /\ UNCHANGED <<current_state, timer, calls>>
       \/ /\ ~ExitGoesUp
          /\ unwind' = 0
          /\ Enter(new_state, inside \ {state})
    /\ UNCHANGED <<event, loop>>

\* A state that passes on to one of its own is not left.
EnterReturns ==
    /\ calls = "enter"
    /\ \/ /\ Done
          /\ UNCHANGED <<current_state, unwind, timer, inside>>
       \/ \E s \in State : /\ MayTrans(s, 0)
                           /\ unwind' = 0
                           /\ Enter(s, inside)
    /\ UNCHANGED <<event, loop>>

----------------------------------------------------------------------------
(* hsm_handle_time and the timers                                          *)

Idle == calls = "none" /\ time_lapse = 0 /\ ready_mask = {}

HandleEvent ==
    /\ Idle
    /\ Dispatch(NoEvent)
    /\ UNCHANGED <<state, unwind, timer, new_state, loop, inside>>

HandleTime(ms) ==
    /\ Idle
    /\ counter + ms <= Horizon
    /\ time_lapse' = ms
    /\ UNCHANGED <<machine, timer, calls, event, ready_mask, inside>>

\* The timer whose period the time is divided by.
Finest ==
    IF mask \cap 0..(HSM_TIMER_1S - 1) = {} THEN HSM_TIMER_1S ELSE Min(mask)

\* Mutant: a whole period, wherever the counter stands.
Ticks_Whole == Period[Finest]

\* Mutant: nothing when a period is full.
Ticks_Nothing ==
    (Period[Finest] - (counter % Period[Finest])) % Period[Finest]

\* The time until the next period is full.
Ticks == Period[Finest] - (counter % Period[Finest])

\* hsm_timer_check
TimerCheck ==
    /\ calls = "none"
    /\ ready_mask = {}
    /\ time_lapse > 0
    /\ LET ticks == Min({Ticks, time_lapse})
       IN  /\ counter' = counter + ticks
           /\ time_lapse' = time_lapse - ticks
    /\ ready_mask' = {k \in mask : counter' % Period[k] = 0}
    /\ UNCHANGED <<machine, mask, calls, event, inside>>

\* The ready timers' events, the shortest period first.
TimerReady ==
    /\ calls = "none"
    /\ ready_mask # {}
    /\ Dispatch(Min(ready_mask))
    /\ ready_mask' = ready_mask \ {Min(ready_mask)}
    /\ UNCHANGED <<state, unwind, timer, new_state, time_lapse, inside>>

\* Handlers, and the program around the machine, set the timers.
UserCode == Idle \/ calls # "none"

hsm_timer_enable(k) ==
    /\ UserCode
    /\ mask' = mask \cup {k}
    /\ UNCHANGED <<machine, counter, calls, event, loop, inside>>

hsm_timer_disable(k) ==
    /\ UserCode
    /\ mask' = mask \ {k}
    /\ UNCHANGED <<machine, counter, calls, event, loop, inside>>

hsm_timer_reset ==
    /\ UserCode
    /\ counter' = 0
    /\ UNCHANGED <<machine, mask, calls, event, loop, inside>>

Depth == 0..2       \* HSM_UNWIND_SKIP, HSM_UNWIND_CURRENT, HSM_UNWIND_PARRENT

\* The machine goes on: a handler returns, or hsm_handle_time loops.
Continue ==
    \/ EventGoesUp \/ EventIsHandled \/ ExitReturns \/ EnterReturns
    \/ \E s \in State, depth \in Depth : EventMakesTransition(s, depth)
    \/ TimerCheck \/ TimerReady

Next ==
    \/ Continue
    \/ HandleEvent
    \/ \E ms \in 1..MaxLapse : HandleTime(ms)
    \/ \E k \in Timer : hsm_timer_enable(k) \/ hsm_timer_disable(k)
    \/ hsm_timer_reset

Spec == Init /\ [][Next]_vars

\* Handlers return.
FairSpec == Spec /\ WF_vars(Continue)

----------------------------------------------------------------------------
(* Properties.                                                             *)

\* The fields hold values of their types.
TypeOK ==
    /\ state \in State /\ current_state \in State /\ new_state \in State
    /\ unwind \in Depth
    /\ counter \in 0..Horizon
    /\ time_lapse \in 0..MaxLapse
    /\ mask \subseteq Timer /\ ready_mask \subseteq Timer
    /\ calls \in {"none", "event", "exit", "enter"}
    /\ ev \in Timer \cup {NoEvent}
    /\ inside \subseteq State

\* The states entered and not yet exited are the current one and those around
\* it: each ENTER is followed by one EXIT, in the reverse order, through
\* transitions of parents, passes from ENTER to ENTER and events of timers;
\* and only states that are entered get events, the innermost one first.
EnteredIsPath ==
    /\ inside = Path[IF calls = "exit" THEN state ELSE current_state]
    /\ state \in inside
    /\ calls \in {"none", "enter"} => state = current_state

\* No period of a timer that is enabled is skipped or counted twice, in
\* whatever portions the time is handed to hsm_handle_time: each step of its
\* loop ends where the next period does, or before.
NoPeriodSkipped ==
    [][time_lapse' < time_lapse =>
        \A k \in mask : (counter' \div Period[k]) - (counter \div Period[k])
                            = IF k \in ready_mask' THEN 1 ELSE 0]_vars

\* hsm.c:52: hsm_timer_disable is to "Disable hsm timers defined by the mask":
\* a timer that is disabled, or was never enabled in the current state, makes
\* no event.
DisabledIsSilent ==
    [][calls = "none" /\ calls' = "event" /\ ev' \in Timer => ev' \in mask]_vars

\* hsm_handle_event and hsm_handle_time return.
Returns == ~Idle ~> Idle
=============================================================================
