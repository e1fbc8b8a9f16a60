------------------------------ MODULE HsmProofs ------------------------------
(***************************************************************************)
(* Theorems about the hierarchical state machine, for every finite         *)
(* hierarchy of states and all periods of its timers: its type invariant,  *)
(* that the states entered are always one path of the hierarchy, and that  *)
(* no period is skipped or counted twice.                                  *)
(*                                                                         *)
(* A transition leaves as many levels as the handler said, counted while   *)
(* EXIT goes up: the path is right again at the end because what remains   *)
(* to be left is at any time as many levels as unwind says (Leaving).      *)
(***************************************************************************)
EXTENDS Hsm, FiniteSetTheorems, TLAPS

\* The states around s.
Around(s) == Path[s] \ {s}

\* While EXIT goes up: the states from the one that hears it to the one the
\* transition goes to are as many as unwind says.
Leaving ==
    calls = "exit" =>
        /\ inside = Path[state]
        /\ Around(new_state) \subseteq Path[state]
        /\ Cardinality(Path[state] \ Around(new_state)) = unwind
        /\ unwind > 0

Staying ==
    /\ calls # "exit" => inside = Path[current_state] /\ state \in Path[current_state]
    /\ calls \in {"none", "enter"} => state = current_state

IInv ==
    /\ TypeOK
    /\ counter + time_lapse <= Horizon
    /\ Leaving
    /\ Staying

----------------------------------------------------------------------------
(* Paths.                                                                  *)

LEMMA PathBasics ==
    ASSUME NEW s \in State
    PROVE  /\ Path[s] \in SUBSET State
           /\ s \in Path[s]
           /\ Closed(Path[s])
           /\ \A S \in SUBSET State : s \in S /\ Closed(S) => Path[s] \subseteq S
<1>1. Path[s] = {q \in State : \A S \in SUBSET State : s \in S /\ Closed(S) => q \in S}
    BY DEF Path
<1>2. Closed(Path[s])
  <2> SUFFICES ASSUME NEW r \in Path[s] \cap DOMAIN Parent,
                      NEW S \in SUBSET State, s \in S, Closed(S)
               PROVE  Parent[r] \in S
      BY <1>1, HsmAssumption DEF Closed
  <2>1. r \in S
      BY <1>1
  <2> QED
      BY <2>1 DEF Closed
<1> QED
    BY <1>1, <1>2

LEMMA PathNested ==
    ASSUME NEW s \in State, NEW q \in Path[s]
    PROVE  Path[q] \subseteq Path[s]
BY PathBasics

LEMMA PathUp ==
    ASSUME NEW s \in DOMAIN Parent
    PROVE  /\ s \in State /\ Parent[s] \in State
           /\ Path[s] = {s} \cup Path[Parent[s]]
           /\ s \notin Path[Parent[s]]
<1>1. s \in State /\ Parent[s] \in State /\ s \notin Path[Parent[s]]
    BY HsmAssumption, HierarchyAssumption
<1>2. Path[Parent[s]] \subseteq Path[s]
  <2>1. Parent[s] \in Path[s]
      BY <1>1, PathBasics DEF Closed
  <2> QED
      BY <1>1, <2>1, PathNested
<1>3. Path[s] \subseteq {s} \cup Path[Parent[s]]
  <2> DEFINE S == {s} \cup Path[Parent[s]]
  <2>1. S \in SUBSET State /\ s \in S
      BY <1>1, PathBasics
  <2>2. Closed(S)
      BY <1>1, PathBasics DEF Closed
  <2> QED
      BY <1>1, <2>1, <2>2, PathBasics
<1> QED
    BY <1>1, <1>2, <1>3, PathBasics

LEMMA PathTop ==
    ASSUME NEW s \in State \ DOMAIN Parent
    PROVE  Path[s] = {s}
<1>1. Closed({s})
    BY DEF Closed
<1> QED
    BY <1>1, PathBasics

\* What lies around a state is its parent's path, or nothing.
LEMMA AroundClosed ==
    ASSUME NEW s \in State
    PROVE  Around(s) \in SUBSET State /\ Closed(Around(s)) /\ Path[s] = {s} \cup Around(s)
<1>1. CASE s \in DOMAIN Parent
  <2>1. Path[Parent[s]] \in SUBSET State /\ Closed(Path[Parent[s]])
      BY <1>1, PathUp, PathBasics
  <2>2. Around(s) = Path[Parent[s]]
      BY <1>1, PathUp DEF Around
  <2> QED
      BY <1>1, <2>1, <2>2, PathUp
<1>2. CASE s \notin DOMAIN Parent
    BY <1>2, PathTop DEF Around, Closed
<1> QED
    BY <1>1, <1>2

LEMMA Finite ==
    ASSUME NEW S \in SUBSET State
    PROVE  IsFiniteSet(S) /\ (Cardinality(S) = 0 <=> S = {})
BY HierarchyAssumption, FS_Subset, FS_EmptySet

\* A level is left.
LEMMA LeaveLevel ==
    ASSUME NEW s \in State, NEW n \in State, NEW u \in Nat, u > 0,
           Around(n) \subseteq Path[s], Cardinality(Path[s] \ Around(n)) = u
    PROVE  /\ s \in DOMAIN Parent /\ u > 1
                => /\ Around(n) \subseteq Path[Parent[s]]
                   /\ Cardinality(Path[Parent[s]] \ Around(n)) = u - 1
                   /\ Path[Parent[s]] = Path[s] \ {s}
           /\ ~(s \in DOMAIN Parent /\ u > 1) => Path[n] = {n} \cup (Path[s] \ {s})
<1> DEFINE A == Around(n)
           R == Path[s] \ A
<1>1. Path[s] \in SUBSET State /\ s \in Path[s] /\ R \in SUBSET State
    BY PathBasics
<1>2. s \notin A
  <2> SUFFICES ASSUME s \in A PROVE FALSE
      OBVIOUS
  <2>1. Path[s] \subseteq A
      BY AroundClosed, PathBasics
  <2>2. R = {}
      BY <2>1
  <2> QED
      BY <1>1, <2>2, Finite
<1>3. s \in R /\ Cardinality(R \ {s}) = u - 1
    BY <1>1, <1>2, Finite, FS_RemoveElement
<1>4. ASSUME s \in DOMAIN Parent, u > 1
      PROVE  /\ A \subseteq Path[Parent[s]]
             /\ Cardinality(Path[Parent[s]] \ A) = u - 1
             /\ Path[Parent[s]] = Path[s] \ {s}
  <2>1. Path[Parent[s]] = Path[s] \ {s}
      BY <1>4, PathUp
  <2>2. Path[Parent[s]] \ A = R \ {s}
      BY <2>1
  <2> QED
      BY <1>2, <1>3, <2>1, <2>2
<1>5. ASSUME ~(s \in DOMAIN Parent /\ u > 1)
      PROVE  Path[n] = {n} \cup (Path[s] \ {s})
  <2>1. A = Path[s] \ {s}
    <3>1. CASE s \notin DOMAIN Parent
        BY <1>2, <3>1, PathTop
    <3>2. CASE u = 1
      <4>1. R \ {s} \in SUBSET State /\ Cardinality(R \ {s}) = 0
          BY <1>1, <1>3, <3>2
      <4>2. R \ {s} = {}
          BY <4>1, Finite
      <4> QED
          BY <1>2, <4>2
    <3> QED
        BY <1>5, <3>1, <3>2
  <2> QED
      BY <2>1, AroundClosed
<1> QED
    BY <1>4, <1>5

----------------------------------------------------------------------------
(* The least element of a set of timers.                                   *)

LEMMA MinIs ==
    ASSUME NEW S \in SUBSET (0..5), S # {}
    PROVE  Min(S) \in S /\ \A k \in S : Min(S) <= k
<1>1. \E x \in S : \A y \in S : x <= y
  <2>1. CASE 0 \in S
      BY <2>1
  <2>2. CASE 0 \notin S /\ 1 \in S
      BY <2>2
  <2>3. CASE 0 \notin S /\ 1 \notin S /\ 2 \in S
      BY <2>3
  <2>4. CASE 0 \notin S /\ 1 \notin S /\ 2 \notin S /\ 3 \in S
      BY <2>4
  <2>5. CASE 0 \notin S /\ 1 \notin S /\ 2 \notin S /\ 3 \notin S /\ 4 \in S
      BY <2>5
  <2>6. CASE 0 \notin S /\ 1 \notin S /\ 2 \notin S /\ 3 \notin S /\ 4 \notin S
    <3>1. \A y \in S : y = 5
        BY <2>6
    <3>2. PICK x : x \in S
        OBVIOUS
    <3> QED
        BY <3>1, <3>2
  <2> QED
      BY <2>1, <2>2, <2>3, <2>4, <2>5, <2>6
<1> QED
    BY <1>1 DEF Min

----------------------------------------------------------------------------
(* The inductive invariant.                                                *)

LEMMA IInvInit == Init => IInv
<1> SUFFICES ASSUME Init PROVE IInv
    OBVIOUS
<1>1. TypeOK
    BY HsmAssumption, PathBasics DEF Init, TypeOK, Depth
<1>2. counter + time_lapse <= Horizon
    BY HsmAssumption DEF Init
<1>3. Leaving /\ Staying
    BY HsmAssumption, PathBasics DEF Init, Leaving, Staying
<1> QED
    BY <1>1, <1>2, <1>3 DEF IInv

\* HSM_PASS and HSM_TRANS enter a state below those that remain.
LEMMA PassDeeper ==
    ASSUME IInv, NEW s \in State, MayTrans(s, 0), calls # "exit"
    PROVE  inside \cup {s} = Path[s]
<1>1. /\ Around(s) \subseteq Path[current_state]
      /\ Cardinality(Path[current_state] \ Around(s)) = 0
    BY DEF MayTrans, Around
<1>2. Path[current_state] \ Around(s) \in SUBSET State
    BY PathBasics DEF IInv, TypeOK
<1>3. Path[current_state] = Around(s)
    BY <1>1, <1>2, Finite
<1> QED
    BY <1>3, AroundClosed DEF IInv, Staying

LEMMA IInvOfTransition ==
    ASSUME IInv, NEW s \in State, NEW depth \in Depth, EventMakesTransition(s, depth)
    PROVE  IInv'
<1>1. /\ calls = "event" /\ MayTrans(s, depth) /\ unwind' = depth
      /\ UNCHANGED <<ev, loop>> /\ TypeOK /\ depth \in Nat
      /\ counter + time_lapse <= Horizon
      /\ inside = Path[current_state] /\ current_state \in State
    BY DEF EventMakesTransition, IInv, Staying, TypeOK, Depth
<1>2. CASE s = current_state /\ Done /\ UNCHANGED <<current_state, timer, new_state, inside>>
  <2>1. TypeOK' /\ (counter + time_lapse <= Horizon)'
      BY <1>1, <1>2 DEF Done, TypeOK, loop, timer
  <2>2. Leaving' /\ Staying'
      BY <1>1, <1>2, PathBasics DEF Done, Leaving, Staying
  <2> QED
      BY <2>1, <2>2 DEF IInv
<1>3. CASE depth > 0 /\ new_state' = s /\ state' = current_state /\ calls' = "exit"
           /\ UNCHANGED <<current_state, timer, inside>>
  <2>1. TypeOK' /\ (counter + time_lapse <= Horizon)'
      BY <1>1, <1>3 DEF TypeOK, loop, timer
  <2>2. Leaving'
      BY <1>1, <1>3 DEF Leaving, MayTrans, Around
  <2>3. Staying'
      BY <1>3 DEF Staying
  <2> QED
      BY <2>1, <2>2, <2>3 DEF IInv
<1>4. CASE depth = 0 /\ new_state' = s /\ Enter(s, inside)
  <2>1. inside' = Path[s]
      BY <1>1, <1>4, PassDeeper DEF Enter
  <2>2. TypeOK' /\ (counter + time_lapse <= Horizon)'
      BY <1>1, <1>4, <2>1, PathBasics, HsmAssumption
      DEF Enter, hsm_timer_init, TypeOK, loop
  <2>3. Leaving' /\ Staying'
      BY <1>4, <2>1, PathBasics DEF Enter, Leaving, Staying
  <2> QED
      BY <2>2, <2>3 DEF IInv
<1> QED
    BY <1>2, <1>3, <1>4 DEF EventMakesTransition

LEMMA IInvOfExit ==
    ASSUME IInv, ExitReturns
    PROVE  IInv'
<1>1. /\ calls = "exit" /\ UNCHANGED <<event, loop>> /\ TypeOK
      /\ counter + time_lapse <= Horizon
      /\ inside = Path[state] /\ state \in State /\ new_state \in State
      /\ Around(new_state) \subseteq Path[state]
      /\ Cardinality(Path[state] \ Around(new_state)) = unwind
      /\ unwind > 0 /\ unwind \in Nat
    BY DEF ExitReturns, IInv, Leaving, TypeOK, Depth
<1>2. CASE ExitGoesUp /\ state' = Parent[state] /\ unwind' = unwind - 1
           /\ inside' = inside \ {state} /\ UNCHANGED <<current_state, timer, calls>>
  <2>1. /\ state \in DOMAIN Parent /\ unwind > 1 /\ state' \in State
        /\ Around(new_state) \subseteq Path[state']
        /\ Cardinality(Path[state'] \ Around(new_state)) = unwind'
        /\ inside' = Path[state']
      BY <1>1, <1>2, LeaveLevel, PathUp DEF ExitGoesUp
  <2>2. TypeOK' /\ (counter + time_lapse <= Horizon)'
      BY <1>1, <1>2, <2>1, PathBasics DEF TypeOK, loop, timer, event, Depth
  <2>3. Leaving' /\ Staying'
      BY <1>1, <1>2, <2>1 DEF Leaving, Staying, event, Around
  <2> QED
      BY <2>2, <2>3 DEF IInv
<1>3. CASE ~ExitGoesUp /\ unwind' = 0 /\ Enter(new_state, inside \ {state})
  <2>1. inside' = Path[new_state]
    <3>1. ~(state \in DOMAIN Parent /\ unwind > 1)
        BY <1>3 DEF ExitGoesUp
    <3>2. Path[new_state] = {new_state} \cup (Path[state] \ {state})
        BY <1>1, <3>1, LeaveLevel
    <3>3. inside' = (inside \ {state}) \cup {new_state}
        BY <1>3 DEF Enter
    <3> QED
        BY <1>1, <3>2, <3>3
  <2>2. TypeOK' /\ (counter + time_lapse <= Horizon)'
      BY <1>1, <1>3, <2>1, PathBasics, HsmAssumption
      DEF Enter, hsm_timer_init, TypeOK, loop, event, Depth
  <2>3. Leaving' /\ Staying'
      BY <1>3, <2>1, <1>1, PathBasics DEF Enter, Leaving, Staying
  <2> QED
      BY <2>2, <2>3 DEF IInv
<1> QED
    BY <1>2, <1>3 DEF ExitReturns

LEMMA IInvOfEnter ==
    ASSUME IInv, EnterReturns
    PROVE  IInv'
<1>1. /\ calls = "enter" /\ UNCHANGED <<event, loop>> /\ TypeOK
      /\ counter + time_lapse <= Horizon
      /\ inside = Path[current_state] /\ current_state \in State
    BY DEF EnterReturns, IInv, Staying, TypeOK
<1>2. CASE Done /\ UNCHANGED <<current_state, unwind, timer, inside>>
  <2>1. TypeOK' /\ (counter + time_lapse <= Horizon)'
      BY <1>1, <1>2 DEF Done, TypeOK, loop, timer, event
  <2>2. Leaving' /\ Staying'
      BY <1>1, <1>2, PathBasics DEF Done, Leaving, Staying
  <2> QED
      BY <2>1, <2>2 DEF IInv
<1>3. ASSUME NEW s \in State, MayTrans(s, 0), unwind' = 0, Enter(s, inside)
      PROVE  IInv'
  <2>1. inside' = Path[s]
      BY <1>1, <1>3, PassDeeper DEF Enter
  <2>2. TypeOK' /\ (counter + time_lapse <= Horizon)'
      BY <1>1, <1>3, <2>1, PathBasics, HsmAssumption
      DEF Enter, hsm_timer_init, TypeOK, loop, event, Depth
  <2>3. Leaving' /\ Staying'
      BY <1>3, <2>1, PathBasics DEF Enter, Leaving, Staying
  <2> QED
      BY <2>2, <2>3 DEF IInv
<1> QED
    BY <1>2, <1>3 DEF EnterReturns

LEMMA IInvOfEvent ==
    ASSUME IInv, EventGoesUp \/ EventIsHandled \/ HandleEvent
    PROVE  IInv'
<1>1. CASE EventGoesUp
  <2>1. state' \in Path[current_state] /\ state' \in State
      BY <1>1, PathBasics, PathUp DEF EventGoesUp, IInv, Staying, TypeOK, Closed
  <2> QED
      BY <1>1, <2>1 DEF EventGoesUp, IInv, TypeOK, Leaving, Staying, timer, event, loop
<1>2. CASE EventIsHandled
    BY <1>2, PathBasics
    DEF EventIsHandled, Done, IInv, TypeOK, Leaving, Staying, timer, event, loop
<1>3. CASE HandleEvent
    BY <1>3, PathBasics
    DEF HandleEvent, Dispatch, Idle, IInv, TypeOK, Leaving, Staying, timer, loop
<1> QED
    BY <1>1, <1>2, <1>3

LEMMA FinestIs ==
    ASSUME mask \subseteq Timer
    PROVE  /\ Finest \in 0..5 /\ Period[Finest] \in Nat \ {0}
           /\ \A k \in mask : k \in 0..5 /\ Finest <= k
<1> DEFINE S == mask \cap 0..(HSM_TIMER_1S - 1)
<1>1. mask \subseteq 0..5 /\ S \in SUBSET (0..5) /\ HSM_TIMER_1S = 3
    BY HsmAssumption DEF HSM_TIMER_1S
<1>2. CASE S = {}
  <2>1. Finest = 3
      BY <1>1, <1>2 DEF Finest
  <2>2. \A k \in mask : k \in 0..5 /\ 3 <= k
      BY <1>1, <1>2
  <2> QED
      BY <2>1, <2>2, HsmAssumption
<1>3. CASE S # {}
  <2>1. mask \in SUBSET (0..5) /\ mask # {}
      BY <1>1, <1>3
  <2>2. Finest = Min(mask)
      BY <1>3 DEF Finest
  <2>3. Min(mask) \in 0..5 /\ \A k \in mask : k \in 0..5 /\ Min(mask) <= k
      BY <2>1, MinIs
  <2> QED
      BY <2>2, <2>3, HsmAssumption
<1> QED
    BY <1>2, <1>3

\* Each step of hsm_handle_time's loop takes some time, and not more than is
\* left, nor than is left of the finest period.
LEMMA TicksAre ==
    ASSUME TypeOK, TimerCheck
    PROVE  \E t \in Nat \ {0} :
                /\ t <= time_lapse
                /\ t <= Period[Finest] - (counter % Period[Finest])
                /\ counter' = counter + t /\ time_lapse' = time_lapse - t
<1> DEFINE p == Period[Finest]
           r == counter % p
<1>1. counter \in Nat /\ time_lapse \in Nat \ {0}
    BY HsmAssumption DEF TypeOK, TimerCheck
<1>2. p \in Nat \ {0}
    BY FinestIs DEF TypeOK
<1> HIDE DEF p
<1>3. r \in 0..(p - 1)
    BY <1>1, <1>2
<1>4. Ticks = p - r
    BY DEF Ticks, p
<1> HIDE DEF r
<1> DEFINE t == Min({Ticks, time_lapse})
<1>5. Ticks \in Nat \ {0}
    BY <1>2, <1>3, <1>4
<1>6. t \in {Ticks, time_lapse} /\ t <= Ticks /\ t <= time_lapse
  <2>1. \E x \in {Ticks, time_lapse} : \A y \in {Ticks, time_lapse} : x <= y
    <3>1. CASE Ticks <= time_lapse
        BY <1>1, <1>5, <3>1
    <3>2. CASE time_lapse <= Ticks
        BY <1>1, <1>5, <3>2
    <3> QED
        BY <1>1, <1>5, <3>1, <3>2
  <2> QED
      BY <2>1 DEF Min
<1>7. counter' = counter + t /\ time_lapse' = time_lapse - t
    BY DEF TimerCheck
<1> HIDE DEF t
<1>8. t \in Nat \ {0}
    BY <1>1, <1>5, <1>6
<1> QED
    BY <1>4, <1>6, <1>7, <1>8 DEF p, r

LEMMA IInvOfTimers ==
    ASSUME IInv,
           \/ TimerCheck \/ TimerReady
           \/ \E ms \in 1..MaxLapse : HandleTime(ms)
           \/ \E k \in Timer : hsm_timer_enable(k) \/ hsm_timer_disable(k)
           \/ hsm_timer_reset
    PROVE  IInv'
<1>1. CASE TimerCheck
  <2>1. PICK t \in Nat \ {0} : /\ t <= time_lapse
                               /\ counter' = counter + t /\ time_lapse' = time_lapse - t
      BY <1>1, TicksAre DEF IInv
  <2>2. /\ calls = "none" /\ ready_mask' \subseteq mask
        /\ UNCHANGED <<machine, mask, calls, event, inside>>
      BY <1>1 DEF TimerCheck
  <2>3. /\ counter' \in 0..Horizon /\ time_lapse' \in 0..MaxLapse
        /\ counter' + time_lapse' <= Horizon
      BY <2>1, HsmAssumption DEF IInv, TypeOK
  <2> QED
      BY <2>2, <2>3 DEF IInv, TypeOK, Leaving, Staying, machine, event
<1>2. CASE TimerReady
  <2>1. Min(ready_mask) \in ready_mask
      BY <1>2, MinIs, HsmAssumption DEF TimerReady, IInv, TypeOK
  <2> QED
      BY <1>2, <2>1, PathBasics
      DEF TimerReady, Dispatch, IInv, TypeOK, Leaving, Staying, timer
<1>3. ASSUME NEW ms \in 1..MaxLapse, HandleTime(ms)
      PROVE  IInv'
    BY <1>3, HsmAssumption
    DEF HandleTime, Idle, IInv, TypeOK, Leaving, Staying, machine, timer, event
<1>4. ASSUME NEW k \in Timer, hsm_timer_enable(k) \/ hsm_timer_disable(k)
      PROVE  IInv'
    BY <1>4
    DEF hsm_timer_enable, hsm_timer_disable, IInv, TypeOK, Leaving, Staying,
        machine, event, loop
<1>5. CASE hsm_timer_reset
    BY <1>5, HsmAssumption
    DEF hsm_timer_reset, IInv, TypeOK, Leaving, Staying, machine, event, loop
<1> QED
    BY <1>1, <1>2, <1>3, <1>4, <1>5

LEMMA IInvStep == IInv /\ [Next]_vars => IInv'
<1> SUFFICES ASSUME IInv, [Next]_vars
             PROVE  IInv'
    OBVIOUS
<1>1. CASE \E s \in State, depth \in Depth : EventMakesTransition(s, depth)
    BY <1>1, IInvOfTransition
<1>2. CASE ExitReturns
    BY <1>2, IInvOfExit
<1>3. CASE EnterReturns
    BY <1>3, IInvOfEnter
<1>4. CASE EventGoesUp \/ EventIsHandled \/ HandleEvent
    BY <1>4, IInvOfEvent
<1>5. CASE \/ TimerCheck \/ TimerReady
           \/ \E ms \in 1..MaxLapse : HandleTime(ms)
           \/ \E k \in Timer : hsm_timer_enable(k) \/ hsm_timer_disable(k)
           \/ hsm_timer_reset
    BY <1>5, IInvOfTimers
<1>6. CASE UNCHANGED vars
    BY <1>6 DEF vars, machine, timer, event, loop, IInv, TypeOK, Leaving, Staying
<1> QED
    BY <1>1, <1>2, <1>3, <1>4, <1>5, <1>6 DEF Next, Continue

\* hsm_handle_event and hsm_handle_time, whatever the handlers return.
THEOREM IInvHolds == Spec => []IInv
BY IInvInit, IInvStep, PTL DEF Spec

\* hsm.c: the fields of the machine and its timer, and the local variables of
\* its loops, keep to their types.
THEOREM TypeIsCorrect == Spec => []TypeOK
<1>1. IInv => TypeOK
    BY DEF IInv
<1> QED
    BY <1>1, IInvHolds, PTL

\* hsm_handle_event: through transitions over any number of levels, passes from
\* ENTER to ENTER and events that go up, the states entered and not yet exited
\* are one path of the hierarchy.
THEOREM EnteredStaysPath == Spec => []EnteredIsPath
<1>1. IInv => EnteredIsPath
    BY PathBasics DEF IInv, TypeOK, Leaving, Staying, EnteredIsPath
<1> QED
    BY <1>1, IInvHolds, PTL

----------------------------------------------------------------------------
(* Periods: each one is a multiple of every shorter one.                   *)

LEMMA DivMod ==
    ASSUME NEW a \in Nat, NEW P \in Nat \ {0}
    PROVE  /\ a \div P \in Nat /\ (a % P) \in 0..(P - 1)
           /\ a = P * (a \div P) + (a % P)
OBVIOUS

LEMMA DivUnique ==
    ASSUME NEW a \in Nat, NEW P \in Nat \ {0}, NEW q \in Nat, NEW r \in 0..(P - 1),
           a = P * q + r
    PROVE  a \div P = q /\ (a % P) = r
OBVIOUS

\* The next period of p is full before the next one of its multiple is.
LEMMA FinerIsSooner ==
    ASSUME NEW p \in Nat \ {0}, NEW m \in Nat \ {0}, NEW a \in Nat
    PROVE  p - (a % p) <= m * p - (a % (m * p))
<1> DEFINE P == m * p
           q == a \div P
           r == a % P
           u == r \div p
           v == r % p
<1>1. P \in Nat \ {0}
    OBVIOUS
<1> HIDE DEF P
<1>2. q \in Nat /\ r \in 0..(P - 1) /\ a = P * q + r
    BY <1>1, DivMod
<1> HIDE DEF q, r
<1>3. r \in Nat
    BY <1>1, <1>2
<1>4. u \in Nat /\ v \in 0..(p - 1) /\ r = p * u + v
    BY <1>3, DivMod
<1> HIDE DEF u, v
<1>5. a % p = v
  <2> DEFINE z == m * q + u
  <2>1. z \in Nat /\ a = p * z + v
      BY <1>2, <1>4 DEF P
  <2> HIDE DEF z
  <2> QED
      BY <2>1, <1>4, DivUnique
<1>6. u <= m - 1
  <2> SUFFICES ASSUME u >= m PROVE FALSE
      BY <1>4
  <2>1. p * u >= p * m
      BY <1>4
  <2> QED
      BY <2>1, <1>1, <1>2, <1>4 DEF P
<1>7. p * u <= p * m - p
    BY <1>4, <1>6
<1>8. p - v <= P - r
    BY <1>2, <1>4, <1>7 DEF P
<1> QED
    BY <1>5, <1>8 DEF P, r

\* A step that stays within a period ends it or does not.
LEMMA WithinPeriod ==
    ASSUME NEW P \in Nat \ {0}, NEW a \in Nat, NEW t \in Nat \ {0}, t <= P - (a % P)
    PROVE  ((a + t) \div P) - (a \div P) = IF (a + t) % P = 0 THEN 1 ELSE 0
<1> DEFINE q == a \div P
           r == a % P
<1>1. q \in Nat /\ r \in 0..(P - 1) /\ a = P * q + r
    BY DivMod
<1>2. t <= P - r
    OBVIOUS
<1> HIDE DEF q, r
<1>3. CASE r + t = P
  <2> DEFINE z == a + t
             y == q + 1
  <2>1. z \in Nat /\ y \in Nat /\ z = P * y + 0 /\ 0 \in 0..(P - 1)
    <3>1. a + t = P * q + P
        BY <1>1, <1>3
    <3>2. P * (q + 1) = P * q + P
        BY <1>1
    <3> QED
        BY <1>1, <3>1, <3>2
  <2> HIDE DEF z, y
  <2>2. z \div P = y /\ (z % P) = 0
      BY <2>1, DivUnique
  <2> QED
      BY <1>1, <2>2 DEF q, y, z
<1>4. CASE r + t # P
  <2>1. a + t = P * q + (r + t) /\ a + t \in Nat /\ (r + t) \in 0..(P - 1)
      BY <1>1, <1>2, <1>4
  <2>2. (a + t) \div P = q /\ (a + t) % P = r + t
      BY <1>1, <2>1, DivUnique
  <2> QED
      BY <1>1, <2>2 DEF q
<1> QED
    BY <1>3, <1>4

Multiple(a, b) == \E m \in Nat \ {0} : a = m * b

LEMMA MultipleTransitive ==
    ASSUME NEW a \in Nat, NEW b \in Nat, NEW c \in Nat, Multiple(a, b), Multiple(b, c)
    PROVE  Multiple(a, c)
<1>1. PICK m \in Nat \ {0} : a = m * b
    BY DEF Multiple
<1>2. PICK n \in Nat \ {0} : b = n * c
    BY DEF Multiple
<1>3. a = (m * n) * c /\ m * n \in Nat \ {0}
    BY <1>1, <1>2
<1> QED
    BY <1>3 DEF Multiple

LEMMA PeriodsNest ==
    ASSUME NEW j \in 0..5, NEW k \in 0..5, j <= k
    PROVE  Multiple(Period[k], Period[j])
<1>1. \A i \in 0..5 : Period[i] \in Nat \ {0}
    BY HsmAssumption
<1>2. \A i \in 0..5 : Multiple(Period[i], Period[i])
    BY <1>1 DEF Multiple
<1>3. ASSUME NEW i \in 1..5
      PROVE  Multiple(Period[i], Period[i - 1])
  <2> DEFINE a == Period[i]
             b == Period[i - 1]
             m == a \div b
  <2>1. a \in Nat \ {0} /\ b \in Nat \ {0} /\ (a % b) = 0
      BY <1>1, HsmAssumption
  <2> HIDE DEF a, b
  <2>2. m \in Nat /\ a = b * m
      BY <2>1, DivMod
  <2> HIDE DEF m
  <2>3. m \in Nat \ {0} /\ a = m * b
      BY <2>1, <2>2
  <2>4. Multiple(a, b)
      BY <2>3 DEF Multiple
  <2> QED
      BY <2>4 DEF a, b
<1>4. \A i \in 2..5 : Multiple(Period[i], Period[i - 2])
  <2> SUFFICES ASSUME NEW i \in 2..5 PROVE Multiple(Period[i], Period[i - 2])
      OBVIOUS
  <2>1. Multiple(Period[i], Period[i - 1]) /\ Multiple(Period[i - 1], Period[i - 2])
      BY <1>3
  <2> QED
      BY <1>1, <2>1, MultipleTransitive
<1>5. \A i \in 3..5 : Multiple(Period[i], Period[i - 3])
  <2> SUFFICES ASSUME NEW i \in 3..5 PROVE Multiple(Period[i], Period[i - 3])
      OBVIOUS
  <2>1. Multiple(Period[i], Period[i - 1]) /\ Multiple(Period[i - 1], Period[i - 3])
      BY <1>3, <1>4
  <2> QED
      BY <1>1, <2>1, MultipleTransitive
<1>6. \A i \in 4..5 : Multiple(Period[i], Period[i - 4])
  <2> SUFFICES ASSUME NEW i \in 4..5 PROVE Multiple(Period[i], Period[i - 4])
      OBVIOUS
  <2>1. Multiple(Period[i], Period[i - 1]) /\ Multiple(Period[i - 1], Period[i - 4])
      BY <1>3, <1>5
  <2> QED
      BY <1>1, <2>1, MultipleTransitive
<1>7. Multiple(Period[5], Period[0])
  <2>1. Multiple(Period[5], Period[4]) /\ Multiple(Period[4], Period[0])
      BY <1>3, <1>6
  <2> QED
      BY <1>1, <2>1, MultipleTransitive
<1>8. /\ j = k \/ j = k - 1 \/ j = k - 2 \/ j = k - 3 \/ j = k - 4 \/ (k = 5 /\ j = 0)
    OBVIOUS
<1> QED
    BY <1>2, <1>3, <1>4, <1>5, <1>6, <1>7, <1>8

\* hsm_timer_check, as hsm_handle_time calls it: in whatever portions the time
\* is handed over, a period that becomes full is served, once, and no other.
THEOREM PeriodsAreServed == Spec => NoPeriodSkipped
<1> DEFINE A == time_lapse' < time_lapse =>
                    \A k \in mask : (counter' \div Period[k]) - (counter \div Period[k])
                                        = IF k \in ready_mask' THEN 1 ELSE 0
<1>1. IInv /\ [Next]_vars => A
  <2> SUFFICES ASSUME IInv, [Next]_vars, time_lapse' < time_lapse, NEW k \in mask
               PROVE  (counter' \div Period[k]) - (counter \div Period[k])
                          = IF k \in ready_mask' THEN 1 ELSE 0
      OBVIOUS
  <2>1. TypeOK /\ time_lapse \in Nat
      BY HsmAssumption DEF IInv, TypeOK
  <2>2. TimerCheck
    <3>1. time_lapse' # time_lapse
        BY <2>1
    <3>2. ~(\E ms \in 1..MaxLapse : HandleTime(ms))
        BY <2>1, HsmAssumption DEF HandleTime, Idle
    <3> QED
        BY <3>1, <3>2
        DEF Next, Continue, EventGoesUp, EventIsHandled, ExitReturns, EnterReturns,
            EventMakesTransition, TimerReady, HandleEvent, hsm_timer_enable,
            hsm_timer_disable, hsm_timer_reset, vars, loop
  <2> DEFINE p == Period[Finest]
  <2>3. PICK t \in Nat \ {0} : t <= p - (counter % p) /\ counter' = counter + t
      BY <2>1, <2>2, TicksAre
  <2>4. p \in Nat \ {0} /\ k \in 0..5 /\ Period[k] \in Nat \ {0} /\ counter \in Nat
      BY <2>1, FinestIs, HsmAssumption DEF TypeOK
  <2>5. PICK m \in Nat \ {0} : Period[k] = m * p
      BY <2>1, FinestIs, PeriodsNest DEF TypeOK, Multiple
  <2> HIDE DEF p
  <2>6. t <= Period[k] - (counter % Period[k])
    <3>1. p - (counter % p) <= m * p - (counter % (m * p))
        BY <2>4, FinerIsSooner
    <3> DEFINE x == counter % p
               y == counter % (m * p)
    <3>2. x \in Int /\ y \in Int /\ m * p \in Int /\ p - x <= m * p - y /\ t <= p - x
      <4>1. m * p \in Nat \ {0}
          BY <2>4, <2>5
      <4> QED
          BY <2>3, <2>4, <3>1, <4>1, DivMod
    <3> HIDE DEF x, y
    <3>3. t <= m * p - y
        BY <2>4, <3>2
    <3> QED
        BY <2>5, <3>3 DEF y
  <2>7. k \in ready_mask' <=> counter' % Period[k] = 0
      BY <2>2 DEF TimerCheck
  <2> QED
      BY <2>3, <2>4, <2>6, <2>7, WithinPeriod
<1> HIDE DEF A
<1>2. IInv /\ [Next]_vars => [A]_vars
    BY <1>1
<1>3. Spec => [][A]_vars
    BY <1>2, IInvHolds, PTL DEF Spec
<1> QED
    BY <1>3 DEF NoPeriodSkipped, A
=============================================================================
