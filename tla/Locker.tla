-------------------------------- MODULE Locker --------------------------------
(***************************************************************************)
(* A lock that expires: lock.c.  An owner that does not release it in time *)
(* loses it to the next one that asks, and is not told; it may still       *)
(* restart or release what is the other one's lock by then.                *)
(***************************************************************************)
EXTENDS Timer

CONSTANTS
    Owner,      \* who uses the lock
    Nobody,
    Time,       \* the times it is locked for
    Kind,       \* the flags it is locked with
    MaxStep,    \* bound: milliseconds of one clock_update
    MaxAge      \* bound: ages from here on are not told apart

ASSUME LockerAssumption ==
    /\ Nobody \notin Owner
    /\ Time \subseteq Count
    /\ Kind \subseteq Flags
    /\ MaxStep \in Nat /\ MaxAge \in Nat

VARIABLES
    locked,
    timer,
    answer,     \* history: what locker_lock told each owner, until it releases
    holder,     \* history: who locked it last and did not release it
    robbed,     \* history: another one released the lock of the holder
    age,        \* history: milliseconds since the holder locked or restarted it
    dead        \* owners that do nothing any more

vars == <<clock, locked, timer, answer, holder, robbed, age, dead>>

locker_is_expired == locked /\ timer_expired(timer)

Answer == {"LOCK_FAIL", "LOCK_SUCCESS", "LOCK_INTERCEPTED"}

Believes(o) == o \notin dead /\ answer[o] # "LOCK_FAIL"

\* locker_init.
Init ==
    /\ InitClock
    /\ locked = FALSE
    /\ timer = timer_stop
    /\ answer = [o \in Owner |-> "LOCK_FAIL"]
    /\ holder = Nobody
    /\ robbed = FALSE
    /\ age = 0
    /\ dead = {}

----------------------------------------------------------------------------
Taken(o, flags, time, status) ==
    /\ timer' = timer_start(flags, time)
    /\ locked' = TRUE
    /\ answer' = [answer EXCEPT ![o] = status]
    /\ holder' = o
    /\ robbed' = FALSE
    /\ age' = 0

\* Mutant: the timer is started before the lock is looked at.
locker_lock_StartsFirst(o, flags, time) ==
    /\ o \notin dead
    /\ \/ ~locked /\ Taken(o, flags, time, "LOCK_SUCCESS")
       \/ /\ locked /\ ~timer_expired(timer)
          /\ timer' = timer_start(flags, time)
          /\ UNCHANGED <<locked, answer, holder, robbed, age>>
       \/ locked /\ timer_expired(timer) /\ Taken(o, flags, time, "LOCK_INTERCEPTED")
    /\ UNCHANGED <<clock, dead>>

\* A lock that has expired is obsolete.  One that has not is left alone; who
\* asked for it is told LOCK_FAIL, and keeps what it may hold already.
locker_lock(o, flags, time) ==
    /\ o \notin dead
    /\ \/ ~locked /\ Taken(o, flags, time, "LOCK_SUCCESS")
       \/ /\ locked /\ ~timer_expired(timer)
          /\ UNCHANGED <<locked, timer, answer, holder, robbed, age>>
       \/ locked /\ timer_expired(timer) /\ Taken(o, flags, time, "LOCK_INTERCEPTED")
    /\ UNCHANGED <<clock, dead>>

locker_restart(o) ==
    /\ Believes(o)
    /\ timer' = timer_restart(timer)
    /\ age' = IF o = holder THEN 0 ELSE age
    /\ UNCHANGED <<clock, locked, answer, holder, robbed, dead>>

\* Mutant: the lock is left when it has expired.
locker_release_IfValid(o) ==
    /\ Believes(o)
    /\ locked' = (locked /\ timer_expired(timer))
    /\ answer' = [answer EXCEPT ![o] = "LOCK_FAIL"]
    /\ holder' = IF o = holder THEN Nobody ELSE holder
    /\ robbed' = (holder # Nobody /\ o # holder)
    /\ UNCHANGED <<clock, timer, age, dead>>

\* By the holder, or by one that had to give up the lock and does not know.
locker_release(o) ==
    /\ Believes(o)
    /\ locked' = FALSE
    /\ answer' = [answer EXCEPT ![o] = "LOCK_FAIL"]
    /\ holder' = IF o = holder THEN Nobody ELSE holder
    /\ robbed' = (holder # Nobody /\ o # holder)
    /\ UNCHANGED <<clock, timer, age, dead>>

\* By the system, for any owner.
locker_clean ==
    /\ locked' = FALSE
    /\ holder' = Nobody
    /\ robbed' = FALSE
    /\ UNCHANGED <<clock, timer, answer, age, dead>>

\* An owner dies, and does not take the others with it.
Die(o) ==
    /\ dead \cup {o} # Owner
    /\ dead' = dead \cup {o}
    /\ UNCHANGED <<clock, locked, timer, answer, holder, robbed, age>>

Tick(ms) ==
    /\ clock_update(ms, 0)
    /\ age' = IF holder = Nobody \/ age + ms > MaxAge THEN MaxAge ELSE age + ms
    /\ UNCHANGED <<locked, timer, answer, holder, robbed, dead>>

Next ==
    \/ \E o \in Owner :
        \/ \E flags \in Kind, time \in Time : locker_lock(o, flags, time)
        \/ locker_restart(o) \/ locker_release(o) \/ Die(o)
    \/ locker_clean
    \/ \E ms \in 1..MaxStep : Tick(ms)

Spec == Init /\ [][Next]_vars

\* Time passes, and those who are not dead ask for the lock, often enough not
\* to miss each time it is free or expired.
Ask(o) == \E flags \in Kind, time \in Time :
            locker_lock(o, flags, time) /\ holder' = o

FairSpec ==
    /\ Spec
    /\ WF_vars(Tick(1))
    /\ \A o \in Owner : SF_vars(Ask(o))

----------------------------------------------------------------------------
(* Properties.                                                             *)

\* The time of the timer is over for its owner too.  Seconds begin and end with
\* those of the clock, and may come early by Second - Word % Second, 704 ms, when
\* clock_ms wraps.
Late ==
    IF timer.flags = "TIMER_MS" THEN age >= timer.interval
    ELSE age > (timer.interval - 1) * Second - (Second - (Word % Second))

\* Who has locked it keeps it until it releases it, its time is over or another
\* one, late itself, releases it; who takes it over is told so, and LOCK_SUCCESS
\* means that it was free: also when the clock wraps, when several owners are
\* late, and when owners restart a lock that is not theirs any more.
OnlyTheLateLose ==
    [][holder' \notin {holder, Nobody} =>
        IF holder = Nobody \/ robbed THEN answer'[holder'] = "LOCK_SUCCESS"
        ELSE /\ locker_is_expired /\ Late
             /\ answer'[holder'] = "LOCK_INTERCEPTED"]_vars

\* An owner that died does not keep the lock, unless it took it for no time or
\* another one goes on restarting it that had the lock before.
NoDeadOwner ==
    \A o \in Owner :
        []<>~(/\ o \in dead /\ holder = o
              /\ timer.interval # 0
              /\ \A p \in Owner : ~Believes(p))
=============================================================================
