-------------------------------- MODULE Timer --------------------------------
(***************************************************************************)
(* The system clock and the software timers: timer.c and timer.h.          *)
(*                                                                         *)
(* The clock's counters are words that wrap, of milliseconds, of seconds   *)
(* and of the seconds of a clock that goes on in hibernation.              *)
(***************************************************************************)
EXTENDS Integers

CONSTANTS
    Word,       \* the values of a counter, 2^32
    Second      \* milliseconds of a second, 1000

ASSUME TimerAssumption ==
    /\ Word \in Nat \ {0}
    /\ Second \in Nat \ {0}

VARIABLES clock_ms, clock_s, clock_chrono

clock == <<clock_ms, clock_s, clock_chrono>>

Count == 0..Word - 1

InitClock == clock_ms = 0 /\ clock_s = 0 /\ clock_chrono = 0

\* Called by the interrupt handler of a hardware timer.
clock_update(ms, chrono) ==
    /\ clock_s' =
        (clock_s + (((clock_ms % Second) + ms) % Word) \div Second) % Word
    /\ clock_ms' = (clock_ms + ms) % Word
    /\ clock_chrono' = chrono

----------------------------------------------------------------------------
(* A timer counts milliseconds, seconds, or seconds including hibernation. *)

Flags == {"TIMER_MS", "TIMER_SEC", "TIMER_CHRONO"}

TimerType == [start : Count, interval : Count, flags : Flags]

clock_get_milis == clock_ms

clock_get_seconds == clock_s

clock_get_chrono == IF clock_chrono # 0 THEN clock_chrono ELSE clock_s

timer_tstamp(flags) ==
    CASE flags = "TIMER_MS" -> clock_get_milis
      [] flags = "TIMER_SEC" -> clock_get_seconds
      [] flags = "TIMER_CHRONO" -> clock_get_chrono

timer_start(flags, interval) ==
    [start |-> timer_tstamp(flags), interval |-> interval, flags |-> flags]

timer_stop == [start |-> 0, interval |-> 0, flags |-> "TIMER_MS"]

timer_restart(self) == [self EXCEPT !.start = timer_tstamp(self.flags)]

timer_running(self) == self.interval # 0

timer_value(self) == (timer_tstamp(self.flags) - self.start) % Word

timer_remaining(self) ==
    IF timer_value(self) < self.interval
    THEN self.interval - timer_value(self) ELSE 0

\* Mutant: an interval of 0 is over at once.
timer_expired_ZeroToo(self) == timer_value(self) >= self.interval

\* An interval of 0 never expires.
timer_expired(self) ==
    /\ self.interval # 0
    /\ timer_value(self) >= self.interval
=============================================================================
