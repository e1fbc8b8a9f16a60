----------------------------- MODULE LockerProofs -----------------------------
(***************************************************************************)
(* Theorems about the clock and the locker, for any owners, times and      *)
(* words of the clock: no millisecond is lost but at the wrap, and only    *)
(* the late lose the lock.                                                 *)
(*                                                                         *)
(* Both rest on what the seconds are to the milliseconds: one update keeps *)
(* the seconds, times Second, and the rest of the milliseconds in step     *)
(* (SecondsStep), so that what a timer counts is bounded by what its owner *)
(* has waited (Counts), as long as the clock has wrapped once at most.     *)
(***************************************************************************)
EXTENDS Locker, TLAPS

\* No single update is as long as the clock's period, by a second.
ShortSteps == MaxStep + Second <= Word

\* A lock's time is over before ages are no longer told apart and, where seconds
\* are used, before the clock can wrap twice.
ShortTimes ==
    \A t \in Time :
        /\ t * Second <= MaxAge
        /\ \/ Kind \subseteq {"TIMER_MS"}
           \/ (t - 1) * Second <= Word + (Second - (Word % Second))

----------------------------------------------------------------------------
(* The clock.                                                              *)

LEMMA Words == Word \in Nat /\ Word > 0 /\ Second \in Nat /\ Second > 0
BY TimerAssumption

LEMMA Parts ==
    ASSUME NEW x \in Int
    PROVE  /\ x = Second * (x \div Second) + (x % Second)
           /\ x % Second \in Int /\ x \div Second \in Int
           /\ 0 <= x % Second /\ x % Second < Second
BY Words

LEMMA Multiples ==
    ASSUME NEW j \in Int, Second * j < Second, Second * j > -2 * Second
    PROVE  Second * j = 0 \/ Second * j = -Second
<1>1. CASE j >= 1
  <2>1. Second * j >= Second * 1
      BY <1>1, Words
  <2> QED
      BY <2>1, Words
<1>2. CASE j <= -2
  <2>1. Second * j <= Second * (-2)
      BY <1>2, Words
  <2> QED
      BY <2>1, Words
<1>3. CASE j = 0
    BY <1>3, Words
<1>4. CASE j = -1
    BY <1>4, Words
<1> QED
    BY <1>1, <1>2, <1>3, <1>4

\* The rests of two numbers that are w apart.
LEMMA Rests ==
    ASSUME NEW x \in Int, NEW w \in Int
    PROVE  (x % Second) - ((x - w) % Second) \in {w % Second, (w % Second) - Second}
<1> DEFINE y == x - w
           rx == x % Second
           ry == y % Second
           rw == w % Second
           qx == x \div Second
           qy == y \div Second
           qw == w \div Second
<1>1. /\ x = Second * qx + rx /\ rx \in Int /\ qx \in Int /\ 0 <= rx /\ rx < Second
      /\ w = Second * qw + rw /\ rw \in Int /\ qw \in Int /\ 0 <= rw /\ rw < Second
    BY Parts
<1>2. y = Second * qy + ry /\ ry \in Int /\ qy \in Int /\ 0 <= ry /\ ry < Second
    BY Parts
<1>3. y = x - w
    OBVIOUS
<1> HIDE DEF y, rx, ry, rw, qx, qy, qw
<1> DEFINE j == (qy + qw) - qx
<1>4. Second * j = (Second * qy + Second * qw) - Second * qx
    BY <1>1, <1>2, Words
<1>5. j \in Int
    BY <1>1, <1>2
<1> HIDE DEF j
<1>6. Second * j = (rx - ry) - rw
    BY <1>1, <1>2, <1>3, <1>4, Words
<1>7. Second * j = 0 \/ Second * j = -Second
    BY <1>1, <1>2, <1>5, <1>6, Multiples, Words
<1>8. rx - ry = rw \/ rx - ry = rw - Second
    BY <1>1, <1>2, <1>6, <1>7, Words
<1> QED
    BY <1>8 DEF rx, ry, rw, y

LEMMA SameRest ==
    ASSUME NEW c \in Nat, NEW m \in Nat
    PROVE  ((c % Second) + m) % Second = (c + m) % Second
<1> DEFINE x == c + m
           q == c \div Second
           w == Second * q
           y == (c % Second) + m
<1>1. c = w + (c % Second) /\ q \in Int /\ c % Second \in Int
    BY Parts
<1>2. w \in Int /\ x \in Int /\ y = x - w
    BY <1>1, Words
<1>3. w % Second = 0
    BY <1>1, Words
<1> HIDE DEF x, w, y
<1>4. (x % Second) - (y % Second) \in {0, 0 - Second}
    BY <1>2, <1>3, Rests
<1>5. y \in Int /\ x % Second \in Int /\ 0 <= x % Second
    BY <1>1, <1>2, Parts
<1>6. y % Second \in Int /\ y % Second < Second
    BY <1>5, Parts
<1>7. x % Second = y % Second
    BY <1>4, <1>5, <1>6, Words
<1> QED
    BY <1>7 DEF x, y

\* A counter of the clock goes on by k.
LEMMA CountsOn ==
    ASSUME NEW c \in Count, NEW b \in Count, NEW k \in Nat, k < Word
    PROVE  /\ (c + k) % Word \in Count
           /\ (c + k) % Word = IF c + k < Word THEN c + k ELSE c + k - Word
           /\ (((c + k) % Word) - c) % Word = k
           /\ (c - b) % Word \in Count
           /\ (c - c) % Word = 0
           /\ (((c + k) % Word) - b) % Word <= ((c - b) % Word) + k
<1> USE Words DEF Count
<1>1. (c + k) % Word = IF c + k < Word THEN c + k ELSE c + k - Word
  <2>1. CASE c + k < Word
      BY <2>1
  <2>2. CASE c + k >= Word
      BY <2>2
  <2> QED
      BY <2>1, <2>2
<1>2. ASSUME NEW d \in Count, NEW a \in Count
      PROVE  (d - a) % Word = IF d >= a THEN d - a ELSE d - a + Word
  <2>1. CASE d >= a
      BY <2>1
  <2>2. CASE d < a
      BY <2>2
  <2> QED
      BY <2>1, <2>2
<1> DEFINE d == (c + k) % Word
<1>3. d \in Count /\ d = IF c + k < Word THEN c + k ELSE c + k - Word
    BY <1>1
<1> HIDE DEF d
<1>4. (d - c) % Word = k
  <2>1. (d - c) % Word = IF d >= c THEN d - c ELSE d - c + Word
      BY <1>2, <1>3
  <2> QED
      BY <1>3, <2>1
<1>5. (c - b) % Word = IF c >= b THEN c - b ELSE c - b + Word
    BY <1>2
<1>6. (d - b) % Word = IF d >= b THEN d - b ELSE d - b + Word
    BY <1>2, <1>3
<1>7. (d - b) % Word <= ((c - b) % Word) + k
    BY <1>3, <1>5, <1>6
<1>8. (c - b) % Word \in Count /\ (c - c) % Word = 0
    BY <1>2
<1> QED
    BY <1>1, <1>3, <1>4, <1>7, <1>8 DEF d

\* What the seconds get of an update by m milliseconds, and the rest that is left
\* of a second before and after it.
LEMMA SecondsStep ==
    ASSUME NEW c \in Count, NEW m \in Nat, m + Second <= Word,
           NEW k, k = (((c % Second) + m) % Word) \div Second,
           NEW d, d = (c + m) % Word
    PROVE  /\ k \in Nat /\ k < Word
           /\ c % Second \in Int /\ d % Second \in Int /\ Second * k \in Int
           /\ c + m < Word => m - (Second * k + (d % Second) - (c % Second)) = 0
           /\ c + m >= Word =>
                m - (Second * k + (d % Second) - (c % Second))
                    \in {Word % Second, (Word % Second) - Second}
<1> DEFINE f == c % Second
           n == f + m
<1>1. c \in Nat /\ c < Word /\ f \in Int /\ 0 <= f /\ f < Second
    BY Parts, Words DEF Count
<1>2. n \in Nat /\ n < Word /\ n % Word = n
    BY <1>1, Words
<1>3. k = n \div Second
    BY <1>2
<1> HIDE DEF n
<1>4. n = Second * k + (n % Second) /\ k \in Int /\ n % Second \in Int
      /\ 0 <= n % Second /\ n % Second < Second
    BY <1>2, <1>3, Parts
<1>5. n % Second = (c + m) % Second
    BY <1>1, SameRest DEF n
<1>6. n = f + m
    BY DEF n
<1>7. k >= 0 /\ k <= n
  <2>1. CASE k < 0
    <3>1. Second * k <= Second * (-1)
        BY <1>4, <2>1, Words
    <3> QED
        BY <1>2, <1>4, <3>1, Words
  <2>2. CASE k > n
    <3>1. Second * k >= Second * (n + 1)
        BY <1>2, <1>4, <2>2, Words
    <3>2. Second * (n + 1) >= n + 1
        BY <1>2, Words
    <3>3. Second * k \in Int /\ Second * (n + 1) \in Int
        BY <1>2, <1>4, Words
    <3>4. Second * k > n
        BY <1>2, <3>1, <3>2, <3>3
    <3> QED
        BY <1>2, <1>4, <3>3, <3>4
  <2> QED
      BY <1>2, <1>4, <2>1, <2>2
<1>8. Second * k \in Int
    BY <1>4, Words
<1>9. d = (IF c + m < Word THEN c + m ELSE c + m - Word) /\ d \in Count
  <2>1. m < Word
      BY Words
  <2> QED
      BY <2>1, CountsOn
<1>10. d % Second \in Int
    BY <1>9, Parts, Words DEF Count
<1> HIDE DEF f
<1>11. ASSUME c + m < Word
       PROVE  m - (Second * k + (d % Second) - f) = 0
    BY <1>1, <1>4, <1>5, <1>6, <1>8, <1>9, <1>11
<1>12. ASSUME c + m >= Word
       PROVE  m - (Second * k + (d % Second) - f)
                \in {Word % Second, (Word % Second) - Second}
  <2>1. d = (c + m) - Word /\ c + m \in Int
      BY <1>1, <1>9, <1>12, Words
  <2>2. ((c + m) % Second) - (d % Second) \in {Word % Second, (Word % Second) - Second}
      BY <2>1, Rests, Words
  <2>3. m - (Second * k + (d % Second) - f) = ((c + m) % Second) - (d % Second)
      BY <1>1, <1>4, <1>5, <1>6, <1>8, <1>10
  <2> QED
      BY <2>2, <2>3
<1>13. k \in Nat /\ k < Word
    BY <1>2, <1>4, <1>7, Words
<1>14. f = c % Second
    BY DEF f
<1> QED
    BY <1>1, <1>8, <1>10, <1>11, <1>12, <1>13, <1>14

ClockType == clock_ms \in Count /\ clock_s \in Count /\ clock_chrono = 0

\* What the seconds count of an update is the time it stands for; if the
\* milliseconds wrap it is less by Word % Second, or more by what is left of a
\* second then.
KeepsUp ==
    LET ms == (clock_ms' - clock_ms) % Word
        counted == Second * ((clock_s' - clock_s) % Word)
                    + (clock_ms' % Second) - (clock_ms % Second)
        behind == Word % Second
    IN  ms - counted \in IF clock_ms + ms < Word THEN {0}
                         ELSE {behind, behind - Second}

LEMMA UpdateKeeps ==
    ASSUME ClockType, NEW m \in Nat, m + Second <= Word, clock_update(m, 0)
    PROVE  /\ ClockType'
           /\ KeepsUp
<1> DEFINE k == (((clock_ms % Second) + m) % Word) \div Second
<1>1. /\ clock_s' = (clock_s + k) % Word
      /\ clock_ms' = (clock_ms + m) % Word /\ clock_chrono' = 0
    BY DEF clock_update
<1>2. k = (((clock_ms % Second) + m) % Word) \div Second
    OBVIOUS
<1> HIDE DEF k
<1>3. clock_ms \in Count /\ clock_s \in Count
    BY DEF ClockType
<1>4. /\ k \in Nat /\ k < Word
      /\ clock_ms + m < Word =>
            m - (Second * k + (clock_ms' % Second) - (clock_ms % Second)) = 0
      /\ clock_ms + m >= Word =>
            m - (Second * k + (clock_ms' % Second) - (clock_ms % Second))
                \in {Word % Second, (Word % Second) - Second}
    BY <1>1, <1>2, <1>3, SecondsStep
<1>5. m < Word
    BY Words
<1>6. clock_ms' \in Count /\ (clock_ms' - clock_ms) % Word = m
    BY <1>1, <1>3, <1>5, CountsOn
<1>7. clock_s' \in Count /\ (clock_s' - clock_s) % Word = k
    BY <1>1, <1>3, <1>4, CountsOn
<1>8. clock_ms + m < Word \/ clock_ms + m >= Word
    BY <1>3, Words DEF Count
<1>9. clock_ms + m >= Word => ~(clock_ms + m < Word)
    BY <1>3, Words DEF Count
<1> QED
    BY <1>1, <1>4, <1>6, <1>7, <1>8, <1>9 DEF ClockType, KeepsUp

----------------------------------------------------------------------------
(* The locker.                                                             *)

Fields ==
    /\ ClockType
    /\ locked \in BOOLEAN
    /\ timer \in [start : Count, interval : Time \cup {0}, flags : Flags]
    /\ timer.flags \in Kind \cup {"TIMER_MS"}
    /\ answer \in [Owner -> Answer]
    /\ holder \in Owner \cup {Nobody}
    /\ age \in 0..MaxAge

\* A timer that shows v is no further than an owner's wait a by the clock c: the
\* seconds are by what is left of one, and of one more when the clock has wrapped.
Counts(flags, v, a, c) ==
    IF flags = "TIMER_MS" THEN v <= a
    ELSE Second * v + (c % Second) <=
            a + (Second - 1) + (IF a <= c THEN 0 ELSE Second - (Word % Second))

Value == (timer_tstamp(timer.flags) - timer.start) % Word

\* It is locked while there is a holder that nobody robbed, and the timer is no
\* further than that has waited.
IInv ==
    /\ Fields
    /\ locked <=> holder # Nobody /\ ~robbed
    /\ locked /\ age < MaxAge /\ age <= Word =>
            Counts(timer.flags, Value, age, clock_ms)

Stamp(flags, ms, s) == IF flags = "TIMER_MS" THEN ms ELSE s

LEMMA StampIs ==
    ASSUME ClockType, NEW flags \in Flags
    PROVE  timer_tstamp(flags) = Stamp(flags, clock_ms, clock_s) /\ timer_tstamp(flags) \in Count
BY DEF timer_tstamp, Stamp, Flags, clock_get_milis, clock_get_seconds, clock_get_chrono,
       ClockType

LEMMA StampNext ==
    ASSUME ClockType', NEW flags \in Flags
    PROVE  timer_tstamp(flags)' = Stamp(flags, clock_ms', clock_s')
BY DEF timer_tstamp, Stamp, Flags, clock_get_milis, clock_get_seconds, clock_get_chrono,
       ClockType

LEMMA BehindIs == Word % Second \in Int /\ 0 <= Word % Second /\ Word % Second < Second
BY Parts, Words

\* A timer that has just started.
LEMMA CountsAtStart ==
    ASSUME NEW flags, NEW a \in Nat, NEW c \in Count
    PROVE  Counts(flags, 0, a, c)
<1>1. c % Second \in Int /\ c % Second < Second
    BY Parts, Words DEF Count
<1>2. (IF a <= c THEN 0 ELSE Second - (Word % Second)) \in Int
      /\ (IF a <= c THEN 0 ELSE Second - (Word % Second)) >= 0
    BY BehindIs, Words
<1>3. Second * 0 = 0
    BY Words
<1> QED
    BY <1>1, <1>2, <1>3, Words DEF Counts

\* The owner waits m milliseconds more.
LEMMA CountsGoesOn ==
    ASSUME NEW flags \in Flags, NEW v \in Nat, NEW a \in Nat, NEW c \in Count,
           NEW w \in Nat, NEW m \in Nat, m + Second <= Word, a + m <= Word,
           NEW k, k = (((c % Second) + m) % Word) \div Second,
           NEW d, d = (c + m) % Word,
           w <= v + Stamp(flags, m, k),
           Counts(flags, v, a, c)
    PROVE  Counts(flags, w, a + m, d)
<1>1. CASE flags = "TIMER_MS"
  <2>1. v <= a /\ w <= v + m
      BY <1>1 DEF Counts, Stamp
  <2>2. w <= a + m
      BY <2>1
  <2> QED
      BY <1>1, <2>2 DEF Counts
<1>2. CASE flags # "TIMER_MS"
  <2> DEFINE behind == Word % Second
             e == m - (Second * k + (d % Second) - (c % Second))
             x == IF a <= c THEN 0 ELSE Second - behind
             y == IF a + m <= d THEN 0 ELSE Second - behind
  <2>1. /\ k \in Nat /\ c % Second \in Int /\ d % Second \in Int /\ Second * k \in Int
        /\ c + m < Word => e = 0
        /\ c + m >= Word => e \in {behind, behind - Second}
      BY SecondsStep
  <2>2. behind \in Int /\ 0 <= behind /\ behind < Second
      BY BehindIs
  <2>3. /\ c + m < Word => d = c + m
        /\ c + m >= Word => d = c + m - Word
        /\ c \in Nat /\ d \in Nat /\ d < Word /\ c < Word
    <3>1. m < Word
        BY Words
    <3>2. d = (IF c + m < Word THEN c + m ELSE c + m - Word) /\ d \in Count
        BY <3>1, CountsOn
    <3> QED
        BY <3>2, Words DEF Count
  <2> DEFINE R == c % Second
             Q == d % Second
             K == Second * k
             V == Second * v
             W == Second * w
  <2>4. w <= v + k
      BY <1>2 DEF Stamp
  <2>5. W <= V + K /\ V \in Int /\ W \in Int
    <3>1. Second * (v + k) = V + K /\ V \in Int /\ W \in Int
        BY <2>1, Words
    <3>2. Second * w <= Second * (v + k)
        BY <2>1, <2>4, Words
    <3> QED
        BY <2>1, <3>1, <3>2
  <2>6. V + R <= a + (Second - 1) + x
      BY <1>2 DEF Counts
  <2>7. e = m - (K + Q - R) /\ R \in Int /\ Q \in Int /\ K \in Int
      BY <2>1
  <2>8. x = (IF a <= c THEN 0 ELSE Second - behind) /\ y = IF a + m <= d THEN 0 ELSE Second - behind
      OBVIOUS
  <2>9. /\ c + m < Word => e = 0
        /\ c + m >= Word => e = behind \/ e = behind - Second
      BY <2>1
  <2> HIDE DEF e, x, y, behind, R, Q, K, V, W
  <2>10. x - e <= y /\ x \in Int /\ y \in Int /\ e \in Int
    <3>1. CASE c + m < Word
        BY <2>2, <2>3, <2>8, <2>9, <3>1, Words
    <3>2. CASE c + m >= Word
      <4>1. a <= c
          BY <2>3, <3>2, Words
      <4>2. ~(a + m <= d)
          BY <2>3, <3>2, Words
      <4> QED
          BY <2>2, <2>8, <2>9, <3>2, <4>1, <4>2, Words
    <3> QED
        BY <2>3, <3>1, <3>2, Words
  <2>11. W + Q <= (a + m) + (Second - 1) + y
      BY <2>5, <2>6, <2>7, <2>10, Words
  <2> QED
      BY <1>2, <2>11 DEF Counts, W, Q, y, behind
<1> QED
    BY <1>1, <1>2

\* A step by which the timer is started anew, or keeps counting for nobody.
LEMMA StartedAnew ==
    ASSUME IInv, Fields', UNCHANGED clock,
           timer'.flags \in Flags, timer'.start = timer_tstamp(timer'.flags)
    PROVE  Counts(timer.flags, Value, age, clock_ms)'
<1>1. clock_ms' = clock_ms /\ clock_s' = clock_s /\ ClockType /\ ClockType'
    BY DEF IInv, Fields, clock
<1> DEFINE now == Stamp(timer'.flags, clock_ms, clock_s)
<1>2. timer_tstamp(timer'.flags) = now /\ now \in Count
    BY <1>1, StampIs
<1>3. Value' = 0
  <2>1. Value' = (Stamp(timer'.flags, clock_ms', clock_s') - timer'.start) % Word
      BY <1>1 DEF Value, timer_tstamp, Stamp, Flags, clock_get_milis, clock_get_seconds,
                  clock_get_chrono, ClockType
  <2>2. timer'.start = now /\ Value' = (now - timer'.start) % Word
      BY <1>1, <1>2, <2>1
  <2> HIDE DEF now
  <2>3. (now - now) % Word = 0
      BY <1>2, Words, CountsOn
  <2> QED
      BY <2>2, <2>3
<1>4. age' \in Nat /\ clock_ms' \in Count
    BY <1>1, LockerAssumption DEF Fields, ClockType
<1>5. Counts(timer'.flags, 0, age', clock_ms')
    BY <1>4, CountsAtStart
<1> QED
    BY <1>3, <1>5

LEMMA LockStep ==
    ASSUME IInv, NEW o \in Owner, NEW flags \in Kind, NEW time \in Time,
           locker_lock(o, flags, time)
    PROVE  IInv'
<1>1. CASE UNCHANGED <<clock, locked, timer, answer, holder, robbed, age>>
  <2>1. /\ clock_ms' = clock_ms /\ clock_s' = clock_s /\ clock_chrono' = clock_chrono
        /\ locked' = locked /\ timer' = timer /\ answer' = answer /\ holder' = holder
        /\ robbed' = robbed /\ age' = age
      BY <1>1 DEF clock
  <2>2. Value' = Value
      BY <2>1 DEF Value, timer_tstamp, clock_get_milis, clock_get_seconds, clock_get_chrono
  <2> QED
      BY <2>1, <2>2 DEF IInv, Fields, ClockType
<1>2. CASE (\E status \in Answer : Taken(o, flags, time, status)) /\ UNCHANGED clock
  <2>1. flags \in Flags
      BY LockerAssumption
  <2>2. /\ timer' = timer_start(flags, time) /\ locked' = TRUE /\ holder' = o
        /\ robbed' = FALSE /\ age' = 0
        /\ \E status \in Answer : answer' = [answer EXCEPT ![o] = status]
      BY <1>2 DEF Taken
  <2>3. ClockType' /\ timer_tstamp(flags) \in Count
      BY <1>2, <2>1, StampIs DEF IInv, Fields, ClockType, clock
  <2>4. /\ timer'.start = timer_tstamp(flags) /\ timer'.flags = flags
        /\ timer' \in [start : Count, interval : Time \cup {0}, flags : Flags]
      BY <2>1, <2>2, <2>3 DEF timer_start
  <2>5. Fields'
      BY <2>2, <2>3, <2>4, LockerAssumption DEF IInv, Fields
  <2>6. Counts(timer.flags, Value, age, clock_ms)'
      BY <1>2, <2>1, <2>4, <2>5, StartedAnew
  <2>7. o # Nobody
      BY LockerAssumption
  <2> QED
      BY <2>2, <2>5, <2>6, <2>7 DEF IInv
<1> QED
    BY <1>1, <1>2 DEF locker_lock, Answer

LEMMA RestartStep ==
    ASSUME IInv, NEW o \in Owner, locker_restart(o)
    PROVE  IInv'
<1>1. /\ timer' = timer_restart(timer) /\ age' \in {0, age}
      /\ UNCHANGED <<clock, locked, answer, holder, robbed>>
    BY DEF locker_restart
<1>2. timer \in [start : Count, interval : Time \cup {0}, flags : Flags]
    BY DEF IInv, Fields
<1>3. timer.flags \in Flags
    BY <1>2
<1>4. ClockType' /\ timer_tstamp(timer.flags) \in Count
    BY <1>1, <1>3, StampIs DEF IInv, Fields, ClockType, clock
<1>5. /\ timer'.start = timer_tstamp(timer.flags) /\ timer'.flags = timer.flags
      /\ timer' \in [start : Count, interval : Time \cup {0}, flags : Flags]
    BY <1>1, <1>2, <1>4 DEF timer_restart
<1>6. Fields'
    BY <1>1, <1>4, <1>5, LockerAssumption DEF IInv, Fields
<1>7. Counts(timer.flags, Value, age, clock_ms)'
    BY <1>1, <1>3, <1>5, <1>6, StartedAnew
<1> QED
    BY <1>1, <1>6, <1>7 DEF IInv

\* The lock is released, by whom it may be.
LEMMA ReleaseStep ==
    ASSUME IInv, locker_clean \/ \E o \in Owner : locker_release(o)
    PROVE  IInv'
<1>1. CASE locker_clean
  <2>1. /\ locked' = FALSE /\ holder' = Nobody /\ UNCHANGED <<clock, timer, answer, age>>
      BY <1>1 DEF locker_clean
  <2> QED
      BY <2>1 DEF IInv, Fields, ClockType, clock
<1>2. ASSUME NEW o \in Owner, locker_release(o)
      PROVE  IInv'
  <2>1. /\ locked' = FALSE /\ UNCHANGED <<clock, timer, age>>
        /\ answer' = [answer EXCEPT ![o] = "LOCK_FAIL"]
        /\ holder' = IF o = holder THEN Nobody ELSE holder
        /\ robbed' = (holder # Nobody /\ o # holder)
      BY <1>2 DEF locker_release
  <2>2. Fields'
      BY <2>1 DEF IInv, Fields, ClockType, clock, Answer
  <2>3. ~(holder' # Nobody /\ ~robbed')
      BY <2>1
  <2> QED
      BY <2>1, <2>2, <2>3 DEF IInv
<1> QED
    BY <1>1, <1>2

LEMMA LockerTickStep ==
    ASSUME ShortSteps, IInv, NEW m \in 1..MaxStep, Tick(m)
    PROVE  IInv'
<1>1. /\ clock_update(m, 0) /\ UNCHANGED <<locked, timer, answer, holder, robbed>>
      /\ age' = IF holder = Nobody \/ age + m > MaxAge THEN MaxAge ELSE age + m
    BY DEF Tick
<1>2. m \in Nat /\ m + Second <= Word /\ m < Word /\ MaxAge \in Nat /\ age \in Nat
    BY Words, LockerAssumption DEF ShortSteps, IInv, Fields
<1>3. ClockType /\ ClockType'
    BY <1>1, <1>2, UpdateKeeps DEF IInv, Fields
<1>4. age' \in 0..MaxAge
    BY <1>1, <1>2
<1>5. Fields'
    BY <1>1, <1>3, <1>4 DEF IInv, Fields
<1>6. ASSUME locked', age' < MaxAge, age' <= Word
      PROVE  Counts(timer.flags, Value, age, clock_ms)'
  <2> DEFINE flags == timer.flags
             k == (((clock_ms % Second) + m) % Word) \div Second
             b == timer.start
             c == Stamp(flags, clock_ms, clock_s)
             n == Stamp(flags, m, k)
  <2>1. flags \in Flags /\ b \in Count /\ clock_ms \in Count /\ clock_s \in Count
      BY <1>3 DEF IInv, Fields, ClockType
  <2>2. /\ age' = age + m /\ age + m <= Word /\ age < MaxAge /\ age <= Word /\ locked
    <3>1. locked /\ holder # Nobody
        BY <1>1, <1>6 DEF IInv
    <3>2. age' = IF age + m > MaxAge THEN MaxAge ELSE age + m
        BY <1>1, <3>1
    <3> QED
        BY <1>2, <1>6, <3>1, <3>2, Words
  <2>3. Counts(flags, Value, age, clock_ms)
      BY <2>2 DEF IInv
  <2>4. clock_ms' = (clock_ms + m) % Word /\ clock_s' = (clock_s + k) % Word
      BY <1>1 DEF clock_update
  <2>5. k = (((clock_ms % Second) + m) % Word) \div Second
      OBVIOUS
  <2> HIDE DEF k
  <2>6. k \in Nat /\ k < Word
      BY <1>2, <2>1, <2>4, <2>5, SecondsStep
  <2>7. c \in Count /\ n \in Nat /\ n < Word
      BY <1>2, <2>1, <2>6 DEF Stamp
  <2>8. Stamp(flags, clock_ms', clock_s') = (c + n) % Word
      BY <2>4 DEF Stamp
  <2>9. Value = (c - b) % Word
      BY <1>3, <2>1, StampIs DEF Value
  <2>10. Value' = (((c + n) % Word) - b) % Word
      BY <1>1, <1>3, <2>1, <2>8, StampNext DEF Value
  <2> HIDE DEF c, n
  <2>11. /\ Value \in Count /\ Value' <= Value + n
         /\ (c + n) % Word \in Count
      BY <2>1, <2>7, <2>9, <2>10, CountsOn
  <2>12. Value' \in Count
      BY <2>1, <2>10, <2>11, Words, CountsOn
  <2>13. Value \in Nat /\ Value' \in Nat
      BY <2>11, <2>12 DEF Count
  <2>14. Value' <= Value + Stamp(flags, m, k)
      BY <2>11 DEF n
  <2>15. Counts(flags, Value', age + m, clock_ms')
      BY <1>2, <2>1, <2>2, <2>3, <2>4, <2>5, <2>13, <2>14, CountsGoesOn
  <2> QED
      BY <1>1, <2>2, <2>15
<1>7. locked' <=> holder' # Nobody /\ ~robbed'
    BY <1>1 DEF IInv
<1>8. (locked /\ age < MaxAge /\ age <= Word => Counts(timer.flags, Value, age, clock_ms))'
    BY <1>6
<1> QED
    BY <1>5, <1>7, <1>8 DEF IInv

LEMMA Initially ==
    Init => IInv
<1> SUFFICES ASSUME Init PROVE IInv
    OBVIOUS
<1>1. timer \in [start : Count, interval : Time \cup {0}, flags : Flags]
    BY Words DEF Init, timer_stop, Count, Flags
<1>2. ClockType
    BY Words DEF Init, InitClock, ClockType, Count
<1>3. answer \in [Owner -> Answer] /\ age \in 0..MaxAge
    BY LockerAssumption DEF Init, Answer
<1>4. /\ locked \in BOOLEAN /\ holder \in Owner \cup {Nobody}
      /\ timer.flags \in Kind \cup {"TIMER_MS"}
    BY DEF Init, timer_stop
<1>5. Fields
    BY <1>1, <1>2, <1>3, <1>4 DEF Fields
<1> QED
    BY <1>5 DEF Init, IInv

LEMMA StepKeeps ==
    ShortSteps /\ IInv /\ [Next]_vars => IInv'
<1> SUFFICES ASSUME ShortSteps, IInv, [Next]_vars PROVE IInv'
    OBVIOUS
<1>1. ASSUME NEW o \in Owner, NEW flags \in Kind, NEW time \in Time,
             locker_lock(o, flags, time)
      PROVE  IInv'
    BY <1>1, LockStep
<1>2. ASSUME NEW o \in Owner, locker_restart(o)
      PROVE  IInv'
    BY <1>2, RestartStep
<1>3. CASE locker_clean \/ \E o \in Owner : locker_release(o)
    BY <1>3, ReleaseStep
<1>4. ASSUME NEW m \in 1..MaxStep, Tick(m)
      PROVE  IInv'
    BY <1>4, LockerTickStep
<1>5. CASE UNCHANGED vars \/ \E o \in Owner : Die(o)
  <2>1. /\ clock_ms' = clock_ms /\ clock_s' = clock_s /\ clock_chrono' = clock_chrono
        /\ locked' = locked /\ timer' = timer /\ answer' = answer /\ holder' = holder
        /\ robbed' = robbed /\ age' = age
      BY <1>5 DEF clock, vars, Die
  <2>2. Value' = Value
      BY <2>1 DEF Value, timer_tstamp, clock_get_milis, clock_get_seconds, clock_get_chrono
  <2> QED
      BY <2>1, <2>2 DEF IInv, Fields, ClockType
<1> QED
    BY <1>1, <1>2, <1>3, <1>4, <1>5 DEF Next

\* The holder and the lock agree, and a timer is never further than its owner has
\* waited, but for what the seconds gain when the clock wraps.
THEOREM IInvHolds ==
    ShortSteps => (Spec => []IInv)
<1> SUFFICES ASSUME ShortSteps PROVE Spec => []IInv
    OBVIOUS
<1>1. IInv /\ [Next]_vars => IInv'
    BY StepKeeps
<1> QED
    BY Initially, <1>1, PTL DEF Spec

SecondsDrift == [][KeepsUp]_clock

\* timer.c: however the time is portioned into calls of clock_update, the seconds
\* drift from the milliseconds only when these wrap, each time by 296 ms behind or
\* 704 ms ahead with 32 bits.  (The comment at timer.c:19 has 295 ms behind.)
THEOREM SecondsKeepUp ==
    ShortSteps => (Spec => SecondsDrift)
<1> SUFFICES ASSUME ShortSteps PROVE Spec => SecondsDrift
    OBVIOUS
<1>1. ASSUME IInv, [Next]_vars
      PROVE  [KeepsUp]_clock
  <2>1. ASSUME NEW m \in 1..MaxStep, Tick(m)
        PROVE  KeepsUp
    <3>1. clock_update(m, 0)
        BY <2>1 DEF Tick
    <3>2. m \in Nat /\ m + Second <= Word
        BY Words, LockerAssumption DEF ShortSteps
    <3> QED
        BY <1>1, <3>1, <3>2, UpdateKeeps DEF IInv, Fields
  <2>2. ASSUME ~ \E m \in 1..MaxStep : Tick(m)
        PROVE  UNCHANGED clock
      BY <1>1, <2>2 DEF Next, vars, locker_lock, locker_restart, locker_release, locker_clean,
                        Die
  <2> QED
      BY <2>1, <2>2
<1>2. Spec => [][KeepsUp]_clock
    BY <1>1, IInvHolds, PTL DEF Spec
<1> QED
    BY <1>2 DEF SecondsDrift

\* The timer of a lock that another one takes over.
LEMMA ExpiredIsLate ==
    ASSUME ShortTimes, IInv, locked, timer_expired(timer)
    PROVE  Late
<1> DEFINE i == timer.interval
           v == Value
<1>1. i # 0 /\ v >= i
    BY DEF timer_expired, timer_value, Value
<1>2. i \in Time /\ timer.flags \in Flags /\ timer.start \in Count /\ ClockType
      /\ clock_ms \in Count /\ age \in Nat /\ age <= MaxAge /\ MaxAge \in Nat
    BY <1>1, LockerAssumption DEF IInv, Fields, ClockType
<1>3. i \in Nat /\ i > 0 /\ i < Word
  <2>1. i \in Count /\ i # 0
      BY <1>1, <1>2, LockerAssumption
  <2> HIDE DEF i
  <2> QED
      BY <2>1, Words DEF Count
<1>4. timer_tstamp(timer.flags) \in Count
    BY <1>2, StampIs
<1>5. v \in Nat
    BY <1>2, <1>4, Words, CountsOn DEF Value, Count
<1>6. /\ i * Second <= MaxAge
      /\ timer.flags # "TIMER_MS" => (i - 1) * Second <= Word + (Second - (Word % Second))
    BY <1>2 DEF ShortTimes, IInv, Fields
<1>7. age < MaxAge /\ age <= Word => Counts(timer.flags, v, age, clock_ms)
    BY DEF IInv
<1> DEFINE lead == Second - (Word % Second)
<1>8. lead \in Int /\ lead > 0
    BY BehindIs, Words
<1>9. (i - 1) * Second = i * Second - Second /\ i * Second \in Int /\ i * Second >= i
  <2>1. i * Second >= i * 1
      BY <1>3, Words
  <2> QED
      BY <1>3, <2>1, Words
<1>10. CASE age = MaxAge \/ age > Word
  <2>1. age >= i
      BY <1>2, <1>3, <1>6, <1>9, <1>10, Words
  <2>2. ASSUME timer.flags # "TIMER_MS"
        PROVE  age > (i - 1) * Second - lead
    <3> HIDE DEF i, lead
    <3>1. (i - 1) * Second \in Int
        BY <1>3, Words
    <3>2. (i - 1) * Second <= Word + lead
        BY <1>6, <2>2 DEF lead
    <3>3. age = MaxAge \/ age > Word
        BY <1>10
    <3> QED
        BY <1>2, <1>3, <1>6, <1>8, <1>9, <3>1, <3>2, <3>3, Words
  <2> QED
      BY <2>1, <2>2 DEF Late
<1>11. CASE age < MaxAge /\ age <= Word
  <2>1. Counts(timer.flags, v, age, clock_ms)
      BY <1>7, <1>11
  <2>2. CASE timer.flags = "TIMER_MS"
    <3>1. v <= age
        BY <2>1, <2>2 DEF Counts
    <3>2. age >= i
        BY <1>1, <1>2, <1>3, <1>5, <3>1
    <3> QED
        BY <2>2, <3>2 DEF Late
  <2>3. CASE timer.flags # "TIMER_MS"
    <3> DEFINE x == IF age <= clock_ms THEN 0 ELSE lead
    <3>1. Second * v + (clock_ms % Second) <= age + (Second - 1) + x
        BY <2>1, <2>3 DEF Counts
    <3>2. x \in Int /\ x <= lead
        BY <1>8
    <3>3. clock_ms % Second \in Int /\ 0 <= clock_ms % Second
        BY <1>2, Parts, Words DEF Count
    <3> HIDE DEF i, v, lead, x
    <3>4. Second * v \in Int /\ Second * v >= i * Second
        BY <1>1, <1>3, <1>5, Words
    <3>5. age > (i - 1) * Second - lead
        BY <1>2, <1>8, <1>9, <3>1, <3>2, <3>3, <3>4, Words
    <3> QED
        BY <2>3, <3>5 DEF Late, i, lead
  <2> QED
      BY <2>2, <2>3
<1> QED
    BY <1>2, <1>10, <1>11, Words

\* lock.c: who has locked it keeps it until it releases it, its time is over or one
\* that is late itself releases it, and who takes it over is told so; also when the
\* clock wraps and when the late restart a lock that is not theirs any more.
THEOREM LosersAreLate ==
    ShortSteps /\ ShortTimes => (Spec => OnlyTheLateLose)
<1> SUFFICES ASSUME ShortSteps, ShortTimes PROVE Spec => OnlyTheLateLose
    OBVIOUS
<1> DEFINE Loses ==
        holder' \notin {holder, Nobody} =>
            IF holder = Nobody \/ robbed THEN answer'[holder'] = "LOCK_SUCCESS"
            ELSE /\ locker_is_expired /\ Late
                 /\ answer'[holder'] = "LOCK_INTERCEPTED"
<1>1. ASSUME IInv, [Next]_vars
      PROVE  Loses
  <2> SUFFICES ASSUME holder' \notin {holder, Nobody}
               PROVE  IF holder = Nobody \/ robbed THEN answer'[holder'] = "LOCK_SUCCESS"
                      ELSE /\ locker_is_expired /\ Late
                           /\ answer'[holder'] = "LOCK_INTERCEPTED"
      OBVIOUS
  <2>1. PICK o \in Owner, flags \in Kind, time \in Time : locker_lock(o, flags, time)
      BY <1>1 DEF Next, vars, locker_restart, locker_release, locker_clean, Die, Tick
  <2>2. locked <=> holder # Nobody /\ ~robbed
      BY <1>1 DEF IInv
  <2>3. answer \in [Owner -> Answer]
      BY <1>1 DEF IInv, Fields
  <2>4. CASE ~locked /\ Taken(o, flags, time, "LOCK_SUCCESS")
      BY <2>2, <2>3, <2>4 DEF Taken
  <2>5. CASE locked /\ timer_expired(timer) /\ Taken(o, flags, time, "LOCK_INTERCEPTED")
    <3>1. Late /\ locker_is_expired
        BY <1>1, <2>5, ExpiredIsLate DEF locker_is_expired
    <3> QED
        BY <2>2, <2>3, <2>5, <3>1 DEF Taken
  <2> QED
      BY <2>1, <2>4, <2>5 DEF locker_lock
<1> HIDE DEF Loses
<1>2. Spec => [][Loses]_vars
    BY <1>1, IInvHolds, PTL DEF Spec
<1> QED
    BY <1>2 DEF OnlyTheLateLose, Loses

===============================================================================
