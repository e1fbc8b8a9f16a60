--------------------------- MODULE SchedulerProofs ---------------------------
(***************************************************************************)
(* Proofs about the process scheduler: types and message accounting, the   *)
(* process list under re-entrant changes, and what its loops owe.          *)
(*                                                                         *)
(* The list of processes is a function n (the next fields) and a head.     *)
(* What a walk reaches is the smallest set that holds its first process    *)
(* and is closed under n; every fact about start and unlink is shown by    *)
(* naming a closed set.                                                    *)
(***************************************************************************)
EXTENDS Scheduler, SequenceTheorems, FiniteSetTheorems, TLAPS

Maybe == Proc \cup {NoProc}

ClosedIn(n, S) == \A q \in S : n[q] # NoProc => n[q] \in S

Reach(n, x) ==
    {q \in Proc : \A S \in SUBSET Proc :
                    ClosedIn(n, S) /\ (x # NoProc => x \in S) => q \in S}

Acyclic(n) == \A p \in Proc : p \notin Reach(n, n[p])

\* n with p put in front of h.
Link(n, m, p, h) == m[p] = h /\ \A q \in Proc : q # p => m[q] = n[q]

\* n with p taken out, at all or at some of the places where it is linked.
Bypass(n, m, p) == \A q \in Proc : m[q] = n[q] \/ (n[q] = p /\ m[q] = n[p])

----------------------------------------------------------------------------
(* What a walk reaches.                                                    *)

\* A walk follows the next fields, starts at its first process and stays
\* inside every closed set that it starts in.
LEMMA ReachBasics ==
    ASSUME NEW n \in [Proc -> Maybe], NEW x \in Maybe
    PROVE  /\ Reach(n, x) \in SUBSET Proc
           /\ ClosedIn(n, Reach(n, x))
           /\ x # NoProc => x \in Reach(n, x)
           /\ x = NoProc => Reach(n, x) = {}
           /\ \A S \in SUBSET Proc :
                ClosedIn(n, S) /\ (x # NoProc => x \in S) => Reach(n, x) \subseteq S
<1>1. \A S \in SUBSET Proc :
        ClosedIn(n, S) /\ (x # NoProc => x \in S) => Reach(n, x) \subseteq S
    BY DEF Reach
<1>2. Reach(n, x) \in SUBSET Proc
    BY DEF Reach
<1>3. ClosedIn(n, Reach(n, x))
  <2> SUFFICES ASSUME NEW q \in Reach(n, x), n[q] # NoProc
               PROVE  n[q] \in Reach(n, x)
      BY DEF ClosedIn
  <2>1. q \in Proc /\ n[q] \in Proc
      BY <1>2 DEF Maybe
  <2>2. \A S \in SUBSET Proc : ClosedIn(n, S) /\ (x # NoProc => x \in S) => q \in S
      BY DEF Reach
  <2>3. \A S \in SUBSET Proc : ClosedIn(n, S) /\ (x # NoProc => x \in S) => n[q] \in S
      BY <2>2 DEF ClosedIn
  <2> QED
      BY <2>1, <2>3 DEF Reach
<1>4. x # NoProc => x \in Reach(n, x)
    BY DEF Reach, Maybe
<1>5. x = NoProc => Reach(n, x) = {}
  <2>1. {} \in SUBSET Proc /\ ClosedIn(n, {})
      BY DEF ClosedIn
  <2> QED
      BY <1>1, <2>1
<1> QED
    BY <1>1, <1>2, <1>3, <1>4, <1>5

\* A process reached on the way reaches no more.
LEMMA ReachTransitive ==
    ASSUME NEW n \in [Proc -> Maybe], NEW x \in Maybe, NEW q \in Reach(n, x)
    PROVE  /\ Reach(n, q) \subseteq Reach(n, x)
           /\ Reach(n, n[q]) \subseteq Reach(n, x)
<1>1. q \in Proc /\ n[q] \in Maybe /\ ClosedIn(n, Reach(n, x)) /\ Reach(n, x) \in SUBSET Proc
    BY ReachBasics
<1>2. n[q] # NoProc => n[q] \in Reach(n, x)
    BY <1>1 DEF ClosedIn
<1>3. q \in Maybe
    BY <1>1 DEF Maybe
<1>4. Reach(n, q) \subseteq Reach(n, x)
    BY <1>1, <1>3, ReachBasics
<1>5. Reach(n, n[q]) \subseteq Reach(n, x)
    BY <1>1, <1>2, ReachBasics
<1> QED
    BY <1>4, <1>5

\* The first process, and what its next field reaches.
LEMMA ReachStep ==
    ASSUME NEW n \in [Proc -> Maybe], NEW p \in Proc
    PROVE  Reach(n, p) = {p} \cup Reach(n, n[p])
<1> DEFINE T == {p} \cup Reach(n, n[p])
<1>1. p \in Maybe /\ n[p] \in Maybe
    BY DEF Maybe
<1>2. /\ Reach(n, n[p]) \in SUBSET Proc
      /\ ClosedIn(n, Reach(n, n[p]))
      /\ n[p] # NoProc => n[p] \in Reach(n, n[p])
    BY <1>1, ReachBasics
<1>3. T \in SUBSET Proc /\ ClosedIn(n, T) /\ p \in T
    BY <1>2 DEF ClosedIn
<1>4. Reach(n, p) \subseteq T
    BY <1>1, <1>3, ReachBasics
<1>5. p \in Reach(n, p)
    BY <1>1, ReachBasics, SchedulerAssumption
<1>6. Reach(n, n[p]) \subseteq Reach(n, p)
    BY <1>1, <1>5, ReachTransitive
<1> QED
    BY <1>4, <1>5, <1>6

----------------------------------------------------------------------------
(* Start: p, which is not reached from h, is put in front of h.            *)

\* A walk that does not come to p is as it was; one that does may go on to
\* h, and still comes past every process it came past that h reaches.
LEMMA StartReach ==
    ASSUME NEW n \in [Proc -> Maybe], NEW h \in Maybe,
           NEW p \in Proc, p \notin Reach(n, h),
           NEW m \in [Proc -> Maybe], Link(n, m, p, h), NEW x \in Maybe
    PROVE  /\ p \notin Reach(n, x) => Reach(m, x) = Reach(n, x)
           /\ p \notin Reach(m, x) => Reach(m, x) = Reach(n, x)
           /\ Reach(m, x) \subseteq Reach(n, x) \cup Reach(n, h)
           /\ Reach(m, h) = Reach(n, h)
           /\ Reach(n, x) \cap Reach(n, h) \subseteq Reach(m, x)
<1>1. /\ m[p] = h
      /\ \A q \in Proc : q # p => m[q] = n[q]
    BY DEF Link
<1>2. ASSUME NEW y \in Maybe, p \notin Reach(n, y)
      PROVE  Reach(m, y) \subseteq Reach(n, y)
  <2>1. /\ Reach(n, y) \in SUBSET Proc
        /\ ClosedIn(n, Reach(n, y))
        /\ y # NoProc => y \in Reach(n, y)
      BY ReachBasics
  <2>2. ClosedIn(m, Reach(n, y))
      BY <1>1, <1>2, <2>1 DEF ClosedIn
  <2> QED
      BY <1>1, <2>1, <2>2, ReachBasics
<1>3. ASSUME NEW y \in Maybe, p \notin Reach(m, y)
      PROVE  Reach(n, y) \subseteq Reach(m, y)
  <2>1. /\ Reach(m, y) \in SUBSET Proc
        /\ ClosedIn(m, Reach(m, y))
        /\ y # NoProc => y \in Reach(m, y)
      BY <1>1, ReachBasics
  <2>2. ClosedIn(n, Reach(m, y))
      BY <1>1, <1>3, <2>1 DEF ClosedIn
  <2> QED
      BY <2>1, <2>2, ReachBasics
<1>4. ASSUME NEW y \in Maybe
      PROVE  /\ p \notin Reach(n, y) => Reach(m, y) = Reach(n, y)
             /\ p \notin Reach(m, y) => Reach(m, y) = Reach(n, y)
    BY <1>2, <1>3, <1>4
<1>5. Reach(m, h) = Reach(n, h)
    BY <1>4
<1>6. Reach(m, x) \subseteq Reach(n, x) \cup Reach(n, h)
  <2> DEFINE T == Reach(n, x) \cup Reach(n, h)
  <2>1. /\ T \in SUBSET Proc
        /\ ClosedIn(n, T)
        /\ h # NoProc => h \in T
        /\ x # NoProc => x \in T
      BY ReachBasics DEF ClosedIn
  <2> HIDE DEF T
  <2>2. ClosedIn(m, T)
      BY <1>1, <2>1 DEF ClosedIn
  <2>3. Reach(m, x) \subseteq T
      BY <1>1, <2>1, <2>2, ReachBasics
  <2> QED
      BY <2>3 DEF T
<1>7. Reach(n, x) \cap Reach(n, h) \subseteq Reach(m, x)
  <2>1. CASE p \notin Reach(m, x)
      BY <2>1, <1>4
  <2>2. CASE p \in Reach(m, x)
      BY <2>2, <1>1, <1>5, ReachTransitive
  <2> QED
      BY <2>1, <2>2
<1> QED
    BY <1>1, <1>4, <1>5, <1>6, <1>7

\* Starting a process makes no ring.
LEMMA StartAcyclic ==
    ASSUME NEW n \in [Proc -> Maybe], NEW h \in Maybe, Acyclic(n),
           NEW p \in Proc, p \notin Reach(n, h),
           NEW m \in [Proc -> Maybe], Link(n, m, p, h)
    PROVE  Acyclic(m)
<1>1. SUFFICES ASSUME NEW r \in Proc, r \in Reach(m, m[r])
               PROVE  FALSE
    BY DEF Acyclic
<1>2. /\ m[p] = h
      /\ n[r] \in Maybe
      /\ r # p => m[r] = n[r]
    BY DEF Link
<1>3. CASE r = p
    BY <1>1, <1>2, <1>3, StartReach
<1>4. CASE r # p
  <2>1. /\ r \in Reach(m, n[r])
        /\ r \notin Reach(n, n[r])
      BY <1>1, <1>2, <1>4 DEF Acyclic
  <2>2. r \in Reach(n, h)
      BY <1>2, <2>1, StartReach
  <2>3. Reach(n, n[r]) \subseteq Reach(n, h)
      BY <2>2, ReachTransitive
  <2>4. Reach(m, n[r]) = Reach(n, n[r])
      BY <1>2, <2>3, StartReach
  <2> QED
      BY <2>1, <2>4
<1> QED
    BY <1>3, <1>4

----------------------------------------------------------------------------
(* Unlink.                                                                 *)

\* A walk that starts at x, or behind p if it would start at p, misses
\* nothing but p, and comes past nothing new.
LEMMA UnlinkReach ==
    ASSUME NEW n \in [Proc -> Maybe], Acyclic(n), NEW p \in Proc,
           NEW m \in [Proc -> Maybe], Bypass(n, m, p),
           NEW x \in Maybe, NEW y \in Maybe, y = x \/ (x = p /\ y = n[p])
    PROVE  /\ Reach(m, y) \subseteq Reach(n, x)
           /\ Reach(n, x) \ {p} \subseteq Reach(m, y)
<1>1. n[p] \in Maybe /\ p \notin Reach(n, n[p]) /\ n[p] # p /\ p # NoProc
    BY ReachBasics, SchedulerAssumption DEF Acyclic
<1>2. m[p] = n[p]
    BY <1>1 DEF Bypass
<1>3. ASSUME NEW z \in Maybe
      PROVE  Reach(m, z) \subseteq Reach(n, z)
  <2>1. /\ Reach(n, z) \in SUBSET Proc
        /\ ClosedIn(n, Reach(n, z))
        /\ z # NoProc => z \in Reach(n, z)
      BY ReachBasics
  <2>2. ClosedIn(m, Reach(n, z))
    <3> SUFFICES ASSUME NEW q \in Reach(n, z), m[q] # NoProc
                 PROVE  m[q] \in Reach(n, z)
        BY DEF ClosedIn
    <3>1. CASE m[q] = n[q]
        BY <2>1, <3>1 DEF ClosedIn
    <3>2. CASE n[q] = p /\ m[q] = n[p]
        BY <1>1, <2>1, <3>2 DEF ClosedIn
    <3> QED
        BY <2>1, <3>1, <3>2 DEF Bypass
  <2> QED
      BY <2>1, <2>2, ReachBasics
<1>4. ASSUME NEW z \in Maybe
      PROVE  Reach(n, z) \ {p} \subseteq Reach(m, z)
  <2>1. /\ Reach(m, z) \in SUBSET Proc
        /\ ClosedIn(m, Reach(m, z))
        /\ z # NoProc => z \in Reach(m, z)
      BY ReachBasics
  <2>2. CASE n[p] # NoProc => n[p] \in Reach(m, z)
    <3> DEFINE T == Reach(m, z) \cup {p}
    <3>1. T \in SUBSET Proc /\ (z # NoProc => z \in T)
        BY <2>1
    <3>2. ClosedIn(n, T)
      <4> SUFFICES ASSUME NEW q \in T, n[q] # NoProc
                   PROVE  n[q] \in T
          BY DEF ClosedIn
      <4>1. CASE q = p
          BY <2>2, <4>1
      <4>2. CASE q # p
        <5>1. q \in Reach(m, z) /\ q \in Proc
            BY <4>2, <2>1
        <5>2. n[q] = m[q] \/ n[q] = p
            BY <5>1 DEF Bypass
        <5> QED
            BY <2>1, <5>1, <5>2 DEF ClosedIn
      <4> QED
          BY <4>1, <4>2
    <3>3. Reach(n, z) \subseteq T
        BY <3>1, <3>2, ReachBasics
    <3> QED
        BY <3>3
  <2>3. CASE n[p] # NoProc /\ n[p] \notin Reach(m, z)
    <3>1. p \notin Reach(m, z)
        BY <1>2, <2>1, <2>3 DEF ClosedIn
    <3>2. ClosedIn(n, Reach(m, z))
      <4> SUFFICES ASSUME NEW q \in Reach(m, z), n[q] # NoProc
                   PROVE  n[q] \in Reach(m, z)
          BY DEF ClosedIn
      <4>1. q \in Proc
          BY <2>1
      <4>2. CASE m[q] = n[q]
          BY <2>1, <4>2 DEF ClosedIn
      <4>3. CASE n[q] = p /\ m[q] = n[p]
          BY <2>1, <2>3, <4>3 DEF ClosedIn
      <4> QED
          BY <4>1, <4>2, <4>3 DEF Bypass
    <3>3. Reach(n, z) \subseteq Reach(m, z)
        BY <2>1, <3>2, ReachBasics
    <3> QED
        BY <3>3
  <2> QED
      BY <2>2, <2>3
<1>5. CASE y = x
    BY <1>3, <1>4, <1>5
<1>6. CASE x = p /\ y = n[p]
  <2>1. Reach(n, p) = {p} \cup Reach(n, n[p])
      BY ReachStep
  <2>2. /\ Reach(m, n[p]) \subseteq Reach(n, n[p])
        /\ Reach(n, n[p]) \ {p} \subseteq Reach(m, n[p])
      BY <1>1, <1>3, <1>4
  <2> QED
      BY <2>1, <2>2, <1>6
<1> QED
    BY <1>5, <1>6

\* Unlinking a process makes no ring.
LEMMA UnlinkAcyclic ==
    ASSUME NEW n \in [Proc -> Maybe], Acyclic(n), NEW p \in Proc,
           NEW m \in [Proc -> Maybe], Bypass(n, m, p)
    PROVE  Acyclic(m)
<1> SUFFICES ASSUME NEW r \in Proc PROVE r \notin Reach(m, m[r])
    BY DEF Acyclic
<1>1. n[r] \in Maybe /\ m[r] \in Maybe /\ r \notin Reach(n, n[r])
    BY DEF Acyclic
<1>2. CASE m[r] = n[r]
    BY <1>1, <1>2, UnlinkReach
<1>3. CASE n[r] = p /\ m[r] = n[p]
    BY <1>1, <1>3, UnlinkReach
<1> QED
    BY <1>2, <1>3 DEF Bypass
----------------------------------------------------------------------------
(* The stack.                                                              *)

Bottom == {"run", "bcast", "bcast_call", "deliver"}
Exiting == {"finish", "exit"}

\* scheduler_run is outermost and its polls come next; activations and exits
\* are of a process, and a broadcast that polls has one to call.
FrameSound(s, i) ==
    /\ s[i].op \in Bottom => i = 1
    /\ s[i].op = "poll" => i = 2 /\ s[1].op \in {"run", "bcast_call"}
    /\ s[i].op \in Activation \cup Exiting => s[i].proc \in Proc
    /\ s[i].op = "bcast_call" => s[i].at \in Proc

Sound(s) == s \in Seq(Frame) /\ \A i \in 1..Len(s) : FrameSound(s, i)

Delivering(s) == IF s # <<>> /\ s[1].op \in {"deliver", "bcast", "bcast_call"}
                 THEN 1 ELSE 0

\* Two stacks that differ in what is counted or recorded only.
Alike(f, g) ==
    /\ f.op = g.op /\ f.proc = g.proc /\ f.at = g.at
    /\ f.caller = g.caller /\ f.self = g.self
    /\ g.owed \subseteq f.owed

Kin(s, t) ==
    /\ t \in Seq(Frame)
    /\ Len(t) = Len(s)
    /\ \A i \in 1..Len(s) : Alike(s[i], t[i])

\* The fields of a frame that an operation may change keep it a frame.
LEMMA FrameFields ==
    ASSUME NEW f \in Frame
    PROVE  /\ f.calls > 0 => [f EXCEPT !.calls = @ - 1] \in Frame
           /\ \A p \in Maybe : /\ [f EXCEPT !.owed = @ \ {p}] \in Frame
                              /\ [f EXCEPT !.at = p, !.owed = @ \ {p}] \in Frame
           /\ \A S \in SUBSET Proc : [f EXCEPT !.owed = S] \in Frame
           /\ \A S \in SUBSET Proc, b \in BOOLEAN :
                    [f EXCEPT !.self = b, !.owed = S] \in Frame
           /\ \A op \in Op, p \in Maybe :
                    /\ [f EXCEPT !.op = op, !.at = p] \in Frame
                    /\ [f EXCEPT !.op = op, !.owed = @ \ {p}] \in Frame
<1>1. Frame = [op : Op, proc : Maybe, ev : Event, at : Maybe, caller : Maybe,
               self : BOOLEAN, calls : 0..MaxCalls, owed : SUBSET Proc]
    BY DEF Frame, Maybe
<1>2. f.calls > 0 => f.calls - 1 \in 0..MaxCalls
    BY <1>1, SchedulerAssumption
<1>3. \A p \in Maybe : f.owed \ {p} \in SUBSET Proc
    BY <1>1
<1> QED
    BY <1>1, <1>2, <1>3

\* The stack below the innermost frame.
LEMMA FrontOfStack ==
    ASSUME NEW s \in Seq(Frame), s # <<>>
    PROVE  /\ Len(s) \in Nat \ {0}
           /\ Front(s) \in Seq(Frame)
           /\ Len(Front(s)) = Len(s) - 1
           /\ \A i \in 1..(Len(s) - 1) : Front(s)[i] = s[i]
           /\ Last(s) = s[Len(s)]
           /\ Last(s) \in Frame
<1>1. Len(s) \in Nat /\ Len(s) # 0
    BY EmptySeq, LenProperties
<1>2. \A i \in 1..(Len(s) - 1) : s[i] \in Frame
    BY <1>1, ElementOfSeq
<1>3. /\ SubSeq(s, 1, Len(s) - 1) \in Seq(Frame)
      /\ Len(SubSeq(s, 1, Len(s) - 1)) = Len(s) - 1
      /\ \A i \in 1..(Len(s) - 1) : SubSeq(s, 1, Len(s) - 1)[i] = s[i]
  <2> DEFINE n == Len(s) - 1
  <2>1. n \in Nat /\ n = n - 1 + 1
      BY <1>1
  <2>2. n = 0 \/ 1 <= n
      BY <2>1
  <2>3. \A i \in 1..n : s[i] \in Frame
      BY <1>2
  <2> HIDE DEF n
  <2>4. /\ SubSeq(s, 1, n) \in Seq(Frame)
        /\ Len(SubSeq(s, 1, n)) = IF 1 <= n THEN n - 1 + 1 ELSE 0
        /\ \A i \in 1..(n - 1 + 1) : SubSeq(s, 1, n)[i] = s[1 + i - 1]
      BY <2>1, <2>3, SubSeqProperties
  <2>5. \A i \in 1..n : 1 + i - 1 = i
      BY <2>1
  <2>6. /\ SubSeq(s, 1, n) \in Seq(Frame)
        /\ Len(SubSeq(s, 1, n)) = n
        /\ \A i \in 1..n : SubSeq(s, 1, n)[i] = s[i]
      BY <2>1, <2>2, <2>4, <2>5
  <2> QED
      BY <2>6 DEF n
<1>4. s[Len(s)] \in Frame
    BY <1>1, ElementOfSeq
<1> QED
    BY <1>1, <1>3, <1>4 DEF Front, Last

\* A frame on top of a stack.
LEMMA AppendToStack ==
    ASSUME NEW s \in Seq(Frame), NEW f \in Frame
    PROVE  /\ Append(s, f) \in Seq(Frame)
           /\ Len(s) \in Nat
           /\ Len(Append(s, f)) = Len(s) + 1
           /\ \A i \in 1..Len(s) : Append(s, f)[i] = s[i]
           /\ Append(s, f)[Len(s) + 1] = f
           /\ Append(s, f) # <<>>
    BY AppendProperties

\* The innermost frame replaced.
LEMMA ReplaceTop ==
    ASSUME NEW s \in Seq(Frame), s # <<>>, NEW f \in Frame
    PROVE  /\ Append(Front(s), f) \in Seq(Frame)
           /\ Len(s) \in Nat \ {0}
           /\ Len(Append(Front(s), f)) = Len(s)
           /\ \A i \in 1..(Len(s) - 1) : Append(Front(s), f)[i] = s[i]
           /\ Append(Front(s), f)[Len(s)] = f
           /\ Append(Front(s), f) # <<>>
<1>1. /\ Len(s) \in Nat \ {0}
      /\ Front(s) \in Seq(Frame)
      /\ Len(Front(s)) = Len(s) - 1
      /\ \A i \in 1..(Len(s) - 1) : Front(s)[i] = s[i]
    BY FrontOfStack
<1>2. /\ Append(Front(s), f) \in Seq(Frame)
      /\ Len(Append(Front(s), f)) = Len(Front(s)) + 1
      /\ \A i \in 1..Len(Front(s)) : Append(Front(s), f)[i] = Front(s)[i]
      /\ Append(Front(s), f)[Len(Front(s)) + 1] = f
      /\ Append(Front(s), f) # <<>>
    BY <1>1, AppendToStack
<1> QED
    BY <1>1, <1>2

\* The frames that are pushed are of their type.
LEMMA FrameTypes ==
    ASSUME NEW op \in Op, NEW p \in Maybe, NEW ev \in Event, NEW c \in Maybe
    PROVE  /\ NewFrame(op, p, ev, c) \in Frame
           /\ NewActivation(op, p, ev, c) \in Frame
<1>1. Frame = [op : Op, proc : Maybe, ev : Event, at : Maybe, caller : Maybe,
               self : BOOLEAN, calls : 0..MaxCalls, owed : SUBSET Proc]
    BY DEF Frame, Maybe
<1>2. NoProc \in Maybe /\ 0 \in 0..MaxCalls /\ MaxCalls \in 0..MaxCalls
    BY SchedulerAssumption DEF Maybe
<1> QED
    BY <1>1, <1>2 DEF NewFrame, NewActivation

\* The stack after a call of the running activation.
LEMMA SpentKin ==
    ASSUME NEW s \in Seq(Frame), s = stack, s # <<>> => Top.calls > 0
    PROVE  Kin(s, Spent)
<1>1. CASE s = <<>>
    BY <1>1 DEF Spent, Kin
<1>2. CASE s # <<>>
  <2> DEFINE f == [Last(s) EXCEPT !.calls = @ - 1]
  <2>1. Last(s) \in Frame /\ Last(s).calls > 0 /\ Last(s) = s[Len(s)]
      BY <1>2, FrontOfStack DEF Top
  <2>2. f \in Frame /\ Alike(Last(s), f)
    <3>1. f \in Frame
        BY <2>1, FrameFields, SchedulerAssumption DEF Maybe
    <3>2. Alike(Last(s), f)
        BY <2>1 DEF Frame, Alike
    <3> QED
        BY <3>1, <3>2
  <2>3. \A g \in Frame : Alike(g, g)
      BY DEF Alike
  <2>4. \A i \in 1..Len(s) : s[i] \in Frame
      BY ElementOfSeq
  <2>5. Spent = Append(Front(s), f)
      BY <1>2 DEF Spent, Below, Top
  <2> HIDE DEF f
  <2>6. /\ Append(Front(s), f) \in Seq(Frame)
        /\ Len(s) \in Nat \ {0}
        /\ Len(Append(Front(s), f)) = Len(s)
        /\ \A i \in 1..(Len(s) - 1) : Append(Front(s), f)[i] = s[i]
        /\ Append(Front(s), f)[Len(s)] = f
      BY <1>2, <2>2, ReplaceTop
  <2>7. \A i \in 1..Len(s) : Alike(s[i], Append(Front(s), f)[i])
    <3> TAKE i \in 1..Len(s)
    <3>1. CASE i = Len(s)
        BY <3>1, <2>1, <2>2, <2>6
    <3>2. CASE i # Len(s)
        BY <3>2, <2>3, <2>4, <2>6
    <3> QED
        BY <3>1, <3>2
  <2> QED
      BY <2>5, <2>6, <2>7 DEF Kin
<1> QED
    BY <1>1, <1>2

\* What is forgotten of a process is no more than the debt of the loops.
LEMMA ForgetKin ==
    ASSUME NEW s \in Seq(Frame), NEW p \in Proc
    PROVE  /\ Kin(s, Forget(s, p))
           /\ \A i \in 1..Len(s) : p \notin Forget(s, p)[i].owed
<1>1. DOMAIN s = 1..Len(s) /\ Len(s) \in Nat
    BY LenProperties
<1>2. \A i \in 1..Len(s) : s[i] \in Frame
    BY ElementOfSeq
<1>3. \A i \in 1..Len(s) : Forget(s, p)[i] = [s[i] EXCEPT !.owed = @ \ {p}]
    BY <1>1 DEF Forget
<1>4. \A i \in 1..Len(s) : /\ Forget(s, p)[i] \in Frame
                           /\ Alike(s[i], Forget(s, p)[i])
                           /\ p \notin Forget(s, p)[i].owed
  <2> TAKE i \in 1..Len(s)
  <2>1. s[i] \in Frame /\ p \in Maybe
      BY <1>2 DEF Maybe
  <2>2. [s[i] EXCEPT !.owed = @ \ {p}] \in Frame
      BY <2>1, FrameFields
  <2>3. Alike(s[i], [s[i] EXCEPT !.owed = @ \ {p}])
      BY <2>1 DEF Frame, Alike
  <2>4. p \notin [s[i] EXCEPT !.owed = @ \ {p}].owed
      BY <2>1 DEF Frame
  <2> QED
      BY <1>3, <2>2, <2>3, <2>4
<1>5. Forget(s, p) \in [1..Len(s) -> Frame]
    BY <1>1, <1>4 DEF Forget
<1>6. Forget(s, p) \in Seq(Frame) /\ Len(Forget(s, p)) = Len(s)
    BY <1>1, <1>5
<1> QED
    BY <1>4, <1>6 DEF Kin

LEMMA KinTransitive ==
    ASSUME NEW s \in Seq(Frame), NEW t, NEW u, Kin(s, t), Kin(t, u)
    PROVE  Kin(s, u)
    BY DEF Kin, Alike

----------------------------------------------------------------------------
(* Stacks stay sound, and say whether a message is being delivered.        *)

LEMMA SoundKin ==
    ASSUME NEW s, NEW t, Sound(s), Kin(s, t)
    PROVE  Sound(t) /\ Delivering(t) = Delivering(s)
<1>1. s \in Seq(Frame) /\ t \in Seq(Frame) /\ Len(s) \in Nat
    BY LenProperties DEF Sound, Kin
<1>2. \A i \in 1..Len(t) : FrameSound(t, i)
    BY <1>1 DEF Sound, Kin, Alike, FrameSound
<1>3. (t # <<>>) <=> (s # <<>>)
    BY <1>1, EmptySeq DEF Kin
<1>4. s # <<>> => s[1].op = t[1].op
    BY <1>1, EmptySeq DEF Kin, Alike
<1> QED
    BY <1>1, <1>2, <1>3, <1>4 DEF Sound, Delivering

LEMMA SoundAppend ==
    ASSUME NEW s, Sound(s), NEW f \in Frame,
           f.op \in Activation \cup Exiting \cup {"hbcast"},
           f.op # "hbcast" => f.proc \in Proc
    PROVE  Sound(Append(s, f)) /\ Delivering(Append(s, f)) = Delivering(s)
<1>1. s \in Seq(Frame)
    BY DEF Sound
<1>2. /\ Append(s, f) \in Seq(Frame)
      /\ Len(s) \in Nat
      /\ Len(Append(s, f)) = Len(s) + 1
      /\ \A i \in 1..Len(s) : Append(s, f)[i] = s[i]
      /\ Append(s, f)[Len(s) + 1] = f
      /\ Append(s, f) # <<>>
    BY <1>1, AppendToStack
<1>3. f.op \notin Bottom \cup {"poll"}
    BY DEF Bottom, Activation, Exiting
<1>4. \A i \in 1..Len(s) : FrameSound(Append(s, f), i)
    BY <1>2 DEF Sound, FrameSound
<1>5. FrameSound(Append(s, f), Len(s) + 1)
    BY <1>2, <1>3 DEF FrameSound, Bottom, Activation, Exiting
<1>6. s # <<>> => Append(s, f)[1] = s[1]
    BY <1>1, <1>2, EmptySeq
<1>7. s = <<>> => Append(s, f)[1] = f
    BY <1>2
<1> QED
    BY <1>2, <1>3, <1>4, <1>5, <1>6, <1>7 DEF Sound, Delivering, Bottom

LEMMA SoundFront ==
    ASSUME NEW s, Sound(s), s # <<>>
    PROVE  /\ Sound(Front(s))
           /\ Last(s).op \notin {"deliver", "bcast", "bcast_call"}
                => Delivering(Front(s)) = Delivering(s)
           /\ Last(s).op \in Bottom => Len(s) = 1 /\ Front(s) = <<>>
<1>1. s \in Seq(Frame)
    BY DEF Sound
<1>2. /\ Len(s) \in Nat \ {0}
      /\ Front(s) \in Seq(Frame)
      /\ Len(Front(s)) = Len(s) - 1
      /\ \A i \in 1..(Len(s) - 1) : Front(s)[i] = s[i]
      /\ Last(s) = s[Len(s)]
    BY <1>1, FrontOfStack
<1>3. \A i \in 1..(Len(s) - 1) : FrameSound(Front(s), i)
    BY <1>2 DEF Sound, FrameSound
<1>4. Last(s).op \in Bottom => Len(s) = 1
    BY <1>2 DEF Sound, FrameSound
<1>5. (Len(s) = 1) <=> (Front(s) = <<>>)
    BY <1>2, EmptySeq
<1>6. Len(s) # 1 => Front(s)[1] = s[1]
    BY <1>2
<1>7. Len(s) = 1 => s[1] = Last(s)
    BY <1>2
<1> QED
    BY <1>2, <1>3, <1>4, <1>5, <1>6, <1>7 DEF Sound, Delivering

\* The innermost loop moves on.
LEMMA SoundReplace ==
    ASSUME NEW s, Sound(s), s # <<>>, NEW f \in Frame,
           \/ f.op = Last(s).op /\ f.op # "bcast_call"
           \/ Last(s).op \in {"bcast", "bcast_call"} /\ f.op = "bcast"
           \/ Last(s).op = "bcast" /\ f.op = "bcast_call" /\ f.at \in Proc,
           f.proc = Last(s).proc
    PROVE  /\ Sound(Append(Front(s), f))
           /\ Delivering(Append(Front(s), f)) = Delivering(s)
<1>1. s \in Seq(Frame)
    BY DEF Sound
<1> DEFINE t == Append(Front(s), f)
<1>2. /\ t \in Seq(Frame)
      /\ Len(s) \in Nat \ {0}
      /\ Len(t) = Len(s)
      /\ \A i \in 1..(Len(s) - 1) : t[i] = s[i]
      /\ t[Len(s)] = f
      /\ t # <<>>
      /\ Last(s) = s[Len(s)]
    BY <1>1, ReplaceTop, FrontOfStack
<1> HIDE DEF t
<1>3. \A i \in 1..Len(s) : FrameSound(s, i)
    BY DEF Sound
<1>4. \A i \in 1..(Len(s) - 1) : s[i].op # "poll" => FrameSound(t, i)
    BY <1>2, <1>3 DEF FrameSound
<1>5. \A i \in 1..(Len(s) - 1) : s[i].op = "poll" => FrameSound(t, i)
    BY <1>2, <1>3 DEF FrameSound, Bottom
<1>6. FrameSound(t, Len(s))
  <2>1. f.op \in Bottom => Len(s) = 1
      BY <1>2, <1>3 DEF FrameSound, Bottom
  <2>2. f.op = "poll" => Len(s) = 2 /\ t[1].op \in {"run", "bcast_call"}
      BY <1>2, <1>3 DEF FrameSound
  <2>3. f.op \in Activation \cup Exiting => f.proc \in Proc
      BY <1>2, <1>3 DEF FrameSound, Activation, Exiting
  <2> QED
      BY <1>2, <2>1, <2>2, <2>3 DEF FrameSound
<1>7. (t[1].op \in {"deliver", "bcast", "bcast_call"})
        <=> (s[1].op \in {"deliver", "bcast", "bcast_call"})
  <2>1. CASE Len(s) = 1
      BY <1>2, <2>1
  <2>2. CASE Len(s) # 1
      BY <1>2, <2>2
  <2> QED
      BY <2>1, <2>2
<1>8. \A i \in 1..Len(s) : FrameSound(t, i)
    BY <1>2, <1>4, <1>5, <1>6
<1>9. Sound(t) /\ Delivering(t) = Delivering(s)
    BY <1>2, <1>7, <1>8 DEF Sound, Delivering
<1> QED
    BY <1>9 DEF t
----------------------------------------------------------------------------
(* Types, and the accounts of the message buffer.  That a message is freed *)
(* only where one is in delivery needs the shape of the stack, and that    *)
(* the buffer's count does not fall below 0 needs the accounts.            *)

Base ==
    /\ TypeOK
    /\ Sound(stack)
    /\ used = Len(messages) + held + Delivering(stack)

\* What call_process does to the states and to the stack.
LEMMA CallEffect ==
    ASSUME NEW st \in [Proc -> ProcessState], NEW p \in Proc, NEW ev \in Event,
           NEW rest, Sound(rest), process_current \in Maybe,
           CallProcess(st, p, ev, rest)
    PROVE  /\ state' \in [Proc -> ProcessState]
           /\ process_current' \in Maybe
           /\ Sound(stack')
           /\ Delivering(stack') = Delivering(rest)
<1>1. CASE st[p] = "RUNNING"
  <2> DEFINE f == NewActivation("thread", p, ev, process_current)
  <2>1. f \in Frame
      BY FrameTypes DEF Maybe, Op, Activation
  <2>2. f.op = "thread" /\ f.proc = p
      BY DEF NewActivation, NewFrame
  <2> HIDE DEF f
  <2>3. Sound(Append(rest, f)) /\ Delivering(Append(rest, f)) = Delivering(rest)
      BY <2>1, <2>2, SoundAppend DEF Activation
  <2>4. /\ state' = [st EXCEPT ![p] = "CALLED"]
        /\ process_current' = p
        /\ stack' = Append(rest, f)
      BY <1>1 DEF CallProcess, f
  <2> QED
      BY <2>3, <2>4 DEF Maybe, ProcessState
<1>2. CASE st[p] # "RUNNING"
    BY <1>2 DEF CallProcess
<1> QED
    BY <1>1, <1>2

\* Unlinking keeps the types of the list, and is a bypass.
LEMMA UnlinkEffect ==
    ASSUME process_head \in Maybe, next \in [Proc -> Maybe], NEW p \in Proc,
           Unlink(p)
    PROVE  /\ process_head' \in Maybe
           /\ next' \in [Proc -> Maybe]
           /\ Bypass(next, next', p)
           /\ process_head = p => process_head' = next[p] /\ next' = next
           /\ process_head # p => process_head' = process_head
    BY DEF Unlink, Bypass

\* What exit_process does up to its first call or its return.
LEMMA ExitEffect ==
    ASSUME TypeOK, NEW p \in Proc, NEW from, NEW cur \in Maybe,
           NEW rest, Sound(rest), BeginExit(p, from, cur, rest)
    PROVE  /\ process_head' \in Maybe
           /\ next' \in [Proc -> Maybe]
           /\ state' \in [Proc -> ProcessState]
           /\ process_current' \in Maybe
           /\ Sound(stack')
           /\ Delivering(stack') = Delivering(rest)
<1>1. /\ process_head \in Maybe
      /\ next \in [Proc -> Maybe]
      /\ state \in [Proc -> ProcessState]
    BY DEF TypeOK, Maybe
<1>2. CASE Listed(p) /\ state[p] # "NONE"
  <2> DEFINE g == NewFrame("finish", p, "FINISHED", cur)
             f == [g EXCEPT !.self = (p = from), !.owed = OnChain(process_head) \ {p}]
  <2>1. g \in Frame
      BY FrameTypes DEF Maybe, Op, Loop, Event
  <2>2. OnChain(process_head) \ {p} \in SUBSET Proc /\ (p = from) \in BOOLEAN
      BY DEF OnChain
  <2>3. f \in Frame
      BY <2>1, <2>2, FrameFields
  <2>4. f.op = "finish" /\ f.proc = p
      BY DEF NewFrame
  <2>5. /\ state' = [state EXCEPT ![p] = "NONE"]
        /\ process_current' = cur
        /\ stack' = Append(rest, f)
        /\ UNCHANGED list
      BY <1>2 DEF BeginExit
  <2> HIDE DEF f, g
  <2>6. Sound(Append(rest, f)) /\ Delivering(Append(rest, f)) = Delivering(rest)
      BY <2>3, <2>4, SoundAppend DEF Exiting
  <2> QED
      BY <1>1, <2>5, <2>6 DEF list, ProcessState
<1>3. CASE Listed(p) /\ state[p] = "NONE"
    BY <1>1, <1>3, UnlinkEffect DEF BeginExit
<1>4. CASE ~Listed(p)
    BY <1>1, <1>4 DEF BeginExit, list
<1> QED
    BY <1>2, <1>3, <1>4

\* The stack of a caller that has made one of its calls is sound.
LEMMA SpentSound ==
    ASSUME Sound(stack), stack # <<>> => Top.calls > 0
    PROVE  /\ Sound(Spent)
           /\ Delivering(Spent) = Delivering(stack)
           /\ \A p \in Proc : /\ Sound(Forget(Spent, p))
                              /\ Delivering(Forget(Spent, p)) = Delivering(stack)
<1>1. Kin(stack, Spent)
    BY SpentKin DEF Sound
<1>2. Sound(Spent) /\ Delivering(Spent) = Delivering(stack)
    BY <1>1, SoundKin
<1>3. ASSUME NEW p \in Proc
      PROVE  Kin(Spent, Forget(Spent, p))
    BY <1>2, ForgetKin DEF Sound
<1> QED
    BY <1>2, <1>3, SoundKin

\* The stack of a loop that moves on is sound.
LEMMA AdvancedSound ==
    ASSUME Sound(stack), stack # <<>>, Top.op # "bcast_call", NEW p \in Proc
    PROVE  /\ Sound(Advanced(p))
           /\ Delivering(Advanced(p)) = Delivering(stack)
<1> DEFINE f == [Top EXCEPT !.at = p, !.owed = @ \ {p}]
<1>1. Top \in Frame /\ Top = Last(stack)
    BY FrontOfStack DEF Top, Sound
<1>2. f \in Frame
    BY <1>1, FrameFields DEF Maybe
<1>3. f.op = Top.op /\ f.proc = Top.proc
    BY <1>1 DEF Frame
<1>4. Advanced(p) = Append(Front(stack), f)
    BY DEF Advanced, Below
<1> HIDE DEF f
<1> QED
    BY <1>1, <1>2, <1>3, <1>4, SoundReplace

\* A loop's next process is a process.
LEMMA NextIsProcess ==
    ASSUME TypeOK, NEW f \in Frame
    PROVE  LoopNext(f) \in Maybe
    BY DEF LoopNext, TypeOK, Frame, Maybe

\* The innermost frame, when there is one.
LEMMA TopFrame ==
    ASSUME Sound(stack), NEW op, Running(op)
    PROVE  /\ stack # <<>> /\ Top = Last(stack) /\ Top \in Frame /\ Top.op = op
           /\ Below = Front(stack) /\ Sound(Below)
           /\ op \notin {"deliver", "bcast", "bcast_call"}
                => Delivering(Below) = Delivering(stack)
           /\ op \in Bottom => Below = <<>>
           /\ op \in {"deliver", "bcast", "bcast_call"} => Delivering(stack) = 1
           /\ op \in {"run"} => Delivering(stack) = 0
           /\ op \in Activation \cup Exiting => Top.proc \in Proc
           /\ Top.caller \in Maybe /\ Top.ev \in Event /\ Top.at \in Maybe
<1>1. stack # <<>> /\ Top = Last(stack) /\ Top.op = op /\ Below = Front(stack)
    BY DEF Running, Top, Below
<1>2. stack \in Seq(Frame)
    BY DEF Sound
<1>3. /\ Top \in Frame
      /\ Len(stack) \in Nat \ {0}
      /\ Top = stack[Len(stack)]
    BY <1>1, <1>2, FrontOfStack
<1>4. /\ Sound(Below)
      /\ op \notin {"deliver", "bcast", "bcast_call"}
            => Delivering(Below) = Delivering(stack)
      /\ op \in Bottom => Len(stack) = 1 /\ Below = <<>>
    BY <1>1, SoundFront
<1>5. op \in Bottom => stack[1] = Top
    BY <1>3, <1>4
<1>6. op \in {"deliver", "bcast", "bcast_call"} => Delivering(stack) = 1
    BY <1>1, <1>5 DEF Delivering, Bottom
<1>7. op = "run" => Delivering(stack) = 0
    BY <1>1, <1>5 DEF Delivering, Bottom
<1>8. op \in Activation \cup Exiting => Top.proc \in Proc
    BY <1>1, <1>3 DEF Sound, FrameSound
<1>9. Top.caller \in Maybe /\ Top.ev \in Event /\ Top.at \in Maybe
    BY <1>3 DEF Frame, Maybe
<1> QED
    BY <1>1, <1>3, <1>4, <1>6, <1>7, <1>8, <1>9
LEMMA BaseInit == Init => Base
<1> SUFFICES ASSUME Init PROVE Base
    OBVIOUS
<1>1. TypeOK
  <2>1. /\ messages \in Seq([to : Proc \cup {NoProc}, type : MsgType])
        /\ stack \in Seq(Frame)
      BY EmptySeq DEF Init
  <2>2. used \in 0..MaxMsgs /\ held \in 0..MaxMsgs
      BY SchedulerAssumption DEF Init
  <2> QED
      BY <2>1, <2>2 DEF Init, InitProcesses, TypeOK, ProcessState
<1>2. Sound(stack) /\ Delivering(stack) = 0 /\ Len(messages) = 0
    BY EmptySeq DEF Init, Sound, Delivering
<1> QED
    BY <1>1, <1>2 DEF Base, Init

\* Calls that leave the stack alone: polls and the message buffer.
LEMMA BaseQuietCalls ==
    ASSUME Base,
           \/ \E p \in Proc : PollProcess(p)
           \/ Malloc \/ Free
           \/ \E q \in Maybe, type \in MsgType : PostMsg(q, type) \/ SendMsg(q, type)
    PROVE  Base'
<1> DEFINE Msg == [to : Proc \cup {NoProc}, type : MsgType]
<1>1. /\ messages \in Seq(Msg) /\ Len(messages) \in Nat
      /\ used \in 0..MaxMsgs /\ held \in 0..MaxMsgs /\ MaxMsgs \in Nat
      /\ Delivering(stack) \in {0, 1}
      /\ used = Len(messages) + held + Delivering(stack)
    BY LenProperties, SchedulerAssumption DEF Base, TypeOK, Delivering
<1>2. stack' = stack
    BY DEF PollProcess, Malloc, Free, PostMsg, SendMsg
<1>3. Sound(stack)' /\ Delivering(stack)' = Delivering(stack)
    BY <1>2 DEF Base, Sound, Delivering, FrameSound
<1>4. ASSUME NEW p \in Proc, PollProcess(p) PROVE Base'
    BY <1>1, <1>3, <1>4
    DEF PollProcess, Base, TypeOK, list, past, heap, polls
<1>5. CASE Malloc
  <2>1. used' \in 0..MaxMsgs /\ held' \in 0..MaxMsgs
      BY <1>1, <1>5 DEF Malloc
  <2> QED
      BY <1>1, <1>3, <1>5, <2>1 DEF Malloc, Base, TypeOK, list, past, heap, polls
<1>6. CASE Free
  <2>1. used' \in 0..MaxMsgs /\ held' \in 0..MaxMsgs
      BY <1>1, <1>6 DEF Free
  <2> QED
      BY <1>1, <1>3, <1>6, <2>1 DEF Free, Base, TypeOK, list, past, heap, polls
<1>7. ASSUME NEW q \in Maybe, NEW type \in MsgType,
             messages' = Append(messages, [to |-> q, type |-> type])
      PROVE  messages' \in Seq(Msg) /\ Len(messages') = Len(messages) + 1
    BY <1>1, <1>7, AppendProperties DEF Maybe
<1>8. ASSUME NEW q \in Maybe, NEW type \in MsgType, PostMsg(q, type) PROVE Base'
  <2>1. held' \in 0..MaxMsgs
      BY <1>1, <1>8 DEF PostMsg
  <2> QED
      BY <1>1, <1>3, <1>7, <1>8, <2>1 DEF PostMsg, Base, TypeOK, list, past, heap, polls
<1>9. ASSUME NEW q \in Maybe, NEW type \in MsgType, SendMsg(q, type) PROVE Base'
  <2>1. used' \in 0..MaxMsgs
      BY <1>1, <1>9 DEF SendMsg
  <2> QED
      BY <1>1, <1>3, <1>7, <1>9, <2>1 DEF SendMsg, Base, TypeOK, list, past, heap, polls
<1> QED
    BY <1>4, <1>5, <1>6, <1>8, <1>9

\* Processes are started and exited.
LEMMA BaseStarts ==
    ASSUME Base, NEW p \in Proc, StartProcess(p) \/ ExitProcess(p)
    PROVE  Base'
<1>1. /\ Sound(Spent)
      /\ Delivering(Spent) = Delivering(stack)
      /\ Sound(Forget(Spent, p))
      /\ Delivering(Forget(Spent, p)) = Delivering(stack)
    BY SpentSound DEF Base, StartProcess, ExitProcess, MayCall
<1>2. TypeOK /\ process_current \in Maybe
    BY DEF Base, TypeOK, Maybe
<1>3. CASE StartProcess(p)
  <2>1. CASE Listed(p)
      BY <1>1, <1>2, <1>3, <2>1
      DEF StartProcess, Base, TypeOK, list, heap, Sound
  <2>2. CASE ~Listed(p)
    <3> DEFINE st == [state EXCEPT ![p] = "RUNNING"]
    <3>1. st \in [Proc -> ProcessState] /\ "INIT" \in Event
        BY <1>2 DEF TypeOK, ProcessState, Event
    <3>2. CallProcess(st, p, "INIT", Forget(Spent, p))
        BY <1>3, <2>2 DEF StartProcess
    <3> HIDE DEF st
    <3>3. /\ state' \in [Proc -> ProcessState]
          /\ process_current' \in Maybe
          /\ Sound(stack')
          /\ Delivering(stack') = Delivering(stack)
        BY <1>1, <1>2, <3>1, <3>2, CallEffect
    <3>4. next' \in [Proc -> Maybe] /\ process_head' \in Maybe
        BY <1>2, <1>3, <2>2 DEF StartProcess, TypeOK, Maybe
    <3>5. sched' \in [Proc -> BOOLEAN]
        BY <1>2, <1>3, <2>2 DEF StartProcess, TypeOK
    <3>6. wanted' \subseteq {r \in Proc : needspoll'[r]}
        BY <1>2, <1>3, <2>2 DEF StartProcess, TypeOK
    <3> QED
        BY <1>2, <1>3, <2>2, <3>3, <3>4, <3>5, <3>6
        DEF StartProcess, Base, TypeOK, Maybe, heap, Sound
  <2> QED
      BY <2>1, <2>2
<1>4. CASE ExitProcess(p)
  <2>1. /\ process_head' \in Maybe
        /\ next' \in [Proc -> Maybe]
        /\ state' \in [Proc -> ProcessState]
        /\ process_current' \in Maybe
        /\ Sound(stack')
        /\ Delivering(stack') = Delivering(Spent)
      BY <1>1, <1>2, <1>4, ExitEffect DEF ExitProcess
  <2>2. strays' \in BOOLEAN
      BY <1>4 DEF ExitProcess
  <2> QED
      BY <1>1, <1>2, <1>4, <2>1, <2>2
      DEF ExitProcess, Base, TypeOK, Maybe, heap, polls, Sound
<1> QED
    BY <1>3, <1>4

\* A message is handled at once, by one process or by all.
LEMMA BaseHandles ==
    ASSUME Base, NEW q \in Maybe, NEW type \in MsgType, HandleMsg(q, type)
    PROVE  Base'
<1>1. Sound(Spent) /\ Delivering(Spent) = Delivering(stack)
    BY SpentSound DEF Base, HandleMsg, MayCall
<1>2. TypeOK /\ process_current \in Maybe
    BY DEF Base, TypeOK, Maybe
<1>3. CASE q # NoProc
  <2>1. state \in [Proc -> ProcessState] /\ q \in Proc /\ type \in Event
      BY <1>2, <1>3, SchedulerAssumption DEF TypeOK, Maybe
  <2>2. CallProcess(state, q, type, Spent)
      BY <1>3 DEF HandleMsg
  <2>3. /\ state' \in [Proc -> ProcessState]
        /\ process_current' \in Maybe
        /\ Sound(stack')
        /\ Delivering(stack') = Delivering(Spent)
      BY <1>1, <1>2, <2>1, <2>2, CallEffect
  <2> QED
      BY <1>1, <1>2, <2>3
      DEF HandleMsg, Base, TypeOK, Maybe, list, past, heap, polls, Sound
<1>4. CASE q = NoProc
  <2> DEFINE g == NewFrame("hbcast", NoProc, type, NoProc)
             f == [g EXCEPT !.owed = OnChain(process_head)]
  <2>1. g \in Frame
      BY FrameTypes, SchedulerAssumption DEF Maybe, Op, Loop
  <2>2. OnChain(process_head) \in SUBSET Proc
      BY DEF OnChain
  <2>3. f \in Frame
      BY <2>1, <2>2, FrameFields
  <2>4. f.op = "hbcast"
      BY DEF NewFrame
  <2>5. stack' = Append(Spent, f) /\ UNCHANGED <<state, process_current>>
      BY <1>4 DEF HandleMsg
  <2> HIDE DEF f, g
  <2>6. Sound(stack') /\ Delivering(stack') = Delivering(Spent)
      BY <1>1, <2>3, <2>4, <2>5, SoundAppend
  <2> QED
      BY <1>1, <1>2, <2>5, <2>6
      DEF HandleMsg, Base, TypeOK, Maybe, list, past, heap, polls, Sound
<1> QED
    BY <1>3, <1>4

\* A thread or an exit returns.
LEMMA BaseReturns ==
    ASSUME Base, ThreadReturns
    PROVE  Base'
<1>1. TypeOK /\ Sound(stack)
    BY DEF Base
<1>2. CASE ThreadYields
  <2>1. Sound(Below) /\ Delivering(Below) = Delivering(stack) /\ Top.caller \in Maybe
      BY <1>1, <1>2, TopFrame DEF ThreadYields
  <2>2. state' \in [Proc -> ProcessState]
      BY <1>1, <1>2 DEF ThreadYields, TypeOK, ProcessState
  <2> QED
      BY <1>1, <1>2, <2>1, <2>2
      DEF ThreadYields, Base, TypeOK, Maybe, list, past, heap, polls, Sound
<1>3. CASE ThreadEnds
  <2>1. /\ Sound(Below) /\ Delivering(Below) = Delivering(stack)
        /\ Top.caller \in Maybe /\ Top.proc \in Proc
      BY <1>1, <1>3, TopFrame DEF ThreadEnds, Activation
  <2>2. /\ process_head' \in Maybe
        /\ next' \in [Proc -> Maybe]
        /\ state' \in [Proc -> ProcessState]
        /\ process_current' \in Maybe
        /\ Sound(stack')
        /\ Delivering(stack') = Delivering(Below)
      BY <1>1, <1>3, <2>1, ExitEffect DEF ThreadEnds
  <2> QED
      BY <1>1, <1>3, <2>1, <2>2
      DEF ThreadEnds, Base, TypeOK, Maybe, past, heap, polls, Sound
<1>4. CASE ExitThreadReturns
  <2>1. /\ Sound(Below) /\ Delivering(Below) = Delivering(stack)
        /\ Top.caller \in Maybe /\ Top.proc \in Proc
      BY <1>1, <1>4, TopFrame DEF ExitThreadReturns, Activation
  <2>2. process_head' \in Maybe /\ next' \in [Proc -> Maybe]
      BY <1>1, <1>4, <2>1, UnlinkEffect DEF ExitThreadReturns, TypeOK, Maybe
  <2> QED
      BY <1>1, <1>4, <2>1, <2>2
      DEF ExitThreadReturns, Base, TypeOK, Maybe, past, heap, polls, Sound
<1> QED
    BY <1>2, <1>3, <1>4 DEF ThreadReturns

\* The loops that announce an exit and that handle a broadcast at once.
LEMMA BaseAnnounces ==
    ASSUME Base, FinishVisits \/ FinishEnds \/ HandleVisits \/ HandleEnds
    PROVE  Base'
<1>1. TypeOK /\ Sound(stack)
    BY DEF Base
<1>2. state \in [Proc -> ProcessState] /\ process_current \in Maybe /\ "FINISHED" \in Event
    BY <1>1 DEF TypeOK, Maybe, Event
<1>3. CASE FinishVisits
  <2> DEFINE p == LoopNext(Top)
  <2>1. /\ stack # <<>> /\ Top.op = "finish" /\ Top \in Frame
        /\ p \in Proc
      BY <1>1, <1>3, TopFrame, NextIsProcess DEF FinishVisits, Maybe
  <2>2. Sound(Advanced(p)) /\ Delivering(Advanced(p)) = Delivering(stack)
      BY <1>1, <2>1, AdvancedSound
  <2>3. CASE p = Top.proc
    <3>1. stack' = Advanced(p) /\ UNCHANGED <<state, process_current>>
        BY <1>3, <2>3 DEF FinishVisits
    <3> QED
        BY <1>1, <1>3, <2>2, <3>1
        DEF FinishVisits, Base, TypeOK, list, past, heap, polls, Sound
  <2>4. CASE p # Top.proc
    <3>1. CallProcess(state, p, "FINISHED", Advanced(p))
        BY <1>3, <2>4 DEF FinishVisits
    <3> HIDE DEF p
    <3>2. /\ state' \in [Proc -> ProcessState]
          /\ process_current' \in Maybe
          /\ Sound(stack')
          /\ Delivering(stack') = Delivering(stack)
        BY <1>2, <2>1, <2>2, <3>1, CallEffect
    <3> QED
        BY <1>1, <1>3, <3>2
        DEF FinishVisits, Base, TypeOK, Maybe, list, past, heap, polls, Sound
  <2> QED
      BY <2>3, <2>4
<1>4. CASE FinishEnds
  <2>1. /\ Sound(Below) /\ Delivering(Below) = Delivering(stack)
        /\ Top.caller \in Maybe /\ Top.proc \in Proc
      BY <1>1, <1>4, TopFrame DEF FinishEnds, Exiting
  <2>2. CASE Top.self
    <3>1. /\ Unlink(Top.proc)
          /\ process_current' = Top.caller
          /\ stack' = Below
        BY <1>4, <2>2 DEF FinishEnds
    <3>2. process_head' \in Maybe /\ next' \in [Proc -> Maybe]
        BY <1>1, <2>1, <3>1, UnlinkEffect DEF TypeOK, Maybe
    <3> QED
        BY <1>1, <1>4, <2>1, <3>1, <3>2
        DEF FinishEnds, Base, TypeOK, Maybe, past, heap, polls, Sound
  <2>3. CASE ~Top.self
    <3> DEFINE f == NewActivation("exit", Top.proc, "EXIT", Top.caller)
    <3>1. f \in Frame /\ f.op = "exit" /\ f.proc = Top.proc
      <4>1. "exit" \in Op /\ "EXIT" \in Event /\ Top.proc \in Maybe
          BY <2>1 DEF Op, Activation, Event, Maybe
      <4>2. f \in Frame
          BY <2>1, <4>1, FrameTypes
      <4> QED
          BY <4>2 DEF NewActivation, NewFrame
    <3>2. /\ process_current' = Top.proc
          /\ stack' = Append(Below, f)
          /\ UNCHANGED list
        BY <1>4, <2>3 DEF FinishEnds
    <3> HIDE DEF f
    <3>3. Sound(stack') /\ Delivering(stack') = Delivering(stack)
        BY <2>1, <3>1, <3>2, SoundAppend DEF Activation
    <3> QED
        BY <1>1, <1>4, <2>1, <3>2, <3>3
        DEF FinishEnds, Base, TypeOK, list, past, heap, polls, Sound
  <2> QED
      BY <2>2, <2>3
<1>5. CASE HandleVisits
  <2> DEFINE p == LoopNext(Top)
  <2>1. /\ stack # <<>> /\ Top.op = "hbcast" /\ Top \in Frame /\ Top.ev \in Event
        /\ p \in Proc
      BY <1>1, <1>5, TopFrame, NextIsProcess DEF HandleVisits, Maybe
  <2>2. Sound(Advanced(p)) /\ Delivering(Advanced(p)) = Delivering(stack)
      BY <1>1, <2>1, AdvancedSound
  <2>3. CallProcess(state, p, Top.ev, Advanced(p))
      BY <1>5 DEF HandleVisits
  <2> HIDE DEF p
  <2>4. /\ state' \in [Proc -> ProcessState]
        /\ process_current' \in Maybe
        /\ Sound(stack')
        /\ Delivering(stack') = Delivering(stack)
      BY <1>2, <2>1, <2>2, <2>3, CallEffect
  <2> QED
      BY <1>1, <1>5, <2>4
      DEF HandleVisits, Base, TypeOK, Maybe, list, past, heap, polls, Sound
<1>6. CASE HandleEnds
  <2>1. Sound(Below) /\ Delivering(Below) = Delivering(stack)
      BY <1>1, <1>6, TopFrame DEF HandleEnds
  <2> QED
      BY <1>1, <1>6, <2>1
      DEF HandleEnds, Base, TypeOK, Maybe, list, past, heap, polls, Sound
<1> QED
    BY <1>3, <1>4, <1>5, <1>6

\* A walk of scheduler_utilize_poll is put on a stack that ends in "run" or in a
\* broadcast that polls.
LEMMA PollSound ==
    ASSUME NEW f \in Frame, f.op \in {"run", "bcast_call"},
           f.op = "bcast_call" => f.at \in Proc,
           NEW g \in Frame, g.op = "poll"
    PROVE  /\ Sound(<<f>>) /\ Sound(Append(<<f>>, g))
           /\ f.op = "run" => Delivering(<<f>>) = 0 /\ Delivering(Append(<<f>>, g)) = 0
           /\ f.op = "bcast_call" => /\ Delivering(<<f>>) = 1
                                     /\ Delivering(Append(<<f>>, g)) = 1
<1>1. /\ <<f>> \in Seq(Frame) /\ Len(<<f>>) = 1 /\ <<f>>[1] = f /\ <<f>> # <<>>
    OBVIOUS
<1> DEFINE t == Append(<<f>>, g)
<1>2. /\ t \in Seq(Frame) /\ Len(t) = 2 /\ t[1] = f /\ t[2] = g /\ t # <<>>
    BY <1>1, AppendToStack
<1> HIDE DEF t
<1>3. FrameSound(<<f>>, 1)
    BY <1>1 DEF FrameSound, Activation, Exiting
<1>4. FrameSound(t, 1) /\ FrameSound(t, 2)
    BY <1>2 DEF FrameSound, Activation, Exiting, Bottom
<1>5. Sound(<<f>>) /\ Sound(t)
    BY <1>1, <1>2, <1>3, <1>4 DEF Sound
<1>6. /\ f.op = "run" => Delivering(<<f>>) = 0 /\ Delivering(t) = 0
      /\ f.op = "bcast_call" => Delivering(<<f>>) = 1 /\ Delivering(t) = 1
    BY <1>1, <1>2 DEF Delivering
<1> QED
    BY <1>5, <1>6 DEF t

\* scheduler_run, and the walk of scheduler_utilize_poll.
LEMMA BasePolls ==
    ASSUME Base, Run \/ PollVisits \/ PollEnds
    PROVE  Base'
<1>1. TypeOK /\ Sound(stack)
    BY DEF Base
<1>2. CASE Run
  <2> DEFINE f == NewFrame("run", NoProc, "USER", NoProc)
             g == NewFrame("poll", NoProc, "POLL", NoProc)
  <2>1. f \in Frame /\ g \in Frame /\ f.op = "run" /\ g.op = "poll"
    <3>1. f \in Frame /\ g \in Frame
        BY FrameTypes DEF Maybe, Op, Loop, Event
    <3> QED
        BY <3>1 DEF NewFrame
  <2>2. stack = <<>> /\ (stack' = <<f>> \/ stack' = Append(<<f>>, g))
      BY <1>2 DEF Run, BeginPoll
  <2> HIDE DEF f, g
  <2>3. Sound(stack') /\ Delivering(stack') = 0
      BY <2>1, <2>2, PollSound
  <2>4. Delivering(stack) = 0
      BY <2>2 DEF Delivering
  <2>5. poll_requested' \in {0, 1}
      BY <1>1, <1>2 DEF Run, BeginPoll, TypeOK
  <2> QED
      BY <1>1, <1>2, <2>3, <2>4, <2>5
      DEF Run, Base, TypeOK, list, past, heap, Sound
<1>3. CASE PollVisits
  <2> DEFINE p == LoopNext(Top)
  <2>1. /\ stack # <<>> /\ Top.op = "poll" /\ Top \in Frame
        /\ p \in Proc
      BY <1>1, <1>3, TopFrame, NextIsProcess DEF PollVisits, Maybe
  <2>2. Sound(Advanced(p)) /\ Delivering(Advanced(p)) = Delivering(stack)
      BY <1>1, <2>1, AdvancedSound
  <2>3. CASE ~needspoll[p]
    <3>1. stack' = Advanced(p)
          /\ UNCHANGED <<state, process_current, needspoll, wanted>>
        BY <1>3, <2>3 DEF PollVisits
    <3> QED
        BY <1>1, <1>3, <2>2, <3>1
        DEF PollVisits, Base, TypeOK, list, past, heap, Sound
  <2>4. CASE needspoll[p]
    <3> DEFINE st == [state EXCEPT ![p] = "RUNNING"]
    <3>1. /\ st \in [Proc -> ProcessState] /\ "POLL" \in Event
          /\ process_current \in Maybe
        BY <1>1 DEF TypeOK, ProcessState, Event, Maybe
    <3>2. /\ needspoll' = [needspoll EXCEPT ![p] = FALSE]
          /\ wanted' = wanted \ {p}
          /\ CallProcess(st, p, "POLL", Advanced(p))
        BY <1>3, <2>4 DEF PollVisits
    <3> HIDE DEF p, st
    <3>3. /\ state' \in [Proc -> ProcessState]
          /\ process_current' \in Maybe
          /\ Sound(stack')
          /\ Delivering(stack') = Delivering(stack)
        BY <2>1, <2>2, <3>1, <3>2, CallEffect
    <3>4. /\ needspoll' \in [Proc -> BOOLEAN]
          /\ wanted' \subseteq {r \in Proc : needspoll'[r]}
        BY <1>1, <3>2 DEF TypeOK
    <3> QED
        BY <1>1, <1>3, <3>3, <3>4
        DEF PollVisits, Base, TypeOK, Maybe, list, past, heap, Sound
  <2> QED
      BY <2>3, <2>4
<1>4. CASE PollEnds
  <2>1. Sound(Below) /\ Delivering(Below) = Delivering(stack)
      BY <1>1, <1>4, TopFrame DEF PollEnds
  <2> QED
      BY <1>1, <1>4, <2>1
      DEF PollEnds, Base, TypeOK, Maybe, list, past, heap, polls, Sound
<1> QED
    BY <1>2, <1>3, <1>4
\* A message is taken, delivered and freed.
LEMMA BaseDelivers ==
    ASSUME Base, RunTakesNoMessage \/ RunTakesMessage \/ Delivered
    PROVE  Base'
<1> DEFINE Msg == [to : Proc \cup {NoProc}, type : MsgType]
<1>1. TypeOK /\ Sound(stack)
    BY DEF Base
<1>2. /\ messages \in Seq(Msg) /\ Len(messages) \in Nat
      /\ used \in 0..MaxMsgs /\ held \in 0..MaxMsgs /\ MaxMsgs \in Nat
      /\ used = Len(messages) + held + Delivering(stack)
    BY <1>1, LenProperties, SchedulerAssumption DEF Base, TypeOK
<1>3. CASE RunTakesNoMessage
  <2>1. Delivering(stack) = 0
      BY <1>1, <1>3, TopFrame DEF RunTakesNoMessage
  <2>2. Sound(stack') /\ Delivering(stack') = 0
      BY <1>3, EmptySeq DEF RunTakesNoMessage, Sound, Delivering
  <2> QED
      BY <1>1, <1>3, <2>1, <2>2
      DEF RunTakesNoMessage, Base, TypeOK, list, past, heap, polls, Sound
<1>4. CASE RunTakesMessage
  <2> DEFINE msg == Head(messages)
  <2>1. Delivering(stack) = 0
      BY <1>1, <1>4, TopFrame DEF RunTakesMessage
  <2>2. /\ msg \in Msg
        /\ messages' \in Seq(Msg)
        /\ Len(messages') = Len(messages) - 1
    <3>1. messages # <<>> /\ messages' = Tail(messages)
        BY <1>4 DEF RunTakesMessage
    <3> QED
        BY <1>2, <3>1, HeadTailProperties
  <2>3. msg.to \in Maybe /\ msg.type \in Event
      BY <2>2, SchedulerAssumption DEF Maybe
  <2>4. CASE msg.to # NoProc
    <3> DEFINE f == NewFrame("deliver", msg.to, msg.type, NoProc)
               st == IF msg.type = "INIT" THEN [state EXCEPT ![msg.to] = "RUNNING"]
                     ELSE state
    <3>1. CallProcess(st, msg.to, msg.type, <<f>>) /\ strays' \in BOOLEAN
        BY <1>4, <2>4 DEF RunTakesMessage
    <3>2. f \in Frame /\ f.op = "deliver"
      <4>1. f \in Frame
          BY <2>3, FrameTypes, SchedulerAssumption DEF Maybe, Op
      <4> QED
          BY <4>1 DEF NewFrame
    <3>3. st \in [Proc -> ProcessState] /\ process_current \in Maybe /\ msg.to \in Proc
        BY <1>1, <2>3, <2>4 DEF TypeOK, ProcessState, Maybe
    <3> HIDE DEF f, st, msg
    <3>4. Sound(<<f>>) /\ Delivering(<<f>>) = 1
      <4>1. <<f>> \in Seq(Frame) /\ Len(<<f>>) = 1 /\ <<f>>[1] = f /\ <<f>> # <<>>
          BY <3>2
      <4>2. FrameSound(<<f>>, 1)
          BY <3>2, <4>1 DEF FrameSound, Activation, Exiting
      <4> QED
          BY <3>2, <4>1, <4>2 DEF Sound, Delivering
    <3>5. /\ state' \in [Proc -> ProcessState]
          /\ process_current' \in Maybe
          /\ Sound(stack')
          /\ Delivering(stack') = 1
        BY <2>3, <3>1, <3>3, <3>4, CallEffect
    <3>6. UNCHANGED <<list, sched, used, held, polls>>
        BY <1>4 DEF RunTakesMessage
    <3>7. used' = Len(messages') + held' + 1
        BY <1>2, <2>1, <2>2, <3>6
    <3> QED
        BY <1>1, <2>2, <3>1, <3>5, <3>6, <3>7
        DEF Base, TypeOK, Maybe, list, polls, Sound
  <2>5. CASE msg.to = NoProc
    <3> DEFINE g == NewFrame("bcast", NoProc, msg.type, NoProc)
               f == [g EXCEPT !.owed = OnChain(process_head)]
    <3>1. stack' = <<f>> /\ UNCHANGED <<state, process_current, strays>>
        BY <1>4, <2>5 DEF RunTakesMessage
    <3>2. g \in Frame
        BY <2>3, FrameTypes DEF Maybe, Op, Loop
    <3>3. OnChain(process_head) \in SUBSET Proc
        BY DEF OnChain
    <3>4. f \in Frame
        BY <3>2, <3>3, FrameFields
    <3>5. f.op = "bcast"
        BY DEF NewFrame
    <3>6. UNCHANGED <<list, sched, used, held, polls>>
        BY <1>4 DEF RunTakesMessage
    <3> HIDE DEF f, g, msg
    <3>7. Sound(<<f>>) /\ Delivering(<<f>>) = 1
      <4>1. <<f>> \in Seq(Frame) /\ Len(<<f>>) = 1 /\ <<f>>[1] = f /\ <<f>> # <<>>
          BY <3>4
      <4>2. FrameSound(<<f>>, 1)
          BY <3>5, <4>1 DEF FrameSound, Activation, Exiting
      <4> QED
          BY <3>5, <4>1, <4>2 DEF Sound, Delivering
    <3>8. used' = Len(messages') + held' + 1
        BY <1>2, <2>1, <2>2, <3>6
    <3> QED
        BY <1>1, <2>2, <3>1, <3>6, <3>7, <3>8
        DEF Base, TypeOK, list, polls, Sound
  <2> QED
      BY <2>3, <2>4, <2>5
<1>5. CASE Delivered
  <2>1. PICK op \in {"deliver", "bcast"} : Running(op)
      BY <1>5 DEF Delivered
  <2>2. Delivering(stack) = 1 /\ Below = <<>>
      BY <1>1, <2>1, TopFrame DEF Bottom
  <2>3. Sound(stack') /\ Delivering(stack') = 0
      BY <1>5, <2>2, EmptySeq DEF Delivered, Sound, Delivering
  <2>4. used' \in 0..MaxMsgs
      BY <1>2, <1>5, <2>2 DEF Delivered
  <2> QED
      BY <1>1, <1>2, <1>5, <2>2, <2>3, <2>4
      DEF Delivered, Base, TypeOK, list, past, polls, Sound
<1> QED
    BY <1>3, <1>4, <1>5

\* A broadcast from the queue, which polls between two receivers.
LEMMA BaseBroadcasts ==
    ASSUME Base, BroadcastVisits \/ BroadcastCalls
    PROVE  Base'
<1>1. TypeOK /\ Sound(stack) /\ state \in [Proc -> ProcessState] /\ process_current \in Maybe
    BY DEF Base, TypeOK, Maybe
<1>2. CASE BroadcastVisits
  <2> DEFINE p == LoopNext(Top)
             f == [Top EXCEPT !.op = "bcast_call", !.at = p]
             g == NewFrame("poll", NoProc, "POLL", NoProc)
  <2>1. /\ stack # <<>> /\ Top.op = "bcast" /\ Top \in Frame /\ Top.ev \in Event
        /\ p \in Proc /\ Below = <<>> /\ Delivering(stack) = 1
      BY <1>1, <1>2, TopFrame, NextIsProcess DEF BroadcastVisits, Maybe, Bottom
  <2>2. CASE poll_requested = 1
    <3>1. /\ poll_requested' = 0
          /\ stack' = Append(Append(Below, f), g)
          /\ UNCHANGED <<state, process_current>>
        BY <1>2, <2>2 DEF BroadcastVisits, BeginPoll
    <3>2. f \in Frame /\ f.op = "bcast_call" /\ f.at = p
      <4>1. "bcast_call" \in Op /\ p \in Maybe
          BY <2>1 DEF Op, Maybe
      <4>2. f \in Frame
          BY <2>1, <4>1, FrameFields
      <4> QED
          BY <2>1, <4>2 DEF Frame
    <3>3. g \in Frame /\ g.op = "poll"
      <4>1. g \in Frame
          BY FrameTypes, SchedulerAssumption DEF Maybe, Op, Loop, Event
      <4> QED
          BY <4>1 DEF NewFrame
    <3> HIDE DEF f, g, p
    <3>4. Append(Below, f) = <<f>>
        BY <2>1
    <3>5. Sound(stack') /\ Delivering(stack') = 1
        BY <2>1, <3>1, <3>2, <3>3, <3>4, PollSound
    <3> QED
        BY <1>1, <1>2, <2>1, <3>1, <3>5
        DEF BroadcastVisits, Base, TypeOK, list, past, heap, Sound
  <2>3. CASE poll_requested = 0
    <3>1. Sound(Advanced(p)) /\ Delivering(Advanced(p)) = Delivering(stack)
        BY <1>1, <2>1, AdvancedSound
    <3>2. CallProcess(state, p, Top.ev, Advanced(p)) /\ UNCHANGED poll_requested
        BY <1>2, <2>3 DEF BroadcastVisits
    <3> HIDE DEF p
    <3>3. /\ state' \in [Proc -> ProcessState]
          /\ process_current' \in Maybe
          /\ Sound(stack')
          /\ Delivering(stack') = Delivering(stack)
        BY <1>1, <2>1, <3>1, <3>2, CallEffect
    <3> QED
        BY <1>1, <1>2, <3>2, <3>3
        DEF BroadcastVisits, Base, TypeOK, Maybe, list, past, heap, Sound
  <2> QED
      BY <1>2, <2>2, <2>3 DEF BroadcastVisits
<1>3. CASE BroadcastCalls
  <2> DEFINE f == [Top EXCEPT !.op = "bcast", !.owed = @ \ {Top.at}]
  <2>1. /\ stack # <<>> /\ Top.op = "bcast_call" /\ Top \in Frame /\ Top.ev \in Event
        /\ Top = Last(stack) /\ Below = Front(stack) /\ Top.at \in Maybe
      BY <1>1, <1>3, TopFrame DEF BroadcastCalls
  <2>2. Top.at \in Proc
    <3>1. Len(stack) \in Nat \ {0} /\ Top = stack[Len(stack)]
        BY <1>1, <2>1, FrontOfStack DEF Sound
    <3> QED
        BY <1>1, <2>1, <3>1 DEF Sound, FrameSound
  <2>3. f \in Frame /\ f.op = "bcast" /\ f.proc = Top.proc
    <3>1. "bcast" \in Op
        BY DEF Op, Loop
    <3>2. f \in Frame
        BY <2>1, <3>1, FrameFields
    <3> QED
        BY <2>1, <3>2 DEF Frame
  <2>4. CallProcess(state, Top.at, Top.ev, Append(Below, f))
      BY <1>3 DEF BroadcastCalls
  <2> HIDE DEF f
  <2>5. Sound(Append(Below, f)) /\ Delivering(Append(Below, f)) = Delivering(stack)
      BY <1>1, <2>1, <2>3, SoundReplace
  <2>6. /\ state' \in [Proc -> ProcessState]
        /\ process_current' \in Maybe
        /\ Sound(stack')
        /\ Delivering(stack') = Delivering(stack)
      BY <1>1, <2>1, <2>2, <2>4, <2>5, CallEffect
  <2> QED
      BY <1>1, <1>3, <2>6
      DEF BroadcastCalls, Base, TypeOK, Maybe, list, past, heap, polls, Sound
<1> QED
    BY <1>2, <1>3

LEMMA BaseStep == Base /\ [Next]_vars => Base'
<1> SUFFICES ASSUME Base, [Next]_vars PROVE Base'
    OBVIOUS
<1>1. CASE UserCalls
  <2>1. CASE \/ \E p \in Proc : PollProcess(p)
             \/ Malloc \/ Free
             \/ \E q \in Maybe, type \in MsgType : PostMsg(q, type) \/ SendMsg(q, type)
      BY <2>1, BaseQuietCalls
  <2>2. ASSUME NEW p \in Proc, StartProcess(p) \/ ExitProcess(p) PROVE Base'
      BY <2>2, BaseStarts
  <2>3. ASSUME NEW q \in Maybe, NEW type \in MsgType, HandleMsg(q, type) PROVE Base'
      BY <2>3, BaseHandles
  <2> QED
      BY <1>1, <2>1, <2>2, <2>3 DEF UserCalls, Maybe
<1>2. CASE Continue
    BY <1>2, BaseReturns, BaseAnnounces, BasePolls, BaseDelivers, BaseBroadcasts
    DEF Continue, SchedulerSteps
<1>3. CASE Run
    BY <1>3, BasePolls
<1>4. CASE UNCHANGED vars
    BY <1>4 DEF vars, list, past, heap, polls, Base, TypeOK, Sound, Delivering
<1> QED
    BY <1>1, <1>2, <1>3, <1>4 DEF Next

\* scheduler.c, process.c: the inductive invariant that the other theorems build
\* on, that is, the types, what each frame may find at its place in the call
\* stack, and the account of the messages in the buffer.
THEOREM Basics == Spec => []Base
<1> QED
    BY BaseInit, BaseStep, PTL DEF Spec

\* scheduler.c: every variable keeps its type. In particular the number of
\* messages in the buffer stays between 0 and its size, and the fields of the
\* frames name what the code finds there.
THEOREM Types == Spec => []TypeOK
<1>1. Base => TypeOK
    BY DEF Base
<1> QED
    BY <1>1, Basics, PTL

\* scheduler_malloc, scheduler_post_msg, scheduler_utilize_message: every message
\* in the buffer is queued, held by a caller or in delivery, so that what malloc
\* takes one free gives back.
THEOREM Accounts == Spec => []MessagesAccounted
<1>1. Base => MessagesAccounted
    BY DEF Base, MessagesAccounted, InDelivery, Delivering
<1> QED
    BY <1>1, Basics, PTL

----------------------------------------------------------------------------
(***************************************************************************)
(* Proofs about what the scheduler owes its processes while threads call   *)
(* back into it: walks that end and skip nobody, polls that are not lost.  *)
(*                                                                         *)
(* Two facts about a step carry them.  The list changes in one of two      *)
(* ways, and a frame of the new stack is new, or like one that was there,  *)
(* or the innermost loop moved on.                                         *)
(***************************************************************************)

\* The innermost loop, before and after it moves on.
Moves(f, g) ==
    \/ /\ f.op # "bcast_call" /\ LoopNext(f) # NoProc
       /\ g.op = f.op /\ g.at = LoopNext(f) /\ g.owed = f.owed \ {g.at}
    \/ /\ f.op = "bcast" /\ LoopNext(f) # NoProc
       /\ g.op = "bcast_call" /\ g.at = LoopNext(f) /\ g.owed = f.owed
    \/ /\ f.op = "bcast_call"
       /\ g.op = "bcast" /\ g.at = f.at /\ g.owed = f.owed \ {f.at}

Stays(g) == \E j \in 1..Len(stack) : Alike(stack[j], g)

\* Where the frames of the next stack t come from.
FromStack(t) ==
    \A i \in 1..Len(t) : t[i].at = NoProc \/ Stays(t[i])

FromLoop(t) ==
    \A i \in 1..Len(t) : \/ t[i].at = NoProc
                         \/ Stays(t[i])
                         \/ stack # <<>> /\ Moves(Top, t[i])

\* t is s with more frames on top, all of them new.
Pushed(s, t) ==
    /\ s \in Seq(Frame) /\ t \in Seq(Frame)
    /\ Len(s) <= Len(t)
    /\ \A i \in 1..Len(s) : t[i] = s[i]
    /\ \A i \in (Len(s) + 1)..Len(t) : t[i].at = NoProc

\* The walks of scheduler_utilize_poll are still in t, or one has just ended.
PollsKept(t) ==
    \A j \in 1..Len(stack) : stack[j].op = "poll" =>
        \/ \E i \in 1..Len(t) : t[i].op = "poll" /\ t[i].at = stack[j].at
        \/ j = Len(stack) /\ LoopNext(Top) = NoProc
        \/ /\ j = Len(stack)
           /\ \E i \in 1..Len(t) : t[i].op = "poll" /\ t[i].at = LoopNext(Top)

----------------------------------------------------------------------------
(* From stack to stack.                                                    *)

LEMMA CallPushed ==
    ASSUME NEW st, NEW p \in Proc, NEW ev \in Event, NEW rest \in Seq(Frame),
           process_current \in Maybe, CallProcess(st, p, ev, rest)
    PROVE  Pushed(rest, stack')
<1> DEFINE f == NewActivation("thread", p, ev, process_current)
<1>1. f \in Frame
    BY FrameTypes DEF Maybe, Op, Activation
<1>2. f.at = NoProc
    BY DEF NewActivation, NewFrame
<1>3. stack' = rest \/ stack' = Append(rest, f)
    BY DEF CallProcess
<1> HIDE DEF f
<1> QED
    BY <1>1, <1>2, <1>3, AppendToStack DEF Pushed

LEMMA FramePushed ==
    ASSUME NEW rest \in Seq(Frame), NEW f \in Frame, f.at = NoProc
    PROVE  Pushed(rest, Append(rest, f)) /\ Pushed(rest, rest)
    BY AppendToStack DEF Pushed

LEMMA ExitPushed ==
    ASSUME NEW p \in Proc, NEW from, NEW cur \in Maybe, NEW rest \in Seq(Frame),
           BeginExit(p, from, cur, rest)
    PROVE  Pushed(rest, stack') /\ (UNCHANGED list \/ Unlink(p))
<1> DEFINE g == NewFrame("finish", p, "FINISHED", cur)
           f == [g EXCEPT !.self = (p = from), !.owed = OnChain(process_head) \ {p}]
<1>1. g \in Frame
    BY FrameTypes DEF Maybe, Op, Loop, Event
<1>2. OnChain(process_head) \ {p} \in SUBSET Proc /\ (p = from) \in BOOLEAN
    BY DEF OnChain
<1>3. f \in Frame
    BY <1>1, <1>2, FrameFields
<1>4. f.at = NoProc
    BY DEF NewFrame
<1>5. stack' = rest \/ stack' = Append(rest, f)
    BY DEF BeginExit
<1>6. UNCHANGED list \/ Unlink(p)
    BY DEF BeginExit
<1> HIDE DEF f, g
<1> QED
    BY <1>3, <1>4, <1>5, <1>6, FramePushed

\* Frames are put on the stack of a caller that has made one of its calls.
LEMMA CallerSteps ==
    ASSUME NEW s, NEW t, stack \in Seq(Frame), Kin(stack, s), Pushed(s, t)
    PROVE  FromStack(t) /\ PollsKept(t)
<1>1. Len(stack) \in Nat /\ Len(t) \in Nat /\ Len(s) = Len(stack)
    BY LenProperties DEF Kin, Pushed
<1>2. \A i \in 1..Len(stack) : Alike(stack[i], t[i])
    BY <1>1 DEF Kin, Pushed
<1>3. FromStack(t)
    BY <1>1, <1>2 DEF FromStack, Pushed, Stays
<1>4. PollsKept(t)
    BY <1>1, <1>2 DEF PollsKept, Alike, Pushed
<1> QED
    BY <1>3, <1>4

\* The innermost frame goes.
LEMMA ReturnSteps ==
    ASSUME Sound(stack), stack # <<>>, NEW t, Pushed(Below, t),
           Top.op = "poll" => LoopNext(Top) = NoProc
    PROVE  FromStack(t) /\ PollsKept(t)
<1>1. /\ Len(stack) \in Nat \ {0} /\ Len(Below) = Len(stack) - 1
      /\ \A i \in 1..(Len(stack) - 1) : Below[i] = stack[i]
      /\ Top = stack[Len(stack)]
    BY FrontOfStack DEF Sound, Below, Top
<1>2. Len(t) \in Nat
    BY LenProperties DEF Pushed
<1>3. \A i \in 1..(Len(stack) - 1) : t[i] = stack[i] /\ Alike(stack[i], t[i])
    BY <1>1 DEF Pushed, Alike
<1>4. FromStack(t)
    BY <1>1, <1>2, <1>3 DEF FromStack, Pushed, Stays
<1>5. PollsKept(t)
  <2> SUFFICES ASSUME NEW j \in 1..Len(stack), stack[j].op = "poll"
               PROVE  \/ \E i \in 1..Len(t) : t[i].op = "poll" /\ t[i].at = stack[j].at
                      \/ j = Len(stack) /\ LoopNext(Top) = NoProc
      BY DEF PollsKept
  <2>1. CASE j = Len(stack)
      BY <2>1, <1>1
  <2>2. CASE j # Len(stack)
      BY <2>2, <1>1, <1>2, <1>3 DEF Pushed
  <2> QED
      BY <2>1, <2>2
<1> QED
    BY <1>4, <1>5

\* The innermost loop moves on.
LEMMA LoopSteps ==
    ASSUME Sound(stack), stack # <<>>, NEW g \in Frame, Moves(Top, g),
           NEW t, Pushed(Append(Below, g), t),
           Top.op = "poll" => g.op = "poll" /\ g.at = LoopNext(Top)
    PROVE  FromLoop(t) /\ PollsKept(t)
<1> DEFINE s == Append(Below, g)
<1>1. /\ Len(stack) \in Nat \ {0} /\ Len(s) = Len(stack)
      /\ \A i \in 1..(Len(stack) - 1) : s[i] = stack[i]
      /\ s[Len(stack)] = g
      /\ Top = stack[Len(stack)]
    BY FrontOfStack, ReplaceTop DEF Sound, Below, Top
<1>2. Len(t) \in Nat
    BY LenProperties DEF Pushed
<1> HIDE DEF s
<1>3. /\ \A i \in 1..(Len(stack) - 1) : t[i] = stack[i] /\ Alike(stack[i], t[i])
      /\ t[Len(stack)] = g
      /\ Len(stack) <= Len(t)
      /\ \A i \in (Len(stack) + 1)..Len(t) : t[i].at = NoProc
    BY <1>1 DEF Pushed, Alike, s
<1>4. FromLoop(t)
  <2> SUFFICES ASSUME NEW i \in 1..Len(t)
               PROVE  t[i].at = NoProc \/ Stays(t[i]) \/ Moves(Top, t[i])
      BY DEF FromLoop
  <2>1. CASE i = Len(stack)
      BY <2>1, <1>3
  <2>2. CASE i # Len(stack)
      BY <2>2, <1>1, <1>2, <1>3 DEF Stays
  <2> QED
      BY <2>1, <2>2
<1>5. PollsKept(t)
  <2> SUFFICES ASSUME NEW j \in 1..Len(stack), stack[j].op = "poll"
               PROVE  \/ \E i \in 1..Len(t) : t[i].op = "poll" /\ t[i].at = stack[j].at
                      \/ /\ j = Len(stack)
                         /\ \E i \in 1..Len(t) : t[i].op = "poll" /\ t[i].at = LoopNext(Top)
      BY DEF PollsKept
  <2>1. CASE j = Len(stack)
      BY <2>1, <1>1, <1>2, <1>3
  <2>2. CASE j # Len(stack)
      BY <2>2, <1>1, <1>2, <1>3
  <2> QED
      BY <2>1, <2>2
<1> QED
    BY <1>4, <1>5
LEMMA VisitSteps ==
    ASSUME Sound(stack), stack # <<>>, Top.op # "bcast_call",
           NEW p \in Proc, p = LoopNext(Top), NEW t, Pushed(Advanced(p), t)
    PROVE  FromLoop(t) /\ PollsKept(t)
<1> DEFINE g == [Top EXCEPT !.at = p, !.owed = @ \ {p}]
<1>1. Top \in Frame
    BY FrontOfStack DEF Sound, Top
<1>2. g \in Frame
    BY <1>1, FrameFields DEF Maybe
<1>3. g.op = Top.op /\ g.at = p /\ g.owed = Top.owed \ {p}
    BY <1>1 DEF Frame
<1>4. Advanced(p) = Append(Below, g)
    BY DEF Advanced
<1> HIDE DEF g
<1>5. Moves(Top, g)
    BY <1>3, SchedulerAssumption DEF Moves
<1> QED
    BY <1>2, <1>3, <1>4, <1>5, LoopSteps

----------------------------------------------------------------------------
(* What a step of the scheduler does to the list and to the loops.         *)

Starts(p) ==
    /\ ~Listed(p)
    /\ process_head' = p
    /\ next' = [next EXCEPT ![p] = process_head]
    /\ p \notin wanted'
    /\ \A i \in 1..Len(stack') : stack'[i].at = NoProc \/ p \notin stack'[i].owed

Steps ==
    /\ PollsKept(stack')
    /\ \/ UNCHANGED list /\ FromLoop(stack')
       \/ FromStack(stack') /\ \E p \in Proc : Unlink(p)
       \/ FromStack(stack') /\ \E p \in Proc : Starts(p)

LEMMA StackKept ==
    ASSUME stack \in Seq(Frame), stack' = stack, UNCHANGED list
    PROVE  Steps
<1>1. Kin(stack, stack) /\ Pushed(stack, stack)
    BY LenProperties DEF Kin, Alike, Pushed
<1>2. FromStack(stack) /\ PollsKept(stack)
    BY <1>1, CallerSteps
<1> QED
    BY <1>2 DEF Steps, FromStack, FromLoop

LEMMA CallerKin ==
    ASSUME Sound(stack), stack # <<>> => Top.calls > 0
    PROVE  /\ Kin(stack, Spent) /\ Spent \in Seq(Frame)
           /\ \A p \in Proc :
                /\ Kin(stack, Forget(Spent, p)) /\ Forget(Spent, p) \in Seq(Frame)
                /\ \A i \in 1..Len(Forget(Spent, p)) : p \notin Forget(Spent, p)[i].owed
<1>1. Kin(stack, Spent) /\ Spent \in Seq(Frame) /\ stack \in Seq(Frame)
    BY SpentKin DEF Sound, Kin
<1>2. ASSUME NEW p \in Proc
      PROVE  /\ Kin(stack, Forget(Spent, p)) /\ Forget(Spent, p) \in Seq(Frame)
             /\ \A i \in 1..Len(Forget(Spent, p)) : p \notin Forget(Spent, p)[i].owed
  <2>1. /\ Kin(Spent, Forget(Spent, p))
        /\ \A i \in 1..Len(Spent) : p \notin Forget(Spent, p)[i].owed
      BY <1>1, ForgetKin
  <2> QED
      BY <1>1, <2>1, KinTransitive DEF Kin
<1> QED
    BY <1>1, <1>2

LEMMA StepsOfCalls ==
    ASSUME Base, NEW p \in Proc, StartProcess(p) \/ ExitProcess(p)
    PROVE  Steps
<1>1. /\ Sound(stack) /\ stack \in Seq(Frame) /\ process_current \in Maybe
      /\ stack # <<>> => Top.calls > 0
    BY DEF Base, TypeOK, Maybe, Sound, StartProcess, ExitProcess, MayCall
<1>2. /\ Kin(stack, Spent) /\ Spent \in Seq(Frame)
      /\ Kin(stack, Forget(Spent, p)) /\ Forget(Spent, p) \in Seq(Frame)
      /\ \A i \in 1..Len(Forget(Spent, p)) : p \notin Forget(Spent, p)[i].owed
    BY <1>1, CallerKin
<1>3. Pushed(Spent, Spent)
    BY <1>2, LenProperties DEF Pushed
<1>4. CASE StartProcess(p) /\ Listed(p)
  <2>1. stack' = Spent /\ UNCHANGED list
      BY <1>4 DEF StartProcess
  <2>2. FromStack(stack') /\ PollsKept(stack')
      BY <1>1, <1>2, <1>3, <2>1, CallerSteps
  <2> QED
      BY <2>1, <2>2 DEF Steps, FromStack, FromLoop
<1>5. CASE StartProcess(p) /\ ~Listed(p)
  <2>1. /\ process_head' = p
        /\ next' = [next EXCEPT ![p] = process_head]
        /\ wanted' = wanted \ {p}
        /\ CallProcess([state EXCEPT ![p] = "RUNNING"], p, "INIT", Forget(Spent, p))
      BY <1>5 DEF StartProcess
  <2>2. Pushed(Forget(Spent, p), stack')
      BY <1>1, <1>2, <2>1, CallPushed DEF Event
  <2>3. FromStack(stack') /\ PollsKept(stack')
      BY <1>1, <1>2, <2>2, CallerSteps
  <2>4. \A i \in 1..Len(stack') : stack'[i].at = NoProc \/ p \notin stack'[i].owed
    <3>1. Len(Forget(Spent, p)) \in Nat /\ Len(stack') \in Nat
        BY <2>2, LenProperties DEF Pushed
    <3> QED
        BY <1>2, <2>2, <3>1 DEF Pushed
  <2>5. Starts(p)
      BY <1>5, <2>1, <2>4 DEF Starts
  <2> QED
      BY <2>3, <2>5 DEF Steps
<1>6. CASE ExitProcess(p)
  <2>1. BeginExit(p, process_current, process_current, Spent)
      BY <1>6 DEF ExitProcess
  <2>2. Pushed(Spent, stack') /\ (UNCHANGED list \/ Unlink(p))
      BY <1>1, <1>2, <2>1, ExitPushed
  <2>3. FromStack(stack') /\ PollsKept(stack')
      BY <1>1, <1>2, <2>2, CallerSteps
  <2> QED
      BY <2>2, <2>3 DEF Steps, FromStack, FromLoop
<1> QED
    BY <1>4, <1>5, <1>6

LEMMA StepsOfHandleMsg ==
    ASSUME Base, NEW q \in Maybe, NEW type \in MsgType, HandleMsg(q, type)
    PROVE  Steps
<1>1. /\ Sound(stack) /\ stack \in Seq(Frame) /\ process_current \in Maybe
      /\ stack # <<>> => Top.calls > 0
    BY DEF Base, TypeOK, Maybe, Sound, HandleMsg, MayCall
<1>2. Kin(stack, Spent) /\ Spent \in Seq(Frame)
    BY <1>1, CallerKin
<1>3. Pushed(Spent, stack')
  <2>1. CASE q # NoProc
    <3>1. q \in Proc /\ type \in Event /\ CallProcess(state, q, type, Spent)
        BY <2>1, SchedulerAssumption DEF HandleMsg, Maybe
    <3> QED
        BY <1>1, <1>2, <3>1, CallPushed
  <2>2. CASE q = NoProc
    <3> DEFINE g == NewFrame("hbcast", NoProc, type, NoProc)
               f == [g EXCEPT !.owed = OnChain(process_head)]
    <3>1. g \in Frame
        BY FrameTypes, SchedulerAssumption DEF Maybe, Op, Loop
    <3>2. OnChain(process_head) \in SUBSET Proc
        BY DEF OnChain
    <3>3. f \in Frame
        BY <3>1, <3>2, FrameFields
    <3>4. f.at = NoProc
        BY DEF NewFrame
    <3>5. stack' = Append(Spent, f)
        BY <2>2 DEF HandleMsg
    <3> HIDE DEF f, g
    <3> QED
        BY <1>2, <3>3, <3>4, <3>5, FramePushed
  <2> QED
      BY <2>1, <2>2
<1>4. FromStack(stack') /\ PollsKept(stack')
    BY <1>1, <1>2, <1>3, CallerSteps
<1>5. UNCHANGED list
    BY DEF HandleMsg
<1> QED
    BY <1>4, <1>5 DEF Steps, FromStack, FromLoop

\* Steps after which the innermost frame is gone.
LEMMA StepsOfReturns ==
    ASSUME Base,
           \/ ThreadReturns \/ FinishEnds \/ HandleEnds \/ PollEnds
           \/ RunTakesNoMessage \/ RunTakesMessage \/ Delivered
    PROVE  Steps
<1>1. Sound(stack) /\ TypeOK /\ process_current \in Maybe
    BY DEF Base, TypeOK, Maybe
<1>2. PICK op \in Op : Running(op)
    BY DEF ThreadReturns, ThreadYields, ThreadEnds, ExitThreadReturns, FinishEnds,
           HandleEnds, PollEnds, RunTakesNoMessage, RunTakesMessage, Delivered,
           Op, Loop, Activation
<1>3. /\ stack # <<>> /\ Below \in Seq(Frame) /\ Top.caller \in Maybe
      /\ Top.op = op /\ (op \in Activation \cup Exiting => Top.proc \in Proc)
      /\ op \in Bottom => Below = <<>>
    BY <1>1, <1>2, TopFrame DEF Sound
<1>4. Pushed(Below, Below)
    BY <1>3, LenProperties DEF Pushed
<1>5. ASSUME Pushed(Below, stack'), Top.op = "poll" => LoopNext(Top) = NoProc,
             UNCHANGED list \/ \E p \in Proc : Unlink(p)
      PROVE  Steps
  <2>1. FromStack(stack') /\ PollsKept(stack')
      BY <1>1, <1>3, <1>5, ReturnSteps
  <2> QED
      BY <1>5, <2>1 DEF Steps, FromStack, FromLoop
<1>6. CASE ThreadYields
    BY <1>4, <1>5, <1>6 DEF ThreadYields, Running
<1>7. CASE ThreadEnds
  <2>1. /\ Top.op = "thread" /\ Top.proc \in Proc
        /\ BeginExit(Top.proc, Top.proc, Top.caller, Below)
      BY <1>2, <1>3, <1>7 DEF ThreadEnds, Running, Activation
  <2>2. Pushed(Below, stack') /\ (UNCHANGED list \/ Unlink(Top.proc))
      BY <1>3, <2>1, ExitPushed
  <2> QED
      BY <1>5, <2>1, <2>2
<1>8. CASE ExitThreadReturns
    BY <1>3, <1>4, <1>5, <1>8 DEF ExitThreadReturns, Running, Activation
<1>9. CASE FinishEnds
  <2>1. Top.op = "finish" /\ Top.proc \in Proc
      BY <1>3, <1>9 DEF FinishEnds, Running, Exiting
  <2>2. CASE Top.self
      BY <1>4, <1>5, <1>9, <2>1, <2>2 DEF FinishEnds
  <2>3. CASE ~Top.self
    <3> DEFINE f == NewActivation("exit", Top.proc, "EXIT", Top.caller)
    <3>1. f \in Frame
        BY <1>3, <2>1, FrameTypes DEF Op, Activation, Event, Maybe
    <3>2. f.at = NoProc
        BY DEF NewActivation, NewFrame
    <3>3. stack' = Append(Below, f) /\ UNCHANGED list
        BY <1>9, <2>3 DEF FinishEnds
    <3> HIDE DEF f
    <3>4. Pushed(Below, stack')
        BY <1>3, <3>1, <3>2, <3>3, FramePushed
    <3> QED
        BY <1>5, <2>1, <3>3, <3>4
  <2> QED
      BY <2>2, <2>3
<1>10. CASE HandleEnds
    BY <1>4, <1>5, <1>10 DEF HandleEnds
<1>11. CASE PollEnds
    BY <1>4, <1>5, <1>11 DEF PollEnds
<1>12. CASE RunTakesNoMessage
  <2>1. Below = <<>> /\ Top.op = "run"
      BY <1>3, <1>12 DEF RunTakesNoMessage, Running, Bottom
  <2> QED
      BY <1>4, <1>5, <1>12, <2>1 DEF RunTakesNoMessage
<1>13. CASE Delivered
    BY <1>3, <1>4, <1>5, <1>13 DEF Delivered, Running
<1>14. CASE RunTakesMessage
  <2> DEFINE msg == Head(messages)
  <2>1. Below = <<>> /\ Top.op = "run" /\ UNCHANGED list
      BY <1>3, <1>14 DEF RunTakesMessage, Running, Bottom
  <2>2. msg.to \in Maybe /\ msg.type \in Event
    <3> DEFINE Msg == [to : Proc \cup {NoProc}, type : MsgType]
    <3>1. messages \in Seq(Msg) /\ messages # <<>>
        BY <1>1, <1>14 DEF RunTakesMessage, TypeOK
    <3>2. Head(messages) \in Msg
        BY <3>1, HeadTailProperties
    <3> QED
        BY <3>2, SchedulerAssumption DEF Maybe
  <2> DEFINE d == NewFrame("deliver", msg.to, msg.type, NoProc)
             b == NewFrame("bcast", NoProc, msg.type, NoProc)
             c == [b EXCEPT !.owed = OnChain(process_head)]
  <2>3. d \in Frame /\ c \in Frame
    <3>1. d \in Frame /\ b \in Frame
        BY <2>2, FrameTypes DEF Maybe, Op, Loop
    <3>2. OnChain(process_head) \in SUBSET Proc
        BY DEF OnChain
    <3> QED
        BY <3>1, <3>2, FrameFields
  <2>4. d.at = NoProc /\ c.at = NoProc
      BY DEF NewFrame
  <2>5. ASSUME NEW e \in Frame, e.at = NoProc, NEW t, Pushed(<<e>>, t)
        PROVE  Pushed(<<>>, t)
    <3>1. Len(<<e>>) = 1 /\ <<e>>[1] = e /\ Len(t) \in Nat
        BY <2>5, LenProperties DEF Pushed
    <3>2. t \in Seq(Frame) /\ 1 <= Len(t) /\ t[1] = e /\ \A i \in 2..Len(t) : t[i].at = NoProc
        BY <2>5, <3>1 DEF Pushed
    <3> QED
        BY <2>5, <3>1, <3>2, EmptySeq DEF Pushed
  <2>6. CASE msg.to # NoProc
    <3> DEFINE st == IF msg.type = "INIT" THEN [state EXCEPT ![msg.to] = "RUNNING"]
                     ELSE state
    <3>1. CallProcess(st, msg.to, msg.type, <<d>>)
        BY <1>14, <2>6 DEF RunTakesMessage
    <3>2. msg.to \in Proc /\ <<d>> \in Seq(Frame)
        BY <2>2, <2>3, <2>6 DEF Maybe
    <3> HIDE DEF st, d, c, b, msg
    <3>3. Pushed(<<d>>, stack')
        BY <1>1, <2>2, <3>1, <3>2, CallPushed
    <3> QED
        BY <1>5, <2>1, <2>3, <2>4, <2>5, <3>3
  <2>7. CASE msg.to = NoProc
    <3>1. stack' = <<c>>
        BY <1>14, <2>7 DEF RunTakesMessage
    <3> HIDE DEF c, b, d, msg
    <3>2. <<c>> \in Seq(Frame)
        BY <2>3
    <3>3. Pushed(<<c>>, stack')
        BY <2>3, <2>4, <3>1, <3>2, FramePushed
    <3> QED
        BY <1>5, <2>1, <2>3, <2>4, <2>5, <3>3
  <2> QED
      BY <2>6, <2>7
<1> QED
    BY <1>6, <1>7, <1>8, <1>9, <1>10, <1>11, <1>12, <1>13, <1>14 DEF ThreadReturns
\* Steps of loops that visit a process, and the beginning of an iteration.
LEMMA StepsOfVisits ==
    ASSUME Base, FinishVisits \/ HandleVisits \/ PollVisits
    PROVE  Steps
<1> DEFINE p == LoopNext(Top)
<1>1. Sound(stack) /\ TypeOK /\ process_current \in Maybe
    BY DEF Base, TypeOK, Maybe
<1>2. PICK op \in {"finish", "hbcast", "poll"} : Running(op)
    BY DEF FinishVisits, HandleVisits, PollVisits
<1>3. /\ stack # <<>> /\ Top \in Frame /\ Top.op # "bcast_call" /\ Top.ev \in Event
      /\ p \in Proc
    BY <1>1, <1>2, TopFrame, NextIsProcess DEF FinishVisits, HandleVisits, PollVisits, Maybe
<1>4. UNCHANGED list
    BY DEF FinishVisits, HandleVisits, PollVisits
<1>5. Advanced(p) \in Seq(Frame)
    BY <1>1, <1>3, AdvancedSound DEF Sound
<1>6. \/ stack' = Advanced(p)
      \/ \E st : \E ev \in Event : CallProcess(st, p, ev, Advanced(p))
  <2>1. CASE FinishVisits
      BY <2>1 DEF FinishVisits, Event
  <2>2. CASE HandleVisits
      BY <1>3, <2>2 DEF HandleVisits
  <2>3. CASE PollVisits
      BY <2>3 DEF PollVisits, Event
  <2> QED
      BY <2>1, <2>2, <2>3
<1>7. Pushed(Advanced(p), stack')
  <2>1. CASE stack' = Advanced(p)
      BY <1>5, <2>1, LenProperties DEF Pushed
  <2>2. CASE \E st : \E ev \in Event : CallProcess(st, p, ev, Advanced(p))
      BY <1>1, <1>3, <1>5, <2>2, CallPushed
  <2> QED
      BY <1>6, <2>1, <2>2
<1> HIDE DEF p
<1>8. FromLoop(stack') /\ PollsKept(stack')
    BY <1>1, <1>3, <1>7, VisitSteps DEF p
<1> QED
    BY <1>4, <1>8 DEF Steps

LEMMA StepsOfBroadcasts ==
    ASSUME Base, BroadcastVisits \/ BroadcastCalls
    PROVE  Steps
<1>1. Sound(stack) /\ TypeOK /\ process_current \in Maybe
    BY DEF Base, TypeOK, Maybe
<1>2. CASE BroadcastVisits
  <2> DEFINE p == LoopNext(Top)
             f == [Top EXCEPT !.op = "bcast_call", !.at = p]
             g == NewFrame("poll", NoProc, "POLL", NoProc)
  <2>1. /\ stack # <<>> /\ Top.op = "bcast" /\ Top \in Frame /\ Top.ev \in Event
        /\ p \in Proc /\ Below \in Seq(Frame)
      BY <1>1, <1>2, TopFrame, NextIsProcess DEF BroadcastVisits, Maybe, Sound
  <2>2. CASE poll_requested = 1
    <3>1. stack' = Append(Append(Below, f), g)
        BY <1>2, <2>2 DEF BroadcastVisits, BeginPoll
    <3>2. f \in Frame /\ f.op = "bcast_call" /\ f.at = p /\ f.owed = Top.owed
      <4>1. "bcast_call" \in Op /\ p \in Maybe
          BY <2>1 DEF Op, Maybe
      <4>2. f \in Frame
          BY <2>1, <4>1, FrameFields
      <4> QED
          BY <2>1, <4>2 DEF Frame
    <3>3. g \in Frame /\ g.at = NoProc
      <4>1. g \in Frame
          BY FrameTypes, SchedulerAssumption DEF Maybe, Op, Loop, Event
      <4> QED
          BY <4>1 DEF NewFrame
    <3>4. Moves(Top, f)
        BY <2>1, <3>2, SchedulerAssumption DEF Moves
    <3> HIDE DEF f, g, p
    <3>5. Pushed(Append(Below, f), stack')
      <4>1. Append(Below, f) \in Seq(Frame)
          BY <2>1, <3>2, AppendToStack
      <4> QED
          BY <3>1, <3>3, <4>1, FramePushed
    <3> QED
        BY <1>1, <1>2, <2>1, <3>2, <3>4, <3>5, LoopSteps DEF Steps, BroadcastVisits
  <2>3. CASE poll_requested = 0
    <3>1. CallProcess(state, p, Top.ev, Advanced(p))
        BY <1>2, <2>3 DEF BroadcastVisits
    <3> HIDE DEF p
    <3>2. Pushed(Advanced(p), stack')
        BY <1>1, <2>1, <3>1, AdvancedSound, CallPushed DEF Sound
    <3>3. FromLoop(stack') /\ PollsKept(stack')
        BY <1>1, <2>1, <3>2, VisitSteps DEF p
    <3> QED
        BY <1>2, <3>3 DEF Steps, BroadcastVisits
  <2> QED
      BY <1>2, <2>2, <2>3 DEF BroadcastVisits
<1>3. CASE BroadcastCalls
  <2> DEFINE f == [Top EXCEPT !.op = "bcast", !.owed = @ \ {Top.at}]
  <2>1. /\ stack # <<>> /\ Top.op = "bcast_call" /\ Top \in Frame /\ Top.ev \in Event
        /\ Top = Last(stack) /\ Below \in Seq(Frame) /\ Top.at \in Maybe
      BY <1>1, <1>3, TopFrame DEF BroadcastCalls, Sound
  <2>2. Top.at \in Proc
    <3>1. Len(stack) \in Nat \ {0} /\ Top = stack[Len(stack)]
        BY <1>1, <2>1, FrontOfStack DEF Sound
    <3> QED
        BY <1>1, <2>1, <3>1 DEF Sound, FrameSound
  <2>3. f \in Frame /\ f.op = "bcast" /\ f.at = Top.at /\ f.owed = Top.owed \ {Top.at}
    <3>1. "bcast" \in Op
        BY DEF Op, Loop
    <3>2. f \in Frame
        BY <2>1, <3>1, FrameFields
    <3> QED
        BY <2>1, <3>2 DEF Frame
  <2>4. CallProcess(state, Top.at, Top.ev, Append(Below, f)) /\ UNCHANGED list
      BY <1>3 DEF BroadcastCalls
  <2> HIDE DEF f
  <2>5. Moves(Top, f)
      BY <2>1, <2>3 DEF Moves
  <2>6. Pushed(Append(Below, f), stack')
      BY <1>1, <2>1, <2>2, <2>3, <2>4, AppendToStack, CallPushed
  <2> QED
      BY <1>1, <2>1, <2>3, <2>4, <2>5, <2>6, LoopSteps DEF Steps
<1> QED
    BY <1>2, <1>3

LEMMA StepsOfRun ==
    ASSUME Base, Run
    PROVE  Steps
<1> DEFINE f == NewFrame("run", NoProc, "USER", NoProc)
           g == NewFrame("poll", NoProc, "POLL", NoProc)
<1>1. stack = <<>> /\ (stack' = Append(stack, f) \/ stack' = Append(Append(stack, f), g))
    BY DEF Run, BeginPoll
<1>2. f \in Frame /\ g \in Frame
    BY FrameTypes DEF Maybe, Op, Loop, Event
<1>3. f.at = NoProc /\ g.at = NoProc
    BY DEF NewFrame
<1> HIDE DEF f, g
<1>4. stack \in Seq(Frame) /\ Kin(stack, stack)
    BY <1>1, EmptySeq DEF Kin, Alike
<1>5. /\ Append(stack, f) \in Seq(Frame)
      /\ Pushed(stack, Append(stack, f))
      /\ Pushed(Append(stack, f), Append(Append(stack, f), g))
    BY <1>2, <1>3, <1>4, FramePushed, AppendToStack
<1>6. Pushed(stack, Append(Append(stack, f), g))
  <2>1. /\ Len(stack) = 0
        /\ Len(Append(stack, f)) = 1 /\ Append(stack, f)[1] = f
      BY <1>1, <1>2, <1>4, AppendToStack
  <2>2. Append(Append(stack, f), g) \in Seq(Frame) /\ Len(Append(Append(stack, f), g)) \in Nat
      BY <1>5, LenProperties DEF Pushed
  <2> QED
      BY <1>3, <1>4, <1>5, <2>1, <2>2 DEF Pushed
<1>7. Pushed(stack, stack')
    BY <1>1, <1>5, <1>6
<1>8. FromStack(stack') /\ PollsKept(stack')
    BY <1>4, <1>7, CallerSteps
<1> QED
    BY <1>8 DEF Steps, FromStack, FromLoop, Run

LEMMA StepsOfNext == Base /\ [Next]_vars => Steps
<1> SUFFICES ASSUME Base, [Next]_vars PROVE Steps
    OBVIOUS
<1>1. stack \in Seq(Frame)
    BY DEF Base, Sound
<1>2. CASE UserCalls
  <2>1. CASE \/ \E p \in Proc : PollProcess(p)
             \/ Malloc \/ Free
             \/ \E q \in Maybe, type \in MsgType : PostMsg(q, type) \/ SendMsg(q, type)
      BY <1>1, <2>1, StackKept DEF PollProcess, Malloc, Free, PostMsg, SendMsg
  <2>2. ASSUME NEW p \in Proc, StartProcess(p) \/ ExitProcess(p) PROVE Steps
      BY <2>2, StepsOfCalls
  <2>3. ASSUME NEW q \in Maybe, NEW type \in MsgType, HandleMsg(q, type) PROVE Steps
      BY <2>3, StepsOfHandleMsg
  <2> QED
      BY <1>2, <2>1, <2>2, <2>3 DEF UserCalls, Maybe
<1>3. CASE Continue
    BY <1>3, StepsOfReturns, StepsOfVisits, StepsOfBroadcasts DEF Continue, SchedulerSteps
<1>4. CASE Run
    BY <1>4, StepsOfRun
<1>5. CASE UNCHANGED vars
    BY <1>1, <1>5, StackKept DEF vars, list
<1> QED
    BY <1>2, <1>3, <1>4, <1>5 DEF Next

----------------------------------------------------------------------------
(* Walks end.                                                              *)

\* The model's chains are walks along the next fields, before a step and after.
LEMMA Chains ==
    /\ \A p : OnChain(p) = Reach(next, p)
    /\ \A p : OnChain(p)' = Reach(next', p)
    /\ \A p : Listed(p) <=> p \in Reach(next, process_head)
    /\ \A p : Listed(p)' <=> p \in Reach(next', process_head')
    /\ WalksEnd <=> Acyclic(next)
    /\ WalksEnd' <=> Acyclic(next')
BY DEF OnChain, Closed, Listed, Reach, ClosedIn, WalksEnd, Acyclic

LEMMA WalksStep == Base /\ WalksEnd /\ [Next]_vars => WalksEnd'
<1> SUFFICES ASSUME Base, Acyclic(next), [Next]_vars PROVE Acyclic(next')
    BY Chains
<1>1. next \in [Proc -> Maybe] /\ process_head \in Maybe
    BY DEF Base, TypeOK, Maybe
<1>2. Steps
    BY StepsOfNext
<1>3. CASE UNCHANGED list
    BY <1>3 DEF list
<1>4. ASSUME NEW p \in Proc, Unlink(p) PROVE Acyclic(next')
    BY <1>1, <1>4, UnlinkEffect, UnlinkAcyclic
<1>5. ASSUME NEW p \in Proc, Starts(p) PROVE Acyclic(next')
  <2>1. p \notin Reach(next, process_head)
      BY <1>5, Chains DEF Starts
  <2>2. Link(next, next', p, process_head) /\ next' \in [Proc -> Maybe]
      BY <1>1, <1>5 DEF Starts, Link
  <2> QED
      BY <1>1, <2>1, <2>2, StartAcyclic
<1> QED
    BY <1>2, <1>3, <1>4, <1>5 DEF Steps

LEMMA WalksInit == Init => WalksEnd
<1> SUFFICES ASSUME Init PROVE WalksEnd
    OBVIOUS
<1>1. next \in [Proc -> Maybe] /\ \A p \in Proc : next[p] = NoProc
    BY DEF Init, InitProcesses, Maybe
<1>2. Reach(next, NoProc) = {}
    BY <1>1, ReachBasics DEF Maybe
<1> QED
    BY <1>1, <1>2, Chains DEF WalksEnd

\* No order of starts, exits and unlinks, however nested, ties the list or the
\* next fields of unlinked processes into a ring: every loop of scheduler.c
\* comes to NULL.
THEOREM WalksAlwaysEnd == Spec => []WalksEnd
<1> QED
    BY Basics, BaseStep, WalksInit, WalksStep, PTL DEF Spec
----------------------------------------------------------------------------
(* What is ahead of a loop.                                                *)

\* Where a loop goes on that visited a last, on a list with head h.
From(h, n, a) == IF a = NoProc THEN h ELSE n[a]

\* An unlinked process is no longer listed.
LEMMA UnlinkGone ==
    ASSUME process_head \in Maybe, next \in [Proc -> Maybe], Acyclic(next),
           NEW p \in Proc, Unlink(p)
    PROVE  p \notin Reach(next', process_head')
<1>1. /\ process_head' \in Maybe
      /\ next' \in [Proc -> Maybe]
      /\ next[p] \in Maybe
    BY UnlinkEffect
<1>2. CASE process_head = p
    BY <1>2, UnlinkEffect DEF Acyclic
<1>3. CASE process_head # p
  <2> DEFINE T == Reach(next, process_head) \ {p}
  <2>1. /\ Reach(next, process_head) \in SUBSET Proc
        /\ ClosedIn(next, Reach(next, process_head))
        /\ process_head # NoProc => process_head \in Reach(next, process_head)
      BY ReachBasics
  <2>2. process_head' = process_head /\ T \in SUBSET Proc
        /\ (process_head' # NoProc => process_head' \in T)
      BY <1>3, <2>1, UnlinkEffect
  <2>3. ClosedIn(next', T)
    <3> SUFFICES ASSUME NEW q \in T, next'[q] # NoProc
                 PROVE  next'[q] \in T
        BY DEF ClosedIn
    <3>1. q \in Proc /\ Listed(q) /\ q \in Reach(next, process_head)
        BY <2>1, Chains
    <3>2. next'[q] = IF next[q] = p THEN next[p] ELSE next[q]
        BY <1>3, <3>1 DEF Unlink
    <3>3. CASE next[q] # p
        BY <2>1, <3>1, <3>2, <3>3 DEF ClosedIn
    <3>4. CASE next[q] = p
      <4>1. p \in Reach(next, process_head)
          BY <2>1, <3>1, <3>4, SchedulerAssumption DEF ClosedIn
      <4>2. next[p] \in Reach(next, process_head)
          BY <2>1, <3>2, <3>4, <4>1 DEF ClosedIn
      <4>3. next[p] # p
          BY <1>1, <4>2, <2>1, ReachBasics, SchedulerAssumption DEF Acyclic
      <4> QED
          BY <3>2, <3>4, <4>2, <4>3
    <3> QED
        BY <3>3, <3>4
  <2>4. Reach(next', process_head') \subseteq T
      BY <1>1, <2>2, <2>3, ReachBasics
  <2> QED
      BY <2>4
<1> QED
    BY <1>2, <1>3

\* Unlinking takes nobody else off the list, and puts nobody on it.
LEMMA UnlinkListed ==
    ASSUME process_head \in Maybe, next \in [Proc -> Maybe], Acyclic(next),
           NEW p \in Proc, Unlink(p)
    PROVE  Reach(next', process_head') = Reach(next, process_head) \ {p}
<1>1. /\ process_head' \in Maybe /\ next' \in [Proc -> Maybe]
      /\ Bypass(next, next', p)
      /\ process_head' = process_head \/ (process_head = p /\ process_head' = next[p])
    BY UnlinkEffect
<1>2. /\ Reach(next', process_head') \subseteq Reach(next, process_head)
      /\ Reach(next, process_head) \ {p} \subseteq Reach(next', process_head')
    BY <1>1, UnlinkReach
<1> QED
    BY <1>2, UnlinkGone

\* A started process is listed, and nobody is taken off the list.
LEMMA StartListed ==
    ASSUME process_head \in Maybe, next \in [Proc -> Maybe],
           NEW p \in Proc, Starts(p)
    PROVE  Reach(next', process_head') = Reach(next, process_head) \cup {p}
<1>1. /\ p \notin Reach(next, process_head)
      /\ Link(next, next', p, process_head)
      /\ next' \in [Proc -> Maybe] /\ next'[p] = process_head /\ process_head' = p
    BY Chains DEF Starts, Link
<1>2. Reach(next', process_head) = Reach(next, process_head)
    BY <1>1, StartReach
<1>3. Reach(next', p) = {p} \cup Reach(next', next'[p])
    BY <1>1, ReachStep
<1> QED
    BY <1>1, <1>2, <1>3

\* A listed process that is ahead of a loop stays ahead of it, until it is
\* unlinked or started anew.
LEMMA AheadKept ==
    ASSUME Base, WalksEnd, NEW a \in Maybe, NEW q \in Proc,
           \/ UNCHANGED list
           \/ \E p \in Proc : Unlink(p)
           \/ \E p \in Proc : Starts(p) /\ p # q,
           Listed(q)'
    PROVE  /\ Listed(q)
           /\ q \in Reach(next, From(process_head, next, a))
                => q \in Reach(next', From(process_head', next', a))
<1>1. next \in [Proc -> Maybe] /\ process_head \in Maybe /\ Acyclic(next)
    BY Chains DEF Base, TypeOK, Maybe
<1>2. q \in Reach(next', process_head')
    BY Chains
<1> DEFINE x == From(process_head, next, a)
           y == From(process_head', next', a)
<1>3. x \in Maybe
    BY <1>1 DEF From, Maybe
<1>4. CASE UNCHANGED list
    BY <1>4, Chains, <1>2 DEF list, From
<1>5. ASSUME NEW p \in Proc, Unlink(p)
      PROVE  Listed(q) /\ (q \in Reach(next, x) => q \in Reach(next', y))
  <2>1. Reach(next', process_head') = Reach(next, process_head) \ {p}
      BY <1>1, <1>5, UnlinkListed
  <2>2. /\ next' \in [Proc -> Maybe] /\ process_head' \in Maybe
        /\ Bypass(next, next', p)
        /\ process_head' = process_head \/ (process_head = p /\ process_head' = next[p])
      BY <1>1, <1>5, UnlinkEffect
  <2>3. y = x \/ (x = p /\ y = next[p])
      BY <2>2 DEF From, Bypass, Maybe
  <2>4. y \in Maybe
      BY <2>2 DEF From, Maybe
  <2> HIDE DEF x, y
  <2>5. Reach(next, x) \ {p} \subseteq Reach(next', y)
      BY <1>1, <1>3, <2>2, <2>3, <2>4, UnlinkReach
  <2> QED
      BY <1>2, <2>1, <2>5, Chains
<1>6. ASSUME NEW p \in Proc, Starts(p), p # q
      PROVE  Listed(q) /\ (q \in Reach(next, x) => q \in Reach(next', y))
  <2>1. Reach(next', process_head') = Reach(next, process_head) \cup {p}
      BY <1>1, <1>6, StartListed
  <2>2. Listed(q) /\ q \in Reach(next, process_head)
      BY <1>2, <1>6, <2>1, Chains
  <2>3. /\ p \notin Reach(next, process_head)
        /\ Link(next, next', p, process_head)
        /\ next' \in [Proc -> Maybe] /\ next'[p] = process_head /\ process_head' = p
      BY <1>1, <1>6, Chains DEF Starts, Link
  <2>4. Reach(next', process_head) = Reach(next, process_head)
      BY <1>1, <2>3, StartReach
  <2>5. CASE a = NoProc
    <3>1. y = process_head'
        BY <2>5 DEF From
    <3> QED
        BY <1>2, <2>2, <3>1
  <2>6. CASE a = p
    <3>1. y = process_head
        BY <2>3, <2>6, SchedulerAssumption DEF From
    <3> QED
        BY <2>2, <2>4, <3>1
  <2>7. CASE a # NoProc /\ a # p
    <3>1. y = x
        BY <2>3, <2>7 DEF From, Link, Maybe
    <3> HIDE DEF x, y
    <3>2. Reach(next, x) \cap Reach(next, process_head) \subseteq Reach(next', x)
        BY <1>1, <1>3, <2>3, StartReach
    <3> QED
        BY <2>2, <3>1, <3>2
  <2> QED
      BY <2>2, <2>5, <2>6, <2>7
<1> QED
    BY <1>4, <1>5, <1>6
----------------------------------------------------------------------------
(* Nobody is skipped.  A loop's debt is settled when it visits a process,  *)
(* so except between the polls of a broadcast and the call that follows,   *)
(* the last one visited is not in it.                                      *)

Pays(h, n, f) ==
    /\ f.op # "bcast_call" => f.at \notin f.owed
    /\ \A q \in f.owed : q \in Reach(n, h) => q \in Reach(n, From(h, n, f.at)) \cup {f.at}

AllPay == \A i \in 1..Len(stack) : Pays(process_head, next, stack[i])

\* A frame that is new, or like one there was, or the loop that moved on.
LEMMA PaysKept ==
    ASSUME Base, WalksEnd, NEW f \in Frame, Pays(process_head, next, f), NEW g \in Frame, Alike(f, g),
           \/ UNCHANGED list
           \/ \E p \in Proc : Unlink(p)
           \/ \E p \in Proc : Starts(p) /\ p \notin g.owed
    PROVE  Pays(process_head', next', g)
<1>1. g.at = f.at /\ g.op = f.op /\ g.owed \subseteq f.owed /\ g.owed \subseteq Proc
      /\ g.at \in Maybe
    BY DEF Alike, Frame, Maybe
<1>2. ASSUME NEW q \in g.owed, Listed(q)'
      PROVE  q \in Reach(next', From(process_head', next', g.at)) \cup {g.at}
  <2>1. \/ UNCHANGED list
        \/ \E p \in Proc : Unlink(p)
        \/ \E p \in Proc : Starts(p) /\ p # q
      OBVIOUS
  <2>2. Listed(q)
      BY <1>1, <1>2, <2>1, AheadKept
  <2>3. CASE q = g.at
      BY <2>3
  <2>4. CASE q \in Reach(next, From(process_head, next, g.at))
      BY <1>1, <1>2, <2>1, <2>4, AheadKept
  <2> QED
      BY <1>1, <2>2, <2>3, <2>4, Chains DEF Pays
<1> QED
    BY <1>1, <1>2, Chains DEF Pays

LEMMA PaysFresh ==
    ASSUME NEW g \in Frame, g.at = NoProc
    PROVE  Pays(process_head, next, g) /\ Pays(process_head', next', g)
<1>1. g.at \notin g.owed
    BY SchedulerAssumption DEF Frame
<1>2. Pays(process_head, next, g)
    BY <1>1, Chains DEF Pays, From
<1>3. Pays(process_head', next', g)
    BY <1>1, Chains DEF Pays, From
<1> QED
    BY <1>2, <1>3

LEMMA PaysMoved ==
    ASSUME Base, NEW f \in Frame, Pays(process_head, next, f), NEW g \in Frame, Moves(f, g), UNCHANGED list
    PROVE  Pays(process_head', next', g)
<1>1. next \in [Proc -> Maybe] /\ process_head \in Maybe
    BY DEF Base, TypeOK, Maybe
<1> DEFINE x == From(process_head, next, f.at)
<1>2. x = LoopNext(f) /\ x \in Maybe
    BY <1>1 DEF LoopNext, From, Frame, Maybe
<1>3. Pays(process_head, next, g)
  <2>1. CASE x # NoProc /\ g.at = x /\ g.op = f.op /\ f.op # "bcast_call"
             /\ g.owed = f.owed \ {g.at}
    <3>1. Reach(next, x) = {x} \cup Reach(next, next[x])
        BY <1>1, <1>2, <2>1, ReachStep DEF Maybe
    <3>2. From(process_head, next, g.at) = next[x]
        BY <2>1 DEF From
    <3> HIDE DEF x
    <3> QED
        BY <2>1, <3>1, <3>2 DEF Pays, x
  <2>2. CASE x # NoProc /\ g.at = x /\ f.op = "bcast" /\ g.op = "bcast_call"
             /\ g.owed = f.owed
    <3>1. Reach(next, x) = {x} \cup Reach(next, next[x])
        BY <1>1, <1>2, <2>2, ReachStep DEF Maybe
    <3>2. From(process_head, next, g.at) = next[x]
        BY <2>2 DEF From
    <3> HIDE DEF x
    <3> QED
        BY <2>2, <3>1, <3>2 DEF Pays, x
  <2>3. CASE g.op = "bcast" /\ g.at = f.at /\ g.owed = f.owed \ {f.at}
      BY <2>3 DEF Pays
  <2> QED
      BY <1>2, <2>1, <2>2, <2>3 DEF Moves
<1>4. process_head' = process_head /\ next' = next
    BY DEF list
<1> QED
    BY <1>3, <1>4

LEMMA PayStep == Base /\ Base' /\ WalksEnd /\ AllPay /\ [Next]_vars => AllPay'
<1> SUFFICES ASSUME Base, Base', WalksEnd, AllPay, [Next]_vars,
                    NEW i \in 1..Len(stack')
             PROVE  Pays(process_head', next', stack'[i])
    BY DEF AllPay
<1> DEFINE g == stack'[i]
<1>1. Steps
    BY StepsOfNext
<1>2. stack \in Seq(Frame) /\ stack' \in Seq(Frame)
    BY DEF Base, Sound
<1>3. g \in Frame /\ \A j \in 1..Len(stack) : stack[j] \in Frame /\ Pays(process_head, next, stack[j])
    BY <1>2, ElementOfSeq DEF AllPay
<1> HIDE DEF g
<1>4. CASE g.at = NoProc
    BY <1>3, <1>4, PaysFresh DEF g
<1>5. CASE Stays(g) /\ g.at # NoProc
  <2>1. PICK j \in 1..Len(stack) : Alike(stack[j], g)
      BY <1>5 DEF Stays
  <2>2. \/ UNCHANGED list
        \/ \E p \in Proc : Unlink(p)
        \/ \E p \in Proc : Starts(p) /\ p \notin g.owed
      BY <1>1, <1>5 DEF Steps, Starts, g
  <2>3. Pays(process_head', next', g)
      BY <1>3, <2>1, <2>2, PaysKept
  <2> QED
      BY <2>3 DEF g
<1>6. CASE stack # <<>> /\ Moves(Top, g) /\ UNCHANGED list
  <2>1. Len(stack) \in Nat \ {0} /\ Top = stack[Len(stack)]
      BY <1>2, <1>6, FrontOfStack DEF Top
  <2>2. Pays(process_head', next', g)
      BY <1>3, <1>6, <2>1, PaysMoved
  <2> QED
      BY <2>2 DEF g
<1> QED
    BY <1>1, <1>4, <1>5, <1>6 DEF Steps, FromStack, FromLoop, g

LEMMA PayInit == Init => AllPay
BY EmptySeq DEF Init, AllPay

\* A process that was on the list when a loop of the scheduler began, and has
\* been neither unlinked nor started anew since, is visited or still ahead,
\* whatever the called threads do to the list around the loop's position.
THEOREM NobodyIsSkipped == Spec => []NobodySkipped
<1>1. Base /\ AllPay => NobodySkipped
  <2> SUFFICES ASSUME Base, AllPay, NEW f \in Frames, NEW p \in f.owed, Listed(p)
               PROVE  p \in Ahead(f) \cup {f.at}
      BY DEF NobodySkipped
  <2>1. stack \in Seq(Frame) /\ DOMAIN stack = 1..Len(stack)
      BY LenProperties DEF Base, Sound
  <2>2. Pays(process_head, next, f)
      BY <2>1 DEF Frames, AllPay
  <2>3. Ahead(f) = Reach(next, From(process_head, next, f.at))
      BY Chains DEF Ahead, LoopNext, From
  <2> QED
      BY <2>2, <2>3, Chains DEF Pays
<1> QED
    BY <1>1, Basics, BaseStep, WalksAlwaysEnd, PayInit, PayStep, PTL DEF Spec
----------------------------------------------------------------------------
(* No poll is lost.                                                        *)

\* A request stands, or the polls that are owed are no more than before, a
\* request that was taken back has begun a walk, and a walk that moves on has
\* served the process it comes to.
PollSteps ==
    \/ poll_requested' = 1
    \/ /\ wanted' \subseteq wanted
       /\ \/ poll_requested' = poll_requested
          \/ \E i \in 1..Len(stack') : stack'[i].op = "poll" /\ stack'[i].at = NoProc
       /\ Running("poll") /\ LoopNext(Top) # NoProc => LoopNext(Top) \notin wanted'

LEMMA WalkBegins ==
    ASSUME NEW f \in Frame, stack' = Append(<<f>>, NewFrame("poll", NoProc, "POLL", NoProc))
    PROVE  \E i \in 1..Len(stack') : stack'[i].op = "poll" /\ stack'[i].at = NoProc
<1> DEFINE g == NewFrame("poll", NoProc, "POLL", NoProc)
<1>1. g \in Frame
    BY FrameTypes DEF Maybe, Op, Loop, Event
<1>2. g.op = "poll" /\ g.at = NoProc
    BY DEF NewFrame
<1> HIDE DEF g
<1>3. <<f>> \in Seq(Frame) /\ Len(<<f>>) = 1
    OBVIOUS
<1>4. Len(Append(<<f>>, g)) = 2 /\ Append(<<f>>, g)[2] = g
    BY <1>1, <1>3, AppendToStack
<1> QED
    BY <1>2, <1>4 DEF g

LEMMA PollStepsOfNext == Base /\ Next => PollSteps
<1> SUFFICES ASSUME Base, Next PROVE PollSteps
    OBVIOUS
<1>1. Sound(stack) /\ TypeOK
    BY DEF Base
<1>2. CASE UserCalls
  <2>1. UserCode => ~Running("poll")
      BY DEF UserCode, Running, Activation
  <2>2. ASSUME NEW p \in Proc, StartProcess(p) \/ ExitProcess(p) PROVE PollSteps
      BY <2>1, <2>2 DEF StartProcess, ExitProcess, MayCall, polls, PollSteps
  <2>3. ASSUME NEW p \in Proc, PollProcess(p) PROVE PollSteps
      BY <2>3 DEF PollProcess, PollSteps
  <2>4. CASE Malloc \/ Free
      BY <2>1, <2>4 DEF Malloc, Free, polls, PollSteps
  <2>5. ASSUME NEW q \in Maybe, NEW type \in MsgType,
               PostMsg(q, type) \/ SendMsg(q, type) \/ HandleMsg(q, type)
        PROVE  PollSteps
      BY <2>1, <2>5 DEF PostMsg, SendMsg, HandleMsg, MayCall, polls, PollSteps
  <2> QED
      BY <1>2, <2>2, <2>3, <2>4, <2>5 DEF UserCalls, Maybe
<1>3. CASE ThreadReturns \/ FinishVisits \/ FinishEnds \/ HandleVisits \/ HandleEnds
           \/ RunTakesNoMessage \/ RunTakesMessage \/ Delivered \/ BroadcastCalls
    BY <1>3 DEF ThreadReturns, ThreadYields, ThreadEnds, ExitThreadReturns, FinishVisits,
        FinishEnds, HandleVisits, HandleEnds, RunTakesNoMessage, RunTakesMessage,
        Delivered, BroadcastCalls, polls, Running, PollSteps
<1>4. CASE PollVisits
  <2> DEFINE p == LoopNext(Top)
  <2>1. poll_requested' = poll_requested
      BY <1>4 DEF PollVisits
  <2>2. CASE needspoll[p]
    <3>1. wanted' = wanted \ {p}
        BY <1>4, <2>2 DEF PollVisits
    <3> QED
        BY <2>1, <3>1 DEF PollSteps
  <2>3. CASE ~needspoll[p]
    <3>1. wanted' = wanted /\ p \notin wanted
        BY <1>1, <1>4, <2>3 DEF PollVisits, TypeOK
    <3> QED
        BY <2>1, <3>1 DEF PollSteps
  <2> QED
      BY <2>2, <2>3
<1>5. CASE PollEnds
    BY <1>5 DEF PollEnds, polls, PollSteps
<1>6. CASE BroadcastVisits
  <2>1. /\ ~Running("poll") /\ wanted' = wanted
        /\ Below = <<>> /\ Top \in Frame /\ Top.op = "bcast"
      BY <1>1, <1>6, TopFrame DEF BroadcastVisits, Running, Bottom
  <2>2. CASE poll_requested = 0
    <3>1. poll_requested' = poll_requested
        BY <1>6, <2>2 DEF BroadcastVisits
    <3> QED
        BY <2>1, <3>1 DEF PollSteps
  <2>3. CASE poll_requested = 1
    <3> DEFINE f == [Top EXCEPT !.op = "bcast_call", !.at = LoopNext(Top)]
    <3>1. f \in Frame
        BY <1>1, <2>1, NextIsProcess, FrameFields DEF Op
    <3>2. stack' = Append(Append(Below, f), NewFrame("poll", NoProc, "POLL", NoProc))
        BY <1>6, <2>3 DEF BroadcastVisits, BeginPoll
    <3> HIDE DEF f
    <3>3. Append(Below, f) = <<f>>
        BY <2>1
    <3>4. \E i \in 1..Len(stack') : stack'[i].op = "poll" /\ stack'[i].at = NoProc
        BY <3>1, <3>2, <3>3, WalkBegins
    <3> QED
        BY <2>1, <3>4 DEF PollSteps
  <2> QED
      BY <1>6, <2>2, <2>3 DEF BroadcastVisits
<1>7. CASE Run
  <2>1. ~Running("poll") /\ wanted' = wanted
      BY <1>7 DEF Run, Running
  <2>2. CASE poll_requested = 0
      BY <1>7, <2>1, <2>2 DEF Run, PollSteps
  <2>3. CASE poll_requested = 1
    <3> DEFINE f == NewFrame("run", NoProc, "USER", NoProc)
    <3>1. f \in Frame
        BY FrameTypes DEF Maybe, Op, Event
    <3>2. stack' = Append(<<f>>, NewFrame("poll", NoProc, "POLL", NoProc))
        BY <1>7, <2>3 DEF Run, BeginPoll
    <3> HIDE DEF f
    <3>3. \E i \in 1..Len(stack') : stack'[i].op = "poll" /\ stack'[i].at = NoProc
        BY <3>1, <3>2, WalkBegins
    <3> QED
        BY <2>1, <3>3 DEF PollSteps
  <2> QED
      BY <1>7, <2>2, <2>3 DEF Run
<1> QED
    BY <1>2, <1>3, <1>4, <1>5, <1>6, <1>7 DEF Next, Continue, SchedulerSteps

\* PollNotLost, by the index of the walk.
PollsComing ==
    \A p \in wanted :
        p \in Reach(next, process_head) =>
            \/ poll_requested = 1
            \/ \E i \in 1..Len(stack) :
                    /\ stack[i].op = "poll"
                    /\ p \in Reach(next, From(process_head, next, stack[i].at))

LEMMA PollsComingIs == Base => (PollNotLost <=> PollsComing)
<1> SUFFICES ASSUME Base PROVE PollNotLost <=> PollsComing
    OBVIOUS
<1>1. DOMAIN stack = 1..Len(stack)
    BY LenProperties DEF Base, Sound
<1>2. \A f : Ahead(f) = Reach(next, From(process_head, next, f.at))
    BY Chains DEF Ahead, LoopNext, From
<1> QED
    BY <1>1, <1>2, Chains DEF PollNotLost, PollsComing, Frames

LEMMA PollsComingStep ==
    Base /\ Base' /\ WalksEnd /\ PollsComing /\ [Next]_vars => PollsComing'
<1> SUFFICES ASSUME Base, Base', WalksEnd, PollsComing, [Next]_vars
             PROVE  PollsComing'
    OBVIOUS
<1>1. CASE UNCHANGED vars
    BY <1>1 DEF vars, list, polls, PollsComing
<1>2. CASE Next
  <2>1. Steps /\ PollSteps
      BY <1>2, StepsOfNext, PollStepsOfNext
  <2>2. CASE poll_requested' = 1
      BY <2>2 DEF PollsComing
  <2>3. CASE poll_requested' # 1
    <3> SUFFICES ASSUME NEW q \in wanted', q \in Reach(next', process_head')
                 PROVE  \E i \in 1..Len(stack') :
                            /\ stack'[i].op = "poll"
                            /\ q \in Reach(next', From(process_head', next', stack'[i].at))
        BY DEF PollsComing
    <3>1. q \in wanted /\ q \in Proc
        BY <2>1, <2>3 DEF PollSteps, Base, TypeOK
    <3>2. \/ UNCHANGED list
          \/ \E p \in Proc : Unlink(p)
          \/ \E p \in Proc : Starts(p) /\ p # q
        BY <2>1 DEF Steps, Starts
    <3>3. Listed(q)' /\ Listed(q) /\ q \in Reach(next, process_head)
        BY <3>1, <3>2, AheadKept, Chains, SchedulerAssumption DEF Maybe
    <3>4. ASSUME NEW a \in Maybe, q \in Reach(next, From(process_head, next, a))
          PROVE  q \in Reach(next', From(process_head', next', a))
        BY <3>1, <3>2, <3>3, <3>4, AheadKept
    <3>5. CASE \E i \in 1..Len(stack') : stack'[i].op = "poll" /\ stack'[i].at = NoProc
        BY <3>5 DEF From
    <3>6. CASE poll_requested' = poll_requested
      <4>1. PICK j \in 1..Len(stack) :
                /\ stack[j].op = "poll"
                /\ q \in Reach(next, From(process_head, next, stack[j].at))
          BY <2>3, <3>1, <3>3, <3>6 DEF PollsComing
      <4>2. stack \in Seq(Frame) /\ stack[j] \in Frame /\ stack[j].at \in Maybe
        <5>1. stack \in Seq(Frame)
            BY DEF Base, Sound
        <5>2. stack[j] \in Frame
            BY <5>1, ElementOfSeq
        <5> QED
            BY <5>1, <5>2 DEF Frame, Maybe
      <4>3. CASE \E i \in 1..Len(stack') : stack'[i].op = "poll" /\ stack'[i].at = stack[j].at
          BY <3>4, <4>1, <4>2, <4>3
      <4>4. CASE j = Len(stack)
        <5>1. stack # <<>> /\ Top = stack[j] /\ Running("poll")
            BY <4>1, <4>2, <4>4, EmptySeq, FrontOfStack DEF Top, Running
        <5> DEFINE x == LoopNext(Top)
        <5>2. x = From(process_head, next, stack[j].at) /\ x \in Maybe
            BY <4>2, <5>1, NextIsProcess DEF LoopNext, From, Base
        <5>3. next \in [Proc -> Maybe]
            BY DEF Base, TypeOK, Maybe
        <5>4. x # NoProc
            BY <4>1, <5>2, <5>3, ReachBasics
        <5>5. q # x
            BY <2>1, <2>3, <5>1, <5>4 DEF PollSteps
        <5> HIDE DEF x
        <5>6. Reach(next, x) = {x} \cup Reach(next, next[x])
            BY <5>2, <5>3, <5>4, ReachStep DEF Maybe
        <5>7. q \in Reach(next, From(process_head, next, x))
            BY <4>1, <5>2, <5>4, <5>5, <5>6 DEF From
        <5>8. q \in Reach(next', From(process_head', next', x))
            BY <3>4, <5>2, <5>7
        <5>9. \/ \E i \in 1..Len(stack') : stack'[i].op = "poll" /\ stack'[i].at = stack[j].at
              \/ \E i \in 1..Len(stack') : stack'[i].op = "poll" /\ stack'[i].at = x
            BY <2>1, <4>1, <5>4 DEF Steps, PollsKept, x
        <5> QED
            BY <4>3, <5>8, <5>9
      <4> QED
          BY <2>1, <4>1, <4>3, <4>4 DEF Steps, PollsKept
    <3> QED
        BY <2>1, <2>3, <3>5, <3>6 DEF PollSteps
  <2> QED
      BY <2>2, <2>3
<1> QED
    BY <1>1, <1>2

LEMMA PollsComingInit == Init => PollsComing
BY DEF Init, PollsComing

\* A poll that an interrupt requests at any point of scheduler_utilize_poll is
\* not forgotten: until it is handed over the request stands, or a walk is on
\* its way to the process.
THEOREM NoPollIsLost == Spec => []PollNotLost
<1>1. Spec => []PollsComing
    BY Basics, BaseStep, WalksAlwaysEnd, PollsComingInit, PollsComingStep, PTL DEF Spec
<1> QED
    BY <1>1, Basics, PollsComingIs, PTL

\* When scheduler_events is 0 between two iterations, every message in the
\* buffer is in a caller's hands and no listed process is owed a poll.
THEOREM QuietIsDone == Spec => []QuietMeansDone
<1>1. Base /\ PollNotLost => QuietMeansDone
  <2> SUFFICES ASSUME Base, PollNotLost, stack = <<>>, scheduler_events = 0
               PROVE  used = held /\ \A p \in wanted : ~Listed(p)
      BY DEF QuietMeansDone
  <2>1. Len(messages) = 0 /\ poll_requested = 0
    <3>1. Len(messages) \in Nat /\ poll_requested \in {0, 1}
        BY LenProperties DEF Base, TypeOK
    <3> QED
        BY <3>1 DEF scheduler_events
  <2>2. used = held
    <3>1. Delivering(stack) = 0 /\ held \in Nat
        BY DEF Delivering, Base, TypeOK
    <3> QED
        BY <2>1, <3>1 DEF Base
  <2>3. Frames = {}
    <3>1. DOMAIN stack = 1..0
        BY LenProperties, EmptySeq DEF Base, Sound
    <3> QED
        BY <3>1 DEF Frames
  <2> QED
      BY <2>1, <2>2, <2>3 DEF PollNotLost
<1> QED
    BY <1>1, Basics, NoPollIsLost, PTL

----------------------------------------------------------------------------
(***************************************************************************)
(* Proofs that the state fields and process_current agree with the call    *)
(* stack and the list, through every nesting of calls and exits.           *)
(*                                                                         *)
(* process_current is restored from the frames, so what a frame will       *)
(* restore has to be right all along: that is Cur.  The state fields agree *)
(* with the stack because a process is in one of four phases (InPhase);    *)
(* that scheduler_utilize_poll, which sets its receiver running, never     *)
(* revives a stopped process needs to know where its walk stands: below    *)
(* the thread it called or the exit of that thread, so on the list.        *)
(***************************************************************************)

\* c is the process of the innermost of the first n frames that is an
\* activation, or NoProc.
Innermost(s, n, c) ==
    \/ c = NoProc /\ \A i \in 1..n : s[i].op \notin Activation
    \/ \E i \in 1..n : /\ s[i].op \in Activation
                       /\ s[i].proc = c
                       /\ \A j \in (i + 1)..n : s[j].op \notin Activation

Callers(s) ==
    \A i \in 1..Len(s) : s[i].op \in Activation \cup Exiting
                            => Innermost(s, i - 1, s[i].caller)

Cur(s, c) == Innermost(s, Len(s), c) /\ Callers(s)

----------------------------------------------------------------------------
(* process_current.                                                        *)

LEMMA InnermostUnique ==
    ASSUME NEW s \in Seq(Frame), NEW n \in Nat, NEW c, NEW d,
           Innermost(s, n, c), Innermost(s, n, d)
    PROVE  c = d
    BY DEF Innermost

\* Only what the first n frames are, and whose, counts.
LEMMA InnermostSame ==
    ASSUME NEW s, NEW t, NEW n \in Nat, NEW c, Innermost(s, n, c),
           \A i \in 1..n : /\ s[i].op \in Activation <=> t[i].op \in Activation
                           /\ s[i].op \in Activation => s[i].proc = t[i].proc
    PROVE  Innermost(t, n, c)
<1>1. CASE c = NoProc /\ \A i \in 1..n : s[i].op \notin Activation
    BY <1>1 DEF Innermost
<1>2. CASE \E i \in 1..n : /\ s[i].op \in Activation
                           /\ s[i].proc = c
                           /\ \A j \in (i + 1)..n : s[j].op \notin Activation
  <2>1. PICK i \in 1..n : /\ s[i].op \in Activation
                          /\ s[i].proc = c
                          /\ \A j \in (i + 1)..n : s[j].op \notin Activation
      BY <1>2
  <2>2. \A j \in (i + 1)..n : t[j].op \notin Activation
      BY <2>1
  <2> QED
      BY <2>1, <2>2 DEF Innermost
<1> QED
    BY <1>1, <1>2 DEF Innermost

LEMMA CurKin ==
    ASSUME NEW s \in Seq(Frame), NEW t, NEW c, Kin(s, t), Cur(s, c)
    PROVE  Cur(t, c)
<1>1. Len(s) \in Nat /\ Len(t) = Len(s)
    BY LenProperties DEF Kin
<1>2. \A i \in 1..Len(s) : s[i].op = t[i].op /\ s[i].proc = t[i].proc
                             /\ s[i].caller = t[i].caller
    BY DEF Kin, Alike
<1>3. Innermost(t, Len(t), c)
    BY <1>1, <1>2, InnermostSame DEF Cur
<1>4. ASSUME NEW i \in 1..Len(t), t[i].op \in Activation \cup Exiting
      PROVE  Innermost(t, i - 1, t[i].caller)
  <2>1. Innermost(s, i - 1, t[i].caller) /\ i - 1 \in Nat
      BY <1>1, <1>2, <1>4 DEF Cur, Callers
  <2>2. \A j \in 1..(i - 1) : s[j].op = t[j].op /\ s[j].proc = t[j].proc
      BY <1>1, <1>2
  <2> QED
      BY <2>1, <2>2, InnermostSame
<1> QED
    BY <1>3, <1>4 DEF Cur, Callers

\* A frame that is pushed remembers the process that was current.
LEMMA CurAppend ==
    ASSUME NEW s \in Seq(Frame), NEW c, Cur(s, c), NEW f \in Frame,
           f.op \in Activation \cup Exiting => f.caller = c
    PROVE  Cur(Append(s, f), IF f.op \in Activation THEN f.proc ELSE c)
<1> DEFINE t == Append(s, f)
<1>1. /\ Len(s) \in Nat /\ Len(t) = Len(s) + 1
      /\ \A i \in 1..Len(s) : t[i] = s[i]
      /\ t[Len(s) + 1] = f
    BY AppendToStack
<1> HIDE DEF t
<1>2. ASSUME NEW n \in 0..Len(s), NEW d, Innermost(s, n, d)
      PROVE  Innermost(t, n, d)
    BY <1>1, <1>2, InnermostSame
<1>3. Callers(t)
  <2> SUFFICES ASSUME NEW i \in 1..Len(t), t[i].op \in Activation \cup Exiting
               PROVE  Innermost(t, i - 1, t[i].caller)
      BY DEF Callers
  <2>1. CASE i = Len(s) + 1
      BY <1>1, <1>2, <2>1 DEF Cur
  <2>2. CASE i \in 1..Len(s)
      BY <1>1, <1>2, <2>2 DEF Cur, Callers
  <2> QED
      BY <1>1, <2>1, <2>2
<1>4. CASE f.op \in Activation
    BY <1>1, <1>3, <1>4 DEF Cur, Innermost, t
<1>5. CASE f.op \notin Activation
  <2>1. Innermost(t, Len(s), c)
      BY <1>1, <1>2 DEF Cur
  <2>2. Innermost(t, Len(s) + 1, c)
    <3>1. CASE c = NoProc /\ \A i \in 1..Len(s) : t[i].op \notin Activation
        BY <1>1, <1>5, <3>1 DEF Innermost
    <3>2. CASE \E i \in 1..Len(s) : /\ t[i].op \in Activation
                                    /\ t[i].proc = c
                                    /\ \A j \in (i + 1)..Len(s) : t[j].op \notin Activation
        BY <1>1, <1>5, <3>2 DEF Innermost
    <3> QED
        BY <2>1, <3>1, <3>2 DEF Innermost
  <2> QED
      BY <1>1, <1>3, <1>5, <2>2 DEF Cur, t
<1> QED
    BY <1>4, <1>5

\* When the innermost frame goes, its caller becomes current again.
LEMMA CurFront ==
    ASSUME NEW s \in Seq(Frame), s # <<>>, NEW c, Cur(s, c)
    PROVE  /\ Last(s).op \in Activation \cup Exiting => Cur(Front(s), Last(s).caller)
           /\ Last(s).op \notin Activation => Cur(Front(s), c)
           /\ Last(s).op = "finish" => Last(s).caller = c
<1>1. /\ Len(s) \in Nat \ {0} /\ Front(s) \in Seq(Frame) /\ Len(Front(s)) = Len(s) - 1
      /\ \A i \in 1..(Len(s) - 1) : Front(s)[i] = s[i]
      /\ Last(s) = s[Len(s)]
    BY FrontOfStack
<1>2. ASSUME NEW n \in 0..(Len(s) - 1), NEW d, Innermost(s, n, d)
      PROVE  Innermost(Front(s), n, d)
  <2>1. n \in Nat /\ \A i \in 1..n : Front(s)[i] = s[i]
      BY <1>1
  <2> QED
      BY <1>2, <2>1, InnermostSame
<1>3. Callers(Front(s))
  <2> SUFFICES ASSUME NEW i \in 1..Len(Front(s)), Front(s)[i].op \in Activation \cup Exiting
               PROVE  Innermost(Front(s), i - 1, Front(s)[i].caller)
      BY DEF Callers
  <2>1. Front(s)[i] = s[i] /\ i \in 1..Len(s) /\ i - 1 \in 0..(Len(s) - 1)
      BY <1>1
  <2>2. Innermost(s, i - 1, s[i].caller)
      BY <2>1 DEF Cur, Callers
  <2> QED
      BY <1>2, <2>1, <2>2
<1>4. ASSUME Last(s).op \in Activation \cup Exiting
      PROVE  Innermost(s, Len(s) - 1, Last(s).caller)
    BY <1>1, <1>4 DEF Cur, Callers
<1>5. ASSUME Last(s).op \notin Activation
      PROVE  Innermost(s, Len(s) - 1, c)
  <2>1. CASE c = NoProc /\ \A i \in 1..Len(s) : s[i].op \notin Activation
      BY <1>1, <2>1 DEF Innermost
  <2>2. CASE \E i \in 1..Len(s) : /\ s[i].op \in Activation
                                  /\ s[i].proc = c
                                  /\ \A j \in (i + 1)..Len(s) : s[j].op \notin Activation
    <3>1. PICK i \in 1..Len(s) : /\ s[i].op \in Activation
                                 /\ s[i].proc = c
                                 /\ \A j \in (i + 1)..Len(s) : s[j].op \notin Activation
        BY <2>2
    <3>2. i \in 1..(Len(s) - 1)
        BY <1>1, <1>5, <3>1
    <3>3. \A j \in (i + 1)..(Len(s) - 1) : s[j].op \notin Activation
        BY <1>1, <3>1
    <3> QED
        BY <3>1, <3>2, <3>3 DEF Innermost
  <2> QED
      BY <2>1, <2>2 DEF Cur, Innermost
<1>6. Last(s).op = "finish" => Last(s).caller = c
  <2> SUFFICES ASSUME Last(s).op = "finish" PROVE Last(s).caller = c
      OBVIOUS
  <2>1. Innermost(s, Len(s) - 1, Last(s).caller) /\ Innermost(s, Len(s) - 1, c)
      BY <1>4, <1>5 DEF Activation, Exiting
  <2>2. Len(s) - 1 \in Nat
      BY <1>1
  <2> QED
      BY <2>1, <2>2, InnermostUnique
<1> QED
    BY <1>1, <1>2, <1>3, <1>4, <1>5, <1>6 DEF Cur
LEMMA CurReplace ==
    ASSUME NEW s \in Seq(Frame), s # <<>>, NEW c, Cur(s, c), NEW f \in Frame,
           Last(s).op \notin Activation, f.op \notin Activation,
           f.op \in Exiting => Last(s).op = "finish" /\ f.caller = Last(s).caller
    PROVE  Cur(Append(Front(s), f), c)
<1>1. Front(s) \in Seq(Frame) /\ Cur(Front(s), c)
    BY FrontOfStack, CurFront
<1>2. f.op \in Exiting => f.caller = c
    BY CurFront
<1> QED
    BY <1>1, <1>2, CurAppend

LEMMA CurCall ==
    ASSUME NEW st, NEW p \in Proc, NEW ev \in Event, NEW rest \in Seq(Frame),
           process_current \in Maybe, Cur(rest, process_current),
           CallProcess(st, p, ev, rest)
    PROVE  Cur(stack', process_current')
<1> DEFINE f == NewActivation("thread", p, ev, process_current)
<1>1. CASE st[p] = "RUNNING"
  <2>1. stack' = Append(rest, f) /\ process_current' = p
      BY <1>1 DEF CallProcess
  <2>2. f \in Frame
      BY FrameTypes DEF Maybe, Op, Activation
  <2>3. f.op = "thread" /\ f.proc = p /\ f.caller = process_current
      BY DEF NewActivation, NewFrame
  <2> HIDE DEF f
  <2>4. Cur(Append(rest, f), IF f.op \in Activation THEN f.proc ELSE process_current)
      BY <2>2, <2>3, CurAppend
  <2> QED
      BY <2>1, <2>3, <2>4 DEF Activation
<1>2. CASE st[p] # "RUNNING"
    BY <1>2 DEF CallProcess
<1> QED
    BY <1>1, <1>2

\* The frame that exit_process pushes.
Finisher(p, from, cur) ==
    [NewFrame("finish", p, "FINISHED", cur) EXCEPT
        !.self = (p = from), !.owed = OnChain(process_head) \ {p}]

LEMMA FinisherFrame ==
    ASSUME NEW p \in Proc, NEW from, NEW cur \in Maybe
    PROVE  /\ Finisher(p, from, cur) \in Frame
           /\ Finisher(p, from, cur).op = "finish"
           /\ Finisher(p, from, cur).proc = p
           /\ Finisher(p, from, cur).self <=> p = from
           /\ Finisher(p, from, cur).caller = cur
<1> DEFINE g == NewFrame("finish", p, "FINISHED", cur)
           b == p = from
           S == OnChain(process_head) \ {p}
           f == [g EXCEPT !.self = b, !.owed = S]
<1>1. g \in Frame
    BY FrameTypes DEF Maybe, Op, Loop, Event
<1>2. g.op = "finish" /\ g.proc = p /\ g.caller = cur
    BY DEF NewFrame
<1>3. S \in SUBSET Proc /\ b \in BOOLEAN
    BY DEF OnChain
<1>4. f = Finisher(p, from, cur)
    BY DEF Finisher
<1> HIDE DEF g, b, S
<1>5. f \in Frame
    BY <1>1, <1>3 DEF Frame
<1>6. f.op = g.op /\ f.proc = g.proc /\ f.caller = g.caller /\ f.self = b
    BY <1>1 DEF Frame
<1> QED
    BY <1>2, <1>4, <1>5, <1>6 DEF b

LEMMA CurExit ==
    ASSUME NEW p \in Proc, NEW from, NEW cur \in Maybe, NEW rest \in Seq(Frame),
           Cur(rest, cur), BeginExit(p, from, cur, rest)
    PROVE  Cur(stack', process_current')
<1> DEFINE f == Finisher(p, from, cur)
<1>1. (stack' = rest \/ stack' = Append(rest, f)) /\ process_current' = cur
    BY DEF BeginExit, Finisher
<1>2. f \in Frame /\ f.op = "finish" /\ f.caller = cur
    BY FinisherFrame
<1> HIDE DEF f
<1>3. Cur(Append(rest, f), IF f.op \in Activation THEN f.proc ELSE cur)
    BY <1>2, CurAppend
<1> QED
    BY <1>1, <1>2, <1>3 DEF Activation

LEMMA CurOfSpent ==
    ASSUME Base, Cur(stack, process_current), stack # <<>> => Top.calls > 0
    PROVE  /\ stack \in Seq(Frame) /\ process_current \in Maybe
           /\ Spent \in Seq(Frame) /\ Cur(Spent, process_current)
           /\ \A p \in Proc : /\ Forget(Spent, p) \in Seq(Frame)
                              /\ Cur(Forget(Spent, p), process_current)
<1>1. Sound(stack) /\ stack \in Seq(Frame) /\ process_current \in Maybe
    BY DEF Base, TypeOK, Maybe, Sound
<1> QED
    BY <1>1, CallerKin, CurKin

LEMMA CurOfCalls ==
    ASSUME Base, Cur(stack, process_current), NEW p \in Proc,
           StartProcess(p) \/ ExitProcess(p)
    PROVE  Cur(stack', process_current')
<1>1. /\ process_current \in Maybe
      /\ Spent \in Seq(Frame) /\ Cur(Spent, process_current)
      /\ Forget(Spent, p) \in Seq(Frame) /\ Cur(Forget(Spent, p), process_current)
    BY CurOfSpent DEF StartProcess, ExitProcess, MayCall
<1>2. CASE StartProcess(p)
  <2>1. CASE Listed(p)
      BY <1>1, <1>2, <2>1 DEF StartProcess
  <2>2. CASE ~Listed(p)
    <3>1. CallProcess([state EXCEPT ![p] = "RUNNING"], p, "INIT", Forget(Spent, p))
        BY <1>2, <2>2 DEF StartProcess
    <3> QED
        BY <1>1, <3>1, CurCall DEF Event
  <2> QED
      BY <2>1, <2>2
<1>3. CASE ExitProcess(p)
    BY <1>1, <1>3, CurExit DEF ExitProcess
<1> QED
    BY <1>2, <1>3

LEMMA CurOfHandleMsg ==
    ASSUME Base, Cur(stack, process_current),
           NEW q \in Maybe, NEW type \in MsgType, HandleMsg(q, type)
    PROVE  Cur(stack', process_current')
<1>1. /\ process_current \in Maybe /\ type \in Event
      /\ Spent \in Seq(Frame) /\ Cur(Spent, process_current)
    BY CurOfSpent, SchedulerAssumption DEF HandleMsg, MayCall
<1>2. CASE q # NoProc
  <2>1. q \in Proc /\ CallProcess(state, q, type, Spent)
      BY <1>2 DEF HandleMsg, Maybe
  <2> QED
      BY <1>1, <2>1, CurCall
<1>3. CASE q = NoProc
  <2> DEFINE g == NewFrame("hbcast", NoProc, type, NoProc)
             f == [g EXCEPT !.owed = OnChain(process_head)]
  <2>1. g \in Frame
      BY <1>1, FrameTypes DEF Maybe, Op, Loop
  <2>2. OnChain(process_head) \in SUBSET Proc
      BY DEF OnChain
  <2>3. f \in Frame
      BY <2>1, <2>2, FrameFields
  <2>4. f.op = "hbcast"
      BY DEF NewFrame
  <2>5. stack' = Append(Spent, f) /\ process_current' = process_current
      BY <1>3 DEF HandleMsg
  <2> HIDE DEF f, g
  <2>6. Cur(Append(Spent, f), IF f.op \in Activation THEN f.proc ELSE process_current)
      BY <1>1, <2>3, <2>4, CurAppend DEF Activation, Exiting
  <2> QED
      BY <2>4, <2>5, <2>6 DEF Activation
<1> QED
    BY <1>2, <1>3

LEMMA CurOfReturns ==
    ASSUME Base, Cur(stack, process_current),
           \/ ThreadReturns \/ FinishEnds \/ HandleEnds \/ PollEnds
           \/ RunTakesNoMessage \/ Delivered
    PROVE  Cur(stack', process_current')
<1>1. Sound(stack) /\ stack \in Seq(Frame)
    BY DEF Base, Sound
<1>2. PICK op \in Op : Running(op)
    BY DEF ThreadReturns, ThreadYields, ThreadEnds, ExitThreadReturns, FinishEnds,
           HandleEnds, PollEnds, RunTakesNoMessage, Delivered, Op, Loop, Activation
<1>3. /\ stack # <<>> /\ Below \in Seq(Frame) /\ Top.caller \in Maybe
      /\ Top.op = op /\ (op \in Activation \cup Exiting => Top.proc \in Proc)
      /\ op \in Bottom => Below = <<>>
      /\ Below = Front(stack) /\ Top = Last(stack)
    BY <1>1, <1>2, TopFrame DEF Sound
<1>4. /\ op \in Activation \cup Exiting => Cur(Below, Top.caller)
      /\ op \notin Activation => Cur(Below, process_current)
    BY <1>1, <1>3, CurFront
<1>5. CASE ThreadYields
    BY <1>3, <1>4, <1>5 DEF ThreadYields, Running, Activation
<1>6. CASE ThreadEnds
    BY <1>3, <1>4, <1>6, CurExit DEF ThreadEnds, Running, Activation
<1>7. CASE ExitThreadReturns
    BY <1>3, <1>4, <1>7 DEF ExitThreadReturns, Running, Activation
<1>8. CASE FinishEnds
  <2>1. op = "finish"
      BY <1>3, <1>8 DEF FinishEnds, Running
  <2>2. CASE Top.self
      BY <1>4, <1>8, <2>1, <2>2 DEF FinishEnds, Exiting
  <2>3. CASE ~Top.self
    <3> DEFINE f == NewActivation("exit", Top.proc, "EXIT", Top.caller)
    <3>1. f \in Frame
        BY <1>3, <2>1, FrameTypes DEF Op, Activation, Exiting, Event, Maybe
    <3>2. f.op = "exit" /\ f.proc = Top.proc /\ f.caller = Top.caller
        BY DEF NewActivation, NewFrame
    <3>3. stack' = Append(Below, f) /\ process_current' = Top.proc
        BY <1>8, <2>3 DEF FinishEnds
    <3> HIDE DEF f
    <3>4. Cur(Append(Below, f), IF f.op \in Activation THEN f.proc ELSE Top.caller)
        BY <1>3, <1>4, <2>1, <3>1, <3>2, CurAppend DEF Exiting
    <3> QED
        BY <3>2, <3>3, <3>4 DEF Activation
  <2> QED
      BY <2>2, <2>3
<1>9. CASE HandleEnds \/ PollEnds \/ Delivered
    BY <1>3, <1>4, <1>9 DEF HandleEnds, PollEnds, Delivered, Running, Activation
<1>10. CASE RunTakesNoMessage
    BY <1>3, <1>4, <1>10 DEF RunTakesNoMessage, Running, Activation, Bottom
<1> QED
    BY <1>5, <1>6, <1>7, <1>8, <1>9, <1>10 DEF ThreadReturns

LEMMA CurOfVisits ==
    ASSUME Base, Cur(stack, process_current),
           \/ FinishVisits \/ HandleVisits \/ PollVisits
           \/ BroadcastVisits \/ BroadcastCalls
    PROVE  Cur(stack', process_current')
<1> DEFINE p == LoopNext(Top)
           moved == [Top EXCEPT !.at = p, !.owed = @ \ {p}]
           waits == [Top EXCEPT !.op = "bcast_call", !.at = p]
           calls == [Top EXCEPT !.op = "bcast", !.owed = @ \ {Top.at}]
           poll == NewFrame("poll", NoProc, "POLL", NoProc)
<1>1. Sound(stack) /\ TypeOK /\ stack \in Seq(Frame) /\ process_current \in Maybe
    BY DEF Base, TypeOK, Maybe, Sound
<1>2. PICK op \in {"finish", "hbcast", "poll", "bcast", "bcast_call"} : Running(op)
    BY DEF FinishVisits, HandleVisits, PollVisits, BroadcastVisits, BroadcastCalls
<1>3. /\ stack # <<>> /\ Top \in Frame /\ Top.op = op /\ Top.ev \in Event
      /\ p \in Maybe /\ Top.at \in Maybe
      /\ Below = Front(stack) /\ Top = Last(stack)
    BY <1>1, <1>2, TopFrame, NextIsProcess
<1>4. op = "bcast_call" => Top.at \in Proc
  <2>1. Len(stack) \in Nat \ {0} /\ Top = stack[Len(stack)]
      BY <1>1, <1>3, FrontOfStack
  <2> QED
      BY <1>1, <1>3, <2>1 DEF Sound, FrameSound
<1>5. moved \in Frame /\ waits \in Frame /\ calls \in Frame
    BY <1>3, FrameFields DEF Op, Loop
<1>6. /\ moved.op = Top.op /\ moved.caller = Top.caller
      /\ waits.op = "bcast_call" /\ calls.op = "bcast"
    BY <1>3, <1>5 DEF Frame
<1>7. op # "bcast_call" => Cur(Advanced(p), process_current) /\ Advanced(p) \in Seq(Frame)
  <2>1. Advanced(p) = Append(Front(stack), moved)
      BY <1>3 DEF Advanced
  <2>2. op # "bcast_call" => moved.op \notin Activation
            /\ (moved.op \in Exiting => Top.op = "finish" /\ moved.caller = Top.caller)
      BY <1>3, <1>6 DEF Activation, Exiting
  <2> HIDE DEF moved, p
  <2>3. op # "bcast_call" => Cur(Append(Front(stack), moved), process_current)
      BY <1>1, <1>3, <1>5, <1>6, <2>2, CurReplace
  <2> QED
      BY <1>1, <1>3, <1>5, <2>1, <2>3, ReplaceTop
<1>8. /\ op = "bcast" => Cur(Append(Below, waits), process_current)
      /\ op = "bcast_call" => Cur(Append(Below, calls), process_current)
      /\ Append(Below, waits) \in Seq(Frame) /\ Append(Below, calls) \in Seq(Frame)
  <2> HIDE DEF waits, calls
  <2> QED
      BY <1>1, <1>3, <1>5, <1>6, CurReplace, ReplaceTop DEF Activation, Exiting
<1>9. CASE FinishVisits \/ HandleVisits \/ PollVisits
  <2>1. p \in Proc /\ op # "bcast_call"
      BY <1>3, <1>9 DEF FinishVisits, HandleVisits, PollVisits, Running, Maybe
  <2>2. \/ stack' = Advanced(p) /\ process_current' = process_current
        \/ \E st : \E ev \in Event : CallProcess(st, p, ev, Advanced(p))
    <3>1. CASE FinishVisits
        BY <3>1 DEF FinishVisits, Event
    <3>2. CASE HandleVisits
        BY <1>3, <3>2 DEF HandleVisits
    <3>3. CASE PollVisits
        BY <3>3 DEF PollVisits, Event
    <3> QED
        BY <1>9, <3>1, <3>2, <3>3
  <2> HIDE DEF p
  <2> QED
      BY <1>1, <1>7, <2>1, <2>2, CurCall
<1>10. CASE BroadcastVisits
  <2>1. p \in Proc /\ op = "bcast"
      BY <1>3, <1>10 DEF BroadcastVisits, Running, Maybe
  <2>2. CASE poll_requested = 1
    <3>1. /\ stack' = Append(Append(Below, waits), poll)
          /\ process_current' = process_current
        BY <1>10, <2>2 DEF BroadcastVisits, BeginPoll
    <3>2. poll \in Frame
        BY FrameTypes, SchedulerAssumption DEF Maybe, Op, Loop, Event
    <3>3. poll.op = "poll"
        BY DEF NewFrame
    <3> HIDE DEF poll, waits
    <3>4. Cur(Append(Append(Below, waits), poll),
              IF poll.op \in Activation THEN poll.proc ELSE process_current)
        BY <1>8, <2>1, <3>2, <3>3, CurAppend DEF Activation, Exiting
    <3> QED
        BY <3>1, <3>3, <3>4 DEF Activation
  <2>3. CASE poll_requested = 0
    <3>1. CallProcess(state, p, Top.ev, Advanced(p))
        BY <1>10, <2>3 DEF BroadcastVisits
    <3> HIDE DEF p
    <3> QED
        BY <1>1, <1>3, <1>7, <2>1, <3>1, CurCall
  <2> QED
      BY <1>10, <2>2, <2>3 DEF BroadcastVisits
<1>11. CASE BroadcastCalls
  <2>1. op = "bcast_call" /\ CallProcess(state, Top.at, Top.ev, Append(Below, calls))
      BY <1>3, <1>11 DEF BroadcastCalls, Running
  <2> HIDE DEF calls
  <2> QED
      BY <1>1, <1>3, <1>4, <1>8, <2>1, CurCall
<1> QED
    BY <1>9, <1>10, <1>11
\* The first frame.
LEMMA CurFirst ==
    ASSUME NEW c, Cur(<<>>, c), NEW f \in Frame, f.op \notin Activation \cup Exiting
    PROVE  <<f>> \in Seq(Frame) /\ Cur(<<f>>, c)
<1>1. <<>> \in Seq(Frame) /\ <<f>> \in Seq(Frame) /\ Append(<<>>, f) = <<f>>
    BY EmptySeq
<1>2. Cur(Append(<<>>, f), IF f.op \in Activation THEN f.proc ELSE c)
    BY <1>1, CurAppend
<1> QED
    BY <1>1, <1>2

LEMMA CurOfRun ==
    ASSUME Base, Cur(stack, process_current), Run \/ RunTakesMessage
    PROVE  Cur(stack', process_current')
<1>1. Sound(stack) /\ TypeOK /\ stack \in Seq(Frame) /\ process_current \in Maybe
    BY DEF Base, TypeOK, Maybe, Sound
<1>2. CASE Run
  <2> DEFINE f == NewFrame("run", NoProc, "USER", NoProc)
             g == NewFrame("poll", NoProc, "POLL", NoProc)
  <2>1. /\ Cur(<<>>, process_current) /\ process_current' = process_current
        /\ stack' = <<f>> \/ stack' = Append(<<f>>, g)
      BY <1>2 DEF Run, BeginPoll
  <2>2. f \in Frame /\ g \in Frame
      BY FrameTypes DEF Maybe, Op, Loop, Event
  <2>3. f.op = "run" /\ g.op = "poll"
      BY DEF NewFrame
  <2> HIDE DEF f, g
  <2>4. <<f>> \in Seq(Frame) /\ Cur(<<f>>, process_current)
      BY <2>1, <2>2, <2>3, CurFirst DEF Activation, Exiting
  <2>5. Cur(Append(<<f>>, g), IF g.op \in Activation THEN g.proc ELSE process_current)
      BY <2>2, <2>3, <2>4, CurAppend DEF Activation, Exiting
  <2> QED
      BY <2>1, <2>3, <2>4, <2>5 DEF Activation
<1>3. CASE RunTakesMessage
  <2> DEFINE msg == Head(messages)
             d == NewFrame("deliver", msg.to, msg.type, NoProc)
             b == NewFrame("bcast", NoProc, msg.type, NoProc)
             c == [b EXCEPT !.owed = OnChain(process_head)]
  <2>1. Cur(<<>>, process_current)
    <3>1. Below = <<>> /\ Below = Front(stack) /\ stack # <<>> /\ Last(stack).op = "run"
        BY <1>1, <1>3, TopFrame DEF RunTakesMessage, Bottom
    <3> QED
        BY <1>1, <3>1, CurFront DEF Activation
  <2>2. msg.to \in Maybe /\ msg.type \in Event
    <3> DEFINE Msg == [to : Proc \cup {NoProc}, type : MsgType]
    <3>1. messages \in Seq(Msg) /\ messages # <<>>
        BY <1>1, <1>3 DEF RunTakesMessage, TypeOK
    <3>2. Head(messages) \in Msg
        BY <3>1, HeadTailProperties
    <3> QED
        BY <3>2, SchedulerAssumption DEF Maybe
  <2>3. d \in Frame /\ c \in Frame
    <3>1. d \in Frame /\ b \in Frame
        BY <2>2, FrameTypes DEF Maybe, Op, Loop
    <3>2. OnChain(process_head) \in SUBSET Proc
        BY DEF OnChain
    <3> QED
        BY <3>1, <3>2, FrameFields
  <2>4. d.op = "deliver" /\ c.op = "bcast"
      BY DEF NewFrame
  <2>5. CASE msg.to # NoProc
    <3> DEFINE st == IF msg.type = "INIT" THEN [state EXCEPT ![msg.to] = "RUNNING"]
                     ELSE state
    <3>1. CallProcess(st, msg.to, msg.type, <<d>>)
        BY <1>3, <2>5 DEF RunTakesMessage
    <3>2. msg.to \in Proc
        BY <2>2, <2>5 DEF Maybe
    <3> HIDE DEF st, d, c, b, msg
    <3>3. <<d>> \in Seq(Frame) /\ Cur(<<d>>, process_current)
        BY <2>1, <2>3, <2>4, CurFirst DEF Activation, Exiting
    <3> QED
        BY <1>1, <2>2, <3>1, <3>2, <3>3, CurCall
  <2>6. CASE msg.to = NoProc
    <3>1. stack' = <<c>> /\ process_current' = process_current
        BY <1>3, <2>6 DEF RunTakesMessage
    <3> HIDE DEF c
    <3> QED
        BY <2>1, <2>3, <2>4, <3>1, CurFirst DEF Activation, Exiting
  <2> QED
      BY <2>5, <2>6
<1> QED
    BY <1>2, <1>3

LEMMA CurStep ==
    Base /\ Cur(stack, process_current) /\ [Next]_vars => Cur(stack', process_current')
<1> SUFFICES ASSUME Base, Cur(stack, process_current), [Next]_vars
             PROVE  Cur(stack', process_current')
    OBVIOUS
<1>1. CASE UserCalls
  <2>1. CASE \/ \E p \in Proc : PollProcess(p)
             \/ Malloc \/ Free
             \/ \E q \in Maybe, type \in MsgType : PostMsg(q, type) \/ SendMsg(q, type)
      BY <2>1 DEF PollProcess, Malloc, Free, PostMsg, SendMsg
  <2>2. ASSUME NEW p \in Proc, StartProcess(p) \/ ExitProcess(p)
        PROVE  Cur(stack', process_current')
      BY <2>2, CurOfCalls
  <2>3. ASSUME NEW q \in Maybe, NEW type \in MsgType, HandleMsg(q, type)
        PROVE  Cur(stack', process_current')
      BY <2>3, CurOfHandleMsg
  <2> QED
      BY <1>1, <2>1, <2>2, <2>3 DEF UserCalls, Maybe
<1>2. CASE Continue
    BY <1>2, CurOfReturns, CurOfVisits, CurOfRun DEF Continue, SchedulerSteps
<1>3. CASE Run
    BY <1>3, CurOfRun
<1>4. CASE UNCHANGED vars
    BY <1>4 DEF vars
<1> QED
    BY <1>1, <1>2, <1>3, <1>4 DEF Next

CurrentOK == Cur(stack, process_current)

LEMMA CurInit == Init => CurrentOK
BY EmptySeq DEF Init, CurrentOK, Cur, Innermost, Callers
----------------------------------------------------------------------------
(* The phases of a process: idle, called, being exited, stopped.  L is the *)
(* set of the listed processes.                                            *)

Thread(f, p) == f.op = "thread" /\ f.proc = p
Leaving(f, p) == f.op \in Exiting /\ f.proc = p

NoThread(s, p) == \A i \in 1..Len(s) : ~Thread(s[i], p)
NoExit(s, p) == \A i \in 1..Len(s) : ~Leaving(s[i], p)
OneThread(s, p) ==
    \E i \in 1..Len(s) : Thread(s[i], p) /\ \A j \in 1..Len(s) : Thread(s[j], p) => j = i
OneExit(s, p) ==
    \E i \in 1..Len(s) : Leaving(s[i], p) /\ \A j \in 1..Len(s) : Leaving(s[j], p) => j = i

InPhase(s, p, v, L) ==
    \/ v = "RUNNING" /\ p \in L /\ NoThread(s, p) /\ NoExit(s, p)
    \/ v = "CALLED" /\ p \in L /\ OneThread(s, p) /\ NoExit(s, p)
    \/ v = "NONE" /\ p \in L /\ NoThread(s, p) /\ OneExit(s, p)
    \/ v = "NONE" /\ p \notin L /\ NoThread(s, p) /\ NoExit(s, p)

\* A walk of scheduler_utilize_poll waits for the thread it called, or for the
\* exit that this thread's end has begun.
Hears(f, p) == Thread(f, p) \/ (f.op = "finish" /\ f.self /\ f.proc = p)

PollUnder(s) == \A i \in 1..(Len(s) - 1) : s[i].op = "poll" => Hears(s[i + 1], s[i].at)

NotPoll(s) == s = <<>> \/ Last(s).op # "poll"

LifeOK(s, st, L) == PollUnder(s) /\ \A p \in Proc : InPhase(s, p, st[p], L)

\* Between two calls the walk is at its end or in front of a listed process.
PollReady(s, h, n) ==
    NotPoll(s) \/ From(h, n, Last(s).at) \in Reach(n, h) \cup {NoProc}

LEMMA LastOfStack ==
    ASSUME NEW s \in Seq(Frame)
    PROVE  /\ \A f \in Frame : Last(Append(s, f)) = f /\ Append(s, f) # <<>>
           /\ s # <<>> => Last(s) = s[Len(s)] /\ Last(s) \in Frame /\ Len(s) \in Nat \ {0}
<1>1. ASSUME NEW f \in Frame
      PROVE  Last(Append(s, f)) = f /\ Append(s, f) # <<>>
    BY AppendToStack DEF Last
<1> QED
    BY <1>1, FrontOfStack

LEMMA LifeKin ==
    ASSUME NEW s \in Seq(Frame), NEW t, Kin(s, t), NEW st, NEW L, LifeOK(s, st, L)
    PROVE  LifeOK(t, st, L) /\ (NotPoll(s) => NotPoll(t))
<1>1. Len(s) \in Nat /\ Len(t) = Len(s) /\ t \in Seq(Frame)
    BY LenProperties DEF Kin
<1>2. \A i \in 1..Len(s) : s[i].op = t[i].op /\ s[i].proc = t[i].proc /\ s[i].at = t[i].at
                             /\ s[i].self = t[i].self
    BY DEF Kin, Alike
<1>3. PollUnder(t)
    BY <1>1, <1>2 DEF LifeOK, PollUnder, Hears, Thread
<1>4. ASSUME NEW p \in Proc
      PROVE  InPhase(t, p, st[p], L)
  <2>1. /\ \A i \in 1..Len(s) : Thread(s[i], p) <=> Thread(t[i], p)
        /\ \A i \in 1..Len(s) : Leaving(s[i], p) <=> Leaving(t[i], p)
      BY <1>2 DEF Thread, Leaving
  <2>2. /\ NoThread(s, p) => NoThread(t, p)
        /\ OneThread(s, p) => OneThread(t, p)
        /\ NoExit(s, p) => NoExit(t, p)
        /\ OneExit(s, p) => OneExit(t, p)
      BY <1>1, <2>1 DEF NoThread, OneThread, NoExit, OneExit
  <2> QED
      BY <2>2 DEF LifeOK, InPhase
<1>5. NotPoll(s) => NotPoll(t)
    BY <1>1, <1>2, LastOfStack, EmptySeq DEF NotPoll
<1> QED
    BY <1>3, <1>4, <1>5 DEF LifeOK

\* What a frame on top changes for a process.
LEMMA PhaseAppend ==
    ASSUME NEW s \in Seq(Frame), NEW f \in Frame, NEW p
    PROVE  /\ Thread(f, p) /\ NoThread(s, p) => OneThread(Append(s, f), p)
           /\ ~Thread(f, p) => /\ NoThread(s, p) => NoThread(Append(s, f), p)
                               /\ OneThread(s, p) => OneThread(Append(s, f), p)
           /\ Leaving(f, p) /\ NoExit(s, p) => OneExit(Append(s, f), p)
           /\ ~Leaving(f, p) => /\ NoExit(s, p) => NoExit(Append(s, f), p)
                                /\ OneExit(s, p) => OneExit(Append(s, f), p)
<1> DEFINE t == Append(s, f)
<1>1. /\ Len(s) \in Nat /\ Len(t) = Len(s) + 1
      /\ \A i \in 1..Len(s) : t[i] = s[i]
      /\ t[Len(s) + 1] = f
    BY AppendToStack
<1> HIDE DEF t
<1>2. /\ Thread(f, p) /\ NoThread(s, p) => OneThread(t, p)
      /\ ~Thread(f, p) => /\ NoThread(s, p) => NoThread(t, p)
                          /\ OneThread(s, p) => OneThread(t, p)
  <2>1. Thread(f, p) /\ NoThread(s, p) => OneThread(t, p)
      BY <1>1 DEF NoThread, OneThread
  <2>2. ~Thread(f, p) /\ NoThread(s, p) => NoThread(t, p)
      BY <1>1 DEF NoThread
  <2>3. ASSUME ~Thread(f, p), OneThread(s, p)
        PROVE  OneThread(t, p)
    <3>1. PICK i \in 1..Len(s) : /\ Thread(s[i], p)
                                 /\ \A j \in 1..Len(s) : Thread(s[j], p) => j = i
        BY <2>3 DEF OneThread
    <3>2. \A j \in 1..Len(t) : Thread(t[j], p) => j = i
        BY <1>1, <2>3, <3>1
    <3> QED
        BY <1>1, <3>1, <3>2 DEF OneThread
  <2> QED
      BY <2>1, <2>2, <2>3
<1>3. /\ Leaving(f, p) /\ NoExit(s, p) => OneExit(t, p)
      /\ ~Leaving(f, p) => /\ NoExit(s, p) => NoExit(t, p)
                           /\ OneExit(s, p) => OneExit(t, p)
  <2>1. Leaving(f, p) /\ NoExit(s, p) => OneExit(t, p)
      BY <1>1 DEF NoExit, OneExit
  <2>2. ~Leaving(f, p) /\ NoExit(s, p) => NoExit(t, p)
      BY <1>1 DEF NoExit
  <2>3. ASSUME ~Leaving(f, p), OneExit(s, p)
        PROVE  OneExit(t, p)
    <3>1. PICK i \in 1..Len(s) : /\ Leaving(s[i], p)
                                 /\ \A j \in 1..Len(s) : Leaving(s[j], p) => j = i
        BY <2>3 DEF OneExit
    <3>2. \A j \in 1..Len(t) : Leaving(t[j], p) => j = i
        BY <1>1, <2>3, <3>1
    <3> QED
        BY <1>1, <3>1, <3>2 DEF OneExit
  <2> QED
      BY <2>1, <2>2, <2>3
<1> QED
    BY <1>2, <1>3 DEF t

\* What the innermost frame's going changes for a process.
LEMMA PhaseFront ==
    ASSUME NEW s \in Seq(Frame), s # <<>>, NEW p
    PROVE  /\ NoThread(s, p) => NoThread(Front(s), p) /\ ~Thread(Last(s), p)
           /\ OneThread(s, p) => IF Thread(Last(s), p) THEN NoThread(Front(s), p)
                                 ELSE OneThread(Front(s), p)
           /\ NoExit(s, p) => NoExit(Front(s), p) /\ ~Leaving(Last(s), p)
           /\ OneExit(s, p) => IF Leaving(Last(s), p) THEN NoExit(Front(s), p)
                               ELSE OneExit(Front(s), p)
<1>1. /\ Len(s) \in Nat \ {0} /\ Len(Front(s)) = Len(s) - 1
      /\ \A i \in 1..(Len(s) - 1) : Front(s)[i] = s[i]
      /\ Last(s) = s[Len(s)]
    BY FrontOfStack
<1>2. NoThread(s, p) => NoThread(Front(s), p) /\ ~Thread(Last(s), p)
    BY <1>1 DEF NoThread
<1>3. NoExit(s, p) => NoExit(Front(s), p) /\ ~Leaving(Last(s), p)
    BY <1>1 DEF NoExit
<1>4. ASSUME OneThread(s, p)
      PROVE  IF Thread(Last(s), p) THEN NoThread(Front(s), p) ELSE OneThread(Front(s), p)
  <2>1. PICK i \in 1..Len(s) : /\ Thread(s[i], p)
                               /\ \A j \in 1..Len(s) : Thread(s[j], p) => j = i
      BY <1>4 DEF OneThread
  <2>2. CASE Thread(Last(s), p)
    <3>1. i = Len(s)
        BY <1>1, <2>1, <2>2
    <3> QED
        BY <1>1, <2>1, <2>2, <3>1 DEF NoThread
  <2>3. CASE ~Thread(Last(s), p)
    <3>1. i \in 1..(Len(s) - 1)
        BY <1>1, <2>1, <2>3
    <3> QED
        BY <1>1, <2>1, <2>3, <3>1 DEF OneThread
  <2> QED
      BY <2>2, <2>3
<1>5. ASSUME OneExit(s, p)
      PROVE  IF Leaving(Last(s), p) THEN NoExit(Front(s), p) ELSE OneExit(Front(s), p)
  <2>1. PICK i \in 1..Len(s) : /\ Leaving(s[i], p)
                               /\ \A j \in 1..Len(s) : Leaving(s[j], p) => j = i
      BY <1>5 DEF OneExit
  <2>2. CASE Leaving(Last(s), p)
    <3>1. i = Len(s)
        BY <1>1, <2>1, <2>2
    <3> QED
        BY <1>1, <2>1, <2>2, <3>1 DEF NoExit
  <2>3. CASE ~Leaving(Last(s), p)
    <3>1. i \in 1..(Len(s) - 1)
        BY <1>1, <2>1, <2>3
    <3> QED
        BY <1>1, <2>1, <2>3, <3>1 DEF OneExit
  <2> QED
      BY <2>2, <2>3
<1> QED
    BY <1>2, <1>3, <1>4, <1>5

LEMMA PollUnderAppend ==
    ASSUME NEW s \in Seq(Frame), PollUnder(s), NEW f \in Frame,
           NotPoll(s) \/ Hears(f, Last(s).at)
    PROVE  PollUnder(Append(s, f))
<1> DEFINE t == Append(s, f)
<1>1. /\ Len(s) \in Nat /\ Len(t) = Len(s) + 1
      /\ \A i \in 1..Len(s) : t[i] = s[i]
      /\ t[Len(s) + 1] = f
    BY AppendToStack
<1>2. s # <<>> => Last(s) = s[Len(s)]
    BY LastOfStack
<1> HIDE DEF t
<1>3. PollUnder(t)
  <2> SUFFICES ASSUME NEW i \in 1..(Len(t) - 1), t[i].op = "poll"
               PROVE  Hears(t[i + 1], t[i].at)
      BY DEF PollUnder
  <2>1. CASE i = Len(s)
    <3>1. s # <<>> /\ t[i] = Last(s) /\ t[i + 1] = f
        BY <1>1, <1>2, <2>1, EmptySeq
    <3> QED
        BY <3>1 DEF NotPoll
  <2>2. CASE i # Len(s)
      BY <1>1, <2>2 DEF PollUnder
  <2> QED
      BY <2>1, <2>2
<1> QED
    BY <1>3 DEF t

LEMMA PollUnderFront ==
    ASSUME NEW s \in Seq(Frame), s # <<>>, PollUnder(s)
    PROVE  /\ PollUnder(Front(s))
           /\ NotPoll(Front(s)) \/ Hears(Last(s), Last(Front(s)).at)
<1>1. /\ Len(s) \in Nat \ {0} /\ Front(s) \in Seq(Frame) /\ Len(Front(s)) = Len(s) - 1
      /\ \A i \in 1..(Len(s) - 1) : Front(s)[i] = s[i]
      /\ Last(s) = s[Len(s)]
    BY FrontOfStack
<1>2. PollUnder(Front(s))
    BY <1>1 DEF PollUnder
<1>3. ASSUME Front(s) # <<>>, Last(Front(s)).op = "poll"
      PROVE  Hears(Last(s), Last(Front(s)).at)
  <2>1. Last(Front(s)) = Front(s)[Len(Front(s))] /\ Len(Front(s)) # 0
      BY <1>1, <1>3, LastOfStack
  <2>2. Last(Front(s)) = s[Len(s) - 1] /\ Len(s) - 1 \in 1..(Len(s) - 1)
      BY <1>1, <2>1
  <2> QED
      BY <1>1, <1>3, <2>2 DEF PollUnder
<1> QED
    BY <1>2, <1>3 DEF NotPoll
----------------------------------------------------------------------------
(* How the stack operations keep LifeOK.                                   *)

Plain(f) == f.op \notin {"thread"} \cup Exiting

LEMMA PlainFrame ==
    ASSUME NEW f, Plain(f)
    PROVE  \A q : ~Thread(f, q) /\ ~Leaving(f, q) /\ ~Hears(f, q)
BY DEF Plain, Thread, Leaving, Hears, Exiting

LEMMA LifePush ==
    ASSUME NEW s \in Seq(Frame), NEW st, NEW L, LifeOK(s, st, L),
           NotPoll(s), NEW f \in Frame, Plain(f)
    PROVE  LifeOK(Append(s, f), st, L)
<1>1. PollUnder(Append(s, f))
    BY PollUnderAppend DEF LifeOK
<1>2. ASSUME NEW q \in Proc
      PROVE  InPhase(Append(s, f), q, st[q], L)
    BY PhaseAppend, PlainFrame DEF LifeOK, InPhase
<1> QED
    BY <1>1, <1>2 DEF LifeOK

LEMMA LifePop ==
    ASSUME NEW s \in Seq(Frame), s # <<>>, NEW st, NEW L, LifeOK(s, st, L),
           Plain(Last(s))
    PROVE  LifeOK(Front(s), st, L) /\ NotPoll(Front(s))
<1>1. PollUnder(Front(s)) /\ NotPoll(Front(s))
    BY PollUnderFront, PlainFrame DEF LifeOK
<1>2. ASSUME NEW q \in Proc
      PROVE  InPhase(Front(s), q, st[q], L)
    BY PhaseFront, PlainFrame DEF LifeOK, InPhase
<1> QED
    BY <1>1, <1>2 DEF LifeOK

LEMMA LifeReplace ==
    ASSUME NEW s \in Seq(Frame), s # <<>>, NEW st, NEW L, LifeOK(s, st, L),
           NEW f \in Frame,
           \/ Plain(f) /\ Plain(Last(s))
           \/ f.op = Last(s).op /\ f.proc = Last(s).proc /\ f.self = Last(s).self
    PROVE  /\ LifeOK(Append(Front(s), f), st, L)
           /\ Append(Front(s), f) \in Seq(Frame)
           /\ Last(Append(Front(s), f)) = f
           /\ f.op # "poll" => NotPoll(Append(Front(s), f))
<1>1. \A q : /\ Thread(f, q) <=> Thread(Last(s), q)
             /\ Leaving(f, q) <=> Leaving(Last(s), q)
             /\ Hears(f, q) <=> Hears(Last(s), q)
    BY PlainFrame DEF Thread, Leaving, Hears
<1>2. Front(s) \in Seq(Frame)
    BY FrontOfStack
<1>3. PollUnder(Append(Front(s), f))
    BY <1>1, <1>2, PollUnderFront, PollUnderAppend DEF LifeOK
<1>4. ASSUME NEW q \in Proc
      PROVE  InPhase(Append(Front(s), f), q, st[q], L)
  <2>1. /\ NoThread(s, q) => NoThread(Append(Front(s), f), q)
        /\ OneThread(s, q) => OneThread(Append(Front(s), f), q)
        /\ NoExit(s, q) => NoExit(Append(Front(s), f), q)
        /\ OneExit(s, q) => OneExit(Append(Front(s), f), q)
      BY <1>1, <1>2, PhaseFront, PhaseAppend
  <2> QED
      BY <2>1 DEF LifeOK, InPhase
<1>5. Last(Append(Front(s), f)) = f /\ Append(Front(s), f) \in Seq(Frame)
    BY <1>2, LastOfStack, AppendToStack
<1> QED
    BY <1>3, <1>4, <1>5 DEF LifeOK, NotPoll

\* call_process: the receiver that was idle is called.
LEMMA LifeCall ==
    ASSUME NEW st \in [Proc -> ProcessState], NEW p \in Proc, NEW ev \in Event,
           NEW rest \in Seq(Frame), process_current \in Maybe,
           CallProcess(st, p, ev, rest), NEW L, LifeOK(rest, st, L),
           NotPoll(rest) \/ (Last(rest).at = p /\ st[p] = "RUNNING")
    PROVE  LifeOK(stack', state', L) /\ NotPoll(stack')
<1> DEFINE f == NewActivation("thread", p, ev, process_current)
<1>1. CASE st[p] = "RUNNING"
  <2>1. /\ stack' = Append(rest, f)
        /\ state'[p] = "CALLED" /\ \A q \in Proc : q # p => state'[q] = st[q]
      BY <1>1 DEF CallProcess
  <2>2. f \in Frame
      BY FrameTypes DEF Maybe, Op, Activation
  <2>3. f.op = "thread" /\ f.proc = p
      BY DEF NewActivation, NewFrame
  <2> HIDE DEF f
  <2>4. \A q : (Thread(f, q) <=> q = p) /\ (Hears(f, q) <=> q = p) /\ ~Leaving(f, q)
      BY <2>3 DEF Thread, Hears, Leaving, Exiting
  <2>5. PollUnder(Append(rest, f))
      BY <2>2, <2>4, PollUnderAppend DEF LifeOK
  <2>6. ASSUME NEW q \in Proc, q # p
        PROVE  InPhase(Append(rest, f), q, state'[q], L)
    <3>1. InPhase(rest, q, st[q], L) /\ state'[q] = st[q]
        BY <2>1, <2>6 DEF LifeOK
    <3> QED
        BY <2>2, <2>4, <2>6, <3>1, PhaseAppend DEF InPhase
  <2>7. InPhase(Append(rest, f), p, state'[p], L)
    <3>1. InPhase(rest, p, "RUNNING", L)
        BY <1>1 DEF LifeOK
    <3>2. p \in L /\ NoThread(rest, p) /\ NoExit(rest, p)
        BY <3>1 DEF InPhase
    <3> QED
        BY <2>1, <2>2, <2>4, <3>2, PhaseAppend DEF InPhase
  <2>8. NotPoll(Append(rest, f))
      BY <2>2, <2>3, LastOfStack DEF NotPoll
  <2> QED
      BY <2>1, <2>5, <2>6, <2>7, <2>8 DEF LifeOK
<1>2. CASE st[p] # "RUNNING"
    BY <1>2 DEF CallProcess
<1> QED
    BY <1>1, <1>2

\* exit_process of a listed process that runs no thread but the one that ends.
LEMMA LifeExit ==
    ASSUME state \in [Proc -> ProcessState], NEW p \in Proc, NEW from,
           NEW cur \in Maybe, NEW rest \in Seq(Frame), BeginExit(p, from, cur, rest),
           NEW L, L = Reach(next, process_head), p \in L, state[p] # "NONE",
           NoThread(rest, p), NoExit(rest, p), PollUnder(rest),
           \A q \in Proc \ {p} : InPhase(rest, q, state[q], L),
           NotPoll(rest) \/ (Last(rest).at = p /\ p = from)
    PROVE  UNCHANGED list /\ LifeOK(stack', state', L) /\ NotPoll(stack')
<1> DEFINE f == Finisher(p, from, cur)
<1>1. Listed(p)
    BY Chains
<1>2. /\ UNCHANGED list /\ stack' = Append(rest, f)
      /\ state'[p] = "NONE" /\ \A q \in Proc : q # p => state'[q] = state[q]
    BY <1>1 DEF BeginExit, Finisher
<1>5. f \in Frame
    BY FinisherFrame
<1>6. f.op = "finish" /\ f.proc = p /\ (f.self <=> p = from)
    BY FinisherFrame
<1> HIDE DEF f
<1>7. \A q : /\ ~Thread(f, q)
             /\ Leaving(f, q) <=> q = p
             /\ Hears(f, q) <=> q = p /\ p = from
    BY <1>6 DEF Thread, Hears, Leaving, Exiting
<1>8. PollUnder(Append(rest, f))
    BY <1>5, <1>7, PollUnderAppend
<1>9. ASSUME NEW q \in Proc, q # p
      PROVE  InPhase(Append(rest, f), q, state'[q], L)
  <2>1. InPhase(rest, q, state[q], L) /\ state'[q] = state[q]
      BY <1>2, <1>9
  <2> QED
      BY <1>5, <1>7, <1>9, <2>1, PhaseAppend DEF InPhase
<1>10. InPhase(Append(rest, f), p, state'[p], L)
    BY <1>2, <1>5, <1>7, PhaseAppend DEF InPhase
<1>11. NotPoll(Append(rest, f))
    BY <1>5, <1>6, LastOfStack DEF NotPoll
<1> QED
    BY <1>2, <1>8, <1>9, <1>10, <1>11 DEF LifeOK
----------------------------------------------------------------------------
(* The steps.                                                              *)

Life ==
    ~strays => /\ LifeOK(stack, state, Reach(next, process_head))
               /\ PollReady(stack, process_head, next)

LEMMA LifeInit == Init => Life
<1> SUFFICES ASSUME Init PROVE Life
    OBVIOUS
<1>1. /\ stack = <<>> /\ Len(stack) = 0 /\ process_head = NoProc
      /\ next = [p \in Proc |-> NoProc] /\ \A p \in Proc : state[p] = "NONE"
    BY EmptySeq DEF Init, InitProcesses
<1>2. Reach(next, process_head) = {}
    BY <1>1, ReachBasics DEF Maybe
<1> QED
    BY <1>1, <1>2 DEF Life, LifeOK, PollUnder, InPhase, NoThread, NoExit, PollReady, NotPoll

\* Nothing is called when scheduler_run looks at its polls and messages.
LEMMA Idle ==
    ASSUME Sound(stack), Running("poll") \/ Running("run"), NEW p
    PROVE  NoThread(stack, p) /\ NoExit(stack, p)
<1>1. /\ stack \in Seq(Frame) /\ Len(stack) \in Nat \ {0} /\ Top = stack[Len(stack)]
    BY FrontOfStack DEF Sound, Running, Top
<1>2. \A i \in 1..Len(stack) : stack[i].op \in {"poll", "run", "bcast_call"}
  <2>1. CASE Running("poll")
      BY <1>1, <2>1 DEF Sound, FrameSound, Running
  <2>2. CASE Running("run")
    <3>1. FrameSound(stack, Len(stack)) /\ stack[Len(stack)].op = "run"
        BY <1>1, <2>2 DEF Sound, Running
    <3>2. Len(stack) = 1 /\ stack[1].op = "run"
        BY <1>1, <3>1 DEF FrameSound, Bottom
    <3> QED
        BY <3>2
  <2> QED
      BY <2>1, <2>2
<1> QED
    BY <1>2 DEF NoThread, NoExit, Thread, Leaving, Exiting

\* What is known before a step whose invariant is in force.
LEMMA Alive ==
    ASSUME Base, Life, ~strays
    PROVE  /\ Sound(stack) /\ stack \in Seq(Frame) /\ process_current \in Maybe
           /\ process_head \in Maybe /\ next \in [Proc -> Maybe]
           /\ state \in [Proc -> ProcessState]
           /\ LifeOK(stack, state, Reach(next, process_head))
           /\ UserCode => NotPoll(stack)
<1>1. Sound(stack) /\ TypeOK
    BY DEF Base
<1>2. UserCode => NotPoll(stack)
    BY DEF UserCode, NotPoll, Activation, Top
<1> QED
    BY <1>1, <1>2 DEF TypeOK, Maybe, Sound, Life

LEMMA LifeOfCaller ==
    ASSUME Base, Life, ~strays, UserCode, stack # <<>> => Top.calls > 0
    PROVE  /\ Spent \in Seq(Frame) /\ NotPoll(Spent)
           /\ LifeOK(Spent, state, Reach(next, process_head))
           /\ \A p \in Proc :
                /\ Forget(Spent, p) \in Seq(Frame) /\ NotPoll(Forget(Spent, p))
                /\ LifeOK(Forget(Spent, p), state, Reach(next, process_head))
BY Alive, CallerKin, LifeKin

LEMMA LifeOfStart ==
    ASSUME Base, Life, ~strays, NEW p \in Proc, StartProcess(p)
    PROVE  Life'
<1>1. /\ process_current \in Maybe /\ process_head \in Maybe /\ next \in [Proc -> Maybe]
      /\ state \in [Proc -> ProcessState]
    BY Alive
<1>2. /\ NotPoll(Spent) /\ LifeOK(Spent, state, Reach(next, process_head))
      /\ Forget(Spent, p) \in Seq(Frame) /\ NotPoll(Forget(Spent, p))
      /\ LifeOK(Forget(Spent, p), state, Reach(next, process_head))
    BY LifeOfCaller DEF StartProcess, MayCall
<1>3. CASE Listed(p)
  <2>1. stack' = Spent /\ UNCHANGED <<list, state>>
      BY <1>3 DEF StartProcess
  <2> QED
      BY <1>2, <2>1 DEF Life, PollReady, list
<1>4. CASE ~Listed(p)
  <2> DEFINE rest == Forget(Spent, p)
             st == [state EXCEPT ![p] = "RUNNING"]
             L == Reach(next, process_head)
  <2>1. /\ process_head' = p /\ next' = [next EXCEPT ![p] = process_head]
        /\ CallProcess(st, p, "INIT", rest)
      BY <1>4 DEF StartProcess
  <2>2. p \notin L
      BY <1>4, Chains
  <2>3. Reach(next', process_head') = L \cup {p}
    <3>1. next' \in [Proc -> Maybe] /\ Link(next, next', p, process_head)
        BY <1>1, <2>1 DEF Maybe, Link
    <3>2. Reach(next', process_head) = L
        BY <1>1, <2>2, <3>1, StartReach
    <3>3. Reach(next', p) = {p} \cup Reach(next', next'[p]) /\ next'[p] = process_head
        BY <1>1, <2>1, <3>1, ReachStep
    <3> QED
        BY <2>1, <3>2, <3>3
  <2>4. st \in [Proc -> ProcessState] /\ st[p] = "RUNNING"
        /\ \A q \in Proc : q # p => st[q] = state[q]
      BY <1>1 DEF ProcessState
  <2>5. LifeOK(rest, state, L) /\ rest \in Seq(Frame) /\ NotPoll(rest)
      BY <1>2
  <2> HIDE DEF rest, st, L
  <2>6. ASSUME NEW q \in Proc
        PROVE  InPhase(rest, q, st[q], L \cup {p})
      BY <2>2, <2>4, <2>5 DEF LifeOK, InPhase
  <2>7. LifeOK(rest, st, L \cup {p})
      BY <2>5, <2>6 DEF LifeOK
  <2>8. LifeOK(stack', state', L \cup {p}) /\ NotPoll(stack')
      BY <1>1, <2>1, <2>4, <2>5, <2>7, LifeCall DEF Event
  <2> QED
      BY <2>3, <2>8 DEF Life, PollReady
<1> QED
    BY <1>3, <1>4

LEMMA LifeOfExit ==
    ASSUME Base, Life, ~strays', NEW p \in Proc, ExitProcess(p)
    PROVE  Life'
<1>1. ~strays
    BY DEF ExitProcess
<1>2. /\ process_current \in Maybe /\ state \in [Proc -> ProcessState]
      /\ Spent \in Seq(Frame) /\ NotPoll(Spent)
      /\ LifeOK(Spent, state, Reach(next, process_head))
    BY <1>1, Alive, LifeOfCaller DEF ExitProcess, MayCall
<1>3. CASE ~Listed(p)
  <2>1. stack' = Spent /\ UNCHANGED <<list, state>>
      BY <1>3 DEF ExitProcess, BeginExit
  <2> QED
      BY <1>2, <2>1 DEF Life, PollReady, list
<1>4. CASE Listed(p)
  <2>1. state[p] = "RUNNING" /\ p \in Reach(next, process_head)
      BY <1>4, Chains DEF ExitProcess
  <2>2. PollUnder(Spent) /\ \A q \in Proc : InPhase(Spent, q, state[q], Reach(next, process_head))
      BY <1>2 DEF LifeOK
  <2>3. NoThread(Spent, p) /\ NoExit(Spent, p)
      BY <2>1, <2>2 DEF InPhase
  <2>4. BeginExit(p, process_current, process_current, Spent)
      BY DEF ExitProcess
  <2>5. /\ UNCHANGED list /\ NotPoll(stack')
        /\ LifeOK(stack', state', Reach(next, process_head))
      BY <1>2, <2>1, <2>2, <2>3, <2>4, LifeExit
  <2> QED
      BY <2>5 DEF Life, PollReady, list
<1> QED
    BY <1>3, <1>4

LEMMA OwedFrame ==
    ASSUME NEW g \in Frame, NEW S \in SUBSET Proc
    PROVE  [g EXCEPT !.owed = S] \in Frame /\ [g EXCEPT !.owed = S].op = g.op
<1>1. [g EXCEPT !.owed = S] \in Frame
    BY DEF Frame
<1> QED
    BY <1>1 DEF Frame

LEMMA LifeOfHandleMsg ==
    ASSUME Base, Life, ~strays, NEW q \in Maybe, NEW type \in MsgType, HandleMsg(q, type)
    PROVE  Life'
<1>1. /\ process_current \in Maybe /\ state \in [Proc -> ProcessState]
      /\ Spent \in Seq(Frame) /\ NotPoll(Spent)
      /\ LifeOK(Spent, state, Reach(next, process_head)) /\ type \in Event
    BY Alive, LifeOfCaller, SchedulerAssumption DEF HandleMsg, MayCall
<1>2. CASE q # NoProc
  <2>1. q \in Proc /\ CallProcess(state, q, type, Spent) /\ UNCHANGED list
      BY <1>2 DEF HandleMsg, Maybe
  <2>2. LifeOK(stack', state', Reach(next, process_head)) /\ NotPoll(stack')
      BY <1>1, <2>1, LifeCall
  <2> QED
      BY <2>1, <2>2 DEF Life, PollReady, list
<1>3. CASE q = NoProc
  <2> DEFINE g == NewFrame("hbcast", NoProc, type, NoProc)
             f == [g EXCEPT !.owed = OnChain(process_head)]
  <2>1. g \in Frame
      BY <1>1, FrameTypes DEF Maybe, Op, Loop
  <2>2. OnChain(process_head) \in SUBSET Proc
      BY DEF OnChain
  <2>3. f \in Frame /\ g.op = "hbcast"
      BY <2>1, <2>2, OwedFrame DEF NewFrame
  <2>4. f.op = "hbcast"
      BY <2>1, <2>2, <2>3, OwedFrame
  <2>5. stack' = Append(Spent, f) /\ UNCHANGED <<list, state>>
      BY <1>3 DEF HandleMsg
  <2> HIDE DEF f, g
  <2>6. LifeOK(Append(Spent, f), state, Reach(next, process_head))
      BY <1>1, <2>3, <2>4, LifePush DEF Plain, Exiting
  <2>7. NotPoll(Append(Spent, f))
      BY <1>1, <2>3, <2>4, LastOfStack DEF NotPoll
  <2> QED
      BY <2>5, <2>6, <2>7 DEF Life, PollReady, list
<1> QED
    BY <1>2, <1>3
\* A thread yields: its process is idle again.
LEMMA LifeOfYield ==
    ASSUME Base, Life, ~strays, ThreadYields
    PROVE  Life'
<1> DEFINE p == Top.proc
           L == Reach(next, process_head)
<1>1. /\ stack \in Seq(Frame) /\ stack # <<>> /\ Top = Last(stack) /\ Below = Front(stack)
      /\ Top.op = "thread" /\ p \in Proc /\ process_head \in Maybe
      /\ next \in [Proc -> Maybe] /\ state \in [Proc -> ProcessState]
      /\ LifeOK(stack, state, L)
    BY Alive, TopFrame DEF ThreadYields, Activation
<1>2. /\ stack' = Below /\ UNCHANGED list
      /\ state'[p] = "RUNNING" /\ \A q \in Proc : q # p => state'[q] = state[q]
    BY <1>1 DEF ThreadYields
<1>3. \A q : /\ Thread(Top, q) <=> q = p
             /\ Hears(Top, q) <=> q = p
             /\ ~Leaving(Top, q)
    BY <1>1 DEF Thread, Hears, Leaving, Exiting
<1> HIDE DEF p, L
<1>4. PollUnder(Below) /\ (NotPoll(Below) \/ Last(Below).at = p)
    BY <1>1, <1>3, PollUnderFront DEF LifeOK
<1>5. p \in L /\ NoThread(Below, p) /\ NoExit(Below, p)
  <2>1. InPhase(stack, p, state[p], L)
      BY <1>1 DEF LifeOK
  <2> QED
      BY <1>1, <1>3, <2>1, PhaseFront DEF InPhase
<1>6. ASSUME NEW q \in Proc
      PROVE  InPhase(Below, q, state'[q], L)
  <2>1. CASE q = p
      BY <1>2, <1>5, <2>1 DEF InPhase
  <2>2. CASE q # p
    <3>1. InPhase(stack, q, state[q], L) /\ state'[q] = state[q]
        BY <1>1, <1>2, <2>2 DEF LifeOK
    <3> QED
        BY <1>1, <1>3, <2>2, <3>1, PhaseFront DEF InPhase
  <2> QED
      BY <2>1, <2>2
<1>7. next[p] \in L \cup {NoProc}
    BY <1>1, <1>5, ReachBasics DEF L, ClosedIn
<1>8. PollReady(Below, process_head, next)
    BY <1>1, <1>4, <1>7, SchedulerAssumption DEF PollReady, From, L
<1> QED
    BY <1>2, <1>4, <1>6, <1>8 DEF Life, LifeOK, list, L

\* A thread ends: its process, which is listed, is exited.
LEMMA LifeOfEnd ==
    ASSUME Base, Life, ~strays, ThreadEnds
    PROVE  Life'
<1> DEFINE p == Top.proc
           L == Reach(next, process_head)
<1>1. /\ stack \in Seq(Frame) /\ stack # <<>> /\ Top = Last(stack) /\ Below = Front(stack)
      /\ Below \in Seq(Frame) /\ Top.op = "thread" /\ p \in Proc /\ Top.caller \in Maybe
      /\ state \in [Proc -> ProcessState] /\ LifeOK(stack, state, L)
    BY Alive, TopFrame DEF ThreadEnds, Activation, Sound
<1>2. BeginExit(p, p, Top.caller, Below)
    BY DEF ThreadEnds
<1>3. \A q : /\ Thread(Top, q) <=> q = p
             /\ Hears(Top, q) <=> q = p
             /\ ~Leaving(Top, q)
    BY <1>1 DEF Thread, Hears, Leaving, Exiting
<1> HIDE DEF p, L
<1>4. PollUnder(Below) /\ (NotPoll(Below) \/ Last(Below).at = p)
    BY <1>1, <1>3, PollUnderFront DEF LifeOK
<1>5. p \in L /\ NoThread(Below, p) /\ NoExit(Below, p) /\ state[p] # "NONE"
  <2>1. InPhase(stack, p, state[p], L)
      BY <1>1 DEF LifeOK
  <2> QED
      BY <1>1, <1>3, <2>1, PhaseFront DEF InPhase
<1>6. ASSUME NEW q \in Proc \ {p}
      PROVE  InPhase(Below, q, state[q], L)
  <2>1. InPhase(stack, q, state[q], L)
      BY <1>1 DEF LifeOK
  <2> QED
      BY <1>1, <1>3, <2>1, PhaseFront DEF InPhase
<1>7. UNCHANGED list /\ LifeOK(stack', state', L) /\ NotPoll(stack')
    BY <1>1, <1>2, <1>4, <1>5, <1>6, LifeExit DEF L
<1> QED
    BY <1>7 DEF Life, PollReady, list, L

\* An exit is over: the process is unlinked.
LEMMA LifeOfUnlink ==
    ASSUME Base, WalksEnd, Life, ~strays, stack # <<>>,
           Top.op = "exit" \/ (Top.op = "finish" /\ Top.self),
           Unlink(Top.proc), stack' = Below, state' = state
    PROVE  Life'
<1> DEFINE p == Top.proc
           L == Reach(next, process_head)
<1>1. /\ stack \in Seq(Frame) /\ Top = Last(stack) /\ Below = Front(stack)
      /\ p \in Proc /\ process_head \in Maybe
      /\ next \in [Proc -> Maybe] /\ state \in [Proc -> ProcessState]
      /\ LifeOK(stack, state, L) /\ Acyclic(next)
  <2>1. Running("exit") \/ Running("finish")
      BY DEF Running
  <2> QED
      BY <2>1, Alive, TopFrame, Chains DEF Exiting
<1>2. /\ Reach(next', process_head') = L \ {p}
      /\ next' \in [Proc -> Maybe] /\ Bypass(next, next', p)
    BY <1>1, UnlinkListed, UnlinkEffect
<1>3. \A q : /\ ~Thread(Top, q)
             /\ Leaving(Top, q) <=> q = p
             /\ Hears(Top, q) => q = p
    BY <1>1 DEF Thread, Hears, Leaving, Exiting
<1> HIDE DEF p, L
<1>4. PollUnder(Below) /\ (NotPoll(Below) \/ Last(Below).at = p)
    BY <1>1, <1>3, PollUnderFront DEF LifeOK
<1>5. p \in L /\ state[p] = "NONE" /\ NoThread(Below, p) /\ NoExit(Below, p)
  <2>1. InPhase(stack, p, state[p], L)
      BY <1>1 DEF LifeOK
  <2> QED
      BY <1>1, <1>3, <2>1, PhaseFront DEF InPhase
<1>6. ASSUME NEW q \in Proc
      PROVE  InPhase(Below, q, state[q], L \ {p})
  <2>1. CASE q = p
      BY <1>5, <2>1 DEF InPhase
  <2>2. CASE q # p
    <3>1. InPhase(stack, q, state[q], L)
        BY <1>1 DEF LifeOK
    <3> QED
        BY <1>1, <1>3, <2>2, <3>1, PhaseFront DEF InPhase
  <2> QED
      BY <2>1, <2>2
<1>7. next'[p] \in (L \ {p}) \cup {NoProc}
  <2>1. next[p] \in L \cup {NoProc}
      BY <1>1, <1>5, ReachBasics DEF L, ClosedIn
  <2>2. next[p] # p
      BY <1>1, ReachBasics, SchedulerAssumption DEF Acyclic
  <2>3. next'[p] = next[p]
      BY <1>1, <1>2, <2>2 DEF Bypass
  <2> QED
      BY <2>1, <2>2, <2>3
<1>8. PollReady(Below, process_head', next')
    BY <1>1, <1>2, <1>4, <1>7, SchedulerAssumption DEF PollReady, From
<1> QED
    BY <1>2, <1>4, <1>6, <1>8 DEF Life, LifeOK

\* The exiting process hears last: no walk of scheduler_utilize_poll waits for
\* the exit of a process whose thread did not end itself.
LEMMA LifeOfLastWord ==
    ASSUME Base, Life, ~strays, FinishEnds, ~Top.self
    PROVE  Life'
<1> DEFINE p == Top.proc
           L == Reach(next, process_head)
           f == NewActivation("exit", p, "EXIT", Top.caller)
<1>1. /\ stack \in Seq(Frame) /\ stack # <<>> /\ Top = Last(stack) /\ Below = Front(stack)
      /\ Below \in Seq(Frame) /\ Top.op = "finish" /\ p \in Proc /\ Top.caller \in Maybe
      /\ LifeOK(stack, state, L)
    BY Alive, TopFrame DEF FinishEnds, Exiting, Sound
<1>2. stack' = Append(Below, f) /\ UNCHANGED <<list, state>>
    BY DEF FinishEnds
<1>3. f \in Frame
    BY <1>1, FrameTypes DEF Op, Activation, Event, Maybe
<1>4. f.op = "exit" /\ f.proc = p
    BY DEF NewActivation, NewFrame
<1> HIDE DEF f, p, L
<1>5. \A q : /\ Thread(f, q) <=> Thread(Top, q)
             /\ Leaving(f, q) <=> Leaving(Top, q)
             /\ ~Hears(Top, q)
    BY <1>1, <1>4 DEF Thread, Hears, Leaving, Exiting, p
<1>6. PollUnder(Below) /\ NotPoll(Below)
    BY <1>1, <1>5, PollUnderFront DEF LifeOK
<1>7. PollUnder(Append(Below, f))
    BY <1>1, <1>3, <1>6, PollUnderAppend
<1>8. ASSUME NEW q \in Proc
      PROVE  InPhase(Append(Below, f), q, state[q], L)
  <2>1. /\ NoThread(stack, q) => NoThread(Append(Below, f), q)
        /\ OneThread(stack, q) => OneThread(Append(Below, f), q)
        /\ NoExit(stack, q) => NoExit(Append(Below, f), q)
        /\ OneExit(stack, q) => OneExit(Append(Below, f), q)
      BY <1>1, <1>3, <1>5, PhaseFront, PhaseAppend
  <2> QED
      BY <1>1, <2>1 DEF LifeOK, InPhase
<1>9. NotPoll(Append(Below, f))
    BY <1>1, <1>3, <1>4, LastOfStack DEF NotPoll
<1> QED
    BY <1>2, <1>7, <1>8, <1>9 DEF Life, LifeOK, PollReady, list, L
LEMMA LifeOfReturns ==
    ASSUME Base, WalksEnd, Life, ~strays,
           \/ ThreadReturns \/ FinishEnds \/ HandleEnds \/ PollEnds
           \/ RunTakesNoMessage \/ Delivered
    PROVE  Life'
<1>1. CASE ThreadYields
    BY <1>1, LifeOfYield
<1>2. CASE ThreadEnds
    BY <1>2, LifeOfEnd
<1>3. CASE ExitThreadReturns
    BY <1>3, LifeOfUnlink DEF ExitThreadReturns, Running
<1>4. CASE FinishEnds
  <2>1. CASE Top.self
      BY <1>4, <2>1, LifeOfUnlink DEF FinishEnds, Running
  <2>2. CASE ~Top.self
      BY <1>4, <2>2, LifeOfLastWord
  <2> QED
      BY <2>1, <2>2
<1>5. CASE HandleEnds \/ PollEnds \/ RunTakesNoMessage \/ Delivered
  <2>1. PICK op \in {"hbcast", "poll", "run", "deliver", "bcast"} : Running(op)
      BY <1>5 DEF HandleEnds, PollEnds, RunTakesNoMessage, Delivered
  <2>2. /\ stack \in Seq(Frame) /\ stack # <<>> /\ Top = Last(stack) /\ Below = Front(stack)
        /\ Top.op = op /\ LifeOK(stack, state, Reach(next, process_head))
        /\ op = "run" => Below = <<>>
      BY <2>1, Alive, TopFrame DEF Bottom
  <2>3. LifeOK(Below, state, Reach(next, process_head)) /\ NotPoll(Below)
      BY <2>2, LifePop DEF Plain, Exiting
  <2>4. stack' = Below /\ UNCHANGED <<list, state>>
      BY <1>5, <2>2 DEF HandleEnds, PollEnds, RunTakesNoMessage, Delivered, Running
  <2> QED
      BY <2>3, <2>4 DEF Life, PollReady, list
<1> QED
    BY <1>1, <1>2, <1>3, <1>4, <1>5 DEF ThreadReturns

\* A loop moves on, and may call the process it comes to.
LEMMA LifeAdvanced ==
    ASSUME Base, Life, ~strays, stack # <<>>, Top.op \in Loop, NEW p \in Proc
    PROVE  /\ LifeOK(Advanced(p), state, Reach(next, process_head))
           /\ Advanced(p) \in Seq(Frame)
           /\ Last(Advanced(p)).at = p
           /\ Top.op # "poll" => NotPoll(Advanced(p))
<1> DEFINE f == [Top EXCEPT !.at = p, !.owed = @ \ {p}]
<1>1. /\ stack \in Seq(Frame) /\ Top = Last(stack) /\ Below = Front(stack)
      /\ LifeOK(stack, state, Reach(next, process_head)) /\ Top \in Frame
    BY Alive, LastOfStack DEF Top, Below
<1>2. f \in Frame
    BY <1>1, FrameFields DEF Maybe
<1>3. f.op = Top.op /\ f.proc = Top.proc /\ f.self = Top.self /\ f.at = p
    BY <1>1 DEF Frame
<1>4. Advanced(p) = Append(Front(stack), f)
    BY <1>1 DEF Advanced
<1> HIDE DEF f
<1> QED
    BY <1>1, <1>2, <1>3, <1>4, LifeReplace

LEMMA LifeOfVisits ==
    ASSUME Base, Life, ~strays, FinishVisits \/ HandleVisits
    PROVE  Life'
<1> DEFINE p == LoopNext(Top)
<1>1. PICK op \in {"finish", "hbcast"} : Running(op) /\ p # NoProc
    BY DEF FinishVisits, HandleVisits
<1>2. /\ process_current \in Maybe /\ state \in [Proc -> ProcessState]
      /\ stack # <<>> /\ Top \in Frame /\ Top.op = op /\ Top.ev \in Event
    BY <1>1, Alive, TopFrame
<1>3. p \in Proc
    BY <1>1, <1>2, NextIsProcess DEF Maybe, Base
<1>4. /\ UNCHANGED list
      /\ \/ stack' = Advanced(p) /\ state' = state
         \/ \E ev \in Event : CallProcess(state, p, ev, Advanced(p))
    BY <1>2 DEF FinishVisits, HandleVisits, Event
<1> HIDE DEF p
<1>5. /\ LifeOK(Advanced(p), state, Reach(next, process_head))
      /\ Advanced(p) \in Seq(Frame) /\ NotPoll(Advanced(p))
    BY <1>2, <1>3, LifeAdvanced DEF Loop
<1>6. LifeOK(stack', state', Reach(next, process_head)) /\ NotPoll(stack')
    BY <1>2, <1>3, <1>4, <1>5, LifeCall
<1> QED
    BY <1>4, <1>6 DEF Life, PollReady, list

\* The process that the walk comes to is listed and idle, so setting it
\* running changes nothing.
LEMMA LifeOfPollVisits ==
    ASSUME Base, Life, ~strays, PollVisits
    PROVE  Life'
<1> DEFINE p == LoopNext(Top)
           L == Reach(next, process_head)
<1>1. /\ Sound(stack) /\ stack \in Seq(Frame) /\ process_current \in Maybe
      /\ process_head \in Maybe /\ next \in [Proc -> Maybe]
      /\ state \in [Proc -> ProcessState] /\ LifeOK(stack, state, L)
    BY Alive
<1>2. /\ Running("poll") /\ p # NoProc /\ UNCHANGED list
      /\ stack # <<>> /\ Top = Last(stack) /\ Top \in Frame /\ Top.op = "poll"
    BY <1>1, TopFrame DEF PollVisits
<1>3. p \in Proc
    BY <1>2, NextIsProcess DEF Maybe, Base
<1>4. p \in L
    BY <1>2 DEF Life, PollReady, NotPoll, From, LoopNext
<1>5. \/ stack' = Advanced(p) /\ state' = state
      \/ CallProcess([state EXCEPT ![p] = "RUNNING"], p, "POLL", Advanced(p))
    BY DEF PollVisits
<1> HIDE DEF p, L
<1>6. state[p] = "RUNNING"
  <2>1. InPhase(stack, p, state[p], L) /\ NoThread(stack, p) /\ NoExit(stack, p)
      BY <1>1, <1>2, <1>3, Idle DEF LifeOK
  <2>2. ~OneThread(stack, p) /\ ~OneExit(stack, p)
      BY <2>1 DEF NoThread, NoExit, OneThread, OneExit
  <2> QED
      BY <1>4, <2>1, <2>2 DEF InPhase
<1>7. [state EXCEPT ![p] = "RUNNING"] = state
    BY <1>1, <1>3, <1>6
<1>8. /\ LifeOK(Advanced(p), state, L) /\ Advanced(p) \in Seq(Frame)
      /\ Last(Advanced(p)).at = p
    BY <1>2, <1>3, LifeAdvanced DEF Loop, L
<1>9. CASE stack' = Advanced(p) /\ state' = state
  <2>1. next[p] \in L \cup {NoProc}
      BY <1>1, <1>3, <1>4, ReachBasics DEF L, ClosedIn
  <2>2. PollReady(Advanced(p), process_head, next)
      BY <1>3, <1>8, <2>1, SchedulerAssumption DEF PollReady, From, L
  <2> QED
      BY <1>2, <1>8, <1>9, <2>2 DEF Life, list, L
<1>10. CASE CallProcess([state EXCEPT ![p] = "RUNNING"], p, "POLL", Advanced(p))
  <2>1. CallProcess(state, p, "POLL", Advanced(p))
      BY <1>7, <1>10
  <2>2. LifeOK(stack', state', L) /\ NotPoll(stack')
      BY <1>1, <1>3, <1>6, <1>8, <2>1, LifeCall DEF Event
  <2> QED
      BY <1>2, <2>2 DEF Life, PollReady, list, L
<1> QED
    BY <1>5, <1>9, <1>10
\* A walk of scheduler_utilize_poll begins at the head of the list.
LEMMA LifeOfBeginPoll ==
    ASSUME process_head \in Maybe, next \in [Proc -> Maybe],
           NEW rest \in Seq(Frame), NotPoll(rest),
           LifeOK(rest, state, Reach(next, process_head)),
           BeginPoll(rest), UNCHANGED <<list, state>>
    PROVE  Life'
<1> DEFINE f == NewFrame("poll", NoProc, "POLL", NoProc)
           L == Reach(next, process_head)
<1>1. f \in Frame
    BY FrameTypes DEF Maybe, Op, Loop, Event
<1>2. f.op = "poll" /\ f.at = NoProc
    BY DEF NewFrame
<1>3. stack' = Append(rest, f)
    BY DEF BeginPoll
<1> HIDE DEF f
<1>4. LifeOK(Append(rest, f), state, L)
    BY <1>1, <1>2, LifePush DEF Plain, Exiting
<1>5. Last(Append(rest, f)) = f
    BY <1>1, LastOfStack
<1>6. process_head \in L \cup {NoProc}
    BY ReachBasics
<1> HIDE DEF L
<1>7. PollReady(Append(rest, f), process_head, next)
    BY <1>2, <1>5, <1>6 DEF PollReady, From, L
<1> QED
    BY <1>3, <1>4, <1>7 DEF Life, list, L

LEMMA LifeOfBroadcasts ==
    ASSUME Base, Life, ~strays, BroadcastVisits \/ BroadcastCalls
    PROVE  Life'
<1> DEFINE p == LoopNext(Top)
           L == Reach(next, process_head)
           waits == [Top EXCEPT !.op = "bcast_call", !.at = p]
           calls == [Top EXCEPT !.op = "bcast", !.owed = @ \ {Top.at}]
<1>1. /\ Sound(stack) /\ stack \in Seq(Frame) /\ process_current \in Maybe
      /\ process_head \in Maybe /\ next \in [Proc -> Maybe]
      /\ state \in [Proc -> ProcessState] /\ LifeOK(stack, state, L) /\ TypeOK
    BY Alive DEF Base
<1>2. PICK op \in {"bcast", "bcast_call"} : Running(op)
    BY DEF BroadcastVisits, BroadcastCalls
<1>3. /\ stack # <<>> /\ Top \in Frame /\ Top.op = op /\ Top.ev \in Event
      /\ Below = Front(stack) /\ Top = Last(stack)
      /\ p \in Maybe /\ Top.at \in Maybe /\ UNCHANGED list
    BY <1>1, <1>2, TopFrame, NextIsProcess DEF BroadcastVisits, BroadcastCalls
<1>4. waits \in Frame /\ calls \in Frame
    BY <1>3, FrameFields DEF Op, Loop
<1>5. waits.op = "bcast_call" /\ calls.op = "bcast"
    BY <1>3, <1>4 DEF Frame
<1>6. CASE BroadcastVisits
  <2>1. p \in Proc /\ op = "bcast"
      BY <1>3, <1>6 DEF BroadcastVisits, Running, Maybe
  <2>2. CASE poll_requested = 1
    <3>1. BeginPoll(Append(Below, waits)) /\ UNCHANGED <<list, state>>
        BY <1>6, <2>2 DEF BroadcastVisits
    <3> HIDE DEF waits, calls, p
    <3>2. /\ LifeOK(Append(Below, waits), state, L)
          /\ Append(Below, waits) \in Seq(Frame) /\ NotPoll(Append(Below, waits))
        BY <1>1, <1>3, <1>4, <1>5, <2>1, LifeReplace DEF Plain, Exiting
    <3> QED
        BY <1>1, <3>1, <3>2, LifeOfBeginPoll
  <2>3. CASE poll_requested = 0
    <3>1. CallProcess(state, p, Top.ev, Advanced(p))
        BY <1>6, <2>3 DEF BroadcastVisits
    <3> HIDE DEF p
    <3>2. /\ LifeOK(Advanced(p), state, L)
          /\ Advanced(p) \in Seq(Frame) /\ NotPoll(Advanced(p))
        BY <1>3, <2>1, LifeAdvanced DEF Loop
    <3>3. LifeOK(stack', state', L) /\ NotPoll(stack')
        BY <1>1, <1>3, <2>1, <3>1, <3>2, LifeCall
    <3> QED
        BY <1>3, <3>3 DEF Life, PollReady, list
  <2> QED
      BY <1>6, <2>2, <2>3 DEF BroadcastVisits
<1>7. CASE BroadcastCalls
  <2>1. op = "bcast_call" /\ CallProcess(state, Top.at, Top.ev, Append(Below, calls))
      BY <1>3, <1>7 DEF BroadcastCalls, Running
  <2>2. Top.at \in Proc
    <3>1. Len(stack) \in Nat \ {0} /\ Top = stack[Len(stack)]
        BY <1>1, <1>3, FrontOfStack
    <3> QED
        BY <1>1, <1>3, <2>1, <3>1 DEF Sound, FrameSound
  <2> HIDE DEF waits, calls, p
  <2>3. /\ LifeOK(Append(Below, calls), state, L)
        /\ Append(Below, calls) \in Seq(Frame) /\ NotPoll(Append(Below, calls))
      BY <1>1, <1>3, <1>4, <1>5, <2>1, LifeReplace DEF Plain, Exiting
  <2>4. LifeOK(stack', state', L) /\ NotPoll(stack')
      BY <1>1, <1>3, <2>1, <2>2, <2>3, LifeCall
  <2> QED
      BY <1>3, <2>4 DEF Life, PollReady, list
<1> QED
    BY <1>6, <1>7

\* The first frame.
LEMMA LifeFirst ==
    ASSUME NEW s, s = <<>>, NEW st, NEW L, LifeOK(s, st, L), NEW f \in Frame, Plain(f),
           f.op # "poll"
    PROVE  <<f>> \in Seq(Frame) /\ LifeOK(<<f>>, st, L) /\ NotPoll(<<f>>)
<1>1. s \in Seq(Frame) /\ Append(s, f) = <<f>> /\ NotPoll(s)
    BY EmptySeq DEF NotPoll
<1>2. Last(Append(s, f)) = f /\ Append(s, f) \in Seq(Frame)
    BY <1>1, LastOfStack, AppendToStack
<1>3. LifeOK(Append(s, f), st, L)
    BY <1>1, LifePush
<1>4. NotPoll(Append(s, f))
    BY <1>2 DEF NotPoll
<1> QED
    BY <1>1, <1>2, <1>3, <1>4

LEMMA LifeOfRun ==
    ASSUME Base, Life, ~strays, Run
    PROVE  Life'
<1> DEFINE f == NewFrame("run", NoProc, "USER", NoProc)
<1>1. /\ process_head \in Maybe /\ next \in [Proc -> Maybe]
      /\ LifeOK(stack, state, Reach(next, process_head))
    BY Alive
<1>2. /\ stack = <<>> /\ UNCHANGED <<list, state>>
      /\ stack' = <<f>> \/ BeginPoll(<<f>>)
    BY DEF Run
<1>3. f \in Frame
    BY FrameTypes DEF Maybe, Op, Event
<1>4. f.op = "run"
    BY DEF NewFrame
<1> HIDE DEF f
<1>5. /\ <<f>> \in Seq(Frame) /\ NotPoll(<<f>>)
      /\ LifeOK(<<f>>, state, Reach(next, process_head))
    BY <1>1, <1>2, <1>3, <1>4, LifeFirst DEF Plain, Exiting
<1>6. CASE stack' = <<f>>
    BY <1>2, <1>5, <1>6 DEF Life, PollReady, list
<1>7. CASE BeginPoll(<<f>>)
    BY <1>1, <1>2, <1>5, <1>7, LifeOfBeginPoll
<1> QED
    BY <1>2, <1>6, <1>7

\* An INIT message sets its receiver running, which it is already, for it is
\* listed and nothing is called.
LEMMA LifeOfMessage ==
    ASSUME Base, Life, ~strays', RunTakesMessage
    PROVE  Life'
<1> DEFINE msg == Head(messages)
           to == msg.to
           L == Reach(next, process_head)
           d == NewFrame("deliver", to, msg.type, NoProc)
           b == NewFrame("bcast", NoProc, msg.type, NoProc)
           c == [b EXCEPT !.owed = OnChain(process_head)]
           st == IF msg.type = "INIT" THEN [state EXCEPT ![to] = "RUNNING"] ELSE state
<1>1. ~strays
    BY DEF RunTakesMessage
<1>2. /\ Sound(stack) /\ stack \in Seq(Frame) /\ process_current \in Maybe
      /\ state \in [Proc -> ProcessState] /\ LifeOK(stack, state, L)
    BY <1>1, Alive
<1>3. to \in Maybe /\ msg.type \in Event
  <2> DEFINE Msg == [to : Proc \cup {NoProc}, type : MsgType]
  <2>1. messages \in Seq(Msg) /\ messages # <<>>
      BY DEF RunTakesMessage, Base, TypeOK
  <2>2. Head(messages) \in Msg
      BY <2>1, HeadTailProperties
  <2> QED
      BY <2>2, SchedulerAssumption DEF Maybe
<1>4. d \in Frame /\ d.op = "deliver"
    BY <1>3, FrameTypes DEF Maybe, Op, Loop, NewFrame
<1>5. c \in Frame /\ c.op = "bcast"
  <2>1. b \in Frame /\ b.op = "bcast"
      BY <1>3, FrameTypes DEF Maybe, Op, Loop, NewFrame
  <2>2. OnChain(process_head) \in SUBSET Proc
      BY DEF OnChain
  <2> HIDE DEF b
  <2> QED
      BY <2>1, <2>2, OwedFrame
<1>6. /\ UNCHANGED list
      /\ \/ to # NoProc /\ CallProcess(st, to, msg.type, <<d>>)
            /\ ~(msg.type = "INIT" /\ ~Listed(to))
         \/ stack' = <<c>> /\ state' = state
    BY DEF RunTakesMessage
<1>7. Running("run") /\ Below = <<>> /\ LifeOK(Below, state, L)
  <2>1. /\ Running("run") /\ stack # <<>> /\ Top = Last(stack) /\ Below = Front(stack)
        /\ Top.op = "run" /\ Below = <<>>
      BY <1>2, TopFrame DEF RunTakesMessage, Bottom
  <2> QED
      BY <1>2, <2>1, LifePop DEF Plain, Exiting
<1>8. CASE to # NoProc /\ CallProcess(st, to, msg.type, <<d>>)
           /\ ~(msg.type = "INIT" /\ ~Listed(to))
  <2>1. to \in Proc
      BY <1>3, <1>8 DEF Maybe
  <2>2. st = state
    <3>1. CASE msg.type = "INIT"
      <4>1. to \in L
          BY <1>8, <3>1, Chains
      <4>2. InPhase(stack, to, state[to], L) /\ NoThread(stack, to) /\ NoExit(stack, to)
          BY <1>2, <1>7, <2>1, Idle DEF LifeOK
      <4>3. ~OneThread(stack, to) /\ ~OneExit(stack, to)
          BY <4>2 DEF NoThread, NoExit, OneThread, OneExit
      <4>4. state[to] = "RUNNING"
          BY <4>1, <4>2, <4>3 DEF InPhase
      <4> QED
          BY <1>2, <2>1, <4>4
    <3> QED
        BY <3>1
  <2> HIDE DEF st, d, to, msg, L
  <2>3. <<d>> \in Seq(Frame) /\ LifeOK(<<d>>, state, L) /\ NotPoll(<<d>>)
      BY <1>4, <1>7, LifeFirst DEF Plain, Exiting
  <2>4. LifeOK(stack', state', L) /\ NotPoll(stack')
      BY <1>2, <1>3, <1>8, <2>1, <2>2, <2>3, LifeCall
  <2> QED
      BY <1>6, <2>4 DEF Life, PollReady, list, L
<1>9. CASE stack' = <<c>> /\ state' = state
  <2> HIDE DEF c, L
  <2>1. LifeOK(<<c>>, state, L) /\ NotPoll(<<c>>)
      BY <1>5, <1>7, LifeFirst DEF Plain, Exiting
  <2> QED
      BY <1>6, <1>9, <2>1 DEF Life, PollReady, list, L
<1> QED
    BY <1>6, <1>8, <1>9

LEMMA LifeStep == Base /\ WalksEnd /\ Life /\ [Next]_vars => Life'
<1> SUFFICES ASSUME Base, WalksEnd, Life, [Next]_vars, ~strays'
             PROVE  Life'
    BY DEF Life
<1>1. CASE UserCalls
  <2>1. CASE \/ \E p \in Proc : PollProcess(p)
             \/ Malloc \/ Free
             \/ \E q \in Maybe, type \in MsgType : PostMsg(q, type) \/ SendMsg(q, type)
      BY <2>1 DEF PollProcess, Malloc, Free, PostMsg, SendMsg, Life, list, past
  <2>2. ASSUME NEW p \in Proc, StartProcess(p)
        PROVE  Life'
      BY <2>2, LifeOfStart DEF StartProcess
  <2>3. ASSUME NEW p \in Proc, ExitProcess(p)
        PROVE  Life'
      BY <2>3, LifeOfExit
  <2>4. ASSUME NEW q \in Maybe, NEW type \in MsgType, HandleMsg(q, type)
        PROVE  Life'
      BY <2>4, LifeOfHandleMsg DEF HandleMsg, past
  <2> QED
      BY <1>1, <2>1, <2>2, <2>3, <2>4 DEF UserCalls, Maybe
<1>2. CASE RunTakesMessage
    BY <1>2, LifeOfMessage
<1>3. CASE \/ ThreadReturns \/ FinishEnds \/ HandleEnds \/ PollEnds
           \/ RunTakesNoMessage \/ Delivered
  <2>1. ~strays
      BY <1>3 DEF ThreadReturns, ThreadYields, ThreadEnds, ExitThreadReturns, FinishEnds,
                  HandleEnds, PollEnds, RunTakesNoMessage, Delivered, past
  <2> QED
      BY <1>3, <2>1, LifeOfReturns
<1>4. CASE FinishVisits \/ HandleVisits
    BY <1>4, LifeOfVisits DEF FinishVisits, HandleVisits, past
<1>5. CASE PollVisits
    BY <1>5, LifeOfPollVisits DEF PollVisits, past
<1>6. CASE BroadcastVisits \/ BroadcastCalls
    BY <1>6, LifeOfBroadcasts DEF BroadcastVisits, BroadcastCalls, past
<1>7. CASE Run
    BY <1>7, LifeOfRun DEF Run, past
<1>8. CASE UNCHANGED vars
    BY <1>8 DEF vars, Life, list, past
<1> QED
    BY <1>1, <1>2, <1>3, <1>4, <1>5, <1>6, <1>7, <1>8 DEF Next, Continue, SchedulerSteps
----------------------------------------------------------------------------
(* LifeCycle and OnlyListedAreCalled.                                      *)

LEMMA CurrentIs ==
    ASSUME stack \in Seq(Frame), CurrentOK
    PROVE  LET inner == {i \in DOMAIN stack : stack[i].op \in Activation}
           IN  process_current = IF inner = {} THEN NoProc ELSE stack[Max(inner)].proc
<1> DEFINE inner == {i \in DOMAIN stack : stack[i].op \in Activation}
<1>1. DOMAIN stack = 1..Len(stack) /\ Len(stack) \in Nat
    BY LenProperties
<1>2. CASE process_current = NoProc /\ \A i \in 1..Len(stack) : stack[i].op \notin Activation
    BY <1>1, <1>2
<1>3. CASE \E i \in 1..Len(stack) :
                /\ stack[i].op \in Activation
                /\ stack[i].proc = process_current
                /\ \A j \in (i + 1)..Len(stack) : stack[j].op \notin Activation
  <2>1. PICK i \in 1..Len(stack) :
                /\ stack[i].op \in Activation
                /\ stack[i].proc = process_current
                /\ \A j \in (i + 1)..Len(stack) : stack[j].op \notin Activation
      BY <1>3
  <2>2. i \in inner /\ inner \subseteq 1..Len(stack)
      BY <1>1, <2>1
  <2>3. \A j \in inner : i >= j
      BY <1>1, <2>1
  <2> HIDE DEF inner
  <2>4. \A x \in inner : (\A y \in inner : x >= y) => x = i
      BY <1>1, <2>2, <2>3
  <2>5. Max(inner) = i
      BY <2>2, <2>3, <2>4 DEF Max
  <2>6. process_current = IF inner = {} THEN NoProc ELSE stack[Max(inner)].proc
      BY <2>1, <2>2, <2>5
  <2> QED
      BY <2>6 DEF inner
<1> QED
    BY <1>2, <1>3 DEF CurrentOK, Cur, Innermost

LEMMA PhasesAre ==
    ASSUME stack \in Seq(Frame), NEW p
    PROVE  /\ NoThread(stack, p) /\ NoExit(stack, p) => Activations(p) = {} /\ Exits(p) = {}
           /\ OneThread(stack, p) /\ NoExit(stack, p)
                => Cardinality(Activations(p)) = 1 /\ Exits(p) = {}
           /\ NoThread(stack, p) /\ OneExit(stack, p)
                => Cardinality(Activations(p)) <= 1 /\ Cardinality(Exits(p)) = 1
<1>1. DOMAIN stack = 1..Len(stack) /\ Len(stack) \in Nat
    BY LenProperties
<1>2. /\ Cardinality({}) = 0
      /\ \A i : Cardinality({i}) = 1
    BY FS_EmptySet, FS_Singleton
<1>3. ASSUME NoExit(stack, p)
      PROVE  /\ Exits(p) = {}
             /\ Activations(p) = {i \in 1..Len(stack) : Thread(stack[i], p)}
    BY <1>1, <1>3 DEF NoExit, Leaving, Thread, Exits, Activations, Exiting, Activation
<1>4. ASSUME NoThread(stack, p)
      PROVE  /\ Exits(p) = {i \in 1..Len(stack) : Leaving(stack[i], p)}
             /\ Activations(p) \subseteq Exits(p)
    BY <1>1, <1>4 DEF NoThread, Leaving, Thread, Exits, Activations, Exiting, Activation
<1>5. ASSUME OneThread(stack, p), NoExit(stack, p)
      PROVE  Cardinality(Activations(p)) = 1
  <2>1. PICK i \in 1..Len(stack) : /\ Thread(stack[i], p)
                                   /\ \A j \in 1..Len(stack) : Thread(stack[j], p) => j = i
      BY <1>5 DEF OneThread
  <2>2. Activations(p) = {i}
      BY <1>3, <1>5, <2>1
  <2> QED
      BY <1>2, <2>2
<1>6. ASSUME NoThread(stack, p), OneExit(stack, p)
      PROVE  Cardinality(Activations(p)) <= 1 /\ Cardinality(Exits(p)) = 1
  <2>1. PICK i \in 1..Len(stack) : /\ Leaving(stack[i], p)
                                   /\ \A j \in 1..Len(stack) : Leaving(stack[j], p) => j = i
      BY <1>6 DEF OneExit
  <2>2. Exits(p) = {i}
      BY <1>4, <1>6, <2>1
  <2>3. Activations(p) = {} \/ Activations(p) = {i}
      BY <1>4, <1>6, <2>2
  <2>4. Cardinality(Exits(p)) = 1
      BY <1>2, <2>2
  <2>5. Cardinality(Activations(p)) \in {0, 1}
    <3>1. CASE Activations(p) = {}
        BY <1>2, <3>1
    <3>2. CASE Activations(p) = {i}
      <4>1. Cardinality(Activations(p)) = 1
          BY <1>2, <3>2
      <4> QED
          BY <4>1
    <3> QED
        BY <2>3, <3>1, <3>2
  <2>6. \A n \in {0, 1} : n <= 1
      OBVIOUS
  <2> QED
      BY <2>4, <2>5, <2>6
<1> QED
    BY <1>3, <1>4, <1>5, <1>6 DEF NoThread

LEMMA LifeIs == Base /\ CurrentOK /\ Life => LifeCycle
<1> SUFFICES ASSUME Base, CurrentOK, Life
             PROVE  LifeCycle
    OBVIOUS
<1>1. stack \in Seq(Frame) /\ state \in [Proc -> ProcessState]
    BY DEF Base, TypeOK
<1>2. LET inner == {i \in DOMAIN stack : stack[i].op \in Activation}
      IN  process_current = IF inner = {} THEN NoProc ELSE stack[Max(inner)].proc
    BY <1>1, CurrentIs
<1>3. ASSUME ~strays, NEW p \in Proc
      PROVE  CASE state[p] = "RUNNING" -> /\ Listed(p)
                                          /\ Activations(p) = {}
                                          /\ Exits(p) = {}
               [] state[p] = "CALLED" -> /\ Listed(p)
                                         /\ Cardinality(Activations(p)) = 1
                                         /\ Exits(p) = {}
               [] state[p] = "NONE" -> /\ Cardinality(Activations(p)) <= 1
                                       /\ Cardinality(Exits(p))
                                             = IF Listed(p) THEN 1 ELSE 0
  <2>1. InPhase(stack, p, state[p], Reach(next, process_head))
      BY <1>3 DEF Life, LifeOK
  <2>2. Listed(p) <=> p \in Reach(next, process_head)
      BY Chains
  <2>3. Cardinality({}) = 0
      BY FS_EmptySet
  <2>4. state[p] \in {"RUNNING", "CALLED", "NONE"}
      BY <1>1 DEF ProcessState
  <2>5. CASE state[p] = "RUNNING"
      BY <1>1, <2>1, <2>2, <2>5, PhasesAre DEF InPhase
  <2>6. CASE state[p] = "CALLED"
      BY <1>1, <2>1, <2>2, <2>6, PhasesAre DEF InPhase
  <2>7. CASE state[p] = "NONE"
    <3>1. Cardinality(Activations(p)) <= 1
          /\ Cardinality(Exits(p)) = IF Listed(p) THEN 1 ELSE 0
      <4>1. CASE Listed(p)
          BY <1>1, <2>1, <2>2, <2>7, <4>1, PhasesAre DEF InPhase
      <4>2. CASE ~Listed(p)
        <5>1. Activations(p) = {} /\ Exits(p) = {}
            BY <1>1, <2>1, <2>2, <2>7, <4>2, PhasesAre DEF InPhase
        <5> QED
            BY <2>3, <4>2, <5>1
      <4> QED
          BY <4>1, <4>2
    <3> QED
        BY <2>7, <3>1
  <2> QED
      BY <2>4, <2>5, <2>6, <2>7
<1> QED
    BY <1>2, <1>3 DEF LifeCycle

\* call_process, scheduler_start_process, exit_process: the state fields and
\* process_current agree with the call stack and the list after every nesting
\* of calls, starts and exits.
THEOREM LivesAgree == Spec => []LifeCycle
<1>1. Init => Life
    BY LifeInit
<1>2. Init => CurrentOK
    BY CurInit
<1>3. Base /\ WalksEnd /\ Life /\ [Next]_vars => Life'
    BY LifeStep
<1>4. Base /\ CurrentOK /\ [Next]_vars => CurrentOK'
    BY CurStep DEF CurrentOK
<1>5. Base /\ CurrentOK /\ Life => LifeCycle
    BY LifeIs
<1> QED
    BY <1>1, <1>2, <1>3, <1>4, <1>5, Basics, WalksAlwaysEnd, PTL DEF Spec

\* call_process from every loop of the scheduler: a thread is activated only
\* while its process is on the list.
THEOREM OnlyListed == Spec => OnlyListedAreCalled
<1> DEFINE A == ~strays' => \A p \in Proc : process_current' = p /\ state'[p] = "CALLED"
                                /\ state[p] # "CALLED" => Listed(p)'
<1>1. Base' /\ LifeCycle' => A
  <2> SUFFICES ASSUME Base', LifeCycle', ~strays', NEW p \in Proc, state'[p] = "CALLED"
               PROVE  Listed(p)'
      OBVIOUS
  <2> QED
      BY DEF LifeCycle
<1>2. Base' /\ LifeCycle' => [A]_vars
    BY <1>1
<1>3. Spec => []Base /\ []LifeCycle
    BY Basics, LivesAgree
<1> HIDE DEF A
<1>4. Spec => [][A]_vars
    BY <1>2, <1>3, PTL
<1> QED
    BY <1>4 DEF OnlyListedAreCalled, A
==============================================================================
