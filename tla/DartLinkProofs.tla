---------------------------- MODULE DartLinkProofs ----------------------------
(***************************************************************************)
(* Theorems about the dart link, for every set of messages, all values of  *)
(* the timers and attempts and any number of faults: its type invariant,   *)
(* that each message has one owner and one outcome, that a message that is *)
(* reported done was received, that the messages of a priority arrive in   *)
(* the order in which they were sent, that no station sleeps while the     *)
(* other one sends to it, and that without faults each message arrives     *)
(* once and none fails.                                                    *)
(*                                                                         *)
(* What a station holds is its queues and the pending request.  A handler  *)
(* of dart.c reports the outcome of a message before it gives the message  *)
(* up, and the callback may send another one in between; the invariant of  *)
(* a handler has a parameter for the message that is in this state.        *)
(*                                                                         *)
(* The second part is about the turns of a transfer: a frame on its way,   *)
(* at its receiver, its answer on the way back, or none of them.  What a   *)
(* handler does to a transfer is stated apart from what it does to the     *)
(* queues, and then each step is shown to go from one turn to the next.    *)
(*                                                                         *)
(* The third part joins the two: the lists are in the order of sending,    *)
(* and what arrives is the first message of a list.  The fourth part is    *)
(* about the pins and the timers that lower them, and the last one about   *)
(* what is on the lines as long as there are no faults.                    *)
(***************************************************************************)
EXTENDS DartLink, SequenceTheorems, FiniteSetTheorems, WellFoundedInduction, TLAPS

Fates == {"new", "accepted"} \cup Outcomes
Codes == {"accepted", "received"} \cup Outcomes

\* What a station works on while one of its functions is called.
Handler == [
    rdy : BOOLEAN, say : Msg \cup {NoMsg},
    out : Seq(Tokens), tell : Seq(Msg \X Codes),
    complete : BOOLEAN, idle : BOOLEAN,
    queue : [Prio -> Seq(Msg)],
    transfering : Prio \cup {NoList},
    pending_request : Msg \cup {NoMsg},
    wakeup_attempts : 0..DART_WAKEUP_ATTEMPTS,
    tx_attempts : 0..DART_TX_ATTEMPTS,
    wakeup_timer : Timer(DART_WAKEUP_TIMER_VAL),
    tx_ack_timer : Timer(DART_ACK_TIMER_VAL),
    tx_response_timer : Timer(DART_RESPONSE_TIMER_VAL),
    rx_byte_timer : Timer(DART_BYTE_TIMER_VAL),
    closing_timer : Timer(DART_CHILL_TIMER_VAL),
    rx_buffer : {"empty", "sync", "broken"},
    wrk : BOOLEAN]

\* Message m is in one of the queues q or the pending request r.
Held(q, r, m) ==
    r = m \/ \E p \in Prio : \E i \in 1..Len(q[p]) : q[p][i] = m

\* Each message is in one place only.
Once(q, r) ==
    /\ \A p, k \in Prio : \A i \in 1..Len(q[p]), j \in 1..Len(q[k]) :
            q[p][i] = q[k][j] => p = k /\ i = j
    /\ r # NoMsg => \A p \in Prio : \A i \in 1..Len(q[p]) : q[p][i] # r

\* The list that is transferred begins with a message, and with a request only
\* while no other one waits for its response.
Transfers(q, l, r) ==
    l # NoList => /\ q[l] # <<>>
                  /\ Head(q[l]).kind = "REQUEST" => r = NoMsg

\* The messages that are held are those of station s that are accepted in F,
\* and x, whose outcome has been reported.
Knows(q, r, s, F, x) ==
    \A m \in Msg : Held(q, r, m) /\ m # x <=> m.from = s /\ F[m] = "accepted"

Empty(q, r) == \A m \in Msg : ~Held(q, r, m)

\* There are attempts left for the message that is transferred.
Tries(l, n) == l # NoList => n < DART_TX_ATTEMPTS

\* Message m comes before message n in seq.
Earlier(seq, m, n) == \E a, b \in 1..Len(seq) : a < b /\ seq[a] = m /\ seq[b] = n

\* The lists are those of their priorities, in the order of seq, and a message that
\* is not yet in seq, but in A, comes last.
Lines(q, seq, A) ==
    \A p \in Prio : \A i \in 1..Len(q[p]) :
        /\ q[p][i].prio = p
        /\ \A j \in 1..Len(q[p]) : i < j =>
                \/ Earlier(seq, q[p][i], q[p][j])
                \/ q[p][j] \in A /\ q[p][i] \notin A

\* The messages that the callbacks in tell accept.
Taken(tell) == {tell[i][1] : i \in {j \in DOMAIN tell : tell[j][2] = "accepted"}}

NoneTaken(tell) == Taken(tell) = {}

\* At most one message is received in a call, and one accepted.
Few(R) == R = {} \/ \E m \in Msg : R = {m}

\* From f to F the messages of A are accepted, no outcome changes, and it is the
\* pending request r that is abandoned.
Learns(r, f, F, A) ==
    \A m \in Msg :
        /\ F[m] # "new" <=> f[m] # "new" \/ m \in A
        /\ m \in A => f[m] = "new"
        /\ f[m] \in Outcomes => F[m] = f[m]
        /\ F[m] = "abandoned" => f[m] = "abandoned" \/ m = r

\* A station between two calls.
Keeps(c, s) ==
    /\ Lines(c.queue, sent, {})
    /\ Transfers(c.queue, c.transfering, c.pending_request)
    /\ Tries(c.transfering, c.tx_attempts)
    /\ Once(c.queue, c.pending_request)
    /\ Knows(c.queue, c.pending_request, s, fate, NoMsg)
    /\ s \in complete => Empty(c.queue, c.pending_request)

\* The messages of seq, each once, are those that are not new in F.
Lists(seq, F) ==
    /\ seq \in Seq(Msg)
    /\ \A a, b \in 1..Len(seq) : seq[a] = seq[b] => a = b
    /\ \A m \in Msg : F[m] # "new" <=> \E a \in 1..Len(seq) : seq[a] = m

IInv ==
    /\ TypeOK
    /\ Lists(sent, fate)
    /\ \A s \in Node : Keeps(station[s], s)

\* What a step does to the messages that were sent: one may be added, an outcome
\* is final, and a message is abandoned when it is a pending request.
Moves ==
    /\ sent' = sent \/ \E m \in Msg : sent' = Append(sent, m)
    /\ \A m \in Msg :
        /\ fate[m] \in Outcomes => fate'[m] = fate[m]
        /\ fate'[m] = "abandoned" =>
                fate[m] = "abandoned" \/ \E s \in Node : m = station[s].pending_request

\* A handler of station s that has been called when f was known.
Handles(h, s, f, x) ==
    /\ h \in Handler
    /\ Transfers(h.queue, h.transfering, h.pending_request)
    /\ Once(h.queue, h.pending_request)
    /\ Knows(h.queue, h.pending_request, s, Learnt(f, h.tell), x)
    /\ h.say # NoMsg => h.say.from = s /\ Learnt(f, h.tell)[h.say] = "new"
    /\ h.complete => Empty(h.queue, h.pending_request)
    /\ \A m \in Msg : m.from # s => Learnt(f, h.tell)[m] = f[m]
    /\ Lines(h.queue, sent, Taken(h.tell))
    /\ Few(Taken(h.tell)) /\ (h.say # NoMsg => NoneTaken(h.tell))
    /\ Learns(station[s].pending_request, f, Learnt(f, h.tell), Taken(h.tell))

----------------------------------------------------------------------------
(* Queues.                                                                 *)

LEMMA Assumptions ==
    /\ NoMsg \notin Msg /\ NoList \notin Prio
    /\ \A m \in Msg : m.kind \in Kind /\ m.prio \in Prio /\ m.from \in Node
    /\ DART_WAKEUP_ATTEMPTS \in Nat \ {0} /\ DART_TX_ATTEMPTS \in Nat \ {0}
BY DartAssumption, DartLinkAssumption DEF NoList, Prio

\* The lists after a message was put into one, or taken from its front.
Longer(q, p, m) == [q EXCEPT ![p] = Append(@, m)]
Shorter(q, p) == [q EXCEPT ![p] = Tail(@)]

LEMMA QueueAppends ==
    ASSUME NEW q \in [Prio -> Seq(Msg)], NEW r, Once(q, r),
           NEW p \in Prio, NEW m \in Msg, ~Held(q, r, m)
    PROVE  LET Q == Longer(q, p, m)
           IN  /\ Q \in [Prio -> Seq(Msg)]
               /\ Once(Q, r)
               /\ \A n \in Msg : Held(Q, r, n) <=> Held(q, r, n) \/ n = m
               /\ \A k \in Prio : q[k] # <<>> =>
                    Q[k] # <<>> /\ Head(Q[k]) = Head(q[k])
<1> DEFINE Q == Longer(q, p, m)
<1>1. /\ q[p] \in Seq(Msg) /\ Len(q[p]) \in Nat
      /\ Append(q[p], m) \in Seq(Msg) /\ Append(q[p], m) # <<>>
      /\ Len(Append(q[p], m)) = Len(q[p]) + 1
      /\ \A i \in 1..Len(q[p]) : Append(q[p], m)[i] = q[p][i]
      /\ Append(q[p], m)[Len(q[p]) + 1] = m
      /\ q[p] # <<>> => Head(Append(q[p], m)) = Head(q[p])
    BY AppendProperties, LenProperties, HeadTailAppend
<1>2. Q \in [Prio -> Seq(Msg)] /\ Q[p] = Append(q[p], m) /\ \A k \in Prio : k # p => Q[k] = q[k]
    BY <1>1 DEF Longer
<1>3. \A k \in Prio : q[k] \in Seq(Msg) /\ Len(q[k]) \in Nat
    BY LenProperties
<1> HIDE DEF Q
<1>4. \A k \in Prio : q[k] # <<>> => Q[k] # <<>> /\ Head(Q[k]) = Head(q[k])
    BY <1>1, <1>2
\* Each place of Q is one of q or the last one of list p.
<1>5. \A k \in Prio : \A i \in 1..Len(Q[k]) :
        \/ i \in 1..Len(q[k]) /\ Q[k][i] = q[k][i]
        \/ k = p /\ i = Len(q[p]) + 1 /\ Q[k][i] = m
  <2>1. ASSUME NEW i \in 1..Len(Q[p])
        PROVE  \/ i \in 1..Len(q[p]) /\ Q[p][i] = q[p][i]
               \/ i = Len(q[p]) + 1 /\ Q[p][i] = m
    <3>1. i \in 1..Len(q[p]) \/ i = Len(q[p]) + 1
        BY <1>1, <1>2
    <3> QED
        BY <1>1, <1>2, <3>1
  <2> QED
      BY <1>2, <2>1
<1>6. \A k \in Prio : \A i \in 1..Len(q[k]) : i \in 1..Len(Q[k]) /\ Q[k][i] = q[k][i]
  <2>1. \A i \in 1..Len(q[p]) : i \in 1..Len(Q[p]) /\ Q[p][i] = q[p][i]
      BY <1>1, <1>2
  <2> QED
      BY <1>2, <2>1
<1>7. Len(q[p]) + 1 \in 1..Len(Q[p]) /\ Q[p][Len(q[p]) + 1] = m
    BY <1>1, <1>2
<1>8. \A k \in Prio : \A i \in 1..Len(q[k]) : q[k][i] # m
    BY DEF Held
<1>9. r # m
    BY DEF Held
<1>10. Once(Q, r)
  <2>1. ASSUME NEW k \in Prio, NEW l \in Prio, NEW i \in 1..Len(Q[k]), NEW j \in 1..Len(Q[l]),
               Q[k][i] = Q[l][j]
        PROVE  k = l /\ i = j
    <3>1. CASE i \in 1..Len(q[k]) /\ Q[k][i] = q[k][i] /\ j \in 1..Len(q[l]) /\ Q[l][j] = q[l][j]
      <4>1. \A a \in 1..Len(q[k]), b \in 1..Len(q[l]) : q[k][a] = q[l][b] => k = l /\ a = b
          BY Zenon DEF Once
      <4> QED
          BY <2>1, <3>1, <4>1
    <3>2. CASE Q[k][i] = m
      <4>1. ASSUME NEW a \in Prio, NEW b \in 1..Len(Q[a]), Q[a][b] = m
            PROVE  a = p /\ b = Len(q[p]) + 1
          BY <1>5, <1>8, <4>1
      <4>2. k = p /\ i = Len(q[p]) + 1
          BY <3>2, <4>1
      <4>3. Q[l][j] = m
          BY <2>1, <3>2
      <4>4. l = p /\ j = Len(q[p]) + 1
          BY <4>1, <4>3
      <4> QED
          BY <4>2, <4>4
    <3>3. Q[k][i] # m => i \in 1..Len(q[k]) /\ Q[k][i] = q[k][i] /\ j \in 1..Len(q[l]) /\ Q[l][j] = q[l][j]
        BY <1>5, <2>1
    <3> QED
        BY <3>1, <3>2, <3>3
  <2>2. r # NoMsg => \A k \in Prio : \A i \in 1..Len(Q[k]) : Q[k][i] # r
      BY <1>5, <1>9 DEF Once
  <2> QED
      BY <2>1, <2>2 DEF Once
<1>11. \A n \in Msg : Held(Q, r, n) <=> Held(q, r, n) \/ n = m
  <2>1. ASSUME NEW n \in Msg, Held(Q, r, n)
        PROVE  Held(q, r, n) \/ n = m
      BY <1>5, <2>1 DEF Held
  <2>2. ASSUME NEW n \in Msg, Held(q, r, n) \/ n = m
        PROVE  Held(Q, r, n)
      BY <1>6, <1>7, <2>2 DEF Held
  <2> QED
      BY <2>1, <2>2
<1> QED
    BY <1>2, <1>4, <1>10, <1>11 DEF Q

LEMMA QueuePops ==
    ASSUME NEW q \in [Prio -> Seq(Msg)], NEW r, Once(q, r),
           NEW p \in Prio, q[p] # <<>>
    PROVE  LET Q == Shorter(q, p)
               m == Head(q[p])
           IN  /\ Q \in [Prio -> Seq(Msg)]
               /\ Once(Q, r)
               /\ m \in Msg /\ Held(q, r, m) /\ (r # NoMsg => r # m)
               /\ \A n \in Msg : Held(Q, r, n) <=> Held(q, r, n) /\ n # m
               /\ \A k \in Prio : \A i \in 1..Len(Q[k]) : Q[k][i] # m
<1> DEFINE Q == Shorter(q, p)
           m == Head(q[p])
<1>1. /\ q[p] \in Seq(Msg) /\ Len(q[p]) \in Nat \ {0}
      /\ Tail(q[p]) \in Seq(Msg) /\ Len(Tail(q[p])) = Len(q[p]) - 1
      /\ \A i \in 1..Len(Tail(q[p])) : Tail(q[p])[i] = q[p][i + 1]
      /\ m \in Msg /\ m = q[p][1]
    BY HeadTailProperties, EmptySeq
<1>2. Q \in [Prio -> Seq(Msg)] /\ Q[p] = Tail(q[p]) /\ \A k \in Prio : k # p => Q[k] = q[k]
    BY <1>1 DEF Shorter
<1>3. \A k \in Prio : q[k] \in Seq(Msg) /\ Len(q[k]) \in Nat
    BY LenProperties
<1> HIDE DEF Q, m
<1> DEFINE at(k, i) == IF k = p THEN i + 1 ELSE i
<1>4. \A k \in Prio : \A i \in 1..Len(Q[k]) : at(k, i) \in 1..Len(q[k]) /\ Q[k][i] = q[k][at(k, i)]
                                              /\ ~(k = p /\ at(k, i) = 1)
  <2>1. ASSUME NEW i \in 1..Len(Q[p])
        PROVE  i + 1 \in 1..Len(q[p]) /\ Q[p][i] = q[p][i + 1] /\ i + 1 # 1
      BY <1>1, <1>2
  <2> QED
      BY <1>2, <2>1
<1>5. \A k \in Prio : \A i \in 1..Len(q[k]) :
        \/ k = p /\ i = 1
        \/ \E j \in 1..Len(Q[k]) : Q[k][j] = q[k][i]
  <2>1. ASSUME NEW i \in 1..Len(q[p]), i # 1
        PROVE  i - 1 \in 1..Len(Q[p]) /\ Q[p][i - 1] = q[p][i]
      BY <1>1, <1>2, <2>1
  <2> QED
      BY <1>2, <2>1
<1>6. 1 \in 1..Len(q[p])
    BY <1>1
<1>7. \A k \in Prio : \A i \in 1..Len(Q[k]) : Q[k][i] # m
  <2> SUFFICES ASSUME NEW k \in Prio, NEW i \in 1..Len(Q[k]), Q[k][i] = m
               PROVE  FALSE
      OBVIOUS
  <2>1. /\ at(k, i) \in 1..Len(q[k]) /\ Q[k][i] = q[k][at(k, i)]
        /\ ~(k = p /\ at(k, i) = 1)
      BY <1>4
  <2> HIDE DEF at
  <2>2. q[k][at(k, i)] = q[p][1]
      BY <1>1, <2>1
  <2>3. k = p /\ at(k, i) = 1
      BY <1>6, <2>1, <2>2 DEF Once
  <2> QED
      BY <2>1, <2>3
<1>8. Once(Q, r)
  <2>1. ASSUME NEW k \in Prio, NEW l \in Prio, NEW i \in 1..Len(Q[k]), NEW j \in 1..Len(Q[l]),
               Q[k][i] = Q[l][j]
        PROVE  k = l /\ i = j
    <3>1. k = l /\ at(k, i) = at(l, j)
      <4>1. /\ at(k, i) \in 1..Len(q[k]) /\ Q[k][i] = q[k][at(k, i)]
            /\ at(l, j) \in 1..Len(q[l]) /\ Q[l][j] = q[l][at(l, j)]
          BY <1>4
      <4> HIDE DEF at
      <4>2. \A a \in 1..Len(q[k]), b \in 1..Len(q[l]) : q[k][a] = q[l][b] => k = l /\ a = b
          BY Zenon DEF Once
      <4> QED
          BY <2>1, <4>1, <4>2
    <3>2. i \in Int /\ j \in Int
        BY <1>2, <1>1, <1>3
    <3> QED
        BY <3>1, <3>2
  <2>2. r # NoMsg => \A k \in Prio : \A i \in 1..Len(Q[k]) : Q[k][i] # r
      BY <1>4 DEF Once
  <2> QED
      BY <2>1, <2>2 DEF Once
<1>9. Held(q, r, m) /\ (r # NoMsg => r # m)
    BY <1>1, <1>6 DEF Held, Once
<1>10. \A n \in Msg : Held(Q, r, n) <=> Held(q, r, n) /\ n # m
  <2>1. ASSUME NEW n \in Msg, Held(Q, r, n)
        PROVE  Held(q, r, n) /\ n # m
    <3>1. CASE r = n
        BY <1>9, <3>1, Assumptions DEF Held
    <3>2. ASSUME NEW k \in Prio, NEW i \in 1..Len(Q[k]), Q[k][i] = n
          PROVE  Held(q, r, n) /\ n # m
        BY <1>4, <1>7, <3>2 DEF Held
    <3> QED
        BY <2>1, <3>1, <3>2 DEF Held
  <2>2. ASSUME NEW n \in Msg, Held(q, r, n), n # m
        PROVE  Held(Q, r, n)
      BY <1>1, <1>5, <2>2 DEF Held
  <2> QED
      BY <2>1, <2>2
<1> QED
    BY <1>1, <1>2, <1>7, <1>8, <1>9, <1>10 DEF Q, m

----------------------------------------------------------------------------
(* What is known of the messages.                                          *)

\* The natural numbers are well ordered.
LEMMA LeastNumber ==
    ASSUME NEW T, T \subseteq Nat, T # {}
    PROVE  \E n \in T : \A m \in T : n <= m
<1>1. PICK n \in T : \A m \in T : ~ (<<m, n>> \in OpToRel(<, Nat))
    BY NatLessThanWellFounded, WFMin
<1>2. \A m \in T : ~(m < n)
    BY <1>1 DEF OpToRel
<1> QED
    BY <1>2

LEMMA MaxOf ==
    ASSUME NEW n \in Nat, NEW S \in SUBSET (1..n), S # {}
    PROVE  /\ Max(S) \in S
           /\ \A i \in S : i <= Max(S)
<1> DEFINE T == {n - i : i \in S}
<1>1. \A i \in S : i \in Int /\ n - i \in Nat
    OBVIOUS
<1>2. T \subseteq Nat /\ T # {}
    BY <1>1
<1>3. PICK t \in T : \A u \in T : t <= u
    BY <1>2, LeastNumber
<1>4. PICK m \in S : t = n - m
    BY <1>3
<1>5. \A i \in S : n - m <= n - i
    BY <1>3, <1>4
<1>6. m \in Int /\ \A i \in S : m >= i /\ i \in Int
    BY <1>1, <1>5
<1>7. Max(S) \in S /\ \A i \in S : Max(S) >= i
    BY <1>6 DEF Max
<1> QED
    BY <1>6, <1>7

News(tell, m) == {i \in DOMAIN tell : tell[i][1] = m /\ tell[i][2] # "received"}

LEMMA NewsIs ==
    ASSUME NEW tell \in Seq(Msg \X Codes), NEW m
    PROVE  /\ News(tell, m) \in SUBSET (1..Len(tell)) /\ Len(tell) \in Nat
           /\ News(tell, m) # {} =>
                /\ Max(News(tell, m)) \in News(tell, m)
                /\ \A i \in News(tell, m) : i <= Max(News(tell, m))
<1>1. DOMAIN tell = 1..Len(tell) /\ Len(tell) \in Nat
    BY LenProperties
<1>2. News(tell, m) \in SUBSET (1..Len(tell))
    BY <1>1 DEF News
<1> QED
    BY <1>1, <1>2, MaxOf

LEMMA LearntIs ==
    ASSUME NEW f \in [Msg -> Fates], NEW tell \in Seq(Msg \X Codes)
    PROVE  /\ Learnt(f, tell) \in [Msg -> Fates]
           /\ \A m \in Msg : Learnt(f, tell)[m] =
                IF News(tell, m) = {} THEN f[m] ELSE tell[Max(News(tell, m))][2]
           /\ \A m \in Msg : Learnt(f, tell)[m] = f[m]
                \/ \E i \in DOMAIN tell : tell[i] = <<m, Learnt(f, tell)[m]>>
<1>1. \A m \in Msg : Learnt(f, tell)[m] =
            IF News(tell, m) = {} THEN f[m] ELSE tell[Max(News(tell, m))][2]
    BY DEF Learnt, News
<1>2. ASSUME NEW m \in Msg, News(tell, m) # {}
      PROVE  /\ tell[Max(News(tell, m))][2] \in Fates
             /\ \E i \in DOMAIN tell : tell[i] = <<m, tell[Max(News(tell, m))][2]>>
  <2>1. Max(News(tell, m)) \in News(tell, m)
      BY <1>2, NewsIs
  <2>2. PICK i \in DOMAIN tell : i = Max(News(tell, m)) /\ tell[i][1] = m /\ tell[i][2] # "received"
      BY <2>1 DEF News
  <2>3. tell[i] \in Msg \X Codes
      BY ElementOfSeq, LenProperties
  <2> QED
      BY <2>2, <2>3 DEF Codes, Fates
<1>3. Learnt(f, tell) \in [Msg -> Fates]
  <2>1. \A m \in Msg : Learnt(f, tell)[m] \in Fates
      BY <1>1, <1>2
  <2>2. Learnt(f, tell) = [m \in Msg |-> Learnt(f, tell)[m]]
      BY DEF Learnt
  <2> QED
      BY <2>1, <2>2
<1> QED
    BY <1>1, <1>2, <1>3

LEMMA LearntNothing ==
    ASSUME NEW f \in [Msg -> Fates]
    PROVE  Learnt(f, <<>>) = f
<1>1. \A m : News(<<>>, m) = {}
    BY DEF News
<1>2. Learnt(f, <<>>) = [m \in Msg |-> f[m]]
    BY <1>1 DEF Learnt, News
<1> QED
    BY <1>2

\* What is known after one more callback.
After(known, m, c) == IF c = "received" THEN known ELSE [known EXCEPT ![m] = c]

LEMMA LearntAppend ==
    ASSUME NEW f \in [Msg -> Fates], NEW tell \in Seq(Msg \X Codes),
           NEW m \in Msg, NEW c \in Codes
    PROVE  Learnt(f, Append(tell, <<m, c>>)) = After(Learnt(f, tell), m, c)
<1> DEFINE told == Append(tell, <<m, c>>)
           n == Len(tell) + 1
<1>1. /\ told \in Seq(Msg \X Codes) /\ DOMAIN told = 1..n /\ DOMAIN tell = 1..Len(tell)
      /\ Len(tell) \in Nat
      /\ told[n] = <<m, c>> /\ \A i \in 1..Len(tell) : told[i] = tell[i]
    BY AppendProperties, LenProperties
<1> HIDE DEF told
<1>2. ASSUME NEW k \in Msg, ~(k = m /\ c # "received")
      PROVE  Learnt(f, told)[k] = Learnt(f, tell)[k]
  <2>1. \A i : i \in 1..n <=> i \in 1..Len(tell) \/ i = n
      BY <1>1
  <2>2. News(told, k) = News(tell, k)
      BY <1>1, <1>2, <2>1 DEF News
  <2>3. News(tell, k) # {} => told[Max(News(tell, k))] = tell[Max(News(tell, k))]
      BY <1>1, NewsIs
  <2>4. /\ Learnt(f, told)[k] = IF News(told, k) = {} THEN f[k] ELSE told[Max(News(told, k))][2]
        /\ Learnt(f, tell)[k] = IF News(tell, k) = {} THEN f[k] ELSE tell[Max(News(tell, k))][2]
      BY <1>1, LearntIs
  <2> QED
      BY <2>2, <2>3, <2>4
<1>3. ASSUME c # "received"
      PROVE  Learnt(f, told)[m] = c
  <2>1. n \in News(told, m)
      BY <1>1, <1>3 DEF News
  <2>2. Len(told) = n
      BY <1>1, LenProperties
  <2>3. Max(News(told, m)) \in 1..n /\ n <= Max(News(told, m))
      BY <1>1, <2>1, <2>2, NewsIs
  <2>4. Max(News(told, m)) = n
      BY <1>1, <2>3
  <2>5. Learnt(f, told)[m] = IF News(told, m) = {} THEN f[m] ELSE told[Max(News(told, m))][2]
      BY <1>1, LearntIs
  <2> QED
      BY <1>1, <2>1, <2>4, <2>5
<1>4. /\ Learnt(f, told) \in [Msg -> Fates]
      /\ Learnt(f, tell) \in [Msg -> Fates]
    BY <1>1, LearntIs
<1>5. c = "received" => Learnt(f, told) = Learnt(f, tell)
    BY <1>2, <1>4
<1>6. c # "received" => Learnt(f, told) = [Learnt(f, tell) EXCEPT ![m] = c]
    BY <1>2, <1>3, <1>4
<1> QED
    BY <1>1, <1>5, <1>6 DEF told, After

LEMMA FirstOf ==
    ASSUME NEW a, NEW b, NEW u, u = <<a, b>>
    PROVE  u[1] = a
OBVIOUS

LEMMA SecondOf ==
    ASSUME NEW a, NEW b, NEW u, u = <<a, b>>
    PROVE  u[2] = b
OBVIOUS

\* The callbacks of one kind, after one more.
LEMMA TellsOneMore ==
    ASSUME NEW tell \in Seq(Msg \X Codes), NEW m \in Msg, NEW c \in Codes,
           NEW told, told = Append(tell, <<m, c>>), NEW code
    PROVE  LET kind(t) == {t[i][1] : i \in {j \in DOMAIN t : t[j][2] = code}}
           IN  kind(told) = kind(tell) \cup (IF c = code THEN {m} ELSE {})
<1> DEFINE n == Len(tell) + 1
<1>1. /\ DOMAIN told = 1..n /\ DOMAIN tell = 1..Len(tell) /\ Len(tell) \in Nat
      /\ told[n] = <<m, c>> /\ \A i \in 1..Len(tell) : told[i] = tell[i]
    BY AppendProperties, LenProperties
<1>2. \A i : i \in 1..n <=> i \in 1..Len(tell) \/ i = n
    BY <1>1
<1> HIDE DEF n
<1>3. told[n][1] = m /\ told[n][2] = c
  <2>1. told[n] = <<m, c>>
      BY <1>1
  <2>2. told[n][1] = m
      BY <2>1, FirstOf
  <2>3. told[n][2] = c
      BY <2>1, SecondOf
  <2> QED
      BY <2>2, <2>3
<1> DEFINE old == {j \in DOMAIN tell : tell[j][2] = code}
           new == {j \in DOMAIN told : told[j][2] = code}
<1>4. new = old \cup (IF c = code THEN {n} ELSE {})
    BY <1>1, <1>2, <1>3
<1>5. \A i \in old : told[i][1] = tell[i][1]
    BY <1>1
<1> HIDE DEF old, new
<1>6. {told[i][1] : i \in new} = {tell[i][1] : i \in old} \cup (IF c = code THEN {m} ELSE {})
  <2>1. {told[i][1] : i \in new} =
            {told[i][1] : i \in old} \cup (IF c = code THEN {told[n][1]} ELSE {})
      BY <1>4
  <2>2. {told[i][1] : i \in old} = {tell[i][1] : i \in old}
      BY <1>5
  <2> QED
      BY <1>3, <2>1, <2>2
<1> QED
    BY <1>6 DEF old, new

LEMMA TakenAppend ==
    ASSUME NEW tell \in Seq(Msg \X Codes), NEW m \in Msg, NEW c \in Codes
    PROVE  Taken(Append(tell, <<m, c>>)) =
                Taken(tell) \cup (IF c = "accepted" THEN {m} ELSE {})
<1> DEFINE told == Append(tell, <<m, c>>)
<1>1. told = Append(tell, <<m, c>>)
    OBVIOUS
<1> HIDE DEF told
<1>2. {told[i][1] : i \in {j \in DOMAIN told : told[j][2] = "accepted"}} =
            {tell[i][1] : i \in {j \in DOMAIN tell : tell[j][2] = "accepted"}}
                \cup (IF c = "accepted" THEN {m} ELSE {})
    BY <1>1, TellsOneMore
<1> QED
    BY <1>2 DEF Taken, told

LEMMA SeqOfFew ==
    ASSUME NEW T, Few(T)
    PROVE  \/ T = {} /\ SetToSeq(T) = <<>>
           \/ \E m \in Msg : T = {m} /\ SetToSeq(T) = <<m>>
<1> DEFINE f == SetToSeq(T)
<1>1. CASE T = {}
  <2>1. Cardinality(T) = 0
      BY <1>1, FS_EmptySet
  <2>2. \E e \in [1..Cardinality(T) -> T] : IsInjective(e)
    <3>1. [i \in 1..0 |-> i] \in [1..Cardinality(T) -> T]
        BY <2>1
    <3>2. IsInjective([i \in 1..0 |-> i])
        BY DEF IsInjective
    <3> QED
        BY <3>1, <3>2
  <2>3. f \in [1..0 -> T]
      BY <2>1, <2>2, Zenon DEF SetToSeq
  <2> HIDE DEF f
  <2>4. f = <<>>
      BY <2>3
  <2> QED
      BY <1>1, <2>4 DEF f
<1>2. ASSUME NEW m \in Msg, T = {m}
      PROVE  f = <<m>>
  <2>1. Cardinality(T) = 1
      BY <1>2, FS_Singleton
  <2>2. \E e \in [1..Cardinality(T) -> T] : IsInjective(e)
    <3>1. [i \in 1..1 |-> m] \in [1..Cardinality(T) -> T]
        BY <1>2, <2>1
    <3>2. IsInjective([i \in 1..1 |-> m])
        BY DEF IsInjective
    <3> QED
        BY <3>1, <3>2
  <2>3. f \in [1..1 -> T]
      BY <2>1, <2>2, Zenon DEF SetToSeq
  <2> HIDE DEF f
  <2>4. f[1] = m /\ DOMAIN f = 1..1 /\ f = [i \in 1..1 |-> f[i]]
      BY <1>2, <2>3
  <2> QED
      BY <2>4
<1> QED
    BY <1>1, <1>2 DEF Few

\* One more message is sent.
LEMMA ListsMore ==
    ASSUME NEW seq, NEW F, Lists(seq, F), NEW m \in Msg, F[m] = "new",
           NEW G, \A n \in Msg : G[n] # "new" <=> F[n] # "new" \/ n = m
    PROVE  LET all == Append(seq, m)
           IN  /\ Lists(all, G)
               /\ \A x, y : Earlier(seq, x, y) => Earlier(all, x, y)
               /\ \A x \in Msg : F[x] # "new" => Earlier(all, x, m)
<1> DEFINE all == Append(seq, m)
           n == Len(seq) + 1
<1>1. /\ seq \in Seq(Msg) /\ Len(seq) \in Nat /\ all \in Seq(Msg) /\ Len(all) = n
      /\ \A i \in 1..Len(seq) : all[i] = seq[i]
      /\ all[n] = m
    BY AppendProperties, LenProperties DEF Lists
<1> HIDE DEF all
<1>2. /\ \A i \in 1..n : i \in 1..Len(seq) \/ i = n
      /\ \A i \in 1..Len(seq) : i \in 1..n /\ i < n
      /\ n \in 1..n
    BY <1>1
<1> HIDE DEF n
<1>3. \A i \in 1..Len(seq) : seq[i] # m
    BY DEF Lists
<1>4. \A a, b \in 1..n : all[a] = all[b] => a = b
  <2> SUFFICES ASSUME NEW a \in 1..n, NEW b \in 1..n, all[a] = all[b]
               PROVE  a = b
      OBVIOUS
  <2>1. CASE a \in 1..Len(seq) /\ b \in 1..Len(seq)
      BY <1>1, <2>1 DEF Lists
  <2>2. CASE a = n \/ b = n
      BY <1>1, <1>2, <1>3, <2>2
  <2> QED
      BY <1>2, <2>1, <2>2
<1>5. ASSUME NEW k \in Msg
      PROVE  G[k] # "new" <=> \E a \in 1..n : all[a] = k
  <2>1. F[k] # "new" <=> \E a \in 1..Len(seq) : seq[a] = k
      BY DEF Lists
  <2> QED
      BY <1>1, <1>2, <2>1
<1>6. Lists(all, G)
    BY <1>1, <1>4, <1>5 DEF Lists
<1>7. ASSUME NEW x, NEW y, Earlier(seq, x, y)
      PROVE  Earlier(all, x, y)
  <2>1. PICK a \in 1..Len(seq), b \in 1..Len(seq) : a < b /\ seq[a] = x /\ seq[b] = y
      BY <1>7 DEF Earlier
  <2>2. a \in 1..Len(all) /\ b \in 1..Len(all) /\ all[a] = x /\ all[b] = y
      BY <1>1, <1>2, <2>1
  <2> QED
      BY <2>1, <2>2 DEF Earlier
<1>8. ASSUME NEW x \in Msg, F[x] # "new"
      PROVE  Earlier(all, x, m)
  <2>1. PICK a \in 1..Len(seq) : seq[a] = x
      BY <1>8 DEF Lists
  <2>2. a \in 1..Len(all) /\ n \in 1..Len(all) /\ a < n /\ all[a] = x /\ all[n] = m
      BY <1>1, <1>2, <2>1
  <2> QED
      BY <2>2 DEF Earlier
<1> QED
    BY <1>6, <1>7, <1>8 DEF all

\* One more message in a list, and one less.
LEMMA LinesGrow ==
    ASSUME NEW q \in [Prio -> Seq(Msg)], NEW r, NEW seq, Lines(q, seq, {}),
           NEW m \in Msg, m.prio \in Prio, ~Held(q, r, m)
    PROVE  Lines(Longer(q, m.prio, m), seq, {m})
<1> DEFINE p == m.prio
           Q == Longer(q, p, m)
           n == Len(q[p]) + 1
<1>1. /\ Len(q[p]) \in Nat /\ Len(Append(q[p], m)) = n
      /\ \A i \in 1..Len(q[p]) : Append(q[p], m)[i] = q[p][i]
      /\ Append(q[p], m)[n] = m
    BY AppendProperties, LenProperties
<1>2. Q[p] = Append(q[p], m) /\ \A k \in Prio : k # p => Q[k] = q[k]
    BY DEF Longer
<1>3. \A k \in Prio : Len(q[k]) \in Nat
    BY LenProperties
<1>4. \A k \in Prio : \A i \in 1..Len(q[k]) : q[k][i] # m
    BY DEF Held
<1> HIDE DEF Q
<1>5. \A k \in Prio : \A i \in 1..Len(Q[k]) :
        \/ i \in 1..Len(q[k]) /\ Q[k][i] = q[k][i]
        \/ k = p /\ i = n /\ Q[k][i] = m
  <2>1. ASSUME NEW i \in 1..Len(Q[p])
        PROVE  \/ i \in 1..Len(q[p]) /\ Q[p][i] = q[p][i]
               \/ i = n /\ Q[p][i] = m
    <3>1. i \in 1..Len(q[p]) \/ i = n
        BY <1>1, <1>2
    <3> QED
        BY <1>1, <1>2, <3>1
  <2> QED
      BY <1>2, <2>1
<1>6. \A k \in Prio : \A i \in 1..Len(Q[k]) : Q[k][i].prio = k
    BY <1>5 DEF Lines
<1>7. ASSUME NEW k \in Prio, NEW i \in 1..Len(Q[k]), NEW j \in 1..Len(Q[k]), i < j
      PROVE  Earlier(seq, Q[k][i], Q[k][j]) \/ (Q[k][j] \in {m} /\ Q[k][i] \notin {m})
  <2>1. i \in 1..Len(q[k]) /\ Q[k][i] = q[k][i]
    <3>1. ~(k = p /\ i = n)
      <4> SUFFICES ASSUME k = p, i = n
                   PROVE  FALSE
          OBVIOUS
      <4>1. Len(Q[k]) = n
          BY <1>1, <1>2
      <4>2. j \in 1..n
          BY <4>1
      <4> HIDE DEF n
      <4> QED
          BY <1>1, <1>7, <4>2 DEF n
    <3> QED
        BY <1>5, <3>1
  <2>2. CASE j \in 1..Len(q[k]) /\ Q[k][j] = q[k][j]
      BY <1>7, <2>1, <2>2 DEF Lines
  <2>3. CASE Q[k][j] = m
      BY <1>4, <2>1, <2>3
  <2> QED
      BY <1>5, <2>2, <2>3
<1> QED
    BY <1>6, <1>7 DEF Lines, Q

LEMMA LinesShrink ==
    ASSUME NEW q \in [Prio -> Seq(Msg)], NEW seq, NEW A, Lines(q, seq, A), NEW p \in Prio, q[p] # <<>>
    PROVE  Lines(Shorter(q, p), seq, A)
<1> DEFINE Q == Shorter(q, p)
           at(k, i) == IF k = p THEN i + 1 ELSE i
<1>1. /\ Len(q[p]) \in Nat \ {0} /\ Len(Tail(q[p])) = Len(q[p]) - 1
      /\ \A i \in 1..Len(Tail(q[p])) : Tail(q[p])[i] = q[p][i + 1]
    BY HeadTailProperties, EmptySeq
<1>2. Q[p] = Tail(q[p]) /\ \A k \in Prio : k # p => Q[k] = q[k]
    BY DEF Shorter
<1> HIDE DEF Q
<1>3. \A k \in Prio : \A i \in 1..Len(Q[k]) : at(k, i) \in 1..Len(q[k]) /\ Q[k][i] = q[k][at(k, i)]
  <2>1. ASSUME NEW i \in 1..Len(Q[p])
        PROVE  i + 1 \in 1..Len(q[p]) /\ Q[p][i] = q[p][i + 1]
      BY <1>1, <1>2
  <2> QED
      BY <1>2, <2>1
<1>4. \A k \in Prio : Len(Q[k]) \in Nat
    BY <1>1, <1>2, LenProperties
<1>5. ASSUME NEW k \in Prio, NEW i \in 1..Len(Q[k])
      PROVE  Q[k][i].prio = k
  <2>1. at(k, i) \in 1..Len(q[k]) /\ Q[k][i] = q[k][at(k, i)]
      BY <1>3
  <2> HIDE DEF at
  <2> QED
      BY <2>1 DEF Lines
<1>6. ASSUME NEW k \in Prio, NEW i \in 1..Len(Q[k]), NEW j \in 1..Len(Q[k]), i < j
      PROVE  Earlier(seq, Q[k][i], Q[k][j]) \/ (Q[k][j] \in A /\ Q[k][i] \notin A)
  <2>1. /\ at(k, i) \in 1..Len(q[k]) /\ Q[k][i] = q[k][at(k, i)]
        /\ at(k, j) \in 1..Len(q[k]) /\ Q[k][j] = q[k][at(k, j)]
      BY <1>3
  <2>2. at(k, i) < at(k, j)
      BY <1>4, <1>6
  <2> HIDE DEF at
  <2> QED
      BY <2>1, <2>2 DEF Lines
<1> QED
    BY <1>5, <1>6 DEF Lines, Q

\* A message is accepted, and an outcome reported.
LEMMA LearnsAccepted ==
    ASSUME NEW r, NEW f, NEW F \in [Msg -> Fates], Learns(r, f, F, {}),
           NEW m \in Msg, F[m] = "new"
    PROVE  Learns(r, f, [F EXCEPT ![m] = "accepted"], {m})
BY DEF Learns, Outcomes

LEMMA LearnsOutcome ==
    ASSUME NEW r, NEW f, NEW F \in [Msg -> Fates], NEW A, Learns(r, f, F, A),
           NEW m \in Msg, F[m] = "accepted", NEW code \in Outcomes,
           code = "abandoned" => m = r
    PROVE  Learns(r, f, [F EXCEPT ![m] = code], A)
BY DEF Learns, Outcomes

----------------------------------------------------------------------------
(* Steps of a handler that leave what the station holds as it is.          *)

\* The step from h to g touches no message.
Same(h, g) ==
    /\ g.queue = h.queue /\ g.pending_request = h.pending_request
    /\ g.tell = h.tell /\ g.say = h.say /\ g.complete = h.complete

LEMMA StillHandles ==
    ASSUME NEW h, NEW s, NEW f, NEW x, Handles(h, s, f, x),
           NEW g \in Handler, Same(h, g),
           Transfers(g.queue, g.transfering, g.pending_request)
    PROVE  Handles(g, s, f, x)
BY DEF Handles, Same

LEMMA SendableIs ==
    ASSUME NEW h \in Handler
    PROVE  LET next == dart_find_next_message_queue(h)
           IN  /\ next \in Prio \cup {NoList}
               /\ Transfers(h.queue, next, h.pending_request)
               /\ next = NoList <=> Sendable(h) = {}
<1> DEFINE next == dart_find_next_message_queue(h)
<1>1. Sendable(h) \subseteq Prio /\ NoList \notin Prio /\ Prio \subseteq Nat
    BY DEF Sendable, Prio, NoList
<1>2. CASE Sendable(h) = {}
  <2>1. next = NoList
      BY <1>2 DEF dart_find_next_message_queue
  <2> QED
      BY <1>2, <2>1 DEF Transfers
<1>3. CASE Sendable(h) # {}
  <2>1. \E p \in Sendable(h) : \A k \in Sendable(h) : p <= k
      BY <1>1, <1>3, LeastNumber
  <2>2. Min(Sendable(h)) \in Sendable(h)
      BY <2>1 DEF Min
  <2>3. next \in Sendable(h)
      BY <1>3, <2>2 DEF dart_find_next_message_queue
  <2>4. next \in Prio /\ next # NoList
      BY <1>1, <2>3
  <2>5. Transfers(h.queue, next, h.pending_request)
      BY <2>3 DEF Transfers, Sendable
  <2> QED
      BY <1>3, <2>4, <2>5
<1> QED
    BY <1>2, <1>3

LEMMA TokensAre ==
    /\ Token("SYNC", NoMsg) \in Tokens /\ Token("ACK", NoMsg) \in Tokens
    /\ Token("BAD", NoMsg) \in Tokens /\ Token("noise", NoMsg) \in Tokens
    /\ \A m \in Msg : Token("body", m) \in Tokens
BY DEF Tokens

LEMMA PushIs ==
    ASSUME NEW h \in Handler, NEW tokens \in Seq(Tokens)
    PROVE  /\ Push(h, tokens) \in Handler
           /\ Same(h, Push(h, tokens))
           /\ Push(h, tokens).transfering = h.transfering
           /\ Push(h, tokens).tx_attempts = h.tx_attempts
<1>1. h.out \o tokens \in Seq(Tokens)
  <2>1. h.out \in Seq(Tokens)
      BY DEF Handler
  <2> QED
      BY <2>1, ConcatProperties
<1> QED
    BY <1>1 DEF Push, Handler, Same

LEMMA TimersAre ==
    /\ DART_BYTE_TIMER_VAL \in Timer(DART_BYTE_TIMER_VAL)
    /\ DART_CLOSING_TIMER_VAL \in Timer(DART_CHILL_TIMER_VAL)
    /\ DART_CHILL_TIMER_VAL \in Timer(DART_CHILL_TIMER_VAL)
    /\ DART_ACK_TIMER_VAL \in Timer(DART_ACK_TIMER_VAL)
    /\ DART_WAKEUP_TIMER_VAL \in Timer(DART_WAKEUP_TIMER_VAL)
    /\ DART_RESPONSE_TIMER_VAL \in Timer(DART_RESPONSE_TIMER_VAL)
    /\ \A val \in Nat : Off \in Timer(val)
    /\ Off \in Timer(DART_BYTE_TIMER_VAL) /\ Off \in Timer(DART_CHILL_TIMER_VAL)
    /\ Off \in Timer(DART_ACK_TIMER_VAL) /\ Off \in Timer(DART_WAKEUP_TIMER_VAL)
    /\ Off \in Timer(DART_RESPONSE_TIMER_VAL)
BY DartAssumption DEF TimersInOrder, Timer, Off

LEMMA Transferred ==
    ASSUME NEW h \in Handler, h.transfering # NoList,
           Transfers(h.queue, h.transfering, h.pending_request)
    PROVE  /\ dart_transfer_msg(h) \in Handler
           /\ Same(h, dart_transfer_msg(h))
           /\ dart_transfer_msg(h).transfering = h.transfering
           /\ dart_transfer_msg(h).tx_attempts = h.tx_attempts
<1> DEFINE tokens == <<Token("SYNC", NoMsg), Token("body", Current(h))>>
<1>1. h.transfering \in Prio /\ h.queue \in [Prio -> Seq(Msg)]
    BY DEF Handler
<1>2. Current(h) \in Msg
    BY <1>1, HeadTailProperties DEF Current, Transfers
<1>3. tokens \in Seq(Tokens)
  <2>1. Token("SYNC", NoMsg) \in Tokens /\ Token("body", Current(h)) \in Tokens
      BY <1>2, TokensAre
  <2> QED
      BY <2>1
<1> DEFINE g == Push(h, tokens)
<1>4. g \in Handler /\ Same(h, g) /\ g.transfering = h.transfering /\ g.tx_attempts = h.tx_attempts
    BY <1>3, PushIs
<1>5. dart_transfer_msg(h) = [g EXCEPT !.tx_ack_timer = DART_ACK_TIMER_VAL]
    BY DEF dart_transfer_msg
<1> HIDE DEF g
<1>6. DART_ACK_TIMER_VAL \in Timer(DART_ACK_TIMER_VAL)
    BY TimersAre
<1>7. dart_transfer_msg(h) \in Handler
    BY <1>4, <1>5, <1>6 DEF Handler
<1>8. /\ Same(h, dart_transfer_msg(h))
      /\ dart_transfer_msg(h).transfering = h.transfering
      /\ dart_transfer_msg(h).tx_attempts = h.tx_attempts
    BY <1>4, <1>5 DEF Handler, Same
<1> QED
    BY <1>7, <1>8

LEMMA WokenUp ==
    ASSUME NEW h \in Handler, ~GivesUp(h)
    PROVE  LET up == IF h.wrk THEN h ELSE WakeUp(h)
           IN  /\ up \in Handler /\ Same(h, up)
               /\ up.transfering = h.transfering /\ up.tx_attempts = h.tx_attempts
<1>1. ASSUME ~h.wrk
      PROVE  /\ WakeUp(h) \in Handler /\ Same(h, WakeUp(h))
             /\ WakeUp(h).transfering = h.transfering /\ WakeUp(h).tx_attempts = h.tx_attempts
  <2>1. h.wakeup_attempts + 1 \in 0..DART_WAKEUP_ATTEMPTS
    <3>1. DART_WAKEUP_ATTEMPTS \in Nat /\ h.wakeup_attempts \in 0..DART_WAKEUP_ATTEMPTS
        BY DartAssumption DEF Handler
    <3>2. h.wakeup_attempts # DART_WAKEUP_ATTEMPTS
        BY <1>1 DEF GivesUp
    <3> QED
        BY <3>1, <3>2
  <2>2. (IF h.wakeup_timer = Off THEN DART_WAKEUP_TIMER_VAL ELSE h.wakeup_timer)
            \in Timer(DART_WAKEUP_TIMER_VAL)
      BY TimersAre DEF Handler
  <2> DEFINE n == h.wakeup_attempts + 1
             v == IF h.wakeup_timer = Off THEN DART_WAKEUP_TIMER_VAL ELSE h.wakeup_timer
  <2>3. WakeUp(h) = [h EXCEPT !.wakeup_attempts = n, !.wrk = TRUE, !.wakeup_timer = v]
      BY DEF WakeUp
  <2> HIDE DEF n, v
  <2>4. WakeUp(h) \in Handler
    <3>1. n \in 0..DART_WAKEUP_ATTEMPTS /\ v \in Timer(DART_WAKEUP_TIMER_VAL)
        BY <2>1, <2>2 DEF n, v
    <3> QED
        BY <2>3, <3>1, ZenonT(60) DEF Handler
  <2>5. /\ Same(h, WakeUp(h))
        /\ WakeUp(h).transfering = h.transfering /\ WakeUp(h).tx_attempts = h.tx_attempts
      BY <2>3 DEF Handler, Same
  <2> QED
      BY <2>4, <2>5
<1>2. Same(h, h)
    BY DEF Same
<1> QED
    BY <1>1, <1>2

LEMMA Triggered ==
    ASSUME NEW h \in Handler, Transfers(h.queue, h.transfering, h.pending_request)
    PROVE  LET g == dart_trigger_transfer(h)
           IN  /\ g \in Handler /\ Same(h, g)
               /\ Transfers(g.queue, g.transfering, g.pending_request)
               /\ Tries(h.transfering, h.tx_attempts) => Tries(g.transfering, g.tx_attempts)
               /\ h.transfering # NoList => g = h
<1> DEFINE up == IF h.wrk THEN h ELSE WakeUp(h)
           next == dart_find_next_message_queue(up)
           g == dart_trigger_transfer(h)
           begun == [up EXCEPT !.transfering = next,
                               !.tx_attempts = 0,
                               !.wakeup_attempts = 0,
                               !.closing_timer = Off,
                               !.wakeup_timer = Off]
<1>0. Same(h, h)
    BY DEF Same
<1>1. CASE h.transfering # NoList
    BY <1>0, <1>1 DEF dart_trigger_transfer
<1>2. CASE h.transfering = NoList /\ GivesUp(h)
  <2>1. g = [h EXCEPT !.wakeup_attempts = 0]
      BY <1>2 DEF dart_trigger_transfer
  <2>2. 0 \in 0..DART_WAKEUP_ATTEMPTS
      BY Assumptions
  <2> QED
      BY <1>2, <2>1, <2>2 DEF Handler, Same, Tries, Transfers
<1>3. CASE h.transfering = NoList /\ ~GivesUp(h)
  <2>1. /\ up \in Handler /\ Same(h, up)
        /\ up.transfering = h.transfering /\ up.tx_attempts = h.tx_attempts
      BY <1>3, WokenUp
  <2>2. g = IF ~h.rdy \/ next = NoList THEN up ELSE dart_transfer_msg(begun)
      BY <1>3 DEF dart_trigger_transfer
  <2> HIDE DEF up
  <2>3. CASE g = up
      BY <1>3, <2>1, <2>3 DEF Same, Tries, Transfers
  <2>4. CASE next # NoList /\ g = dart_transfer_msg(begun)
    <3>1. next \in Prio /\ Transfers(up.queue, next, up.pending_request)
        BY <2>1, <2>4, SendableIs
    <3>2. 0 \in 0..DART_WAKEUP_ATTEMPTS /\ 0 \in 0..DART_TX_ATTEMPTS /\ 0 < DART_TX_ATTEMPTS
        BY Assumptions
    <3> HIDE DEF next
    <3>3. begun \in Handler /\ Same(h, begun) /\ begun.transfering = next /\ begun.tx_attempts = 0
        BY <2>1, <3>1, <3>2, TimersAre DEF Handler, Same
    <3>4. Transfers(begun.queue, begun.transfering, begun.pending_request)
        BY <2>1, <3>1, <3>3 DEF Same
    <3> HIDE DEF begun
    <3>5. g \in Handler /\ Same(begun, g) /\ g.transfering = next /\ g.tx_attempts = 0
        BY <2>4, <3>3, <3>4, Transferred
    <3> QED
        BY <1>3, <3>2, <3>3, <3>4, <3>5 DEF Same, Tries
  <2> QED
      BY <2>2, <2>3, <2>4
<1> QED
    BY <1>1, <1>2, <1>3

----------------------------------------------------------------------------
(* The functions that take a message up, report on it and give it up.      *)

LEMMA HeldIsIn ==
    ASSUME NEW q, NEW p \in Prio, NEW i \in 1..Len(q[p]), NEW r
    PROVE  Held(q, r, q[p][i])
BY DEF Held

LEMMA CurrentIs ==
    ASSUME NEW h \in Handler, h.transfering # NoList,
           Transfers(h.queue, h.transfering, h.pending_request)
    PROVE  /\ h.transfering \in Prio /\ h.queue \in [Prio -> Seq(Msg)]
           /\ h.queue[h.transfering] # <<>>
           /\ Current(h) = Head(h.queue[h.transfering])
           /\ Current(h) \in Msg
           /\ Held(h.queue, h.pending_request, Current(h))
<1>1. h.transfering \in Prio /\ h.queue \in [Prio -> Seq(Msg)]
    BY DEF Handler
<1>2. h.queue[h.transfering] # <<>> /\ h.queue[h.transfering] \in Seq(Msg)
    BY <1>1 DEF Transfers
<1>3. /\ Current(h) = h.queue[h.transfering][1] /\ Current(h) \in Msg
      /\ 1 \in 1..Len(h.queue[h.transfering])
    BY <1>2, HeadTailProperties, LenProperties DEF Current
<1> QED
    BY <1>1, <1>2, <1>3, HeldIsIn DEF Current

LEMMA TriggeredNext ==
    ASSUME NEW h, NEW s, NEW f, NEW x, Handles(h, s, f, x)
    PROVE  LET g == dart_trigger_next_transfer(h)
           IN  /\ Handles(g, s, f, x)
               /\ Tries(h.transfering, h.tx_attempts) => Tries(g.transfering, g.tx_attempts)
<1> DEFINE quiet == /\ h.transfering = NoList /\ ~GivesUp(h) /\ h.rdy
                    /\ dart_find_next_message_queue(h) = NoList
                    /\ h.pending_request = NoMsg
           t == dart_trigger_transfer(h)
           g == dart_trigger_next_transfer(h)
<1>1. h \in Handler /\ Transfers(h.queue, h.transfering, h.pending_request)
    BY DEF Handles
<1>2. /\ t \in Handler /\ Same(h, t)
      /\ Transfers(t.queue, t.transfering, t.pending_request)
      /\ Tries(h.transfering, h.tx_attempts) => Tries(t.transfering, t.tx_attempts)
    BY <1>1, Triggered
<1>3. ASSUME quiet
      PROVE  Empty(h.queue, h.pending_request)
  <2>1. \A p \in Prio : h.queue[p] = <<>>
      BY <1>1, <1>3, SendableIs DEF Sendable
  <2>2. \A p \in Prio : Len(h.queue[p]) = 0
      BY <2>1
  <2> QED
      BY <1>3, <2>2, Assumptions DEF Empty, Held
<1>4. g = [t EXCEPT !.complete = @ \/ quiet]
    BY DEF dart_trigger_next_transfer
<1>5. (t.complete \/ quiet) \in BOOLEAN
    OBVIOUS
<1> HIDE DEF quiet, t
<1>6. /\ g \in Handler /\ g.queue = h.queue /\ g.pending_request = h.pending_request
      /\ g.tell = h.tell /\ g.say = h.say /\ g.complete = (h.complete \/ quiet)
      /\ g.transfering = t.transfering /\ g.tx_attempts = t.tx_attempts
  <2> DEFINE v == t.complete \/ quiet
  <2>1. g = [t EXCEPT !.complete = v] /\ v \in BOOLEAN
      BY <1>4, <1>5
  <2> HIDE DEF g, v
  <2>2. g \in Handler
      BY <1>2, <2>1 DEF Handler
  <2>3. /\ g.queue = t.queue /\ g.pending_request = t.pending_request
        /\ g.tell = t.tell /\ g.say = t.say
        /\ g.transfering = t.transfering /\ g.tx_attempts = t.tx_attempts
      BY <2>1
  <2>4. g.complete = v
      BY <1>2, <2>1 DEF Handler
  <2> QED
      BY <1>2, <2>2, <2>3, <2>4 DEF Same, g, v
<1>7. Handles(g, s, f, x)
    BY <1>2, <1>3, <1>6 DEF Handles, Same
<1> QED
    BY <1>2, <1>6, <1>7

\* dart_send_msg before it triggers the transfer.
Enqueued(h, m) ==
    [h EXCEPT !.queue[m.prio] = Append(@, m), !.tell = Append(@, <<m, "accepted">>)]

LEMMA Enqueues ==
    ASSUME NEW h, NEW s, NEW f \in [Msg -> Fates], NEW x, Handles(h, s, f, x),
           NEW m \in Msg, m.from = s, Learnt(f, h.tell)[m] = "new", m # x,
           ~h.complete, h.say = NoMsg, NoneTaken(h.tell)
    PROVE  LET k == Enqueued(h, m)
           IN  /\ Handles(k, s, f, x)
               /\ k.tell = Append(h.tell, <<m, "accepted">>)
               /\ k.pending_request = h.pending_request /\ k.transfering = h.transfering
               /\ k.complete = h.complete /\ k.tx_attempts = h.tx_attempts
               /\ h.transfering # NoList => Current(k) = Current(h)
<1> DEFINE Q == Longer(h.queue, m.prio, m)
           told == Append(h.tell, <<m, "accepted">>)
           k == Enqueued(h, m)
           r == h.pending_request
<1>1. /\ h \in Handler /\ h.queue \in [Prio -> Seq(Msg)] /\ h.tell \in Seq(Msg \X Codes)
      /\ m.prio \in Prio
    BY Assumptions DEF Handles, Handler
<1>2. ~Held(h.queue, r, m)
    BY DEF Handles, Knows
<1>3. Once(h.queue, r) /\ Transfers(h.queue, h.transfering, r)
    BY DEF Handles
<1>4. /\ Q \in [Prio -> Seq(Msg)] /\ Once(Q, r)
      /\ \A n \in Msg : Held(Q, r, n) <=> Held(h.queue, r, n) \/ n = m
      /\ \A p \in Prio : h.queue[p] # <<>> => Q[p] # <<>> /\ Head(Q[p]) = Head(h.queue[p])
  <2>1. Q \in [Prio -> Seq(Msg)]
      BY <1>1, <1>2, <1>3, QueueAppends
  <2>2. Once(Q, r)
      BY <1>1, <1>2, <1>3, QueueAppends
  <2>3. ASSUME NEW n \in Msg
        PROVE  Held(Q, r, n) <=> Held(h.queue, r, n) \/ n = m
      BY <1>1, <1>2, <1>3, QueueAppends
  <2>4. ASSUME NEW p \in Prio, h.queue[p] # <<>>
        PROVE  Q[p] # <<>> /\ Head(Q[p]) = Head(h.queue[p])
      BY <1>1, <1>2, <1>3, <2>4, QueueAppends
  <2> QED
      BY <2>1, <2>2, <2>3, <2>4
<1>5. /\ told \in Seq(Msg \X Codes)
      /\ Learnt(f, told) = [Learnt(f, h.tell) EXCEPT ![m] = "accepted"]
  <2>1. "accepted" \in Codes /\ told \in Seq(Msg \X Codes)
      BY <1>1, AppendProperties DEF Codes
  <2>2. Learnt(f, told) = After(Learnt(f, h.tell), m, "accepted")
      BY <1>1, <2>1, LearntAppend
  <2> QED
      BY <2>1, <2>2 DEF After
<1>6. /\ k.queue = Q /\ k.tell = told /\ k.pending_request = r /\ k.transfering = h.transfering
      /\ k.say = h.say /\ k.complete = h.complete /\ k.tx_attempts = h.tx_attempts
    BY <1>1 DEF Handler, Longer, Enqueued
<1>7. k \in Handler
    BY <1>1, <1>4, <1>5 DEF Handler, Longer, Enqueued
<1> HIDE DEF k, Q, told
<1>8. Learnt(f, h.tell) \in [Msg -> Fates]
    BY <1>1, LearntIs
<1>9. Knows(Q, r, s, Learnt(f, told), x)
  <2> SUFFICES ASSUME NEW n \in Msg
               PROVE  Held(Q, r, n) /\ n # x <=> n.from = s /\ Learnt(f, told)[n] = "accepted"
      BY DEF Knows
  <2>1. Held(h.queue, r, n) /\ n # x <=> n.from = s /\ Learnt(f, h.tell)[n] = "accepted"
      BY DEF Handles, Knows
  <2>2. Learnt(f, told)[n] = IF n = m THEN "accepted" ELSE Learnt(f, h.tell)[n]
      BY <1>5, <1>8
  <2> QED
      BY <1>4, <2>1, <2>2
<1>10. Transfers(Q, h.transfering, r)
    BY <1>1, <1>3, <1>4 DEF Transfers, Handler
<1>11. \A n \in Msg : n.from # s => Learnt(f, told)[n] = f[n]
    BY <1>5, <1>8 DEF Handles
<1>12. Taken(told) = {m}
  <2>1. "accepted" \in Codes
      BY DEF Codes
  <2>2. Taken(Append(h.tell, <<m, "accepted">>)) = Taken(h.tell) \cup {m}
      BY <1>1, <2>1, TakenAppend, Zenon
  <2> QED
      BY <2>2, Zenon DEF told, NoneTaken
<1>13. Lines(Q, sent, {m})
    BY <1>1, <1>2, LinesGrow DEF Handles, Q, NoneTaken
<1>14. Learns(station[s].pending_request, f, Learnt(f, told), {m})
    BY <1>5, <1>8, LearnsAccepted DEF Handles, NoneTaken
<1>15. Handles(k, s, f, x)
  <2>1. Few({m}) /\ k.say = NoMsg
      BY <1>6 DEF Few
  <2> QED
      BY <1>4, <1>6, <1>7, <1>9, <1>10, <1>11, <1>12, <1>13, <1>14, <2>1 DEF Handles
<1>16. h.transfering # NoList => Current(k) = Current(h)
    BY <1>1, <1>3, <1>4, <1>6 DEF Current, Transfers, Handler
<1> QED
    BY <1>6, <1>15, <1>16 DEF k, told

LEMMA Sent ==
    ASSUME NEW h, NEW s, NEW f \in [Msg -> Fates], NEW x, Handles(h, s, f, x),
           NEW m \in Msg, m.from = s, Learnt(f, h.tell)[m] = "new", m # x,
           ~h.complete, h.say = NoMsg, NoneTaken(h.tell)
    PROVE  LET g == dart_send_msg(h, m)
           IN  /\ Handles(g, s, f, x)
               /\ ~g.complete
               /\ g.pending_request = h.pending_request
               /\ Tries(h.transfering, h.tx_attempts) => Tries(g.transfering, g.tx_attempts)
               /\ h.transfering # NoList =>
                    /\ g.transfering = h.transfering /\ Current(g) = Current(h)
                    /\ g.tx_attempts = h.tx_attempts
<1> DEFINE k == Enqueued(h, m)
           g == dart_send_msg(h, m)
<1>1. /\ Handles(k, s, f, x)
      /\ k.pending_request = h.pending_request /\ k.transfering = h.transfering
      /\ k.complete = h.complete /\ k.tx_attempts = h.tx_attempts
      /\ h.transfering # NoList => Current(k) = Current(h)
    BY Enqueues
<1>2. g = dart_trigger_transfer(k)
    BY DEF dart_send_msg, Enqueued
<1> HIDE DEF k, g
<1>3. k \in Handler /\ Transfers(k.queue, k.transfering, k.pending_request)
    BY <1>1 DEF Handles
<1>4. /\ g \in Handler /\ Same(k, g)
      /\ Transfers(g.queue, g.transfering, g.pending_request)
      /\ Tries(k.transfering, k.tx_attempts) => Tries(g.transfering, g.tx_attempts)
      /\ k.transfering # NoList => g = k
    BY <1>2, <1>3, Triggered
<1>5. Handles(g, s, f, x)
    BY <1>1, <1>4, StillHandles
<1> QED
    BY <1>1, <1>4, <1>5 DEF Same, g

\* The message whose outcome a callback reports.
Settles(m, code) == IF code = "received" THEN NoMsg ELSE m

\* A callback before the message that it sends.
Noted(h, m, code) == [h EXCEPT !.tell = Append(@, <<m, code>>), !.say = NoMsg]

LEMMA Reports ==
    ASSUME NEW h, NEW s, NEW f \in [Msg -> Fates], Handles(h, s, f, NoMsg), ~h.complete,
           NEW m \in Msg, NEW code \in Outcomes \cup {"received"},
           code # "received" => Held(h.queue, h.pending_request, m),
           code = "abandoned" => m = station[s].pending_request
    PROVE  LET k == Noted(h, m, code)
           IN  /\ Handles(k, s, f, Settles(m, code)) /\ k.say = NoMsg
               /\ k.tell = Append(h.tell, <<m, code>>)
               /\ k.pending_request = h.pending_request /\ k.transfering = h.transfering
               /\ k.complete = h.complete /\ k.tx_attempts = h.tx_attempts
               /\ Current(k) = Current(h)
               /\ h.say # NoMsg =>
                    /\ h.say \in Msg /\ h.say.from = s /\ h.say # Settles(m, code)
                    /\ Learnt(f, k.tell)[h.say] = "new" /\ NoneTaken(k.tell)
<1> DEFINE told == Append(h.tell, <<m, code>>)
           k == Noted(h, m, code)
           x == Settles(m, code)
<1>1. h \in Handler /\ h.tell \in Seq(Msg \X Codes)
    BY DEF Handles, Handler
<1>2. /\ told \in Seq(Msg \X Codes)
      /\ Learnt(f, told) = IF code = "received" THEN Learnt(f, h.tell)
                           ELSE [Learnt(f, h.tell) EXCEPT ![m] = code]
  <2>1. code \in Codes
      BY DEF Codes
  <2>2. told \in Seq(Msg \X Codes)
      BY <1>1, <2>1, AppendProperties
  <2>3. Learnt(f, told) = After(Learnt(f, h.tell), m, code)
      BY <1>1, <2>1, LearntAppend
  <2> QED
      BY <2>2, <2>3 DEF After
<1>3. Learnt(f, h.tell) \in [Msg -> Fates]
    BY <1>1, LearntIs
<1>4. /\ k \in Handler /\ k.tell = told /\ k.say = NoMsg
      /\ k.queue = h.queue /\ k.pending_request = h.pending_request
      /\ k.transfering = h.transfering /\ k.complete = h.complete /\ k.tx_attempts = h.tx_attempts
    BY <1>1, <1>2 DEF Handler, Noted
<1>5. Current(k) = Current(h)
    BY <1>4 DEF Current
<1> HIDE DEF k, told
<1>6. code # "received" => m.from = s /\ Learnt(f, h.tell)[m] = "accepted"
    BY Assumptions DEF Handles, Knows
<1>7. Knows(h.queue, h.pending_request, s, Learnt(f, told), x)
  <2> SUFFICES ASSUME NEW n \in Msg
               PROVE  Held(h.queue, h.pending_request, n) /\ n # x
                        <=> n.from = s /\ Learnt(f, told)[n] = "accepted"
      BY DEF Knows
  <2>1. Held(h.queue, h.pending_request, n) <=> n.from = s /\ Learnt(f, h.tell)[n] = "accepted"
      BY Assumptions DEF Handles, Knows
  <2>2. CASE code = "received"
      BY <1>2, <2>1, <2>2, Assumptions DEF Settles
  <2>3. CASE code # "received"
    <3>1. Learnt(f, told)[n] = IF n = m THEN code ELSE Learnt(f, h.tell)[n]
        BY <1>2, <1>3, <2>3
    <3> QED
        BY <2>1, <2>3, <3>1 DEF Settles, Outcomes
  <2> QED
      BY <2>2, <2>3
<1>8. \A n \in Msg : n.from # s => Learnt(f, told)[n] = f[n]
    BY <1>2, <1>3, <1>6 DEF Handles
<1>9. Taken(told) = Taken(h.tell)
  <2>1. code \in Codes /\ code # "accepted"
      BY DEF Codes, Outcomes
  <2>2. Taken(Append(h.tell, <<m, code>>)) = Taken(h.tell) \cup {}
      BY <1>1, <2>1, TakenAppend, Zenon
  <2> QED
      BY <2>2, Zenon DEF told
<1>10. Learns(station[s].pending_request, f, Learnt(f, told), Taken(h.tell))
  <2>1. Learns(station[s].pending_request, f, Learnt(f, h.tell), Taken(h.tell))
      BY DEF Handles
  <2>2. CASE code = "received"
      BY <1>2, <2>1, <2>2
  <2>3. CASE code # "received"
      BY <1>2, <1>3, <1>6, <2>1, <2>3, LearnsOutcome
  <2> QED
      BY <2>2, <2>3
<1>11. Handles(k, s, f, x)
    BY <1>4, <1>7, <1>8, <1>9, <1>10 DEF Handles
<1>12. h.say # NoMsg =>
            /\ h.say \in Msg /\ h.say.from = s /\ h.say # x /\ Learnt(f, told)[h.say] = "new"
            /\ NoneTaken(told)
  <2> SUFFICES ASSUME h.say # NoMsg
               PROVE  /\ h.say \in Msg /\ h.say.from = s /\ h.say # x
                      /\ Learnt(f, told)[h.say] = "new" /\ NoneTaken(told)
      OBVIOUS
  <2>1. h.say \in Msg /\ h.say.from = s /\ Learnt(f, h.tell)[h.say] = "new"
      BY <1>1 DEF Handles, Handler
  <2>2. NoneTaken(told)
      BY <1>9 DEF Handles, NoneTaken
  <2> QED
      BY <1>2, <1>3, <1>6, <2>1, <2>2 DEF Settles
<1> QED
    BY <1>4, <1>5, <1>11, <1>12 DEF k, told

LEMMA CalledBack ==
    ASSUME NEW h, NEW s, NEW f \in [Msg -> Fates], Handles(h, s, f, NoMsg), ~h.complete,
           NEW m \in Msg, NEW code \in Outcomes \cup {"received"},
           code # "received" => Held(h.queue, h.pending_request, m),
           code = "abandoned" => m = station[s].pending_request
    PROVE  LET g == Callback(h, m, code)
           IN  /\ Handles(g, s, f, Settles(m, code))
               /\ ~g.complete
               /\ g.pending_request = h.pending_request
               /\ Tries(h.transfering, h.tx_attempts) => Tries(g.transfering, g.tx_attempts)
               /\ h.transfering # NoList =>
                    /\ g.transfering = h.transfering /\ Current(g) = Current(h)
<1> DEFINE k == Noted(h, m, code)
           x == Settles(m, code)
           g == Callback(h, m, code)
<1>1. /\ Handles(k, s, f, x) /\ k.say = NoMsg
      /\ k.pending_request = h.pending_request /\ k.transfering = h.transfering
      /\ k.complete = h.complete /\ k.tx_attempts = h.tx_attempts /\ Current(k) = Current(h)
      /\ h.say # NoMsg =>
            /\ h.say \in Msg /\ h.say.from = s /\ h.say # x
            /\ Learnt(f, k.tell)[h.say] = "new" /\ NoneTaken(k.tell)
    BY Reports
<1>2. g = IF h.say = NoMsg THEN k ELSE dart_send_msg(k, h.say)
    BY DEF Callback, Noted
<1> HIDE DEF k, g, x
<1>3. CASE h.say = NoMsg
    BY <1>1, <1>2, <1>3 DEF g, x
<1>4. CASE h.say # NoMsg
  <2>1. /\ Handles(g, s, f, x) /\ ~g.complete
        /\ g.pending_request = k.pending_request
        /\ Tries(k.transfering, k.tx_attempts) => Tries(g.transfering, g.tx_attempts)
        /\ k.transfering # NoList =>
                /\ g.transfering = k.transfering /\ Current(g) = Current(k)
      BY <1>1, <1>2, <1>4, Sent
  <2> QED
      BY <1>1, <2>1 DEF g, x
<1> QED
    BY <1>3, <1>4

LEMMA Finished ==
    ASSUME NEW h, NEW s, NEW f, Handles(h, s, f, Current(h)),
           h.transfering # NoList
    PROVE  LET g == dart_finalize_transfer(h)
           IN  Handles(g, s, f, NoMsg) /\ g.transfering = NoList
<1> DEFINE Q == Shorter(h.queue, h.transfering)
           r == h.pending_request
           m == Head(h.queue[h.transfering])
           g == dart_finalize_transfer(h)
<1>1. /\ h \in Handler /\ Once(h.queue, r) /\ Transfers(h.queue, h.transfering, r)
    BY DEF Handles
<1>2. /\ h.transfering \in Prio /\ h.queue \in [Prio -> Seq(Msg)]
      /\ h.queue[h.transfering] # <<>>
      /\ m = Current(h) /\ m \in Msg /\ Held(h.queue, r, m)
    BY <1>1, CurrentIs
<1>3. ~h.complete
    BY <1>2 DEF Handles, Empty
<1>4. Q \in [Prio -> Seq(Msg)]
    BY <1>1, <1>2, QueuePops
<1>5. Once(Q, r)
    BY <1>1, <1>2, QueuePops
<1>6. \A n \in Msg : Held(Q, r, n) <=> Held(h.queue, r, n) /\ n # m
    BY <1>1, <1>2, QueuePops
<1>7. /\ g.queue = Q /\ g.pending_request = r /\ g.transfering = NoList
      /\ g.tell = h.tell /\ g.say = h.say /\ g.complete = h.complete
    BY <1>1, <1>2 DEF dart_finalize_transfer, Handler, Shorter
<1>8. g \in Handler
    BY <1>1, <1>2, <1>4 DEF dart_finalize_transfer, Handler, Shorter
<1> HIDE DEF Q
<1>9. Knows(Q, r, s, Learnt(f, h.tell), NoMsg)
    BY <1>2, <1>6, Assumptions DEF Knows, Handles
<1>10. Transfers(Q, NoList, r)
    BY DEF Transfers
<1>11. Lines(Q, sent, Taken(h.tell))
    BY <1>2, LinesShrink DEF Q, Handles
<1> QED
    BY <1>3, <1>5, <1>7, <1>8, <1>9, <1>10, <1>11 DEF Handles

\* A request that was acknowledged is held until its response comes.
Waiting(h) ==
    [dart_finalize_transfer(h) EXCEPT
        !.pending_request = Current(h),
        !.tx_response_timer = DART_RESPONSE_TIMER_VAL]

LEMMA Waits ==
    ASSUME NEW h, NEW s, NEW f, Handles(h, s, f, NoMsg),
           h.transfering # NoList, Current(h).kind = "REQUEST"
    PROVE  Handles(Waiting(h), s, f, NoMsg) /\ Waiting(h).transfering = NoList
<1> DEFINE Q == Shorter(h.queue, h.transfering)
           r == h.pending_request
           m == Head(h.queue[h.transfering])
           g == Waiting(h)
<1>1. /\ h \in Handler /\ Once(h.queue, r) /\ Transfers(h.queue, h.transfering, r)
    BY DEF Handles
<1>2. /\ h.transfering \in Prio /\ h.queue \in [Prio -> Seq(Msg)]
      /\ h.queue[h.transfering] # <<>>
      /\ m = Current(h) /\ m \in Msg /\ Held(h.queue, r, m)
    BY <1>1, CurrentIs
<1>3. ~h.complete /\ r = NoMsg
    BY <1>1, <1>2 DEF Handles, Empty, Transfers
<1>4. Q \in [Prio -> Seq(Msg)]
    BY <1>1, <1>2, QueuePops
<1>5. Once(Q, r)
    BY <1>1, <1>2, QueuePops
<1>6. \A n \in Msg : Held(Q, r, n) <=> Held(h.queue, r, n) /\ n # m
    BY <1>1, <1>2, QueuePops
<1>7. \A k \in Prio : \A i \in 1..Len(Q[k]) : Q[k][i] # m
    BY <1>1, <1>2, QueuePops
<1>8. /\ g.queue = Q /\ g.pending_request = m /\ g.transfering = NoList
      /\ g.tell = h.tell /\ g.say = h.say /\ g.complete = h.complete
    BY <1>1, <1>2 DEF Waiting, dart_finalize_transfer, Handler, Shorter
<1>9. g \in Handler
    BY <1>1, <1>2, <1>4, TimersAre DEF Waiting, dart_finalize_transfer, Handler, Shorter
<1> HIDE DEF Q
<1>10. Once(Q, m)
    BY <1>5, <1>7 DEF Once
<1>11. \A n \in Msg : Held(Q, m, n) <=> Held(h.queue, r, n)
    BY <1>2, <1>3, <1>6, Assumptions DEF Held
<1>12. Knows(Q, m, s, Learnt(f, h.tell), NoMsg)
    BY <1>11 DEF Knows, Handles
<1>13. Transfers(Q, NoList, m)
    BY DEF Transfers
<1>14. Lines(Q, sent, Taken(h.tell))
    BY <1>2, LinesShrink DEF Q, Handles
<1> QED
    BY <1>3, <1>8, <1>9, <1>10, <1>12, <1>13, <1>14 DEF Handles

LEMMA RequestFinished ==
    ASSUME NEW h, NEW s, NEW f, Handles(h, s, f, h.pending_request),
           h.pending_request # NoMsg, ~h.complete
    PROVE  LET g == dart_finalize_request_msg(h)
           IN  /\ Handles(g, s, f, NoMsg)
               /\ Tries(h.transfering, h.tx_attempts) => Tries(g.transfering, g.tx_attempts)
<1> DEFINE k == [h EXCEPT !.pending_request = NoMsg, !.tx_response_timer = Off]
           r == h.pending_request
<1>1. h \in Handler /\ r \in Msg /\ Once(h.queue, r) /\ Transfers(h.queue, h.transfering, r)
    BY DEF Handles, Handler
<1>2. /\ k \in Handler
      /\ k.queue = h.queue /\ k.pending_request = NoMsg /\ k.transfering = h.transfering
      /\ k.tell = h.tell /\ k.say = h.say /\ k.complete = h.complete
      /\ k.tx_attempts = h.tx_attempts
    BY <1>1, TimersAre DEF Handler
<1>3. dart_finalize_request_msg(h) = dart_trigger_next_transfer(k)
    BY DEF dart_finalize_request_msg
<1> HIDE DEF k
<1>4. \A n \in Msg : Held(h.queue, NoMsg, n) <=> Held(h.queue, r, n) /\ n # r
    BY <1>1, Assumptions DEF Held, Once
<1>5. Knows(h.queue, NoMsg, s, Learnt(f, h.tell), NoMsg)
    BY <1>1, <1>4, Assumptions DEF Knows, Handles
<1>6. Once(h.queue, NoMsg) /\ Transfers(h.queue, h.transfering, NoMsg)
    BY <1>1 DEF Once, Transfers
<1>7. Handles(k, s, f, NoMsg)
    BY <1>2, <1>5, <1>6 DEF Handles
<1> QED
    BY <1>2, <1>3, <1>7, TriggeredNext

LEMMA Abandoned ==
    ASSUME NEW h, NEW s, NEW f \in [Msg -> Fates], Handles(h, s, f, NoMsg),
           h.pending_request # NoMsg, ~h.complete,
           h.pending_request = station[s].pending_request
    PROVE  LET g == dart_abandon_request_msg(h)
           IN  /\ Handles(g, s, f, NoMsg)
               /\ Tries(h.transfering, h.tx_attempts) => Tries(g.transfering, g.tx_attempts)
<1> DEFINE k == Callback(h, h.pending_request, "abandoned")
<1>1. h.pending_request \in Msg /\ Held(h.queue, h.pending_request, h.pending_request)
    BY DEF Handles, Handler, Held
<1>2. "abandoned" \in Outcomes \cup {"received"} /\ "abandoned" # "received"
    BY DEF Outcomes
<1>3. Settles(h.pending_request, "abandoned") = h.pending_request
    BY DEF Settles
<1>4. /\ Handles(k, s, f, h.pending_request) /\ ~k.complete
      /\ k.pending_request = h.pending_request
      /\ Tries(h.transfering, h.tx_attempts) => Tries(k.transfering, k.tx_attempts)
    BY <1>1, <1>2, <1>3, CalledBack
<1>5. dart_abandon_request_msg(h) = dart_finalize_request_msg(k)
    BY DEF dart_abandon_request_msg
<1> HIDE DEF k
<1> QED
    BY <1>4, <1>5, RequestFinished

\* The outcome of the message that is transferred is reported, and the message
\* popped.
LEMMA Concluded ==
    ASSUME NEW h, NEW s, NEW f \in [Msg -> Fates], Handles(h, s, f, NoMsg),
           h.transfering # NoList, NEW code \in Outcomes, code # "abandoned"
    PROVE  LET g == dart_trigger_next_transfer(dart_finalize_transfer(
                        Callback(h, Current(h), code)))
           IN  Handles(g, s, f, NoMsg) /\ Tries(g.transfering, g.tx_attempts)
<1> DEFINE m == Current(h)
           k == Callback(h, m, code)
           e == dart_finalize_transfer(k)
           g == dart_trigger_next_transfer(e)
<1>1. h \in Handler /\ Transfers(h.queue, h.transfering, h.pending_request)
    BY DEF Handles
<1>2. m \in Msg /\ Held(h.queue, h.pending_request, m)
    BY <1>1, CurrentIs
<1>3. ~h.complete
    BY <1>2 DEF Handles, Empty
<1>4. code \in Outcomes \cup {"received"} /\ Settles(m, code) = m
    BY DEF Settles, Outcomes
<1> HIDE DEF m
<1>5. /\ Handles(k, s, f, m)
      /\ k.transfering # NoList /\ Current(k) = Current(h)
    BY <1>2, <1>3, <1>4, CalledBack
<1>6. Current(k) = m
    BY <1>5 DEF m
<1> HIDE DEF k
<1>7. Handles(e, s, f, NoMsg) /\ e.transfering = NoList
    BY <1>5, <1>6, Finished
<1>8. Tries(e.transfering, e.tx_attempts)
    BY <1>7 DEF Tries
<1> HIDE DEF e
<1>9. Handles(g, s, f, NoMsg) /\ Tries(g.transfering, g.tx_attempts)
    BY <1>7, <1>8, TriggeredNext
<1> QED
    BY <1>9 DEF g, e, k, m

LEMMA Retried ==
    ASSUME NEW h, NEW s, NEW f \in [Msg -> Fates], Handles(h, s, f, NoMsg),
           Tries(h.transfering, h.tx_attempts)
    PROVE  LET g == dart_retry_transfer(h)
           IN  Handles(g, s, f, NoMsg) /\ Tries(g.transfering, g.tx_attempts)
<1> DEFINE again == [h EXCEPT !.tx_attempts = @ + 1, !.tx_ack_timer = Off]
           g == dart_retry_transfer(h)
<1>1. CASE h.transfering = NoList
    BY <1>1 DEF dart_retry_transfer
<1>2. CASE h.transfering # NoList
  <2>1. /\ h \in Handler /\ Transfers(h.queue, h.transfering, h.pending_request)
      BY DEF Handles
  <2>2. h.tx_attempts + 1 \in 0..DART_TX_ATTEMPTS
    <3>1. DART_TX_ATTEMPTS \in Nat /\ h.tx_attempts \in 0..DART_TX_ATTEMPTS
        BY <2>1, Assumptions DEF Handler
    <3> QED
        BY <1>2, <3>1 DEF Tries
  <2>3. /\ again \in Handler /\ Same(h, again) /\ again.transfering = h.transfering
        /\ again.tx_attempts = h.tx_attempts + 1 /\ Current(again) = Current(h)
      BY <2>1, <2>2, TimersAre DEF Handler, Same, Current
  <2>4. g = IF again.tx_attempts < DART_TX_ATTEMPTS THEN dart_transfer_msg(again)
            ELSE dart_trigger_next_transfer(dart_finalize_transfer(
                        Callback(again, Current(h), "failed")))
    <3>1. again.tx_attempts < DART_TX_ATTEMPTS <=> ~(again.tx_attempts >= DART_TX_ATTEMPTS)
        BY <2>2, <2>3, Assumptions
    <3> HIDE DEF again
    <3>2. g = CASE h.transfering = NoList -> h
          [] h.transfering # NoList /\ again.tx_attempts < DART_TX_ATTEMPTS
                -> dart_transfer_msg(again)
          [] h.transfering # NoList /\ again.tx_attempts >= DART_TX_ATTEMPTS
                -> dart_trigger_next_transfer(dart_finalize_transfer(
                        Callback(again, Current(h), "failed")))
        BY DEF dart_retry_transfer, again
    <3> QED
        BY <1>2, <3>1, <3>2
  <2> HIDE DEF again
  <2>5. Transfers(again.queue, again.transfering, again.pending_request)
      BY <2>1, <2>3 DEF Same
  <2>6. Handles(again, s, f, NoMsg)
      BY <2>3, <2>5, StillHandles
  <2>7. CASE again.tx_attempts < DART_TX_ATTEMPTS
    <3> DEFINE e == dart_transfer_msg(again)
    <3>1. /\ e \in Handler /\ Same(again, e) /\ e.transfering = again.transfering
          /\ e.tx_attempts = again.tx_attempts
        BY <1>2, <2>3, <2>5, Transferred
    <3>2. Transfers(e.queue, e.transfering, e.pending_request)
        BY <2>5, <3>1 DEF Same
    <3> HIDE DEF e
    <3>3. Handles(e, s, f, NoMsg)
        BY <2>6, <3>1, <3>2, StillHandles
    <3>4. Tries(e.transfering, e.tx_attempts)
        BY <2>7, <3>1 DEF Tries
    <3> QED
        BY <2>4, <2>7, <3>3, <3>4 DEF e
  <2>8. CASE ~(again.tx_attempts < DART_TX_ATTEMPTS)
    <3>1. g = dart_trigger_next_transfer(dart_finalize_transfer(
                        Callback(again, Current(again), "failed")))
        BY <2>3, <2>4, <2>8
    <3>2. "failed" \in Outcomes
        BY DEF Outcomes
    <3> QED
        BY <1>2, <2>3, <2>6, <3>1, <3>2, Concluded
  <2> QED
      BY <2>7, <2>8
<1> QED
    BY <1>1, <1>2

LEMMA Acknowledged ==
    ASSUME NEW h, NEW s, NEW f \in [Msg -> Fates], Handles(h, s, f, NoMsg)
    PROVE  LET g == dart_acknowledge_msg(h)
           IN  Handles(g, s, f, NoMsg) /\ Tries(g.transfering, g.tx_attempts)
<1> DEFINE acked == [h EXCEPT !.tx_ack_timer = Off]
           g == dart_acknowledge_msg(h)
<1>1. CASE h.transfering = NoList
    BY <1>1 DEF dart_acknowledge_msg, Tries
<1>2. CASE h.transfering # NoList
  <2>1. /\ h \in Handler /\ Transfers(h.queue, h.transfering, h.pending_request)
      BY DEF Handles
  <2>2. /\ acked \in Handler /\ Same(h, acked) /\ acked.transfering = h.transfering
        /\ Current(acked) = Current(h)
      BY <2>1, TimersAre DEF Handler, Same, Current
  <2>3. g = IF Current(h).kind = "REQUEST"
            THEN dart_trigger_next_transfer(
                        [dart_finalize_transfer(acked) EXCEPT
                            !.pending_request = Current(h),
                            !.tx_response_timer = DART_RESPONSE_TIMER_VAL])
            ELSE dart_trigger_next_transfer(dart_finalize_transfer(
                        Callback(acked, Current(h), "done")))
      BY <1>2 DEF dart_acknowledge_msg
  <2> HIDE DEF acked
  <2>4. Transfers(acked.queue, acked.transfering, acked.pending_request)
      BY <2>1, <2>2 DEF Same
  <2>5. Handles(acked, s, f, NoMsg)
      BY <2>2, <2>4, StillHandles
  <2>6. CASE Current(h).kind = "REQUEST"
    <3>1. g = dart_trigger_next_transfer(Waiting(acked))
        BY <2>2, <2>3, <2>6 DEF Waiting
    <3>2. Handles(Waiting(acked), s, f, NoMsg) /\ Waiting(acked).transfering = NoList
        BY <1>2, <2>2, <2>5, <2>6, Waits
    <3>3. Tries(Waiting(acked).transfering, Waiting(acked).tx_attempts)
        BY <3>2 DEF Tries
    <3> QED
        BY <3>1, <3>2, <3>3, TriggeredNext
  <2>7. CASE Current(h).kind # "REQUEST"
    <3>1. g = dart_trigger_next_transfer(dart_finalize_transfer(
                        Callback(acked, Current(acked), "done")))
        BY <2>2, <2>3, <2>7
    <3>2. "done" \in Outcomes
        BY DEF Outcomes
    <3> QED
        BY <1>2, <2>2, <2>5, <3>1, <3>2, Concluded
  <2> QED
      BY <2>6, <2>7
<1> QED
    BY <1>1, <1>2

LEMMA AcceptedMsg ==
    ASSUME NEW h, NEW s, NEW f \in [Msg -> Fates], Handles(h, s, f, NoMsg),
           Tries(h.transfering, h.tx_attempts), ~h.complete, h.say = NoMsg,
           NoneTaken(h.tell), NEW m \in Msg, m.from = s, Learnt(f, h.tell)[m] = "new"
    PROVE  LET g == dart_send_msg(h, m)
           IN  Handles(g, s, f, NoMsg) /\ Tries(g.transfering, g.tx_attempts)
<1>1. m # NoMsg
    BY Assumptions
<1> QED
    BY <1>1, Sent

LEMMA ReceivedMsg ==
    ASSUME NEW h, NEW s, NEW f \in [Msg -> Fates], Handles(h, s, f, NoMsg),
           Tries(h.transfering, h.tx_attempts), ~h.complete, NEW m \in Msg
    PROVE  LET g == dart_handle_received_msg(h, m)
           IN  Handles(g, s, f, NoMsg) /\ Tries(g.transfering, g.tx_attempts)
<1> DEFINE seen == Callback(h, m, "received")
           request == seen.pending_request
           g == dart_handle_received_msg(h, m)
           k == Callback(seen, request, "done")
<1>1. /\ "received" \in Outcomes \cup {"received"} /\ Settles(m, "received") = NoMsg
      /\ "done" \in Outcomes \cup {"received"} /\ "done" # "received"
    BY DEF Settles, Outcomes
<1>2. /\ Handles(seen, s, f, NoMsg) /\ ~seen.complete
      /\ Tries(seen.transfering, seen.tx_attempts)
    BY <1>1, CalledBack
<1>3. g = IF request # NoMsg /\ m.kind = "RESPONSE" /\ m.id = request.id
          THEN dart_finalize_request_msg(k)
          ELSE seen
    BY DEF dart_handle_received_msg
<1> HIDE DEF seen
<1>4. CASE g = seen
    BY <1>2, <1>4
<1>5. CASE request # NoMsg /\ g = dart_finalize_request_msg(k)
  <2>1. request \in Msg /\ Held(seen.queue, seen.pending_request, request)
      BY <1>2, <1>5 DEF Handles, Handler, Held
  <2>2. Settles(request, "done") = request
      BY DEF Settles
  <2>3. /\ Handles(k, s, f, request) /\ ~k.complete /\ k.pending_request = request
        /\ Tries(k.transfering, k.tx_attempts)
      BY <1>1, <1>2, <2>1, <2>2, CalledBack
  <2> HIDE DEF k
  <2> QED
      BY <1>5, <2>3, RequestFinished
<1> QED
    BY <1>3, <1>4, <1>5

----------------------------------------------------------------------------
(* What calls a station: a byte, and the time.                             *)

\* The step from h to g sets pins, timers, the receive buffer or the output.
Aside(h, g) ==
    /\ g \in Handler /\ Same(h, g)
    /\ g.transfering = h.transfering /\ g.tx_attempts = h.tx_attempts

LEMMA AsideHandles ==
    ASSUME NEW h, NEW s, NEW f, NEW x, Handles(h, s, f, x),
           Tries(h.transfering, h.tx_attempts), NEW g, Aside(h, g)
    PROVE  Handles(g, s, f, x) /\ Tries(g.transfering, g.tx_attempts)
<1>1. Transfers(g.queue, g.transfering, g.pending_request)
    BY DEF Handles, Aside, Same
<1> QED
    BY <1>1, StillHandles DEF Aside

LEMMA EmptiedIs ==
    ASSUME NEW h \in Handler
    PROVE  Aside(h, Emptied(h))
BY TimersAre DEF Emptied, Handler, Aside, Same

LEMMA FreshIs ==
    ASSUME NEW h \in Handler
    PROVE  Aside(h, Fresh(h))
<1> DEFINE e == IF h.rx_byte_timer = 0 THEN Emptied(h) ELSE h
<1>1. Aside(h, e)
    BY EmptiedIs DEF Aside, Same
<1>2. Fresh(h) = [e EXCEPT !.closing_timer = Off,
                           !.rx_byte_timer = IF @ = Off THEN Off ELSE DART_BYTE_TIMER_VAL]
    BY DEF Fresh
<1> HIDE DEF e
<1>3. (IF e.rx_byte_timer = Off THEN Off ELSE DART_BYTE_TIMER_VAL) \in Timer(DART_BYTE_TIMER_VAL)
    BY TimersAre
<1>4. e \in Handler
    BY <1>1 DEF Aside
<1>5. Fresh(h) \in Handler
  <2>1. Off \in Timer(DART_CHILL_TIMER_VAL)
      BY TimersAre
  <2> DEFINE v == IF e.rx_byte_timer = Off THEN Off ELSE DART_BYTE_TIMER_VAL
  <2>2. Fresh(h) = [e EXCEPT !.closing_timer = Off, !.rx_byte_timer = v] /\ v \in Timer(DART_BYTE_TIMER_VAL)
      BY <1>2, <1>3
  <2> HIDE DEF v
  <2> QED
      BY <1>4, <2>1, <2>2, ZenonT(60) DEF Handler
<1>6. /\ Same(e, Fresh(h))
      /\ Fresh(h).transfering = e.transfering /\ Fresh(h).tx_attempts = e.tx_attempts
    BY <1>2, <1>4 DEF Handler, Same
<1> QED
    BY <1>1, <1>5, <1>6 DEF Aside, Same

LEMMA MisreadIs ==
    ASSUME NEW h \in Handler, NEW outcome \in Outcome
    PROVE  Aside(h, Misread(h, outcome))
<1>1. CASE outcome = "short"
  <2>1. Misread(h, outcome) = [h EXCEPT !.rx_buffer = "broken"]
      BY <1>1 DEF Misread
  <2> QED
      BY <2>1 DEF Handler, Aside, Same
<1>2. CASE outcome = "long"
  <2>1. Misread(h, outcome) = Emptied(h)
      BY <1>2 DEF Misread
  <2> QED
      BY <2>1, EmptiedIs
<1>3. CASE outcome = "crc"
  <2> DEFINE e == Push(h, <<Token("BAD", NoMsg)>>)
  <2>1. Misread(h, outcome) = Emptied(e)
      BY <1>3 DEF Misread
  <2>2. <<Token("BAD", NoMsg)>> \in Seq(Tokens)
      BY TokensAre
  <2>3. Aside(h, e)
      BY <2>2, PushIs DEF Aside
  <2> HIDE DEF e
  <2>4. Aside(e, Emptied(e))
      BY <2>3, EmptiedIs DEF Aside
  <2> QED
      BY <2>1, <2>3, <2>4 DEF Aside, Same
<1> QED
    BY <1>1, <1>2, <1>3 DEF Outcome

LEMMA FirstByteIs ==
    ASSUME NEW h, NEW s, NEW f \in [Msg -> Fates], Handles(h, s, f, NoMsg),
           Tries(h.transfering, h.tx_attempts), NEW k
    PROVE  LET g == FirstByte(h, k)
           IN  Handles(g, s, f, NoMsg) /\ Tries(g.transfering, g.tx_attempts)
<1> DEFINE g == FirstByte(h, k)
<1>1. CASE k = "SYNC"
  <2>1. g = [h EXCEPT !.rx_buffer = "sync",
                      !.rx_byte_timer = DART_BYTE_TIMER_VAL,
                      !.wrk = TRUE]
      BY <1>1 DEF FirstByte
  <2>2. h \in Handler
      BY DEF Handles
  <2>3. Aside(h, g)
    <3>1. DART_BYTE_TIMER_VAL \in Timer(DART_BYTE_TIMER_VAL)
        BY TimersAre
    <3> HIDE DEF g
    <3>2. g \in Handler
        BY <2>1, <2>2, <3>1 DEF Handler
    <3>3. Same(h, g) /\ g.transfering = h.transfering /\ g.tx_attempts = h.tx_attempts
        BY <2>1, <2>2 DEF Handler, Same
    <3> QED
        BY <3>2, <3>3 DEF Aside
  <2> QED
      BY <2>3, AsideHandles
<1>2. CASE k = "ACK" /\ h.wrk
  <2>1. g = dart_acknowledge_msg(h)
      BY <1>2 DEF FirstByte
  <2> QED
      BY <2>1, Acknowledged
<1>3. CASE k = "BAD" /\ h.wrk
  <2>1. g = dart_retry_transfer(h)
      BY <1>3 DEF FirstByte
  <2> QED
      BY <2>1, Retried
<1>4. CASE k # "SYNC" /\ ~(k = "ACK" /\ h.wrk) /\ ~(k = "BAD" /\ h.wrk)
  <2>1. g = h
      BY <1>4 DEF FirstByte
  <2> QED
      BY <2>1
<1> QED
    BY <1>1, <1>2, <1>3, <1>4

LEMMA ReceivedChar ==
    ASSUME NEW h, NEW s, NEW f \in [Msg -> Fates], Handles(h, s, f, NoMsg),
           Tries(h.transfering, h.tx_attempts), ~h.complete,
           NEW t \in Tokens, NEW outcome \in Outcome
    PROVE  LET g == dart_handle_received_char(h, t, outcome)
           IN  Handles(g, s, f, NoMsg) /\ Tries(g.transfering, g.tx_attempts)
<1> DEFINE x == Fresh(h)
           g == dart_handle_received_char(h, t, outcome)
<1>1. h \in Handler
    BY DEF Handles
<1>2. Aside(h, x)
    BY <1>1, FreshIs
<1>3. g = CASE x.rx_buffer = "empty" -> FirstByte(x, t.k)
          [] x.rx_buffer = "sync" /\ t.k = "body"
                -> Emptied(dart_handle_received_msg(
                        Push(x, <<Token("ACK", NoMsg)>>), t.msg))
          [] OTHER -> Misread(x, outcome)
    BY DEF dart_handle_received_char
<1> HIDE DEF x
<1>4. /\ Handles(x, s, f, NoMsg) /\ Tries(x.transfering, x.tx_attempts)
      /\ x \in Handler /\ ~x.complete
    BY <1>2, AsideHandles DEF Aside, Same
<1>5. CASE x.rx_buffer = "empty"
  <2>1. g = FirstByte(x, t.k)
      BY <1>3, <1>5
  <2> QED
      BY <1>4, <2>1, FirstByteIs
<1>6. CASE x.rx_buffer = "sync" /\ t.k = "body"
  <2> DEFINE p == Push(x, <<Token("ACK", NoMsg)>>)
             e == dart_handle_received_msg(p, t.msg)
  <2>1. g = Emptied(e)
      BY <1>3, <1>6
  <2>2. t.msg \in Msg
      BY <1>6 DEF Tokens, Token
  <2>3. <<Token("ACK", NoMsg)>> \in Seq(Tokens)
      BY TokensAre
  <2>4. Aside(x, p)
      BY <1>4, <2>3, PushIs DEF Aside
  <2> HIDE DEF p
  <2>5. Handles(p, s, f, NoMsg) /\ Tries(p.transfering, p.tx_attempts) /\ ~p.complete
      BY <1>4, <2>4, AsideHandles DEF Aside, Same
  <2>6. Handles(e, s, f, NoMsg) /\ Tries(e.transfering, e.tx_attempts)
      BY <2>2, <2>5, ReceivedMsg
  <2> HIDE DEF e
  <2>7. Aside(e, Emptied(e))
      BY <2>6, EmptiedIs DEF Handles
  <2> QED
      BY <2>1, <2>6, <2>7, AsideHandles
<1>7. CASE x.rx_buffer # "empty" /\ ~(x.rx_buffer = "sync" /\ t.k = "body")
  <2>1. g = Misread(x, outcome)
      BY <1>3, <1>7
  <2>2. Aside(x, Misread(x, outcome))
      BY <1>4, MisreadIs
  <2> QED
      BY <1>4, <2>1, <2>2, AsideHandles
<1> QED
    BY <1>5, <1>6, <1>7

LEMMA ClosingIs ==
    ASSUME NEW h \in Handler
    PROVE  Aside(h, Closing(h))
<1> DEFINE g == Closing(h)
<1>1. CASE h.wrk /\ h.closing_timer = Off
  <2>1. g = [h EXCEPT !.closing_timer = DART_CLOSING_TIMER_VAL]
      BY <1>1 DEF Closing, Off
  <2>2. DART_CLOSING_TIMER_VAL \in Timer(DART_CHILL_TIMER_VAL)
      BY TimersAre
  <2> HIDE DEF g
  <2>3. g \in Handler
      BY <2>1, <2>2 DEF Handler
  <2>4. g.queue = h.queue /\ g.pending_request = h.pending_request /\ g.tell = h.tell
      BY <2>1 DEF Handler
  <2>5. g.say = h.say /\ g.complete = h.complete
      BY <2>1 DEF Handler
  <2>6. g.transfering = h.transfering /\ g.tx_attempts = h.tx_attempts
      BY <2>1 DEF Handler
  <2> QED
      BY <2>3, <2>4, <2>5, <2>6 DEF Aside, Same, g
<1>2. CASE h.wrk /\ h.closing_timer = 0
  <2>1. g = [h EXCEPT !.wrk = FALSE, !.closing_timer = DART_CHILL_TIMER_VAL]
      BY <1>2 DEF Closing, Off
  <2>2. DART_CHILL_TIMER_VAL \in Timer(DART_CHILL_TIMER_VAL)
      BY TimersAre
  <2> HIDE DEF g
  <2>3. g \in Handler
      BY <2>1, <2>2 DEF Handler
  <2>4. g.queue = h.queue /\ g.pending_request = h.pending_request /\ g.tell = h.tell
      BY <2>1 DEF Handler
  <2>5. g.say = h.say /\ g.complete = h.complete
      BY <2>1 DEF Handler
  <2>6. g.transfering = h.transfering /\ g.tx_attempts = h.tx_attempts
      BY <2>1 DEF Handler
  <2> QED
      BY <2>3, <2>4, <2>5, <2>6 DEF Aside, Same, g
<1>3. CASE ~h.wrk /\ h.closing_timer = 0
  <2> DEFINE quiet == ~h.rdy
  <2>1. g = [h EXCEPT !.closing_timer = Off, !.idle = quiet]
      BY <1>3 DEF Closing, Off
  <2>2. quiet \in BOOLEAN /\ Off \in Timer(DART_CHILL_TIMER_VAL)
      BY TimersAre
  <2> HIDE DEF g, quiet
  <2>3. g \in Handler
      BY <2>1, <2>2 DEF Handler
  <2>4. g.queue = h.queue /\ g.pending_request = h.pending_request /\ g.tell = h.tell
      BY <2>1 DEF Handler
  <2>5. g.say = h.say /\ g.complete = h.complete
      BY <2>1 DEF Handler
  <2>6. g.transfering = h.transfering /\ g.tx_attempts = h.tx_attempts
      BY <2>1 DEF Handler
  <2> QED
      BY <2>3, <2>4, <2>5, <2>6 DEF Aside, Same, g
<1>4. CASE ~h.wrk /\ h.closing_timer = Off /\ h.rdy
  <2>1. g = [h EXCEPT !.wrk = TRUE]
      BY <1>4 DEF Closing, Off
  <2> QED
      BY <2>1, ZenonT(60) DEF Handler, Aside, Same
<1>5. CASE /\ ~(h.wrk /\ h.closing_timer = Off) /\ ~(h.wrk /\ h.closing_timer = 0)
           /\ ~(~h.wrk /\ h.closing_timer = 0)
           /\ ~(~h.wrk /\ h.closing_timer = Off /\ h.rdy)
  <2>1. g = h
      BY <1>5 DEF Closing
  <2> QED
      BY <2>1 DEF Aside, Same
<1> QED
    BY <1>1, <1>2, <1>3, <1>4, <1>5

LEMMA TransferingIs ==
    ASSUME NEW h, NEW s, NEW f \in [Msg -> Fates], Handles(h, s, f, NoMsg),
           Tries(h.transfering, h.tx_attempts)
    PROVE  LET g == Transfering(h)
           IN  Handles(g, s, f, NoMsg) /\ Tries(g.transfering, g.tx_attempts)
<1> DEFINE g == Transfering(h)
<1>1. CASE h.tx_ack_timer # 0
  <2>1. g = h
      BY <1>1 DEF Transfering
  <2> QED
      BY <2>1
<1>2. CASE h.tx_ack_timer = 0 /\ h.rdy
  <2>1. g = dart_retry_transfer(h)
      BY <1>2 DEF Transfering
  <2> QED
      BY <2>1, Retried
<1>3. CASE h.tx_ack_timer = 0 /\ ~h.rdy
  <2>1. g = [h EXCEPT !.tx_ack_timer = Off, !.transfering = NoList]
      BY <1>3 DEF Transfering
  <2>2. h \in Handler
      BY DEF Handles
  <2>3. g \in Handler /\ Same(h, g) /\ g.transfering = NoList
      BY <2>1, <2>2, TimersAre DEF Handler, Same
  <2>4. Transfers(g.queue, g.transfering, g.pending_request) /\ Tries(g.transfering, g.tx_attempts)
      BY <2>3 DEF Transfers, Tries
  <2> QED
      BY <2>3, <2>4, StillHandles
<1> QED
    BY <1>1, <1>2, <1>3

LEMMA HandledTime ==
    ASSUME NEW h, NEW s, NEW f \in [Msg -> Fates], Handles(h, s, f, NoMsg),
           Tries(h.transfering, h.tx_attempts), ~h.complete,
           h.pending_request = station[s].pending_request
    PROVE  LET g == dart_handle_time(h)
           IN  Handles(g, s, f, NoMsg) /\ Tries(g.transfering, g.tx_attempts)
<1> DEFINE x == IF h.pending_request # NoMsg /\ h.tx_response_timer = 0
                THEN dart_abandon_request_msg(h) ELSE h
           g == dart_handle_time(h)
<1>1. Handles(x, s, f, NoMsg) /\ Tries(x.transfering, x.tx_attempts)
    BY Abandoned
<1>2. g = CASE x.transfering # NoList -> Transfering(x)
          [] x.transfering = NoList /\ Sendable(x) # {}
                -> IF x.wakeup_timer = 0
                   THEN [x EXCEPT !.wakeup_timer = Off, !.wrk = FALSE]
                   ELSE dart_trigger_transfer(x)
          [] dart_is_idle(x) -> Closing(x)
          [] OTHER -> x
    BY DEF dart_handle_time
<1> HIDE DEF x
<1>3. x \in Handler /\ Transfers(x.queue, x.transfering, x.pending_request)
    BY <1>1 DEF Handles
<1>4. CASE x.transfering # NoList
  <2>1. g = Transfering(x)
    <3>1. ~dart_is_idle(x)
        BY <1>4 DEF dart_is_idle, dart_is_sending
    <3> QED
        BY <1>2, <1>4, <3>1
  <2> QED
      BY <1>1, <2>1, TransferingIs
<1>5. CASE x.transfering = NoList /\ Sendable(x) # {}
  <2>1. ~dart_is_idle(x)
      BY <1>3, <1>5, SendableIs DEF dart_is_idle, dart_is_sending
  <2>2. CASE x.wakeup_timer = 0
    <3>1. g = [x EXCEPT !.wakeup_timer = Off, !.wrk = FALSE]
        BY <1>2, <1>5, <2>1, <2>2
    <3>2. Aside(x, g)
      <4>1. Off \in Timer(DART_WAKEUP_TIMER_VAL)
          BY TimersAre
      <4> HIDE DEF g
      <4>2. g \in Handler
          BY <1>3, <3>1, <4>1 DEF Handler
      <4> QED
          BY <1>3, <3>1, <4>2 DEF Handler, Aside, Same
    <3> QED
        BY <1>1, <3>2, AsideHandles
  <2>3. CASE x.wakeup_timer # 0
    <3>1. g = dart_trigger_transfer(x)
        BY <1>2, <1>5, <2>1, <2>3
    <3>2. /\ g \in Handler /\ Same(x, g)
          /\ Transfers(g.queue, g.transfering, g.pending_request)
          /\ Tries(g.transfering, g.tx_attempts)
        BY <1>1, <1>3, <3>1, Triggered
    <3> QED
        BY <1>1, <3>2, StillHandles
  <2> QED
      BY <2>2, <2>3
<1>6. CASE x.transfering = NoList /\ Sendable(x) = {} /\ dart_is_idle(x)
  <2>1. g = Closing(x)
      BY <1>2, <1>6
  <2>2. Aside(x, Closing(x))
      BY <1>3, ClosingIs
  <2> QED
      BY <1>1, <2>1, <2>2, AsideHandles
<1>7. CASE x.transfering = NoList /\ Sendable(x) = {} /\ ~dart_is_idle(x)
  <2>1. g = x
      BY <1>2, <1>7
  <2> QED
      BY <1>1, <2>1
<1> QED
    BY <1>4, <1>5, <1>6, <1>7

----------------------------------------------------------------------------
(* The steps of the link.                                                  *)

Around == {"rdy", "say", "out", "tell", "complete", "idle"}
Fields == Around \cup DOMAIN dart_reset

LEMMA CalledIs ==
    ASSUME NEW c \in Station, NEW rdy \in BOOLEAN, NEW say \in Msg \cup {NoMsg}
    PROVE  LET h == Called(c, rdy, say)
           IN  /\ h \in Handler
               /\ h.queue = c.queue /\ h.transfering = c.transfering
               /\ h.pending_request = c.pending_request /\ h.tx_attempts = c.tx_attempts
               /\ h.tx_ack_timer = c.tx_ack_timer
               /\ h.rx_buffer = c.rx_buffer /\ h.rx_byte_timer = c.rx_byte_timer
               /\ h.say = say /\ h.out = <<>> /\ h.tell = <<>> /\ h.complete = FALSE
<1> DEFINE h == Called(c, rdy, say)
           around == [rdy |-> rdy, say |-> say, out |-> <<>>, tell |-> <<>>,
                      complete |-> FALSE, idle |-> FALSE]
<1>1. DOMAIN around = Around
    BY DEF Around
<1>2. h = [f \in DOMAIN around \cup DOMAIN dart_reset |->
                IF f \in DOMAIN around THEN around[f] ELSE c[f]]
    BY DEF Called
<1> HIDE DEF h
<1>3. h = [f \in Fields |-> IF f \in Around THEN around[f] ELSE c[f]]
    BY <1>1, <1>2, Zenon DEF Fields
<1>4. /\ h.rdy = rdy /\ h.say = say /\ h.out = <<>> /\ h.tell = <<>>
      /\ h.complete = FALSE /\ h.idle = FALSE
    BY <1>3 DEF Fields, Around
<1>5. \A f \in DOMAIN dart_reset : h[f] = c[f]
    BY <1>3 DEF Fields, Around, dart_reset
<1>6. /\ h.queue = c.queue /\ h.transfering = c.transfering
      /\ h.pending_request = c.pending_request /\ h.wakeup_attempts = c.wakeup_attempts
      /\ h.tx_attempts = c.tx_attempts /\ h.wakeup_timer = c.wakeup_timer
      /\ h.tx_ack_timer = c.tx_ack_timer /\ h.tx_response_timer = c.tx_response_timer
      /\ h.rx_byte_timer = c.rx_byte_timer /\ h.closing_timer = c.closing_timer
      /\ h.rx_buffer = c.rx_buffer /\ h.wrk = c.wrk
    BY <1>5 DEF dart_reset
<1>7. Fields = {"rdy", "say", "out", "tell", "complete", "idle", "queue", "transfering",
                "pending_request", "wakeup_attempts", "tx_attempts", "wakeup_timer",
                "tx_ack_timer", "tx_response_timer", "rx_byte_timer", "closing_timer",
                "rx_buffer", "wrk"}
    BY DEF Fields, Around, dart_reset
<1>8. h = [f \in Fields |-> h[f]]
    BY <1>3
<1>9. /\ h.out \in Seq(Tokens) /\ h.tell \in Seq(Msg \X Codes)
      /\ h.rdy \in BOOLEAN /\ h.say \in Msg \cup {NoMsg}
      /\ h.complete \in BOOLEAN /\ h.idle \in BOOLEAN
  <2>1. <<>> \in Seq(Tokens) /\ <<>> \in Seq(Msg \X Codes)
      OBVIOUS
  <2>2. h.out \in Seq(Tokens) /\ h.tell \in Seq(Msg \X Codes)
      BY <1>4, <2>1, Zenon
  <2> QED
      BY <1>4, <2>2
<1>10. /\ h.queue \in [Prio -> Seq(Msg)] /\ h.transfering \in Prio \cup {NoList}
       /\ h.pending_request \in Msg \cup {NoMsg}
       /\ h.wakeup_attempts \in 0..DART_WAKEUP_ATTEMPTS /\ h.tx_attempts \in 0..DART_TX_ATTEMPTS
       /\ h.wakeup_timer \in Timer(DART_WAKEUP_TIMER_VAL)
       /\ h.tx_ack_timer \in Timer(DART_ACK_TIMER_VAL)
       /\ h.tx_response_timer \in Timer(DART_RESPONSE_TIMER_VAL)
       /\ h.rx_byte_timer \in Timer(DART_BYTE_TIMER_VAL)
       /\ h.closing_timer \in Timer(DART_CHILL_TIMER_VAL)
       /\ h.rx_buffer \in {"empty", "sync", "broken"} /\ h.wrk \in BOOLEAN
    BY <1>6 DEF Station
<1>11. h \in Handler
    BY <1>7, <1>8, <1>9, <1>10 DEF Handler
<1> QED
    BY <1>4, <1>6, <1>11 DEF h

LEMMA CalledPins ==
    ASSUME NEW c \in Station, NEW rdy \in BOOLEAN, NEW say \in Msg \cup {NoMsg}
    PROVE  LET h == Called(c, rdy, say)
           IN  /\ h.rdy = rdy /\ h.out = <<>> /\ h.idle = FALSE
               /\ h.transfering = c.transfering /\ h.wrk = c.wrk
               /\ h.closing_timer = c.closing_timer /\ h.wakeup_timer = c.wakeup_timer
<1> DEFINE h == Called(c, rdy, say)
           around == [rdy |-> rdy, say |-> say, out |-> <<>>, tell |-> <<>>,
                      complete |-> FALSE, idle |-> FALSE]
<1>1. DOMAIN around = Around
    BY DEF Around
<1>2. h = [f \in DOMAIN around \cup DOMAIN dart_reset |->
                IF f \in DOMAIN around THEN around[f] ELSE c[f]]
    BY DEF Called
<1> HIDE DEF h
<1>3. h = [f \in Fields |-> IF f \in Around THEN around[f] ELSE c[f]]
    BY <1>1, <1>2, Zenon DEF Fields
<1>4. h.rdy = rdy /\ h.out = <<>> /\ h.idle = FALSE
    BY <1>3 DEF Fields, Around
<1>5. \A f \in DOMAIN dart_reset : h[f] = c[f]
    BY <1>3 DEF Fields, Around, dart_reset
<1>6. /\ h.transfering = c.transfering /\ h.wrk = c.wrk
      /\ h.closing_timer = c.closing_timer /\ h.wakeup_timer = c.wakeup_timer
    BY <1>5 DEF dart_reset
<1> QED
    BY <1>4, <1>6 DEF h

LEMMA LeftIs ==
    ASSUME NEW h \in Handler
    PROVE  /\ Left(h) \in Station
           /\ Left(h).queue = h.queue /\ Left(h).transfering = h.transfering
           /\ Left(h).pending_request = h.pending_request
           /\ Left(h).tx_attempts = h.tx_attempts /\ Left(h).tx_ack_timer = h.tx_ack_timer
           /\ Left(h).rx_buffer = h.rx_buffer /\ Left(h).rx_byte_timer = h.rx_byte_timer
           /\ Left(h).wrk = h.wrk
           /\ Left(h).closing_timer = h.closing_timer /\ Left(h).wakeup_timer = h.wakeup_timer
BY DEF Left, Handler, Station, dart_reset

\* A timer a millisecond later.
Less(v) == IF v > 0 THEN v - 1 ELSE v

LEMMA ElapsedIs ==
    ASSUME NEW c \in Station
    PROVE  /\ Elapsed(c) \in Station
           /\ Elapsed(c).queue = c.queue /\ Elapsed(c).transfering = c.transfering
           /\ Elapsed(c).pending_request = c.pending_request
           /\ Elapsed(c).tx_attempts = c.tx_attempts
           /\ Elapsed(c).rx_buffer = c.rx_buffer
           /\ Elapsed(c).tx_ack_timer = Less(c.tx_ack_timer)
           /\ Elapsed(c).rx_byte_timer = Less(c.rx_byte_timer)
           /\ Elapsed(c).closing_timer = Less(c.closing_timer)
           /\ Elapsed(c).wakeup_timer = Less(c.wakeup_timer)
           /\ Elapsed(c).wrk = c.wrk
<1> DEFINE e == Elapsed(c)
<1>1. ASSUME NEW val \in Nat, NEW v \in Timer(val)
      PROVE  Less(v) \in Timer(val)
    BY DEF Timer, Off, Less
<1>2. /\ e.queue = c.queue /\ e.transfering = c.transfering
      /\ e.pending_request = c.pending_request /\ e.wakeup_attempts = c.wakeup_attempts
      /\ e.tx_attempts = c.tx_attempts /\ e.wakeup_timer = Less(c.wakeup_timer)
      /\ e.tx_ack_timer = Less(c.tx_ack_timer) /\ e.tx_response_timer = Less(c.tx_response_timer)
      /\ e.rx_byte_timer = Less(c.rx_byte_timer) /\ e.closing_timer = Less(c.closing_timer)
      /\ e.rx_buffer = c.rx_buffer /\ e.wrk = c.wrk
    BY DEF Elapsed, Station, Less
<1>3. DOMAIN e = {"queue", "transfering", "pending_request", "wakeup_attempts",
                  "tx_attempts", "wakeup_timer", "tx_ack_timer", "tx_response_timer",
                  "rx_byte_timer", "closing_timer", "rx_buffer", "wrk"}
      /\ e = [f \in DOMAIN e |-> e[f]]
    BY DEF Elapsed, Station
<1> HIDE DEF e
<1>4. /\ e.wakeup_timer \in Timer(DART_WAKEUP_TIMER_VAL)
      /\ e.tx_ack_timer \in Timer(DART_ACK_TIMER_VAL)
      /\ e.tx_response_timer \in Timer(DART_RESPONSE_TIMER_VAL)
      /\ e.rx_byte_timer \in Timer(DART_BYTE_TIMER_VAL)
      /\ e.closing_timer \in Timer(DART_CHILL_TIMER_VAL)
    BY <1>1, <1>2, DartAssumption DEF Station
<1>5. /\ e.queue \in [Prio -> Seq(Msg)] /\ e.transfering \in Prio \cup {NoList}
      /\ e.pending_request \in Msg \cup {NoMsg}
      /\ e.wakeup_attempts \in 0..DART_WAKEUP_ATTEMPTS /\ e.tx_attempts \in 0..DART_TX_ATTEMPTS
      /\ e.rx_buffer \in {"empty", "sync", "broken"} /\ e.wrk \in BOOLEAN
    BY <1>2 DEF Station
<1>6. e \in Station
    BY <1>3, <1>4, <1>5 DEF Station
<1> QED
    BY <1>2, <1>6 DEF e

LEMMA OtherIs ==
    ASSUME NEW s \in Node
    PROVE  Other(s) \in Node /\ Other(s) # s
BY DartLinkAssumption DEF Other, Node

LEMMA Begins ==
    ASSUME IInv, NEW s \in Node, NEW at \in Calls(s, Unsent(s) \cup {NoMsg})
    PROVE  /\ Handles(at, s, fate, NoMsg) /\ Tries(at.transfering, at.tx_attempts)
           /\ ~at.complete
           /\ Learnt(fate, at.tell) = fate /\ NoneTaken(at.tell)
           /\ at.pending_request = station[s].pending_request
<1> DEFINE c == station[s]
           rdy == station[Other(s)].wrk
<1>1. /\ c \in Station /\ rdy \in BOOLEAN /\ fate \in [Msg -> Fates]
    BY OtherIs DEF IInv, TypeOK, Station, Fates
<1>2. Keeps(c, s)
    BY DEF IInv
<1>3. PICK say \in Unsent(s) \cup {NoMsg} : at = Called(c, rdy, say)
    BY DEF Calls
<1>4. say \in Msg \cup {NoMsg} /\ (say # NoMsg => say.from = s /\ fate[say] = "new")
    BY DEF Unsent
<1> HIDE DEF c, rdy
<1>5. /\ at \in Handler
      /\ at.queue = c.queue /\ at.transfering = c.transfering
      /\ at.pending_request = c.pending_request /\ at.tx_attempts = c.tx_attempts
      /\ at.say = say /\ at.tell = <<>> /\ at.complete = FALSE
    BY <1>1, <1>3, <1>4, CalledIs
<1>6. Learnt(fate, at.tell) = fate
    BY <1>1, <1>5, LearntNothing
<1>7. Taken(at.tell) = {} /\ Few({})
    BY <1>5 DEF Taken, Few
<1>8. \A r : Learns(r, fate, fate, {})
    BY DEF Learns
<1> QED
    BY <1>2, <1>4, <1>5, <1>6, <1>7, <1>8 DEF Keeps, Handles, NoneTaken, c

LEMMA BeginsAlone ==
    ASSUME IInv, NEW s \in Node, NEW at \in Calls(s, {NoMsg})
    PROVE  at \in Calls(s, Unsent(s) \cup {NoMsg}) /\ at.say = NoMsg
<1> DEFINE c == station[s]
           rdy == station[Other(s)].wrk
<1>1. c \in Station /\ rdy \in BOOLEAN
    BY OtherIs DEF IInv, TypeOK, Station
<1>2. at = Called(c, rdy, NoMsg)
    BY DEF Calls
<1> HIDE DEF c, rdy
<1>3. at.say = NoMsg
  <2>1. NoMsg \in Msg \cup {NoMsg}
      OBVIOUS
  <2> QED
      BY <1>1, <1>2, <2>1, CalledIs
<1> QED
    BY <1>3 DEF Calls

LEMMA Ends ==
    ASSUME IInv, NEW s \in Node, NEW h,
           Handles(h, s, fate, NoMsg), Tries(h.transfering, h.tx_attempts),
           Leave(s, h), line' \in [Node -> Seq(Tokens)]
    PROVE  IInv' /\ Moves
<1>1. h \in Handler /\ h.tell \in Seq(Msg \X Codes)
    BY DEF Handles, Handler
<1>2. /\ Left(h) \in Station
      /\ Left(h).queue = h.queue /\ Left(h).transfering = h.transfering
      /\ Left(h).pending_request = h.pending_request
      /\ Left(h).tx_attempts = h.tx_attempts
    BY <1>1, LeftIs
<1>3. /\ station' \in [Node -> Station] /\ station'[s] = Left(h)
      /\ \A t \in Node : t # s => station'[t] = station[t]
    BY <1>2 DEF Leave, IInv, TypeOK
<1>4. awake' \in [Node -> {"yes", "drowsy", "no"}] /\ faults' \in 0..MaxFaults
  <2>1. faults' = faults \/ (faults < MaxFaults /\ faults' = faults + 1)
      BY DEF Leave
  <2>2. faults' \in 0..MaxFaults
      BY <2>1, DartLinkAssumption DEF IInv, TypeOK
  <2>3. awake \in [Node -> {"yes", "drowsy", "no"}]
      BY DEF IInv, TypeOK
  <2> DEFINE own == IF h.wrk THEN "yes" ELSE IF h.idle THEN "drowsy" ELSE awake[s]
  <2>4. own \in {"yes", "drowsy", "no"}
      BY <2>3
  <2>5. \/ \E edge \in BOOLEAN : awake' = [awake EXCEPT ![s] = own, ![Other(s)] = IF edge THEN "yes" ELSE @]
        \/ awake' = [awake EXCEPT ![s] = own]
      BY DEF Leave
  <2> HIDE DEF own
  <2>6. awake' \in [Node -> {"yes", "drowsy", "no"}]
      BY <2>3, <2>4, <2>5
  <2> QED
      BY <2>2, <2>6
<1>5. fate \in [Msg -> Fates] /\ fate' = Learnt(fate, h.tell)
    BY DEF Leave, IInv, TypeOK, Fates
<1>6. /\ fate' \in [Msg -> Fates]
      /\ \A m \in Msg : \/ fate'[m] = fate[m]
                        \/ \E i \in DOMAIN h.tell : h.tell[i] = <<m, fate'[m]>>
    BY <1>1, <1>5, LearntIs
<1>7. \A m \in Msg : m.from # s => fate'[m] = fate[m]
    BY <1>5 DEF Handles
<1>8. TypeOK'
    BY <1>3, <1>4, <1>6 DEF TypeOK, Fates
<1>9. /\ \A t \in Node : t # s /\ t \in complete' => t \in complete
      /\ s \in complete' => h.complete \/ (s \in complete /\ Told(h, "accepted") = {})
    BY DEF Leave
<1>10. ASSUME s \in complete'
       PROVE  Empty(h.queue, h.pending_request)
  <2>1. CASE h.complete
      BY <2>1 DEF Handles
  <2>2. CASE s \in complete /\ Told(h, "accepted") = {}
    <3>1. ASSUME NEW m \in Msg, Held(h.queue, h.pending_request, m)
          PROVE  FALSE
      <4>1. m.from = s /\ fate'[m] = "accepted"
          BY <1>5, <3>1, Assumptions DEF Handles, Knows
      <4>2. ~\E i \in DOMAIN h.tell : h.tell[i] = <<m, "accepted">>
        <5> SUFFICES ASSUME NEW i \in DOMAIN h.tell, h.tell[i] = <<m, "accepted">>
                     PROVE  FALSE
            OBVIOUS
        <5>1. h.tell[i][1] = m /\ h.tell[i][2] = "accepted"
            OBVIOUS
        <5>2. m \in Told(h, "accepted")
            BY <5>1 DEF Told
        <5> QED
            BY <2>2, <5>2
      <4>3. fate[m] = "accepted"
          BY <1>6, <4>1, <4>2
      <4>4. Held(station[s].queue, station[s].pending_request, m)
          BY <4>1, <4>3 DEF IInv, Keeps, Knows
      <4> QED
          BY <2>2, <4>4 DEF IInv, Keeps, Empty
    <3> QED
        BY <3>1 DEF Empty
  <2> QED
      BY <1>9, <1>10, <2>1, <2>2
<1> DEFINE A == Taken(h.tell)
           r == station[s].pending_request
<1>11. Few(A) /\ Learns(r, fate, fate', A) /\ Lines(h.queue, sent, A)
    BY <1>5 DEF Handles
<1>12. sent' = sent \o SetToSeq(A)
  <2>1. A = Told(h, "accepted")
      BY DEF Taken, Told
  <2> QED
      BY <2>1 DEF Leave
<1>13. sent \in Seq(Msg) /\ Lists(sent, fate)
    BY DEF IInv, Lists
<1> HIDE DEF A, r
<1>14. /\ sent' = sent \/ \E m \in Msg : sent' = Append(sent, m)
       /\ Lists(sent', fate')
       /\ \A x, y : Earlier(sent, x, y) => Earlier(sent', x, y)
       /\ \A x \in Msg : \A y \in A : fate[x] # "new" => Earlier(sent', x, y)
  <2>1. CASE A = {} /\ SetToSeq(A) = <<>>
    <3>1. sent' = sent
        BY <1>12, <1>13, <2>1, ConcatEmptySeq
    <3>2. \A m \in Msg : fate'[m] # "new" <=> fate[m] # "new"
        BY <1>11, <2>1 DEF Learns
    <3> QED
        BY <1>13, <2>1, <3>1, <3>2 DEF Lists
  <2>2. ASSUME NEW m \in Msg, A = {m}, SetToSeq(A) = <<m>>
        PROVE  /\ sent' = Append(sent, m)
               /\ Lists(sent', fate')
               /\ \A x, y : Earlier(sent, x, y) => Earlier(sent', x, y)
               /\ \A x \in Msg : \A y \in A : fate[x] # "new" => Earlier(sent', x, y)
    <3>1. sent' = Append(sent, m)
        BY <1>12, <1>13, <2>2, AppendIsConcat
    <3>2. /\ fate[m] = "new"
          /\ \A n \in Msg : fate'[n] # "new" <=> fate[n] # "new" \/ n = m
        BY <1>11, <2>2 DEF Learns
    <3> QED
        BY <1>13, <2>2, <3>1, <3>2, ListsMore
  <2> QED
      BY <1>11, <2>1, <2>2, SeqOfFew
<1>15. Moves
  <2>1. \A m \in Msg : /\ fate[m] \in Outcomes => fate'[m] = fate[m]
                       /\ fate'[m] = "abandoned" => fate[m] = "abandoned" \/ m = r
      BY <1>11 DEF Learns
  <2> QED
      BY <1>14, <2>1 DEF Moves, r
<1>16. Lines(h.queue, sent', {})
  <2> DEFINE q == h.queue
  <2>1. \A p \in Prio : \A i \in 1..Len(q[p]) : q[p][i] \in Msg /\ q[p][i].prio = p
    <3>1. q \in [Prio -> Seq(Msg)]
        BY <1>1 DEF Handler
    <3> QED
        BY <1>11, <3>1, ElementOfSeq DEF Lines
  <2>2. ASSUME NEW p \in Prio, NEW i \in 1..Len(q[p]), NEW j \in 1..Len(q[p]), i < j
        PROVE  Earlier(sent', q[p][i], q[p][j])
    <3>1. \/ Earlier(sent, q[p][i], q[p][j])
          \/ q[p][j] \in A /\ q[p][i] \notin A
        BY <1>11, <2>2 DEF Lines
    <3>2. q[p][i] \in Msg /\ Held(q, h.pending_request, q[p][i])
        BY <2>1, HeldIsIn
    <3>3. q[p][i] \notin A => fate[q[p][i]] # "new"
      <4>1. fate'[q[p][i]] = "accepted"
          BY <1>5, <3>2, Assumptions DEF Handles, Knows
      <4> QED
          BY <1>11, <3>2, <4>1 DEF Learns
    <3> QED
        BY <1>14, <3>1, <3>2, <3>3
  <2> QED
      BY <2>1, <2>2 DEF Lines
<1>17. (Keeps(station[s], s))'
  <2>1. Knows(h.queue, h.pending_request, s, fate', NoMsg)
      BY <1>5 DEF Handles
  <2>2. Transfers(h.queue, h.transfering, h.pending_request) /\ Once(h.queue, h.pending_request)
      BY DEF Handles
  <2> QED
      BY <1>2, <1>3, <1>10, <1>16, <2>1, <2>2 DEF Keeps
<1>18. ASSUME NEW t \in Node, t # s
       PROVE  (Keeps(station[t], t))'
  <2>1. Keeps(station[t], t) /\ station'[t] = station[t]
      BY <1>3, <1>18 DEF IInv
  <2>2. \A m \in Msg : m.from = t => fate'[m] = fate[m]
      BY <1>7, <1>18
  <2>3. t \in complete' => t \in complete
      BY <1>9, <1>18
  <2>4. Knows(station[t].queue, station[t].pending_request, t, fate', NoMsg)
      BY <2>1, <2>2 DEF Keeps, Knows
  <2>5. Lines(station[t].queue, sent', {})
      BY <1>14, <2>1 DEF Keeps, Lines
  <2> QED
      BY <2>1, <2>3, <2>4, <2>5 DEF Keeps
<1> QED
    BY <1>8, <1>14, <1>15, <1>17, <1>18 DEF IInv

LEMMA Initially ==
    Init => IInv
<1> SUFFICES ASSUME Init
             PROVE  IInv
    OBVIOUS
<1>1. /\ 0 \in 0..DART_WAKEUP_ATTEMPTS /\ 0 \in 0..DART_TX_ATTEMPTS /\ 0 \in 0..MaxFaults
    BY Assumptions, DartLinkAssumption
<1>2. [p \in Prio |-> <<>>] \in [Prio -> Seq(Msg)]
    OBVIOUS
<1>3. dart_reset \in Station
    BY <1>1, <1>2, TimersAre DEF dart_reset, Station
<1>4. [s \in Node |-> <<>>] \in [Node -> Seq(Tokens)]
    OBVIOUS
<1>5. TypeOK
  <2>1. station \in [Node -> Station]
      BY <1>3 DEF Init
  <2>2. line \in [Node -> Seq(Tokens)]
      BY <1>4 DEF Init
  <2>3. awake \in [Node -> {"yes", "drowsy", "no"}] /\ faults \in 0..MaxFaults
      BY <1>1 DEF Init
  <2>4. fate \in [Msg -> {"new", "accepted"} \cup Outcomes]
      BY DEF Init
  <2> QED
      BY <2>1, <2>2, <2>3, <2>4 DEF TypeOK
<1>6. ASSUME NEW s \in Node
      PROVE  Keeps(station[s], s)
  <2> DEFINE c == station[s]
  <2>1. /\ c.queue = [p \in Prio |-> <<>>] /\ c.pending_request = NoMsg
        /\ c.transfering = NoList
      BY DEF Init, dart_reset
  <2>2. \A m \in Msg : fate[m] = "new"
      BY DEF Init
  <2>3. complete = {}
      BY DEF Init
  <2> HIDE DEF c
  <2>4. \A p \in Prio : Len(c.queue[p]) = 0
      BY <2>1
  <2>5. Empty(c.queue, c.pending_request)
      BY <2>1, <2>4, Assumptions DEF Empty, Held
  <2>6. Once(c.queue, c.pending_request)
      BY <2>1, <2>4 DEF Once
  <2>7. Knows(c.queue, c.pending_request, s, fate, NoMsg)
      BY <2>2, <2>5 DEF Knows, Empty
  <2>8. Lines(c.queue, sent, {})
      BY <2>4 DEF Lines
  <2>9. Keeps(c, s)
      BY <2>1, <2>5, <2>6, <2>7, <2>8 DEF Keeps, Transfers, Tries
  <2> QED
      BY <2>9 DEF c
<1>7. Lists(sent, fate)
  <2>1. sent = <<>> /\ \A m \in Msg : fate[m] = "new"
      BY DEF Init
  <2> QED
      BY <2>1 DEF Lists
<1> QED
    BY <1>5, <1>6, <1>7 DEF IInv

LEMMA LinesCarry ==
    ASSUME line \in [Node -> Seq(Tokens)], NEW s \in Node
    PROVE  /\ line[s] # <<>> => Head(line[s]) \in Tokens /\ Tail(line[s]) \in Seq(Tokens)
           /\ line[s] # <<>> => [line EXCEPT ![s] = Tail(@)] \in [Node -> Seq(Tokens)]
           /\ \A out \in Seq(Tokens) :
                /\ [line EXCEPT ![Other(s)] = @ \o out] \in [Node -> Seq(Tokens)]
                /\ line[s] # <<>> =>
                    [line EXCEPT ![s] = Tail(@), ![Other(s)] = @ \o out] \in [Node -> Seq(Tokens)]
<1>1. line[s] # <<>> => Head(line[s]) \in Tokens /\ Tail(line[s]) \in Seq(Tokens)
    BY HeadTailProperties
<1>2. \A out \in Seq(Tokens) : line[Other(s)] \o out \in Seq(Tokens)
    BY OtherIs, ConcatProperties
<1> QED
    BY <1>1, <1>2, OtherIs

\* Nothing changes that the stations hold.
LEMMA HeldStays ==
    ASSUME IInv, UNCHANGED <<station, heard>>,
           line' \in [Node -> Seq(Tokens)],
           awake' \in [Node -> {"yes", "drowsy", "no"}], faults' \in 0..MaxFaults
    PROVE  IInv' /\ Moves
<1>1. UNCHANGED <<station, fate, complete, sent>>
    BY DEF heard
<1>2. TypeOK'
    BY <1>1 DEF IInv, TypeOK
<1>3. ASSUME NEW s \in Node
      PROVE  (Keeps(station[s], s))'
    BY <1>1 DEF IInv, Keeps
<1>4. Lists(sent, fate)'
    BY <1>1 DEF IInv
<1>5. Moves
    BY <1>1 DEF Moves
<1> QED
    BY <1>2, <1>3, <1>4, <1>5 DEF IInv

LEMMA StepKeeps ==
    IInv /\ [Next]_vars => IInv' /\ Moves
<1> SUFFICES ASSUME IInv, [Next]_vars
             PROVE  IInv' /\ Moves
    OBVIOUS
<1>0. /\ line \in [Node -> Seq(Tokens)] /\ awake \in [Node -> {"yes", "drowsy", "no"}]
      /\ faults \in 0..MaxFaults /\ station \in [Node -> Station]
      /\ fate \in [Msg -> Fates]
    BY DEF IInv, TypeOK, Fates
<1>1. ASSUME NEW s \in Node, NEW m \in Msg, SendMsg(s, m)
      PROVE  IInv' /\ Moves
  <2>1. PICK at \in Calls(s, {NoMsg}) :
            /\ Leave(s, dart_send_msg(at, m))
            /\ line' = [line EXCEPT ![Other(s)] = @ \o dart_send_msg(at, m).out]
      BY <1>1 DEF SendMsg
  <2>2. m.from = s /\ fate[m] = "new"
      BY <1>1 DEF SendMsg, Unsent
  <2>3. at \in Calls(s, Unsent(s) \cup {NoMsg}) /\ at.say = NoMsg
      BY <2>1, BeginsAlone
  <2>4. /\ Handles(at, s, fate, NoMsg) /\ Tries(at.transfering, at.tx_attempts)
        /\ ~at.complete /\ Learnt(fate, at.tell) = fate /\ NoneTaken(at.tell)
      BY <2>3, Begins
  <2>5. Learnt(fate, at.tell)[m] = "new"
      BY <2>2, <2>4
  <2> DEFINE h == dart_send_msg(at, m)
  <2>6. Handles(h, s, fate, NoMsg) /\ Tries(h.transfering, h.tx_attempts)
      BY <1>0, <2>2, <2>3, <2>4, <2>5, AcceptedMsg
  <2>7. line' \in [Node -> Seq(Tokens)]
    <3>1. h.out \in Seq(Tokens)
        BY <2>6 DEF Handles, Handler
    <3> QED
        BY <1>0, <2>1, <3>1, LinesCarry
  <2> QED
      BY <2>1, <2>6, <2>7, Ends
<1>2. ASSUME NEW s \in Node, Wake(s) \/ Sleep(s)
      PROVE  IInv' /\ Moves
    BY <1>0, <1>2, HeldStays DEF Wake, Sleep, heard
<1>3. ASSUME NEW s \in Node, NEW outcome \in Outcome,
             Receive(s, Unsent(s) \cup {NoMsg}, outcome)
      PROVE  IInv' /\ Moves
  <2>1. line[s] # <<>>
      BY <1>3 DEF Receive
  <2>2. ASSUME NEW at \in Calls(s, Unsent(s) \cup {NoMsg}),
               Leave(s, dart_handle_received_char(at, Head(line[s]), outcome)),
               line' = [line EXCEPT ![s] = Tail(@),
                                    ![Other(s)] = @ \o dart_handle_received_char(
                                                at, Head(line[s]), outcome).out]
        PROVE  IInv' /\ Moves
    <3> DEFINE h == dart_handle_received_char(at, Head(line[s]), outcome)
    <3>1. Head(line[s]) \in Tokens
        BY <1>0, <2>1, LinesCarry
    <3>2. /\ Handles(at, s, fate, NoMsg) /\ Tries(at.transfering, at.tx_attempts)
          /\ ~at.complete
        BY Begins
    <3>3. Handles(h, s, fate, NoMsg) /\ Tries(h.transfering, h.tx_attempts)
        BY <1>0, <3>1, <3>2, ReceivedChar
    <3>4. line' \in [Node -> Seq(Tokens)]
      <4>1. h.out \in Seq(Tokens)
          BY <3>3 DEF Handles, Handler
      <4> QED
          BY <1>0, <2>1, <2>2, <4>1, LinesCarry
    <3> QED
        BY <2>2, <3>3, <3>4, Ends
  <2>3. ASSUME line' = [line EXCEPT ![s] = Tail(@)],
               UNCHANGED <<station, awake, faults, heard>>
        PROVE  IInv' /\ Moves
    <3>1. line' \in [Node -> Seq(Tokens)]
        BY <1>0, <2>1, <2>3, LinesCarry
    <3> QED
        BY <1>0, <2>3, <3>1, HeldStays
  <2> QED
      BY <1>3, <2>2, <2>3 DEF Receive
<1>4. ASSUME NEW s \in Node, HandleTime(s, Unsent(s) \cup {NoMsg})
      PROVE  IInv' /\ Moves
  <2>1. PICK at \in Calls(s, Unsent(s) \cup {NoMsg}) :
            /\ Leave(s, dart_handle_time(at))
            /\ line' = [line EXCEPT ![Other(s)] = @ \o dart_handle_time(at).out]
      BY <1>4 DEF HandleTime
  <2> DEFINE h == dart_handle_time(at)
  <2>2. /\ Handles(at, s, fate, NoMsg) /\ Tries(at.transfering, at.tx_attempts)
        /\ ~at.complete /\ at.pending_request = station[s].pending_request
      BY Begins
  <2>3. Handles(h, s, fate, NoMsg) /\ Tries(h.transfering, h.tx_attempts)
      BY <1>0, <2>2, HandledTime
  <2>4. line' \in [Node -> Seq(Tokens)]
    <3>1. h.out \in Seq(Tokens)
        BY <2>3 DEF Handles, Handler
    <3> QED
        BY <1>0, <2>1, <3>1, LinesCarry
  <2> QED
      BY <2>1, <2>3, <2>4, Ends
<1>5. ASSUME NEW s \in Node, Lose(s)
      PROVE  IInv' /\ Moves
  <2>1. line' \in [Node -> Seq(Tokens)]
      BY <1>0, <1>5, LinesCarry DEF Lose
  <2>2. faults' \in 0..MaxFaults
      BY <1>0, <1>5, DartLinkAssumption DEF Lose
  <2> QED
      BY <1>0, <1>5, <2>1, <2>2, HeldStays DEF Lose, heard
<1>6. ASSUME NEW s \in Node, Damage(s)
      PROVE  IInv' /\ Moves
  <2>1. line' \in [Node -> Seq(Tokens)]
    <3>1. line[s] \in Seq(Tokens) /\ 1 \in 1..Len(line[s])
        BY <1>0, <1>6, EmptySeq, LenProperties DEF Damage
    <3>2. [line[s] EXCEPT ![1] = Token("noise", NoMsg)] \in Seq(Tokens)
        BY <3>1, TokensAre, ExceptSeq
    <3> QED
        BY <1>0, <1>6, <3>2 DEF Damage
  <2>2. faults' \in 0..MaxFaults
      BY <1>0, <1>6, DartLinkAssumption DEF Damage
  <2> QED
      BY <1>0, <1>6, <2>1, <2>2, HeldStays DEF Damage, heard
<1>7. ASSUME Tick
      PROVE  IInv' /\ Moves
  <2>1. ASSUME NEW s \in Node
        PROVE  /\ station'[s] = Elapsed(station[s]) /\ station'[s] \in Station
               /\ station'[s].queue = station[s].queue
               /\ station'[s].transfering = station[s].transfering
               /\ station'[s].pending_request = station[s].pending_request
               /\ station'[s].tx_attempts = station[s].tx_attempts
    <3>1. station'[s] = Elapsed(station[s]) /\ station[s] \in Station
        BY <1>0, <1>7 DEF Tick
    <3> QED
        BY <3>1, ElapsedIs
  <2>2. UNCHANGED <<line, awake, faults, fate, complete, sent>>
      BY <1>7 DEF Tick, heard
  <2>3. station' \in [Node -> Station]
      BY <1>7, <2>1 DEF Tick
  <2>4. TypeOK'
      BY <2>2, <2>3 DEF IInv, TypeOK
  <2>5. ASSUME NEW s \in Node
        PROVE  (Keeps(station[s], s))'
      BY <2>1, <2>2 DEF IInv, Keeps
  <2>6. Lists(sent, fate)' /\ Moves
      BY <2>2 DEF IInv, Moves
  <2> QED
      BY <2>4, <2>5, <2>6 DEF IInv
<1>8. CASE UNCHANGED vars
    BY <1>0, <1>8, HeldStays DEF vars, heard
<1> QED
    BY <1>1, <1>2, <1>3, <1>4, <1>5, <1>6, <1>7, <1>8 DEF Next, Works

----------------------------------------------------------------------------
(* The theorems.                                                           *)

\* The inductive invariant holds: between two calls a station transfers a list
\* that is not empty and begins with a request only while no other one is pending,
\* has attempts left for it, and holds exactly the messages that dart_send_msg
\* took and no callback has reported on, each in one place.
THEOREM IInvHolds ==
    Spec => []IInv
<1> QED
    BY Initially, StepKeeps, PTL DEF Spec

\* The fields of both stations, the lines and what is known of each message hold
\* values of their types in every reachable state: no counter of dart.c passes
\* the number of its attempts, no timer its interval.
THEOREM TypeIsCorrect ==
    Spec => []TypeOK
<1>1. IInv => TypeOK
    BY DEF IInv
<1> QED
    BY <1>1, IInvHolds, PTL

\* A message gets one outcome: no callback reports done, failed or abandoned for a
\* message that had one of them before, whatever late answers and retries do.
THEOREM OutcomeIsFinal ==
    Spec => [][\A m \in Msg : fate[m] \in Outcomes => fate'[m] = fate[m]]_vars
<1> DEFINE Final == \A m \in Msg : fate[m] \in Outcomes => fate'[m] = fate[m]
<1>1. IInv /\ [Next]_vars => [Final]_vars
    BY StepKeeps DEF Moves
<1> HIDE DEF Final
<1>2. Spec => [][Final]_vars
    BY <1>1, IInvHolds, PTL DEF Spec
<1> QED
    BY <1>2 DEF Final

LEMMA PlacesAre ==
    ASSUME IInv, NEW m \in Msg
    PROVE  Cardinality(Places(m.from, m)) <= 1
<1> DEFINE c == station[m.from]
<1>1. m.from \in Node /\ m # NoMsg
    BY Assumptions
<1>2. c \in Station /\ Once(c.queue, c.pending_request)
    BY <1>1 DEF IInv, TypeOK, Keeps
<1>3. \A p \in Prio : Len(c.queue[p]) \in Nat
    BY <1>2, LenProperties DEF Station
<1> DEFINE listed == {p \in Prio \X (1..Cardinality(Msg)) :
                        /\ p[2] <= Len(c.queue[p[1]])
                        /\ c.queue[p[1]][p[2]] = m}
<1>4. Places(m.from, m) = listed \cup (IF c.pending_request = m THEN {"pending"} ELSE {})
    BY DEF Places
<1>5. \A a \in listed : /\ a = <<a[1], a[2]>> /\ a[1] \in Prio
                        /\ a[2] \in 1..Len(c.queue[a[1]]) /\ c.queue[a[1]][a[2]] = m
    BY <1>3
<1>6. \A a, b \in listed : a = b
  <2> SUFFICES ASSUME NEW a \in listed, NEW b \in listed
               PROVE  a = b
      OBVIOUS
  <2> HIDE DEF listed, c
  <2>1. a[1] = b[1] /\ a[2] = b[2]
      BY <1>2, <1>5 DEF Once
  <2> QED
      BY <1>5, <2>1
<1>7. c.pending_request = m => listed = {}
    BY <1>1, <1>2, <1>5 DEF Once
<1> HIDE DEF listed, c
<1>8. \E x : Places(m.from, m) \subseteq {x}
  <2>1. CASE c.pending_request = m
      BY <1>4, <1>7, <2>1
  <2>2. CASE c.pending_request # m /\ listed # {}
      BY <1>4, <1>6, <2>2
  <2>3. CASE c.pending_request # m /\ listed = {}
      BY <1>4, <2>3
  <2> QED
      BY <2>1, <2>2, <2>3
<1>9. PICK x : Places(m.from, m) \subseteq {x}
    BY <1>8
<1>10. Places(m.from, m) = {} \/ Places(m.from, m) = {x}
    BY <1>9
<1>11. Cardinality({}) = 0 /\ Cardinality({x}) = 1
    BY FS_EmptySet, FS_Singleton
<1> QED
    BY <1>10, <1>11

\* Each message has one owner: whatever is lost, damaged, late or sent from a
\* callback, it is held by its station, in one place, from the call of
\* dart_send_msg to the report of its outcome, and only then.
THEOREM OneOwnerHolds ==
    Spec => []OneOwner
<1>1. IInv => OneOwner
  <2> SUFFICES ASSUME IInv
               PROVE  OneOwner
      OBVIOUS
  <2>1. ASSUME NEW s \in Node, NEW m \in Msg
        PROVE  dart_is_msg_pending(station[s], m)
                <=> Held(station[s].queue, station[s].pending_request, m)
      BY DEF dart_is_msg_pending, Contains, Held
  <2>2. ASSUME NEW s \in Node, NEW m \in Msg
        PROVE  Held(station[s].queue, station[s].pending_request, m)
                <=> m.from = s /\ fate[m] = "accepted"
      BY Assumptions DEF IInv, Keeps, Knows
  <2>3. ASSUME NEW m \in Msg
        PROVE  /\ dart_is_msg_pending(station[m.from], m) <=> fate[m] = "accepted"
               /\ Cardinality(Places(m.from, m)) <= 1
               /\ fate[m] = "accepted" => m.from \notin complete
    <3>1. m.from \in Node
        BY Assumptions
    <3>2. fate[m] = "accepted" => m.from \notin complete
        BY <2>2, <3>1 DEF IInv, Keeps, Empty
    <3> QED
        BY <2>1, <2>2, <3>1, <3>2, PlacesAre
  <2>4. ASSUME NEW s \in Node, dart_get_current_msgtype(station[s]) # NoMsg
        PROVE  LET m == dart_get_current_msgtype(station[s])
               IN  m.from = s /\ fate[m] = "accepted"
    <3> DEFINE c == station[s]
               m == dart_get_current_msgtype(c)
    <3>1. /\ c.queue \in [Prio -> Seq(Msg)] /\ c.transfering \in Prio \cup {NoList}
          /\ c.pending_request \in Msg \cup {NoMsg}
          /\ Transfers(c.queue, c.transfering, c.pending_request)
        BY DEF IInv, TypeOK, Keeps, Station
    <3>2. m \in Msg /\ Held(c.queue, c.pending_request, m)
      <4>1. CASE c.transfering = NoList
          BY <2>4, <3>1, <4>1 DEF dart_get_current_msgtype, Held
      <4>2. CASE c.transfering # NoList
        <5>1. c.transfering \in Prio /\ m = Head(c.queue[c.transfering])
            BY <3>1, <4>2 DEF dart_get_current_msgtype, Current
        <5>2. c.queue[c.transfering] \in Seq(Msg) /\ c.queue[c.transfering] # <<>>
            BY <3>1, <4>2, <5>1 DEF Transfers
        <5>3. m = c.queue[c.transfering][1] /\ m \in Msg /\ 1 \in 1..Len(c.queue[c.transfering])
            BY <5>1, <5>2, HeadTailProperties, LenProperties
        <5> QED
            BY <5>1, <5>3, HeldIsIn
      <4> QED
          BY <4>1, <4>2
    <3> QED
        BY <2>2, <3>2
  <2> QED
      BY <2>3, <2>4 DEF OneOwner
<1> QED
    BY <1>1, IInvHolds, PTL

----------------------------------------------------------------------------
(* What a transfer that is reported done relies on.                        *)
(*                                                                         *)
(* An acknowledge byte does not say what it acknowledges.  It is that of   *)
(* the message that is transferred because the two stations take turns: no *)
(* frame is sent while an answer to the one before can still come.         *)

\* Twice 30 ms are at most 300 ms.  A receiver drops a frame that broke off
\* before the sender repeats it, even when another byte came in between.
AnswersInTime == 2 * DART_BYTE_TIMER_VAL <= DART_ACK_TIMER_VAL

Answers == {"ACK", "BAD"}

\* There is a token of the kinds K among seq, and there is no second one.
Carries(seq, K) == \E i \in 1..Len(seq) : seq[i].k \in K
Single(seq, K) == \A i, j \in 1..Len(seq) : seq[i].k \in K /\ seq[j].k \in K => i = j

\* The bodies among seq, or those after a synchronisation byte, are message m.
Bodies(seq, m) == \A i \in 1..Len(seq) : seq[i].k = "body" => seq[i].msg = m
Framed(seq, m) ==
    \A i, j \in 1..Len(seq) :
        i < j /\ seq[i].k = "SYNC" /\ seq[j].k = "body" => seq[j].msg = m

\* Station c is in a frame, and the next byte will not find it too old.
Hears(c) == c.rx_buffer # "empty" /\ c.rx_byte_timer # 0

\* Station c transfers a message, and waits for its answer for some time.
Sends(c, time) == c.transfering # NoList /\ c.tx_ack_timer >= time

(***************************************************************************)
(* The turns of a transfer from station c to station d; fwd are the tokens *)
(* on their way to d, back those on their way to c, R the messages that    *)
(* were received.                                                          *)
(***************************************************************************)

\* No frame is under way, and no answer.
Rests(d, fwd, back) ==
    ~Carries(fwd, {"SYNC"}) /\ ~Hears(d) /\ ~Carries(back, Answers)

\* A frame is on the line.
Begun(c, d, fwd, back) ==
    /\ Carries(fwd, {"SYNC"}) /\ Single(fwd, {"SYNC"})
    /\ ~Hears(d) /\ ~Carries(back, Answers)
    /\ Sends(c, DART_ACK_TIMER_VAL)
    /\ Framed(fwd, Current(c))

\* The receiver has seen the beginning of the frame.  A frame that broke off is
\* taken up by one that c sends in the other direction, at most once: then it is
\* d which began a transfer when the timer of the receiver was started anew.
Heard(c, d, fwd, back) ==
    LET time == d.rx_byte_timer + DART_ACK_TIMER_VAL - DART_BYTE_TIMER_VAL
    IN  /\ Hears(d) /\ d.rx_byte_timer # Off
        /\ ~Carries(fwd, {"SYNC"}) /\ ~Carries(back, Answers)
        /\ d.rx_buffer = "sync" => Bodies(fwd, Current(c))
        /\ Sends(c, time - DART_BYTE_TIMER_VAL + 1)
        /\ Sends(c, time) \/ (d.transfering # NoList /\ d.tx_ack_timer = time)
        /\ fwd # <<>> => Sends(c, DART_ACK_TIMER_VAL) \/ Sends(d, DART_ACK_TIMER_VAL)

\* The answer is on the line.
Answered(c, d, fwd, back, R) ==
    /\ Carries(back, Answers) /\ Single(back, Answers)
    /\ ~Carries(fwd, {"SYNC"}) /\ ~Hears(d)
    /\ Sends(c, 1)
    /\ Carries(back, {"ACK"}) => Current(c) \in R

Turn(c, d, fwd, back, R) ==
    \/ Rests(d, fwd, back)
    \/ Begun(c, d, fwd, back)
    \/ Heard(c, d, fwd, back)
    \/ Answered(c, d, fwd, back, R)

\* A request that waits for its response has been received.
Reached(s) ==
    station[s].pending_request # NoMsg => station[s].pending_request \in Range(got)

TurnsKept ==
    /\ got \in Seq(Msg)
    /\ \A s \in Node :
        /\ Turn(station[s], station[Other(s)], line[Other(s)], line[s], Range(got))
        /\ Reached(s)
    /\ DoneMeansReceived

\* The message that arrives in a step is the one that its sender transfers.
Arrives ==
    \/ got' = got
    \/ \E s \in Node :
        LET m == Current(station[s])
        IN  station[s].transfering # NoList /\ m \notin Range(got) /\ got' = Append(got, m)

----------------------------------------------------------------------------
(* What the functions of a station do to its transfer.                     *)

Rx(h, g) == g.rx_buffer = h.rx_buffer /\ g.rx_byte_timer = h.rx_byte_timer

\* The step from h to g leaves the transfer as it is, starts one, ends one.
Goes(h, g) ==
    /\ g.out = h.out
    /\ g.transfering = h.transfering /\ g.tx_ack_timer = h.tx_ack_timer
    /\ h.transfering # NoList => Current(g) = Current(h)

Frame(m) == <<Token("SYNC", NoMsg), Token("body", m)>>

Starts(h, g) ==
    /\ g.transfering # NoList /\ g.tx_ack_timer = DART_ACK_TIMER_VAL
    /\ Current(g) \in Msg
    /\ g.out = h.out \o Frame(Current(g))

Stops(h, g) == g.transfering = NoList /\ g.out = h.out

\* A transfer is begun when there is none.
Leads(h, g) == Rx(h, g) /\ (Goes(h, g) \/ (h.transfering = NoList /\ Starts(h, g)))

\* A transfer ends, and the next one may begin.
Ended(h, g) == Rx(h, g) /\ (Stops(h, g) \/ Starts(h, g))

\* The callbacks from h to g report the messages D done and R received.
Tells(h, g, D, R) ==
    /\ Told(g, "done") \subseteq Told(h, "done") \cup D
    /\ Told(g, "received") = Told(h, "received") \cup R

\* No message is reported done, and no request starts to wait.
Quiet(h, g) ==
    /\ Tells(h, g, {}, {})
    /\ g.pending_request \in {h.pending_request, NoMsg}

LEMMA LeadsOn ==
    ASSUME NEW h, NEW k, NEW g, Leads(h, k), Leads(k, g)
    PROVE  Leads(h, g)
<1>1. CASE Goes(h, k) /\ Goes(k, g)
    BY <1>1 DEF Leads, Rx, Goes
<1>2. CASE h.transfering = NoList /\ Starts(h, k)
    BY <1>2 DEF Leads, Rx, Goes, Starts
<1>3. CASE Goes(h, k) /\ k.transfering = NoList /\ Starts(k, g)
    BY <1>3 DEF Leads, Rx, Goes, Starts
<1> QED
    BY <1>1, <1>2, <1>3 DEF Leads

LEMMA TellsOn ==
    ASSUME NEW h, NEW k, NEW g, NEW D, NEW E, NEW R, NEW S,
           Tells(h, k, D, R), Tells(k, g, E, S)
    PROVE  Tells(h, g, D \cup E, R \cup S)
BY DEF Tells

LEMMA SameTells ==
    ASSUME NEW h, NEW g, g.tell = h.tell
    PROVE  Tells(h, g, {}, {})
BY DEF Tells, Told

LEMMA QuietOn ==
    ASSUME NEW h, NEW k, NEW g, Quiet(h, k), Quiet(k, g)
    PROVE  Quiet(h, g)
BY DEF Quiet, Tells

LEMMA SameQuiet ==
    ASSUME NEW h, NEW g, Same(h, g)
    PROVE  Quiet(h, g)
BY SameTells DEF Quiet, Same

LEMMA ToldAppend ==
    ASSUME NEW h, NEW g, NEW m \in Msg, NEW c \in Codes, h.tell \in Seq(Msg \X Codes),
           g.tell = Append(h.tell, <<m, c>>)
    PROVE  Tells(h, g, IF c = "done" THEN {m} ELSE {}, IF c = "received" THEN {m} ELSE {})
<1>1. ASSUME NEW code
      PROVE  Told(g, code) = Told(h, code) \cup (IF c = code THEN {m} ELSE {})
    BY TellsOneMore DEF Told
<1> QED
    BY <1>1 DEF Tells

LEMMA TransferStarts ==
    ASSUME NEW h \in Handler, h.transfering # NoList,
           Transfers(h.queue, h.transfering, h.pending_request)
    PROVE  LET g == dart_transfer_msg(h)
           IN  Rx(h, g) /\ Starts(h, g) /\ Current(g) = Current(h)
<1> DEFINE g == dart_transfer_msg(h)
           e == Push(h, Frame(Current(h)))
<1>1. g = [e EXCEPT !.tx_ack_timer = DART_ACK_TIMER_VAL]
    BY DEF dart_transfer_msg, Frame
<1>2. e = [h EXCEPT !.out = @ \o Frame(Current(h))]
    BY DEF Push
<1> HIDE DEF e, g
<1>3. /\ e.rx_buffer = h.rx_buffer /\ e.rx_byte_timer = h.rx_byte_timer
      /\ e.transfering = h.transfering /\ e.queue = h.queue
      /\ e.out = h.out \o Frame(Current(h)) /\ e.tx_ack_timer = h.tx_ack_timer
    BY <1>2 DEF Handler
<1>4. /\ g.rx_buffer = e.rx_buffer /\ g.rx_byte_timer = e.rx_byte_timer
      /\ g.transfering = e.transfering /\ g.queue = e.queue /\ g.out = e.out
    BY <1>1
<1>5. g.tx_ack_timer = DART_ACK_TIMER_VAL
    BY <1>1, <1>2 DEF Handler
<1>6. Current(g) = Current(h) /\ Current(h) \in Msg
    BY <1>3, <1>4, CurrentIs DEF Current
<1> QED
    BY <1>3, <1>4, <1>5, <1>6 DEF Rx, Starts, g

LEMMA TriggerLeads ==
    ASSUME NEW h \in Handler, Transfers(h.queue, h.transfering, h.pending_request)
    PROVE  Leads(h, dart_trigger_transfer(h))
<1> DEFINE up == IF h.wrk THEN h ELSE WakeUp(h)
           next == dart_find_next_message_queue(up)
           g == dart_trigger_transfer(h)
           begun == [up EXCEPT !.transfering = next,
                               !.tx_attempts = 0,
                               !.wakeup_attempts = 0,
                               !.closing_timer = Off,
                               !.wakeup_timer = Off]
<1>1. CASE h.transfering # NoList
  <2>1. g = h
      BY <1>1, Triggered
  <2> QED
      BY <2>1 DEF Leads, Rx, Goes
<1>2. CASE h.transfering = NoList /\ GivesUp(h)
  <2>1. g = [h EXCEPT !.wakeup_attempts = 0]
      BY <1>2 DEF dart_trigger_transfer
  <2> HIDE DEF g
  <2> QED
      BY <1>2, <2>1 DEF Leads, Rx, Goes, g
<1>3. CASE h.transfering = NoList /\ ~GivesUp(h)
  <2>1. up \in Handler /\ Same(h, up) /\ up.transfering = h.transfering
      BY <1>3, WokenUp
  <2>2. /\ Rx(h, up) /\ up.out = h.out /\ up.tx_ack_timer = h.tx_ack_timer
    <3>1. CASE h.wrk
        BY <3>1 DEF Rx
    <3>2. CASE ~h.wrk
      <4>1. up = WakeUp(h)
          BY <3>2
      <4> HIDE DEF up
      <4> QED
          BY <4>1 DEF WakeUp, Rx
    <3> QED
        BY <3>1, <3>2
  <2>3. g = IF ~h.rdy \/ next = NoList THEN up ELSE dart_transfer_msg(begun)
      BY <1>3 DEF dart_trigger_transfer
  <2> HIDE DEF up
  <2>4. CASE g = up
      BY <1>3, <2>1, <2>2, <2>4 DEF Leads, Goes
  <2>5. CASE next # NoList /\ g = dart_transfer_msg(begun)
    <3>1. next \in Prio /\ Transfers(up.queue, next, up.pending_request)
        BY <2>1, <2>5, SendableIs
    <3>2. 0 \in 0..DART_WAKEUP_ATTEMPTS /\ 0 \in 0..DART_TX_ATTEMPTS
        BY Assumptions
    <3> HIDE DEF next, g
    <3>3. begun \in Handler
        BY <2>1, <3>1, <3>2, TimersAre DEF Handler
    <3>4. /\ begun.transfering = next /\ begun.out = up.out
          /\ begun.queue = up.queue /\ begun.pending_request = up.pending_request
        BY <2>1 DEF Handler
    <3>5. Rx(up, begun)
        BY DEF Rx
    <3> HIDE DEF begun
    <3>6. Rx(begun, g) /\ Starts(begun, g)
        BY <2>5, <3>1, <3>3, <3>4, TransferStarts
    <3> QED
        BY <1>3, <2>2, <3>4, <3>5, <3>6 DEF Leads, Rx, Starts, g
  <2> QED
      BY <2>3, <2>4, <2>5
<1> QED
    BY <1>1, <1>2, <1>3

LEMMA NextLeads ==
    ASSUME NEW h, NEW s, NEW f, NEW x, Handles(h, s, f, x)
    PROVE  LET g == dart_trigger_next_transfer(h)
           IN  Leads(h, g) /\ g.tell = h.tell /\ g.pending_request = h.pending_request
<1> DEFINE quiet == /\ h.transfering = NoList /\ ~GivesUp(h) /\ h.rdy
                    /\ dart_find_next_message_queue(h) = NoList
                    /\ h.pending_request = NoMsg
           t == dart_trigger_transfer(h)
           g == dart_trigger_next_transfer(h)
<1>1. h \in Handler /\ Transfers(h.queue, h.transfering, h.pending_request)
    BY DEF Handles
<1>2. t \in Handler /\ Same(h, t) /\ Leads(h, t)
    BY <1>1, Triggered, TriggerLeads
<1>3. g = [t EXCEPT !.complete = @ \/ quiet]
    BY DEF dart_trigger_next_transfer
<1> HIDE DEF quiet, t, g
<1>4. /\ g.rx_buffer = t.rx_buffer /\ g.rx_byte_timer = t.rx_byte_timer
      /\ g.out = t.out /\ g.transfering = t.transfering /\ g.tx_ack_timer = t.tx_ack_timer
      /\ g.queue = t.queue
      /\ g.tell = t.tell /\ g.pending_request = t.pending_request
    BY <1>3
<1>5. Current(g) = Current(t)
    BY <1>4 DEF Current
<1>6. Leads(t, g)
    BY <1>4, <1>5 DEF Leads, Rx, Goes
<1> QED
    BY <1>2, <1>4, <1>6, LeadsOn DEF Same, g

LEMMA SendLeads ==
    ASSUME NEW h, NEW s, NEW f \in [Msg -> Fates], NEW x, Handles(h, s, f, x),
           NEW m \in Msg, m.from = s, Learnt(f, h.tell)[m] = "new", m # x,
           ~h.complete, h.say = NoMsg, NoneTaken(h.tell)
    PROVE  LET g == dart_send_msg(h, m)
           IN  Leads(h, g) /\ Tells(h, g, {}, {})
<1> DEFINE k == Enqueued(h, m)
           g == dart_send_msg(h, m)
<1>1. /\ Handles(k, s, f, x) /\ k.transfering = h.transfering
      /\ h.transfering # NoList => Current(k) = Current(h)
    BY Enqueues
<1>2. /\ k.out = h.out /\ k.tx_ack_timer = h.tx_ack_timer
      /\ k.rx_buffer = h.rx_buffer /\ k.rx_byte_timer = h.rx_byte_timer
      /\ k.tell = Append(h.tell, <<m, "accepted">>)
    BY DEF Enqueued, Handles, Handler
<1>3. g = dart_trigger_transfer(k)
    BY DEF dart_send_msg, Enqueued
<1> HIDE DEF k, g
<1>4. k \in Handler /\ Transfers(k.queue, k.transfering, k.pending_request)
      /\ h.tell \in Seq(Msg \X Codes)
    BY <1>1 DEF Handles, Handler
<1>5. Leads(k, g) /\ g.tell = k.tell
    BY <1>3, <1>4, Triggered, TriggerLeads DEF Same
<1>6. Leads(h, k)
    BY <1>1, <1>2 DEF Leads, Rx, Goes
<1>7. "accepted" \in Codes
    BY DEF Codes
<1>8. Tells(h, g, {}, {})
  <2>1. Tells(h, k, {}, {})
      BY <1>2, <1>4, <1>7, ToldAppend
  <2> QED
      BY <1>5, <2>1, SameTells DEF Tells
<1> QED
    BY <1>5, <1>6, <1>8, LeadsOn DEF g

LEMMA CallbackLeads ==
    ASSUME NEW h, NEW s, NEW f \in [Msg -> Fates], Handles(h, s, f, NoMsg), ~h.complete,
           NEW m \in Msg, NEW code \in Outcomes \cup {"received"},
           code # "received" => Held(h.queue, h.pending_request, m),
           code = "abandoned" => m = station[s].pending_request
    PROVE  LET g == Callback(h, m, code)
           IN  /\ Leads(h, g)
               /\ Tells(h, g, IF code = "done" THEN {m} ELSE {},
                              IF code = "received" THEN {m} ELSE {})
<1> DEFINE k == Noted(h, m, code)
           x == Settles(m, code)
           g == Callback(h, m, code)
           D == IF code = "done" THEN {m} ELSE {}
           R == IF code = "received" THEN {m} ELSE {}
<1>1. /\ Handles(k, s, f, x) /\ k.say = NoMsg
      /\ k.tell = Append(h.tell, <<m, code>>)
      /\ k.transfering = h.transfering /\ k.complete = h.complete /\ Current(k) = Current(h)
      /\ h.say # NoMsg =>
            /\ h.say \in Msg /\ h.say.from = s /\ h.say # x
            /\ Learnt(f, k.tell)[h.say] = "new" /\ NoneTaken(k.tell)
    BY Reports
<1>2. g = IF h.say = NoMsg THEN k ELSE dart_send_msg(k, h.say)
    BY DEF Callback, Noted
<1>3. /\ k.out = h.out /\ k.tx_ack_timer = h.tx_ack_timer
      /\ k.rx_buffer = h.rx_buffer /\ k.rx_byte_timer = h.rx_byte_timer
    BY DEF Noted
<1> HIDE DEF k, g, x
<1>4. Leads(h, k)
    BY <1>1, <1>3 DEF Leads, Rx, Goes
<1>5. code \in Codes /\ h.tell \in Seq(Msg \X Codes)
    BY DEF Codes, Handles, Handler
<1>6. Tells(h, k, D, R)
    BY <1>1, <1>5, ToldAppend
<1> HIDE DEF D, R
<1>7. CASE h.say = NoMsg
    BY <1>2, <1>4, <1>6, <1>7 DEF g, D, R
<1>8. CASE h.say # NoMsg
  <2>1. Leads(k, g) /\ Tells(k, g, {}, {})
      BY <1>1, <1>2, <1>8, SendLeads
  <2>2. Leads(h, g)
      BY <1>4, <2>1, LeadsOn
  <2>3. Tells(h, g, D, R)
      BY <1>6, <2>1 DEF Tells
  <2> QED
      BY <2>2, <2>3 DEF g, D, R
<1> QED
    BY <1>7, <1>8

LEMMA FinishStops ==
    ASSUME NEW h \in Handler
    PROVE  LET g == dart_finalize_transfer(h)
           IN  Rx(h, g) /\ Stops(h, g) /\ g.tell = h.tell /\ g.pending_request = h.pending_request
BY DEF dart_finalize_transfer, Handler, Rx, Stops

\* One that stops is followed by one that leads.
LEMMA StopsThenLeads ==
    ASSUME NEW h, NEW k, NEW g, Rx(h, k), Stops(h, k), Leads(k, g)
    PROVE  Ended(h, g)
BY DEF Rx, Stops, Leads, Goes, Starts, Ended

LEMMA ConcludedEnds ==
    ASSUME NEW h, NEW s, NEW f \in [Msg -> Fates], Handles(h, s, f, NoMsg),
           h.transfering # NoList, NEW code \in Outcomes, code # "abandoned"
    PROVE  LET g == dart_trigger_next_transfer(dart_finalize_transfer(
                        Callback(h, Current(h), code)))
           IN  /\ Ended(h, g)
               /\ Tells(h, g, IF code = "done" THEN {Current(h)} ELSE {}, {})
               /\ g.pending_request = h.pending_request
<1> DEFINE m == Current(h)
           k == Callback(h, m, code)
           e == dart_finalize_transfer(k)
           g == dart_trigger_next_transfer(e)
           D == IF code = "done" THEN {m} ELSE {}
<1>1. h \in Handler /\ Transfers(h.queue, h.transfering, h.pending_request)
    BY DEF Handles
<1>2. m \in Msg /\ Held(h.queue, h.pending_request, m)
    BY <1>1, CurrentIs
<1>3. ~h.complete
    BY <1>2 DEF Handles, Empty
<1>4. code \in Outcomes \cup {"received"} /\ code # "received" /\ Settles(m, code) = m
    BY DEF Settles, Outcomes
<1> HIDE DEF m
<1>5. /\ Handles(k, s, f, m) /\ k.pending_request = h.pending_request
      /\ k.transfering # NoList /\ Current(k) = m
    BY <1>2, <1>3, <1>4, CalledBack DEF m
<1>6. Leads(h, k) /\ Tells(h, k, D, {})
    BY <1>2, <1>3, <1>4, CallbackLeads
<1> HIDE DEF k, D
<1>7. Handles(e, s, f, NoMsg)
    BY <1>5, Finished
<1>8. k \in Handler
    BY <1>5 DEF Handles
<1>9. Rx(k, e) /\ Stops(k, e) /\ e.tell = k.tell /\ e.pending_request = k.pending_request
    BY <1>8, FinishStops
<1> HIDE DEF e
<1>10. Leads(e, g) /\ g.tell = e.tell /\ g.pending_request = e.pending_request
    BY <1>7, NextLeads
<1> HIDE DEF g
<1>11. Rx(h, e) /\ Stops(h, e)
    BY <1>6, <1>9 DEF Leads, Goes, Rx, Stops
<1>12. Ended(h, g)
    BY <1>10, <1>11, StopsThenLeads
<1>13. Tells(h, g, D, {})
    BY <1>6, <1>9, <1>10 DEF Tells, Told
<1> QED
    BY <1>5, <1>9, <1>10, <1>12, <1>13 DEF g, e, k, D, m

LEMMA RetryEnds ==
    ASSUME NEW h, NEW s, NEW f \in [Msg -> Fates], Handles(h, s, f, NoMsg),
           Tries(h.transfering, h.tx_attempts), h.transfering # NoList
    PROVE  LET g == dart_retry_transfer(h)
           IN  Ended(h, g) /\ Quiet(h, g)
<1> DEFINE again == [h EXCEPT !.tx_attempts = @ + 1, !.tx_ack_timer = Off]
           m == Current(h)
           g == dart_retry_transfer(h)
<1>1. /\ h \in Handler /\ Transfers(h.queue, h.transfering, h.pending_request)
    BY DEF Handles
<1>2. h.tx_attempts + 1 \in 0..DART_TX_ATTEMPTS
  <2>1. DART_TX_ATTEMPTS \in Nat /\ h.tx_attempts \in 0..DART_TX_ATTEMPTS
      BY <1>1, Assumptions DEF Handler
  <2> QED
      BY <2>1 DEF Tries
<1>3. again \in Handler /\ Same(h, again) /\ again.transfering = h.transfering
    BY <1>1, <1>2, TimersAre DEF Handler, Same
<1>4. Rx(h, again) /\ again.out = h.out /\ again.tx_attempts = h.tx_attempts + 1
    BY <1>1 DEF Rx, Handler
<1>5. Current(again) = m
    BY <1>3 DEF Current, Same
<1>6. again.tx_attempts < DART_TX_ATTEMPTS <=> ~(again.tx_attempts >= DART_TX_ATTEMPTS)
    BY <1>2, <1>4, Assumptions
<1> HIDE DEF again
<1>7. g = CASE h.transfering = NoList -> h
          [] h.transfering # NoList /\ again.tx_attempts < DART_TX_ATTEMPTS
                -> dart_transfer_msg(again)
          [] h.transfering # NoList /\ again.tx_attempts >= DART_TX_ATTEMPTS
                -> dart_trigger_next_transfer(dart_finalize_transfer(
                        Callback(again, m, "failed")))
    BY DEF dart_retry_transfer, again
<1>8. Transfers(again.queue, again.transfering, again.pending_request)
    BY <1>1, <1>3 DEF Same
<1>9. Handles(again, s, f, NoMsg)
    BY <1>3, <1>8, StillHandles
<1> HIDE DEF m
<1>10. Ended(again, g) /\ Quiet(again, g)
  <2>1. CASE again.tx_attempts < DART_TX_ATTEMPTS
    <3>1. g = dart_transfer_msg(again)
        BY <1>6, <1>7, <2>1
    <3>2. Rx(again, g) /\ Starts(again, g) /\ Same(again, g)
        BY <1>3, <1>8, <3>1, TransferStarts, Transferred
    <3> QED
        BY <3>2, SameQuiet DEF Ended
  <2>2. CASE ~(again.tx_attempts < DART_TX_ATTEMPTS)
    <3>1. g = dart_trigger_next_transfer(dart_finalize_transfer(
                        Callback(again, Current(again), "failed")))
        BY <1>5, <1>6, <1>7, <2>2
    <3>2. "failed" \in Outcomes /\ "failed" # "done"
        BY DEF Outcomes
    <3>3. /\ Ended(again, g) /\ Tells(again, g, {}, {})
          /\ g.pending_request = again.pending_request
        BY <1>3, <1>9, <3>1, <3>2, ConcludedEnds
    <3> QED
        BY <3>3 DEF Quiet
  <2> QED
      BY <2>1, <2>2
<1> HIDE DEF g
<1>11. Ended(h, g)
    BY <1>4, <1>10 DEF Ended, Rx, Stops, Starts
<1>12. Quiet(h, g)
    BY <1>3, <1>10, SameQuiet, QuietOn
<1> QED
    BY <1>11, <1>12 DEF g

\* An acknowledge byte: a message that is no request is done.
LEMMA AcknowledgeEnds ==
    ASSUME NEW h, NEW s, NEW f \in [Msg -> Fates], Handles(h, s, f, NoMsg),
           h.transfering # NoList
    PROVE  LET g == dart_acknowledge_msg(h)
               m == Current(h)
           IN  /\ Ended(h, g)
               /\ Tells(h, g, IF m.kind = "REQUEST" THEN {} ELSE {m}, {})
               /\ g.pending_request \in {h.pending_request, m}
<1> DEFINE acked == [h EXCEPT !.tx_ack_timer = Off]
           m == Current(h)
           g == dart_acknowledge_msg(h)
<1>1. /\ h \in Handler /\ Transfers(h.queue, h.transfering, h.pending_request)
    BY DEF Handles
<1>2. /\ acked \in Handler /\ Same(h, acked) /\ acked.transfering = h.transfering
      /\ Rx(h, acked) /\ acked.out = h.out
    BY <1>1, TimersAre DEF Handler, Same, Rx
<1>3. Current(acked) = m
    BY <1>2 DEF Current, Same
<1>4. g = IF m.kind = "REQUEST"
          THEN dart_trigger_next_transfer(
                        [dart_finalize_transfer(acked) EXCEPT
                            !.pending_request = m,
                            !.tx_response_timer = DART_RESPONSE_TIMER_VAL])
          ELSE dart_trigger_next_transfer(dart_finalize_transfer(
                        Callback(acked, m, "done")))
    BY DEF dart_acknowledge_msg
<1> HIDE DEF acked, m
<1>5. Transfers(acked.queue, acked.transfering, acked.pending_request)
    BY <1>1, <1>2 DEF Same
<1>6. Handles(acked, s, f, NoMsg)
    BY <1>2, <1>5, StillHandles
<1>7. CASE m.kind = "REQUEST"
  <2> DEFINE e == dart_finalize_transfer(acked)
             w == Waiting(acked)
  <2>1. g = dart_trigger_next_transfer(w)
      BY <1>3, <1>4, <1>7 DEF Waiting
  <2>2. Handles(w, s, f, NoMsg)
      BY <1>2, <1>3, <1>6, <1>7, Waits
  <2>3. Rx(acked, e) /\ Stops(acked, e) /\ e.tell = acked.tell
      BY <1>2, FinishStops
  <2>4. w = [e EXCEPT !.pending_request = m, !.tx_response_timer = DART_RESPONSE_TIMER_VAL]
      BY <1>3 DEF Waiting
  <2> HIDE DEF e, w
  <2>5. Rx(e, w) /\ w.transfering = e.transfering /\ w.out = e.out /\ w.tell = e.tell
      BY <2>4 DEF Rx
  <2>6. w.pending_request = m
    <3>1. w \in Handler
        BY <2>2 DEF Handles
    <3>2. "pending_request" \in DOMAIN e
      <4>1. DOMAIN w = DOMAIN e
          BY <2>4
      <4>2. "pending_request" \in DOMAIN w
          BY <3>1 DEF Handler
      <4> QED
          BY <4>1, <4>2
    <3> QED
        BY <2>4, <3>2
  <2>7. Leads(w, g) /\ g.tell = w.tell /\ g.pending_request = w.pending_request
      BY <2>1, <2>2, NextLeads
  <2>8. Rx(h, w) /\ Stops(h, w)
      BY <1>2, <2>3, <2>5 DEF Rx, Stops
  <2>9. Ended(h, g)
      BY <2>7, <2>8, StopsThenLeads
  <2>10. Tells(h, g, {}, {})
      BY <1>2, <2>3, <2>5, <2>7, SameTells DEF Same
  <2> QED
      BY <1>7, <2>6, <2>7, <2>9, <2>10 DEF m
<1>8. CASE m.kind # "REQUEST"
  <2>1. "done" \in Outcomes
      BY DEF Outcomes
  <2>2. /\ Ended(acked, g) /\ Tells(acked, g, {m}, {})
        /\ g.pending_request = acked.pending_request
      BY <1>2, <1>3, <1>4, <1>6, <1>8, <2>1, ConcludedEnds
  <2> HIDE DEF g
  <2>3. Ended(h, g)
      BY <1>2, <2>2 DEF Ended, Rx, Stops, Starts
  <2>4. Tells(h, g, {m}, {})
    <3>1. Tells(h, acked, {}, {})
        BY <1>2, SameTells DEF Same
    <3> QED
        BY <2>2, <3>1 DEF Tells
  <2>5. g.pending_request = h.pending_request
      BY <1>2, <2>2 DEF Same
  <2> QED
      BY <1>8, <2>3, <2>4, <2>5 DEF m, g
<1> QED
    BY <1>7, <1>8

LEMMA RequestLeads ==
    ASSUME NEW h, NEW s, NEW f, Handles(h, s, f, h.pending_request),
           h.pending_request # NoMsg, ~h.complete
    PROVE  LET g == dart_finalize_request_msg(h)
           IN  Leads(h, g) /\ g.tell = h.tell /\ g.pending_request = NoMsg
<1> DEFINE k == [h EXCEPT !.pending_request = NoMsg, !.tx_response_timer = Off]
           g == dart_finalize_request_msg(h)
           r == h.pending_request
<1>1. h \in Handler /\ r \in Msg /\ Once(h.queue, r) /\ Transfers(h.queue, h.transfering, r)
    BY DEF Handles, Handler
<1>2. /\ k \in Handler
      /\ k.queue = h.queue /\ k.pending_request = NoMsg /\ k.transfering = h.transfering
      /\ k.tell = h.tell
    BY <1>1, TimersAre DEF Handler
<1>3. Rx(h, k) /\ k.out = h.out /\ k.tx_ack_timer = h.tx_ack_timer
    BY DEF Rx
<1>4. g = dart_trigger_next_transfer(k)
    BY DEF dart_finalize_request_msg
<1> DEFINE quiet == /\ k.transfering = NoList /\ ~GivesUp(k) /\ k.rdy
                    /\ dart_find_next_message_queue(k) = NoList
                    /\ k.pending_request = NoMsg
           t == dart_trigger_transfer(k)
<1>5. g = [t EXCEPT !.complete = @ \/ quiet]
    BY <1>4 DEF dart_trigger_next_transfer
<1> HIDE DEF k, g
<1>6. Transfers(k.queue, k.transfering, k.pending_request)
    BY <1>1, <1>2 DEF Transfers
<1>7. Leads(k, t) /\ Same(k, t)
    BY <1>2, <1>6, TriggerLeads, Triggered
<1> HIDE DEF quiet, t
<1>8. /\ Rx(t, g) /\ g.out = t.out /\ g.tx_ack_timer = t.tx_ack_timer
      /\ g.transfering = t.transfering /\ g.queue = t.queue
      /\ g.tell = t.tell /\ g.pending_request = t.pending_request
    BY <1>5 DEF Rx
<1>9. Current(g) = Current(t) /\ Current(k) = Current(h)
    BY <1>2, <1>8 DEF Current
<1>10. Leads(h, k) /\ Leads(t, g)
    BY <1>2, <1>3, <1>8, <1>9 DEF Leads, Goes
<1>11. Leads(h, g)
    BY <1>7, <1>10, LeadsOn
<1> QED
    BY <1>2, <1>7, <1>8, <1>11 DEF Same, g

LEMMA AbandonLeads ==
    ASSUME NEW h, NEW s, NEW f \in [Msg -> Fates], Handles(h, s, f, NoMsg),
           h.pending_request # NoMsg, ~h.complete,
           h.pending_request = station[s].pending_request
    PROVE  LET g == dart_abandon_request_msg(h)
           IN  Leads(h, g) /\ Quiet(h, g)
<1> DEFINE k == Callback(h, h.pending_request, "abandoned")
           g == dart_abandon_request_msg(h)
<1>1. h.pending_request \in Msg /\ Held(h.queue, h.pending_request, h.pending_request)
    BY DEF Handles, Handler, Held
<1>2. "abandoned" \in Outcomes \cup {"received"} /\ "abandoned" # "received"
      /\ "abandoned" # "done"
    BY DEF Outcomes
<1>3. Settles(h.pending_request, "abandoned") = h.pending_request
    BY DEF Settles
<1>4. /\ Handles(k, s, f, h.pending_request) /\ ~k.complete
      /\ k.pending_request = h.pending_request
    BY <1>1, <1>2, <1>3, CalledBack
<1>5. Leads(h, k) /\ Tells(h, k, {}, {})
    BY <1>1, <1>2, CallbackLeads
<1>6. g = dart_finalize_request_msg(k)
    BY DEF dart_abandon_request_msg
<1> HIDE DEF k
<1>7. Leads(k, g) /\ g.tell = k.tell /\ g.pending_request = NoMsg
    BY <1>4, <1>6, RequestLeads
<1> HIDE DEF g
<1>8. Leads(h, g)
    BY <1>5, <1>7, LeadsOn
<1>9. Quiet(h, g)
    BY <1>5, <1>7, SameTells DEF Quiet, Tells
<1> QED
    BY <1>8, <1>9 DEF g

\* The request that waits is done when its response was received.
LEMMA ReceiveLeads ==
    ASSUME NEW h, NEW s, NEW f \in [Msg -> Fates], Handles(h, s, f, NoMsg),
           Tries(h.transfering, h.tx_attempts), ~h.complete, NEW m \in Msg
    PROVE  LET g == dart_handle_received_msg(h, m)
               r == h.pending_request
           IN  /\ Leads(h, g)
               /\ g.pending_request \in {r, NoMsg}
               /\ Tells(h, g, IF r # NoMsg /\ m.kind = "RESPONSE" /\ m.id = r.id
                              THEN {r} ELSE {}, {m})
<1> DEFINE seen == Callback(h, m, "received")
           r == h.pending_request
           k == Callback(seen, r, "done")
           g == dart_handle_received_msg(h, m)
<1>1. /\ "received" \in Outcomes \cup {"received"} /\ Settles(m, "received") = NoMsg
      /\ "done" \in Outcomes \cup {"received"} /\ "done" # "received"
    BY DEF Settles, Outcomes
<1>2. /\ Handles(seen, s, f, NoMsg) /\ ~seen.complete /\ seen.pending_request = r
    BY <1>1, CalledBack
<1>3. Leads(h, seen) /\ Tells(h, seen, {}, {m})
    BY <1>1, CallbackLeads
<1>4. g = IF r # NoMsg /\ m.kind = "RESPONSE" /\ m.id = r.id
          THEN dart_finalize_request_msg(k) ELSE seen
    BY <1>2 DEF dart_handle_received_msg
<1> HIDE DEF seen
<1>5. CASE ~(r # NoMsg /\ m.kind = "RESPONSE" /\ m.id = r.id)
    BY <1>2, <1>3, <1>4, <1>5
<1>6. CASE r # NoMsg /\ m.kind = "RESPONSE" /\ m.id = r.id
  <2>1. r \in Msg /\ Held(seen.queue, seen.pending_request, r)
      BY <1>2, <1>6 DEF Handles, Handler, Held
  <2>2. Settles(r, "done") = r
      BY DEF Settles
  <2>3. /\ Handles(k, s, f, r) /\ ~k.complete /\ k.pending_request = r
      BY <1>1, <1>2, <2>1, <2>2, CalledBack
  <2>4. Leads(seen, k) /\ Tells(seen, k, {r}, {})
      BY <1>1, <1>2, <2>1, CallbackLeads
  <2>5. g = dart_finalize_request_msg(k)
      BY <1>4, <1>6
  <2> HIDE DEF k
  <2>6. Leads(k, g) /\ g.tell = k.tell /\ g.pending_request = NoMsg
      BY <1>6, <2>3, <2>5, RequestLeads
  <2> HIDE DEF g
  <2>7. Leads(h, g)
      BY <1>3, <2>4, <2>6, LeadsOn
  <2>8. Tells(h, g, {r}, {m})
    <3>1. Tells(k, g, {}, {})
        BY <2>6, SameTells
    <3> QED
        BY <1>3, <2>4, <3>1 DEF Tells
  <2> QED
      BY <1>6, <2>6, <2>7, <2>8 DEF g
<1> QED
    BY <1>5, <1>6

----------------------------------------------------------------------------
(* What the byte and the time do to a transfer.                            *)

\* The answer r was sent, and the transfer goes on, a new one begins or there
\* is none any more.
GoesOn(h, g, r) ==
    /\ g.out = r
    /\ g.transfering = h.transfering /\ g.tx_ack_timer = h.tx_ack_timer
    /\ h.transfering # NoList => Current(g) = Current(h)

StartsAfter(g, r) ==
    /\ g.transfering # NoList /\ g.tx_ack_timer = DART_ACK_TIMER_VAL
    /\ Current(g) \in Msg
    /\ g.out = r \o Frame(Current(g))

StopsAfter(g, r) == g.transfering = NoList /\ g.out = r

Nothing == <<>>
Ack == <<Token("ACK", NoMsg)>>
Bad == <<Token("BAD", NoMsg)>>

LEMMA FrameIs ==
    ASSUME NEW m \in Msg
    PROVE  Frame(m) \in Seq(Tokens) /\ Nothing \o Frame(m) = Frame(m)
<1>1. Token("SYNC", NoMsg) \in Tokens /\ Token("body", m) \in Tokens
    BY TokensAre
<1>2. Frame(m) \in Seq(Tokens)
    BY <1>1 DEF Frame
<1> QED
    BY <1>2, ConcatEmptySeq DEF Nothing

\* The step from h to g is about the receive buffer, the pin and the output.
Beside(h, g) ==
    /\ g.transfering = h.transfering /\ g.tx_ack_timer = h.tx_ack_timer
    /\ g.queue = h.queue /\ g.tell = h.tell /\ g.pending_request = h.pending_request

LEMMA BesideIs ==
    ASSUME NEW h, NEW g, Beside(h, g)
    PROVE  GoesOn(h, g, g.out) /\ Quiet(h, g) /\ Current(g) = Current(h)
BY SameTells DEF Beside, GoesOn, Quiet, Current

LEMMA EmptiedBeside ==
    ASSUME NEW h \in Handler
    PROVE  LET g == Emptied(h)
           IN  Beside(h, g) /\ g.out = h.out /\ ~Hears(g) /\ g.rx_byte_timer = Off
                /\ g.rx_buffer = "empty"
<1>1. /\ Emptied(h).rx_buffer = "empty" /\ Emptied(h).rx_byte_timer = Off
      /\ Emptied(h).out = h.out
    BY DEF Emptied, Handler
<1>2. Beside(h, Emptied(h))
    BY DEF Emptied, Handler, Beside
<1> QED
    BY <1>1, <1>2 DEF Hears

LEMMA PushBeside ==
    ASSUME NEW h \in Handler, NEW tokens
    PROVE  LET g == Push(h, tokens)
           IN  Beside(h, g) /\ Rx(h, g) /\ g.out = h.out \o tokens
BY DEF Push, Handler, Beside, Rx

LEMMA FreshBeside ==
    ASSUME NEW h \in Handler
    PROVE  LET g == Fresh(h)
           IN  /\ Beside(h, g) /\ g.out = h.out
               /\ IF Hears(h)
                  THEN /\ g.rx_buffer = h.rx_buffer
                       /\ g.rx_byte_timer = IF h.rx_byte_timer = Off THEN Off
                                            ELSE DART_BYTE_TIMER_VAL
                  ELSE g.rx_buffer = "empty"
<1> DEFINE e == IF h.rx_byte_timer = 0 THEN Emptied(h) ELSE h
           v == IF e.rx_byte_timer = Off THEN Off ELSE DART_BYTE_TIMER_VAL
           g == Fresh(h)
<1>1. g = [e EXCEPT !.closing_timer = Off, !.rx_byte_timer = v]
    BY DEF Fresh
<1>2. /\ e \in Handler /\ Beside(h, e) /\ e.out = h.out
      /\ IF h.rx_byte_timer = 0 THEN e.rx_buffer = "empty" ELSE e = h
  <2>1. CASE h.rx_byte_timer = 0
      BY <2>1, EmptiedIs, EmptiedBeside DEF Aside
  <2>2. CASE h.rx_byte_timer # 0
      BY <2>2 DEF Beside
  <2> QED
      BY <2>1, <2>2
<1> HIDE DEF e, v, g
<1>3. /\ Beside(e, g) /\ g.out = e.out /\ g.rx_buffer = e.rx_buffer
    BY <1>1 DEF Beside
<1>4. g.rx_byte_timer = v
    BY <1>1, <1>2 DEF Handler
<1>5. Beside(h, g) /\ g.out = h.out
    BY <1>2, <1>3 DEF Beside
<1>6. CASE h.rx_byte_timer = 0
    BY <1>2, <1>3, <1>5, <1>6 DEF g, Hears
<1>7. CASE h.rx_byte_timer # 0
    BY <1>2, <1>3, <1>4, <1>5, <1>7 DEF g, Hears, v
<1> QED
    BY <1>6, <1>7

LEMMA MisreadBeside ==
    ASSUME NEW h \in Handler, h.out = Nothing, NEW outcome \in Outcome
    PROVE  LET g == Misread(h, outcome)
           IN  /\ Beside(h, g)
               /\ \/ /\ g.out = Nothing /\ g.rx_buffer = "broken"
                     /\ g.rx_byte_timer = h.rx_byte_timer
                  \/ g.out \in {Nothing, Bad} /\ ~Hears(g)
<1> DEFINE g == Misread(h, outcome)
<1>1. CASE outcome = "short"
  <2>1. g = [h EXCEPT !.rx_buffer = "broken"]
      BY <1>1 DEF Misread
  <2> HIDE DEF g
  <2>2. Beside(h, g)
      BY <2>1 DEF Beside
  <2>3. g.out = h.out /\ g.rx_buffer = "broken" /\ g.rx_byte_timer = h.rx_byte_timer
      BY <2>1 DEF Handler
  <2> QED
      BY <2>2, <2>3 DEF g
<1>2. CASE outcome = "long"
  <2>1. g = Emptied(h)
      BY <1>2 DEF Misread
  <2> QED
      BY <2>1, EmptiedBeside
<1>3. CASE outcome = "crc"
  <2> DEFINE e == Push(h, Bad)
  <2>1. g = Emptied(e)
      BY <1>3 DEF Misread, Bad
  <2>2. Bad \in Seq(Tokens)
      BY TokensAre DEF Bad
  <2>3. e \in Handler
      BY <2>2, PushIs
  <2>4. Beside(h, e) /\ e.out = Nothing \o Bad
      BY PushBeside
  <2>5. Nothing \o Bad = Bad
      BY <2>2, ConcatEmptySeq DEF Nothing
  <2> HIDE DEF e
  <2>6. Beside(e, Emptied(e)) /\ Emptied(e).out = e.out /\ ~Hears(Emptied(e))
      BY <2>3, EmptiedBeside
  <2>7. Beside(h, Emptied(e))
      BY <2>4, <2>6 DEF Beside
  <2> QED
      BY <2>1, <2>4, <2>5, <2>6, <2>7
<1> QED
    BY <1>1, <1>2, <1>3 DEF Outcome

\* The other steps that send no answer.
LEMMA LeadsAfter ==
    ASSUME NEW h, NEW g, NEW r, h.out = r, Leads(h, g)
    PROVE  GoesOn(h, g, r) \/ (h.transfering = NoList /\ StartsAfter(g, r))
BY DEF Leads, Goes, Starts, GoesOn, StartsAfter

LEMMA EndedAfter ==
    ASSUME NEW h, NEW g, NEW r, h.out = r, Ended(h, g)
    PROVE  StopsAfter(g, r) \/ StartsAfter(g, r)
BY DEF Ended, Stops, Starts, StopsAfter, StartsAfter

LEMMA FirstByteDoes ==
    ASSUME NEW h, NEW s, NEW f \in [Msg -> Fates], Handles(h, s, f, NoMsg),
           Tries(h.transfering, h.tx_attempts), h.out = Nothing,
           h.rx_buffer = "empty", NEW k
    PROVE  LET g == FirstByte(h, k)
               m == Current(h)
           IN  /\ IF k = "SYNC"
                  THEN g.rx_buffer = "sync" /\ g.rx_byte_timer = DART_BYTE_TIMER_VAL
                  ELSE ~Hears(g)
               /\ \/ GoesOn(h, g, Nothing)
                  \/ /\ k \in Answers /\ h.transfering # NoList
                     /\ StartsAfter(g, Nothing) \/ StopsAfter(g, Nothing)
               /\ \/ Quiet(h, g)
                  \/ /\ k = "ACK" /\ h.transfering # NoList
                     /\ Tells(h, g, IF m.kind = "REQUEST" THEN {} ELSE {m}, {})
                     /\ g.pending_request \in {h.pending_request, m}
<1> DEFINE g == FirstByte(h, k)
           m == Current(h)
<1>1. h \in Handler
    BY DEF Handles
<1>2. GoesOn(h, h, Nothing) /\ Quiet(h, h) /\ ~Hears(h)
    BY SameTells DEF GoesOn, Quiet, Hears
<1>3. CASE k = "SYNC"
  <2>1. g = [h EXCEPT !.rx_buffer = "sync",
                      !.rx_byte_timer = DART_BYTE_TIMER_VAL,
                      !.wrk = TRUE]
      BY <1>3 DEF FirstByte
  <2> HIDE DEF g
  <2>2. g.rx_buffer = "sync" /\ g.rx_byte_timer = DART_BYTE_TIMER_VAL /\ g.out = h.out
      BY <1>1, <2>1 DEF Handler
  <2>3. Beside(h, g)
      BY <2>1 DEF Beside
  <2>4. GoesOn(h, g, Nothing) /\ Quiet(h, g)
      BY <2>2, <2>3, BesideIs
  <2> QED
      BY <1>3, <2>2, <2>4 DEF g
<1>4. CASE k = "ACK" /\ h.wrk /\ h.transfering # NoList
  <2>1. g = dart_acknowledge_msg(h)
      BY <1>4 DEF FirstByte
  <2>2. /\ Ended(h, g)
        /\ Tells(h, g, IF m.kind = "REQUEST" THEN {} ELSE {m}, {})
        /\ g.pending_request \in {h.pending_request, m}
      BY <1>4, <2>1, AcknowledgeEnds
  <2>3. StopsAfter(g, Nothing) \/ StartsAfter(g, Nothing)
      BY <2>2, EndedAfter
  <2>4. ~Hears(g)
      BY <2>2 DEF Ended, Rx, Hears
  <2> HIDE DEF g, m
  <2> QED
      BY <1>4, <2>2, <2>3, <2>4 DEF g, m, Answers
<1>5. CASE k = "BAD" /\ h.wrk /\ h.transfering # NoList
  <2>1. g = dart_retry_transfer(h)
      BY <1>5 DEF FirstByte
  <2>2. Ended(h, g) /\ Quiet(h, g)
      BY <1>5, <2>1, RetryEnds
  <2>3. StopsAfter(g, Nothing) \/ StartsAfter(g, Nothing)
      BY <2>2, EndedAfter
  <2>4. ~Hears(g)
      BY <2>2 DEF Ended, Rx, Hears
  <2> HIDE DEF g, m
  <2> QED
      BY <1>5, <2>2, <2>3, <2>4 DEF g, m, Answers
<1>6. CASE /\ k # "SYNC" /\ ~(k = "ACK" /\ h.wrk /\ h.transfering # NoList)
           /\ ~(k = "BAD" /\ h.wrk /\ h.transfering # NoList)
  <2>1. g = h
      BY <1>6 DEF FirstByte, dart_acknowledge_msg, dart_retry_transfer
  <2> QED
      BY <1>2, <1>6, <2>1
<1> QED
    BY <1>3, <1>4, <1>5, <1>6

LEMMA FreshHandles ==
    ASSUME NEW h, NEW s, NEW f \in [Msg -> Fates], Handles(h, s, f, NoMsg),
           Tries(h.transfering, h.tx_attempts), ~h.complete
    PROVE  LET x == Fresh(h)
           IN  Handles(x, s, f, NoMsg) /\ Tries(x.transfering, x.tx_attempts) /\ ~x.complete
<1>1. Aside(h, Fresh(h))
    BY FreshIs DEF Handles
<1> QED
    BY <1>1, AsideHandles DEF Aside, Same

\* A byte that finds no frame begun.
LEMMA ByteAlone ==
    ASSUME NEW h, NEW s, NEW f \in [Msg -> Fates], Handles(h, s, f, NoMsg),
           Tries(h.transfering, h.tx_attempts), ~h.complete, h.out = Nothing,
           NEW t \in Tokens, NEW outcome \in Outcome, ~Hears(h)
    PROVE  LET g == dart_handle_received_char(h, t, outcome)
               m == Current(h)
           IN  /\ IF t.k = "SYNC"
                  THEN g.rx_buffer = "sync" /\ g.rx_byte_timer = DART_BYTE_TIMER_VAL
                  ELSE ~Hears(g)
               /\ \/ GoesOn(h, g, Nothing)
                  \/ /\ t.k \in Answers /\ h.transfering # NoList
                     /\ StartsAfter(g, Nothing) \/ StopsAfter(g, Nothing)
               /\ \/ Quiet(h, g)
                  \/ /\ t.k = "ACK" /\ h.transfering # NoList
                     /\ Tells(h, g, IF m.kind = "REQUEST" THEN {} ELSE {m}, {})
                     /\ g.pending_request \in {h.pending_request, m}
<1> DEFINE x == Fresh(h)
           g == dart_handle_received_char(h, t, outcome)
<1>1. /\ Handles(x, s, f, NoMsg) /\ Tries(x.transfering, x.tx_attempts)
    BY FreshHandles
<1>2. Beside(h, x) /\ x.out = Nothing /\ x.rx_buffer = "empty"
    BY FreshBeside DEF Handles
<1>3. g = FirstByte(x, t.k)
    BY <1>2 DEF dart_handle_received_char
<1> HIDE DEF x, g
<1>4. /\ IF t.k = "SYNC"
         THEN g.rx_buffer = "sync" /\ g.rx_byte_timer = DART_BYTE_TIMER_VAL
         ELSE ~Hears(g)
      /\ \/ GoesOn(x, g, Nothing)
         \/ /\ t.k \in Answers /\ x.transfering # NoList
            /\ StartsAfter(g, Nothing) \/ StopsAfter(g, Nothing)
      /\ \/ Quiet(x, g)
         \/ /\ t.k = "ACK" /\ x.transfering # NoList
            /\ Tells(x, g, IF Current(x).kind = "REQUEST" THEN {} ELSE {Current(x)}, {})
            /\ g.pending_request \in {x.pending_request, Current(x)}
    BY <1>1, <1>2, <1>3, FirstByteDoes
<1>5. Current(x) = Current(h) /\ Quiet(h, x)
    BY <1>2, BesideIs
<1>6. GoesOn(x, g, Nothing) => GoesOn(h, g, Nothing)
    BY <1>2, <1>5 DEF GoesOn, Beside
<1>7. Quiet(x, g) => Quiet(h, g)
    BY <1>5, QuietOn
<1>8. \A D : Tells(x, g, D, {}) => Tells(h, g, D, {})
    BY <1>5 DEF Tells, Quiet
<1>9. x.transfering = h.transfering /\ x.pending_request = h.pending_request
    BY <1>2 DEF Beside
<1> QED
    BY <1>4, <1>5, <1>6, <1>7, <1>8, <1>9 DEF g

\* The rest of a frame.
LEMMA ByteAnswers ==
    ASSUME NEW h, NEW s, NEW f \in [Msg -> Fates], Handles(h, s, f, NoMsg),
           Tries(h.transfering, h.tx_attempts), ~h.complete, h.out = Nothing,
           NEW t \in Tokens, NEW outcome \in Outcome,
           Hears(h), h.rx_buffer = "sync", t.k = "body"
    PROVE  LET g == dart_handle_received_char(h, t, outcome)
               r == h.pending_request
           IN  /\ ~Hears(g)
               /\ t.msg \in Msg
               /\ GoesOn(h, g, Ack) \/ (h.transfering = NoList /\ StartsAfter(g, Ack))
               /\ Tells(h, g, IF r # NoMsg /\ t.msg.kind = "RESPONSE" /\ t.msg.id = r.id
                              THEN {r} ELSE {}, {t.msg})
               /\ g.pending_request \in {r, NoMsg}
<1> DEFINE x == Fresh(h)
           p == Push(x, Ack)
           e == dart_handle_received_msg(p, t.msg)
           g == dart_handle_received_char(h, t, outcome)
           r == h.pending_request
           D == IF r # NoMsg /\ t.msg.kind = "RESPONSE" /\ t.msg.id = r.id THEN {r} ELSE {}
<1>1. /\ Handles(x, s, f, NoMsg) /\ Tries(x.transfering, x.tx_attempts) /\ ~x.complete
    BY FreshHandles
<1>2. Beside(h, x) /\ x.out = Nothing /\ x.rx_buffer = "sync"
    BY FreshBeside DEF Handles
<1>3. g = Emptied(e)
    BY <1>2 DEF dart_handle_received_char, Ack
<1>4. Ack \in Seq(Tokens)
    BY TokensAre DEF Ack
<1>5. x \in Handler
    BY <1>1 DEF Handles
<1>6. Aside(x, p) /\ Beside(x, p) /\ p.out = Nothing \o Ack
    BY <1>2, <1>4, <1>5, PushIs, PushBeside DEF Aside
<1>7. Handles(p, s, f, NoMsg) /\ Tries(p.transfering, p.tx_attempts) /\ ~p.complete
    BY <1>1, <1>6, AsideHandles DEF Aside, Same
<1>8. p.out = Ack
    BY <1>4, <1>6, ConcatEmptySeq DEF Nothing
<1>9. Beside(h, p)
    BY <1>2, <1>6 DEF Beside
<1>10. t.msg \in Msg
    BY DEF Tokens, Token
<1> HIDE DEF x, p, e, g, D
<1>11. Handles(e, s, f, NoMsg)
    BY <1>7, <1>10, ReceivedMsg DEF e
<1>12. p.pending_request = r
    BY <1>9 DEF Beside
<1>13. /\ Leads(p, e)
       /\ e.pending_request \in {r, NoMsg}
       /\ Tells(p, e, D, {t.msg})
    BY <1>7, <1>10, <1>12, ReceiveLeads DEF e, D
<1>14. Beside(e, g) /\ g.out = e.out /\ ~Hears(g)
    BY <1>3, <1>11, EmptiedBeside DEF Handles
<1>15. GoesOn(p, e, Ack) \/ (p.transfering = NoList /\ StartsAfter(e, Ack))
    BY <1>8, <1>13, LeadsAfter
<1>16. Current(e) = Current(g) /\ Current(h) = Current(p) /\ Quiet(e, g) /\ Quiet(h, p)
    BY <1>9, <1>14, BesideIs
<1>17. GoesOn(h, g, Ack) \/ (h.transfering = NoList /\ StartsAfter(g, Ack))
    BY <1>9, <1>14, <1>15, <1>16 DEF GoesOn, StartsAfter, Beside
<1>18. Tells(h, g, D, {t.msg})
    BY <1>13, <1>16 DEF Tells, Quiet
<1>19. g.pending_request \in {r, NoMsg}
    BY <1>13, <1>14 DEF Beside
<1> QED
    BY <1>10, <1>14, <1>17, <1>18, <1>19 DEF g, D

\* Another byte within a frame.
LEMMA ByteMisread ==
    ASSUME NEW h, NEW s, NEW f \in [Msg -> Fates], Handles(h, s, f, NoMsg),
           Tries(h.transfering, h.tx_attempts), ~h.complete, h.out = Nothing,
           NEW t \in Tokens, NEW outcome \in Outcome,
           Hears(h), ~(h.rx_buffer = "sync" /\ t.k = "body")
    PROVE  LET g == dart_handle_received_char(h, t, outcome)
           IN  /\ Quiet(h, g)
               /\ \/ /\ GoesOn(h, g, Nothing) /\ g.rx_buffer = "broken"
                     /\ g.rx_byte_timer = IF h.rx_byte_timer = Off THEN Off
                                          ELSE DART_BYTE_TIMER_VAL
                  \/ GoesOn(h, g, Nothing) /\ ~Hears(g)
                  \/ GoesOn(h, g, Bad) /\ ~Hears(g)
<1> DEFINE x == Fresh(h)
           g == dart_handle_received_char(h, t, outcome)
<1>1. Handles(x, s, f, NoMsg)
    BY FreshHandles
<1>2. /\ Beside(h, x) /\ x.out = Nothing /\ x.rx_buffer = h.rx_buffer
      /\ x.rx_byte_timer = IF h.rx_byte_timer = Off THEN Off ELSE DART_BYTE_TIMER_VAL
    BY FreshBeside DEF Handles
<1>3. g = Misread(x, outcome)
    BY <1>2 DEF dart_handle_received_char, Hears
<1> HIDE DEF x, g
<1>4. /\ Beside(x, g)
      /\ \/ /\ g.out = Nothing /\ g.rx_buffer = "broken"
            /\ g.rx_byte_timer = x.rx_byte_timer
         \/ g.out \in {Nothing, Bad} /\ ~Hears(g)
    BY <1>1, <1>2, <1>3, MisreadBeside DEF Handles
<1>5. Beside(h, g)
    BY <1>2, <1>4 DEF Beside
<1>6. GoesOn(h, g, g.out) /\ Quiet(h, g)
    BY <1>5, BesideIs
<1> QED
    BY <1>2, <1>4, <1>6 DEF g

LEMMA BesideGoes ==
    ASSUME NEW h, NEW g, Beside(h, g), Rx(h, g), g.out = h.out
    PROVE  Leads(h, g) /\ Quiet(h, g)
BY BesideIs DEF Beside, Leads, Goes

LEMMA ClosingBeside ==
    ASSUME NEW h
    PROVE  LET g == Closing(h)
           IN  Beside(h, g) /\ Rx(h, g) /\ g.out = h.out
<1> DEFINE g == Closing(h)
           Alike(k) == Beside(h, k) /\ Rx(h, k) /\ k.out = h.out
<1>1. Alike([h EXCEPT !.closing_timer = DART_CLOSING_TIMER_VAL])
    BY DEF Beside, Rx
<1>2. Alike([h EXCEPT !.wrk = FALSE, !.closing_timer = DART_CHILL_TIMER_VAL])
    BY DEF Beside, Rx
<1>3. Alike([h EXCEPT !.closing_timer = Off, !.idle = ~h.rdy])
    BY DEF Beside, Rx
<1>4. Alike([h EXCEPT !.wrk = TRUE])
    BY DEF Beside, Rx
<1>5. Alike(h)
    BY DEF Beside, Rx
<1> HIDE DEF Alike
<1>6. Alike(g)
    BY <1>1, <1>2, <1>3, <1>4, <1>5 DEF Closing
<1> QED
    BY <1>6 DEF Alike

\* A transfer ends only when the time for its answer is over.
LEMMA TimeDoes ==
    ASSUME NEW h, NEW s, NEW f \in [Msg -> Fates], Handles(h, s, f, NoMsg),
           Tries(h.transfering, h.tx_attempts), ~h.complete, h.out = Nothing,
           h.pending_request = station[s].pending_request
    PROVE  LET g == dart_handle_time(h)
           IN  /\ Rx(h, g) /\ Quiet(h, g)
               /\ \/ GoesOn(h, g, Nothing)
                  \/ h.transfering = NoList /\ StartsAfter(g, Nothing)
                  \/ /\ h.transfering # NoList /\ h.tx_ack_timer = 0
                     /\ StopsAfter(g, Nothing) \/ StartsAfter(g, Nothing)
<1> DEFINE x == IF h.pending_request # NoMsg /\ h.tx_response_timer = 0
                THEN dart_abandon_request_msg(h) ELSE h
           g == dart_handle_time(h)
<1>1. Handles(x, s, f, NoMsg) /\ Tries(x.transfering, x.tx_attempts)
    BY Abandoned
<1>2. Leads(h, x) /\ Quiet(h, x)
  <2>1. CASE h.pending_request # NoMsg /\ h.tx_response_timer = 0
    <3>1. x = dart_abandon_request_msg(h)
        BY <2>1
    <3> QED
        BY <2>1, <3>1, AbandonLeads
  <2>2. CASE ~(h.pending_request # NoMsg /\ h.tx_response_timer = 0)
    <3>1. x = h
        BY <2>2
    <3>2. Beside(h, h) /\ Rx(h, h)
        BY DEF Beside, Rx
    <3> QED
        BY <3>1, <3>2, BesideGoes
  <2> QED
      BY <2>1, <2>2
<1>3. g = CASE x.transfering # NoList -> Transfering(x)
          [] x.transfering = NoList /\ Sendable(x) # {}
                -> IF x.wakeup_timer = 0
                   THEN [x EXCEPT !.wakeup_timer = Off, !.wrk = FALSE]
                   ELSE dart_trigger_transfer(x)
          [] dart_is_idle(x) -> Closing(x)
          [] OTHER -> x
    BY DEF dart_handle_time
<1> HIDE DEF x, g
<1>4. x \in Handler /\ Transfers(x.queue, x.transfering, x.pending_request)
    BY <1>1 DEF Handles
<1>5. Beside(x, x) /\ Rx(x, x)
    BY DEF Beside, Rx
<1>6. \/ Leads(x, g) /\ Quiet(x, g)
      \/ x.transfering # NoList /\ x.tx_ack_timer = 0 /\ Ended(x, g) /\ Quiet(x, g)
  <2>1. CASE x.transfering # NoList
    <3>1. g = Transfering(x)
      <4>1. ~dart_is_idle(x)
          BY <2>1 DEF dart_is_idle, dart_is_sending
      <4> QED
          BY <1>3, <2>1, <4>1
    <3>2. CASE x.tx_ack_timer # 0
      <4>1. g = x
          BY <3>1, <3>2 DEF Transfering
      <4> QED
          BY <1>5, <4>1, BesideGoes
    <3>3. CASE x.tx_ack_timer = 0 /\ x.rdy
      <4>1. g = dart_retry_transfer(x)
          BY <3>1, <3>3 DEF Transfering
      <4> QED
          BY <1>1, <2>1, <3>3, <4>1, RetryEnds
    <3>4. CASE x.tx_ack_timer = 0 /\ ~x.rdy
      <4>1. g = [x EXCEPT !.tx_ack_timer = Off, !.transfering = NoList]
          BY <3>1, <3>4 DEF Transfering
      <4>2. Rx(x, g) /\ g.out = x.out /\ g.tell = x.tell /\ g.pending_request = x.pending_request
          BY <4>1 DEF Rx
      <4>3. g.transfering = NoList
          BY <1>4, <4>1 DEF Handler
      <4>4. Quiet(x, g)
          BY <4>2, SameTells DEF Quiet
      <4> QED
          BY <2>1, <3>4, <4>2, <4>3, <4>4 DEF Ended, Stops
    <3> QED
        BY <3>2, <3>3, <3>4
  <2>2. CASE x.transfering = NoList /\ Sendable(x) # {}
    <3>1. ~dart_is_idle(x)
        BY <1>4, <2>2, SendableIs DEF dart_is_idle, dart_is_sending
    <3>2. CASE x.wakeup_timer = 0
      <4>1. g = [x EXCEPT !.wakeup_timer = Off, !.wrk = FALSE]
          BY <1>3, <2>2, <3>1, <3>2
      <4>2. Beside(x, g) /\ Rx(x, g) /\ g.out = x.out
          BY <4>1 DEF Beside, Rx
      <4> QED
          BY <4>2, BesideGoes
    <3>3. CASE x.wakeup_timer # 0
      <4>1. g = dart_trigger_transfer(x)
          BY <1>3, <2>2, <3>1, <3>3
      <4> QED
          BY <1>4, <4>1, TriggerLeads, Triggered, SameQuiet
    <3> QED
        BY <3>2, <3>3
  <2>3. CASE x.transfering = NoList /\ Sendable(x) = {} /\ dart_is_idle(x)
    <3>1. g = Closing(x)
        BY <1>3, <2>3
    <3> QED
        BY <3>1, ClosingBeside, BesideGoes
  <2>4. CASE x.transfering = NoList /\ Sendable(x) = {} /\ ~dart_is_idle(x)
    <3>1. g = x
        BY <1>3, <2>4
    <3> QED
        BY <1>5, <3>1, BesideGoes
  <2> QED
      BY <2>1, <2>2, <2>3, <2>4
<1>7. Quiet(h, g)
    BY <1>2, <1>6, QuietOn
<1>8. \/ Leads(h, g)
      \/ h.transfering # NoList /\ h.tx_ack_timer = 0 /\ Ended(h, g)
  <2>1. CASE Leads(x, g)
      BY <1>2, <2>1, LeadsOn
  <2>2. CASE x.transfering # NoList /\ x.tx_ack_timer = 0 /\ Ended(x, g)
    <3>1. DART_ACK_TIMER_VAL # 0
        BY DartAssumption DEF TimersInOrder
    <3>2. Goes(h, x) /\ Rx(h, x)
        BY <1>2, <2>2, <3>1 DEF Leads, Starts
    <3> QED
        BY <2>2, <3>2 DEF Goes, Ended, Rx, Stops, Starts
  <2> QED
      BY <1>6, <2>1, <2>2
<1>9. Rx(h, g)
    BY <1>8 DEF Leads, Ended
<1> QED
    BY <1>7, <1>8, <1>9, LeadsAfter, EndedAfter DEF g

LEMMA SendDoes ==
    ASSUME NEW h, NEW s, NEW f \in [Msg -> Fates], Handles(h, s, f, NoMsg),
           NEW m \in Msg, m.from = s, Learnt(f, h.tell)[m] = "new",
           ~h.complete, h.say = NoMsg, NoneTaken(h.tell), h.out = Nothing
    PROVE  LET g == dart_send_msg(h, m)
           IN  /\ Rx(h, g) /\ Tells(h, g, {}, {})
               /\ g.pending_request = h.pending_request
               /\ \/ GoesOn(h, g, Nothing)
                  \/ h.transfering = NoList /\ StartsAfter(g, Nothing)
<1> DEFINE g == dart_send_msg(h, m)
<1>1. m # NoMsg
    BY Assumptions
<1>2. Leads(h, g) /\ Tells(h, g, {}, {}) /\ g.pending_request = h.pending_request
    BY <1>1, SendLeads, Sent
<1> QED
    BY <1>2, LeadsAfter DEF Leads

\* A station is called as it was left.
Like(h, c) ==
    /\ h.queue = c.queue /\ h.pending_request = c.pending_request
    /\ h.transfering = c.transfering /\ h.tx_ack_timer = c.tx_ack_timer
    /\ h.rx_buffer = c.rx_buffer /\ h.rx_byte_timer = c.rx_byte_timer

LEMMA BeginsLike ==
    ASSUME IInv, NEW s \in Node, NEW at \in Calls(s, Unsent(s) \cup {NoMsg})
    PROVE  Like(at, station[s]) /\ at.out = Nothing /\ at.tell = <<>>
<1> DEFINE c == station[s]
           rdy == station[Other(s)].wrk
<1>1. c \in Station /\ rdy \in BOOLEAN
    BY OtherIs DEF IInv, TypeOK, Station
<1>2. PICK say \in Unsent(s) \cup {NoMsg} : at = Called(c, rdy, say)
    BY DEF Calls
<1>3. say \in Msg \cup {NoMsg}
    BY DEF Unsent
<1> HIDE DEF c, rdy
<1>4. Like(at, c) /\ at.out = <<>> /\ at.tell = <<>>
  <2> DEFINE k == Called(c, rdy, say)
  <2>1. Like(k, c) /\ k.out = <<>> /\ k.tell = <<>>
      BY <1>1, <1>3, CalledIs DEF Like
  <2> HIDE DEF k
  <2>2. at = k
      BY <1>2 DEF k
  <2> QED
      BY <2>1, <2>2
<1> QED
    BY <1>4 DEF Nothing, c

LEMMA LeftLike ==
    ASSUME NEW h \in Handler
    PROVE  Like(Left(h), h)
BY LeftIs DEF Like

----------------------------------------------------------------------------
(* The tokens on a line.                                                   *)

\* The tokens t are what is left of seq after one was lost or damaged.
Thinner(t, seq) ==
    \E o \in {0, 1} : \A i \in 1..Len(t) :
        i + o \in 1..Len(seq) /\ (t[i] = seq[i + o] \/ t[i].k = "noise")

LEMMA ThinnerKeeps ==
    ASSUME NEW seq \in Seq(Tokens), NEW t \in Seq(Tokens), Thinner(t, seq),
           NEW K, "noise" \notin K, NEW m
    PROVE  /\ Carries(t, K) => Carries(seq, K)
           /\ Single(seq, K) => Single(t, K)
           /\ Framed(seq, m) => Framed(t, m)
           /\ Bodies(seq, m) => Bodies(t, m)
           /\ t # <<>> => seq # <<>>
<1>0. Len(seq) \in Nat /\ Len(t) \in Nat
    BY LenProperties
<1>1. PICK o \in {0, 1} : \A i \in 1..Len(t) :
        i + o \in 1..Len(seq) /\ (t[i] = seq[i + o] \/ t[i].k = "noise")
    BY DEF Thinner
<1>2. o \in Int
    BY <1>1
<1>3. Carries(t, K) => Carries(seq, K)
    BY <1>1 DEF Carries
<1>4. ASSUME Single(seq, K)
      PROVE  Single(t, K)
  <2> SUFFICES ASSUME NEW i \in 1..Len(t), NEW j \in 1..Len(t), t[i].k \in K, t[j].k \in K
               PROVE  i = j
      BY DEF Single
  <2>1. /\ i + o \in 1..Len(seq) /\ seq[i + o].k \in K
        /\ j + o \in 1..Len(seq) /\ seq[j + o].k \in K
      BY <1>1
  <2>2. i + o = j + o
      BY <1>4, <2>1 DEF Single
  <2> QED
      BY <1>0, <1>2, <2>2
<1>5. ASSUME Framed(seq, m)
      PROVE  Framed(t, m)
  <2> SUFFICES ASSUME NEW i \in 1..Len(t), NEW j \in 1..Len(t), i < j,
                      t[i].k = "SYNC", t[j].k = "body"
               PROVE  t[j].msg = m
      BY DEF Framed
  <2>1. i + o \in 1..Len(seq) /\ t[i] = seq[i + o]
      BY <1>1
  <2>2. j + o \in 1..Len(seq) /\ t[j] = seq[j + o]
      BY <1>1
  <2>3. i + o < j + o
      BY <1>0, <1>2
  <2> QED
      BY <1>5, <2>1, <2>2, <2>3 DEF Framed
<1>6. Bodies(seq, m) => Bodies(t, m)
    BY <1>1 DEF Bodies
<1>7. ASSUME t # <<>>
      PROVE  seq # <<>>
  <2>1. 1 \in 1..Len(t)
      BY <1>0, <1>7, EmptySeq
  <2>2. 1..Len(seq) # {}
      BY <1>1, <2>1
  <2> QED
      BY <2>2
<1> QED
    BY <1>3, <1>4, <1>5, <1>6, <1>7

LEMMA StaysThin ==
    ASSUME NEW seq \in Seq(Tokens)
    PROVE  Thinner(seq, seq)
<1>1. Len(seq) \in Nat
    BY LenProperties
<1>2. \A i \in 1..Len(seq) : i + 0 \in 1..Len(seq) /\ seq[i] = seq[i + 0]
    BY <1>1
<1> QED
    BY <1>2 DEF Thinner

LEMMA TailThins ==
    ASSUME NEW seq \in Seq(Tokens), seq # <<>>
    PROVE  Tail(seq) \in Seq(Tokens) /\ Thinner(Tail(seq), seq)
<1> DEFINE t == Tail(seq)
<1>1. /\ t \in Seq(Tokens) /\ Len(t) = Len(seq) - 1 /\ Len(seq) \in Nat
      /\ \A i \in 1..Len(t) : t[i] = seq[i + 1]
    BY HeadTailProperties, LenProperties
<1> HIDE DEF t
<1>2. \A i \in 1..Len(t) : i + 1 \in 1..Len(seq) /\ t[i] = seq[i + 1]
    BY <1>1
<1>3. Thinner(t, seq)
    BY <1>2 DEF Thinner
<1> QED
    BY <1>1, <1>3 DEF t

LEMMA NoiseThins ==
    ASSUME NEW seq \in Seq(Tokens), seq # <<>>
    PROVE  LET t == [seq EXCEPT ![1] = Token("noise", NoMsg)]
           IN  t \in Seq(Tokens) /\ Thinner(t, seq)
<1> DEFINE e == Token("noise", NoMsg)
           t == [seq EXCEPT ![1] = e]
<1>1. 1 \in 1..Len(seq) /\ Len(seq) \in Nat
    BY EmptySeq, LenProperties
<1>2. e \in Tokens /\ e.k = "noise"
    BY TokensAre DEF Token
<1> HIDE DEF e
<1>3. /\ t \in Seq(Tokens) /\ Len(t) = Len(seq)
      /\ \A j \in 1..Len(seq) : t[j] = IF j = 1 THEN e ELSE seq[j]
    BY <1>1, <1>2, ExceptSeq
<1> HIDE DEF t
<1>4. \A i \in 1..Len(t) : i + 0 \in 1..Len(seq) /\ (t[i] = seq[i + 0] \/ t[i].k = "noise")
    BY <1>1, <1>2, <1>3
<1>5. Thinner(t, seq)
    BY <1>4 DEF Thinner
<1> QED
    BY <1>3, <1>5 DEF t, e

LEMMA HeadIs ==
    ASSUME NEW seq \in Seq(Tokens), seq # <<>>
    PROVE  /\ Tail(seq) \in Seq(Tokens) /\ Len(seq) \in Nat /\ Len(Tail(seq)) = Len(seq) - 1
           /\ 1 \in 1..Len(seq) /\ Head(seq) = seq[1]
           /\ \A i \in 1..Len(Tail(seq)) : i + 1 \in 1..Len(seq) /\ Tail(seq)[i] = seq[i + 1]
           /\ \A i \in 1..Len(seq) : i = 1
                \/ (i - 1 \in 1..Len(Tail(seq)) /\ Tail(seq)[i - 1] = seq[i])
<1> DEFINE t == Tail(seq)
<1>1. /\ t \in Seq(Tokens) /\ Len(t) = Len(seq) - 1 /\ Len(seq) \in Nat
      /\ \A i \in 1..Len(t) : t[i] = seq[i + 1]
    BY HeadTailProperties, LenProperties
<1>2. 1 \in 1..Len(seq) /\ Head(seq) = seq[1]
    BY <1>1, EmptySeq
<1> HIDE DEF t
<1>3. \A i \in 1..Len(t) : i + 1 \in 1..Len(seq) /\ t[i] = seq[i + 1]
    BY <1>1
<1>4. ASSUME NEW i \in 1..Len(seq), i # 1
      PROVE  i - 1 \in 1..Len(t) /\ t[i - 1] = seq[i]
  <2>1. i - 1 \in 1..Len(t) /\ (i - 1) + 1 = i
      BY <1>1, <1>4
  <2> QED
      BY <1>1, <2>1
<1> QED
    BY <1>1, <1>2, <1>3, <1>4 DEF t

\* What is known when the first token is taken.
LEMMA HeadTaken ==
    ASSUME NEW seq \in Seq(Tokens), seq # <<>>, NEW K, NEW m
    PROVE  /\ Head(seq).k \in K => Carries(seq, K)
           /\ Head(seq).k \in K /\ Single(seq, K) => ~Carries(Tail(seq), K)
           /\ Carries(seq, K) /\ Head(seq).k \notin K => Carries(Tail(seq), K)
           /\ Head(seq).k = "SYNC" /\ Framed(seq, m) => Bodies(Tail(seq), m)
           /\ Head(seq).k = "body" /\ Bodies(seq, m) => Head(seq).msg = m
<1> DEFINE t == Tail(seq)
<1>1. /\ Len(seq) \in Nat /\ 1 \in 1..Len(seq) /\ Head(seq) = seq[1]
      /\ Len(t) = Len(seq) - 1
      /\ \A i \in 1..Len(t) : i + 1 \in 1..Len(seq) /\ t[i] = seq[i + 1]
      /\ \A i \in 1..Len(seq) : i = 1 \/ (i - 1 \in 1..Len(t) /\ t[i - 1] = seq[i])
    BY HeadIs
<1> HIDE DEF t
<1>2. Head(seq).k \in K => Carries(seq, K)
    BY <1>1 DEF Carries
<1>3. ASSUME Head(seq).k \in K, Single(seq, K), NEW i \in 1..Len(t), t[i].k \in K
      PROVE  FALSE
  <2>1. i + 1 \in 1..Len(seq) /\ seq[i + 1].k \in K /\ seq[1].k \in K
      BY <1>1, <1>3
  <2>2. i + 1 = 1
      BY <1>1, <1>3, <2>1 DEF Single
  <2> QED
      BY <1>1, <2>2
<1>4. ASSUME Carries(seq, K), Head(seq).k \notin K
      PROVE  Carries(t, K)
    BY <1>1, <1>4 DEF Carries
<1>5. ASSUME Head(seq).k = "SYNC", Framed(seq, m), NEW i \in 1..Len(t), t[i].k = "body"
      PROVE  t[i].msg = m
  <2>1. i + 1 \in 1..Len(seq) /\ seq[i + 1] = t[i] /\ 1 < i + 1
      BY <1>1
  <2> QED
      BY <1>1, <1>5, <2>1 DEF Framed
<1>6. Head(seq).k = "body" /\ Bodies(seq, m) => Head(seq).msg = m
    BY <1>1 DEF Bodies
<1> QED
    BY <1>2, <1>3, <1>4, <1>5, <1>6 DEF Carries, Bodies, t

LEMMA Appends ==
    ASSUME NEW seq \in Seq(Tokens), NEW r \in Seq(Tokens), NEW K, NEW m
    PROVE  LET t == seq \o r
           IN  /\ t \in Seq(Tokens)
               /\ Carries(t, K) <=> Carries(seq, K) \/ Carries(r, K)
               /\ ~Carries(r, K) /\ Single(seq, K) => Single(t, K)
               /\ ~Carries(seq, K) /\ Single(r, K) => Single(t, K)
               /\ ~Carries(r, {"body"}) /\ Framed(seq, m) => Framed(t, m)
               /\ ~Carries(seq, {"SYNC"}) /\ Framed(r, m) => Framed(t, m)
               /\ ~Carries(r, {"body"}) /\ Bodies(seq, m) => Bodies(t, m)
<1> DEFINE t == seq \o r
           n == Len(seq)
<1>1. /\ t \in Seq(Tokens) /\ n \in Nat /\ Len(r) \in Nat /\ Len(t) = n + Len(r)
      /\ \A i \in 1..Len(t) : t[i] = IF i <= n THEN seq[i] ELSE r[i - n]
    BY ConcatProperties, LenProperties
<1> HIDE DEF t, n
<1>2. \A i \in 1..Len(t) : \/ i \in 1..n /\ t[i] = seq[i]
                           \/ i - n \in 1..Len(r) /\ t[i] = r[i - n] /\ i > n
    BY <1>1
<1>3. \A i \in 1..n : i \in 1..Len(t) /\ t[i] = seq[i]
    BY <1>1
<1>4. \A i \in 1..Len(r) : i + n \in 1..Len(t) /\ t[i + n] = r[i]
  <2> SUFFICES ASSUME NEW i \in 1..Len(r)
               PROVE  i + n \in 1..Len(t) /\ t[i + n] = r[i]
      OBVIOUS
  <2>1. i + n \in 1..Len(t) /\ ~(i + n <= n) /\ (i + n) - n = i
      BY <1>1
  <2> QED
      BY <1>1, <2>1
<1>5. Carries(t, K) <=> Carries(seq, K) \/ Carries(r, K)
  <2>1. Carries(t, K) => Carries(seq, K) \/ Carries(r, K)
      BY <1>2 DEF Carries, n
  <2>2. Carries(seq, K) => Carries(t, K)
      BY <1>3 DEF Carries, n
  <2>3. Carries(r, K) => Carries(t, K)
      BY <1>4 DEF Carries
  <2> QED
      BY <2>1, <2>2, <2>3
<1>6. ASSUME ~Carries(r, K), Single(seq, K)
      PROVE  Single(t, K)
    BY <1>2, <1>6 DEF Carries, Single, n
<1>7. ASSUME ~Carries(seq, K), Single(r, K)
      PROVE  Single(t, K)
  <2> SUFFICES ASSUME NEW i \in 1..Len(t), NEW j \in 1..Len(t), t[i].k \in K, t[j].k \in K
               PROVE  i = j
      BY DEF Single
  <2>1. /\ i - n \in 1..Len(r) /\ r[i - n].k \in K
        /\ j - n \in 1..Len(r) /\ r[j - n].k \in K
      BY <1>2, <1>7 DEF Carries, n
  <2>2. i - n = j - n
      BY <1>7, <2>1 DEF Single
  <2> QED
      BY <1>1, <2>2
<1>8. ASSUME ~Carries(r, {"body"}), Framed(seq, m)
      PROVE  Framed(t, m)
  <2> SUFFICES ASSUME NEW i \in 1..Len(t), NEW j \in 1..Len(t), i < j,
                      t[i].k = "SYNC", t[j].k = "body"
               PROVE  t[j].msg = m
      BY DEF Framed
  <2>1. j \in 1..n /\ t[j] = seq[j]
      BY <1>2, <1>8 DEF Carries
  <2>2. i \in 1..n /\ t[i] = seq[i]
      BY <1>1, <1>2, <2>1
  <2> QED
      BY <1>8, <2>1, <2>2 DEF Framed, n
<1>9. ASSUME ~Carries(seq, {"SYNC"}), Framed(r, m)
      PROVE  Framed(t, m)
  <2> SUFFICES ASSUME NEW i \in 1..Len(t), NEW j \in 1..Len(t), i < j,
                      t[i].k = "SYNC", t[j].k = "body"
               PROVE  t[j].msg = m
      BY DEF Framed
  <2>1. i - n \in 1..Len(r) /\ t[i] = r[i - n] /\ i > n
      BY <1>2, <1>9 DEF Carries, n
  <2>2. j - n \in 1..Len(r) /\ t[j] = r[j - n]
      BY <1>1, <1>2, <2>1
  <2>3. i - n < j - n
      BY <1>1
  <2> QED
      BY <1>9, <2>1, <2>2, <2>3 DEF Framed
<1>10. ASSUME ~Carries(r, {"body"}), Bodies(seq, m)
       PROVE  Bodies(t, m)
    BY <1>2, <1>10 DEF Carries, Bodies, n
<1> QED
    BY <1>1, <1>5, <1>6, <1>7, <1>8, <1>9, <1>10 DEF t

Replies == {Nothing, Ack, Bad}

LEMMA RepliesAre ==
    ASSUME NEW r \in Replies
    PROVE  /\ r \in Seq(Tokens)
           /\ ~Carries(r, {"SYNC"}) /\ ~Carries(r, {"body"})
           /\ r = Nothing => ~Carries(r, Answers)
           /\ r # Nothing => Carries(r, Answers)
           /\ Single(r, Answers)
           /\ Carries(r, {"ACK"}) => r = Ack
<1>1. CASE r = Nothing
  <2>1. r \in Seq(Tokens) /\ 1..Len(r) = {}
      BY <1>1 DEF Nothing
  <2> QED
      BY <1>1, <2>1 DEF Carries, Single
<1>2. ASSUME NEW k \in Answers, r = <<Token(k, NoMsg)>>
      PROVE  /\ r \in Seq(Tokens) /\ r # Nothing
             /\ ~Carries(r, {"SYNC"}) /\ ~Carries(r, {"body"})
             /\ Carries(r, Answers) /\ Single(r, Answers)
             /\ Carries(r, {"ACK"}) => k = "ACK"
  <2>1. Token(k, NoMsg) \in Tokens
      BY <1>2, TokensAre DEF Answers
  <2>2. r \in Seq(Tokens) /\ Len(r) = 1 /\ r[1] = Token(k, NoMsg) /\ r # Nothing
      BY <1>2, <2>1 DEF Nothing
  <2>3. 1..Len(r) = {1} /\ r[1].k = k
      BY <2>2 DEF Token
  <2>4. r \in Seq(Tokens) /\ r # Nothing
      BY <2>2
  <2> QED
      BY <2>3, <2>4 DEF Carries, Single, Answers
<1>3. "ACK" \in Answers /\ "BAD" \in Answers
    BY DEF Answers
<1>4. CASE r = Ack
  <2>1. r = <<Token("ACK", NoMsg)>>
      BY <1>4 DEF Ack
  <2> QED
      BY <1>2, <1>3, <1>4, <2>1
<1>5. CASE r = Bad
  <2>1. r = <<Token("BAD", NoMsg)>>
      BY <1>5 DEF Bad
  <2> QED
      BY <1>2, <1>3, <2>1
<1> QED
    BY <1>1, <1>4, <1>5 DEF Replies

LEMMA FrameCarries ==
    ASSUME NEW m \in Msg
    PROVE  LET w == Frame(m)
           IN  /\ w \in Seq(Tokens)
               /\ Carries(w, {"SYNC"}) /\ Single(w, {"SYNC"}) /\ Framed(w, m)
               /\ ~Carries(w, Answers) /\ ~Carries(w, {"ACK"})
<1> DEFINE w == Frame(m)
<1>1. w \in Seq(Tokens)
    BY FrameIs
<1>2. Len(w) = 2 /\ w[1] = Token("SYNC", NoMsg) /\ w[2] = Token("body", m)
    BY DEF Frame
<1> HIDE DEF w
<1>3. w[1].k = "SYNC" /\ w[2].k = "body" /\ w[2].msg = m
    BY <1>2 DEF Token
<1>4. \A i : i \in 1..Len(w) <=> i = 1 \/ i = 2
    BY <1>2
<1>5. Carries(w, {"SYNC"}) /\ Single(w, {"SYNC"})
    BY <1>3, <1>4 DEF Carries, Single
<1>6. Framed(w, m)
    BY <1>3, <1>4 DEF Framed
<1>7. ~Carries(w, Answers) /\ ~Carries(w, {"ACK"})
    BY <1>3, <1>4 DEF Carries, Answers
<1> QED
    BY <1>1, <1>5, <1>6, <1>7 DEF w

\* An answer followed by a frame.
LEMMA ReplyAndFrame ==
    ASSUME NEW r \in Replies, NEW m \in Msg
    PROVE  LET w == r \o Frame(m)
           IN  /\ w \in Seq(Tokens)
               /\ Carries(w, {"SYNC"}) /\ Single(w, {"SYNC"}) /\ Framed(w, m)
               /\ Carries(w, Answers) <=> Carries(r, Answers)
               /\ Single(w, Answers)
               /\ Carries(w, {"ACK"}) <=> Carries(r, {"ACK"})
<1>1. /\ r \in Seq(Tokens) /\ ~Carries(r, {"SYNC"}) /\ Single(r, Answers)
    BY RepliesAre
<1>2. /\ Frame(m) \in Seq(Tokens)
      /\ Carries(Frame(m), {"SYNC"}) /\ Single(Frame(m), {"SYNC"}) /\ Framed(Frame(m), m)
      /\ ~Carries(Frame(m), Answers) /\ ~Carries(Frame(m), {"ACK"})
    BY FrameCarries
<1> QED
    BY <1>1, <1>2, Appends

----------------------------------------------------------------------------
(* The turns.                                                              *)

LEMMA Intervals ==
    /\ DART_BYTE_TIMER_VAL \in Nat /\ DART_ACK_TIMER_VAL \in Nat
    /\ 0 < DART_BYTE_TIMER_VAL /\ DART_BYTE_TIMER_VAL < DART_ACK_TIMER_VAL
BY DartAssumption DEF TimersInOrder

LEMMA Kinds ==
    "noise" \notin {"SYNC"} /\ "noise" \notin Answers /\ "noise" \notin {"ACK"}
BY DEF Answers

\* A token that is lost or damaged ends the turn or leaves it as it is.
LEMMA TurnThins ==
    ASSUME NEW c, NEW d, NEW fwd \in Seq(Tokens), NEW back \in Seq(Tokens), NEW R,
           Turn(c, d, fwd, back, R),
           NEW f \in Seq(Tokens), Thinner(f, fwd), NEW b \in Seq(Tokens), Thinner(b, back),
           NEW S, R \subseteq S
    PROVE  Turn(c, d, f, b, S)
<1>1. /\ Carries(f, {"SYNC"}) => Carries(fwd, {"SYNC"})
      /\ Single(fwd, {"SYNC"}) => Single(f, {"SYNC"})
      /\ Framed(fwd, Current(c)) => Framed(f, Current(c))
      /\ Bodies(fwd, Current(c)) => Bodies(f, Current(c))
      /\ f # <<>> => fwd # <<>>
    BY Kinds, ThinnerKeeps
<1>2. /\ Carries(b, Answers) => Carries(back, Answers)
      /\ Single(back, Answers) => Single(b, Answers)
      /\ Carries(b, {"ACK"}) => Carries(back, {"ACK"})
    BY Kinds, ThinnerKeeps
<1>3. CASE Rests(d, fwd, back)
    BY <1>1, <1>2, <1>3 DEF Turn, Rests
<1>4. CASE Begun(c, d, fwd, back)
    BY <1>1, <1>2, <1>4 DEF Turn, Rests, Begun
<1>5. CASE Heard(c, d, fwd, back)
    BY <1>1, <1>2, <1>5 DEF Turn, Heard
<1>6. CASE Answered(c, d, fwd, back, R)
    BY <1>1, <1>2, <1>6 DEF Turn, Rests, Answered
<1> QED
    BY <1>3, <1>4, <1>5, <1>6 DEF Turn

\* The answer that was taken was the only one.
LEMMA AnswerTaken ==
    ASSUME NEW c, NEW d, NEW fwd \in Seq(Tokens), NEW back \in Seq(Tokens), NEW R,
           Turn(c, d, fwd, back, R), back # <<>>, Head(back).k \in Answers
    PROVE  /\ Rests(d, fwd, Tail(back))
           /\ Head(back).k = "ACK" => Current(c) \in R
<1>1. Carries(back, Answers)
    BY HeadTaken
<1>2. Answered(c, d, fwd, back, R)
    BY <1>1 DEF Turn, Rests, Begun, Heard
<1>3. ~Carries(Tail(back), Answers)
    BY <1>2, HeadTaken DEF Answered
<1>4. Head(back).k = "ACK" => Carries(back, {"ACK"})
    BY HeadTaken
<1> QED
    BY <1>2, <1>3, <1>4 DEF Answered, Rests

\* What the sender of the transfer does.
LEMMA SenderTurns ==
    ASSUME NEW c, NEW g, NEW d, NEW fwd \in Seq(Tokens), NEW back \in Seq(Tokens), NEW R,
           Turn(c, d, fwd, back, R), NEW r \in Replies,
           \/ GoesOn(c, g, r)
           \/ Rests(d, fwd, back) /\ (StartsAfter(g, r) \/ StopsAfter(g, r)),
           r # Nothing => Sends(c, DART_ACK_TIMER_VAL) \/ Sends(d, DART_ACK_TIMER_VAL)
    PROVE  Turn(g, d, fwd \o g.out, back, R)
<1>1. /\ r \in Seq(Tokens) /\ ~Carries(r, {"SYNC"}) /\ ~Carries(r, {"body"})
    BY RepliesAre
<1>2. CASE GoesOn(c, g, r)
  <2>1. /\ g.out = r /\ g.transfering = c.transfering /\ g.tx_ack_timer = c.tx_ack_timer
        /\ c.transfering # NoList => Current(g) = Current(c)
      BY <1>2 DEF GoesOn
  <2> DEFINE f == fwd \o r
  <2>2. /\ Carries(f, {"SYNC"}) <=> Carries(fwd, {"SYNC"})
        /\ Single(fwd, {"SYNC"}) => Single(f, {"SYNC"})
        /\ Framed(fwd, Current(c)) => Framed(f, Current(c))
        /\ Bodies(fwd, Current(c)) => Bodies(f, Current(c))
      BY <1>1, Appends
  <2>3. f # <<>> => fwd # <<>> \/ r # Nothing
    <3>1. <<>> \o <<>> = <<>>
        OBVIOUS
    <3> QED
        BY <3>1 DEF Nothing
  <2> HIDE DEF f
  <2>4. \A time : Sends(c, time) => Sends(g, time) /\ Current(g) = Current(c)
      BY <2>1 DEF Sends
  <2>5. Turn(g, d, f, back, R)
    <3>1. CASE Rests(d, fwd, back)
        BY <2>2, <3>1 DEF Turn, Rests
    <3>2. CASE Begun(c, d, fwd, back)
        BY <2>2, <2>4, <3>2 DEF Turn, Begun
    <3>3. CASE Heard(c, d, fwd, back)
        BY <2>2, <2>3, <2>4, <3>3 DEF Turn, Heard
    <3>4. CASE Answered(c, d, fwd, back, R)
        BY <2>2, <2>4, <3>4 DEF Turn, Answered
    <3> QED
        BY <3>1, <3>2, <3>3, <3>4 DEF Turn
  <2> QED
      BY <2>1, <2>5 DEF f
<1>3. CASE Rests(d, fwd, back) /\ StopsAfter(g, r)
  <2>1. ~Carries(fwd \o r, {"SYNC"})
      BY <1>1, <1>3, Appends DEF Rests
  <2> QED
      BY <1>3, <2>1 DEF StopsAfter, Turn, Rests
<1>4. CASE Rests(d, fwd, back) /\ StartsAfter(g, r)
  <2> DEFINE m == Current(g)
             w == r \o Frame(m)
  <2>1. m \in Msg /\ g.out = w /\ Sends(g, DART_ACK_TIMER_VAL)
      BY <1>4, Intervals DEF StartsAfter, Sends
  <2>2. /\ w \in Seq(Tokens)
        /\ Carries(w, {"SYNC"}) /\ Single(w, {"SYNC"}) /\ Framed(w, m)
      BY <2>1, ReplyAndFrame
  <2> HIDE DEF w
  <2>3. /\ Carries(fwd \o w, {"SYNC"}) /\ Single(fwd \o w, {"SYNC"})
        /\ Framed(fwd \o w, m)
      BY <1>4, <2>2, Appends DEF Rests
  <2> QED
      BY <1>4, <2>1, <2>3 DEF Turn, Rests, Begun, m
<1> QED
    BY <1>2, <1>3, <1>4

\* What the receiver does unless it takes a token.
LEMMA ReceiverTurns ==
    ASSUME NEW c, NEW d, NEW g, NEW fwd \in Seq(Tokens), NEW back \in Seq(Tokens), NEW R,
           Turn(c, d, fwd, back, R), d.rx_byte_timer \in Timer(DART_BYTE_TIMER_VAL),
           Rx(d, g),
           d.transfering # NoList /\ d.tx_ack_timer # 0 =>
                g.transfering = d.transfering /\ g.tx_ack_timer = d.tx_ack_timer,
           NEW w \in Seq(Tokens), ~Carries(w, Answers)
    PROVE  Turn(c, g, fwd, back \o w, R)
<1> DEFINE b == back \o w
<1>1. /\ b \in Seq(Tokens)
      /\ Carries(b, Answers) <=> Carries(back, Answers)
      /\ Single(back, Answers) => Single(b, Answers)
    BY Appends
<1>2. Carries(b, {"ACK"}) <=> Carries(back, {"ACK"})
  <2>1. ~Carries(w, {"ACK"})
      BY DEF Carries, Answers
  <2> QED
      BY <2>1, Appends
<1> HIDE DEF b
<1>3. Hears(g) <=> Hears(d)
    BY DEF Rx, Hears
<1>4. g.rx_buffer = d.rx_buffer /\ g.rx_byte_timer = d.rx_byte_timer
    BY DEF Rx
<1>5. CASE Rests(d, fwd, back)
    BY <1>1, <1>3, <1>5 DEF Turn, Rests, b
<1>6. CASE Begun(c, d, fwd, back)
    BY <1>1, <1>3, <1>6 DEF Turn, Begun, b
<1>7. CASE Heard(c, d, fwd, back)
  <2> DEFINE time == d.rx_byte_timer + DART_ACK_TIMER_VAL - DART_BYTE_TIMER_VAL
  <2>1. d.rx_byte_timer \in Nat \ {0}
      BY <1>7, Intervals DEF Heard, Hears, Timer, Off
  <2>2. time # 0 /\ ~(0 >= DART_ACK_TIMER_VAL)
      BY <2>1, Intervals
  <2> HIDE DEF time
  <2>3. d.transfering # NoList /\ d.tx_ack_timer = time
            => g.transfering # NoList /\ g.tx_ack_timer = time
      BY <2>2
  <2>4. Sends(d, DART_ACK_TIMER_VAL) => Sends(g, DART_ACK_TIMER_VAL)
      BY <2>2 DEF Sends
  <2>5. Sends(c, time) \/ (g.transfering # NoList /\ g.tx_ack_timer = time)
      BY <1>7, <2>3 DEF Heard, time
  <2>6. fwd # <<>> => Sends(c, DART_ACK_TIMER_VAL) \/ Sends(g, DART_ACK_TIMER_VAL)
      BY <1>7, <2>4 DEF Heard
  <2>7. Heard(c, g, fwd, b)
    <3>1. Hears(g) /\ g.rx_byte_timer # Off /\ ~Carries(fwd, {"SYNC"}) /\ ~Carries(b, Answers)
        BY <1>1, <1>3, <1>4, <1>7 DEF Heard
    <3>2. /\ g.rx_buffer = "sync" => Bodies(fwd, Current(c))
          /\ Sends(c, time - DART_BYTE_TIMER_VAL + 1)
        BY <1>4, <1>7 DEF Heard, time
    <3>3. time = g.rx_byte_timer + DART_ACK_TIMER_VAL - DART_BYTE_TIMER_VAL
        BY <1>4 DEF time
    <3> QED
        BY <2>5, <2>6, <3>1, <3>2, <3>3 DEF Heard
  <2> QED
      BY <2>7 DEF Turn, b
<1>8. CASE Answered(c, d, fwd, back, R)
    BY <1>1, <1>2, <1>3, <1>8 DEF Turn, Answered, b
<1> QED
    BY <1>5, <1>6, <1>7, <1>8 DEF Turn

\* A token that finds no frame begun.
LEMMA TokenAlone ==
    ASSUME NEW c, NEW d, NEW g, NEW fwd \in Seq(Tokens), NEW back \in Seq(Tokens), NEW R,
           Turn(c, d, fwd, back, R), fwd # <<>>, ~Hears(d),
           c.tx_ack_timer \in Timer(DART_ACK_TIMER_VAL),
           IF Head(fwd).k = "SYNC"
           THEN g.rx_buffer = "sync" /\ g.rx_byte_timer = DART_BYTE_TIMER_VAL
           ELSE ~Hears(g),
           NEW w \in Seq(Tokens), ~Carries(w, Answers)
    PROVE  Turn(c, g, Tail(fwd), back \o w, R)
<1> DEFINE b == back \o w
           f == Tail(fwd)
           m == Current(c)
<1>1. /\ b \in Seq(Tokens)
      /\ Carries(b, Answers) <=> Carries(back, Answers)
      /\ Single(back, Answers) => Single(b, Answers)
    BY Appends
<1>2. Carries(b, {"ACK"}) <=> Carries(back, {"ACK"})
  <2>1. ~Carries(w, {"ACK"})
      BY DEF Carries, Answers
  <2> QED
      BY <2>1, Appends
<1>3. f \in Seq(Tokens) /\ Thinner(f, fwd)
    BY TailThins
<1>4. /\ Carries(f, {"SYNC"}) => Carries(fwd, {"SYNC"})
      /\ Single(fwd, {"SYNC"}) => Single(f, {"SYNC"})
      /\ Framed(fwd, m) => Framed(f, m)
    BY <1>3, Kinds, ThinnerKeeps
<1>5. /\ Head(fwd).k = "SYNC" => Carries(fwd, {"SYNC"})
      /\ Head(fwd).k = "SYNC" /\ Single(fwd, {"SYNC"}) => ~Carries(f, {"SYNC"})
      /\ Carries(fwd, {"SYNC"}) /\ Head(fwd).k # "SYNC" => Carries(f, {"SYNC"})
      /\ Head(fwd).k = "SYNC" /\ Framed(fwd, m) => Bodies(f, m)
    BY HeadTaken
<1> HIDE DEF b, f, m
<1>6. CASE Rests(d, fwd, back)
    BY <1>1, <1>4, <1>5, <1>6 DEF Turn, Rests, b, f
<1>7. CASE Begun(c, d, fwd, back) /\ Head(fwd).k # "SYNC"
    BY <1>1, <1>4, <1>5, <1>7 DEF Turn, Begun, b, f, m
<1>8. CASE Begun(c, d, fwd, back) /\ Head(fwd).k = "SYNC"
  <2>1. g.rx_buffer = "sync" /\ g.rx_byte_timer = DART_BYTE_TIMER_VAL
      BY <1>8
  <2>2. Hears(g) /\ g.rx_byte_timer # Off
      BY <2>1, Intervals DEF Hears, Off
  <2>3. ~Carries(f, {"SYNC"}) /\ Bodies(f, m) /\ ~Carries(b, Answers)
      BY <1>1, <1>5, <1>8 DEF Begun, m
  <2>4. Sends(c, DART_ACK_TIMER_VAL)
      BY <1>8 DEF Begun
  <2>5. g.rx_byte_timer + DART_ACK_TIMER_VAL - DART_BYTE_TIMER_VAL = DART_ACK_TIMER_VAL
      BY <2>1, Intervals
  <2>6. Sends(c, DART_ACK_TIMER_VAL - DART_BYTE_TIMER_VAL + 1)
    <3>1. c.tx_ack_timer >= DART_ACK_TIMER_VAL /\ c.transfering # NoList
        BY <2>4 DEF Sends
    <3>2. c.tx_ack_timer \in Int
        BY Intervals DEF Timer, Off
    <3>3. c.tx_ack_timer >= DART_ACK_TIMER_VAL - DART_BYTE_TIMER_VAL + 1
        BY <3>1, <3>2, Intervals
    <3> QED
        BY <3>1, <3>3 DEF Sends
  <2>7. Heard(c, g, f, b)
      BY <2>2, <2>3, <2>4, <2>5, <2>6 DEF Heard, m
  <2> QED
      BY <2>7 DEF Turn, b, f
<1>9. CASE Answered(c, d, fwd, back, R)
    BY <1>1, <1>2, <1>4, <1>5, <1>9 DEF Turn, Answered, b, f
<1>10. ~Heard(c, d, fwd, back)
    BY DEF Heard
<1> QED
    BY <1>6, <1>7, <1>8, <1>9, <1>10 DEF Turn

\* The byte that completes the frame.
LEMMA TokenAnswers ==
    ASSUME AnswersInTime,
           NEW c, NEW d, NEW g, NEW fwd \in Seq(Tokens), NEW back \in Seq(Tokens), NEW R,
           Turn(c, d, fwd, back, R), fwd # <<>>, Head(fwd).k = "body",
           c.tx_ack_timer \in Timer(DART_ACK_TIMER_VAL),
           Hears(d), d.rx_buffer = "sync", d.rx_byte_timer \in Timer(DART_BYTE_TIMER_VAL),
           ~Hears(g),
           NEW w \in Seq(Tokens), Carries(w, Answers), Single(w, Answers),
           NEW S, R \subseteq S, Head(fwd).msg \in S
    PROVE  Turn(c, g, Tail(fwd), back \o w, S)
<1> DEFINE b == back \o w
           f == Tail(fwd)
<1>1. Heard(c, d, fwd, back)
    BY DEF Turn, Rests, Begun, Answered
<1>2. Carries(b, Answers) /\ Single(b, Answers)
    BY <1>1, Appends DEF Heard
<1>3. ~Carries(f, {"SYNC"})
    BY <1>1, TailThins, ThinnerKeeps, Kinds DEF Heard
<1>4. Current(c) = Head(fwd).msg
    BY <1>1, HeadTaken DEF Heard
<1> HIDE DEF b, f
<1>5. Sends(c, 1)
  <2>1. d.rx_byte_timer \in Nat \ {0}
      BY <1>1, Intervals DEF Heard, Hears, Timer, Off
  <2>2. c.tx_ack_timer \in Int
      BY Intervals DEF Timer, Off
  <2>3. /\ c.transfering # NoList
        /\ c.tx_ack_timer >= (d.rx_byte_timer + DART_ACK_TIMER_VAL - DART_BYTE_TIMER_VAL)
                                - DART_BYTE_TIMER_VAL + 1
      BY <1>1 DEF Heard, Sends
  <2>4. c.tx_ack_timer >= 1
      BY <2>1, <2>2, <2>3, Intervals DEF AnswersInTime
  <2> QED
      BY <2>3, <2>4 DEF Sends
<1>6. Answered(c, g, f, b, S)
    BY <1>2, <1>3, <1>4, <1>5 DEF Answered
<1> QED
    BY <1>6 DEF Turn, b, f

\* A byte that does not go on with the frame.
LEMMA TokenMisread ==
    ASSUME AnswersInTime,
           NEW c, NEW d, NEW g, NEW fwd \in Seq(Tokens), NEW back \in Seq(Tokens), NEW R,
           Turn(c, d, fwd, back, R), fwd # <<>>,
           c.tx_ack_timer \in Timer(DART_ACK_TIMER_VAL),
           d.tx_ack_timer \in Timer(DART_ACK_TIMER_VAL),
           Hears(d), d.rx_byte_timer \in Timer(DART_BYTE_TIMER_VAL),
           NEW r \in {Nothing, Bad}, GoesOn(d, g, r),
           \/ ~Hears(g)
           \/ /\ r = Nothing /\ g.rx_buffer = "broken"
              /\ g.rx_byte_timer = IF d.rx_byte_timer = Off THEN Off ELSE DART_BYTE_TIMER_VAL
    PROVE  Turn(c, g, Tail(fwd), back \o r, R)
<1> DEFINE b == back \o r
           f == Tail(fwd)
           time == d.rx_byte_timer + DART_ACK_TIMER_VAL - DART_BYTE_TIMER_VAL
<1>1. Heard(c, d, fwd, back)
    BY DEF Turn, Rests, Begun, Answered
<1>2. r \in Replies /\ r # Ack
  <2>1. Bad[1] = Token("BAD", NoMsg) /\ Ack[1] = Token("ACK", NoMsg)
      BY DEF Bad, Ack
  <2>2. Token("BAD", NoMsg).k # Token("ACK", NoMsg).k
      BY DEF Token
  <2>3. Bad # Ack
      BY <2>1, <2>2
  <2>4. Nothing # Ack
      BY DEF Nothing, Ack
  <2> QED
      BY <2>3, <2>4 DEF Replies
<1>3. r \in Seq(Tokens) /\ Single(r, Answers) /\ ~Carries(r, {"ACK"})
      /\ (r = Nothing => ~Carries(r, Answers)) /\ (r # Nothing => Carries(r, Answers))
    BY <1>2, RepliesAre
<1>4. ~Carries(f, {"SYNC"})
    BY <1>1, TailThins, ThinnerKeeps, Kinds DEF Heard
<1>5. /\ Carries(b, Answers) <=> Carries(r, Answers)
      /\ Single(b, Answers)
    BY <1>1, <1>3, Appends DEF Heard
<1>6. ~Carries(b, {"ACK"})
  <2>1. ~Carries(back, {"ACK"})
      BY <1>1 DEF Heard, Carries, Answers
  <2> QED
      BY <1>3, <2>1, Appends
<1> HIDE DEF b, f
<1>7. /\ d.rx_byte_timer \in Nat \ {0} /\ d.rx_byte_timer <= DART_BYTE_TIMER_VAL
      /\ c.tx_ack_timer \in Int /\ d.tx_ack_timer \in Int
      /\ d.tx_ack_timer <= DART_ACK_TIMER_VAL
    BY <1>1, Intervals DEF Heard, Hears, Timer, Off
<1>8. time \in Int /\ time >= DART_ACK_TIMER_VAL - DART_BYTE_TIMER_VAL + 1
      /\ time <= DART_ACK_TIMER_VAL
      /\ (time = DART_ACK_TIMER_VAL => d.rx_byte_timer = DART_BYTE_TIMER_VAL)
    BY <1>7, Intervals
<1>9. /\ Sends(c, time - DART_BYTE_TIMER_VAL + 1)
      /\ Sends(c, time) \/ (d.transfering # NoList /\ d.tx_ack_timer = time)
      /\ Sends(c, DART_ACK_TIMER_VAL) \/ Sends(d, DART_ACK_TIMER_VAL)
    BY <1>1 DEF Heard
<1> HIDE DEF time
<1>10. CASE ~Hears(g) /\ r = Nothing
    BY <1>3, <1>4, <1>5, <1>10 DEF Turn, Rests, b, f
<1>11. CASE ~Hears(g) /\ r # Nothing
  <2>1. c.transfering # NoList /\ c.tx_ack_timer >= time - DART_BYTE_TIMER_VAL + 1
      BY <1>9 DEF Sends
  <2>2. c.tx_ack_timer >= 1
      BY <1>7, <1>8, <2>1, Intervals DEF AnswersInTime
  <2>3. Answered(c, g, f, b, R)
      BY <1>3, <1>4, <1>5, <1>6, <1>11, <2>1, <2>2 DEF Answered, Sends
  <2> QED
      BY <2>3 DEF Turn, b, f
<1>12. CASE Hears(g)
  <2>1. r = Nothing /\ g.rx_buffer = "broken" /\ g.rx_byte_timer = DART_BYTE_TIMER_VAL
      BY <1>7, <1>12, Intervals DEF Off
  <2>2. g.rx_byte_timer + DART_ACK_TIMER_VAL - DART_BYTE_TIMER_VAL = DART_ACK_TIMER_VAL
      BY <2>1, Intervals
  <2>3. Sends(c, DART_ACK_TIMER_VAL) \/ (g.transfering # NoList /\ g.tx_ack_timer = DART_ACK_TIMER_VAL)
    <3>1. CASE Sends(c, DART_ACK_TIMER_VAL)
        BY <3>1
    <3>2. CASE Sends(d, DART_ACK_TIMER_VAL)
      <4>1. d.transfering # NoList /\ d.tx_ack_timer = DART_ACK_TIMER_VAL
          BY <1>7, <3>2, Intervals DEF Sends
      <4> QED
          BY <4>1 DEF GoesOn
    <3> QED
        BY <1>9, <3>1, <3>2
  <2>4. Sends(c, DART_ACK_TIMER_VAL - DART_BYTE_TIMER_VAL + 1)
    <3>1. CASE Sends(c, time)
        BY <1>7, <1>8, <3>1, Intervals DEF Sends
    <3>2. CASE ~Sends(c, time) /\ Sends(c, DART_ACK_TIMER_VAL)
        BY <1>7, <3>2, Intervals DEF Sends
    <3>3. CASE ~Sends(c, time) /\ ~Sends(c, DART_ACK_TIMER_VAL)
      <4>1. time = DART_ACK_TIMER_VAL
          BY <1>7, <1>8, <1>9, <3>3, Intervals DEF Sends
      <4> QED
          BY <1>9, <4>1
    <3> QED
        BY <3>1, <3>2, <3>3
  <2>5. g.rx_byte_timer # Off /\ ~Carries(b, Answers)
      BY <1>3, <1>5, <2>1, Intervals DEF Off
  <2>6. Sends(c, DART_ACK_TIMER_VAL) \/ Sends(g, DART_ACK_TIMER_VAL)
      BY <2>3, Intervals DEF Sends
  <2>7. g.rx_buffer # "sync"
      BY <2>1
  <2>8. Heard(c, g, f, b)
      BY <1>4, <1>12, <2>2, <2>3, <2>4, <2>5, <2>6, <2>7 DEF Heard
  <2> QED
      BY <2>8 DEF Turn, b, f
<1> QED
    BY <1>10, <1>11, <1>12

\* A turn is about the transfer and the receive buffer.
LEMMA TurnLike ==
    ASSUME NEW c, NEW d, NEW h, NEW g, Like(h, c), Like(g, d), NEW fwd, NEW back, NEW R,
           Turn(c, d, fwd, back, R)
    PROVE  Turn(h, g, fwd, back, R)
<1>1. /\ Current(h) = Current(c)
      /\ Hears(g) <=> Hears(d)
      /\ \A time : (Sends(h, time) <=> Sends(c, time)) /\ (Sends(g, time) <=> Sends(d, time))
    BY DEF Like, Current, Hears, Sends
<1>2. /\ g.rx_buffer = d.rx_buffer /\ g.rx_byte_timer = d.rx_byte_timer
      /\ g.transfering = d.transfering /\ g.tx_ack_timer = d.tx_ack_timer
    BY DEF Like
<1>3. Rests(d, fwd, back) => Rests(g, fwd, back)
    BY <1>1 DEF Rests
<1>4. Begun(c, d, fwd, back) => Begun(h, g, fwd, back)
    BY <1>1 DEF Begun
<1>5. Heard(c, d, fwd, back) => Heard(h, g, fwd, back)
    BY <1>1, <1>2 DEF Heard
<1>6. Answered(c, d, fwd, back, R) => Answered(h, g, fwd, back, R)
    BY <1>1 DEF Answered
<1> QED
    BY <1>3, <1>4, <1>5, <1>6 DEF Turn

\* The sender waits for its answer when there can be one.
LEMMA TurnWaits ==
    ASSUME AnswersInTime, NEW c, NEW d, NEW fwd, NEW back, NEW R,
           Turn(c, d, fwd, back, R),
           c.tx_ack_timer \in Timer(DART_ACK_TIMER_VAL),
           d.rx_byte_timer \in Timer(DART_BYTE_TIMER_VAL)
    PROVE  Rests(d, fwd, back) \/ Sends(c, 1)
<1>1. c.tx_ack_timer \in Int
    BY Intervals DEF Timer, Off
<1>2. CASE Begun(c, d, fwd, back)
    BY <1>1, <1>2, Intervals DEF Begun, Sends
<1>3. CASE Heard(c, d, fwd, back)
  <2>1. d.rx_byte_timer \in Nat \ {0}
      BY <1>3, Intervals DEF Heard, Hears, Timer, Off
  <2>2. /\ c.transfering # NoList
        /\ c.tx_ack_timer >= (d.rx_byte_timer + DART_ACK_TIMER_VAL - DART_BYTE_TIMER_VAL)
                                - DART_BYTE_TIMER_VAL + 1
      BY <1>3 DEF Heard, Sends
  <2>3. c.tx_ack_timer >= 1
      BY <1>1, <2>1, <2>2, Intervals DEF AnswersInTime
  <2> QED
      BY <2>2, <2>3 DEF Sends
<1> QED
    BY <1>2, <1>3 DEF Turn, Answered

\* Time passes when nothing is on the lines.
LEMMA TurnTicks ==
    ASSUME NEW c, NEW d, NEW h, NEW g, NEW R, Turn(c, d, <<>>, <<>>, R),
           c.tx_ack_timer \in Timer(DART_ACK_TIMER_VAL),
           d.tx_ack_timer \in Timer(DART_ACK_TIMER_VAL),
           d.rx_byte_timer \in Timer(DART_BYTE_TIMER_VAL),
           h.queue = c.queue, h.transfering = c.transfering,
           h.tx_ack_timer = Less(c.tx_ack_timer),
           g.transfering = d.transfering, g.tx_ack_timer = Less(d.tx_ack_timer),
           g.rx_buffer = d.rx_buffer, g.rx_byte_timer = Less(d.rx_byte_timer)
    PROVE  Turn(h, g, <<>>, <<>>, R)
<1>1. \A K : ~Carries(<<>>, K)
    BY DEF Carries
<1>2. /\ c.tx_ack_timer \in Int /\ d.tx_ack_timer \in Int /\ d.rx_byte_timer \in Int
      /\ d.rx_byte_timer >= -1
    BY Intervals DEF Timer, Off
<1>3. CASE ~Hears(g)
    BY <1>1, <1>3 DEF Turn, Rests
<1>4. CASE Hears(g)
  <2>1. Hears(d)
      BY <1>2, <1>4 DEF Hears, Less
  <2>2. Heard(c, d, <<>>, <<>>)
      BY <1>1, <2>1 DEF Turn, Rests, Begun, Answered
  <2> DEFINE time == d.rx_byte_timer + DART_ACK_TIMER_VAL - DART_BYTE_TIMER_VAL
             less == g.rx_byte_timer + DART_ACK_TIMER_VAL - DART_BYTE_TIMER_VAL
  <2>3. /\ d.rx_byte_timer > 0 /\ g.rx_byte_timer = d.rx_byte_timer - 1 /\ g.rx_byte_timer # Off
        /\ time \in Int /\ less = time - 1 /\ less > 0
    <3>1. d.rx_byte_timer > 0
        BY <1>2, <2>1, <2>2 DEF Heard, Hears, Off
    <3>2. g.rx_byte_timer = d.rx_byte_timer - 1
        BY <3>1 DEF Less
    <3> QED
        BY <1>2, <1>4, <3>1, <3>2, Intervals DEF Off, Hears
  <2>4. /\ Sends(c, time - DART_BYTE_TIMER_VAL + 1)
        /\ Sends(c, time) \/ (d.transfering # NoList /\ d.tx_ack_timer = time)
      BY <2>2 DEF Heard
  <2> HIDE DEF time, less
  <2>5. \A n \in Int : Sends(c, n) => Sends(h, n - 1)
      BY <1>2 DEF Sends, Less
  <2>6. time - DART_BYTE_TIMER_VAL + 1 \in Int
        /\ (time - DART_BYTE_TIMER_VAL + 1) - 1 = less - DART_BYTE_TIMER_VAL + 1
      BY <2>3, Intervals
  <2>7. Sends(h, less - DART_BYTE_TIMER_VAL + 1)
      BY <2>4, <2>5, <2>6
  <2>8. Sends(h, less) \/ (g.transfering # NoList /\ g.tx_ack_timer = less)
    <3>1. CASE Sends(c, time)
        BY <2>3, <2>5, <3>1
    <3>2. CASE d.transfering # NoList /\ d.tx_ack_timer = time
        BY <1>2, <2>3, <3>2 DEF Less
    <3> QED
        BY <2>4, <3>1, <3>2
  <2>9. ~Carries(<<>>, {"SYNC"}) /\ ~Carries(<<>>, Answers)
      BY <1>1
  <2>10. Bodies(<<>>, Current(h))
      BY DEF Bodies
  <2>11. Heard(h, g, <<>>, <<>>)
      BY <1>4, <2>3, <2>7, <2>8, <2>9, <2>10 DEF Heard, less
  <2> QED
      BY <2>11 DEF Turn
<1> QED
    BY <1>3, <1>4

\* The answer of a handler is what it puts on the line.
LEMMA OutIs ==
    ASSUME NEW c, NEW g, NEW r \in Replies,
           GoesOn(c, g, r) \/ StartsAfter(g, r) \/ StopsAfter(g, r)
    PROVE  /\ g.out \in Seq(Tokens)
           /\ Carries(g.out, Answers) <=> r # Nothing
           /\ Single(g.out, Answers)
<1>1. /\ r \in Seq(Tokens) /\ Single(r, Answers)
      /\ Carries(r, Answers) <=> r # Nothing
    BY RepliesAre
<1>2. CASE g.out = r
    BY <1>1, <1>2
<1>3. CASE Current(g) \in Msg /\ g.out = r \o Frame(Current(g))
    BY <1>1, <1>3, ReplyAndFrame
<1> QED
    BY <1>2, <1>3 DEF GoesOn, StartsAfter, StopsAfter

Timed(c) ==
    /\ c.tx_ack_timer \in Timer(DART_ACK_TIMER_VAL)
    /\ c.rx_byte_timer \in Timer(DART_BYTE_TIMER_VAL)

\* Both turns of a station h and the other one o, which becomes g by a call that
\* takes no token.  The tokens toO are on their way to o, toH to h.
LEMMA TimeTurns ==
    ASSUME AnswersInTime,
           NEW h, NEW g, NEW o, NEW toO \in Seq(Tokens), NEW toH \in Seq(Tokens), NEW R,
           Timed(h), Timed(o),
           Turn(h, o, toO, toH, R), Turn(o, h, toH, toO, R),
           Rx(h, g),
           \/ GoesOn(h, g, Nothing)
           \/ h.transfering = NoList /\ StartsAfter(g, Nothing)
           \/ /\ h.transfering # NoList /\ h.tx_ack_timer = 0
              /\ StopsAfter(g, Nothing) \/ StartsAfter(g, Nothing)
    PROVE  /\ Turn(g, o, toO \o g.out, toH, R)
           /\ Turn(o, g, toH, toO \o g.out, R)
<1>1. Nothing \in Replies
    BY DEF Replies
<1>2. g.out \in Seq(Tokens) /\ ~Carries(g.out, Answers)
    BY <1>1, OutIs
<1>3. ~Sends(h, 1) => Rests(o, toO, toH)
    BY TurnWaits DEF Timed
<1>4. GoesOn(h, g, Nothing) \/ ~Sends(h, 1)
    BY DEF Sends
<1>5. GoesOn(h, g, Nothing) \/ StartsAfter(g, Nothing) \/ StopsAfter(g, Nothing)
    OBVIOUS
<1>6. Turn(g, o, toO \o g.out, toH, R)
    BY <1>1, <1>3, <1>4, <1>5, SenderTurns
<1>7. h.transfering # NoList /\ h.tx_ack_timer # 0
        => g.transfering = h.transfering /\ g.tx_ack_timer = h.tx_ack_timer
    BY DEF GoesOn
<1>8. Turn(o, g, toH, toO \o g.out, R)
    BY <1>2, <1>7, ReceiverTurns DEF Timed
<1> QED
    BY <1>6, <1>8

\* The same for a byte that finds no frame begun.
LEMMA AloneTurns ==
    ASSUME AnswersInTime,
           NEW h, NEW g, NEW o, NEW toO \in Seq(Tokens), NEW toH \in Seq(Tokens), NEW R,
           Timed(h), Timed(o),
           Turn(h, o, toO, toH, R), Turn(o, h, toH, toO, R), toH # <<>>, ~Hears(h),
           IF Head(toH).k = "SYNC"
           THEN g.rx_buffer = "sync" /\ g.rx_byte_timer = DART_BYTE_TIMER_VAL
           ELSE ~Hears(g),
           \/ GoesOn(h, g, Nothing)
           \/ Head(toH).k \in Answers /\ (StartsAfter(g, Nothing) \/ StopsAfter(g, Nothing))
    PROVE  /\ Turn(g, o, toO \o g.out, Tail(toH), R)
           /\ Turn(o, g, Tail(toH), toO \o g.out, R)
<1>1. Nothing \in Replies
    BY DEF Replies
<1>2. g.out \in Seq(Tokens) /\ ~Carries(g.out, Answers)
    BY <1>1, OutIs
<1>3. Tail(toH) \in Seq(Tokens) /\ Thinner(Tail(toH), toH) /\ Thinner(toO, toO)
    BY TailThins, StaysThin
<1>4. Turn(h, o, toO, Tail(toH), R)
    BY <1>3, TurnThins
<1>5. Head(toH).k \in Answers => Rests(o, toO, Tail(toH))
    BY AnswerTaken
<1>6. Turn(g, o, toO \o g.out, Tail(toH), R)
  <2>1. \/ GoesOn(h, g, Nothing)
        \/ Rests(o, toO, Tail(toH)) /\ (StartsAfter(g, Nothing) \/ StopsAfter(g, Nothing))
      BY <1>5
  <2> QED
      BY <1>1, <1>3, <1>4, <2>1, SenderTurns
<1>7. Turn(o, g, Tail(toH), toO \o g.out, R)
    BY <1>2, TokenAlone DEF Timed
<1> QED
    BY <1>6, <1>7

\* While a frame is received nothing of the time for its answer has passed, or of
\* that for the answer to a frame in the other direction.
LEMMA HeardSoon ==
    ASSUME NEW c, NEW d, NEW fwd, NEW back, NEW R,
           Turn(c, d, fwd, back, R), Hears(d), fwd # <<>>
    PROVE  Sends(d, DART_ACK_TIMER_VAL) \/ Sends(c, DART_ACK_TIMER_VAL)
BY DEF Turn, Rests, Begun, Heard, Answered

\* The same for the byte that completes a frame, a message of S.
LEMMA AnswerTurns ==
    ASSUME AnswersInTime,
           NEW h, NEW g, NEW o, NEW toO \in Seq(Tokens), NEW toH \in Seq(Tokens), NEW R,
           Timed(h), Timed(o),
           Turn(h, o, toO, toH, R), Turn(o, h, toH, toO, R), toH # <<>>,
           Hears(h), h.rx_buffer = "sync", Head(toH).k = "body", ~Hears(g),
           GoesOn(h, g, Ack) \/ (h.transfering = NoList /\ StartsAfter(g, Ack)),
           NEW S, R \subseteq S, Head(toH).msg \in S
    PROVE  /\ Turn(g, o, toO \o g.out, Tail(toH), S)
           /\ Turn(o, g, Tail(toH), toO \o g.out, S)
<1>1. Ack \in Replies /\ Ack # Nothing
  <2>1. Ack # Nothing
      BY DEF Nothing, Ack
  <2> QED
      BY <2>1 DEF Replies
<1>2. g.out \in Seq(Tokens) /\ Carries(g.out, Answers) /\ Single(g.out, Answers)
    BY <1>1, OutIs
<1>3. Tail(toH) \in Seq(Tokens) /\ Thinner(Tail(toH), toH) /\ Thinner(toO, toO)
    BY TailThins, StaysThin
<1>4. Turn(h, o, toO, Tail(toH), S)
    BY <1>3, TurnThins
<1>5. ~Sends(h, 1) => Rests(o, toO, Tail(toH))
    BY <1>4, TurnWaits DEF Timed
<1>6. \/ GoesOn(h, g, Ack)
      \/ Rests(o, toO, Tail(toH)) /\ (StartsAfter(g, Ack) \/ StopsAfter(g, Ack))
    BY <1>5 DEF Sends
<1>7. Sends(h, DART_ACK_TIMER_VAL) \/ Sends(o, DART_ACK_TIMER_VAL)
    BY HeardSoon
<1>8. Turn(g, o, toO \o g.out, Tail(toH), S)
    BY <1>1, <1>3, <1>4, <1>6, <1>7, SenderTurns
<1>9. Turn(o, g, Tail(toH), toO \o g.out, S)
    BY <1>2, TokenAnswers DEF Timed
<1> QED
    BY <1>8, <1>9

\* The same for another byte within a frame.
LEMMA MisreadTurns ==
    ASSUME AnswersInTime,
           NEW h, NEW g, NEW o, NEW toO \in Seq(Tokens), NEW toH \in Seq(Tokens), NEW R,
           Timed(h), Timed(o),
           Turn(h, o, toO, toH, R), Turn(o, h, toH, toO, R), toH # <<>>, Hears(h),
           NEW r \in {Nothing, Bad}, GoesOn(h, g, r),
           \/ ~Hears(g)
           \/ /\ r = Nothing /\ g.rx_buffer = "broken"
              /\ g.rx_byte_timer = IF h.rx_byte_timer = Off THEN Off ELSE DART_BYTE_TIMER_VAL
    PROVE  /\ Turn(g, o, toO \o g.out, Tail(toH), R)
           /\ Turn(o, g, Tail(toH), toO \o g.out, R)
<1>1. r \in Replies /\ g.out = r
    BY DEF Replies, GoesOn
<1>2. Tail(toH) \in Seq(Tokens) /\ Thinner(Tail(toH), toH) /\ Thinner(toO, toO)
    BY TailThins, StaysThin
<1>3. Turn(h, o, toO, Tail(toH), R)
    BY <1>2, TurnThins
<1>4. Sends(h, DART_ACK_TIMER_VAL) \/ Sends(o, DART_ACK_TIMER_VAL)
    BY HeardSoon
<1>5. Turn(g, o, toO \o g.out, Tail(toH), R)
    BY <1>1, <1>2, <1>3, <1>4, SenderTurns
<1>6. Turn(o, g, Tail(toH), toO \o r, R)
    BY TokenMisread DEF Timed
<1> QED
    BY <1>1, <1>5, <1>6

----------------------------------------------------------------------------
(* What was received, and what is done.                                    *)

LEMMA GotGrows ==
    ASSUME NEW q \in Seq(Msg), NEW R, Few(R)
    PROVE  LET t == q \o SetToSeq(R \ Range(q))
           IN  t \in Seq(Msg) /\ Range(t) = Range(q) \cup R
<1> DEFINE S == R \ Range(q)
           w == SetToSeq(S)
<1>1. Few(S)
    BY DEF Few
<1>2. w \in Seq(Msg) /\ Range(w) = S
  <2>1. CASE w = <<>> /\ S = {}
      BY <2>1 DEF Range
  <2>2. ASSUME NEW m \in Msg, S = {m}, w = <<m>>
        PROVE  w \in Seq(Msg) /\ Range(w) = S
    <3>1. w \in Seq(Msg) /\ DOMAIN w = 1..1 /\ w[1] = m
        BY <2>2
    <3> HIDE DEF w
    <3>2. \A i \in 1..1 : i = 1
        OBVIOUS
    <3>3. 1 \in 1..1
        OBVIOUS
    <3> QED
        BY <2>2, <3>1, <3>2, <3>3 DEF Range
  <2> QED
      BY <1>1, <2>1, <2>2, SeqOfFew
<1> HIDE DEF w
<1>3. q \o w \in Seq(Msg) /\ Range(q \o w) = Range(q) \cup Range(w)
    BY <1>2, ConcatProperties, RangeConcatenation
<1> QED
    BY <1>2, <1>3 DEF w

\* A message that may be reported done when the messages R were received.
Proven(m, R) ==
    /\ m \in R
    /\ m.kind = "REQUEST" => \E r \in R : r.kind = "RESPONSE" /\ r.id = m.id

LEMMA DoneStays ==
    ASSUME DoneMeansReceived, fate \in [Msg -> Fates],
           NEW h, h.tell \in Seq(Msg \X Codes), fate' = Learnt(fate, h.tell),
           Range(got) \subseteq Range(got'),
           \A m \in Told(h, "done") : Proven(m, Range(got'))
    PROVE  DoneMeansReceived'
<1> SUFFICES ASSUME NEW m \in Msg, fate'[m] = "done"
             PROVE  Proven(m, Range(got'))
    BY DEF DoneMeansReceived, Proven
<1>1. CASE fate[m] = "done"
    BY <1>1 DEF DoneMeansReceived, Proven
<1>2. CASE fate[m] # "done"
  <2>1. PICK i \in DOMAIN h.tell : h.tell[i] = <<m, "done">>
      BY <1>2, LearntIs
  <2>2. h.tell[i][1] = m
      BY <2>1, FirstOf
  <2>3. h.tell[i][2] = "done"
      BY <2>1, SecondOf
  <2>4. m \in Told(h, "done")
      BY <2>2, <2>3 DEF Told
  <2> QED
      BY <2>4
<1> QED
    BY <1>1, <1>2

----------------------------------------------------------------------------
(* The turns are kept.                                                     *)

LEMMA PairIs ==
    ASSUME NEW s \in Node
    PROVE  Other(Other(s)) = s /\ \A t \in Node : t = s \/ t = Other(s)
BY DartLinkAssumption DEF Other, Node

LEMMA CallBegins ==
    ASSUME IInv, TurnsKept, NEW s \in Node, NEW at \in Calls(s, Unsent(s) \cup {NoMsg})
    PROVE  LET o == Other(s)
           IN  /\ Timed(at) /\ Timed(station[o])
               /\ line[o] \in Seq(Tokens) /\ line[s] \in Seq(Tokens)
               /\ Turn(at, station[o], line[o], line[s], Range(got))
               /\ Turn(station[o], at, line[s], line[o], Range(got))
               /\ at.out = Nothing /\ Told(at, "done") = {} /\ Told(at, "received") = {}
               /\ at.pending_request \in Range(got) \cup {NoMsg}
<1> DEFINE o == Other(s)
<1>1. o \in Node /\ Other(o) = s
    BY OtherIs, PairIs
<1>2. /\ station[s] \in Station /\ station[o] \in Station
      /\ line[o] \in Seq(Tokens) /\ line[s] \in Seq(Tokens)
    BY <1>1 DEF IInv, TypeOK
<1>3. Like(at, station[s]) /\ at.out = Nothing /\ at.tell = <<>>
    BY BeginsLike
<1>4. Like(station[o], station[o])
    BY DEF Like
<1>5. /\ Turn(station[s], station[o], line[o], line[s], Range(got))
      /\ Turn(station[o], station[s], line[s], line[o], Range(got))
      /\ Reached(s)
    BY <1>1 DEF TurnsKept
<1> HIDE DEF o
<1>6. /\ Turn(at, station[o], line[o], line[s], Range(got))
      /\ Turn(station[o], at, line[s], line[o], Range(got))
    BY <1>3, <1>4, <1>5, TurnLike
<1>7. Timed(at) /\ Timed(station[o])
    BY <1>2, <1>3 DEF Timed, Like, Station
<1>8. Told(at, "done") = {} /\ Told(at, "received") = {}
    BY <1>3 DEF Told
<1>9. at.pending_request \in Range(got) \cup {NoMsg}
    BY <1>3, <1>5 DEF Like, Reached
<1> QED
    BY <1>2, <1>3, <1>6, <1>7, <1>8, <1>9 DEF o

LEMMA CallEnds ==
    ASSUME IInv, TurnsKept, NEW s \in Node, NEW h \in Handler, Leave(s, h),
           NEW R, Few(R), Told(h, "received") = R,
           \A m \in Told(h, "done") : Proven(m, Range(got) \cup R),
           h.pending_request \in Range(got) \cup R \cup {NoMsg},
           Turn(h, station[Other(s)], line'[Other(s)], line'[s], Range(got) \cup R),
           Turn(station[Other(s)], h, line'[s], line'[Other(s)], Range(got) \cup R),
           R # {} => /\ R = {Current(station[Other(s)])}
                     /\ station[Other(s)].transfering # NoList
    PROVE  TurnsKept' /\ Arrives
<1> DEFINE o == Other(s)
           G == Range(got) \cup R
<1>1. o \in Node /\ Other(o) = s /\ o # s /\ \A t \in Node : t = s \/ t = o
    BY OtherIs, PairIs
<1>2. /\ got' \in Seq(Msg) /\ Range(got') = G
      /\ got' = got \/ \E m \in R : m \notin Range(got) /\ got' = Append(got, m)
  <2> DEFINE S == R \ Range(got)
  <2>1. got' = got \o SetToSeq(S) /\ got \in Seq(Msg)
      BY DEF Leave, TurnsKept
  <2>2. got' \in Seq(Msg) /\ Range(got') = G
      BY <2>1, GotGrows
  <2>3. Few(S)
      BY DEF Few
  <2>4. CASE SetToSeq(S) = <<>>
      BY <2>1, <2>2, <2>4, ConcatEmptySeq
  <2>5. ASSUME NEW m \in Msg, S = {m}, SetToSeq(S) = <<m>>
        PROVE  m \in R /\ m \notin Range(got) /\ got' = Append(got, m)
    <3>1. m \in S
        BY <2>5
    <3>2. got' = got \o <<m>>
        BY <2>1, <2>5
    <3>3. got' = Append(got, m)
        BY <2>1, <3>2, AppendIsConcat
    <3> QED
        BY <3>1, <3>3
  <2> QED
      BY <2>2, <2>3, <2>4, <2>5, SeqOfFew
<1>3. station'[s] = Left(h) /\ station'[o] = station[o]
    BY <1>1 DEF Leave, IInv, TypeOK
<1>4. Like(Left(h), h) /\ Like(station[o], station[o])
    BY LeftLike DEF Like
<1>5. /\ Turn(h, station[o], line'[o], line'[s], G)
      /\ Turn(station[o], h, line'[s], line'[o], G)
    OBVIOUS
<1>6. Reached(o) /\ got \in Seq(Msg) /\ DoneMeansReceived
    BY <1>1 DEF TurnsKept
<1>7. Range(got) \subseteq G /\ h.pending_request \in G \cup {NoMsg}
    OBVIOUS
<1> HIDE DEF o, G
<1>8. /\ Turn(station'[s], station'[o], line'[o], line'[s], Range(got'))
      /\ Turn(station'[o], station'[s], line'[s], line'[o], Range(got'))
    BY <1>2, <1>3, <1>4, <1>5, TurnLike
<1>9. Reached(s)' /\ Reached(o)'
  <2>1. Reached(s)'
      BY <1>2, <1>3, <1>4, <1>7 DEF Reached, Like
  <2>2. Reached(o)'
      BY <1>2, <1>3, <1>6, <1>7 DEF Reached
  <2> QED
      BY <2>1, <2>2
<1>10. DoneMeansReceived'
  <2>1. fate \in [Msg -> Fates] /\ h.tell \in Seq(Msg \X Codes)
      BY DEF IInv, TypeOK, Fates, Handler
  <2>2. fate' = Learnt(fate, h.tell)
      BY DEF Leave
  <2>3. \A m \in Told(h, "done") : Proven(m, Range(got'))
      BY <1>2 DEF G
  <2> QED
      BY <1>2, <1>6, <1>7, <2>1, <2>2, <2>3, DoneStays
<1>11. ASSUME NEW t \in Node
       PROVE  /\ Turn(station'[t], station'[Other(t)], line'[Other(t)], line'[t], Range(got'))
              /\ Reached(t)'
  <2>1. CASE t = s
      BY <1>8, <1>9, <2>1 DEF o
  <2>2. CASE t = o
      BY <1>1, <1>8, <1>9, <2>2
  <2> QED
      BY <1>1, <2>1, <2>2
<1>12. Arrives
  <2>1. CASE got' = got
      BY <2>1 DEF Arrives
  <2>2. ASSUME NEW m \in R, m \notin Range(got), got' = Append(got, m)
        PROVE  Arrives
    <3>1. m = Current(station[o]) /\ station[o].transfering # NoList
        BY <2>2 DEF o
    <3> QED
        BY <1>1, <2>2, <3>1 DEF Arrives
  <2> QED
      BY <1>2, <2>1, <2>2
<1> QED
    BY <1>2, <1>10, <1>11, <1>12 DEF TurnsKept

\* The steps of the lines and of the clock.
LEMMA TurnsStay ==
    ASSUME TurnsKept, UNCHANGED <<fate, got>>,
           \A s \in Node :
                /\ station'[s].pending_request = station[s].pending_request
                /\ Turn(station'[s], station'[Other(s)], line'[Other(s)], line'[s], Range(got))
    PROVE  TurnsKept' /\ Arrives
<1>1. \A s \in Node : Reached(s)'
    BY DEF TurnsKept, Reached
<1>2. DoneMeansReceived'
    BY DEF TurnsKept, DoneMeansReceived
<1> QED
    BY <1>1, <1>2 DEF TurnsKept, Arrives

\* A token is lost or damaged.
LEMMA LineThins ==
    ASSUME IInv, TurnsKept, UNCHANGED <<station, fate, got>>, NEW s \in Node,
           NEW t \in Seq(Tokens), Thinner(t, line[s]),
           line' = [line EXCEPT ![s] = t]
    PROVE  TurnsKept' /\ Arrives
<1>1. line \in [Node -> Seq(Tokens)]
    BY DEF IInv, TypeOK
<1>2. ASSUME NEW q \in Node
      PROVE  /\ line[q] \in Seq(Tokens) /\ line'[q] \in Seq(Tokens)
             /\ Thinner(line'[q], line[q])
    BY <1>1, StaysThin
<1>3. ASSUME NEW q \in Node
      PROVE  Turn(station[q], station[Other(q)], line'[Other(q)], line'[q], Range(got))
  <2>1. /\ Other(q) \in Node
        /\ Turn(station[q], station[Other(q)], line[Other(q)], line[q], Range(got))
      BY OtherIs DEF TurnsKept
  <2> QED
      BY <1>2, <2>1, TurnThins
<1> QED
    BY <1>3, TurnsStay

LEMMA TurnsBegin ==
    Init => TurnsKept
<1> SUFFICES ASSUME Init
             PROVE  TurnsKept
    OBVIOUS
<1>1. got = <<>> /\ got \in Seq(Msg) /\ \A m \in Msg : fate[m] = "new"
    BY DEF Init
<1>2. ASSUME NEW s \in Node
      PROVE  /\ station[s].pending_request = NoMsg /\ station[s].rx_buffer = "empty"
             /\ line[s] = <<>>
    BY DEF Init, dart_reset
<1>3. \A K : ~Carries(<<>>, K)
    BY DEF Carries
<1>4. ASSUME NEW s \in Node
      PROVE  Rests(station[Other(s)], line[Other(s)], line[s])
    BY <1>2, <1>3, OtherIs DEF Rests, Hears
<1> QED
    BY <1>1, <1>2, <1>4 DEF TurnsKept, Turn, Reached, DoneMeansReceived

\* The body of a frame that is heard is the message of the transfer.
LEMMA BodyIs ==
    ASSUME NEW c, Timed(c), NEW d, NEW fwd \in Seq(Tokens), NEW back, NEW R,
           Turn(c, d, fwd, back, R), Hears(d), d.rx_buffer = "sync",
           fwd # <<>>, Head(fwd).k = "body"
    PROVE  Head(fwd).msg = Current(c) /\ c.transfering # NoList
<1>1. Heard(c, d, fwd, back)
    BY DEF Turn, Rests, Begun, Answered
<1>2. Bodies(fwd, Current(c)) /\ c.transfering # NoList
    BY <1>1 DEF Heard, Sends
<1>3. 1 \in 1..Len(fwd) /\ Head(fwd) = fwd[1]
    BY HeadIs
<1> QED
    BY <1>2, <1>3 DEF Bodies

LEMMA SendKeepsTurns ==
    ASSUME AnswersInTime, IInv, TurnsKept, NEW s \in Node, NEW m \in Msg, SendMsg(s, m)
    PROVE  TurnsKept' /\ Arrives
<1> DEFINE o == Other(s)
<1>1. PICK at \in Calls(s, {NoMsg}) :
          /\ Leave(s, dart_send_msg(at, m))
          /\ line' = [line EXCEPT ![Other(s)] = @ \o dart_send_msg(at, m).out]
    BY DEF SendMsg
<1> DEFINE g == dart_send_msg(at, m)
<1>2. m.from = s /\ fate[m] = "new" /\ fate \in [Msg -> Fates]
    BY DEF SendMsg, Unsent, IInv, TypeOK, Fates
<1>3. at \in Calls(s, Unsent(s) \cup {NoMsg}) /\ at.say = NoMsg
    BY <1>1, BeginsAlone
<1>4. /\ Handles(at, s, fate, NoMsg) /\ Tries(at.transfering, at.tx_attempts)
      /\ ~at.complete /\ Learnt(fate, at.tell) = fate /\ NoneTaken(at.tell)
    BY <1>3, Begins
<1>5. /\ Timed(at) /\ Timed(station[o])
      /\ line[o] \in Seq(Tokens) /\ line[s] \in Seq(Tokens)
      /\ Turn(at, station[o], line[o], line[s], Range(got))
      /\ Turn(station[o], at, line[s], line[o], Range(got))
      /\ at.out = Nothing /\ Told(at, "done") = {} /\ Told(at, "received") = {}
      /\ at.pending_request \in Range(got) \cup {NoMsg}
    BY <1>3, CallBegins
<1>6. /\ Rx(at, g) /\ Tells(at, g, {}, {}) /\ g.pending_request = at.pending_request
      /\ \/ GoesOn(at, g, Nothing)
         \/ at.transfering = NoList /\ StartsAfter(g, Nothing)
    BY <1>2, <1>3, <1>4, <1>5, SendDoes
<1>7. g \in Handler
    BY <1>2, <1>3, <1>4, AcceptedMsg DEF Handles
<1> HIDE DEF g
<1>8. /\ Turn(g, station[o], line[o] \o g.out, line[s], Range(got))
      /\ Turn(station[o], g, line[s], line[o] \o g.out, Range(got))
    BY <1>5, <1>6, TimeTurns
<1>9. line'[o] = line[o] \o g.out /\ line'[s] = line[s]
    BY <1>1, OtherIs DEF g, IInv, TypeOK
<1>10. Told(g, "done") = {} /\ Told(g, "received") = {}
    BY <1>5, <1>6 DEF Tells
<1>11. Few({}) /\ Range(got) \cup {} = Range(got)
    BY DEF Few
<1> QED
    BY <1>1, <1>5, <1>6, <1>7, <1>8, <1>9, <1>10, <1>11, CallEnds DEF g

LEMMA TimeKeepsTurns ==
    ASSUME AnswersInTime, IInv, TurnsKept, NEW s \in Node,
           HandleTime(s, Unsent(s) \cup {NoMsg})
    PROVE  TurnsKept' /\ Arrives
<1> DEFINE o == Other(s)
<1>1. PICK at \in Calls(s, Unsent(s) \cup {NoMsg}) :
          /\ Leave(s, dart_handle_time(at))
          /\ line' = [line EXCEPT ![Other(s)] = @ \o dart_handle_time(at).out]
    BY DEF HandleTime
<1> DEFINE g == dart_handle_time(at)
<1>2. fate \in [Msg -> Fates]
    BY DEF IInv, TypeOK, Fates
<1>3. /\ Handles(at, s, fate, NoMsg) /\ Tries(at.transfering, at.tx_attempts)
      /\ ~at.complete /\ at.pending_request = station[s].pending_request
    BY Begins
<1>4. /\ Timed(at) /\ Timed(station[o])
      /\ line[o] \in Seq(Tokens) /\ line[s] \in Seq(Tokens)
      /\ Turn(at, station[o], line[o], line[s], Range(got))
      /\ Turn(station[o], at, line[s], line[o], Range(got))
      /\ at.out = Nothing /\ Told(at, "done") = {} /\ Told(at, "received") = {}
      /\ at.pending_request \in Range(got) \cup {NoMsg}
    BY CallBegins
<1>5. /\ Rx(at, g) /\ Quiet(at, g)
      /\ \/ GoesOn(at, g, Nothing)
         \/ at.transfering = NoList /\ StartsAfter(g, Nothing)
         \/ /\ at.transfering # NoList /\ at.tx_ack_timer = 0
            /\ StopsAfter(g, Nothing) \/ StartsAfter(g, Nothing)
    BY <1>2, <1>3, <1>4, TimeDoes
<1>6. g \in Handler
    BY <1>2, <1>3, HandledTime DEF Handles
<1> HIDE DEF g
<1>7. /\ Turn(g, station[o], line[o] \o g.out, line[s], Range(got))
      /\ Turn(station[o], g, line[s], line[o] \o g.out, Range(got))
    BY <1>4, <1>5, TimeTurns
<1>8. line'[o] = line[o] \o g.out /\ line'[s] = line[s]
    BY <1>1, OtherIs DEF g, IInv, TypeOK
<1>9. Told(g, "done") = {} /\ Told(g, "received") = {}
      /\ g.pending_request \in Range(got) \cup {NoMsg}
    BY <1>4, <1>5 DEF Quiet, Tells
<1>10. Few({}) /\ Range(got) \cup {} = Range(got)
    BY DEF Few
<1> QED
    BY <1>1, <1>6, <1>7, <1>8, <1>9, <1>10, CallEnds DEF g

\* A byte that is heard: a transfer is done by the acknowledgement of its message,
\* a request by a response.
LEMMA ByteKeepsTurns ==
    ASSUME AnswersInTime, IInv, TurnsKept, NEW s \in Node, NEW outcome \in Outcome,
           NEW at \in Calls(s, Unsent(s) \cup {NoMsg}), line[s] # <<>>,
           Leave(s, dart_handle_received_char(at, Head(line[s]), outcome)),
           line' = [line EXCEPT ![s] = Tail(@),
                                ![Other(s)] = @ \o dart_handle_received_char(
                                                at, Head(line[s]), outcome).out]
    PROVE  TurnsKept' /\ Arrives
<1> DEFINE o == Other(s)
           t == Head(line[s])
           r == at.pending_request
           m == Current(at)
           g == dart_handle_received_char(at, t, outcome)
<1>1. fate \in [Msg -> Fates] /\ line \in [Node -> Seq(Tokens)] /\ o \in Node /\ o # s
    BY OtherIs DEF IInv, TypeOK, Fates
<1>2. /\ Handles(at, s, fate, NoMsg) /\ Tries(at.transfering, at.tx_attempts)
      /\ ~at.complete
    BY Begins
<1>3. /\ Timed(at) /\ Timed(station[o])
      /\ line[o] \in Seq(Tokens) /\ line[s] \in Seq(Tokens)
      /\ Turn(at, station[o], line[o], line[s], Range(got))
      /\ Turn(station[o], at, line[s], line[o], Range(got))
      /\ at.out = Nothing /\ Told(at, "done") = {} /\ Told(at, "received") = {}
      /\ r \in Range(got) \cup {NoMsg}
    BY CallBegins
<1>4. t \in Tokens
    BY <1>1, LinesCarry
<1>5. g \in Handler /\ g.out \in Seq(Tokens)
  <2>1. Handles(g, s, fate, NoMsg)
      BY <1>1, <1>2, <1>4, ReceivedChar
  <2> HIDE DEF g
  <2> QED
      BY <2>1 DEF Handles, Handler
<1>6. line'[o] = line[o] \o g.out /\ line'[s] = Tail(line[s])
    BY <1>1
<1>7. Leave(s, g)
    OBVIOUS
<1>8. CASE ~Hears(at)
  <2>1. /\ IF t.k = "SYNC"
           THEN g.rx_buffer = "sync" /\ g.rx_byte_timer = DART_BYTE_TIMER_VAL
           ELSE ~Hears(g)
        /\ \/ GoesOn(at, g, Nothing)
           \/ /\ t.k \in Answers /\ at.transfering # NoList
              /\ StartsAfter(g, Nothing) \/ StopsAfter(g, Nothing)
        /\ \/ Quiet(at, g)
           \/ /\ t.k = "ACK" /\ at.transfering # NoList
              /\ Tells(at, g, IF m.kind = "REQUEST" THEN {} ELSE {m}, {})
              /\ g.pending_request \in {r, m}
      BY <1>1, <1>2, <1>3, <1>4, <1>8, ByteAlone
  <2>2. t.k = "ACK" => m \in Range(got)
      BY <1>3, AnswerTaken DEF Answers
  <2> HIDE DEF g, t, m, r, o
  <2>3. /\ Turn(g, station[o], line[o] \o g.out, Tail(line[s]), Range(got))
        /\ Turn(station[o], g, Tail(line[s]), line[o] \o g.out, Range(got))
      BY <1>3, <1>8, <2>1, AloneTurns DEF t
  <2>4. Told(g, "received") = {} /\ g.pending_request \in Range(got) \cup {NoMsg}
      BY <1>3, <2>1, <2>2 DEF Quiet, Tells, r
  <2>5. \A n \in Told(g, "done") : Proven(n, Range(got))
      BY <1>3, <2>1, <2>2 DEF Quiet, Tells, Proven
  <2>6. Few({}) /\ Range(got) \cup {} = Range(got)
      BY DEF Few
  <2> QED
      BY <1>5, <1>6, <1>7, <2>3, <2>4, <2>5, <2>6, CallEnds DEF o
<1>9. CASE Hears(at) /\ at.rx_buffer = "sync" /\ t.k = "body"
  <2> DEFINE S == Range(got) \cup {t.msg}
             answered == r # NoMsg /\ t.msg.kind = "RESPONSE" /\ t.msg.id = r.id
  <2>1. /\ ~Hears(g) /\ t.msg \in Msg
        /\ GoesOn(at, g, Ack) \/ (at.transfering = NoList /\ StartsAfter(g, Ack))
        /\ Tells(at, g, IF answered THEN {r} ELSE {}, {t.msg})
        /\ g.pending_request \in {r, NoMsg}
      BY <1>1, <1>2, <1>3, <1>4, <1>9, ByteAnswers
  <2>2. Range(got) \subseteq S /\ t.msg \in S
      OBVIOUS
  <2> HIDE DEF g, r, o
  <2>3. /\ Turn(g, station[o], line[o] \o g.out, Tail(line[s]), S)
        /\ Turn(station[o], g, Tail(line[s]), line[o] \o g.out, S)
      BY <1>3, <1>9, <2>1, <2>2, AnswerTurns
  <2> HIDE DEF t
  <2>4. Told(g, "received") = {t.msg} /\ g.pending_request \in S \cup {NoMsg}
      BY <1>3, <2>1 DEF Tells
  <2>5. answered => Proven(r, S)
      BY <1>3 DEF Proven
  <2>6. \A n \in Told(g, "done") : n = r /\ answered
      BY <1>3, <2>1 DEF Tells
  <2>7. Few({t.msg})
      BY <2>1 DEF Few
  <2>8. t.msg = Current(station[o]) /\ station[o].transfering # NoList
      BY <1>3, <1>9, BodyIs DEF t
  <2> QED
      BY <1>5, <1>6, <1>7, <2>3, <2>4, <2>5, <2>6, <2>7, <2>8, CallEnds DEF o
<1>10. CASE Hears(at) /\ ~(at.rx_buffer = "sync" /\ t.k = "body")
  <2>1. /\ Quiet(at, g)
        /\ \/ /\ GoesOn(at, g, Nothing) /\ g.rx_buffer = "broken"
              /\ g.rx_byte_timer = IF at.rx_byte_timer = Off THEN Off
                                   ELSE DART_BYTE_TIMER_VAL
           \/ GoesOn(at, g, Nothing) /\ ~Hears(g)
           \/ GoesOn(at, g, Bad) /\ ~Hears(g)
      BY <1>1, <1>2, <1>3, <1>4, <1>10, ByteMisread
  <2> HIDE DEF g, r, o
  <2>2. PICK a \in {Nothing, Bad} :
            /\ GoesOn(at, g, a)
            /\ \/ ~Hears(g)
               \/ /\ a = Nothing /\ g.rx_buffer = "broken"
                  /\ g.rx_byte_timer = IF at.rx_byte_timer = Off THEN Off
                                       ELSE DART_BYTE_TIMER_VAL
      BY <2>1
  <2>3. /\ Turn(g, station[o], line[o] \o g.out, Tail(line[s]), Range(got))
        /\ Turn(station[o], g, Tail(line[s]), line[o] \o g.out, Range(got))
      BY <1>3, <1>10, <2>2, MisreadTurns
  <2>4. /\ Told(g, "received") = {} /\ Told(g, "done") = {}
        /\ g.pending_request \in Range(got) \cup {NoMsg}
      BY <1>3, <2>1 DEF Quiet, Tells, r
  <2>5. Few({}) /\ Range(got) \cup {} = Range(got)
      BY DEF Few
  <2> QED
      BY <1>5, <1>6, <1>7, <2>3, <2>4, <2>5, CallEnds DEF o
<1> QED
    BY <1>8, <1>9, <1>10

LEMMA StepKeepsTurns ==
    AnswersInTime /\ IInv /\ TurnsKept /\ [Next]_vars => TurnsKept' /\ Arrives
<1> SUFFICES ASSUME AnswersInTime, IInv, TurnsKept, [Next]_vars
             PROVE  TurnsKept' /\ Arrives
    OBVIOUS
<1>0. line \in [Node -> Seq(Tokens)]
    BY DEF IInv, TypeOK
<1>1. ASSUME NEW s \in Node, NEW m \in Msg, SendMsg(s, m)
      PROVE  TurnsKept' /\ Arrives
    BY <1>1, SendKeepsTurns
<1>2. ASSUME UNCHANGED <<station, line, fate, got>>
      PROVE  TurnsKept' /\ Arrives
  <2>1. \A s \in Node : Turn(station'[s], station'[Other(s)], line'[Other(s)], line'[s], Range(got))
      BY <1>2 DEF TurnsKept
  <2> QED
      BY <1>2, <2>1, TurnsStay
<1>3. ASSUME NEW s \in Node, NEW outcome \in Outcome,
             Receive(s, Unsent(s) \cup {NoMsg}, outcome)
      PROVE  TurnsKept' /\ Arrives
  <2>1. line[s] # <<>>
      BY <1>3 DEF Receive
  <2>2. CASE line' = [line EXCEPT ![s] = Tail(@)] /\ UNCHANGED <<station, heard>>
    <3>1. Tail(line[s]) \in Seq(Tokens) /\ Thinner(Tail(line[s]), line[s])
        BY <1>0, <2>1, TailThins
    <3> QED
        BY <2>2, <3>1, LineThins DEF heard
  <2> QED
      BY <1>3, <2>1, <2>2, ByteKeepsTurns DEF Receive
<1>4. ASSUME NEW s \in Node, HandleTime(s, Unsent(s) \cup {NoMsg})
      PROVE  TurnsKept' /\ Arrives
    BY <1>4, TimeKeepsTurns
<1>5. ASSUME NEW s \in Node, Lose(s)
      PROVE  TurnsKept' /\ Arrives
  <2>1. Tail(line[s]) \in Seq(Tokens) /\ Thinner(Tail(line[s]), line[s])
      BY <1>0, <1>5, TailThins DEF Lose
  <2> QED
      BY <1>5, <2>1, LineThins DEF Lose, heard
<1>6. ASSUME NEW s \in Node, Damage(s)
      PROVE  TurnsKept' /\ Arrives
  <2> DEFINE t == [line[s] EXCEPT ![1] = Token("noise", NoMsg)]
  <2>1. t \in Seq(Tokens) /\ Thinner(t, line[s])
      BY <1>0, <1>6, NoiseThins DEF Damage
  <2>2. line' = [line EXCEPT ![s] = t]
      BY <1>6 DEF Damage
  <2> HIDE DEF t
  <2> QED
      BY <1>6, <2>1, <2>2, LineThins DEF Damage, heard
<1>7. ASSUME Tick
      PROVE  TurnsKept' /\ Arrives
  <2>1. \A s \in Node : line[s] = <<>> /\ line'[s] = <<>>
      BY <1>7 DEF Tick
  <2>2. ASSUME NEW s \in Node
        PROVE  /\ station[s] \in Station /\ station'[s] = Elapsed(station[s])
      BY <1>7 DEF Tick, IInv, TypeOK
  <2>3. ASSUME NEW s \in Node
        PROVE  /\ station'[s].queue = station[s].queue
               /\ station'[s].transfering = station[s].transfering
               /\ station'[s].pending_request = station[s].pending_request
               /\ station'[s].rx_buffer = station[s].rx_buffer
               /\ station'[s].tx_ack_timer = Less(station[s].tx_ack_timer)
               /\ station'[s].rx_byte_timer = Less(station[s].rx_byte_timer)
               /\ Timed(station[s])
      BY <2>2, ElapsedIs DEF Timed, Station
  <2>4. ASSUME NEW s \in Node
        PROVE  Turn(station'[s], station'[Other(s)], line'[Other(s)], line'[s], Range(got))
    <3>1. /\ Other(s) \in Node
          /\ Turn(station[s], station[Other(s)], <<>>, <<>>, Range(got))
        BY <2>1, OtherIs DEF TurnsKept
    <3>2. Turn(station'[s], station'[Other(s)], <<>>, <<>>, Range(got))
        BY <2>3, <3>1, TurnTicks DEF Timed
    <3> QED
        BY <2>1, <3>1, <3>2
  <2>5. UNCHANGED <<fate, got>>
      BY <1>7 DEF Tick, heard
  <2> QED
      BY <2>3, <2>4, <2>5, TurnsStay
<1>8. CASE \E s \in Node : Wake(s) \/ Sleep(s)
    BY <1>2, <1>8 DEF Wake, Sleep, heard
<1>9. CASE UNCHANGED vars
    BY <1>2, <1>9 DEF vars, heard
<1> QED
    BY <1>1, <1>3, <1>4, <1>5, <1>6, <1>7, <1>8, <1>9 DEF Next, Works

\* dart.h:76: a message that is reported done was received by the other station,
\* and for a request its response has come back, whatever the lines lose and
\* damage and the callbacks send in between.  An acknowledge byte is the answer to
\* the message that is transferred because the time for an answer is over before
\* another frame is sent; for that a frame that broke off must be given up in half
\* that time, as it is with 30 and 300 milliseconds.
THEOREM DoneIsReceived ==
    AnswersInTime => (Spec => []DoneMeansReceived)
<1> SUFFICES ASSUME AnswersInTime
             PROVE  Spec => []DoneMeansReceived
    OBVIOUS
<1>1. Init => IInv /\ TurnsKept
    BY Initially, TurnsBegin
<1>2. IInv /\ TurnsKept /\ [Next]_vars => (IInv /\ TurnsKept)'
    BY StepKeeps, StepKeepsTurns
<1>3. TurnsKept => DoneMeansReceived
    BY DEF TurnsKept
<1> QED
    BY <1>1, <1>2, <1>3, PTL DEF Spec

----------------------------------------------------------------------------
(* The order in which messages arrive.                                     *)

\* Each message arrives once, of those that were sent; one that is abandoned, as
\* its response did not come, had arrived.
OrderKept ==
    /\ \A a, b \in 1..Len(got) : got[a] = got[b] => a = b
    /\ \A m \in Range(got) : fate[m] # "new"
    /\ \A m \in Msg : fate[m] = "abandoned" => m \in Range(got)
    /\ InOrder

\* The message that is transferred is the first one of its list: what was sent
\* before it in the same priority is not held, but for the pending request.
LEMMA FirstOfList ==
    ASSUME IInv, NEW s \in Node, station[s].transfering # NoList
    PROVE  LET n == Current(station[s])
           IN  /\ n \in Msg /\ n.from = s /\ fate[n] = "accepted"
               /\ \A m \in Msg :
                    /\ Earlier(sent, m, n)
                    /\ m.from = s /\ m.prio = n.prio /\ fate[m] = "accepted"
                    => m = station[s].pending_request
<1> DEFINE c == station[s]
           l == c.transfering
           r == c.pending_request
           n == Current(c)
<1>1. /\ c.queue \in [Prio -> Seq(Msg)] /\ l \in Prio
      /\ Lines(c.queue, sent, {}) /\ Transfers(c.queue, l, r)
      /\ Knows(c.queue, r, s, fate, NoMsg)
      /\ Lists(sent, fate)
  <2>1. c \in Station
      BY DEF IInv, TypeOK
  <2> QED
      BY <2>1 DEF IInv, Keeps, Station
<1>0. n = Head(c.queue[l]) /\ l # NoList
    BY DEF Current
<1> HIDE DEF c, n, l, r
<1>2. c.queue[l] # <<>> /\ c.queue[l] \in Seq(Msg)
    BY <1>0, <1>1 DEF Transfers
<1>3. n = c.queue[l][1] /\ n \in Msg /\ 1 \in 1..Len(c.queue[l])
    BY <1>0, <1>2, HeadTailProperties, LenProperties
<1>4. n.prio = l /\ Held(c.queue, r, n)
  <2>1. c.queue[l][1].prio = l
      BY <1>1, <1>3 DEF Lines
  <2>2. Held(c.queue, r, c.queue[l][1])
      BY <1>1, <1>3, HeldIsIn
  <2> QED
      BY <1>3, <2>1, <2>2
<1>5. n.from = s /\ fate[n] = "accepted"
    BY <1>1, <1>3, <1>4, Assumptions DEF Knows
<1>6. ASSUME NEW m \in Msg, Earlier(sent, m, n),
             m.from = s, m.prio = n.prio, fate[m] = "accepted"
      PROVE  m = r
  <2>1. Held(c.queue, r, m)
      BY <1>1, <1>6 DEF Knows
  <2>2. ASSUME NEW p \in Prio, NEW i \in 1..Len(c.queue[p]), c.queue[p][i] = m
        PROVE  FALSE
    <3>1. p = l
        BY <1>1, <1>4, <1>6, <2>2 DEF Lines
    <3>2. i \in 1..Len(c.queue[l]) /\ c.queue[l][i] = m
        BY <2>2, <3>1
    <3>3. PICK a \in 1..Len(sent), b \in 1..Len(sent) : a < b /\ sent[a] = m /\ sent[b] = n
        BY <1>6 DEF Earlier
    <3>4. Len(sent) \in Nat /\ Len(c.queue[l]) \in Nat
        BY <1>1, <1>2, LenProperties DEF Lists
    <3>5. CASE i = 1
      <4>1. sent[a] = sent[b]
          BY <1>3, <3>2, <3>3, <3>5
      <4>2. a = b
          BY <1>1, <4>1 DEF Lists
      <4> QED
          BY <3>3, <3>4, <4>2
    <3>6. CASE i # 1
      <4>1. 1 < i
          BY <3>2, <3>4, <3>6
      <4>2. Earlier(sent, n, m)
          BY <1>1, <1>3, <3>2, <4>1 DEF Lines
      <4>3. PICK d \in 1..Len(sent), e \in 1..Len(sent) : d < e /\ sent[d] = n /\ sent[e] = m
          BY <4>2 DEF Earlier
      <4>4. d = b /\ e = a
          BY <1>1, <3>3, <4>3 DEF Lists
      <4> QED
          BY <3>3, <3>4, <4>3, <4>4
    <3> QED
        BY <3>5, <3>6
  <2> QED
      BY <2>1, <2>2 DEF Held
<1> QED
    BY <1>3, <1>5, <1>6 DEF n, r, c

LEMMA PositionIs ==
    ASSUME NEW seq \in Seq(Msg), \A a, b \in 1..Len(seq) : seq[a] = seq[b] => a = b,
           NEW i \in 1..Len(seq)
    PROVE  Position(seq, seq[i]) = i
<1>1. DOMAIN seq = 1..Len(seq)
    BY LenProperties
<1>2. \E a \in DOMAIN seq : seq[a] = seq[i]
    BY <1>1
<1>3. Position(seq, seq[i]) \in DOMAIN seq /\ seq[Position(seq, seq[i])] = seq[i]
    BY <1>2 DEF Position
<1> QED
    BY <1>1, <1>3

\* A message that was not in seq is added to it.
LEMMA PositionsStay ==
    ASSUME NEW seq \in Seq(Msg), \A a, b \in 1..Len(seq) : seq[a] = seq[b] => a = b,
           NEW n \in Msg, n \notin Range(seq)
    PROVE  LET all == Append(seq, n)
           IN  /\ all \in Seq(Msg) /\ Range(all) = Range(seq) \cup {n}
               /\ \A a, b \in 1..Len(all) : all[a] = all[b] => a = b
               /\ \A m \in Range(seq) : /\ Position(all, m) = Position(seq, m)
                                       /\ Position(all, m) < Position(all, n)
<1> DEFINE all == Append(seq, n)
           l == Len(seq) + 1
<1>1. /\ Len(seq) \in Nat /\ all \in Seq(Msg) /\ Len(all) = l
      /\ \A i \in 1..Len(seq) : all[i] = seq[i]
      /\ all[l] = n
      /\ DOMAIN seq = 1..Len(seq) /\ DOMAIN all = 1..l
    BY AppendProperties, LenProperties
<1> HIDE DEF all
<1>2. /\ \A i \in 1..l : i \in 1..Len(seq) \/ i = l
      /\ \A i \in 1..Len(seq) : i \in 1..l /\ i < l
      /\ l \in 1..l
    BY <1>1
<1> HIDE DEF l
<1>3. \A i \in 1..Len(seq) : seq[i] # n
    BY <1>1 DEF Range
<1>4. \A a, b \in 1..Len(all) : all[a] = all[b] => a = b
  <2> SUFFICES ASSUME NEW a \in 1..l, NEW b \in 1..l, all[a] = all[b]
               PROVE  a = b
      BY <1>1
  <2>1. CASE a \in 1..Len(seq) /\ b \in 1..Len(seq)
      BY <1>1, <2>1
  <2>2. CASE a = l \/ b = l
      BY <1>1, <1>2, <1>3, <2>2
  <2> QED
      BY <1>2, <2>1, <2>2
<1>5. Range(all) = Range(seq) \cup {n}
    BY <1>1, <1>2 DEF Range
<1>6. ASSUME NEW m \in Range(seq)
      PROVE  Position(all, m) = Position(seq, m) /\ Position(all, m) < Position(all, n)
  <2>1. PICK i \in 1..Len(seq) : seq[i] = m
      BY <1>1 DEF Range
  <2>2. Position(seq, m) = i
      BY <2>1, PositionIs
  <2>3. i \in 1..Len(all) /\ all[i] = m /\ i < l
      BY <1>1, <1>2, <2>1
  <2>4. Position(all, m) = i
      BY <1>1, <1>4, <2>3, PositionIs
  <2>5. Position(all, n) = l
      BY <1>1, <1>2, <1>4, PositionIs
  <2> QED
      BY <2>2, <2>3, <2>4, <2>5
<1> QED
    BY <1>1, <1>4, <1>5, <1>6 DEF all

LEMMA OrderBegins ==
    Init => OrderKept
<1> SUFFICES ASSUME Init
             PROVE  OrderKept
    OBVIOUS
<1>1. got = <<>> /\ sent = <<>> /\ \A m \in Msg : fate[m] = "new"
    BY DEF Init
<1>2. Range(<<>>) = {}
    BY DEF Range
<1>3. InOrder
    BY <1>1 DEF InOrder
<1> QED
    BY <1>1, <1>2, <1>3 DEF OrderKept

\* The message that arrives is the first one in the list of its sender: those of
\* its list that were sent before it have arrived or failed.
LEMMA OrderStays ==
    ASSUME IInv, TurnsKept, OrderKept, Moves, Arrives, IInv'
    PROVE  OrderKept'
<1>1. /\ got \in Seq(Msg) /\ \A a, b \in 1..Len(got) : got[a] = got[b] => a = b
      /\ \A m \in Range(got) : m \in Msg /\ fate[m] # "new"
      /\ \A m \in Msg : fate[m] = "abandoned" => m \in Range(got)
  <2>1. got \in Seq(Msg)
      BY DEF TurnsKept
  <2>2. Range(got) \subseteq Msg
      BY <2>1, LenProperties, ElementOfSeq DEF Range
  <2> QED
      BY <2>1, <2>2 DEF OrderKept
<1>2. /\ fate \in [Msg -> Fates] /\ fate' \in [Msg -> Fates]
      /\ Lists(sent, fate) /\ Lists(sent', fate')
      /\ sent \in Seq(Msg) /\ DOMAIN sent = 1..Len(sent) /\ Len(sent) \in Nat
      /\ sent' \in Seq(Msg) /\ DOMAIN sent' = 1..Len(sent')
    BY LenProperties DEF IInv, TypeOK, Fates, Lists
<1>3. /\ \A m \in Msg : fate[m] \in Outcomes => fate'[m] = fate[m]
      /\ \A m \in Msg : fate[m] # "new" => fate'[m] # "new"
  <2>1. \A m \in Msg : fate[m] \in Outcomes => fate'[m] = fate[m]
      BY DEF Moves
  <2>2. \A i \in 1..Len(sent) : i \in 1..Len(sent') /\ sent'[i] = sent[i]
    <3>1. ASSUME NEW m \in Msg, sent' = Append(sent, m)
          PROVE  \A i \in 1..Len(sent) : i \in 1..Len(sent') /\ sent'[i] = sent[i]
        BY <1>2, <3>1, AppendProperties
    <3> QED
        BY <3>1 DEF Moves
  <2>3. \A m \in Msg : fate[m] # "new" => fate'[m] # "new"
      BY <1>2, <2>2 DEF Lists
  <2> QED
      BY <2>1, <2>3
<1>4. \A m \in Msg : fate'[m] = "abandoned" => m \in Range(got)
  <2> SUFFICES ASSUME NEW m \in Msg, fate'[m] = "abandoned"
               PROVE  m \in Range(got)
      OBVIOUS
  <2>1. CASE fate[m] = "abandoned"
      BY <1>1, <2>1
  <2>2. ASSUME NEW s \in Node, m = station[s].pending_request
        PROVE  m \in Range(got)
      BY <2>2, Assumptions DEF TurnsKept, Reached
  <2> QED
      BY <2>1, <2>2 DEF Moves
\* The places of the messages that were sent before the step.
<1>5. ASSUME NEW i \in DOMAIN sent', NEW j \in DOMAIN sent', i < j, fate[sent'[j]] # "new"
      PROVE  /\ i \in DOMAIN sent /\ j \in DOMAIN sent
             /\ sent'[i] = sent[i] /\ sent'[j] = sent[j]
  <2>1. CASE sent' = sent
      BY <1>5, <2>1
  <2>2. ASSUME NEW m \in Msg, sent' = Append(sent, m)
        PROVE  /\ i \in DOMAIN sent /\ j \in DOMAIN sent
               /\ sent'[i] = sent[i] /\ sent'[j] = sent[j]
    <3>1. /\ Len(sent') = Len(sent) + 1 /\ sent'[Len(sent) + 1] = m
          /\ \A k \in 1..Len(sent) : sent'[k] = sent[k]
        BY <1>2, <2>2, AppendProperties
    <3>2. j # Len(sent) + 1
      <4> SUFFICES ASSUME j = Len(sent) + 1
                   PROVE  FALSE
          OBVIOUS
      <4>1. fate[m] # "new"
          BY <1>5, <3>1
      <4>2. PICK a \in 1..Len(sent) : sent[a] = m
          BY <1>2, <4>1 DEF Lists
      <4>3. a \in 1..Len(sent') /\ j \in 1..Len(sent') /\ sent'[a] = sent'[j]
          BY <1>2, <3>1, <4>2
      <4>4. a = j
          BY <1>2, <4>3 DEF Lists
      <4> QED
          BY <1>2, <4>2, <4>4
    <3>3. i \in 1..Len(sent) /\ j \in 1..Len(sent)
        BY <1>2, <1>5, <3>1, <3>2
    <3> QED
        BY <1>2, <3>1, <3>3
  <2> QED
      BY <2>1, <2>2 DEF Moves
<1>6. CASE got' = got
  <2>1. InOrder'
    <3> SUFFICES ASSUME NEW i \in DOMAIN sent', NEW j \in DOMAIN sent', i < j,
                        sent'[i].from = sent'[j].from, sent'[i].prio = sent'[j].prio,
                        sent'[j] \in Range(got)
                 PROVE  IF sent'[i] \in Range(got)
                        THEN Position(got, sent'[i]) < Position(got, sent'[j])
                        ELSE fate'[sent'[i]] = "failed"
        BY <1>6 DEF InOrder
    <3>1. fate[sent'[j]] # "new"
        BY <1>1
    <3>2. /\ i \in DOMAIN sent /\ j \in DOMAIN sent
          /\ sent'[i] = sent[i] /\ sent'[j] = sent[j]
        BY <1>5, <3>1
    <3>3. IF sent[i] \in Range(got) THEN Position(got, sent[i]) < Position(got, sent[j])
          ELSE fate[sent[i]] = "failed"
        BY <3>2 DEF OrderKept, InOrder
    <3>4. sent[i] \in Msg
        BY <1>2, <3>2, ElementOfSeq
    <3> QED
        BY <1>3, <3>2, <3>3, <3>4 DEF Outcomes
  <2> QED
      BY <1>1, <1>3, <1>4, <1>6, <2>1 DEF OrderKept
<1>7. ASSUME NEW s \in Node, station[s].transfering # NoList,
             Current(station[s]) \notin Range(got), got' = Append(got, Current(station[s]))
      PROVE  OrderKept'
  <2> DEFINE n == Current(station[s])
  <2>1. /\ n \in Msg /\ n.from = s /\ fate[n] = "accepted"
        /\ \A m \in Msg : /\ Earlier(sent, m, n)
                          /\ m.from = s /\ m.prio = n.prio /\ fate[m] = "accepted"
                          => m = station[s].pending_request
      BY <1>7, FirstOfList
  <2>2. n \notin Range(got) /\ got' = Append(got, n)
      BY <1>7
  <2> HIDE DEF n
  <2>3. /\ Range(got') = Range(got) \cup {n}
        /\ \A a, b \in 1..Len(got') : got'[a] = got'[b] => a = b
        /\ \A m \in Range(got) : /\ Position(got', m) = Position(got, m)
                                /\ Position(got', m) < Position(got', n)
      BY <1>1, <2>1, <2>2, PositionsStay
  <2>4. \A m \in Range(got') : fate'[m] # "new"
      BY <1>1, <1>3, <2>1, <2>3
  <2>5. InOrder'
    <3> SUFFICES ASSUME NEW i \in DOMAIN sent', NEW j \in DOMAIN sent', i < j,
                        sent'[i].from = sent'[j].from, sent'[i].prio = sent'[j].prio,
                        sent'[j] \in Range(got')
                 PROVE  IF sent'[i] \in Range(got')
                        THEN Position(got', sent'[i]) < Position(got', sent'[j])
                        ELSE fate'[sent'[i]] = "failed"
        BY DEF InOrder
    <3>1. fate[sent'[j]] # "new"
        BY <1>1, <2>1, <2>3
    <3>2. /\ i \in DOMAIN sent /\ j \in DOMAIN sent
          /\ sent'[i] = sent[i] /\ sent'[j] = sent[j]
        BY <1>5, <3>1
    <3> DEFINE m == sent[i]
    <3>3. m \in Msg
        BY <1>2, <3>2, ElementOfSeq
    <3>4. CASE sent[j] \in Range(got)
      <4>1. IF m \in Range(got) THEN Position(got, m) < Position(got, sent[j])
            ELSE fate[m] = "failed"
          BY <3>2, <3>4 DEF OrderKept, InOrder
      <4>2. fate[m] = "failed" => m # n /\ fate'[m] = "failed"
          BY <1>3, <2>1, <3>3 DEF Outcomes
      <4> QED
          BY <2>3, <3>2, <3>4, <4>1, <4>2
    <3>5. CASE sent[j] = n
      <4>1. Earlier(sent, m, n)
          BY <1>2, <3>2, <3>5 DEF Earlier
      <4>2. m # n
        <5>1. sent[i] # sent[j]
            BY <1>2, <3>2 DEF Lists
        <5> QED
            BY <3>5, <5>1
      <4>3. m.from = s /\ m.prio = n.prio
          BY <2>1, <3>2, <3>5
      <4>4. CASE m \in Range(got)
          BY <2>3, <3>2, <3>5, <4>4
      <4>5. CASE m \notin Range(got)
        <5>1. fate[m] # "new"
            BY <1>2, <3>2, <3>3 DEF Lists
        <5>2. fate[m] # "done"
            BY <3>3, <4>5 DEF TurnsKept, DoneMeansReceived
        <5>3. fate[m] # "abandoned"
            BY <1>1, <3>3, <4>5
        <5>4. fate[m] # "accepted"
          <6>1. fate[m] = "accepted" => m = station[s].pending_request
              BY <2>1, <3>3, <4>1, <4>3
          <6>2. m # station[s].pending_request
              BY <3>3, <4>5, Assumptions DEF TurnsKept, Reached
          <6> QED
              BY <6>1, <6>2
        <5>5. fate[m] = "failed"
            BY <1>2, <3>3, <5>1, <5>2, <5>3, <5>4 DEF Fates, Outcomes
        <5>6. fate'[m] = "failed"
            BY <1>3, <3>3, <5>5 DEF Outcomes
        <5> QED
            BY <2>3, <3>2, <4>2, <4>5, <5>6
      <4> QED
          BY <4>4, <4>5
    <3> QED
        BY <2>3, <3>2, <3>4, <3>5
  <2> QED
      BY <1>4, <2>3, <2>4, <2>5 DEF OrderKept
<1> QED
    BY <1>6, <1>7 DEF Arrives

\* Messages of one priority arrive in the order in which dart_send_msg took them
\* into their list, with callbacks that send in between, frames and answers that
\* are lost and repeated, and requests that wait for a response; a message that a
\* later one overtook was reported a failure.  The hypothesis is that of
\* DoneIsReceived: otherwise a late answer could take a message for arrived.
THEOREM ArrivesInOrder ==
    AnswersInTime => (Spec => []InOrder)
<1> SUFFICES ASSUME AnswersInTime
             PROVE  Spec => []InOrder
    OBVIOUS
<1>1. Init => IInv /\ TurnsKept /\ OrderKept
    BY Initially, TurnsBegin, OrderBegins
<1>2. IInv /\ TurnsKept /\ OrderKept /\ [Next]_vars => (IInv /\ TurnsKept /\ OrderKept)'
    BY StepKeeps, StepKeepsTurns, OrderStays
<1>3. OrderKept => InOrder
    BY DEF OrderKept
<1> QED
    BY <1>1, <1>2, <1>3, PTL DEF Spec

----------------------------------------------------------------------------
(* Who sleeps.                                                             *)
(*                                                                         *)
(* Only what the functions do to the pin, the timers that lower it and the *)
(* output matters for this, not the queues.                                *)

Pins == {"rdy", "idle", "out", "transfering", "wrk", "closing_timer", "wakeup_timer"}

\* The pin is raised, and no timer will lower it.
Busy(h) == h.wrk /\ h.closing_timer = Off /\ h.wakeup_timer = Off

\* A station that transfers keeps its pin raised.
Holds(h) ==
    /\ Pins \subseteq DOMAIN h /\ h.wrk \in BOOLEAN
    /\ h.transfering # NoList => Busy(h)

\* From h to g a transfer may be begun, if the other station is ready.
Stirs(h, g) ==
    Holds(h) =>
        /\ Holds(g)
        /\ g.rdy = h.rdy /\ g.idle = h.idle /\ (h.wrk => g.wrk)
        /\ g.closing_timer \in {h.closing_timer, Off}
        /\ g.wakeup_timer \in {h.wakeup_timer, Off} \/ (~h.wrk /\ g.wakeup_timer # 0)
        /\ ~h.rdy /\ h.transfering = NoList => g.transfering = NoList /\ g.out = h.out
        /\ g.out = h.out \/ Busy(g)

\* Nothing of this changes.
SamePins(h, g) == DOMAIN g = DOMAIN h /\ \A f \in Pins : g[f] = h[f]

LEMMA PinsAre ==
    ASSUME NEW h, NEW g, SamePins(h, g)
    PROVE  /\ g.rdy = h.rdy /\ g.idle = h.idle /\ g.out = h.out
           /\ g.transfering = h.transfering /\ g.wrk = h.wrk
           /\ g.closing_timer = h.closing_timer /\ g.wakeup_timer = h.wakeup_timer
           /\ DOMAIN g = DOMAIN h
BY DEF SamePins, Pins

LEMMA SameStirs ==
    ASSUME NEW h, NEW g, SamePins(h, g)
    PROVE  Stirs(h, g)
<1>1. /\ g.rdy = h.rdy /\ g.idle = h.idle /\ g.out = h.out
      /\ g.transfering = h.transfering /\ g.wrk = h.wrk
      /\ g.closing_timer = h.closing_timer /\ g.wakeup_timer = h.wakeup_timer
      /\ DOMAIN g = DOMAIN h
    BY PinsAre
<1> QED
    BY <1>1 DEF Stirs, Holds, Busy

LEMMA StirsOn ==
    ASSUME NEW h, NEW k, NEW g, Stirs(h, k), Stirs(k, g)
    PROVE  Stirs(h, g)
BY DEF Stirs, Busy

LEMMA TransferStirs ==
    ASSUME NEW h, h.transfering # NoList
    PROVE  Stirs(h, dart_transfer_msg(h))
<1> DEFINE g == dart_transfer_msg(h)
           e == Push(h, Frame(Current(h)))
<1>1. g = [e EXCEPT !.tx_ack_timer = DART_ACK_TIMER_VAL]
    BY DEF dart_transfer_msg, Frame
<1>2. e = [h EXCEPT !.out = @ \o Frame(Current(h))]
    BY DEF Push
<1> HIDE DEF e, g
<1>3. /\ DOMAIN g = DOMAIN h
      /\ g.rdy = h.rdy /\ g.idle = h.idle
      /\ g.transfering = h.transfering /\ g.wrk = h.wrk
      /\ g.closing_timer = h.closing_timer /\ g.wakeup_timer = h.wakeup_timer
    BY <1>1, <1>2
<1> QED
    BY <1>3 DEF Stirs, Holds, Busy, g

LEMMA WakeUpStirs ==
    ASSUME NEW h, ~h.wrk
    PROVE  Stirs(h, WakeUp(h))
<1> SUFFICES ASSUME Holds(h) PROVE Stirs(h, WakeUp(h))
    BY DEF Stirs
<1> DEFINE g == WakeUp(h)
           v == IF h.wakeup_timer = Off THEN DART_WAKEUP_TIMER_VAL ELSE h.wakeup_timer
<1>1. g = [h EXCEPT !.wakeup_attempts = @ + 1, !.wrk = TRUE, !.wakeup_timer = v]
    BY DEF WakeUp
<1>2. v = h.wakeup_timer \/ v # 0
    BY DartAssumption DEF TimersInOrder
<1> HIDE DEF g, v
<1>3. {"wrk", "wakeup_timer", "transfering"} \subseteq DOMAIN h
    BY DEF Holds, Pins
<1>4. /\ DOMAIN g = DOMAIN h
      /\ g.rdy = h.rdy /\ g.idle = h.idle /\ g.out = h.out
      /\ g.transfering = h.transfering /\ g.closing_timer = h.closing_timer
    BY <1>1
<1>5. g.wrk = TRUE /\ g.wakeup_timer = v
    BY <1>1, <1>3
<1>6. h.transfering = NoList
    BY DEF Holds, Busy
<1> QED
    BY <1>2, <1>4, <1>5, <1>6 DEF Stirs, Holds, Busy, g

LEMMA TriggerStirs ==
    ASSUME NEW h
    PROVE  Stirs(h, dart_trigger_transfer(h))
<1> SUFFICES ASSUME Holds(h) PROVE Stirs(h, dart_trigger_transfer(h))
    BY DEF Stirs
<1> DEFINE up == IF h.wrk THEN h ELSE WakeUp(h)
           next == dart_find_next_message_queue(up)
           g == dart_trigger_transfer(h)
           begun == [up EXCEPT !.transfering = next,
                               !.tx_attempts = 0,
                               !.wakeup_attempts = 0,
                               !.closing_timer = Off,
                               !.wakeup_timer = Off]
<1>0. Stirs(h, h)
    BY SameStirs DEF SamePins
<1>1. CASE h.transfering # NoList
  <2>1. g = h
      BY <1>1 DEF dart_trigger_transfer
  <2> QED
      BY <1>0, <2>1
<1>2. CASE h.transfering = NoList /\ GivesUp(h)
  <2>1. g = [h EXCEPT !.wakeup_attempts = 0]
      BY <1>2 DEF dart_trigger_transfer
  <2> HIDE DEF g
  <2>2. SamePins(h, g)
      BY <2>1 DEF SamePins, Pins
  <2> QED
      BY <2>2, SameStirs DEF g
<1>3. CASE h.transfering = NoList /\ ~GivesUp(h)
  <2>1. Stirs(h, up) /\ up.wrk /\ up.rdy = h.rdy /\ up.transfering = NoList /\ up.out = h.out
    <3>1. CASE h.wrk
        BY <1>0, <1>3, <3>1
    <3>2. CASE ~h.wrk
      <4>1. up = WakeUp(h)
          BY <3>2
      <4> HIDE DEF up
      <4>2. Stirs(h, up)
          BY <3>2, <4>1, WakeUpStirs
      <4>3. up.rdy = h.rdy /\ up.transfering = h.transfering /\ up.out = h.out
          BY <4>1 DEF WakeUp
      <4>4. up.wrk
        <5>1. "wrk" \in DOMAIN h
            BY DEF Holds, Pins
        <5> QED
            BY <4>1, <5>1 DEF WakeUp
      <4> QED
          BY <1>3, <4>2, <4>3, <4>4
    <3> QED
        BY <3>1, <3>2
  <2>2. g = IF ~h.rdy \/ next = NoList THEN up ELSE dart_transfer_msg(begun)
      BY <1>3 DEF dart_trigger_transfer
  <2> HIDE DEF up
  <2>3. CASE g = up
      BY <2>1, <2>3
  <2>4. CASE h.rdy /\ next # NoList /\ g = dart_transfer_msg(begun)
    <3>1. Holds(up) /\ Pins \subseteq DOMAIN up
        BY <2>1 DEF Stirs, Holds
    <3> HIDE DEF next, g
    <3>2. /\ DOMAIN begun = DOMAIN up
          /\ begun.rdy = up.rdy /\ begun.idle = up.idle /\ begun.out = up.out
          /\ begun.wrk = up.wrk
          OBVIOUS
    <3>3. begun.transfering = next /\ begun.closing_timer = Off /\ begun.wakeup_timer = Off
        BY <3>1 DEF Pins
    <3> HIDE DEF begun
    <3>4. Stirs(up, begun)
        BY <2>1, <2>4, <3>1, <3>2, <3>3 DEF Stirs, Holds, Busy
    <3>5. Stirs(begun, g)
        BY <2>4, <3>3, TransferStirs
    <3> QED
        BY <2>1, <3>4, <3>5, StirsOn DEF g
  <2> QED
      BY <2>2, <2>3, <2>4
<1> QED
    BY <1>1, <1>2, <1>3

LEMMA NextStirs ==
    ASSUME NEW h
    PROVE  Stirs(h, dart_trigger_next_transfer(h))
<1> DEFINE quiet == /\ h.transfering = NoList /\ ~GivesUp(h) /\ h.rdy
                    /\ dart_find_next_message_queue(h) = NoList
                    /\ h.pending_request = NoMsg
           t == dart_trigger_transfer(h)
           g == dart_trigger_next_transfer(h)
<1>1. g = [t EXCEPT !.complete = @ \/ quiet]
    BY DEF dart_trigger_next_transfer
<1>2. Stirs(h, t)
    BY TriggerStirs
<1> HIDE DEF quiet, t, g
<1>3. SamePins(t, g)
    BY <1>1 DEF SamePins, Pins
<1> QED
    BY <1>2, <1>3, SameStirs, StirsOn DEF g

LEMMA SendStirs ==
    ASSUME NEW h, NEW m
    PROVE  Stirs(h, dart_send_msg(h, m))
<1> DEFINE k == Enqueued(h, m)
           g == dart_send_msg(h, m)
<1>1. g = dart_trigger_transfer(k)
    BY DEF dart_send_msg, Enqueued
<1>2. SamePins(h, k)
    BY DEF Enqueued, SamePins, Pins
<1> HIDE DEF k, g
<1> QED
    BY <1>1, <1>2, TriggerStirs, SameStirs, StirsOn DEF g

LEMMA CallbackStirs ==
    ASSUME NEW h, NEW m, NEW code
    PROVE  Stirs(h, Callback(h, m, code))
<1> DEFINE k == Noted(h, m, code)
           g == Callback(h, m, code)
<1>1. g = IF h.say = NoMsg THEN k ELSE dart_send_msg(k, h.say)
    BY DEF Callback, Noted
<1>2. SamePins(h, k)
    BY DEF Noted, SamePins, Pins
<1> HIDE DEF k
<1>3. Stirs(h, k)
    BY <1>2, SameStirs
<1>4. Stirs(k, dart_send_msg(k, h.say))
    BY SendStirs
<1> QED
    BY <1>1, <1>3, <1>4, StirsOn

LEMMA FinishStirs ==
    ASSUME NEW h
    PROVE  Stirs(h, dart_finalize_transfer(h))
<1> SUFFICES ASSUME Holds(h) PROVE Stirs(h, dart_finalize_transfer(h))
    BY DEF Stirs
<1> DEFINE g == dart_finalize_transfer(h)
<1>1. g = [h EXCEPT !.queue[h.transfering] = Tail(@), !.transfering = NoList]
    BY DEF dart_finalize_transfer
<1> HIDE DEF g
<1>2. "transfering" \in DOMAIN h
    BY DEF Holds, Pins
<1>3. /\ DOMAIN g = DOMAIN h /\ g.transfering = NoList
      /\ g.rdy = h.rdy /\ g.idle = h.idle /\ g.out = h.out /\ g.wrk = h.wrk
      /\ g.closing_timer = h.closing_timer /\ g.wakeup_timer = h.wakeup_timer
    BY <1>1, <1>2
<1> QED
    BY <1>3 DEF Stirs, Holds, Busy, g

\* A message is reported on, and given up.
LEMMA ConcludedStirs ==
    ASSUME NEW h, NEW m, NEW code
    PROVE  Stirs(h, dart_trigger_next_transfer(dart_finalize_transfer(Callback(h, m, code))))
<1> DEFINE k == Callback(h, m, code)
           e == dart_finalize_transfer(k)
<1>1. Stirs(h, k) /\ Stirs(k, e) /\ Stirs(e, dart_trigger_next_transfer(e))
    BY CallbackStirs, FinishStirs, NextStirs
<1> HIDE DEF k, e
<1>2. Stirs(h, dart_trigger_next_transfer(e))
    BY <1>1, StirsOn
<1> QED
    BY <1>2 DEF k, e

LEMMA RetryStirs ==
    ASSUME NEW h \in Handler
    PROVE  Stirs(h, dart_retry_transfer(h))
<1> DEFINE again == [h EXCEPT !.tx_attempts = @ + 1, !.tx_ack_timer = Off]
           g == dart_retry_transfer(h)
           failed == dart_trigger_next_transfer(dart_finalize_transfer(
                        Callback(again, Current(h), "failed")))
<1>1. SamePins(h, again)
    BY DEF SamePins, Pins
<1>2. Stirs(h, again) /\ again.transfering = h.transfering
    BY <1>1, SameStirs, PinsAre
<1>3. again.tx_attempts < DART_TX_ATTEMPTS <=> ~(again.tx_attempts >= DART_TX_ATTEMPTS)
  <2>1. h.tx_attempts \in Nat /\ DART_TX_ATTEMPTS \in Nat
      BY Assumptions DEF Handler
  <2>2. again.tx_attempts = h.tx_attempts + 1
      BY DEF Handler
  <2> QED
      BY <2>1, <2>2
<1> HIDE DEF again
<1>4. g = CASE h.transfering = NoList -> h
          [] h.transfering # NoList /\ again.tx_attempts < DART_TX_ATTEMPTS
                -> dart_transfer_msg(again)
          [] h.transfering # NoList /\ again.tx_attempts >= DART_TX_ATTEMPTS
                -> failed
    BY DEF dart_retry_transfer, again
<1> HIDE DEF g, failed
<1>5. CASE h.transfering = NoList
  <2>1. g = h /\ Stirs(h, h)
      BY <1>4, <1>5, SameStirs DEF SamePins
  <2> QED
      BY <2>1 DEF g
<1>6. CASE h.transfering # NoList /\ again.tx_attempts < DART_TX_ATTEMPTS
  <2>1. g = dart_transfer_msg(again)
      BY <1>3, <1>4, <1>6
  <2>2. Stirs(again, g)
      BY <1>2, <1>6, <2>1, TransferStirs
  <2> QED
      BY <1>2, <2>2, StirsOn DEF g
<1>7. CASE h.transfering # NoList /\ ~(again.tx_attempts < DART_TX_ATTEMPTS)
  <2>1. g = failed
      BY <1>3, <1>4, <1>7
  <2>2. Stirs(again, g)
      BY <2>1, ConcludedStirs DEF failed
  <2> QED
      BY <1>2, <2>2, StirsOn DEF g
<1> QED
    BY <1>5, <1>6, <1>7

LEMMA AcknowledgeStirs ==
    ASSUME NEW h
    PROVE  Stirs(h, dart_acknowledge_msg(h))
<1> DEFINE acked == [h EXCEPT !.tx_ack_timer = Off]
           m == Current(h)
           e == dart_finalize_transfer(acked)
           w == [e EXCEPT !.pending_request = m,
                          !.tx_response_timer = DART_RESPONSE_TIMER_VAL]
           g == dart_acknowledge_msg(h)
           done == dart_trigger_next_transfer(dart_finalize_transfer(
                        Callback(acked, m, "done")))
<1>1. g = IF h.transfering = NoList THEN h
          ELSE IF m.kind = "REQUEST" THEN dart_trigger_next_transfer(w) ELSE done
    BY DEF dart_acknowledge_msg
<1>2. SamePins(h, acked) /\ SamePins(h, h)
    BY DEF SamePins, Pins
<1>3. Stirs(h, acked) /\ Stirs(h, h)
    BY <1>2, SameStirs
<1> HIDE DEF acked
<1>4. Stirs(acked, done)
    BY ConcludedStirs
<1>5. Stirs(acked, dart_trigger_next_transfer(w))
  <2>1. Stirs(acked, e)
      BY FinishStirs
  <2> HIDE DEF e
  <2>2. SamePins(e, w)
      BY DEF SamePins, Pins
  <2> HIDE DEF w
  <2>3. Stirs(e, w) /\ Stirs(w, dart_trigger_next_transfer(w))
      BY <2>2, SameStirs, NextStirs
  <2> QED
      BY <2>1, <2>3, StirsOn
<1> HIDE DEF done, w, g
<1>6. Stirs(h, done) /\ Stirs(h, dart_trigger_next_transfer(w))
    BY <1>3, <1>4, <1>5, StirsOn
<1> QED
    BY <1>1, <1>3, <1>6 DEF g

LEMMA RequestStirs ==
    ASSUME NEW h
    PROVE  Stirs(h, dart_finalize_request_msg(h))
<1> DEFINE k == [h EXCEPT !.pending_request = NoMsg, !.tx_response_timer = Off]
           g == dart_finalize_request_msg(h)
<1>1. g = dart_trigger_next_transfer(k)
    BY DEF dart_finalize_request_msg
<1>2. SamePins(h, k)
    BY DEF SamePins, Pins
<1> HIDE DEF k
<1>3. Stirs(h, k) /\ Stirs(k, dart_trigger_next_transfer(k))
    BY <1>2, SameStirs, NextStirs
<1> QED
    BY <1>1, <1>3, StirsOn

LEMMA AbandonStirs ==
    ASSUME NEW h
    PROVE  Stirs(h, dart_abandon_request_msg(h))
<1> DEFINE k == Callback(h, h.pending_request, "abandoned")
<1>1. dart_abandon_request_msg(h) = dart_finalize_request_msg(k)
    BY DEF dart_abandon_request_msg
<1>2. Stirs(h, k) /\ Stirs(k, dart_finalize_request_msg(k))
    BY CallbackStirs, RequestStirs
<1> HIDE DEF k
<1> QED
    BY <1>1, <1>2, StirsOn

LEMMA ReceiveStirs ==
    ASSUME NEW h, NEW m
    PROVE  Stirs(h, dart_handle_received_msg(h, m))
<1> DEFINE seen == Callback(h, m, "received")
           r == seen.pending_request
           k == Callback(seen, r, "done")
           g == dart_handle_received_msg(h, m)
<1>1. g = IF r # NoMsg /\ m.kind = "RESPONSE" /\ m.id = r.id
          THEN dart_finalize_request_msg(k) ELSE seen
    BY DEF dart_handle_received_msg
<1>2. Stirs(h, seen)
    BY CallbackStirs
<1> HIDE DEF seen
<1>3. Stirs(seen, k) /\ Stirs(k, dart_finalize_request_msg(k))
    BY CallbackStirs, RequestStirs
<1> HIDE DEF r, k, g
<1>4. Stirs(h, dart_finalize_request_msg(k))
    BY <1>2, <1>3, StirsOn
<1> QED
    BY <1>1, <1>2, <1>4 DEF g

----------------------------------------------------------------------------
\* After a byte the closing timer does not run.
Hearkens(h, g) == Holds(g) /\ g.closing_timer = Off /\ g.idle = h.idle

LEMMA StirsHearkens ==
    ASSUME NEW h, NEW k, NEW g, Hearkens(h, k), Stirs(k, g)
    PROVE  Hearkens(h, g)
BY DEF Hearkens, Stirs

LEMMA EmptiedHearkens ==
    ASSUME NEW h, NEW k, Hearkens(h, k)
    PROVE  Hearkens(h, Emptied(k))
<1> DEFINE g == Emptied(k)
<1>1. SamePins(k, g)
    BY DEF Emptied, SamePins, Pins
<1> HIDE DEF g
<1> QED
    BY <1>1, SameStirs, StirsHearkens DEF g

LEMMA PushHearkens ==
    ASSUME NEW h, NEW k, Hearkens(h, k), NEW tokens
    PROVE  Hearkens(h, Push(k, tokens))
<1> DEFINE g == Push(k, tokens)
<1>1. g = [k EXCEPT !.out = @ \o tokens]
    BY DEF Push
<1> HIDE DEF g
<1>2. /\ DOMAIN g = DOMAIN k /\ g.idle = k.idle
      /\ g.transfering = k.transfering /\ g.wrk = k.wrk
      /\ g.closing_timer = k.closing_timer /\ g.wakeup_timer = k.wakeup_timer
    BY <1>1
<1> QED
    BY <1>2 DEF Hearkens, Holds, Busy, g

LEMMA FreshHearkens ==
    ASSUME NEW h, Holds(h)
    PROVE  Hearkens(h, Fresh(h))
<1> DEFINE x == IF h.rx_byte_timer = 0 THEN Emptied(h) ELSE h
           v == IF x.rx_byte_timer = Off THEN Off ELSE DART_BYTE_TIMER_VAL
           g == Fresh(h)
<1>1. g = [x EXCEPT !.closing_timer = Off, !.rx_byte_timer = v]
    BY DEF Fresh
<1>2. SamePins(h, x)
    BY DEF Emptied, SamePins, Pins
<1> HIDE DEF x, v, g
<1>3. Stirs(h, x)
    BY <1>2, SameStirs
<1>4. Holds(x) /\ x.idle = h.idle /\ "closing_timer" \in DOMAIN x
    BY <1>3 DEF Stirs, Holds, Pins
<1>5. /\ DOMAIN g = DOMAIN x /\ g.idle = x.idle
      /\ g.transfering = x.transfering /\ g.wrk = x.wrk /\ g.wakeup_timer = x.wakeup_timer
      /\ g.closing_timer = Off
    BY <1>1, <1>4
<1> QED
    BY <1>4, <1>5 DEF Hearkens, Holds, Busy, g

LEMMA FirstByteHearkens ==
    ASSUME NEW h, NEW x \in Handler, Hearkens(h, x), NEW k
    PROVE  Hearkens(h, FirstByte(x, k))
<1> DEFINE g == FirstByte(x, k)
<1>1. CASE k = "SYNC"
  <2>1. g = [x EXCEPT !.rx_buffer = "sync",
                      !.rx_byte_timer = DART_BYTE_TIMER_VAL,
                      !.wrk = TRUE]
      BY <1>1 DEF FirstByte
  <2> HIDE DEF g
  <2>2. /\ DOMAIN g = DOMAIN x /\ g.idle = x.idle
        /\ g.transfering = x.transfering /\ g.wakeup_timer = x.wakeup_timer
        /\ g.closing_timer = x.closing_timer
      BY <2>1
  <2>3. g.wrk = TRUE
      BY <2>1 DEF Handler
  <2> QED
      BY <2>2, <2>3 DEF Hearkens, Holds, Busy, g
<1>2. CASE k = "ACK" /\ x.wrk
  <2>1. g = dart_acknowledge_msg(x)
      BY <1>2 DEF FirstByte
  <2> QED
      BY <2>1, AcknowledgeStirs, StirsHearkens
<1>3. CASE k = "BAD" /\ x.wrk
  <2>1. g = dart_retry_transfer(x)
      BY <1>3 DEF FirstByte
  <2> QED
      BY <2>1, RetryStirs, StirsHearkens
<1>4. CASE k # "SYNC" /\ ~(k = "ACK" /\ x.wrk) /\ ~(k = "BAD" /\ x.wrk)
  <2>1. g = x
      BY <1>4 DEF FirstByte
  <2> QED
      BY <2>1
<1> QED
    BY <1>1, <1>2, <1>3, <1>4

LEMMA ByteHearkens ==
    ASSUME NEW h \in Handler, Holds(h), NEW t, NEW outcome \in Outcome
    PROVE  Hearkens(h, dart_handle_received_char(h, t, outcome))
<1> DEFINE x == Fresh(h)
           p == Push(x, <<Token("ACK", NoMsg)>>)
           g == dart_handle_received_char(h, t, outcome)
<1>1. x \in Handler /\ Hearkens(h, x)
    BY FreshIs, FreshHearkens DEF Aside
<1>2. g = CASE x.rx_buffer = "empty" -> FirstByte(x, t.k)
          [] x.rx_buffer = "sync" /\ t.k = "body"
                -> Emptied(dart_handle_received_msg(p, t.msg))
          [] OTHER -> Misread(x, outcome)
    BY DEF dart_handle_received_char
<1> HIDE DEF x
<1>3. Hearkens(h, p)
    BY <1>1, PushHearkens
<1> HIDE DEF p, g
<1>4. Hearkens(h, Emptied(dart_handle_received_msg(p, t.msg)))
    BY <1>3, ReceiveStirs, StirsHearkens, EmptiedHearkens
<1>5. Hearkens(h, Misread(x, outcome))
  <2> DEFINE b == Push(x, <<Token("BAD", NoMsg)>>)
             q == [x EXCEPT !.rx_buffer = "broken"]
  <2>1. SamePins(x, q)
      BY DEF SamePins, Pins
  <2> HIDE DEF q
  <2>2. Hearkens(h, q)
      BY <1>1, <2>1, SameStirs, StirsHearkens
  <2>3. Hearkens(h, Emptied(x)) /\ Hearkens(h, Emptied(b))
      BY <1>1, PushHearkens, EmptiedHearkens
  <2> HIDE DEF b
  <2>4. Misread(x, outcome) \in {q, Emptied(x), Emptied(b)}
      BY DEF Misread, Outcome, q, b
  <2> QED
      BY <2>2, <2>3, <2>4
<1>6. Hearkens(h, FirstByte(x, t.k))
    BY <1>1, FirstByteHearkens
<1> QED
    BY <1>2, <1>4, <1>5, <1>6 DEF g

----------------------------------------------------------------------------
\* From h to g is a call of dart_handle_time, or of dart_send_msg: the pin is lowered
\* only when it has been closing or was not answered, and with it nothing is sent.
Serves(h, g) ==
    /\ Holds(g)
    /\ g.closing_timer = 0 => h.closing_timer = 0 /\ g.out = h.out
    /\ g.out = h.out \/ (g.wrk /\ g.wakeup_timer = Off /\ g.closing_timer # 0)
    /\ ~h.rdy /\ h.transfering = NoList => g.transfering = NoList /\ g.out = h.out
    /\ g.idle => /\ ~g.wrk /\ ~h.rdy /\ h.closing_timer = 0
                 /\ g.out = h.out
    /\ ~g.wrk \/ g.wakeup_timer = 0
            => ~h.wrk \/ h.wakeup_timer = 0 \/ h.closing_timer = 0

LEMMA StirsServes ==
    ASSUME NEW h, NEW g, Holds(h), ~h.idle, Stirs(h, g)
    PROVE  Serves(h, g)
BY DEF Stirs, Serves, Busy, Off

LEMMA TransferingServes ==
    ASSUME NEW h, NEW x \in Handler, Holds(h), ~h.idle, Stirs(h, x)
    PROVE  Serves(h, Transfering(x))
<1> DEFINE g == Transfering(x)
           q == [x EXCEPT !.tx_ack_timer = Off, !.transfering = NoList]
<1>1. g \in {x, dart_retry_transfer(x), q}
    BY DEF Transfering
<1>2. Stirs(x, x) /\ Stirs(x, dart_retry_transfer(x))
    BY SameStirs, RetryStirs DEF SamePins
<1>3. Stirs(x, q)
  <2>1. /\ DOMAIN q = DOMAIN x /\ q.out = x.out /\ q.rdy = x.rdy /\ q.idle = x.idle
        /\ q.wrk = x.wrk /\ q.transfering = NoList
        /\ q.closing_timer = x.closing_timer /\ q.wakeup_timer = x.wakeup_timer
      BY DEF Handler
  <2> HIDE DEF q
  <2> QED
      BY <2>1 DEF Stirs, Holds
<1> HIDE DEF g, q
<1>4. Stirs(x, g)
    BY <1>1, <1>2, <1>3
<1>5. Stirs(h, g)
    BY <1>4, StirsOn
<1> QED
    BY <1>5, StirsServes DEF g

\* The other station did not answer: there will be a spike.
LEMMA SpikeServes ==
    ASSUME NEW h, NEW x \in Handler, Holds(h), ~h.idle, Stirs(h, x),
           x.transfering = NoList, x.wakeup_timer = 0
    PROVE  Serves(h, [x EXCEPT !.wakeup_timer = Off, !.wrk = FALSE])
<1> DEFINE g == [x EXCEPT !.wakeup_timer = Off, !.wrk = FALSE]
<1>1. /\ DOMAIN g = DOMAIN x /\ g.out = x.out /\ g.idle = x.idle
      /\ g.transfering = NoList /\ g.closing_timer = x.closing_timer
      /\ ~g.wrk /\ g.wakeup_timer = Off /\ g.wrk \in BOOLEAN
    BY DEF Handler
<1> HIDE DEF g
<1>2. /\ Holds(x) /\ x.idle = h.idle /\ x.out = h.out
      /\ x.closing_timer \in {h.closing_timer, Off}
      /\ h.wakeup_timer = 0 \/ ~h.wrk
    BY DEF Stirs, Busy, Off
<1>3. Holds(g)
    BY <1>1, <1>2 DEF Holds
<1> QED
    BY <1>1, <1>2, <1>3 DEF Serves, Off, g

LEMMA ClosingServes ==
    ASSUME NEW h, NEW x \in Handler, Holds(h), ~h.idle, Stirs(h, x),
           x.transfering = NoList
    PROVE  Serves(h, Closing(x))
<1> DEFINE g == Closing(x)
<1>1. /\ Holds(x) /\ x.idle = h.idle /\ x.rdy = h.rdy
      /\ x.closing_timer \in {h.closing_timer, Off}
      /\ x.out = h.out \/ Busy(x)
      /\ h.wrk => x.wrk
      /\ x.wakeup_timer = 0 => h.wakeup_timer = 0 \/ ~h.wrk
    BY DEF Stirs, Off
<1>2. /\ DART_CLOSING_TIMER_VAL # 0 /\ DART_CHILL_TIMER_VAL # 0
    BY DartAssumption DEF TimersInOrder
<1>3. CASE x.wrk /\ x.closing_timer = Off
  <2>1. g = [x EXCEPT !.closing_timer = DART_CLOSING_TIMER_VAL]
      BY <1>3 DEF Closing, Off
  <2> HIDE DEF g
  <2>2. /\ DOMAIN g = DOMAIN x /\ g.out = x.out /\ g.idle = x.idle
        /\ g.transfering = NoList /\ g.wrk = x.wrk /\ g.wakeup_timer = x.wakeup_timer
        /\ g.closing_timer # 0
      BY <1>2, <2>1 DEF Handler
  <2>3. Holds(g)
      BY <1>1, <2>2 DEF Holds
  <2> QED
      BY <1>1, <1>3, <2>2, <2>3 DEF Serves, Busy, g, Stirs
<1>4. CASE x.wrk /\ x.closing_timer = 0
  <2>1. g = [x EXCEPT !.wrk = FALSE, !.closing_timer = DART_CHILL_TIMER_VAL]
      BY <1>4 DEF Closing, Off
  <2> HIDE DEF g
  <2>2. /\ DOMAIN g = DOMAIN x /\ g.out = x.out /\ g.idle = x.idle
        /\ g.transfering = NoList /\ g.wrk = FALSE /\ g.wakeup_timer = x.wakeup_timer
        /\ g.closing_timer # 0
      BY <1>2, <2>1 DEF Handler
  <2>3. Holds(g)
      BY <1>1, <2>2 DEF Holds
  <2>4. x.out = h.out /\ h.closing_timer = 0
      BY <1>1, <1>4 DEF Busy, Off
  <2> QED
      BY <1>1, <2>2, <2>3, <2>4 DEF Serves, g
<1>5. CASE ~x.wrk /\ x.closing_timer = 0
  <2> DEFINE quiet == ~x.rdy
  <2>1. g = [x EXCEPT !.closing_timer = Off, !.idle = quiet]
      BY <1>5 DEF Closing, Off
  <2> HIDE DEF g, quiet
  <2>2. /\ DOMAIN g = DOMAIN x /\ g.out = x.out /\ g.idle = quiet
        /\ g.transfering = NoList /\ g.wrk = x.wrk /\ g.wakeup_timer = x.wakeup_timer
        /\ g.closing_timer = Off
      BY <2>1 DEF Handler
  <2>3. Holds(g)
      BY <1>1, <2>2 DEF Holds
  <2>4. x.out = h.out /\ h.closing_timer = 0 /\ ~h.wrk
      BY <1>1, <1>5 DEF Busy, Off
  <2> QED
      BY <1>1, <1>5, <2>2, <2>3, <2>4 DEF Serves, g, quiet, Off
<1>6. CASE ~x.wrk /\ x.closing_timer = Off /\ x.rdy
  <2>1. g = [x EXCEPT !.wrk = TRUE]
      BY <1>6 DEF Closing, Off
  <2> HIDE DEF g
  <2>2. /\ DOMAIN g = DOMAIN x /\ g.out = x.out /\ g.idle = x.idle
        /\ g.transfering = NoList /\ g.wrk = TRUE /\ g.wakeup_timer = x.wakeup_timer
        /\ g.closing_timer = Off
      BY <1>6, <2>1 DEF Handler
  <2>3. Holds(g) /\ x.out = h.out
      BY <1>1, <1>6, <2>2 DEF Holds, Busy
  <2> QED
      BY <1>1, <2>2, <2>3 DEF Serves, g, Off
<1>7. CASE /\ ~(x.wrk /\ x.closing_timer = Off) /\ ~(x.wrk /\ x.closing_timer = 0)
           /\ ~(~x.wrk /\ x.closing_timer = 0)
           /\ ~(~x.wrk /\ x.closing_timer = Off /\ x.rdy)
  <2>1. g = x
      BY <1>7 DEF Closing
  <2> QED
      BY <2>1, StirsServes
<1> QED
    BY <1>3, <1>4, <1>5, <1>6, <1>7

LEMMA TimeServes ==
    ASSUME NEW h, NEW s, NEW f \in [Msg -> Fates], Handles(h, s, f, NoMsg),
           Tries(h.transfering, h.tx_attempts), ~h.complete,
           h.pending_request = station[s].pending_request,
           Holds(h), ~h.idle
    PROVE  Serves(h, dart_handle_time(h))
<1> DEFINE x == IF h.pending_request # NoMsg /\ h.tx_response_timer = 0
                THEN dart_abandon_request_msg(h) ELSE h
           spike == [x EXCEPT !.wakeup_timer = Off, !.wrk = FALSE]
           g == dart_handle_time(h)
<1>1. Handles(x, s, f, NoMsg)
    BY Abandoned
<1>2. Stirs(h, x)
    BY AbandonStirs, SameStirs DEF SamePins
<1>3. g = CASE x.transfering # NoList -> Transfering(x)
          [] x.transfering = NoList /\ Sendable(x) # {}
                -> IF x.wakeup_timer = 0 THEN spike ELSE dart_trigger_transfer(x)
          [] dart_is_idle(x) -> Closing(x)
          [] OTHER -> x
    BY DEF dart_handle_time
<1> HIDE DEF x, g
<1>4. x \in Handler /\ Transfers(x.queue, x.transfering, x.pending_request)
    BY <1>1 DEF Handles
<1>5. Serves(h, x) /\ Serves(h, dart_trigger_transfer(x))
  <2>1. Stirs(h, dart_trigger_transfer(x))
      BY <1>2, TriggerStirs, StirsOn
  <2> QED
      BY <1>2, <2>1, StirsServes
<1>6. CASE x.transfering # NoList
  <2>1. ~dart_is_idle(x)
      BY <1>6 DEF dart_is_idle, dart_is_sending
  <2>2. g = Transfering(x)
      BY <1>3, <1>6, <2>1
  <2> QED
      BY <1>2, <1>4, <2>2, TransferingServes DEF g
<1>7. CASE x.transfering = NoList /\ Sendable(x) # {}
  <2>1. ~dart_is_idle(x)
      BY <1>4, <1>7, SendableIs DEF dart_is_idle, dart_is_sending
  <2>2. g = IF x.wakeup_timer = 0 THEN spike ELSE dart_trigger_transfer(x)
      BY <1>3, <1>7, <2>1
  <2>3. x.wakeup_timer = 0 => Serves(h, spike)
      BY <1>2, <1>4, <1>7, SpikeServes
  <2> HIDE DEF spike
  <2> QED
      BY <1>5, <2>2, <2>3 DEF g
<1>8. CASE x.transfering = NoList /\ Sendable(x) = {} /\ dart_is_idle(x)
  <2>1. g = Closing(x)
      BY <1>3, <1>8
  <2> QED
      BY <1>2, <1>4, <1>8, <2>1, ClosingServes DEF g
<1>9. CASE x.transfering = NoList /\ Sendable(x) = {} /\ ~dart_is_idle(x)
  <2>1. g = x
      BY <1>3, <1>9
  <2> QED
      BY <1>5, <2>1 DEF g
<1> QED
    BY <1>6, <1>7, <1>8, <1>9

----------------------------------------------------------------------------
\* A station whose pin is closing has nothing on its line, and nothing comes when
\* the other's pin is low or goes low for want of an answer; a station that was told
\* that it is idle is not sent to.
Rested(s) ==
    LET c == station[s]
        d == station[Other(s)]
    IN  /\ c.transfering # NoList => Busy(c)
        /\ c.closing_timer = 0 => line[Other(s)] = <<>>
        /\ c.closing_timer = 0 /\ (~d.wrk \/ d.wakeup_timer = 0) => line[s] = <<>>
        /\ awake[s] # "yes" => /\ ~c.wrk /\ d.transfering = NoList
                               /\ line[Other(s)] = <<>> /\ line[s] = <<>>

AllRested == \A s \in Node : Rested(s)

LEMMA PairOnly ==
    ASSUME NEW s \in Node
    PROVE  /\ Other(s) \in Node /\ Other(s) # s /\ Other(Other(s)) = s
           /\ \A q \in Node : q = s \/ q = Other(s)
BY DartLinkAssumption DEF Other, Node

LEMMA Calling ==
    ASSUME IInv, AllRested, NEW s \in Node, NEW at \in Calls(s, Unsent(s) \cup {NoMsg})
    PROVE  /\ at \in Handler /\ Holds(at) /\ ~at.idle /\ at.out = <<>>
           /\ at.rdy = station[Other(s)].wrk
           /\ at.transfering = station[s].transfering /\ at.wrk = station[s].wrk
           /\ at.closing_timer = station[s].closing_timer
           /\ at.wakeup_timer = station[s].wakeup_timer
<1> DEFINE c == station[s]
           rdy == station[Other(s)].wrk
<1>1. c \in Station /\ rdy \in BOOLEAN
    BY OtherIs DEF IInv, TypeOK, Station
<1>2. PICK say \in Unsent(s) \cup {NoMsg} : at = Called(c, rdy, say)
    BY DEF Calls
<1>3. say \in Msg \cup {NoMsg}
    BY DEF Unsent
<1>4. c.transfering # NoList => Busy(c)
    BY DEF AllRested, Rested
<1> HIDE DEF c, rdy
<1>5. /\ at \in Handler
      /\ at.transfering = c.transfering /\ at.out = <<>>
      /\ at.rdy = rdy /\ at.idle = FALSE /\ at.wrk = c.wrk
      /\ at.closing_timer = c.closing_timer /\ at.wakeup_timer = c.wakeup_timer
  <2> DEFINE k == Called(c, rdy, say)
  <2>1. k \in Handler
      BY <1>1, <1>3, CalledIs
  <2>2. /\ k.transfering = c.transfering /\ k.out = <<>>
        /\ k.rdy = rdy /\ k.idle = FALSE /\ k.wrk = c.wrk
        /\ k.closing_timer = c.closing_timer /\ k.wakeup_timer = c.wakeup_timer
      BY <1>1, <1>3, CalledPins
  <2> HIDE DEF k
  <2>3. at = k
      BY <1>2 DEF k
  <2> QED
      BY <2>1, <2>2, <2>3
<1>6. Pins \subseteq DOMAIN at /\ at.wrk \in BOOLEAN
    BY <1>5 DEF Pins, Handler
<1> QED
    BY <1>4, <1>5, <1>6 DEF Holds, Busy, c, rdy

\* What a handler leaves behind.
LEMMA Leaving ==
    ASSUME IInv, NEW s \in Node, NEW g \in Handler, Leave(s, g)
    PROVE  /\ station'[Other(s)] = station[Other(s)]
           /\ station'[s].transfering = g.transfering /\ station'[s].wrk = g.wrk
           /\ station'[s].closing_timer = g.closing_timer
           /\ station'[s].wakeup_timer = g.wakeup_timer
           /\ awake'[s] # "yes" => ~g.wrk /\ (g.idle \/ awake[s] # "yes")
           /\ awake'[Other(s)] # "yes" => awake[Other(s)] # "yes"
<1> DEFINE o == Other(s)
           l == Left(g)
           own == IF g.wrk THEN "yes" ELSE IF g.idle THEN "drowsy" ELSE awake[s]
           edge == g.wrk /\ ~station[s].wrk /\ awake[Other(s)] = "no"
<1>1. /\ station' = [station EXCEPT ![s] = l]
      /\ \/ awake' = [awake EXCEPT ![s] = own, ![o] = IF edge THEN "yes" ELSE @]
         \/ awake' = [awake EXCEPT ![s] = own]
    BY DEF Leave
<1>2. /\ o \in Node /\ o # s
      /\ station \in [Node -> Station] /\ awake \in [Node -> {"yes", "drowsy", "no"}]
    BY OtherIs DEF IInv, TypeOK
<1>3. /\ l.transfering = g.transfering /\ l.wrk = g.wrk
      /\ l.closing_timer = g.closing_timer /\ l.wakeup_timer = g.wakeup_timer
    BY LeftIs
<1> HIDE DEF o, l, own, edge
<1>4. /\ station'[o] = station[o] /\ station'[s] = l
      /\ awake'[s] = own /\ (awake'[o] # "yes" => awake[o] # "yes")
    BY <1>1, <1>2
<1>5. own # "yes" => ~g.wrk /\ (g.idle \/ awake[s] # "yes")
    BY DEF own
<1> QED
    BY <1>3, <1>4, <1>5 DEF o

\* A call that serves its station, and pushes what it sends.
LEMMA ServingRests ==
    ASSUME IInv, AllRested, NEW s \in Node, NEW at \in Calls(s, Unsent(s) \cup {NoMsg}),
           NEW g \in Handler, Leave(s, g), Serves(at, g),
           line' = [line EXCEPT ![Other(s)] = @ \o g.out]
    PROVE  AllRested'
<1> DEFINE o == Other(s)
           c == station[s]
           d == station[Other(s)]
<1>1. /\ Holds(at) /\ ~at.idle /\ at.out = <<>> /\ at.rdy = d.wrk
      /\ at.transfering = c.transfering /\ at.wrk = c.wrk
      /\ at.closing_timer = c.closing_timer /\ at.wakeup_timer = c.wakeup_timer
    BY Calling
<1>2. /\ o \in Node /\ o # s /\ Other(o) = s /\ \A q \in Node : q = s \/ q = o
    BY PairOnly
<1>3. /\ station'[o] = d
      /\ station'[s].transfering = g.transfering /\ station'[s].wrk = g.wrk
      /\ station'[s].closing_timer = g.closing_timer
      /\ station'[s].wakeup_timer = g.wakeup_timer
      /\ awake'[s] # "yes" => ~g.wrk /\ (g.idle \/ awake[s] # "yes")
      /\ awake'[o] # "yes" => awake[o] # "yes"
    BY Leaving
<1>4. /\ c.transfering # NoList => Busy(c)
      /\ c.closing_timer = 0 => line[o] = <<>>
      /\ c.closing_timer = 0 /\ (~d.wrk \/ d.wakeup_timer = 0) => line[s] = <<>>
      /\ awake[s] # "yes" => /\ ~c.wrk /\ d.transfering = NoList
                             /\ line[o] = <<>> /\ line[s] = <<>>
    BY DEF AllRested, Rested
<1>5. /\ d.transfering # NoList => Busy(d)
      /\ d.closing_timer = 0 => line[s] = <<>>
      /\ d.closing_timer = 0 /\ (~c.wrk \/ c.wakeup_timer = 0) => line[o] = <<>>
      /\ awake[o] # "yes" => /\ ~d.wrk /\ c.transfering = NoList
                             /\ line[s] = <<>> /\ line[o] = <<>>
    BY <1>2 DEF AllRested, Rested
<1>6. line'[s] = line[s] /\ line'[o] = line[o] \o g.out
    BY <1>2 DEF IInv, TypeOK
<1>7. line[o] = <<>> /\ g.out = <<>> => line'[o] = <<>>
  <2>1. <<>> \o <<>> = <<>>
      OBVIOUS
  <2> QED
      BY <1>6, <2>1
<1> HIDE DEF o, c, d
<1>8. g.transfering # NoList => Busy(g)
    BY DEF Serves, Holds
<1>9. /\ g.closing_timer = 0 => line'[o] = <<>>
      /\ g.closing_timer = 0 /\ (~d.wrk \/ d.wakeup_timer = 0) => line'[s] = <<>>
    BY <1>1, <1>4, <1>6, <1>7 DEF Serves
<1>10. awake'[s] # "yes" => /\ ~g.wrk /\ d.transfering = NoList
                            /\ line'[o] = <<>> /\ line'[s] = <<>>
  <2>1. CASE g.idle
      BY <1>1, <1>3, <1>4, <1>5, <1>6, <1>7, <2>1 DEF Serves, Busy
  <2>2. CASE ~g.idle
      BY <1>1, <1>3, <1>4, <1>6, <1>7, <2>2 DEF Serves
  <2> QED
      BY <2>1, <2>2
<1>11. d.closing_timer = 0 /\ (~g.wrk \/ g.wakeup_timer = 0) => line'[o] = <<>>
    BY <1>1, <1>4, <1>5, <1>7 DEF Serves, Off
<1>12. awake'[o] # "yes" => /\ ~d.wrk /\ g.transfering = NoList
                            /\ line'[s] = <<>> /\ line'[o] = <<>>
    BY <1>1, <1>3, <1>5, <1>6, <1>7 DEF Serves
<1>13. Rested(s)'
    BY <1>3, <1>8, <1>9, <1>10 DEF Rested, Busy, o
<1>14. Rested(o)'
    BY <1>2, <1>3, <1>5, <1>6, <1>11, <1>12 DEF Rested, Busy
<1> QED
    BY <1>2, <1>13, <1>14 DEF AllRested

\* A byte that is heard: it was on the line.
LEMMA ByteRests ==
    ASSUME IInv, AllRested, NEW s \in Node, NEW at \in Calls(s, Unsent(s) \cup {NoMsg}),
           NEW g \in Handler, Leave(s, g), Hearkens(at, g), line[s] # <<>>
    PROVE  AllRested'
<1> DEFINE o == Other(s)
           d == station[Other(s)]
<1>1. ~at.idle
    BY Calling
<1>2. /\ o \in Node /\ o # s /\ Other(o) = s /\ \A q \in Node : q = s \/ q = o
    BY PairOnly
<1>3. /\ station'[o] = d
      /\ station'[s].transfering = g.transfering /\ station'[s].wrk = g.wrk
      /\ station'[s].closing_timer = g.closing_timer
      /\ station'[s].wakeup_timer = g.wakeup_timer
      /\ awake'[s] # "yes" => ~g.wrk /\ (g.idle \/ awake[s] # "yes")
      /\ awake'[o] # "yes" => awake[o] # "yes"
    BY Leaving
<1>4. awake[s] = "yes" /\ awake[o] = "yes"
    BY <1>2 DEF AllRested, Rested
<1>5. /\ d.transfering # NoList => Busy(d)
      /\ d.closing_timer # 0
    BY <1>2 DEF AllRested, Rested
<1> HIDE DEF o, d
<1>6. awake'[s] = "yes" /\ awake'[o] = "yes"
    BY <1>1, <1>3, <1>4 DEF Hearkens
<1>7. (g.transfering # NoList => Busy(g)) /\ g.closing_timer # 0
    BY DEF Hearkens, Holds, Off
<1>8. Rested(s)'
    BY <1>3, <1>6, <1>7 DEF Rested, Busy, o
<1>9. Rested(o)'
    BY <1>2, <1>3, <1>5, <1>6 DEF Rested, Busy
<1> QED
    BY <1>2, <1>8, <1>9 DEF AllRested

\* What loses or delays, but brings nothing on a line.
LEMMA StaysRested ==
    ASSUME AllRested, UNCHANGED station,
           \A s \in Node : /\ line[s] = <<>> => line'[s] = <<>>
                           /\ awake'[s] # "yes" => awake[s] # "yes"
    PROVE  AllRested'
<1> SUFFICES ASSUME NEW s \in Node
             PROVE  Rested(s)'
    BY DEF AllRested
<1>1. Other(s) \in Node
    BY OtherIs
<1>2. Rested(s)
    BY DEF AllRested
<1> QED
    BY <1>1, <1>2 DEF Rested

LEMMA StepRests ==
    IInv /\ AllRested /\ [Next]_vars => AllRested'
<1> SUFFICES ASSUME IInv, AllRested, [Next]_vars
             PROVE  AllRested'
    OBVIOUS
<1>0. /\ line \in [Node -> Seq(Tokens)] /\ fate \in [Msg -> Fates]
      /\ awake \in [Node -> {"yes", "drowsy", "no"}]
    BY DEF IInv, TypeOK, Fates
<1>1. ASSUME NEW s \in Node, NEW m \in Msg, SendMsg(s, m)
      PROVE  AllRested'
  <2>1. PICK at \in Calls(s, {NoMsg}) :
            /\ Leave(s, dart_send_msg(at, m))
            /\ line' = [line EXCEPT ![Other(s)] = @ \o dart_send_msg(at, m).out]
      BY <1>1 DEF SendMsg
  <2> DEFINE g == dart_send_msg(at, m)
  <2>2. m.from = s /\ fate[m] = "new"
      BY <1>1 DEF SendMsg, Unsent
  <2>3. at \in Calls(s, Unsent(s) \cup {NoMsg}) /\ at.say = NoMsg
      BY <2>1, BeginsAlone
  <2>4. /\ Handles(at, s, fate, NoMsg) /\ Tries(at.transfering, at.tx_attempts)
        /\ ~at.complete /\ Learnt(fate, at.tell) = fate /\ NoneTaken(at.tell)
      BY <2>3, Begins
  <2>5. Handles(g, s, fate, NoMsg)
    <3>1. Learnt(fate, at.tell)[m] = "new"
        BY <2>2, <2>4
    <3> QED
        BY <1>0, <2>2, <2>3, <2>4, <3>1, AcceptedMsg
  <2>6. Holds(at) /\ ~at.idle
      BY <2>3, Calling
  <2> HIDE DEF g
  <2>7. Serves(at, g)
      BY <2>6, SendStirs, StirsServes DEF g
  <2>8. g \in Handler
      BY <2>5 DEF Handles
  <2> QED
      BY <2>1, <2>3, <2>7, <2>8, ServingRests DEF g
<1>2. ASSUME NEW s \in Node, HandleTime(s, Unsent(s) \cup {NoMsg})
      PROVE  AllRested'
  <2>1. PICK at \in Calls(s, Unsent(s) \cup {NoMsg}) :
            /\ Leave(s, dart_handle_time(at))
            /\ line' = [line EXCEPT ![Other(s)] = @ \o dart_handle_time(at).out]
      BY <1>2 DEF HandleTime
  <2> DEFINE g == dart_handle_time(at)
  <2>2. /\ Handles(at, s, fate, NoMsg) /\ Tries(at.transfering, at.tx_attempts)
        /\ ~at.complete /\ at.pending_request = station[s].pending_request
      BY Begins
  <2>3. Handles(g, s, fate, NoMsg)
      BY <1>0, <2>2, HandledTime
  <2>4. Holds(at) /\ ~at.idle
      BY Calling
  <2> HIDE DEF g
  <2>5. Serves(at, g)
      BY <1>0, <2>2, <2>4, TimeServes DEF g
  <2>6. g \in Handler
      BY <2>3 DEF Handles
  <2> QED
      BY <2>1, <2>5, <2>6, ServingRests DEF g
<1>3. ASSUME NEW s \in Node, NEW outcome \in Outcome,
             Receive(s, Unsent(s) \cup {NoMsg}, outcome)
      PROVE  AllRested'
  <2>1. line[s] # <<>>
      BY <1>3 DEF Receive
  <2>2. awake[s] # "no"
      BY <2>1 DEF AllRested, Rested
  <2>3. PICK at \in Calls(s, Unsent(s) \cup {NoMsg}) :
            Leave(s, dart_handle_received_char(at, Head(line[s]), outcome))
      BY <1>3, <2>2 DEF Receive
  <2> DEFINE t == Head(line[s])
             g == dart_handle_received_char(at, t, outcome)
  <2>4. /\ Handles(at, s, fate, NoMsg) /\ Tries(at.transfering, at.tx_attempts)
        /\ ~at.complete
      BY Begins
  <2>5. t \in Tokens
      BY <1>0, <2>1, LinesCarry
  <2>6. Handles(g, s, fate, NoMsg)
      BY <1>0, <2>4, <2>5, ReceivedChar
  <2>7. at \in Handler /\ Holds(at)
      BY Calling
  <2>8. Hearkens(at, g)
      BY <2>7, ByteHearkens
  <2>9. Leave(s, g)
      BY <2>3
  <2> HIDE DEF g
  <2>10. g \in Handler
      BY <2>6 DEF Handles
  <2> QED
      BY <2>1, <2>8, <2>9, <2>10, ByteRests
<1>4. ASSUME NEW s \in Node, Lose(s) \/ Damage(s)
      PROVE  AllRested'
  <2>1. /\ line[s] # <<>> /\ UNCHANGED <<station, awake>>
        /\ \A q \in Node : q # s => line'[q] = line[q]
      BY <1>0, <1>4 DEF Lose, Damage
  <2> QED
      BY <2>1, StaysRested
<1>5. CASE \E s \in Node : Wake(s) \/ Sleep(s)
  <2>1. PICK s \in Node : Wake(s) \/ Sleep(s)
      BY <1>5
  <2>2. /\ UNCHANGED <<station, line>>
        /\ \A q \in Node : awake'[q] # "yes" => awake[q] # "yes"
      BY <1>0, <2>1 DEF Wake, Sleep
  <2> QED
      BY <2>2, StaysRested
<1>6. CASE Tick
  <2>1. \A s \in Node : line[s] = <<>> /\ line'[s] = <<>> /\ awake'[s] = awake[s]
      BY <1>6 DEF Tick
  <2>2. ASSUME NEW s \in Node
        PROVE  /\ station'[s].transfering = station[s].transfering
               /\ station'[s].closing_timer = Less(station[s].closing_timer)
               /\ station'[s].wakeup_timer = Less(station[s].wakeup_timer)
               /\ station'[s].wrk = station[s].wrk
    <3>1. station[s] \in Station /\ station'[s] = Elapsed(station[s])
        BY <1>6 DEF Tick, IInv, TypeOK
    <3> QED
        BY <3>1, ElapsedIs
  <2>3. Less(Off) = Off
      BY DEF Less, Off
  <2> SUFFICES ASSUME NEW s \in Node
               PROVE  Rested(s)'
      BY DEF AllRested
  <2>4. Other(s) \in Node /\ Rested(s)
      BY OtherIs DEF AllRested
  <2> QED
      BY <2>1, <2>2, <2>3, <2>4 DEF Rested, Busy
<1>7. CASE UNCHANGED vars
    BY <1>7, StaysRested DEF vars
<1> QED
    BY <1>1, <1>2, <1>3, <1>4, <1>5, <1>6, <1>7 DEF Next, Works

LEMMA RestedFirst ==
    Init => AllRested
<1> SUFFICES ASSUME Init, NEW s \in Node
             PROVE  Rested(s)
    BY DEF AllRested
<1>1. Other(s) \in Node
    BY OtherIs
<1>2. station[s] = dart_reset /\ awake[s] = "yes"
    BY DEF Init
<1>3. dart_reset.transfering = NoList /\ dart_reset.closing_timer # 0
    BY DEF dart_reset, Off
<1> QED
    BY <1>1, <1>2, <1>3 DEF Rested

\* A station that sleeps is not sent to: its closing timer ran out with nothing on
\* the lines and the other's pin low, and the other one sends only after it has seen
\* this one's pin high, whatever faults, wake-ups and callbacks come in between.
THEOREM NobodyOversleeps ==
    Spec => []NobodySleepsThrough
<1>1. Init => IInv /\ AllRested
    BY Initially, RestedFirst
<1>2. IInv /\ AllRested /\ [Next]_vars => (IInv /\ AllRested)'
    BY StepKeeps, StepRests
<1>3. AllRested => NobodySleepsThrough
    BY DEF AllRested, Rested, NobodySleepsThrough
<1> QED
    BY <1>1, <1>2, <1>3, PTL DEF Spec

----------------------------------------------------------------------------
(* A line without faults.                                                  *)
(*                                                                         *)
(* What the functions do when nothing is sent again: no message is         *)
(* reported a failure, and the pending request does not get into a queue.  *)

Queued(q, m) == \E p \in Prio : \E i \in 1..Len(q[p]) : q[p][i] = m

Spares(h, g) == Told(g, "failed") \subseteq Told(h, "failed")

Mild(h, g) ==
    /\ Spares(h, g)
    /\ h.pending_request # NoMsg => ~Queued(g.queue, h.pending_request)

LEMMA PendingIsNot ==
    ASSUME NEW q, NEW r, Once(q, r), r # NoMsg
    PROVE  ~Queued(q, r)
BY DEF Once, Queued

LEMMA SameSpares ==
    ASSUME NEW h, NEW g, g.tell = h.tell
    PROVE  Spares(h, g)
BY DEF Spares, Told

LEMMA SparesAppend ==
    ASSUME NEW h, NEW g, NEW m \in Msg, NEW c \in Codes, h.tell \in Seq(Msg \X Codes),
           g.tell = Append(h.tell, <<m, c>>), c # "failed"
    PROVE  Spares(h, g)
<1>1. ASSUME NEW code
      PROVE  Told(g, code) = Told(h, code) \cup (IF c = code THEN {m} ELSE {})
    BY TellsOneMore DEF Told
<1> QED
    BY <1>1 DEF Spares

LEMMA NextKeeps ==
    ASSUME NEW h, NEW s, NEW f, NEW x, Handles(h, s, f, x)
    PROVE  LET g == dart_trigger_next_transfer(h)
           IN  g.queue = h.queue /\ g.tell = h.tell /\ g.pending_request = h.pending_request
<1> DEFINE quiet == /\ h.transfering = NoList /\ ~GivesUp(h) /\ h.rdy
                    /\ dart_find_next_message_queue(h) = NoList
                    /\ h.pending_request = NoMsg
           t == dart_trigger_transfer(h)
           g == dart_trigger_next_transfer(h)
<1>1. Same(h, t)
    BY Triggered DEF Handles
<1>2. g = [t EXCEPT !.complete = @ \/ quiet]
    BY DEF dart_trigger_next_transfer
<1> HIDE DEF quiet, t, g
<1>3. g.queue = t.queue /\ g.tell = t.tell /\ g.pending_request = t.pending_request
    BY <1>2
<1> QED
    BY <1>1, <1>3 DEF Same, g

LEMMA SendSpares ==
    ASSUME NEW h, NEW s, NEW f \in [Msg -> Fates], NEW x, Handles(h, s, f, x),
           NEW m \in Msg, m.from = s, Learnt(f, h.tell)[m] = "new", m # x,
           ~h.complete, h.say = NoMsg, NoneTaken(h.tell)
    PROVE  Spares(h, dart_send_msg(h, m))
<1> DEFINE k == Enqueued(h, m)
           g == dart_send_msg(h, m)
<1>1. Handles(k, s, f, x) /\ k.transfering = h.transfering
    BY Enqueues
<1>2. g = dart_trigger_transfer(k)
    BY DEF dart_send_msg, Enqueued
<1>3. k.tell = Append(h.tell, <<m, "accepted">>)
    BY DEF Enqueued, Handles, Handler
<1> HIDE DEF k, g
<1>4. k \in Handler /\ Transfers(k.queue, k.transfering, k.pending_request)
    BY <1>1 DEF Handles
<1>5. g.tell = k.tell
    BY <1>2, <1>4, Triggered DEF Same
<1>6. h.tell \in Seq(Msg \X Codes) /\ "accepted" \in Codes
    BY DEF Handles, Handler, Codes
<1>7. g.tell = Append(h.tell, <<m, "accepted">>)
    BY <1>5, <1>3
<1>8. Spares(h, g)
    BY <1>6, <1>7, SparesAppend
<1> QED
    BY <1>8 DEF g

LEMMA CallbackSpares ==
    ASSUME NEW h, NEW s, NEW f \in [Msg -> Fates], Handles(h, s, f, NoMsg), ~h.complete,
           NEW m \in Msg, NEW code \in Outcomes \cup {"received"}, code # "failed",
           code # "received" => Held(h.queue, h.pending_request, m),
           code = "abandoned" => m = station[s].pending_request
    PROVE  Spares(h, Callback(h, m, code))
<1> DEFINE k == Noted(h, m, code)
           x == Settles(m, code)
           g == Callback(h, m, code)
<1>1. /\ Handles(k, s, f, x) /\ k.say = NoMsg
      /\ k.tell = Append(h.tell, <<m, code>>)
      /\ k.transfering = h.transfering /\ k.complete = h.complete /\ Current(k) = Current(h)
      /\ h.say # NoMsg =>
            /\ h.say \in Msg /\ h.say.from = s /\ h.say # x
            /\ Learnt(f, k.tell)[h.say] = "new" /\ NoneTaken(k.tell)
    BY Reports
<1>2. g = IF h.say = NoMsg THEN k ELSE dart_send_msg(k, h.say)
    BY DEF Callback, Noted
<1> HIDE DEF k, g, x
<1>3. code \in Codes /\ h.tell \in Seq(Msg \X Codes)
    BY DEF Codes, Handles, Handler
<1>4. Spares(h, k)
    BY <1>1, <1>3, SparesAppend
<1>5. CASE h.say = NoMsg
    BY <1>2, <1>4, <1>5 DEF g
<1>6. CASE h.say # NoMsg
  <2>1. Spares(k, g)
      BY <1>1, <1>2, <1>6, SendSpares
  <2> QED
      BY <1>4, <2>1 DEF Spares, g
<1> QED
    BY <1>5, <1>6

LEMMA RequestKeeps ==
    ASSUME NEW h, NEW s, NEW f, Handles(h, s, f, h.pending_request),
           h.pending_request # NoMsg, ~h.complete
    PROVE  LET g == dart_finalize_request_msg(h)
           IN  g.queue = h.queue /\ g.tell = h.tell
<1> DEFINE k == [h EXCEPT !.pending_request = NoMsg, !.tx_response_timer = Off]
           t == dart_trigger_transfer(k)
           quiet == /\ k.transfering = NoList /\ ~GivesUp(k) /\ k.rdy
                    /\ dart_find_next_message_queue(k) = NoList
                    /\ k.pending_request = NoMsg
           g == dart_finalize_request_msg(h)
<1>1. h \in Handler /\ Transfers(h.queue, h.transfering, h.pending_request)
    BY DEF Handles
<1>2. /\ k \in Handler /\ k.queue = h.queue /\ k.tell = h.tell
      /\ k.pending_request = NoMsg /\ k.transfering = h.transfering
    BY <1>1, TimersAre DEF Handler
<1>3. g = [t EXCEPT !.complete = @ \/ quiet]
    BY DEF dart_finalize_request_msg, dart_trigger_next_transfer
<1> HIDE DEF k, g, quiet
<1>4. Transfers(k.queue, k.transfering, k.pending_request)
    BY <1>1, <1>2 DEF Transfers
<1>5. Same(k, t)
    BY <1>2, <1>4, Triggered
<1> HIDE DEF t
<1>6. g.queue = t.queue /\ g.tell = t.tell
    BY <1>3
<1> QED
    BY <1>2, <1>5, <1>6 DEF Same, g

LEMMA AbandonMild ==
    ASSUME NEW h, NEW s, NEW f \in [Msg -> Fates], Handles(h, s, f, NoMsg),
           h.pending_request # NoMsg, ~h.complete,
           h.pending_request = station[s].pending_request
    PROVE  Mild(h, dart_abandon_request_msg(h))
<1> DEFINE r == h.pending_request
           k == Callback(h, h.pending_request, "abandoned")
           g == dart_abandon_request_msg(h)
<1>1. r \in Msg /\ Held(h.queue, r, r)
    BY DEF Handles, Handler, Held
<1>2. "abandoned" \in Outcomes \cup {"received"} /\ "abandoned" # "received"
      /\ "abandoned" # "failed"
    BY DEF Outcomes
<1>3. Settles(r, "abandoned") = r
    BY DEF Settles
<1>4. Handles(k, s, f, r) /\ ~k.complete /\ k.pending_request = r
    BY <1>1, <1>2, <1>3, CalledBack
<1>5. Spares(h, k)
    BY <1>1, <1>2, CallbackSpares
<1>6. g = dart_finalize_request_msg(k)
    BY DEF dart_abandon_request_msg
<1> HIDE DEF k, g
<1>7. g.queue = k.queue /\ g.tell = k.tell
    BY <1>4, <1>6, RequestKeeps
<1>8. ~Queued(k.queue, r)
    BY <1>4, PendingIsNot DEF Handles
<1>9. Spares(h, g)
    BY <1>5, <1>7 DEF Spares, Told
<1> QED
    BY <1>7, <1>8, <1>9 DEF Mild, g

LEMMA ReceiveMild ==
    ASSUME NEW h, NEW s, NEW f \in [Msg -> Fates], Handles(h, s, f, NoMsg),
           ~h.complete, NEW m \in Msg
    PROVE  Mild(h, dart_handle_received_msg(h, m))
<1> DEFINE seen == Callback(h, m, "received")
           r == h.pending_request
           k == Callback(seen, r, "done")
           g == dart_handle_received_msg(h, m)
<1>1. /\ "received" \in Outcomes \cup {"received"} /\ Settles(m, "received") = NoMsg
      /\ "done" \in Outcomes \cup {"received"} /\ "done" # "received"
      /\ "done" # "abandoned" /\ "received" # "abandoned"
      /\ "done" # "failed" /\ "received" # "failed"
    BY DEF Settles, Outcomes
<1>2. Handles(seen, s, f, NoMsg) /\ ~seen.complete /\ seen.pending_request = r
    BY <1>1, CalledBack
<1>3. Spares(h, seen)
    BY <1>1, CallbackSpares
<1>4. g = IF r # NoMsg /\ m.kind = "RESPONSE" /\ m.id = r.id
          THEN dart_finalize_request_msg(k) ELSE seen
    BY <1>2 DEF dart_handle_received_msg
<1> HIDE DEF seen
<1>5. CASE ~(r # NoMsg /\ m.kind = "RESPONSE" /\ m.id = r.id)
  <2>1. g = seen
      BY <1>4, <1>5
  <2>2. r # NoMsg => ~Queued(seen.queue, r)
      BY <1>2, PendingIsNot DEF Handles
  <2> QED
      BY <1>3, <2>1, <2>2 DEF Mild
<1>6. CASE r # NoMsg /\ m.kind = "RESPONSE" /\ m.id = r.id
  <2>1. r \in Msg /\ Held(seen.queue, seen.pending_request, r)
      BY <1>2, <1>6 DEF Handles, Handler, Held
  <2>2. Settles(r, "done") = r
      BY DEF Settles
  <2>3. Handles(k, s, f, r) /\ ~k.complete /\ k.pending_request = r
      BY <1>1, <1>2, <2>1, <2>2, CalledBack
  <2>4. Spares(seen, k)
      BY <1>1, <1>2, <2>1, CallbackSpares
  <2>5. g = dart_finalize_request_msg(k)
      BY <1>4, <1>6
  <2> HIDE DEF k, g
  <2>6. g.queue = k.queue /\ g.tell = k.tell
      BY <1>6, <2>3, <2>5, RequestKeeps
  <2>7. ~Queued(k.queue, r)
      BY <1>6, <2>3, PendingIsNot DEF Handles
  <2>8. Spares(h, g)
      BY <1>3, <2>4, <2>6 DEF Spares, Told
  <2> QED
      BY <2>6, <2>7, <2>8 DEF Mild, g
<1> QED
    BY <1>5, <1>6

LEMMA AcknowledgeMild ==
    ASSUME NEW h, NEW s, NEW f \in [Msg -> Fates], Handles(h, s, f, NoMsg),
           Tries(h.transfering, h.tx_attempts), h.transfering # NoList
    PROVE  LET g == dart_acknowledge_msg(h)
           IN  Mild(h, g) /\ ~Queued(g.queue, Current(h))
<1> DEFINE acked == [h EXCEPT !.tx_ack_timer = Off]
           m == Current(h)
           g == dart_acknowledge_msg(h)
<1>1. /\ h \in Handler /\ Transfers(h.queue, h.transfering, h.pending_request)
    BY DEF Handles
<1>2. acked \in Handler /\ Same(h, acked) /\ acked.transfering = h.transfering
    BY <1>1, TimersAre DEF Handler, Same
<1>3. Current(acked) = m
    BY <1>2 DEF Current, Same
<1>4. g = IF m.kind = "REQUEST" THEN dart_trigger_next_transfer(
                        [dart_finalize_transfer(acked) EXCEPT
                            !.pending_request = m,
                            !.tx_response_timer = DART_RESPONSE_TIMER_VAL])
          ELSE dart_trigger_next_transfer(dart_finalize_transfer(
                        Callback(acked, m, "done")))
    BY DEF dart_acknowledge_msg
<1>5. m \in Msg /\ m # NoMsg /\ Held(h.queue, h.pending_request, m)
    BY <1>1, CurrentIs, Assumptions
<1> HIDE DEF acked, m
<1>6. Transfers(acked.queue, acked.transfering, acked.pending_request)
    BY <1>1, <1>2 DEF Same
<1>7. Handles(acked, s, f, NoMsg)
    BY <1>2, <1>6, StillHandles
<1>8. CASE m.kind = "REQUEST"
  <2> DEFINE w == Waiting(acked)
             e == dart_finalize_transfer(acked)
  <2>1. g = dart_trigger_next_transfer(w)
      BY <1>3, <1>4, <1>8 DEF Waiting
  <2>2. Handles(w, s, f, NoMsg)
      BY <1>2, <1>3, <1>7, <1>8, Waits
  <2>3. e.tell = acked.tell
      BY <1>2, FinishStops
  <2>4. w = [e EXCEPT !.pending_request = m, !.tx_response_timer = DART_RESPONSE_TIMER_VAL]
      BY <1>3 DEF Waiting
  <2> HIDE DEF e, w, g
  <2>5. w.tell = e.tell
      BY <2>4
  <2>6. w.pending_request = m
    <3>1. DOMAIN w = DOMAIN e
        BY <2>4
    <3>2. "pending_request" \in DOMAIN w
        BY <2>2 DEF Handles, Handler
    <3> QED
        BY <2>4, <3>1, <3>2
  <2>7. ~Queued(w.queue, m)
      BY <1>5, <2>2, <2>6, PendingIsNot DEF Handles
  <2>8. g.queue = w.queue /\ g.tell = w.tell
      BY <2>1, <2>2, NextKeeps
  <2>9. Spares(h, g)
      BY <1>2, <2>3, <2>5, <2>8, SameSpares DEF Same
  <2>10. h.pending_request = NoMsg
      BY <1>1, <1>8 DEF Transfers, m, Current
  <2> QED
      BY <2>7, <2>8, <2>9, <2>10 DEF Mild, g, m
<1>9. CASE m.kind # "REQUEST"
  <2> DEFINE k == Callback(acked, m, "done")
             e == dart_finalize_transfer(k)
  <2>1. "done" \in Outcomes \cup {"received"} /\ "done" # "received" /\ "done" # "abandoned"
        /\ "done" # "failed" /\ Settles(m, "done") = m
      BY DEF Settles, Outcomes
  <2>2. ~acked.complete /\ Held(acked.queue, acked.pending_request, m)
      BY <1>2, <1>5, <1>7 DEF Handles, Empty, Same
  <2>3. /\ Handles(k, s, f, m) /\ k.pending_request = acked.pending_request
        /\ k.transfering # NoList /\ Current(k) = m
      BY <1>2, <1>3, <1>5, <1>7, <2>1, <2>2, CalledBack
  <2>4. Spares(acked, k)
      BY <1>5, <1>7, <2>1, <2>2, CallbackSpares
  <2>5. g = dart_trigger_next_transfer(e)
      BY <1>4, <1>9
  <2> HIDE DEF k, g
  <2>6. /\ k \in Handler /\ Once(k.queue, k.pending_request)
        /\ Transfers(k.queue, k.transfering, k.pending_request)
      BY <2>3 DEF Handles
  <2>7. /\ k.transfering \in Prio /\ k.queue \in [Prio -> Seq(Msg)]
        /\ k.queue[k.transfering] # <<>> /\ Head(k.queue[k.transfering]) = m
      BY <2>3, <2>6, CurrentIs
  <2>8. e.queue = Shorter(k.queue, k.transfering) /\ e.tell = k.tell
        /\ e.pending_request = k.pending_request
      BY <2>6, <2>7 DEF dart_finalize_transfer, Handler, Shorter
  <2>9. \A p \in Prio : \A i \in 1..Len(e.queue[p]) : e.queue[p][i] # m
    <3> DEFINE r == k.pending_request
               Q == Shorter(k.queue, k.transfering)
               n == Head(k.queue[k.transfering])
    <3> HIDE DEF m
    <3>1. \A p \in Prio : \A i \in 1..Len(Q[p]) : Q[p][i] # n
      <4>1. /\ k.queue \in [Prio -> Seq(Msg)] /\ Once(k.queue, r)
            /\ k.transfering \in Prio /\ k.queue[k.transfering] # <<>>
          BY <2>6, <2>7
      <4> QED
          BY <4>1, QueuePops
    <3>2. Q = e.queue /\ n = m
        BY <2>7, <2>8
    <3> HIDE DEF Q, n
    <3> QED
        BY <3>1, <3>2
  <2>10. Handles(e, s, f, NoMsg)
      BY <2>3, Finished
  <2> HIDE DEF e
  <2>11. g.queue = e.queue /\ g.tell = e.tell /\ g.pending_request = e.pending_request
      BY <2>5, <2>10, NextKeeps
  <2>12. ~Queued(g.queue, m)
      BY <2>9, <2>11 DEF Queued
  <2>13. Spares(h, g)
      BY <1>2, <2>4, <2>8, <2>11 DEF Spares, Told, Same
  <2>14. h.pending_request # NoMsg => ~Queued(g.queue, h.pending_request)
      BY <1>2, <2>3, <2>8, <2>10, <2>11, PendingIsNot DEF Handles, Same
  <2> QED
      BY <2>12, <2>13, <2>14 DEF Mild, g, m
<1> QED
    BY <1>8, <1>9

LEMMA SendMild ==
    ASSUME NEW h, NEW s, NEW f \in [Msg -> Fates], Handles(h, s, f, NoMsg),
           Tries(h.transfering, h.tx_attempts),
           NEW m \in Msg, m.from = s, Learnt(f, h.tell)[m] = "new",
           ~h.complete, h.say = NoMsg, NoneTaken(h.tell)
    PROVE  Mild(h, dart_send_msg(h, m))
<1> DEFINE g == dart_send_msg(h, m)
<1>1. m # NoMsg
    BY Assumptions
<1>2. Spares(h, g)
    BY <1>1, SendSpares
<1>3. Handles(g, s, f, NoMsg) /\ g.pending_request = h.pending_request
    BY <1>1, Sent
<1> HIDE DEF g
<1>4. h.pending_request # NoMsg => ~Queued(g.queue, h.pending_request)
    BY <1>3, PendingIsNot DEF Handles
<1> QED
    BY <1>2, <1>4 DEF Mild, g

\* What leaves the queues and the callbacks as they are.
LEMMA MildOn ==
    ASSUME NEW h, NEW k, NEW g, Mild(h, k), g.queue = k.queue, g.tell = k.tell
    PROVE  Mild(h, g)
BY DEF Mild, Spares, Told

LEMMA MildFrom ==
    ASSUME NEW h, NEW k, NEW g, Beside(h, k), Mild(k, g)
    PROVE  Mild(h, g)
BY DEF Mild, Spares, Told, Beside

LEMMA SelfMild ==
    ASSUME NEW h, NEW s, NEW f, NEW x, Handles(h, s, f, x)
    PROVE  Mild(h, h)
<1>1. Spares(h, h)
    BY DEF Spares
<1>2. h.pending_request # NoMsg => ~Queued(h.queue, h.pending_request)
    BY PendingIsNot DEF Handles
<1> QED
    BY <1>1, <1>2 DEF Mild

\* The time, while a transfer is not due for another attempt.
LEMMA TimeMild ==
    ASSUME NEW h, NEW s, NEW f \in [Msg -> Fates], Handles(h, s, f, NoMsg),
           Tries(h.transfering, h.tx_attempts), ~h.complete,
           h.pending_request = station[s].pending_request,
           h.transfering # NoList => h.tx_ack_timer # 0
    PROVE  Mild(h, dart_handle_time(h))
<1> DEFINE x == IF h.pending_request # NoMsg /\ h.tx_response_timer = 0
                THEN dart_abandon_request_msg(h) ELSE h
           g == dart_handle_time(h)
<1>1. Handles(x, s, f, NoMsg) /\ Tries(x.transfering, x.tx_attempts)
    BY Abandoned
<1>2. Mild(h, x) /\ (x.transfering # NoList => x.tx_ack_timer # 0)
  <2>1. CASE h.pending_request # NoMsg /\ h.tx_response_timer = 0
    <3>1. x = dart_abandon_request_msg(h)
        BY <2>1
    <3> HIDE DEF x
    <3>2. Mild(h, x)
        BY <2>1, <3>1, AbandonMild
    <3>3. Leads(h, x)
        BY <2>1, <3>1, AbandonLeads
    <3>4. DART_ACK_TIMER_VAL # 0
        BY DartAssumption DEF TimersInOrder
    <3> QED
        BY <3>2, <3>3, <3>4 DEF Leads, Goes, Starts
  <2>2. CASE ~(h.pending_request # NoMsg /\ h.tx_response_timer = 0)
    <3>1. x = h
        BY <2>2
    <3> QED
        BY <3>1, SelfMild
  <2> QED
      BY <2>1, <2>2
<1>3. g = CASE x.transfering # NoList -> Transfering(x)
          [] x.transfering = NoList /\ Sendable(x) # {}
                -> IF x.wakeup_timer = 0
                   THEN [x EXCEPT !.wakeup_timer = Off, !.wrk = FALSE]
                   ELSE dart_trigger_transfer(x)
          [] dart_is_idle(x) -> Closing(x)
          [] OTHER -> x
    BY DEF dart_handle_time
<1> HIDE DEF x, g
<1>4. x \in Handler /\ Transfers(x.queue, x.transfering, x.pending_request)
    BY <1>1 DEF Handles
<1>5. g.queue = x.queue /\ g.tell = x.tell
  <2>1. CASE x.transfering # NoList
    <3>1. ~dart_is_idle(x)
        BY <2>1 DEF dart_is_idle, dart_is_sending
    <3>2. Transfering(x) = x
        BY <1>2, <2>1 DEF Transfering
    <3> QED
        BY <1>3, <2>1, <3>1, <3>2
  <2>2. CASE x.transfering = NoList /\ Sendable(x) # {}
    <3>1. ~dart_is_idle(x)
        BY <1>4, <2>2, SendableIs DEF dart_is_idle, dart_is_sending
    <3>2. CASE x.wakeup_timer = 0
      <4>1. g = [x EXCEPT !.wakeup_timer = Off, !.wrk = FALSE]
          BY <1>3, <2>2, <3>1, <3>2
      <4> QED
          BY <4>1
    <3>3. CASE x.wakeup_timer # 0
      <4>1. g = dart_trigger_transfer(x)
          BY <1>3, <2>2, <3>1, <3>3
      <4> QED
          BY <1>4, <4>1, Triggered DEF Same
    <3> QED
        BY <3>2, <3>3
  <2>3. CASE x.transfering = NoList /\ Sendable(x) = {} /\ dart_is_idle(x)
    <3>1. g = Closing(x)
        BY <1>3, <2>3
    <3> QED
        BY <3>1, ClosingBeside DEF Beside
  <2>4. CASE x.transfering = NoList /\ Sendable(x) = {} /\ ~dart_is_idle(x)
    <3>1. g = x
        BY <1>3, <2>4
    <3> QED
        BY <3>1
  <2> QED
      BY <2>1, <2>2, <2>3, <2>4
<1> QED
    BY <1>2, <1>5, MildOn DEF g

\* A synchronisation byte that finds no frame begun.
LEMMA BeginningMild ==
    ASSUME NEW h, NEW s, NEW f \in [Msg -> Fates], Handles(h, s, f, NoMsg),
           Tries(h.transfering, h.tx_attempts), ~h.complete, h.out = Nothing,
           NEW t \in Tokens, t.k = "SYNC", NEW outcome \in Outcome, h.rx_buffer = "empty"
    PROVE  LET g == dart_handle_received_char(h, t, outcome)
           IN  /\ g.rx_buffer = "sync" /\ g.rx_byte_timer # 0
               /\ GoesOn(h, g, Nothing) /\ Quiet(h, g) /\ Mild(h, g)
<1> DEFINE x == Fresh(h)
           g == dart_handle_received_char(h, t, outcome)
<1>1. ~Hears(h)
    BY DEF Hears
<1>2. /\ g.rx_buffer = "sync" /\ g.rx_byte_timer = DART_BYTE_TIMER_VAL
      /\ GoesOn(h, g, Nothing)
    BY <1>1, ByteAlone DEF Answers
<1>3. Quiet(h, g)
    BY <1>1, ByteAlone
<1>4. Handles(x, s, f, NoMsg)
    BY FreshHandles
<1>5. Beside(h, x) /\ x.rx_buffer = "empty"
    BY <1>1, FreshBeside DEF Handles
<1>6. g = [x EXCEPT !.rx_buffer = "sync", !.rx_byte_timer = DART_BYTE_TIMER_VAL,
                    !.wrk = TRUE]
    BY <1>5 DEF dart_handle_received_char, FirstByte
<1> HIDE DEF x, g
<1>7. g.queue = x.queue /\ g.tell = x.tell
    BY <1>6
<1>8. Mild(h, g)
    BY <1>4, <1>5, <1>7, SelfMild, MildFrom, MildOn
<1>9. DART_BYTE_TIMER_VAL # 0
    BY DartAssumption DEF TimersInOrder
<1> QED
    BY <1>2, <1>3, <1>8, <1>9 DEF g

\* The rest of a frame.
LEMMA AnsweringMild ==
    ASSUME NEW h, NEW s, NEW f \in [Msg -> Fates], Handles(h, s, f, NoMsg),
           Tries(h.transfering, h.tx_attempts), ~h.complete, h.out = Nothing,
           NEW t \in Tokens, t.k = "body", NEW outcome \in Outcome,
           h.rx_buffer = "sync", h.rx_byte_timer # 0
    PROVE  LET g == dart_handle_received_char(h, t, outcome)
           IN  g.rx_buffer = "empty" /\ Mild(h, g)
<1> DEFINE x == Fresh(h)
           p == Push(x, Ack)
           e == dart_handle_received_msg(p, t.msg)
           g == dart_handle_received_char(h, t, outcome)
<1>1. Hears(h)
    BY DEF Hears
<1>2. /\ Handles(x, s, f, NoMsg) /\ Tries(x.transfering, x.tx_attempts) /\ ~x.complete
    BY FreshHandles
<1>3. Beside(h, x) /\ x.out = Nothing /\ x.rx_buffer = "sync"
    BY <1>1, FreshBeside DEF Handles
<1>4. g = Emptied(e)
    BY <1>3 DEF dart_handle_received_char, Ack
<1>5. Ack \in Seq(Tokens)
    BY TokensAre DEF Ack
<1>6. Aside(x, p) /\ Beside(x, p)
    BY <1>2, <1>3, <1>5, PushIs, PushBeside DEF Aside, Handles
<1>7. Handles(p, s, f, NoMsg) /\ Tries(p.transfering, p.tx_attempts) /\ ~p.complete
    BY <1>2, <1>6, AsideHandles DEF Aside, Same
<1>8. t.msg \in Msg
    BY DEF Tokens, Token
<1> HIDE DEF x, p, e, g
<1>9. Handles(e, s, f, NoMsg) /\ Mild(p, e)
    BY <1>7, <1>8, ReceivedMsg, ReceiveMild DEF e
<1>10. g.rx_buffer = "empty" /\ Beside(e, g)
    BY <1>4, <1>9, EmptiedBeside DEF Handles
<1>11. Mild(p, g)
    BY <1>9, <1>10, MildOn DEF Beside
<1>12. Mild(h, g)
    BY <1>3, <1>6, <1>11, MildFrom
<1> QED
    BY <1>10, <1>12 DEF g

\* An acknowledge byte for the message that is transferred.
LEMMA EndingMild ==
    ASSUME NEW h, NEW s, NEW f \in [Msg -> Fates], Handles(h, s, f, NoMsg),
           Tries(h.transfering, h.tx_attempts), ~h.complete, h.out = Nothing,
           NEW t \in Tokens, t.k = "ACK", NEW outcome \in Outcome,
           h.rx_buffer = "empty", h.wrk, h.transfering # NoList
    PROVE  LET g == dart_handle_received_char(h, t, outcome)
           IN  /\ g.rx_buffer = "empty"
               /\ StopsAfter(g, Nothing) \/ StartsAfter(g, Nothing)
               /\ Told(g, "received") = Told(h, "received")
               /\ Mild(h, g) /\ ~Queued(g.queue, Current(h))
<1> DEFINE x == Fresh(h)
           g == dart_handle_received_char(h, t, outcome)
<1>1. ~Hears(h)
    BY DEF Hears
<1>2. Handles(x, s, f, NoMsg) /\ Tries(x.transfering, x.tx_attempts)
    BY FreshHandles
<1>3. Beside(h, x) /\ x.out = Nothing /\ x.rx_buffer = "empty"
    BY <1>1, FreshBeside DEF Handles
<1>4. x.wrk
    BY DEF Fresh, Emptied, Handles, Handler
<1>5. g = dart_acknowledge_msg(x)
    BY <1>3, <1>4 DEF dart_handle_received_char, FirstByte
<1>6. Current(x) = Current(h) /\ x.transfering # NoList
    BY <1>3, BesideIs DEF Beside
<1> HIDE DEF x, g
<1>7. Ended(x, g) /\ (StopsAfter(g, Nothing) \/ StartsAfter(g, Nothing))
    BY <1>2, <1>3, <1>5, <1>6, AcknowledgeEnds, EndedAfter
<1>8. Mild(x, g) /\ ~Queued(g.queue, Current(h))
    BY <1>2, <1>5, <1>6, AcknowledgeMild
<1>9. g.rx_buffer = "empty"
    BY <1>3, <1>7 DEF Ended, Rx
<1>10. Told(g, "received") = Told(h, "received")
  <2>1. \E D : Tells(x, g, D, {})
      BY <1>2, <1>5, <1>6, AcknowledgeEnds
  <2>2. Told(g, "received") = Told(x, "received") \cup {}
      BY <2>1 DEF Tells
  <2>3. Told(x, "received") = Told(h, "received")
      BY <1>3 DEF Beside, Told
  <2> QED
      BY <2>2, <2>3
<1>11. Mild(h, g)
    BY <1>3, <1>8, MildFrom
<1> QED
    BY <1>7, <1>8, <1>9, <1>10, <1>11 DEF g

----------------------------------------------------------------------------
(* What is on a line without faults.                                       *)

\* The stages of a transfer: there is none, its frame is on the line, the other
\* station has heard the synchronisation byte, it has answered.
Stage == {"rest", "begun", "heard", "answered"}

\* What is left of the frame with message m, and the answer.
Part(p, m) ==
    CASE p = "begun" -> Frame(m)
      [] p = "heard" -> <<Token("body", m)>>
      [] p \in {"rest", "answered"} -> Nothing

\* A line between what one transfer sends and what another one answers: the two
\* are in any order, but a frame is not broken.
Traffic(p, m, q) ==
    IF q # "answered" THEN {Part(p, m)}
    ELSE CASE p = "begun" -> {Frame(m) \o Ack, Ack \o Frame(m)}
           [] p = "heard" -> {<<Token("body", m)>> \o Ack}
           [] p \in {"rest", "answered"} -> {Ack}

\* The transfer from c to d is at stage p: the timers are not at their end, and no
\* message that was received, R, is still to be sent.
Way(p, c, d, R) ==
    /\ p = "rest" <=> c.transfering = NoList
    /\ p # "rest" => c.tx_ack_timer = DART_ACK_TIMER_VAL /\ Current(c) \in Msg
    /\ d.rx_buffer = IF p = "heard" THEN "sync" ELSE "empty"
    /\ p = "heard" => d.rx_byte_timer # 0
    /\ \A m \in R : Queued(c.queue, m) => p = "answered" /\ m = Current(c)

Clean(c, d, fwd, back, R) ==
    \E p, q \in Stage :
        /\ Way(p, c, d, R) /\ Way(q, d, c, R)
        /\ fwd \in Traffic(p, Current(c), q) /\ back \in Traffic(q, Current(d), p)

\* The messages R that are in a queue of g were in one of h.
Fewer(h, g, R) == \A m \in R : Queued(g.queue, m) => Queued(h.queue, m)

LEMMA TokensOf ==
    ASSUME NEW m \in Msg
    PROVE  /\ Token("SYNC", NoMsg) \in Tokens /\ Token("ACK", NoMsg) \in Tokens
           /\ Token("body", m) \in Tokens
           /\ Ack \in Seq(Tokens) /\ Frame(m) \in Seq(Tokens)
BY TokensAre DEF Ack, Frame

LEMMA FirstTaken ==
    ASSUME NEW a \in Tokens, NEW t \in Seq(Tokens)
    PROVE  Head(<<a>> \o t) = a /\ Tail(<<a>> \o t) = t
<1> DEFINE w == <<a>> \o t
<1>1. w \in Seq(Tokens) /\ Len(w) = 1 + Len(t) /\ w[1] = a
    OBVIOUS
<1>2. \A i \in 1..Len(t) : w[i + 1] = t[i]
    OBVIOUS
<1> HIDE DEF w
<1>3. w # <<>> /\ Head(w) = a
    BY <1>1
<1>4. Tail(w) \in Seq(Tokens) /\ Len(Tail(w)) = Len(t)
    BY <1>1
<1>5. \A i \in 1..Len(t) : Tail(w)[i] = t[i]
    BY <1>1, <1>2
<1>6. Tail(w) = t
    BY <1>4, <1>5, SeqEqual
<1> QED
    BY <1>3, <1>6 DEF w

LEMMA FirstOne ==
    ASSUME NEW a, NEW b
    PROVE  /\ Head(<<a>>) = a /\ Tail(<<a>>) = <<>> /\ <<a>> # <<>>
           /\ Head(<<a, b>>) = a /\ Tail(<<a, b>>) = <<b>> /\ <<a, b>> # <<>>
OBVIOUS

\* The first token of a line, and the others.
LEMMA HeadOfTraffic ==
    ASSUME NEW p \in Stage, NEW q \in Stage, NEW m,
           p \in {"begun", "heard"} => m \in Msg,
           NEW w \in Traffic(p, m, q), w # <<>>
    PROVE  \/ /\ Head(w) = Token("SYNC", NoMsg) /\ p = "begun"
              /\ Tail(w) \in Traffic("heard", m, q)
           \/ /\ Head(w) = Token("body", m) /\ p = "heard"
              /\ Tail(w) \in Traffic("answered", m, q)
           \/ /\ Head(w) = Token("ACK", NoMsg) /\ p # "heard" /\ q = "answered"
              /\ Tail(w) \in Traffic(p, m, "rest")
<1> DEFINE y == Token("SYNC", NoMsg)
           b == Token("body", m)
           a == Token("ACK", NoMsg)
<1>1. Ack = <<a>> /\ Frame(m) = <<y, b>> /\ Nothing = <<>>
    BY DEF Ack, Frame, Nothing
<1>2. /\ Part("begun", m) = <<y, b>> /\ Part("heard", m) = <<b>>
      /\ Part("rest", m) = <<>> /\ Part("answered", m) = <<>>
    BY <1>1 DEF Part
<1>3. /\ Traffic("begun", m, "answered") = {<<y, b>> \o <<a>>, <<a>> \o <<y, b>>}
      /\ Traffic("heard", m, "answered") = {<<b>> \o <<a>>}
      /\ Traffic("rest", m, "answered") = {<<a>>}
      /\ Traffic("answered", m, "answered") = {<<a>>}
    BY <1>1 DEF Traffic
<1>4. ASSUME NEW r \in Stage, r # "answered", NEW k \in Stage
      PROVE  Traffic(k, m, r) = {Part(k, m)}
    BY <1>4 DEF Traffic
<1>5. a \in Tokens
    BY TokensAre
<1>6. m \in Msg => y \in Tokens /\ b \in Tokens
    BY TokensOf
<1> HIDE DEF y, b, a
<1>7. CASE q # "answered"
  <2>1. w = Part(p, m)
      BY <1>4, <1>7
  <2>2. CASE p = "begun"
    <3>1. w = <<y, b>>
        BY <1>2, <2>1, <2>2
    <3>2. Head(w) = y /\ Tail(w) = <<b>>
        BY <3>1, FirstOne
    <3>3. Tail(w) \in Traffic("heard", m, q)
        BY <1>2, <1>4, <1>7, <3>2 DEF Stage
    <3> QED
        BY <2>2, <3>2, <3>3 DEF y
  <2>3. CASE p = "heard"
    <3>1. w = <<b>>
        BY <1>2, <2>1, <2>3
    <3>2. Head(w) = b /\ Tail(w) = <<>>
        BY <3>1, FirstOne
    <3>3. Tail(w) \in Traffic("answered", m, q)
        BY <1>2, <1>4, <1>7, <3>2 DEF Stage
    <3> QED
        BY <2>3, <3>2, <3>3 DEF b
  <2> QED
      BY <1>2, <2>1, <2>2, <2>3 DEF Stage
<1>8. CASE q = "answered"
  <2>1. CASE p \in {"rest", "answered"}
    <3>1. w = <<a>>
        BY <1>3, <1>8, <2>1
    <3>2. Head(w) = a /\ Tail(w) = <<>>
        BY <3>1, FirstOne
    <3>3. Tail(w) \in Traffic(p, m, "rest")
        BY <1>2, <1>4, <2>1, <3>2 DEF Stage
    <3> QED
        BY <1>8, <2>1, <3>2, <3>3 DEF a
  <2>2. CASE p = "heard"
    <3>1. w = <<b>> \o <<a>> /\ b \in Tokens /\ <<a>> \in Seq(Tokens)
        BY <1>3, <1>5, <1>6, <1>8, <2>2
    <3>2. Head(w) = b /\ Tail(w) = <<a>>
        BY <3>1, FirstTaken
    <3>3. Tail(w) \in Traffic("answered", m, q)
        BY <1>3, <1>8, <3>2
    <3> QED
        BY <2>2, <3>2, <3>3 DEF b
  <2>3. CASE p = "begun" /\ w = <<y, b>> \o <<a>>
    <3>1. y \in Tokens /\ b \in Tokens
        BY <1>6, <2>3
    <3>2. <<y, b>> \o <<a>> = <<y>> \o (<<b>> \o <<a>>)
      <4>1. <<y, b>> = <<y>> \o <<b>>
        <5>1. <<y, b>> \in Seq(Tokens) /\ <<y>> \o <<b>> \in Seq(Tokens)
            BY <3>1
        <5>2. Len(<<y, b>>) = 2 /\ Len(<<y>> \o <<b>>) = 2
            BY <3>1
        <5>3. \A i \in 1..2 : <<y, b>>[i] = (<<y>> \o <<b>>)[i]
            BY <3>1
        <5> QED
            BY <5>1, <5>2, <5>3, SeqEqual
      <4>2. <<y>> \in Seq(Tokens) /\ <<b>> \in Seq(Tokens) /\ <<a>> \in Seq(Tokens)
          BY <1>5, <3>1
      <4>3. (<<y>> \o <<b>>) \o <<a>> = <<y>> \o (<<b>> \o <<a>>)
          BY <4>2, ConcatAssociative
      <4> QED
          BY <4>1, <4>3
    <3>3. <<b>> \o <<a>> \in Seq(Tokens)
        BY <1>5, <3>1
    <3>4. Head(w) = y /\ Tail(w) = <<b>> \o <<a>>
        BY <2>3, <3>1, <3>2, <3>3, FirstTaken
    <3>5. Tail(w) \in Traffic("heard", m, q)
        BY <1>3, <1>8, <3>4
    <3> QED
        BY <2>3, <3>4, <3>5 DEF y
  <2>4. CASE p = "begun" /\ w = <<a>> \o <<y, b>>
    <3>1. <<y, b>> \in Seq(Tokens)
        BY <1>6, <2>4
    <3>2. Head(w) = a /\ Tail(w) = <<y, b>>
        BY <1>5, <2>4, <3>1, FirstTaken
    <3>3. Tail(w) \in Traffic(p, m, "rest")
        BY <1>2, <1>4, <2>4, <3>2 DEF Stage
    <3> QED
        BY <1>8, <2>4, <3>2, <3>3 DEF a
  <2> QED
      BY <1>3, <1>8, <2>1, <2>2, <2>3, <2>4 DEF Stage
<1> QED
    BY <1>7, <1>8

\* What a call adds to a line: nothing, a frame, an answer, or an answer and a frame.
LEMMA TrafficGrows ==
    ASSUME NEW p \in Stage, NEW q \in Stage, NEW m,
           p \in {"begun", "heard"} => m \in Msg,
           NEW w \in Traffic(p, m, q)
    PROVE  /\ w \o Nothing = w
           /\ q = "heard" => w \o Ack \in Traffic(p, m, "answered")
           /\ \A n \in Msg :
                /\ p = "rest" => w \o Frame(n) \in Traffic("begun", n, q)
                /\ p = "rest" /\ q = "heard" =>
                        w \o (Ack \o Frame(n)) \in Traffic("begun", n, "answered")
<1>1. Ack \in Seq(Tokens) /\ Nothing \in Seq(Tokens)
    BY TokensAre DEF Ack, Nothing
<1>2. \A v \in Seq(Tokens) : Nothing \o v = v /\ v \o Nothing = v
    BY ConcatEmptySeq DEF Nothing
<1>3. w \in Seq(Tokens)
  <2>1. Part(p, m) \in Seq(Tokens)
    <3>1. CASE p = "begun"
        BY <3>1, TokensOf DEF Part
    <3>2. CASE p = "heard"
      <4>1. Token("body", m) \in Tokens /\ Part(p, m) = <<Token("body", m)>>
          BY <3>2, TokensOf DEF Part
      <4> QED
          BY <4>1
    <3>3. CASE p \in {"rest", "answered"}
        BY <1>1, <3>3 DEF Part
    <3> QED
        BY <3>1, <3>2, <3>3 DEF Stage
  <2>2. CASE q # "answered"
      BY <2>1, <2>2 DEF Traffic
  <2>3. CASE q = "answered"
    <3>1. CASE p = "begun"
      <4>1. w \in {Frame(m) \o Ack, Ack \o Frame(m)} /\ Frame(m) \in Seq(Tokens)
          BY <2>3, <3>1, TokensOf DEF Traffic
      <4> QED
          BY <1>1, <4>1, ConcatProperties
    <3>2. CASE p = "heard"
      <4>1. w = <<Token("body", m)>> \o Ack /\ <<Token("body", m)>> \in Seq(Tokens)
          BY <2>1, <2>3, <3>2 DEF Traffic, Part
      <4> QED
          BY <1>1, <4>1, ConcatProperties
    <3>3. CASE p \in {"rest", "answered"}
        BY <1>1, <2>3, <3>3 DEF Traffic
    <3> QED
        BY <3>1, <3>2, <3>3 DEF Stage
  <2> QED
      BY <2>2, <2>3
<1>4. p = "rest" => w = IF q = "answered" THEN Ack ELSE Nothing
    BY DEF Traffic, Part
<1>5. q = "heard" => w = Part(p, m)
    BY DEF Traffic
<1>6. q = "heard" => w \o Ack \in Traffic(p, m, "answered")
    BY <1>1, <1>2, <1>5 DEF Traffic, Part, Stage
<1>7. ASSUME NEW n \in Msg, p = "rest"
      PROVE  /\ w \o Frame(n) \in Traffic("begun", n, q)
             /\ q = "heard" => w \o (Ack \o Frame(n)) \in Traffic("begun", n, "answered")
  <2>1. Frame(n) \in Seq(Tokens)
      BY FrameIs
  <2>2. Ack \o Frame(n) \in Seq(Tokens)
      BY <1>1, <2>1, ConcatProperties
  <2>3. w \o Frame(n) \in Traffic("begun", n, q)
      BY <1>2, <1>4, <1>7, <2>1 DEF Traffic, Part
  <2>4. q = "heard" => w \o (Ack \o Frame(n)) \in Traffic("begun", n, "answered")
      BY <1>2, <1>4, <1>7, <2>2 DEF Traffic
  <2> QED
      BY <2>3, <2>4
<1> QED
    BY <1>2, <1>3, <1>6, <1>7

\* The answer matters to a line only when it is there.
LEMMA TrafficSame ==
    ASSUME NEW p, NEW m, NEW q, NEW r, q # "answered", r # "answered"
    PROVE  Traffic(p, m, q) = Traffic(p, m, r)
BY DEF Traffic

\* The message matters only while a frame is on the line.
LEMMA TrafficRests ==
    ASSUME NEW p \in {"rest", "answered"}, NEW m, NEW n, NEW q
    PROVE  /\ Traffic(p, m, q) = Traffic(p, n, q)
           /\ Traffic(p, m, q) = Traffic("rest", m, q)
BY DEF Traffic, Part

LEMMA EmptyTraffic ==
    ASSUME NEW p \in Stage, NEW q \in Stage, NEW m,
           p \in {"begun", "heard"} => m \in Msg, <<>> \in Traffic(p, m, q)
    PROVE  p \in {"rest", "answered"} /\ q # "answered"
<1>1. Ack \in Seq(Tokens) /\ Len(Ack) = 1
    BY TokensAre DEF Ack
<1>2. m \in Msg => /\ Frame(m) \in Seq(Tokens) /\ Len(Frame(m)) = 2
                   /\ <<Token("body", m)>> \in Seq(Tokens)
    BY TokensOf DEF Frame
<1>3. m \in Msg => /\ Len(Frame(m) \o Ack) = 3 /\ Len(Ack \o Frame(m)) = 3
                   /\ Len(<<Token("body", m)>> \o Ack) = 2
  <2> DEFINE b == <<Token("body", m)>>
  <2>1. HAVE m \in Msg
  <2>2. Len(b) = 1
      OBVIOUS
  <2>3. b \in Seq(Tokens)
      BY <1>2, <2>1
  <2> HIDE DEF b
  <2>4. Len(Frame(m) \o Ack) = Len(Frame(m)) + Len(Ack)
      BY <1>1, <1>2, <2>1, ConcatProperties
  <2>5. Len(Ack \o Frame(m)) = Len(Ack) + Len(Frame(m))
      BY <1>1, <1>2, <2>1, ConcatProperties
  <2>6. Len(b \o Ack) = Len(b) + Len(Ack)
      BY <1>1, <2>3, ConcatProperties
  <2>7. Len(b \o Ack) = 2
      BY <1>1, <2>2, <2>6
  <2>8. Len(Ack) = 1 /\ Len(Frame(m)) = 2
      BY <1>1, <1>2, <2>1
  <2>9. Len(Frame(m) \o Ack) = 3 /\ Len(Ack \o Frame(m)) = 3
      BY <2>4, <2>5, <2>8
  <2>10. Len(<<Token("body", m)>> \o Ack) = 2
      BY <2>7, Zenon DEF b
  <2> QED
      BY <2>9, <2>10
<1>4. CASE q = "answered"
  <2>1. CASE p = "begun"
    <3>1. \/ Len(<<>>) = Len(Frame(m) \o Ack)
          \/ Len(<<>>) = Len(Ack \o Frame(m))
        BY <1>4, <2>1 DEF Traffic
    <3> QED
        BY <1>3, <2>1, <3>1
  <2>2. CASE p = "heard"
    <3>1. Len(<<>>) = Len(<<Token("body", m)>> \o Ack)
        BY <1>4, <2>2 DEF Traffic
    <3> QED
        BY <1>3, <2>2, <3>1
  <2>3. CASE p \in {"rest", "answered"}
    <3>1. Len(<<>>) = Len(Ack)
        BY <1>4, <2>3 DEF Traffic
    <3> QED
        BY <1>1, <3>1
  <2> QED
      BY <2>1, <2>2, <2>3 DEF Stage
<1>5. CASE q # "answered"
  <2>1. <<>> = Part(p, m)
      BY <1>5 DEF Traffic
  <2>2. Len(<<>>) = 0 /\ Len(<<Token("body", m)>>) = 1
      OBVIOUS
  <2> QED
      BY <1>2, <1>5, <2>1, <2>2 DEF Part, Stage
<1> QED
    BY <1>4, <1>5

----------------------------------------------------------------------------
(* The stages of a transfer on a line without faults.                      *)

LEMMA CleanTurned ==
    ASSUME NEW c, NEW d, NEW fwd, NEW back, NEW R, Clean(c, d, fwd, back, R)
    PROVE  Clean(d, c, back, fwd, R)
BY DEF Clean

LEMMA WayLike ==
    ASSUME NEW b, NEW c, NEW d, NEW e, NEW R, NEW p, Like(b, c), Like(e, d), Way(p, c, d, R)
    PROVE  Way(p, b, e, R) /\ Current(b) = Current(c)
BY DEF Way, Like, Current

LEMMA CleanLike ==
    ASSUME NEW b, NEW c, NEW d, NEW e, NEW fwd, NEW back, NEW R,
           Like(b, c), Like(e, d), Clean(c, d, fwd, back, R)
    PROVE  Clean(b, e, fwd, back, R)
<1>1. PICK p \in Stage, q \in Stage :
            /\ Way(p, c, d, R) /\ Way(q, d, c, R)
            /\ fwd \in Traffic(p, Current(c), q) /\ back \in Traffic(q, Current(d), p)
    BY DEF Clean
<1>2. Way(p, b, e, R) /\ Way(q, e, b, R) /\ Current(b) = Current(c) /\ Current(e) = Current(d)
    BY <1>1, WayLike
<1> QED
    BY <1>1, <1>2 DEF Clean

\* The transfer of a station that is called goes on, or starts.
LEMMA WayOn ==
    ASSUME NEW p \in Stage, NEW h, NEW g, NEW d, NEW R, Way(p, h, d, R),
           NEW r, GoesOn(h, g, r), Fewer(h, g, R)
    PROVE  /\ Way(p, g, d, R)
           /\ \A q : Traffic(p, Current(g), q) = Traffic(p, Current(h), q)
<1>1. h.transfering = NoList <=> p = "rest"
    BY DEF Way
<1>2. h.transfering # NoList => Current(g) = Current(h)
    BY DEF GoesOn
<1>3. \A q : Traffic(p, Current(g), q) = Traffic(p, Current(h), q)
  <2>1. CASE p = "rest"
      BY <2>1, TrafficRests
  <2>2. CASE p # "rest"
      BY <1>1, <1>2, <2>2
  <2> QED
      BY <2>1, <2>2
<1>4. Way(p, g, d, R)
    BY <1>1, <1>2 DEF Way, GoesOn, Fewer
<1> QED
    BY <1>3, <1>4

LEMMA WayStarts ==
    ASSUME NEW p \in Stage, NEW h, NEW g, NEW d, NEW R, Way(p, h, d, R),
           h.transfering = NoList, NEW r, StartsAfter(g, r), Fewer(h, g, R)
    PROVE  p = "rest" /\ Way("begun", g, d, R)
BY DEF Way, StartsAfter, Fewer

LEMMA WayWider ==
    ASSUME NEW p, NEW g, NEW d, NEW R, Way(p, g, d, R), NEW m, ~Queued(g.queue, m)
    PROVE  Way(p, g, d, R \cup {m})
BY DEF Way

\* What the other station sends is the same when this one begins a transfer.
LEMMA BackSame ==
    ASSUME NEW q, NEW m
    PROVE  Traffic(q, m, "rest") = Traffic(q, m, "begun")
BY TrafficSame

LEMMA NothingFirst ==
    ASSUME NEW g, StartsAfter(g, Nothing)
    PROVE  Current(g) \in Msg /\ g.out = Frame(Current(g))
BY FrameIs DEF StartsAfter

\* Neither an answer comes nor a frame.
LEMMA CleanGoes ==
    ASSUME NEW h, NEW g, NEW d, NEW fwd, NEW back, NEW R, Clean(h, d, fwd, back, R),
           Rx(h, g), Fewer(h, g, R),
           GoesOn(h, g, Nothing) \/ (h.transfering = NoList /\ StartsAfter(g, Nothing))
    PROVE  Clean(g, d, fwd \o g.out, back, R)
<1>1. PICK p \in Stage, q \in Stage :
            /\ Way(p, h, d, R) /\ Way(q, d, h, R)
            /\ fwd \in Traffic(p, Current(h), q) /\ back \in Traffic(q, Current(d), p)
    BY DEF Clean
<1>2. Way(q, d, g, R)
    BY <1>1 DEF Way, Rx
<1>3. p \in {"begun", "heard"} => Current(h) \in Msg
    BY <1>1 DEF Way
<1>4. CASE GoesOn(h, g, Nothing)
  <2>1. Way(p, g, d, R) /\ fwd \in Traffic(p, Current(g), q)
      BY <1>1, <1>4, WayOn
  <2>2. fwd \o g.out = fwd
      BY <1>1, <1>3, <1>4, TrafficGrows DEF GoesOn
  <2> QED
      BY <1>1, <1>2, <2>1, <2>2 DEF Clean
<1>5. CASE h.transfering = NoList /\ StartsAfter(g, Nothing)
  <2>1. p = "rest" /\ Way("begun", g, d, R)
      BY <1>1, <1>5, WayStarts
  <2>2. Current(g) \in Msg /\ g.out = Frame(Current(g))
      BY <1>5, NothingFirst
  <2>3. fwd \o g.out \in Traffic("begun", Current(g), q)
      BY <1>1, <2>1, <2>2, TrafficGrows
  <2>4. back \in Traffic(q, Current(d), "begun")
      BY <1>1, <2>1, BackSame
  <2>5. "begun" \in Stage
      BY DEF Stage
  <2> QED
      BY <1>1, <1>2, <2>1, <2>3, <2>4, <2>5 DEF Clean
<1> QED
    BY <1>4, <1>5

\* What the first token on a line is.
LEMMA CleanHead ==
    ASSUME NEW h, NEW d, NEW fwd, NEW back, NEW R, Clean(h, d, fwd, back, R), back # <<>>
    PROVE  \/ Head(back).k = "SYNC" /\ h.rx_buffer = "empty"
           \/ /\ Head(back).k = "body" /\ Head(back).msg = Current(d)
              /\ h.rx_buffer = "sync" /\ h.rx_byte_timer # 0
              /\ d.transfering # NoList /\ Current(d) \in Msg
              /\ Queued(d.queue, Current(d)) => Current(d) \notin R
           \/ /\ Head(back).k = "ACK"
              /\ h.rx_buffer = "empty" /\ h.transfering # NoList
<1>1. PICK p \in Stage, q \in Stage :
            /\ Way(p, h, d, R) /\ Way(q, d, h, R)
            /\ fwd \in Traffic(p, Current(h), q) /\ back \in Traffic(q, Current(d), p)
    BY DEF Clean
<1>2. q \in {"begun", "heard"} => Current(d) \in Msg
    BY <1>1 DEF Way
<1>3. \/ Head(back) = Token("SYNC", NoMsg) /\ q = "begun"
      \/ Head(back) = Token("body", Current(d)) /\ q = "heard"
      \/ Head(back) = Token("ACK", NoMsg) /\ q # "heard" /\ p = "answered"
    BY <1>1, <1>2, HeadOfTraffic
<1>4. CASE Head(back) = Token("SYNC", NoMsg) /\ q = "begun"
    BY <1>1, <1>4 DEF Way, Token
<1>5. CASE Head(back) = Token("body", Current(d)) /\ q = "heard"
    BY <1>1, <1>5 DEF Way, Token
<1>6. CASE Head(back) = Token("ACK", NoMsg) /\ q # "heard" /\ p = "answered"
    BY <1>1, <1>6 DEF Way, Token
<1> QED
    BY <1>3, <1>4, <1>5, <1>6

\* A synchronisation byte is heard.
LEMMA CleanBegins ==
    ASSUME NEW h, NEW g, NEW d, NEW fwd, NEW back, NEW R, Clean(h, d, fwd, back, R),
           back # <<>>, Head(back).k = "SYNC",
           GoesOn(h, g, Nothing), Fewer(h, g, R),
           g.rx_buffer = "sync", g.rx_byte_timer # 0
    PROVE  Clean(g, d, fwd \o g.out, Tail(back), R)
<1>1. PICK p \in Stage, q \in Stage :
            /\ Way(p, h, d, R) /\ Way(q, d, h, R)
            /\ fwd \in Traffic(p, Current(h), q) /\ back \in Traffic(q, Current(d), p)
    BY DEF Clean
<1>2. /\ q \in {"begun", "heard"} => Current(d) \in Msg
      /\ p \in {"begun", "heard"} => Current(h) \in Msg
    BY <1>1 DEF Way
<1>3. q = "begun" /\ Tail(back) \in Traffic("heard", Current(d), p)
    BY <1>1, <1>2, HeadOfTraffic DEF Token
<1>4. Way(p, g, d, R) /\ fwd \in Traffic(p, Current(g), q)
    BY <1>1, WayOn
<1>5. fwd \o g.out = fwd
    BY <1>1, <1>2, TrafficGrows DEF GoesOn
<1>6. fwd \in Traffic(p, Current(g), "heard")
    BY <1>3, <1>4, TrafficSame
<1>7. Way("heard", d, g, R)
    BY <1>1, <1>3 DEF Way
<1>8. "heard" \in Stage
    BY DEF Stage
<1> QED
    BY <1>3, <1>4, <1>5, <1>6, <1>7, <1>8 DEF Clean

\* The rest of a frame is answered.
LEMMA CleanAnswers ==
    ASSUME NEW h, NEW g, NEW d, NEW fwd, NEW back, NEW R, Clean(h, d, fwd, back, R),
           back # <<>>, Head(back).k = "body",
           GoesOn(h, g, Ack) \/ (h.transfering = NoList /\ StartsAfter(g, Ack)),
           Fewer(h, g, R), g.rx_buffer = "empty", ~Queued(g.queue, Current(d))
    PROVE  Clean(g, d, fwd \o g.out, Tail(back), R \cup {Current(d)})
<1> DEFINE S == R \cup {Current(d)}
<1>1. PICK p \in Stage, q \in Stage :
            /\ Way(p, h, d, R) /\ Way(q, d, h, R)
            /\ fwd \in Traffic(p, Current(h), q) /\ back \in Traffic(q, Current(d), p)
    BY DEF Clean
<1>2. /\ q \in {"begun", "heard"} => Current(d) \in Msg
      /\ p \in {"begun", "heard"} => Current(h) \in Msg
    BY <1>1 DEF Way
<1>3. q = "heard" /\ Tail(back) \in Traffic("answered", Current(d), p)
    BY <1>1, <1>2, HeadOfTraffic DEF Token
<1>4. Way("answered", d, g, S)
    BY <1>1, <1>3 DEF Way
<1>5. "answered" \in Stage /\ "begun" \in Stage
    BY DEF Stage
<1>6. CASE GoesOn(h, g, Ack)
  <2>1. /\ Way(p, g, d, R)
        /\ \A k : Traffic(p, Current(g), k) = Traffic(p, Current(h), k)
      BY <1>1, <1>6, WayOn
  <2>2. Way(p, g, d, S)
      BY <2>1, WayWider
  <2>3. fwd \o g.out \in Traffic(p, Current(h), "answered")
      BY <1>1, <1>2, <1>3, <1>6, TrafficGrows DEF GoesOn
  <2> QED
      BY <1>1, <1>3, <1>4, <1>5, <2>1, <2>3, <2>2 DEF Clean
<1>7. CASE h.transfering = NoList /\ StartsAfter(g, Ack)
  <2>1. p = "rest" /\ Way("begun", g, d, S)
      BY <1>1, <1>7, WayStarts, WayWider
  <2>2. Current(g) \in Msg /\ g.out = Ack \o Frame(Current(g))
      BY <1>7 DEF StartsAfter
  <2>3. fwd \o g.out \in Traffic("begun", Current(g), "answered")
      BY <1>1, <1>3, <2>1, <2>2, TrafficGrows
  <2>4. Tail(back) \in Traffic("answered", Current(d), "begun")
      BY <1>3, <2>1, BackSame
  <2> QED
      BY <1>4, <1>5, <2>1, <2>3, <2>4 DEF Clean
<1> QED
    BY <1>6, <1>7

\* An acknowledge byte ends the transfer.
LEMMA CleanEnds ==
    ASSUME NEW h, NEW g, NEW d, NEW fwd, NEW back, NEW R, Clean(h, d, fwd, back, R),
           back # <<>>, Head(back).k = "ACK",
           StopsAfter(g, Nothing) \/ StartsAfter(g, Nothing),
           Fewer(h, g, R), g.rx_buffer = "empty", ~Queued(g.queue, Current(h))
    PROVE  Clean(g, d, fwd \o g.out, Tail(back), R)
<1>1. PICK p \in Stage, q \in Stage :
            /\ Way(p, h, d, R) /\ Way(q, d, h, R)
            /\ fwd \in Traffic(p, Current(h), q) /\ back \in Traffic(q, Current(d), p)
    BY DEF Clean
<1>2. q \in {"begun", "heard"} => Current(d) \in Msg
    BY <1>1 DEF Way
<1>3. p = "answered" /\ q # "heard" /\ Tail(back) \in Traffic(q, Current(d), "rest")
    BY <1>1, <1>2, HeadOfTraffic DEF Token
<1>4. Way(q, d, g, R)
    BY <1>1, <1>3 DEF Way
<1>5. \A k : fwd \in Traffic("rest", k, q)
  <2>1. \A k : Traffic("answered", Current(h), q) = Traffic("answered", k, q)
      BY TrafficRests
  <2>2. \A k : Traffic("answered", k, q) = Traffic("rest", k, q)
      BY TrafficRests
  <2> QED
      BY <1>1, <1>3, <2>1, <2>2
<1>6. \A m \in R : ~Queued(g.queue, m)
    BY <1>1 DEF Way, Fewer
<1>7. "rest" \in Stage /\ "begun" \in Stage
    BY DEF Stage
<1>8. CASE StopsAfter(g, Nothing)
  <2>1. Way("rest", g, d, R)
      BY <1>1, <1>3, <1>6, <1>8 DEF Way, StopsAfter
  <2>2. fwd \in Traffic("rest", Current(h), q)
      BY <1>5
  <2>3. fwd \o g.out = fwd
      BY <1>7, <1>8, <2>2, TrafficGrows DEF StopsAfter
  <2> QED
      BY <1>3, <1>4, <1>5, <1>7, <2>1, <2>3 DEF Clean
<1>9. CASE StartsAfter(g, Nothing)
  <2>1. Way("begun", g, d, R)
      BY <1>1, <1>3, <1>6, <1>9 DEF Way, StartsAfter
  <2>2. Current(g) \in Msg /\ g.out = Frame(Current(g))
      BY <1>9, NothingFirst
  <2>3. fwd \in Traffic("rest", Current(h), q)
      BY <1>5
  <2>4. fwd \o g.out \in Traffic("begun", Current(g), q)
      BY <1>7, <2>2, <2>3, TrafficGrows
  <2>5. Tail(back) \in Traffic(q, Current(d), "begun")
      BY <1>3, BackSame
  <2> QED
      BY <1>4, <1>7, <2>1, <2>4, <2>5 DEF Clean
<1> QED
    BY <1>8, <1>9

\* Time passes when there is nothing on the lines.
LEMMA CleanTicks ==
    ASSUME NEW b, NEW c, NEW d, NEW e, NEW R, Clean(c, d, <<>>, <<>>, R),
           b.transfering = c.transfering, b.queue = c.queue, b.rx_buffer = c.rx_buffer,
           e.transfering = d.transfering, e.queue = d.queue, e.rx_buffer = d.rx_buffer
    PROVE  Clean(b, e, <<>>, <<>>, R)
<1>1. PICK p \in Stage, q \in Stage :
            /\ Way(p, c, d, R) /\ Way(q, d, c, R)
            /\ <<>> \in Traffic(p, Current(c), q) /\ <<>> \in Traffic(q, Current(d), p)
    BY DEF Clean
<1>2. /\ p \in {"begun", "heard"} => Current(c) \in Msg
      /\ q \in {"begun", "heard"} => Current(d) \in Msg
    BY <1>1 DEF Way
<1>3. p = "rest" /\ q = "rest"
    BY <1>1, <1>2, EmptyTraffic
<1>4. Way(p, b, e, R) /\ Way(q, e, b, R)
    BY <1>1, <1>3 DEF Way
<1>5. Current(b) = Current(c) /\ Current(e) = Current(d)
    BY DEF Current
<1> QED
    BY <1>1, <1>4, <1>5 DEF Clean

----------------------------------------------------------------------------
(* Each message is carried once.                                           *)

\* As long as there was no fault no message arrived twice or failed.
Clear ==
    /\ got \in Seq(Msg) /\ twice = {}
    /\ \A m \in Msg : fate[m] # "failed"
    /\ \A m \in Range(got) : m \in Msg /\ fate[m] # "new"
    /\ \A s \in Node : Clean(station[s], station[Other(s)], line[Other(s)], line[s], Range(got))

Faultless == faults = 0 => Clear

\* A message that had been accepted before a call, and is in a queue after it, was
\* in one before.
LEMMA FewerQueued ==
    ASSUME IInv, NEW s \in Node, NEW at \in Calls(s, Unsent(s) \cup {NoMsg}),
           NEW g, Handles(g, s, fate, NoMsg), Mild(at, g),
           NEW R, \A m \in R : m \in Msg /\ fate[m] # "new"
    PROVE  Fewer(at, g, R)
<1> DEFINE F == Learnt(fate, g.tell)
<1> SUFFICES ASSUME NEW m \in R, Queued(g.queue, m)
             PROVE  Queued(at.queue, m)
    BY DEF Fewer
<1>1. m \in Msg /\ m # NoMsg /\ fate[m] \in Fates /\ fate[m] # "new"
    BY Assumptions DEF IInv, TypeOK, Fates
<1>2. Held(g.queue, g.pending_request, m)
    BY DEF Held, Queued
<1>3. m.from = s /\ F[m] = "accepted"
    BY <1>1, <1>2 DEF Handles, Knows
<1>4. fate[m] \in Outcomes => F[m] = fate[m]
    BY <1>1 DEF Handles, Learns
<1>5. fate[m] = "accepted"
    BY <1>1, <1>3, <1>4 DEF Fates, Outcomes
<1>6. Handles(at, s, fate, NoMsg) /\ Learnt(fate, at.tell) = fate
    BY Begins
<1>7. Held(at.queue, at.pending_request, m)
    BY <1>1, <1>3, <1>5, <1>6 DEF Handles, Knows
<1>8. at.pending_request # m
    BY <1>1 DEF Mild
<1> QED
    BY <1>7, <1>8 DEF Held, Queued

LEMMA NoneFails ==
    ASSUME fate \in [Msg -> Fates], \A m \in Msg : fate[m] # "failed",
           NEW h, h.tell \in Seq(Msg \X Codes), fate' = Learnt(fate, h.tell),
           Told(h, "failed") = {}
    PROVE  \A m \in Msg : fate'[m] # "failed"
<1> SUFFICES ASSUME NEW m \in Msg, fate'[m] = "failed"
             PROVE  FALSE
    OBVIOUS
<1>1. Learnt(fate, h.tell)[m] = "failed" /\ fate[m] # "failed"
    OBVIOUS
<1>2. PICK i \in DOMAIN h.tell : h.tell[i] = <<m, "failed">>
    BY <1>1, LearntIs
<1>3. h.tell[i][1] = m
    BY <1>2, FirstOf
<1>4. h.tell[i][2] = "failed"
    BY <1>2, SecondOf
<1> QED
    BY <1>3, <1>4 DEF Told

LEMMA NoneNew ==
    ASSUME IInv, NEW s \in Node, NEW h, Handles(h, s, fate, NoMsg),
           fate' = Learnt(fate, h.tell), NEW m \in Msg, fate[m] # "new"
    PROVE  fate'[m] # "new"
BY DEF Handles, Learns

\* The message that a station transfers.
LEMMA TransferedIs ==
    ASSUME IInv, NEW s \in Node, station[s].transfering # NoList
    PROVE  LET m == Current(station[s])
           IN  /\ m \in Msg /\ Queued(station[s].queue, m)
               /\ m.from = s /\ fate[m] = "accepted"
<1> DEFINE c == station[s]
           q == c.queue[c.transfering]
           m == Current(c)
<1>1. c.queue \in [Prio -> Seq(Msg)] /\ c.transfering \in Prio
    BY DEF IInv, TypeOK, Station
<1>2. q # <<>> /\ Knows(c.queue, c.pending_request, s, fate, NoMsg)
    BY DEF IInv, Keeps, Transfers
<1>3. q \in Seq(Msg) /\ m = Head(q)
    BY <1>1 DEF Current
<1> HIDE DEF c, q, m
<1>4. 1 \in 1..Len(q) /\ m = q[1] /\ m \in Msg
    BY <1>2, <1>3
<1>5. Queued(c.queue, m)
    BY <1>1, <1>4 DEF Queued, q
<1>6. Held(c.queue, c.pending_request, m) /\ m # NoMsg
    BY <1>4, <1>5, Assumptions DEF Held, Queued
<1>7. m.from = s /\ fate[m] = "accepted"
    BY <1>2, <1>4, <1>6 DEF Knows
<1> QED
    BY <1>4, <1>5, <1>7 DEF m, c

LEMMA ClearCall ==
    ASSUME IInv, Clear, NEW s \in Node, NEW at \in Calls(s, Unsent(s) \cup {NoMsg})
    PROVE  /\ Clean(at, station[Other(s)], line[Other(s)], line[s], Range(got))
           /\ at.out = Nothing /\ Told(at, "received") = {} /\ Told(at, "failed") = {}
           /\ at.transfering # NoList => at.tx_ack_timer # 0
<1>1. Like(at, station[s]) /\ at.out = Nothing /\ at.tell = <<>>
    BY BeginsLike
<1>2. Like(station[Other(s)], station[Other(s)])
    BY DEF Like
<1>3. Clean(at, station[Other(s)], line[Other(s)], line[s], Range(got))
    BY <1>1, <1>2, CleanLike DEF Clear
<1>4. DART_ACK_TIMER_VAL # 0
    BY DartAssumption DEF TimersInOrder
<1>5. at.transfering # NoList => at.tx_ack_timer # 0
    BY <1>3, <1>4 DEF Clean, Way
<1>6. \A code : Told(at, code) = {}
    BY <1>1 DEF Told
<1> QED
    BY <1>1, <1>3, <1>5, <1>6

LEMMA CallClears ==
    ASSUME IInv, Clear, NEW s \in Node, NEW g, Handles(g, s, fate, NoMsg), Leave(s, g),
           Told(g, "failed") = {}, NEW R, Few(R), Told(g, "received") = R,
           \A m \in R : m \in Msg /\ m \notin Range(got) /\ fate[m] # "new",
           Clean(g, station[Other(s)], line'[Other(s)], line'[s], Range(got) \cup R)
    PROVE  Clear'
<1> DEFINE o == Other(s)
<1>1. o \in Node /\ Other(o) = s /\ o # s /\ \A t \in Node : t = s \/ t = o
    BY OtherIs, PairIs
<1>2. g \in Handler /\ g.tell \in Seq(Msg \X Codes) /\ fate \in [Msg -> Fates]
    BY DEF Handles, Handler, IInv, TypeOK, Fates
<1>3. /\ got' \in Seq(Msg) /\ Range(got') = Range(got) \cup R /\ twice' = {}
  <2>1. got' = got \o SetToSeq(R \ Range(got)) /\ twice' = twice \cup (R \cap Range(got))
      BY DEF Leave
  <2>2. got \in Seq(Msg) /\ twice = {}
      BY DEF Clear
  <2> QED
      BY <2>1, <2>2, GotGrows
<1>4. fate' = Learnt(fate, g.tell) /\ station' = [station EXCEPT ![s] = Left(g)]
    BY DEF Leave
<1>5. \A m \in Msg : fate'[m] # "failed"
    BY <1>2, <1>4, NoneFails DEF Clear
<1>6. \A m \in Range(got') : m \in Msg /\ fate'[m] # "new"
  <2> SUFFICES ASSUME NEW m \in Range(got')
               PROVE  m \in Msg /\ fate'[m] # "new"
      OBVIOUS
  <2>1. m \in Msg /\ fate[m] # "new"
      BY <1>3 DEF Clear
  <2> QED
      BY <1>4, <2>1, NoneNew
<1>7. station'[s] = Left(g) /\ station'[o] = station[o]
    BY <1>1, <1>4 DEF IInv, TypeOK
<1>8. Like(Left(g), g) /\ Like(station[o], station[o])
    BY <1>2, LeftLike DEF Like
<1>9. Clean(g, station[o], line'[o], line'[s], Range(got'))
    BY <1>3
<1> HIDE DEF o
<1>10. Clean(station'[s], station'[o], line'[o], line'[s], Range(got'))
    BY <1>7, <1>8, <1>9, CleanLike
<1>11. Clean(station'[o], station'[s], line'[s], line'[o], Range(got'))
    BY <1>10, CleanTurned
<1>12. ASSUME NEW t \in Node
       PROVE  Clean(station'[t], station'[Other(t)], line'[Other(t)], line'[t], Range(got'))
  <2>1. CASE t = s
      BY <1>10, <2>1 DEF o
  <2>2. CASE t = o
      BY <1>1, <1>11, <2>2
  <2> QED
      BY <1>1, <2>1, <2>2
<1> QED
    BY <1>3, <1>5, <1>6, <1>12 DEF Clear

\* A call that hears nothing.
LEMMA GoingClears ==
    ASSUME IInv, Clear, NEW s \in Node, NEW at \in Calls(s, Unsent(s) \cup {NoMsg}),
           NEW g, Handles(g, s, fate, NoMsg), Leave(s, g), Mild(at, g),
           Rx(at, g), Told(g, "received") = {},
           GoesOn(at, g, Nothing) \/ (at.transfering = NoList /\ StartsAfter(g, Nothing)),
           line' = [line EXCEPT ![Other(s)] = @ \o g.out]
    PROVE  Clear'
<1> DEFINE o == Other(s)
<1>1. o \in Node /\ o # s /\ line \in [Node -> Seq(Tokens)]
    BY OtherIs DEF IInv, TypeOK
<1>2. /\ Clean(at, station[o], line[o], line[s], Range(got))
      /\ Told(at, "failed") = {}
    BY ClearCall
<1>3. Fewer(at, g, Range(got))
    BY FewerQueued DEF Clear
<1>4. line'[o] = line[o] \o g.out /\ line'[s] = line[s]
    BY <1>1
<1> HIDE DEF o
<1>5. Clean(g, station[o], line'[o], line'[s], Range(got))
    BY <1>2, <1>3, <1>4, CleanGoes
<1>6. Told(g, "failed") = {}
    BY <1>2 DEF Mild, Spares
<1>7. Few({}) /\ Range(got) \cup {} = Range(got)
    BY DEF Few
<1> QED
    BY <1>5, <1>6, <1>7, CallClears DEF o

LEMMA SendClears ==
    ASSUME IInv, Clear, NEW s \in Node, NEW m \in Msg, SendMsg(s, m)
    PROVE  Clear'
<1>1. PICK at \in Calls(s, {NoMsg}) :
        /\ Leave(s, dart_send_msg(at, m))
        /\ line' = [line EXCEPT ![Other(s)] = @ \o dart_send_msg(at, m).out]
    BY DEF SendMsg
<1> DEFINE g == dart_send_msg(at, m)
<1>2. m.from = s /\ fate[m] = "new" /\ fate \in [Msg -> Fates]
    BY DEF SendMsg, Unsent, IInv, TypeOK, Fates
<1>3. at \in Calls(s, Unsent(s) \cup {NoMsg}) /\ at.say = NoMsg
    BY <1>1, BeginsAlone
<1>4. /\ Handles(at, s, fate, NoMsg) /\ Tries(at.transfering, at.tx_attempts)
      /\ ~at.complete /\ Learnt(fate, at.tell) = fate /\ NoneTaken(at.tell)
    BY <1>3, Begins
<1>5. at.out = Nothing /\ Told(at, "received") = {}
    BY <1>3, ClearCall
<1>6. Learnt(fate, at.tell)[m] = "new"
    BY <1>2, <1>4
<1>7. Handles(g, s, fate, NoMsg)
    BY <1>2, <1>3, <1>4, <1>6, AcceptedMsg
<1>8. Mild(at, g)
    BY <1>2, <1>3, <1>4, <1>6, SendMild
<1>9. /\ Rx(at, g) /\ Tells(at, g, {}, {})
      /\ GoesOn(at, g, Nothing) \/ (at.transfering = NoList /\ StartsAfter(g, Nothing))
    BY <1>2, <1>3, <1>4, <1>5, <1>6, SendDoes
<1>10. Leave(s, g) /\ line' = [line EXCEPT ![Other(s)] = @ \o g.out]
    BY <1>1
<1> HIDE DEF g
<1>11. Told(g, "received") = {}
    BY <1>5, <1>9 DEF Tells
<1> QED
    BY <1>3, <1>7, <1>8, <1>9, <1>10, <1>11, GoingClears

LEMMA TimeClears ==
    ASSUME IInv, Clear, NEW s \in Node, HandleTime(s, Unsent(s) \cup {NoMsg})
    PROVE  Clear'
<1>1. PICK at \in Calls(s, Unsent(s) \cup {NoMsg}) :
        /\ Leave(s, dart_handle_time(at))
        /\ line' = [line EXCEPT ![Other(s)] = @ \o dart_handle_time(at).out]
    BY DEF HandleTime
<1> DEFINE g == dart_handle_time(at)
<1>2. fate \in [Msg -> Fates]
    BY DEF IInv, TypeOK, Fates
<1>3. /\ Handles(at, s, fate, NoMsg) /\ Tries(at.transfering, at.tx_attempts)
      /\ ~at.complete /\ at.pending_request = station[s].pending_request
    BY Begins
<1>4. /\ at.out = Nothing /\ Told(at, "received") = {}
      /\ at.transfering # NoList => at.tx_ack_timer # 0
    BY ClearCall
<1>5. Handles(g, s, fate, NoMsg)
    BY <1>2, <1>3, HandledTime
<1>6. Mild(at, g)
    BY <1>2, <1>3, <1>4, TimeMild
<1>7. Rx(at, g) /\ Quiet(at, g)
    BY <1>2, <1>3, <1>4, TimeDoes
<1>8. GoesOn(at, g, Nothing) \/ (at.transfering = NoList /\ StartsAfter(g, Nothing))
    BY <1>2, <1>3, <1>4, TimeDoes
<1>9. Leave(s, g) /\ line' = [line EXCEPT ![Other(s)] = @ \o g.out]
    BY <1>1
<1> HIDE DEF g
<1>10. Told(g, "received") = {}
    BY <1>4, <1>7 DEF Quiet, Tells
<1> QED
    BY <1>5, <1>6, <1>7, <1>8, <1>9, <1>10, GoingClears

LEMMA ByteClears ==
    ASSUME IInv, AllRested, Clear, NEW s \in Node, NEW outcome \in Outcome,
           NEW at \in Calls(s, Unsent(s) \cup {NoMsg}), line[s] # <<>>,
           Leave(s, dart_handle_received_char(at, Head(line[s]), outcome)),
           line' = [line EXCEPT ![s] = Tail(@),
                                ![Other(s)] = @ \o dart_handle_received_char(
                                                at, Head(line[s]), outcome).out]
    PROVE  Clear'
<1> DEFINE o == Other(s)
           d == station[o]
           t == Head(line[s])
           g == dart_handle_received_char(at, t, outcome)
           R == Range(got)
<1>1. fate \in [Msg -> Fates] /\ line \in [Node -> Seq(Tokens)] /\ o \in Node /\ o # s
    BY OtherIs DEF IInv, TypeOK, Fates
<1>2. /\ Handles(at, s, fate, NoMsg) /\ Tries(at.transfering, at.tx_attempts)
      /\ ~at.complete
    BY Begins
<1>3. /\ Clean(at, d, line[o], line[s], R)
      /\ at.out = Nothing /\ Told(at, "received") = {} /\ Told(at, "failed") = {}
    BY ClearCall
<1>4. t \in Tokens
    BY <1>1, LinesCarry
<1>5. Handles(g, s, fate, NoMsg)
    BY <1>1, <1>2, <1>4, ReceivedChar
<1>6. line'[o] = line[o] \o g.out /\ line'[s] = Tail(line[s])
    BY <1>1
<1>7. Leave(s, g)
    OBVIOUS
<1>8. Mild(at, g) => Fewer(at, g, R) /\ Told(g, "failed") = {}
  <2> HIDE DEF g
  <2> SUFFICES ASSUME Mild(at, g)
               PROVE  Fewer(at, g, R) /\ Told(g, "failed") = {}
      OBVIOUS
  <2>1. Fewer(at, g, R)
      BY <1>5, FewerQueued DEF Clear
  <2> QED
      BY <1>3, <2>1 DEF Mild, Spares
<1>9. Few({}) /\ R \cup {} = R
    BY DEF Few
<1>10. CASE t.k = "SYNC" /\ at.rx_buffer = "empty"
  <2>1. /\ g.rx_buffer = "sync" /\ g.rx_byte_timer # 0
        /\ GoesOn(at, g, Nothing) /\ Quiet(at, g) /\ Mild(at, g)
      BY <1>1, <1>2, <1>3, <1>4, <1>10, BeginningMild
  <2> HIDE DEF g, o, d
  <2>2. Clean(g, d, line'[o], line'[s], R)
      BY <1>3, <1>6, <1>8, <1>10, <2>1, CleanBegins
  <2>3. Told(g, "received") = {}
      BY <1>3, <2>1 DEF Quiet, Tells
  <2> QED
      BY <1>5, <1>7, <1>8, <1>9, <2>1, <2>2, <2>3, CallClears DEF o, d
<1>11. CASE /\ t.k = "body" /\ t.msg = Current(d)
            /\ at.rx_buffer = "sync" /\ at.rx_byte_timer # 0
            /\ d.transfering # NoList
            /\ Queued(d.queue, Current(d)) => Current(d) \notin R
  <2> DEFINE m == Current(d)
             r == at.pending_request
  <2>1. Hears(at)
      BY <1>11 DEF Hears
  <2>2. /\ GoesOn(at, g, Ack) \/ (at.transfering = NoList /\ StartsAfter(g, Ack))
        /\ Tells(at, g, IF r # NoMsg /\ t.msg.kind = "RESPONSE" /\ t.msg.id = r.id
                        THEN {r} ELSE {}, {t.msg})
      BY <1>1, <1>2, <1>3, <1>4, <1>11, <2>1, ByteAnswers
  <2>3. g.rx_buffer = "empty" /\ Mild(at, g)
      BY <1>1, <1>2, <1>3, <1>4, <1>11, AnsweringMild
  <2>4. m \in Msg /\ Queued(d.queue, m) /\ m.from = o /\ fate[m] = "accepted"
      BY <1>1, <1>11, TransferedIs
  <2> HIDE DEF g, o, d, m
  <2>5. ~Queued(g.queue, m)
    <3>1. Held(g.queue, g.pending_request, m) => m.from = s
        BY <2>4, <1>5, Assumptions DEF Handles, Knows
    <3> QED
        BY <1>1, <2>4, <3>1 DEF Held, Queued
  <2>6. Clean(g, d, line'[o], line'[s], R \cup {m})
    <3>1. Fewer(at, g, R) /\ ~Queued(g.queue, Current(d)) /\ Head(line[s]).k = "body"
        BY <1>8, <1>11, <2>3, <2>5 DEF m
    <3>2. Clean(g, d, line[o] \o g.out, Tail(line[s]), R \cup {Current(d)})
        BY <1>3, <2>2, <2>3, <3>1, CleanAnswers
    <3> QED
        BY <1>6, <3>2 DEF m
  <2>7. Told(g, "received") = {m} /\ Few({m}) /\ m \notin R
    <3>1. t.msg = m /\ m \notin R
        BY <1>11, <2>4 DEF m
    <3> QED
        BY <1>3, <2>2, <2>4, <3>1 DEF Few, Tells
  <2> QED
      BY <1>5, <1>7, <1>8, <2>3, <2>4, <2>6, <2>7, CallClears DEF o, d
<1>12. CASE t.k = "ACK" /\ at.rx_buffer = "empty" /\ at.transfering # NoList
  <2>1. at.wrk
    <3>1. at.transfering = station[s].transfering /\ at.wrk = station[s].wrk
        BY Calling
    <3> QED
        BY <1>12, <3>1 DEF AllRested, Rested, Busy
  <2>2. /\ g.rx_buffer = "empty"
        /\ StopsAfter(g, Nothing) \/ StartsAfter(g, Nothing)
        /\ Told(g, "received") = Told(at, "received")
        /\ Mild(at, g) /\ ~Queued(g.queue, Current(at))
      BY <1>1, <1>2, <1>3, <1>4, <1>12, <2>1, EndingMild
  <2> HIDE DEF g, o, d
  <2>3. Clean(g, d, line'[o], line'[s], R)
      BY <1>3, <1>6, <1>8, <1>12, <2>2, CleanEnds
  <2> QED
      BY <1>3, <1>5, <1>7, <1>8, <1>9, <2>2, <2>3, CallClears DEF o, d
<1> QED
    BY <1>3, <1>10, <1>11, <1>12, CleanHead

LEMMA StepClears ==
    IInv /\ AllRested /\ Faultless /\ [Next]_vars => Faultless'
<1> SUFFICES ASSUME IInv, AllRested, Faultless, [Next]_vars, faults' = 0
             PROVE  Clear'
    BY DEF Faultless
<1>1. faults \in Nat
    BY DartLinkAssumption DEF IInv, TypeOK
<1>2. ASSUME NEW s \in Node, NEW g, Leave(s, g)
      PROVE  Clear
  <2>1. faults' = faults \/ faults' = faults + 1
      BY <1>2 DEF Leave
  <2> QED
      BY <1>1, <2>1 DEF Faultless
<1>3. ASSUME NEW s \in Node, NEW m \in Msg, SendMsg(s, m)
      PROVE  Clear'
  <2>1. Clear
      BY <1>2, <1>3 DEF SendMsg
  <2> QED
      BY <1>3, <2>1, SendClears
<1>4. ASSUME NEW s \in Node, HandleTime(s, Unsent(s) \cup {NoMsg})
      PROVE  Clear'
  <2>1. Clear
      BY <1>2, <1>4 DEF HandleTime
  <2> QED
      BY <1>4, <2>1, TimeClears
<1>5. ASSUME NEW s \in Node, NEW outcome \in Outcome,
             Receive(s, Unsent(s) \cup {NoMsg}, outcome)
      PROVE  Clear'
  <2>1. line[s] # <<>>
      BY <1>5 DEF Receive
  <2>2. awake[s] # "no"
      BY <2>1 DEF AllRested, Rested
  <2>3. PICK at \in Calls(s, Unsent(s) \cup {NoMsg}) :
            /\ Leave(s, dart_handle_received_char(at, Head(line[s]), outcome))
            /\ line' = [line EXCEPT ![s] = Tail(@),
                                    ![Other(s)] = @ \o dart_handle_received_char(
                                                    at, Head(line[s]), outcome).out]
      BY <1>5, <2>2 DEF Receive
  <2>4. Clear
      BY <1>2, <2>3
  <2> QED
      BY <2>1, <2>3, <2>4, ByteClears
<1>6. CASE \E s \in Node : Lose(s) \/ Damage(s)
    BY <1>1, <1>6 DEF Lose, Damage
<1>7. ASSUME UNCHANGED <<station, line, faults, heard>>
      PROVE  Clear'
  <2>1. Clear
      BY <1>7 DEF Faultless
  <2> QED
      BY <1>7, <2>1 DEF Clear, heard
<1>8. CASE Tick
  <2>1. Clear /\ UNCHANGED <<fate, got, twice>>
      BY <1>8 DEF Tick, Faultless, heard
  <2>2. \A s \in Node : line[s] = <<>> /\ line'[s] = <<>>
      BY <1>8 DEF Tick
  <2>3. ASSUME NEW s \in Node
        PROVE  /\ station'[s].queue = station[s].queue
               /\ station'[s].transfering = station[s].transfering
               /\ station'[s].rx_buffer = station[s].rx_buffer
    <3>1. station[s] \in Station /\ station'[s] = Elapsed(station[s])
        BY <1>8 DEF Tick, IInv, TypeOK
    <3> QED
        BY <3>1, ElapsedIs
  <2>4. ASSUME NEW s \in Node
        PROVE  Clean(station'[s], station'[Other(s)], line'[Other(s)], line'[s], Range(got))
    <3>1. /\ Other(s) \in Node
          /\ Clean(station[s], station[Other(s)], <<>>, <<>>, Range(got))
        BY <2>1, <2>2, OtherIs DEF Clear
    <3>2. Clean(station'[s], station'[Other(s)], <<>>, <<>>, Range(got))
        BY <2>3, <3>1, CleanTicks
    <3> QED
        BY <2>2, <3>1, <3>2
  <2> QED
      BY <2>1, <2>4 DEF Clear
<1>9. CASE \E s \in Node : Wake(s) \/ Sleep(s)
    BY <1>7, <1>9 DEF Wake, Sleep
<1>10. CASE UNCHANGED vars
    BY <1>7, <1>10 DEF vars
<1> QED
    BY <1>3, <1>4, <1>5, <1>6, <1>8, <1>9, <1>10 DEF Next, Works

\* As long as no token was lost or damaged and no edge of a pin was missed, each
\* message is received once and none fails, whatever the two stations send each
\* other at the same time, from callbacks too, however they wake up, lower their
\* pins and sleep: an acknowledge byte always comes before time passes, and it finds
\* the station that waits for it with its pin high.
THEOREM LinesStayClean ==
    Spec => []CleanLine
<1>1. Init => IInv /\ AllRested /\ Faultless
  <2> SUFFICES ASSUME Init PROVE Clear
      BY Initially, RestedFirst DEF Faultless
  <2>1. got = <<>> /\ twice = {} /\ \A m \in Msg : fate[m] = "new"
      BY DEF Init
  <2>2. got \in Seq(Msg) /\ Range(got) = {}
      BY <2>1 DEF Range
  <2>3. ASSUME NEW s \in Node
        PROVE  Clean(station[s], station[Other(s)], line[Other(s)], line[s], {})
    <3>1. ASSUME NEW q \in Node
          PROVE  /\ station[q].transfering = NoList /\ station[q].rx_buffer = "empty"
                 /\ line[q] = <<>>
        BY DEF Init, dart_reset
    <3>2. Other(s) \in Node
        BY OtherIs
    <3>3. "rest" \in Stage
        BY DEF Stage
    <3>4. Way("rest", station[s], station[Other(s)], {})
          /\ Way("rest", station[Other(s)], station[s], {})
        BY <3>1, <3>2 DEF Way
    <3>5. \A m : <<>> \in Traffic("rest", m, "rest")
        BY DEF Traffic, Part, Nothing
    <3> QED
        BY <3>1, <3>2, <3>3, <3>4, <3>5 DEF Clean
  <2> QED
      BY <2>1, <2>2, <2>3 DEF Clear
<1>2. IInv /\ AllRested /\ Faultless /\ [Next]_vars => (IInv /\ AllRested /\ Faultless)'
    BY StepKeeps, StepRests, StepClears
<1>3. Faultless => CleanLine
    BY DEF Faultless, Clear, CleanLine
<1> QED
    BY <1>1, <1>2, <1>3, PTL DEF Spec
==============================================================================
