------------------------------- MODULE DartLink -------------------------------
(***************************************************************************)
(* Two dart stations.  The WRK pin of each is the RDY pin of the other,    *)
(* and a line leads each way, which may lose and damage what it carries.   *)
(*                                                                         *)
(* A station calls dart_handle_time every millisecond and the timers are   *)
(* far longer, so the model's clock ticks when these calls have nothing    *)
(* left to do.  A station that was told that it is idle may sleep, and is  *)
(* woken by an edge of its RDY pin, as dart_handle_time expects when it    *)
(* generates a spike "just in case opponent requires edge to wakup".       *)
(***************************************************************************)
EXTENDS Dart

CONSTANTS
    StationA, StationB,
    MaxFaults       \* bound: tokens lost or damaged, and edges missed

Node == {StationA, StationB}
Other(s) == CHOOSE q \in Node : q # s

ASSUME DartLinkAssumption ==
    /\ StationA # StationB
    /\ \A m \in Msg : m.from \in Node
    /\ MaxFaults \in Nat

VARIABLES
    station,
    line,       \* the tokens on their way to each station
    awake,      \* "yes", "drowsy": told that it is idle, "no"
    faults,
    fate,       \* history: what the sender knows of each message
    got,        \* history: messages received, in order of first reception
    twice,      \* history: messages received more than once
    sent,       \* history: messages accepted, in order
    complete    \* history: stations told so last, and not given more to send

heard == <<fate, got, twice, sent, complete>>
vars == <<station, line, awake, faults, heard>>

Init ==
    /\ station = [s \in Node |-> dart_reset]
    /\ line = [s \in Node |-> <<>>]
    /\ awake = [s \in Node |-> "yes"]
    /\ faults = 0
    /\ fate = [m \in Msg |-> "new"]
    /\ got = <<>>
    /\ twice = {}
    /\ sent = <<>>
    /\ complete = {}

----------------------------------------------------------------------------
\* The messages of one kind among the callbacks of a handler.
Told(self, code) == {self.tell[i][1] : i \in {j \in DOMAIN self.tell :
                                                self.tell[j][2] = code}}

\* What is known of each message after the callbacks in tell.
Learnt(known, tell) ==
    [m \in Msg |->
        LET news == {i \in DOMAIN tell :
                        tell[i][1] = m /\ tell[i][2] # "received"}
        IN  IF news = {} THEN known[m] ELSE tell[Max(news)][2]]

\* Station s ends a handler as "self".  A raised pin is an edge for the other.
Leave(s, self) ==
    /\ station' = [station EXCEPT ![s] = Left(self)]
    /\ LET own == IF self.wrk THEN "yes"
                  ELSE IF self.idle THEN "drowsy" ELSE awake[s]
           edge == self.wrk /\ ~station[s].wrk /\ awake[Other(s)] = "no"
       IN  \/ /\ awake' = [awake EXCEPT
                    ![s] = own, ![Other(s)] = IF edge THEN "yes" ELSE @]
              /\ UNCHANGED faults
           \/ /\ edge
              /\ faults < MaxFaults
              /\ faults' = faults + 1
              /\ awake' = [awake EXCEPT ![s] = own]
    /\ fate' = Learnt(fate, self.tell)
    /\ LET new == Told(self, "received")
           known == Range(got)
       IN  /\ got' = got \o SetToSeq(new \ known)
           /\ twice' = twice \cup (new \cap known)
    /\ LET more == Told(self, "accepted")
       IN  /\ sent' = sent \o SetToSeq(more)     \* one at most
           /\ complete' = IF self.complete THEN complete \cup {s}
                          ELSE IF more # {} THEN complete \ {s} ELSE complete

Unsent(s) == {m \in Msg : m.from = s /\ fate[m] = "new"}

Calls(s, said) ==
    {Called(station[s], station[Other(s)].wrk, say) : say \in said}

\* The application sends a message, for which it wakes up.
SendMsg(s, m) ==
    /\ m \in Unsent(s)
    /\ \E self \in {dart_send_msg(at, m) : at \in Calls(s, {NoMsg})} :
           /\ Leave(s, self)
           /\ line' = [line EXCEPT ![Other(s)] = @ \o self.out]

Wake(s) ==
    /\ awake[s] = "no"
    /\ awake' = [awake EXCEPT ![s] = "yes"]
    /\ UNCHANGED <<station, line, faults, heard>>

\* A station that sleeps does not hear.
Receive(s, said, outcome) ==
    /\ line[s] # <<>>
    /\ \/ /\ awake[s] # "no"
          /\ \E self \in {dart_handle_received_char(at, Head(line[s]), outcome) :
                            at \in Calls(s, said)} :
                 /\ Leave(s, self)
                 /\ line' = [line EXCEPT ![s] = Tail(@),
                                         ![Other(s)] = @ \o self.out]
       \/ /\ awake[s] = "no"
          /\ line' = [line EXCEPT ![s] = Tail(@)]
          /\ UNCHANGED <<station, awake, faults, heard>>

HandleTime(s, said) ==
    /\ awake[s] # "no"
    /\ \E self \in {dart_handle_time(at) : at \in Calls(s, said)} :
           /\ Leave(s, self)
           /\ line' = [line EXCEPT ![Other(s)] = @ \o self.out]

\* The main loop halts, after DART_CLBK_IDLE, when nothing came in between.
Sleep(s) ==
    /\ awake[s] = "drowsy"
    /\ dart_is_idle(station[s])
    /\ awake' = [awake EXCEPT ![s] = "no"]
    /\ UNCHANGED <<station, line, faults, heard>>

\* Nothing happens any more until time passes.
Settled(s) ==
    \/ awake[s] = "no"
    \/ \A at \in Calls(s, {NoMsg}) : Left(dart_handle_time(at)) = station[s]

Tick ==
    /\ \A s \in Node : Settled(s)
    /\ \A s \in Node : line[s] = <<>>
    /\ station' = [s \in Node |-> Elapsed(station[s])]
    /\ UNCHANGED <<line, awake, faults, heard>>

Lose(s) ==
    /\ faults < MaxFaults
    /\ line[s] # <<>>
    /\ faults' = faults + 1
    /\ line' = [line EXCEPT ![s] = Tail(@)]
    /\ UNCHANGED <<station, awake, heard>>

Damage(s) ==
    /\ faults < MaxFaults
    /\ line[s] # <<>>
    /\ Head(line[s]).k # "noise"
    /\ faults' = faults + 1
    /\ line' = [line EXCEPT ![s][1] = Token("noise", NoMsg)]
    /\ UNCHANGED <<station, awake, heard>>

----------------------------------------------------------------------------
Works(s, said) ==
    \/ \E outcome \in Outcome : Receive(s, said, outcome)
    \/ HandleTime(s, said)

Next ==
    \/ \E s \in Node : \/ Works(s, Unsent(s) \cup {NoMsg})
                     \/ \E m \in Msg : SendMsg(s, m)
                     \/ Wake(s) \/ Sleep(s) \/ Lose(s) \/ Damage(s)
    \/ Tick

Spec == Init /\ [][Next]_vars

\* The lines carry on, the main loop of an awake station calls dart_handle_time,
\* whatever its callbacks do, and time passes.
Proceed == Tick \/ \E s \in Node : Works(s, {NoMsg})

FairSpec == Spec /\ WF_vars(Proceed)

----------------------------------------------------------------------------
(* Properties.                                                             *)

Outcomes == {"done", "failed", "abandoned"}

\* The fields hold values of their types.
TypeOK ==
    /\ station \in [Node -> Station]
    /\ line \in [Node -> Seq(Tokens)]
    /\ awake \in [Node -> {"yes", "drowsy", "no"}]
    /\ faults \in 0..MaxFaults
    /\ fate \in [Msg -> {"new", "accepted"} \cup Outcomes]

\* The places where a station keeps message m.
Places(s, m) ==
    {p \in Prio \X (1..Cardinality(Msg)) :
        /\ p[2] <= Len(station[s].queue[p[1]])
        /\ station[s].queue[p[1]][p[2]] = m}
    \cup (IF station[s].pending_request = m THEN {"pending"} ELSE {})

\* A message has one owner: from the time it is accepted until its outcome is
\* reported it is in one list or the pending request, afterwards nowhere,
\* though retries, losses and sends from callbacks interleave;
\* the acknowledgement of one request does not overwrite the pending other one.
\* What dart_is_msg_pending and dart_get_current_msgtype say is true of it, and
\* DART_CLBK_TRANSFER_COMPLETE means that no message of the station is left.
OneOwner ==
    /\ \A m \in Msg :
        /\ dart_is_msg_pending(station[m.from], m) <=> fate[m] = "accepted"
        /\ Cardinality(Places(m.from, m)) <= 1
        /\ fate[m] = "accepted" => m.from \notin complete
    /\ \A s \in Node : dart_is_sending(station[s]) =>
        LET m == dart_get_current_msgtype(station[s])
        IN  m # NoMsg => m.from = s /\ fate[m] = "accepted"

\* dart.h:76: DART_CLBK_TRANSFER_DONE means "Message successfully transferred,
\* ACK was received", and for a request that its response has come (dart.c:622):
\* also when frames and acknowledgements are lost, damaged and sent again.
DoneMeansReceived ==
    \A m \in Msg : fate[m] = "done" =>
        /\ m \in Range(got)
        /\ m.kind = "REQUEST" =>
            \E r \in Range(got) : r.kind = "RESPONSE" /\ r.id = m.id

Position(seq, m) == CHOOSE i \in DOMAIN seq : seq[i] = m

\* Messages of one priority arrive in the order they were sent in; one that
\* did not arrive before a later one was reported a failure.
InOrder ==
    \A i, j \in DOMAIN sent :
        LET m == sent[i]
            n == sent[j]
        IN  i < j /\ m.from = n.from /\ m.prio = n.prio /\ n \in Range(got)
            => IF m \in Range(got) THEN Position(got, m) < Position(got, n)
               ELSE fate[m] = "failed"

\* Lines without faults carry each message once: no wake-up, closing pin or
\* sleep of either station costs a transfer in progress its acknowledgement.
CleanLine ==
    faults = 0 => twice = {} /\ \A m \in Msg : fate[m] # "failed"

\* A station does not sleep while the other one is sending to it.
NobodySleepsThrough ==
    \A s \in Node : awake[s] = "no" =>
        /\ line[s] = <<>>
        /\ station[Other(s)].transfering = NoList

\* Each message that was accepted gets an outcome: attempts and timers end,
\* and a station that sleeps is woken, at the latest by a spike.
Reported ==
    <>[](\A m \in Msg : fate[m] \in {"new"} \cup Outcomes)

\* When all has been said both stations lower their pins for good, or one is
\* left with a frame that broke off.
Closes ==
    <>[](\/ \A s \in Node : ~station[s].wrk
         \/ \E s \in Node : station[s].rx_buffer # "empty")
=============================================================================
