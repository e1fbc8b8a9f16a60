--------------------------------- MODULE Dart ---------------------------------
(***************************************************************************)
(* One station of the dart link protocol: dart.c, with the message queue   *)
(* it sends from (message-queue.c).                                        *)
(*                                                                         *)
(* A station is a record, and each function of dart.c an operator from the *)
(* record it is called with to the one it leaves.  DartLink joins two      *)
(* stations by their pins and lines.  Bytes are taken together to the      *)
(* tokens that the receiver tells apart: a synchronisation byte, the rest  *)
(* of a frame, an acknowledge byte and a bad-message byte.                 *)
(*                                                                         *)
(* The allocation of a message that fails is a call that was not made.     *)
(***************************************************************************)
EXTENDS Integers, SequencesExt

CONSTANTS
    Msg,            \* the messages that are sent, each at most once
    NoMsg,          \* NULL
    \* The timer values, in units of the time that passes in one Tick.
    DART_BYTE_TIMER_VAL, DART_CLOSING_TIMER_VAL, DART_CHILL_TIMER_VAL,
    DART_ACK_TIMER_VAL, DART_WAKEUP_TIMER_VAL, DART_RESPONSE_TIMER_VAL,
    DART_WAKEUP_ATTEMPTS, DART_TX_ATTEMPTS

Kind == {"REPORT", "REQUEST", "RESPONSE"}
Prio == 0..2        \* MSG_PRIO_HIGH, MSG_PRIO_NORMAL, MSG_PRIO_LOW
NoList == -1        \* NULL in the field transfering
Off == -1           \* a timer that is not running; 0 is one that has expired

\* dart_guess_priority
GuessPriority(kind) ==
    CASE kind = "RESPONSE" -> 0 [] kind = "REPORT" -> 1 [] kind = "REQUEST" -> 2

\* 30, 50, 100, 300, 500 and 3000 milliseconds.
TimersInOrder ==
    /\ 0 < DART_BYTE_TIMER_VAL
    /\ DART_BYTE_TIMER_VAL <= DART_CLOSING_TIMER_VAL
    /\ DART_CLOSING_TIMER_VAL < DART_CHILL_TIMER_VAL
    /\ DART_CHILL_TIMER_VAL < DART_ACK_TIMER_VAL
    /\ DART_ACK_TIMER_VAL < DART_WAKEUP_TIMER_VAL
    /\ DART_WAKEUP_TIMER_VAL < DART_RESPONSE_TIMER_VAL

ASSUME DartAssumption ==
    /\ NoMsg \notin Msg
    /\ \A m \in Msg : m.kind \in Kind /\ m.prio \in Prio
    /\ {DART_BYTE_TIMER_VAL, DART_CLOSING_TIMER_VAL, DART_CHILL_TIMER_VAL,
        DART_ACK_TIMER_VAL, DART_WAKEUP_TIMER_VAL, DART_RESPONSE_TIMER_VAL} \subseteq Nat
    /\ TimersInOrder
    /\ DART_WAKEUP_ATTEMPTS \in Nat \ {0}
    /\ DART_TX_ATTEMPTS \in Nat \ {0}

Token(k, m) == [k |-> k, msg |-> m]
Tokens == {Token(k, NoMsg) : k \in {"SYNC", "ACK", "BAD", "noise"}}
            \cup {Token("body", m) : m \in Msg}

Timer(val) == Off..val

Station == [
    queue           : [Prio -> Seq(Msg)],
    transfering     : Prio \cup {NoList},   \* the list, not the message
    pending_request : Msg \cup {NoMsg},
    wakeup_attempts : 0..DART_WAKEUP_ATTEMPTS,
    tx_attempts     : 0..DART_TX_ATTEMPTS,
    wakeup_timer    : Timer(DART_WAKEUP_TIMER_VAL),
    tx_ack_timer    : Timer(DART_ACK_TIMER_VAL),
    tx_response_timer : Timer(DART_RESPONSE_TIMER_VAL),
    rx_byte_timer   : Timer(DART_BYTE_TIMER_VAL),
    closing_timer   : Timer(DART_CHILL_TIMER_VAL),
    rx_buffer       : {"empty", "sync", "broken"},
    wrk             : BOOLEAN]              \* the DART_WRK_PIN

\* dart_init; the pins are low when a station starts.
dart_reset == [
    queue |-> [p \in Prio |-> <<>>], transfering |-> NoList,
    pending_request |-> NoMsg, wakeup_attempts |-> 0, tx_attempts |-> 0,
    wakeup_timer |-> Off, tx_ack_timer |-> Off, tx_response_timer |-> Off,
    rx_byte_timer |-> Off, closing_timer |-> Off,
    rx_buffer |-> "empty", wrk |-> FALSE]

(***************************************************************************)
(* A handler works on a station with the fields of its surroundings:       *)
(* "rdy" is the DART_RDY_PIN, "say" a message that the next callback about *)
(* a message sends, NoMsg if none does, "out" the tokens pushed, "tell"    *)
(* the callbacks about messages, in order, and "complete" and "idle"       *)
(* whether it made DART_CLBK_TRANSFER_COMPLETE and DART_CLBK_IDLE.         *)
(***************************************************************************)
Called(station, rdy, say) ==
    LET around == [rdy |-> rdy, say |-> say, out |-> <<>>, tell |-> <<>>,
                   complete |-> FALSE, idle |-> FALSE]
    IN  [f \in DOMAIN around \cup DOMAIN dart_reset |->
            IF f \in DOMAIN around THEN around[f] ELSE station[f]]

Left(self) == [f \in DOMAIN dart_reset |-> self[f]]

----------------------------------------------------------------------------
\* Mutant: requests are sent while another one waits for its response.
Sendable_Requests(self) == {p \in Prio : self.queue[p] # <<>>}

\* Lists with a message that may be sent: while a request waits for its
\* response, those that begin with a request are passed over.
Sendable(self) ==
    {p \in Prio : /\ self.queue[p] # <<>>
                  /\ \/ self.pending_request = NoMsg
                     \/ Head(self.queue[p]).kind # "REQUEST"}

dart_find_next_message_queue(self) ==
    IF Sendable(self) = {} THEN NoList ELSE Min(Sendable(self))

dart_is_sending(self) ==
    \/ self.transfering # NoList
    \/ self.pending_request # NoMsg
    \/ dart_find_next_message_queue(self) # NoList

dart_is_receiving(self) == self.rx_buffer # "empty"

dart_is_idle(self) == ~dart_is_sending(self) /\ ~dart_is_receiving(self)

\* Each message has a type of its own.
dart_is_msg_pending(self, m) ==
    \/ self.pending_request = m
    \/ \E p \in Prio : Contains(self.queue[p], m)

Current(self) == Head(self.queue[self.transfering])

\* The message that is transferred comes before one that waits for a response.
dart_get_current_msgtype(self) ==
    IF self.transfering # NoList THEN Current(self) ELSE self.pending_request

Push(self, tokens) == [self EXCEPT !.out = @ \o tokens]

dart_transfer_msg(self) ==
    [Push(self, <<Token("SYNC", NoMsg), Token("body", Current(self))>>)
        EXCEPT !.tx_ack_timer = DART_ACK_TIMER_VAL]

\* Mutant: the timer after which there is a spike is not started.
WakeUp_NoTimer(self) == [self EXCEPT !.wakeup_attempts = @ + 1, !.wrk = TRUE]

\* The other station is asked to get ready.
WakeUp(self) ==
    [self EXCEPT !.wakeup_attempts = @ + 1,
                 !.wrk = TRUE,
                 !.wakeup_timer = IF @ = Off THEN DART_WAKEUP_TIMER_VAL ELSE @]

\* Mutant: one attempt too many.
GivesUp_OffByOne(self) ==
    ~self.wrk /\ self.wakeup_attempts > DART_WAKEUP_ATTEMPTS

\* It was asked often enough, without an answer.
GivesUp(self) == ~self.wrk /\ self.wakeup_attempts = DART_WAKEUP_ATTEMPTS

dart_trigger_transfer(self) ==
    LET up == IF self.wrk THEN self ELSE WakeUp(self)
        next == dart_find_next_message_queue(up)
    IN  CASE self.transfering # NoList -> self
          [] self.transfering = NoList /\ GivesUp(self)
                -> [self EXCEPT !.wakeup_attempts = 0]
          [] OTHER -> IF ~self.rdy \/ next = NoList THEN up
                      ELSE dart_transfer_msg(
                            [up EXCEPT !.transfering = next,
                                       !.tx_attempts = 0,
                                       !.wakeup_attempts = 0,
                                       !.closing_timer = Off,
                                       !.wakeup_timer = Off])

\* The application is told when there is nothing more to send or wait for.
dart_trigger_next_transfer(self) ==
    LET quiet == /\ self.transfering = NoList /\ ~GivesUp(self) /\ self.rdy
                 /\ dart_find_next_message_queue(self) = NoList
                 /\ self.pending_request = NoMsg
    IN  [dart_trigger_transfer(self) EXCEPT !.complete = @ \/ quiet]

\* Mutant: the message is put in front of the waiting ones.
dart_send_msg_InFront(self, m) ==
    dart_trigger_transfer(
        [self EXCEPT !.queue[m.prio] = <<m>> \o @,
                     !.tell = Append(@, <<m, "accepted">>)])

dart_send_msg(self, m) ==
    dart_trigger_transfer(
        [self EXCEPT !.queue[m.prio] = Append(@, m),
                     !.tell = Append(@, <<m, "accepted">>)])

\* A callback about a message, which may send another one.
Callback(self, m, code) ==
    LET told == [self EXCEPT !.tell = Append(@, <<m, code>>), !.say = NoMsg]
    IN  IF self.say = NoMsg THEN told ELSE dart_send_msg(told, self.say)

----------------------------------------------------------------------------
\* The message is popped from its list.
dart_finalize_transfer(self) ==
    [self EXCEPT !.queue[self.transfering] = Tail(@), !.transfering = NoList]

dart_retry_transfer(self) ==
    LET again == [self EXCEPT !.tx_attempts = @ + 1, !.tx_ack_timer = Off]
    IN  CASE self.transfering = NoList -> self
          [] self.transfering # NoList /\ again.tx_attempts < DART_TX_ATTEMPTS
                -> dart_transfer_msg(again)
          [] self.transfering # NoList /\ again.tx_attempts >= DART_TX_ATTEMPTS
                -> dart_trigger_next_transfer(dart_finalize_transfer(
                        Callback(again, Current(self), "failed")))

\* Mutant: a request is done when it has been acknowledged.
dart_acknowledge_msg_Done(self) ==
    IF self.transfering = NoList THEN self
    ELSE dart_trigger_next_transfer(dart_finalize_transfer(
            Callback([self EXCEPT !.tx_ack_timer = Off], Current(self), "done")))

\* A request goes on waiting for its response.
dart_acknowledge_msg(self) ==
    LET acked == [self EXCEPT !.tx_ack_timer = Off]
        m == Current(self)
    IN  CASE self.transfering = NoList -> self
          [] self.transfering # NoList /\ m.kind = "REQUEST"
                -> dart_trigger_next_transfer(
                        [dart_finalize_transfer(acked) EXCEPT
                            !.pending_request = m,
                            !.tx_response_timer = DART_RESPONSE_TIMER_VAL])
          [] self.transfering # NoList /\ m.kind # "REQUEST"
                -> dart_trigger_next_transfer(dart_finalize_transfer(
                        Callback(acked, m, "done")))

dart_finalize_request_msg(self) ==
    dart_trigger_next_transfer(
        [self EXCEPT !.pending_request = NoMsg, !.tx_response_timer = Off])

dart_abandon_request_msg(self) ==
    dart_finalize_request_msg(Callback(self, self.pending_request, "abandoned"))

\* A response with the identifier of the pending request completes it.
dart_handle_received_msg(self, m) ==
    LET seen == Callback(self, m, "received")
        request == seen.pending_request
    IN  IF request # NoMsg /\ m.kind = "RESPONSE" /\ m.id = request.id
        THEN dart_finalize_request_msg(Callback(seen, request, "done"))
        ELSE seen

----------------------------------------------------------------------------
(* dart_handle_received_char, for the bytes of one token.  What a receiver *)
(* makes of bytes that are not the frame its buffer began with depends on  *)
(* their values: "outcome" says whether it waits for more of them, has a   *)
(* frame of an unsupported length or one whose checksum is wrong.          *)

Emptied(self) == [self EXCEPT !.rx_buffer = "empty", !.rx_byte_timer = Off]

\* A frame that began too long ago is dropped when the next byte comes.
Fresh(self) ==
    LET x == IF self.rx_byte_timer = 0 THEN Emptied(self) ELSE self
    IN  [x EXCEPT !.closing_timer = Off,
                  !.rx_byte_timer = IF @ = Off THEN Off
                                    ELSE DART_BYTE_TIMER_VAL]

Outcome == {"short", "long", "crc"}

Misread(self, outcome) ==
    CASE outcome = "short" -> [self EXCEPT !.rx_buffer = "broken"]
      [] outcome = "long"  -> Emptied(self)
      [] outcome = "crc"   -> Emptied(Push(self, <<Token("BAD", NoMsg)>>))

FirstByte(self, k) ==
    CASE k = "SYNC" -> [self EXCEPT !.rx_buffer = "sync",
                                    !.rx_byte_timer = DART_BYTE_TIMER_VAL,
                                    !.wrk = TRUE]
      [] k = "ACK" /\ self.wrk -> dart_acknowledge_msg(self)
      [] k = "BAD" /\ self.wrk -> dart_retry_transfer(self)
      [] OTHER -> self

\* Mutant: the buffer is not emptied when a frame is complete.
dart_handle_received_char_KeepsBuffer(self, t, outcome) ==
    LET x == Fresh(self)
    IN  CASE x.rx_buffer = "empty" -> FirstByte(x, t.k)
          [] x.rx_buffer = "sync" /\ t.k = "body"
                -> dart_handle_received_msg(
                        Push(x, <<Token("ACK", NoMsg)>>), t.msg)
          [] OTHER -> Misread(x, outcome)

dart_handle_received_char(self, t, outcome) ==
    LET x == Fresh(self)
    IN  CASE x.rx_buffer = "empty" -> FirstByte(x, t.k)
          [] x.rx_buffer = "sync" /\ t.k = "body"
                -> Emptied(dart_handle_received_msg(
                        Push(x, <<Token("ACK", NoMsg)>>), t.msg))
          [] OTHER -> Misread(x, outcome)

----------------------------------------------------------------------------
(* dart_handle_time                                                        *)

\* Mutant: the other's pin does not matter for being idle.
Closing_IgnoresRdy(self) ==
    CASE self.wrk /\ self.closing_timer = Off
            -> [self EXCEPT !.closing_timer = DART_CLOSING_TIMER_VAL]
      [] self.wrk /\ self.closing_timer = 0
            -> [self EXCEPT !.wrk = FALSE, !.closing_timer = DART_CHILL_TIMER_VAL]
      [] ~self.wrk /\ self.closing_timer = 0
            -> [self EXCEPT !.closing_timer = Off, !.idle = TRUE]
      [] OTHER -> self

\* Mutant: the other's pin is answered at once after closing.
Closing_NoChill(self) ==
    CASE self.wrk /\ self.closing_timer = Off
            -> [self EXCEPT !.closing_timer = DART_CLOSING_TIMER_VAL]
      [] self.wrk /\ self.closing_timer = 0
            -> [self EXCEPT !.wrk = FALSE, !.closing_timer = Off]
      [] ~self.wrk /\ self.rdy -> [self EXCEPT !.wrk = TRUE]
      [] OTHER -> self

\* Nothing is left to do: the pin is lowered after a while, and the module is
\* idle when the other's pin is low a while later.
Closing(self) ==
    CASE self.wrk /\ self.closing_timer = Off
            -> [self EXCEPT !.closing_timer = DART_CLOSING_TIMER_VAL]
      [] self.wrk /\ self.closing_timer = 0
            -> [self EXCEPT !.wrk = FALSE, !.closing_timer = DART_CHILL_TIMER_VAL]
      [] ~self.wrk /\ self.closing_timer = 0
            -> [self EXCEPT !.closing_timer = Off, !.idle = ~self.rdy]
      [] ~self.wrk /\ self.closing_timer = Off /\ self.rdy
            -> [self EXCEPT !.wrk = TRUE]
      [] OTHER -> self

Transfering(self) ==
    CASE self.tx_ack_timer # 0 -> self
      [] self.tx_ack_timer = 0 /\ self.rdy -> dart_retry_transfer(self)
      [] self.tx_ack_timer = 0 /\ ~self.rdy
            -> [self EXCEPT !.tx_ack_timer = Off, !.transfering = NoList]

dart_handle_time(self) ==
    LET x == IF self.pending_request # NoMsg /\ self.tx_response_timer = 0
             THEN dart_abandon_request_msg(self) ELSE self
    IN  CASE x.transfering # NoList -> Transfering(x)
          [] x.transfering = NoList /\ Sendable(x) # {}
                -> IF x.wakeup_timer = 0
                   THEN [x EXCEPT !.wakeup_timer = Off, !.wrk = FALSE]
                   ELSE dart_trigger_transfer(x)
          [] dart_is_idle(x) -> Closing(x)
          [] OTHER -> x

\* Time passes for the timers of a station.
Elapsed(station) ==
    LET running == {"wakeup_timer", "tx_ack_timer", "tx_response_timer",
                    "rx_byte_timer", "closing_timer"}
    IN  [f \in DOMAIN station |-> IF f \in running /\ station[f] > 0
                                  THEN station[f] - 1 ELSE station[f]]
=============================================================================
