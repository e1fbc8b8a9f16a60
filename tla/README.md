# Verification of embedded-mx

TLA+ models of embedded-mx, a set of C components for small embedded systems:
a cooperative process scheduler with messages, the circular buffer allocator
its messages live in, message lists and queues, timers and locks, a ring
buffer, a hierarchical state machine, and a point-to-point link protocol. The
modules here are checked with TLC on small instances, and what matters most
about each of them is proved with TLAPS for instances of any size. Line numbers
refer to `src/`.

## The system

| component | source | state it keeps | operations | correct means |
|---|---|---|---|---|
| circular buffer allocator (cba) | `source/cba.c` | `tail_idx`, `head_idx`, `free_idx`, a chain of headers (bound, 12-bit length) in the buffer | malloc, realloc, free, reset | chunks disjoint and in the buffer, big enough, not reclaimed while held, reclaimed when free |
| message list | `source/core/message-list.c` | `msg_head`, `msg_tail`, `length`, each message's `next` | push, pop, peek, remove, find | a queue; nothing lost, `length` exact |
| message queue | `source/core/message-queue.c` | three message lists by priority | push, pop, peek, find | order by priority, then by arrival |
| process scheduler | `source/core/scheduler.c`, `process.c` | process list, each process's `state`, `needspoll`, `process_current`, `poll_requested`, message list, allocator | start, exit, poll, run, malloc/free/post/send, handle | see below |
| process timers | `scheduler.c:333-392`, `process-timer.c` | list of timers | start, stop, handler | each armed timer fires once, stopped ones do not |
| clock and timers | `source/timer.c`, `timer.h` | `clock_ms`, `clock_s`; start, interval | update, start, stop, restart, expired | right across the 32-bit wrap |
| locker | `source/lock.c` | `locked`, a timer | lock, release, restart | one owner until expiry |
| ring buffer | `source/ringbuf.c` | `put_ptr`, `get_ptr`, `mask` | put, get | a queue for one producer and one consumer |
| hierarchical state machine | `source/core/hsm.c` | `state`, `current_state`, `unwind`, timer counter and mask | handle_event, handle_time | exits and entries match; timers only in their state |
| dart | `source/core/dart.c` | queue, `transfering`, `pending_request`, five timers, receive buffer, two pins | send, handle_received_char, handle_time, reset | delivery at least once or a report of failure; the line closes when idle |
| average | `source/lib/avg.c` | sum, extremes | add, calculate | the rounded mean without the extremes |
| strings, misc macros, hardware headers, protothreads | | none of their own | | not modelled |

How they interact. A process thread is called by the scheduler
(`call_process`) and calls the scheduler back from inside that call, so that
the loops over the process list run while the list changes. Messages are
`struct msg_ptr` objects allocated from the scheduler's cba, linked through
their own `next` field, and freed by `scheduler_utilize_message` when all the
receivers have returned. `process_poll` and `ringbuf_put` are what interrupt
handlers call. Process timers deliver by `scheduler_handle_msg`, that is
synchronously. Dart keeps a cba and a message queue of its own.

What is hard. There are no threads: the hard behaviour is *re-entrancy* (a
loop variable that points to a process which is unlinked, or unlinked and
started again, while its thread is called), *interrupts* (`process_poll`
between two steps of the poll loop), *wrap-around* (the allocator's chain, the
ring buffer, the clock), and for dart a *lossy line* with time-outs on both
sides. `PROJECT.json` lists these hazards line by line.

## Modules

| module | models | role |
|---|---|---|
| `Scheduler` | `scheduler.c`, `process.c` | state machine and properties |
| `MCScheduler` | | its instances for TLC |
| `SchedulerProofs` | | the inductive invariants of `Scheduler`: theorems about types and messages, the walks of the list and the polls, `state` and `process_current` |
| `Cba` | `cba.c` | state machine and properties |
| `BlockPool` | | what an allocator promises its callers |
| `MCCba` | | instances of `Cba` |
| `CbaProofs` | | the inductive invariant of `Cba`, the theorems, the refinement of `BlockPool` |
| `Dart` | `dart.c`, `message-queue.c` | one station: each function an operator on its record |
| `DartLink` | the wiring of two stations | state machine and properties; composes two stations of `Dart` |
| `MCDartLink` | | its instances |
| `DartLinkProofs` | | the inductive invariant of `DartLink` and its theorems |
| `Hsm` | `hsm.c` | state machine and properties |
| `MCHsm` | | a small hierarchy |
| `HsmProofs` | | theorems about `Hsm` |
| `MsgList` | `message-list.c` | several lists that share message objects: operations and properties |
| `MsgQueue` | `message-queue.c` | state machine over the lists of `MsgList`, and properties |
| `PrioQueue` | | what a message queue promises |
| `MCMsgQueue` | | instances of `MsgQueue` |
| `MsgQueueProofs` | | theorems about the lists and the queue, the refinement of `PrioQueue` |
| `RingBuf` | `ringbuf.c` | state machine and properties |
| `ByteQueue` | | what a ring buffer promises |
| `MCRingBuf` | | an instance of `RingBuf` |
| `RingBufProofs` | | theorems about `RingBuf` |
| `Timer` | `timer.c`, `timer.h` | clock and timers: operators for the two state machines that follow |
| `ProcessTimer` | `process-timer.c`, `scheduler.c:333-392` | state machine over `Timer`, and properties |
| `TimerSet` | | what process timers promise |
| `MCProcessTimer` | | an instance of `ProcessTimer` |
| `ProcessTimerProofs` | | theorems about `ProcessTimer`, the refinement of `TimerSet` |
| `Locker` | `lock.c` | state machine over `Timer`, and properties |
| `MCLocker` | | an instance of `Locker` |
| `LockerProofs` | | theorems about the clock and `Locker` |

In each module a definition whose comment begins with "Mutant:" is a plausible
bug of the definition it is named after. It is not used in the model; every
property is shown to fail when such a definition takes the original's place.
Variables and fields marked "history" record what a property needs and the
program does not keep; no step depends on them, except that callers free and
send only what is theirs.

### Scheduler

The C call stack is part of the state: `stack` is a sequence of frames. A
frame is a loop of the scheduler in progress (`poll`, `bcast`, `hbcast`,
`finish`), an activation of a process thread (`thread`, or `exit` for the
EXIT event, which `exit_process` delivers by a direct call), or what
`scheduler_run` has still to do (`run`, `deliver`, `bcast_call`). A step of
the innermost frame is a step of the program. A loop frame keeps `at`, the
process its loop variable points to; the next one is `next[at]`, read only
when the call has returned, as in the code. An unlinked process keeps its
`next` field, as in the code. What a walk along the links comes past (`OnChain`)
is the smallest set that holds its first process and is closed under `next`.

Process threads are the environment. An activation makes any of the calls in
`Api`, then returns: it yields (`ThreadYields`) or ends (`ThreadEnds`).
Outside of any thread the program around the scheduler makes the same calls.
`PollProcess` is enabled in every state, as it stands also for the interrupt
handlers. Two restrictions are those of the code's own contract: a process is
exited only after it has been started once (`exit_process` reads its `sched`
field, :26), and so with the receiver of an INIT message (:260).

History: `wanted`, the processes to whom a POLL is owed; `strays`, whether a
process was exited from within its own activation or before it had returned
(its thread then returns into `call_process`, which sets the state of a process
that is no longer listed, :105), or INIT was delivered to a process that is not
listed (`scheduler_run` sets its state to running, :260, and `call_process` runs
it); `owed` in a loop's frame, the processes the
loop began with and has not visited.

The messages' memory is the count of those that are allocated, and messages are
their receiver and type: what the allocator does with the bytes is `Cba`.
`Malloc` and `SendMsg` are the calls that succeed. `cba_malloc` may fail however
few messages are allocated, when the oldest one is held or a freed chunk was bound
again (see `Cba`); a call that fails returns NULL or an error and changes nothing, and
is no step. No fairness makes a call succeed, so that no property depends on it;
`MaxMsgs` is a bound of the model, which no liveness property mentions.
Priorities, trace output and the protothread's continuation are left out;
the scheduler's timers are `ProcessTimer`.

Fairness (`FairSpec`). `WF(Continue)`: a frame that can go on does, and a thread
returns after finitely many calls - the contract of a cooperative scheduler.
`SF(Run)`: the main loop calls `process_run` again and again, though start,
exit, malloc and other calls come in between. The liveness properties speak of
programs whose threads, when they are called while another thread runs, do not
call processes themselves (`MaxDepth` 2 in `sched_events`): without that a
broadcast need not end (see "Not modelled"). `MessagesServed` has it as its premise
that each run returns.

### Cba

`chunks` is the chain of chunks from `tail_idx` to `head_idx`, each with what
its header says (`idx` of the header, `len`, `bound`) and two history fields:
`held`, the caller has not freed it, and `req`, the bytes it asked for. The
three indexes are variables of their own. The padding bits, the markers' values
and the contents are left out; with `Validation` the byte the end marker needs
is accounted for, as in the code. `LenMod` and `WordMod` are the widths of the
header's length field (12 bits) and of `uint16_t`. Callers free or reallocate
only what they hold. `ordered` (history) says that since the allocator was last
empty the chunks were freed in the order of their allocation.

`BlockPool` is what callers rely on: a set of blocks and one action per call.
`ImplementsPool` says that the allocator is one, and also which call is which:
`EachCall` ties every action of `Cba` to the pool's action for the same caller and
request, so that a `cba_free` that gives up more than it was given, or a
`cba_realloc` that leaves the old block behind, is no step of the pool.

### Dart and DartLink

A station is a record with the fields of `struct dart`, and each function of
`dart.c` is an operator from the record it is called with to the one it leaves
behind, so that nested calls (`dart_retry_transfer` calls the callback, which
calls `dart_send_msg`, which calls `dart_trigger_transfer`) nest as in the code.
`DartLink` has one action per entry point: `SendMsg`, `Receive`
(`dart_handle_received_char`), `HandleTime`. `Called` gives the handler its
surroundings - the level of the other's pin and `say`, a message that the next
callback sends - and `Leave` collects what it did: tokens pushed, callbacks made.

- Bytes are taken together to the tokens the receiver tells apart: `SYNC`,
  `body` (the rest of a frame), `ACK`, `BAD`. A token that comes where another
  one was expected is `Misread`: depending on the bytes' values the receiver
  waits for more, finds an impossible length, or a wrong checksum, and the
  model takes each of these. Payload bytes that arrive without their SYNC are
  ignored; that a payload byte could equal a control byte is left out.
- Lines lose (`Lose`) and damage (`Damage`) tokens, `MaxFaults` times in all,
  the edges a sleeping station misses included. They keep the order.
- Timers count in units of `Tick`. The values in the configurations are not
  those of `dart.c` but keep their order, which `DartAssumption` states:
  byte <= closing < chill < ack < wake-up < response.
  `dart_handle_time` is to be called every millisecond, so `Tick` waits until
  neither station's call of it would do anything, and until the lines are empty:
  a frame and its acknowledgement take less than the shortest timer. On a slower
  line an acknowledgement that comes after `tx_ack_timer` expired is followed by
  that of the repeated frame, which is then taken for the one of the next
  message (`dart.c:546`): frames carry no number. The header gives no line
  speed to hold against the timers, so that this is noted here only.
- Sleep is the application's: a station told `DART_CLBK_IDLE` may stop calling
  `dart_handle_time` when nothing came in between (`Sleep`) and is woken by a
  rising edge of its RDY pin or by its own application. This follows from the
  comments in `dart_handle_time` on the spike it generates. An edge can be
  missed, at the cost of a fault.
- A failed allocation is a call that was not made. `dart_reset` of a running
  station and `DART_CAN`, which no station sends, are left out; that a message
  is a deferred one is part of its content. Of the callbacks about messages that
  one handler makes only the first one sends, and only one message.
  `DART_CLBK_TRANSFER_COMPLETE` and `..._IDLE` send nothing: a message sent from
  them is a `SendMsg` after the handler. They are the last thing it does, but for
  the transfer that `dart_handle_time` gives up: it goes on to its other timers
  after `..._COMPLETE`, which come to the same whether the message was sent before
  or after.

History: `fate`, what the sender was last told of each message; `got` and
`twice`, what the receivers were given; `sent`, the order of acceptance;
`complete`, the stations that were last told that all is done.

Fairness (`FairSpec`): `WF(Proceed)` - the lines carry on, awake stations call
`dart_handle_time`, time passes. It says nothing of applications: they need
not send, wake up or sleep. Faults are bounded, so they need no fairness.

### Hsm

The handlers of the states are the environment: `calls` says which kind of
handler runs, for an event, EXIT or ENTER, and an action is the return of that
handler together with all that `hsm_handle_event` does until it calls the next
one (`EventGoesUp` is HSM_SUPER, `EventMakesTransition` HSM_TRANS, `ExitReturns`,
`EnterReturns`), or a turn of the loop of `hsm_handle_time` (`TimerCheck`,
`TimerReady`). While a handler runs it may set the timers.

Handlers follow the macros of `hsm.h`: an event that is not handled and every
EXIT go to the parent, a transition leaves 0, 1 or 2 levels, counted from the
current state, and enters a state one level below what remains; an ENTER handler
may pass on to a nested state. They do not call `hsm_handle_event` again.
`hsm_init` leaves the timer as the memory was, so `Init` takes any.
`inside` (history) is the set of states entered and not exited. `Path`, the states
around a state, is the smallest set closed under the parents;
`HierarchyAssumption` says that there are finitely many states and that no state
is around itself.

The periods are scaled (1, 2, 4, 8, 16, 32 for 1, 10, 100, 1000, 10000, 60000 ms);
`HsmAssumption` keeps what the code needs of them, that each divides the next.
`Horizon` bounds the time in one state: the counter's wrap, after which the
periods are off, is documented in the code (`hsm.c:64`).

Fairness: `WF(Continue)`, handlers return.

### MsgList and MsgQueue

The linked structure itself: head, tail and length of each list, and each
message's `next` field, which keeps stale values while the message is with a
caller, who may push it to another list. `RemoveMsg` is `msg_list_remove`;
`RemoveLast` allows it on the last message. `Walk` is the loop of the functions that
search and count, a recursive function that is cut off behind the longest walk
without a ring. `Reuse` is the caller's
`msg_ptr_free` followed by a `msg_ptr_malloc` that returns the same object. A
caller pushes only messages that are with it, as the code demands.

`MsgQueue` is one list for each priority. Priorities out of range are passed to
`msg_queue_push` (which leaves the message with its caller), and to the
functions that search (for which they mean any priority or none, as the code of
each has it). Users also take a list out by `msg_queue_get_msg_list` and pop it
or remove from it: `PopList`, `RemoveFromList`. `handed` (history) is what was
pushed and not handed out.

### RingBuf

`ringbuf_put` is three steps, for the producer is an interrupt handler or is
interrupted by one: it looks at `get_ptr` (`PutChecks`), stores the byte
(`PutStores`) and stores `put_ptr` (`PutAdvances`); `ringbuf_get` likewise
(`GetChecks`, `GetLoads`, `GetAdvances`). A call that finds the buffer full or
empty changes nothing and is no step. The indexes are bytes, loaded and stored
at once, and all three are volatile, so that their order is the code's. Sizes
are powers of two up to 128: of a buffer of 256, whose size is passed as 0,
`ringbuf_size` would say 0.

Fairness (`FairSpec`): `WF(GetSteps)`, the reader asks again and again. Nothing
is assumed of the producer.

### Timer, ProcessTimer and Locker

`Word` and `Second` stand for 2^32 and 1000. `Timer` is `clock_update` and the
functions of `timer.h` as operators on the struct; `chrono`, which the hardware
passes in for clocks that go on in hibernation, is 0 in the instances, which
means "not there". When `clock_ms` wraps, the seconds fall behind by the rest of
2^32 by 1000, or, if the same update crosses the end of a second, come early by what
that lacks to a second: the theorem `SecondsKeepUp`.

`ProcessTimer` takes `scheduler_timer_handler` turn by turn: `tmp` is where its
search is, and when a timer fires, the thread that gets the event (the
environment, `MaxCalls` calls) starts and stops any timer before the search
begins again at the head. `Tick`, the clock's interrupt, comes between any two
steps. Assumed is that the main loop completes a pass of the handler within
`MaxLag` milliseconds, with intervals of at most `Word - 2 * MaxLag`: a
handler that comes less often sees a timer's value after it has wrapped, and
threads that go on re-arming timers at the head with intervals shorter than
their own work keep the handler from reaching the others. A timer that has
expired is then at most `2 * MaxLag - 1` milliseconds late.

In `Locker` owners lock, restart and release as long as they believe the lock
theirs (`Believes`: the last answer was a success and they have not released
since), which need not be so; they die (`Die`), and the system may call
`locker_clean`. A lock for time 0 does not expire. History: `holder`, `age`,
`robbed`, and `answer`, what each owner was told.

Fairness (`FairSpec`): `WF(Tick(1))`, the clock runs; `SF(Ask(o))` for each
owner: it asks so often that it does not always miss the lock when it can be
had. A dead owner's `Ask` is never enabled.

## Runs

| run | instance | properties | shows |
|---|---|---|---|
| `sched_calls` | 3 processes, 1 call per activation, 4 frames deep, EXIT messages | `WalksEnd` `NobodySkipped` `LifeCycle` `OnlyListedAreCalled` | no order of starts and exits inside each other's threads makes a loop endless, skip a process, or call one that was stopped; `process_current` is restored |
| `sched_events` | 2 processes, polls, messages, INIT messages, 2 frames deep, fair | `TypeOK` `PollNotLost` `MessagesAccounted` `QuietMeansDone` `PollServed` `MessagesServed` | no poll is lost, each message has one owner, `scheduler_events` = 0 means done; messages do not keep polls waiting, nor polls messages |
| `cba_any` | 58 bytes, 4 lengths, validation and realloc | `TypeOK` `ChainLinked` `NoOverlap` `BlockHoldsRequest` `ReclaimsRightly` `InOrderLosesNothing` `ImplementsPool` | in any order of calls, over several wraps, chunks are apart and big enough, `cba_free` takes its own chunk and the unbound ones behind it and no other, and each call does to the blocks of the callers what `BlockPool` says |
| `hsm` | 5 states, 3 levels; 3 timers | `TypeOK` `EnteredIsPath` `NoPeriodSkipped` `Returns` | entries and exits match, each period fires once however the time is portioned, every call returns |
| `dart_link` | 2 requests of one station and a response; 2 faults, 2 attempts; fair | `TypeOK` `OneOwner` `DoneMeansReceived` `InOrder` `CleanLine` `NobodySleepsThrough` `Reported` `Closes` | one owner and one outcome per message; "done" and "complete" are true; order; nothing goes wrong without a fault; each message gets an outcome, the pins come down |
| `msg_queue` | 4 messages of 2 types, 3 priorities | `NothingLost` `PendingIsFound` `ImplementsPrioQueue` | the linked lists are a priority queue, whatever stale links the messages bring along, also after removals from the middle; a search finds what is pending |
| `ring` | 8 slots, 2 bytes, any contents to begin with; fair | `TypeOK` `RoomIsKept` `ImplementsByteQueue` | what each side decided by the other one's index stays true; the buffer is a bounded queue, and what is put is got |
| `process_timer` | 3 timers, intervals 0 to 2, a clock of 4 values | `ListedIsStarted` `ImplementsTimerSet` | threads that change the list that is being searched lose and double no timer; each fires once, in time |
| `lock` | 2 owners, milliseconds (a clock of 5 values) and seconds of 3 ms, times 0 and 3; fair | `OnlyTheLateLose` `NoDeadOwner` | only an expired lock is taken over, and the new owner is told; the dead do not keep it |

`Closes` excepts a station left with a frame that broke off: it is not idle
until another byte comes, since `dart_handle_time` does not look at
`rx_byte_timer` (`dart.c:768`). `LifeCycle` and `OnlyListedAreCalled` speak of
programs without `strays`. `OnlyTheLateLose` excepts a holder whose lock another
one released that was late itself (`lock.c:51` cannot tell them apart), and
`NoDeadOwner` one whose lock another goes on restarting.

The other runs show where the code does not do what its comments or its tests
say:

| run | violated | what happens |
|---|---|---|
| `cba_reuse` | `ReusedAfterFree` | a free chunk at the head is bound again when the allocator wraps (`cba.c:126`, `:166`) and its memory is lost until `cba_reset` |
| `hsm_disabled` | `DisabledIsSilent` | `ready_mask` is computed once (`hsm.c:222`); the event of a timer that the first handler disabled, or whose state it left, is sent all the same |
| `list_remove` | `LengthIsListed` | `msg_tail` is stale after the last message is removed (`message-list.c:121`) |

Bounds, and why they are enough. Three processes are the exiting one, the one
the loop is at, and the one behind or before it; every unlink and restart
around a loop's position is a case of three. A nesting of four frames (two
loops and two activations) contains every pair of loops, which is all that
share state. Polls and messages concern a process and another one, which
`sched_events` has. The allocator's instance wraps several times, with chunks of
different lengths on both sides of the wrap, lengths that end exactly at the
end of the buffer, and a size that is no multiple of 4; compiled without
validation and without realloc it is covered by the proofs. Two stations are
all a link has; two requests of one station and the response of the other
contain each pair of messages that compete for the line, for a priority, and
for `pending_request`; two faults can hit a frame and its acknowledgement, or
the frame's retry. Three levels of states are one more than a transition leaves;
the three timers contain the finest and two that are looked at one by one, whose
periods end together within `Horizon`. Four messages fill one list with a head,
a tail and a middle one with its neighbours, or leave another list for the one
that comes with a stale link. Eight slots tell a full ring buffer, an empty one
and one in between apart, with both indexes on both sides of the wrap; sizes
differ in nothing else. Three timers are the one that fires, the one whose
links the thread changes and the one behind it; the clock wraps within every
other interval. Of two owners one can take over from the other, one can be
dead; the words 5 and the seconds of 3 leave a rest at the wrap, as 2^32 and
1000 do. Permutations are used as symmetry only by runs without liveness.

Deadlock is checked in every run: there is always something the program may do.

## Proofs

`CbaProofs` proves, for every buffer size and set of requests, with and without
validation and reallocation, under `Representable`: no length exceeds its field,
that is, the buffer is at most 4100 bytes (a longer chunk loses a bit of its
length: the field has 12 bits, `cba.c:38`, where the comment at `:16` has 15)
and no request is within 4 bytes of 2^16 (a request of 65533 bytes or more is
rounded to 0 by the 16-bit result of `cba_chunk_len`, `cba.c:85`):

    IInvHolds           Spec => []IInv
    TypeIsCorrect       Spec => []TypeOK
    ChainStaysLinked    Spec => []ChainLinked
    ChunksAreApart      Spec => []NoOverlap
    BlocksAreBigEnough  Spec => []BlockHoldsRequest
    ReclaimIsRight      Spec => ReclaimsRightly
    NothingLostInOrder  Spec => []InOrderLosesNothing
    PoolIsImplemented   Spec => ImplementsPool

The invariants are not inductive. That a new chunk overlaps no other one follows
from where the others lie: `Shape(s, f, t)` says for a chain `s` that begins
at tail `t`, and behind which `f` is free, that each chunk lies in one of two
zones - from `t` up to `f` or to the end of the buffer, or, behind the wrap,
from 0 up to `f` - and that the chain's order is the order of addresses
within a zone, the upper zone first (`Ordered`). `IInv` is `Shape` of the
chain together with `Sound`, what a single header promises, and with the
history variable `ordered`. One lemma per change of a chain (`ShapeGrows`,
`ShapeShrinks`, `ShapeStretches`, `ShapeDrops`, `ShapeKept`) carries the
arithmetic, and one lemma per operation combines them, since `cba_malloc` may
stretch the last chunk and put a new one behind it in one step, and
`cba_realloc` frees as well. For the refinement, `Shape` and `Sound` give that
the blocks of different chunks differ and are apart (`BlocksApart`), so that a
chunk that is appended adds one block, and one that is released takes away its
own and no other, however many unbound chunks go with it (`BlocksGrow`,
`BlocksShrink`); stretching a chunk is no change to its caller. `ReclaimsRightly`
speaks of steps: the chunks in front of the new tail are unbound, so that each bound
one is found behind it (`ReleaseSpares`), and that the first one is bound is in `IInv`.
For `ImplementsPool` one lemma per call shows the pool's action for it
(`MallocAcquires`, `FreeReleases`, `ReallocEnoughResizes`, `ReallocHeadResizes`).

`RingBufProofs` proves, for every size that `RingBufAssumption` names and every
set of bytes:

    IInvHolds           Spec => []IInv
    TypeIsCorrect       Spec => []TypeOK
    RoomStays           Spec => []RoomIsKept
    StepsAreByteQueue   Spec => Abstract!Init /\ [][Abstract!Next]_(Abstract!vars)

`IInv` is `TypeOK`, `RoomIsKept` and that the byte being put is one. The masks
are turned into sums and differences once (`Distance`, `Slot`, `Advance`, by the
seven sizes), and `Counting` says what the number of elements does when an index
advances; one lemma per action uses these. For the refinement, `Slots` says that
the slot behind the queue is none of the queue's: a byte enters the queue when
`put_ptr` is stored, whose content the step before has written where the reader
does not look yet. That the reader gets every byte is TLC's part (`ring`).

`SchedulerProofs` proves, for any finite number of processes, any number of messages
in the buffer, any depth of calls and any number of calls per activation:

    Basics              Spec => []Base
    Types               Spec => []TypeOK
    Accounts            Spec => []MessagesAccounted
    WalksAlwaysEnd      Spec => []WalksEnd
    NobodyIsSkipped     Spec => []NobodySkipped
    NoPollIsLost        Spec => []PollNotLost
    QuietIsDone         Spec => []QuietMeansDone
    LivesAgree          Spec => []LifeCycle
    OnlyListed          Spec => OnlyListedAreCalled

`Base` is `TypeOK`, what may lie below what on the call stack (`Sound`), and the
account of the message buffer: a message is freed only by a frame that delivers
one, which needs the shape of the stack, and the count does not fall below 0,
which needs the account. The list is a graph of `next` fields; each fact about it
is shown by naming a closed set that contains what is to be reached and not what
is to be avoided (`Reach`, `ClosedIn`). A step changes the graph in two ways only:
a process that is not on the list is put in front of it, or one is bypassed.
`WalksEnd` is inductive by itself, since unlinked processes keep fields that lead
towards the end of the list. For `NobodySkipped` each loop's `Pays` says that whom
it owes a visit, and who is listed, is reached from where it stands; the process it
stands at may be unlinked, and put to the front of the list again, which forgets the
debt. `PollNotLost` is inductive with `Base` and `WalksEnd`. `LifeCycle` needs two
invariants. `process_current` is restored from the frames, so that what any frame
will restore has to be right all along: it is the process of the innermost
activation below it (`Innermost`, `Callers`). The states agree with the stack
because each process is in one of four phases - idle, called, being exited,
stopped - and the stack has one frame or none for it accordingly (`InPhase`). That
`scheduler_utilize_poll`, which sets its receiver running (:226), revives no stopped
process follows from what may lie on top of its frame: the thread it called, or the
exit that the end of this thread has begun (`PollUnder`).

`HsmProofs` proves, for every finite hierarchy and all periods that divide each
other:

    IInvHolds           Spec => []IInv
    TypeIsCorrect       Spec => []TypeOK
    EnteredStaysPath    Spec => []EnteredIsPath
    PeriodsAreServed    Spec => NoPeriodSkipped

While EXIT goes up, the path is incomplete: `Leaving` says that what remains to be
left, from the state that hears EXIT to the one below which the transition enters,
is as many levels as `unwind` says; `Staying`, that at any other time the states
entered are the path of `current_state` and the event has gone no further than
along it. Both need that the path of a parent is that of its child without the
child, which is what `HierarchyAssumption` is for. The theorem about the periods is
arithmetic: a period becomes full between two values of the counter if its
quotient changes, and the loop never passes over more than what is left to the
next full second.

`MsgQueueProofs` proves, for every finite set of messages and every set of
lists, under `~RemoveLast`, that is, for callers that do not pass the last message
of a list to `msg_list_remove` - with it the theorems are false, which is what
`list_remove` shows:

    IInvHolds           Spec => []IInv
    NothingIsLost       Spec => []NothingLost
    PendingFound        Spec => []PendingIsFound
    QueueIsImplemented  Spec => ImplementsPrioQueue

The invariant says that there are sequences of which the linked structures are the
chains (`Represents`): head, tail, length and the links between neighbours agree
with the sequence, and no message is twice in them, in one list or in two
(`Disjoint`). It leaves open what the links of the other messages say: they may
lead anywhere, and do after a message has changed lists. `Listed` is a recursive
walk; that it computes the sequence (`WalkIsChain`) is an induction, for which the
library's theorems cannot be used and which is made by the least number for which
it would fail (`LeastNumber`).

`DartLinkProofs` proves, for every set of messages, all values of the timers and
attempts that keep their order, and any number of faults:

    IInvHolds         Spec => []IInv
    TypeIsCorrect     Spec => []TypeOK
    OneOwnerHolds     Spec => []OneOwner
    OutcomeIsFinal    Spec => [][fate[m] \in Outcomes => fate'[m] = fate[m]]_vars, for each m
    DoneIsReceived    AnswersInTime => (Spec => []DoneMeansReceived)
    ArrivesInOrder    AnswersInTime => (Spec => []InOrder)
    NobodyOversleeps  Spec => []NobodySleepsThrough
    LinesStayClean    Spec => []CleanLine

The invariant says of a station between two calls (`Keeps`) that it holds the
messages that were accepted and not reported on, each in one place (`Knows`,
`Once`), that a list it transfers begins with a message, and with a request only
while no other one is pending (`Transfers`), and that attempts are left (`Tries`).
Inside a call this does not hold: `dart_retry_transfer` reports a failure before it
pops the message, and the callback in between may send another one. `Handles` is
therefore the invariant of a handler, with a parameter for the message that has
been reported on and is still held; there is a lemma for each function of `dart.c`
that says what it makes of it (`Sent`, `CalledBack`, `Finished`, `Waits`,
`RequestFinished` and those built from these), and an action of `DartLink` begins
and ends with that parameter unset (`Begins`, `Ends`). That a request keeps the
pending one from being overwritten when it is acknowledged comes out of
`Transfers`: a list that begins with one is not chosen in the meantime, and what a
callback appends does not change what a list begins with.

`DoneIsReceived` needs to know what an acknowledge byte acknowledges, which the byte
does not say. Its invariant `TurnsKept` says for each direction that the transfer is
in one of four turns (`Turn`): nothing is under way (`Rests`), the frame is on the
line (`Begun`), its receiver has seen the beginning (`Heard`), the answer is on the
line (`Answered`) - one frame or one answer, of the message that is transferred now,
with time left on the sender's `tx_ack_timer`. So when the timer expires and the
frame is sent again, no answer to the one before can come any more. The case that
makes this hard is a frame whose rest is lost: the receiver waits with
`rx_byte_timer` running, and what the other direction sends is taken for the rest of
it and starts that timer anew. This happens once at most before the sender's time is
over (the last three conjuncts of `Heard`), which is why the theorem assumes
`AnswersInTime`: two byte times are no longer than the time for an answer, as it is
with the 30 and 300 milliseconds of `dart.c` and with the values of `dart_link`. The
order of the timers alone (`TimersInOrder`) does not make `TurnsKept` inductive;
`DoneMeansReceived` itself may hold for more values. The handlers are looked at once
more for this, apart from what they do to the queues: `Leads`, `Ended`, `Tells` and
`Quiet` say what a function does to the transfer, the receive buffer and the reports,
`GoesOn`, `StartsAfter` and `StopsAfter` what comes out of a whole call, and the
lemmas `...Turns` take a turn from before a call to after it.

`ArrivesInOrder` joins the two. `IInv` has the lists in the order of sending, that is,
of `sent`, each message in the list of its priority (`Lines`); a call accepts one
message at most, which comes last in both (`Few`), and only a pending request is
abandoned (`Learns`, `Moves`). What arrives is, by the turns, the message its sender
transfers (`Arrives`), the first one of a list (`FirstOfList`): what was sent before it
in the same priority is no longer in the list, so that it has an outcome or is the
pending request, and in both cases it has arrived before or is a failure. `OrderKept`
is the invariant that says so, together with what it needs: nothing arrives twice, what
arrives was sent, and an abandoned request had arrived. The hypothesis is that of
`DoneIsReceived`, as the turns are. `OutcomeIsFinal` follows from `Moves`, which every
step of `DartLink` keeps (`StepKeeps`), without a hypothesis about the timers.

`NobodyOversleeps` is about the pins and the two timers that lower them. Its invariant
(`Rested`, of both stations) says that a station that transfers has its pin raised and
neither timer running (`Busy`); that nothing is on a station's own line when its
`closing_timer` has expired, and nothing comes either if the other's pin is low or is
about to be lowered for want of an answer; and that a station that was told it is idle
has its pin low, is not sent to and has nothing on its lines. It holds because a
byte stops `closing_timer` and time passes only when the lines are empty, and because
a transfer is begun only when the other's pin is seen high. `Stirs` says what the
functions of `dart.c` do to the pin and its timers, `Serves` and `Hearkens` what comes
out of `dart_handle_time` and of a byte. No hypothesis about the timers is needed
beyond `DartAssumption`.

`LinesStayClean` is about runs without a fault. Its invariant (`Clear`, as long as
`faults` is 0) says of each direction that its transfer is at rest, that its frame is
on the line, that its first byte was heard, or that it was answered (`Way`), and it
says what that leaves on a line, where the frame of one direction meets the answer to
the other one in either order (`Traffic`). Time passes only when the lines are empty,
hence when both transfers are at rest, so that neither `tx_ack_timer` nor
`rx_byte_timer` of a transfer comes to its end: this is why no hypothesis about the
timers is needed here, unlike for `DoneIsReceived`. That the answer finds a
station that still transfers and has its pin high is what `NobodyOversleeps`
establishes (`AllRested`). A message is not received twice because one that was
received is in a queue only while its answer is on the line (last conjunct of `Way`),
and no handler puts one that was accepted before back into a queue (`Mild`,
`FewerQueued`); none fails because only `dart_retry_transfer` reports a failure, and it
is called when the time for an answer is over or a receiver answers that it has not
understood a frame, which both do not happen.

`ProcessTimerProofs` proves, for every finite set of timers, every number of calls a
thread makes, and all intervals and words of the clock that `ProcessTimerAssumption`
allows:

    IInvHolds               Spec => []IInv
    ListIsRight             Spec => []ListedIsStarted
    TimerSetIsImplemented   Spec => ImplementsTimerSet

The invariant says that the list is the chain of a sequence without repetitions
(`Represents`), which a walk is then shown to compute, as for the message lists
(`WalkIsChain`), and that the search is at a timer of it. That no timer's value wraps
before the handler sees it needs how late each of them may be: those the search has
been at in this pass (`Passed`) were not due then, so that they are late by `lag` at
most, the others by `MaxLag + lag` (`InTime`); a pass that ends turns the one into the
other. The chain changes by a timer that is put in front (`Pushed`) or cut out (`Cut`),
also under a search that goes on at the head afterwards. For the refinement a start, a
stop and an event change the time left of one timer and of no other (`OneChanges`), and
a tick counts all of them on.

`LockerProofs` proves, for any owners, times, flags and words of the clock:

    IInvHolds       ShortSteps => (Spec => []IInv)
    SecondsKeepUp   ShortSteps => (Spec => SecondsDrift)
    LosersAreLate   ShortSteps /\ ShortTimes => (Spec => OnlyTheLateLose)

`SecondsStep` is the arithmetic of `clock_update`: the seconds, times `Second`, and the
rest of the milliseconds keep in step with the time, and differ by what is left of
`Word` when the milliseconds wrap. `IInv` says that the lock is taken exactly if there
is a holder that was not robbed, and of its timer that it has counted no more than its
owner has waited - in seconds, up to the rest of a second, and once more that rest if
the clock has wrapped in between (`Counts`). `ShortSteps` is that no single update is
as long as the clock's period less a second (49.7 days with 32 bits); for a longer
one `SecondsDrift` is false, as `clock_update` adds it to the rest of a second in one word.
`ShortTimes` is that a lock's time is over before ages are no longer told apart, which
concerns the bound `MaxAge` of the model, and, if locks count seconds, before the clock
can wrap twice: each wrap may bring the seconds forward by most of a second, and `Late`
allows for one. The instance `lock` satisfies both.

Only model-checked: liveness (`PollServed`, `MessagesServed`, `Reported`, `Closes`,
`Returns`, `NoDeadOwner`, the fairness `ImplementsByteQueue` has), as the prover has
neither fairness nor ENABLED.

## Not modelled

The averaging filter: a sequential sum, whose tests compare it with expected
values; the model would be its transcription. String helpers, message layouts,
utility macros and tracing have no state and no order to get wrong; the
protothread macros are vendored, and what a thread does is left open anyway; the
hardware headers are declarations whose implementations are not in the
repository - `DartLink` models the pins and the serial line as `dart.c` uses
them. Of `process.h` the waiting macros (`PROCESS_PAUSE`, `PROCESS_WAIT_...`) are
part of the threads, which are the environment.

Seen while modelling, and not checked: `scheduler_start_process` does not reset
`needspoll` (a spurious POLL); an event for a process that is on the call stack
is dropped (`scheduler.c:87`); `PROCESS_PAUSE` ignores a full buffer
(`process.h:162`); a process whose own thread exited it counts as running
afterwards (`scheduler.c:105`, `process.c:81`); POLL handlers, which are served
inside a broadcast (`scheduler.c:251`), may exit and restart the process the loop
is at, and as long as they go on doing so the broadcast does not end; a message
object whose size does not fit 16 bits is cut off (`message-list.c:16`); a
synchronisation byte that is lost lets payload bytes be read as control bytes
(`dart.c:646`); the comment at `timer.c:19` has the seconds "delayed by 295ms" when the
milliseconds wrap, which is 296 ms or, in the other case, 704 ms early.

## Plan

Modules: `Delivery`, the abstract specification of a link (a message is pending,
then has one outcome; "done" only if delivered), implemented by `DartLink`;
`dart_reset` of a running station.

One run asks for all the properties of an instance, and is split only when an
instance becomes too large.
