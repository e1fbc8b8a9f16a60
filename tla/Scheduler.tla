------------------------------ MODULE Scheduler ------------------------------
(***************************************************************************)
(* The cooperative process scheduler: scheduler.c and process.c.           *)
(*                                                                         *)
(* The scheduler is single threaded, but its handlers are re-entrant: a    *)
(* process thread called from one of the scheduler's loops may start,      *)
(* exit, poll or call processes, and so change the list the loop is        *)
(* walking.  The C call stack is therefore part of the state: "stack" is a *)
(* sequence of frames, the innermost last, and a step of the innermost     *)
(* frame is a step of the program.  process_poll is also what interrupt    *)
(* handlers call, so it interleaves with everything.                       *)
(*                                                                         *)
(* Process threads are the environment: an activation of a thread makes at *)
(* most MaxCalls of the calls in Api, then returns.                        *)
(***************************************************************************)
EXTENDS Integers, SequencesExt

CONSTANTS
    Proc,       \* the struct process objects
    NoProc,     \* NULL, which is also PROCESS_BROADCAST and PROCESS_NONE
    MsgType,    \* types of the messages that processes send to each other
    MaxMsgs,    \* bound: messages that are allocated at a time
    MaxCalls,   \* bound: re-entrant calls one activation of a thread makes
    MaxDepth,   \* bound: frames under which a thread still makes such calls
    Api         \* the calls that are made, a subset of AllCalls

AllCalls == {"start", "exit", "poll", "send", "hold", "handle"}
ProcessState == {"NONE", "RUNNING", "CALLED"}
Event == {"INIT", "POLL", "EXIT", "FINISHED", "USER"}

ASSUME SchedulerAssumption ==
    /\ NoProc \notin Proc
    /\ IsFiniteSet(Proc)
    /\ MsgType \subseteq Event
    /\ MaxMsgs \in Nat
    /\ MaxCalls \in Nat
    /\ MaxDepth \in Nat
    /\ Api \subseteq AllCalls

VARIABLES
    process_head,       \* first process of the list
    next,               \* the next field, which an unlinked process keeps
    state,              \* the state field
    needspoll,          \* the needspoll field
    sched,              \* whether the sched field is set
    process_current,    \* the process whose thread is running
    poll_requested,
    messages,           \* the queued messages, in order: receiver and type
    used,               \* messages allocated in the scheduler's buffer
    held,               \* messages that a caller allocated and still holds
    stack,              \* the frames in progress, the innermost last
    wanted,             \* history: polled since started, POLL not yet handed
    strays              \* history: a process was exited that was not idle, or
                        \*   a stopped one was sent INIT

list == <<process_head, next>>
heap == <<messages, used, held>>
polls == <<needspoll, poll_requested, wanted>>
past == <<sched, strays>>
vars == <<list, state, past, process_current, heap, polls, stack>>

----------------------------------------------------------------------------
(* Frames.  "run" is scheduler_run between its polls and its message;      *)
(* "poll", "bcast" and "hbcast" are the loops of scheduler_utilize_poll,   *)
(* scheduler_utilize_message and scheduler_handle_msg, and "bcast_call" is *)
(* the second after the polls of an iteration; "deliver" waits for a       *)
(* message's receiver; "finish" is the loop of exit_process; "thread" and  *)
(* "exit" are activations of a thread by call_process and exit_process.    *)

Loop == {"poll", "bcast", "hbcast", "finish"}
Activation == {"thread", "exit"}
Op == Loop \cup Activation \cup {"run", "bcast_call", "deliver"}

Frame == [op     : Op,
          proc   : Proc \cup {NoProc},  \* the process called or exiting
          ev     : Event,               \* the event delivered
          at     : Proc \cup {NoProc},  \* loop: last process visited
          caller : Proc \cup {NoProc},  \* process_current to restore
          self   : BOOLEAN,             \* finish: the thread itself ended
          calls  : 0..MaxCalls,         \* activation: calls it may make
          owed   : SUBSET Proc]         \* history: listed at the loop's
                                        \*   start and not visited since

NewFrame(op, p, ev, caller) ==
    [op |-> op, proc |-> p, ev |-> ev, at |-> NoProc, caller |-> caller,
     self |-> FALSE, calls |-> 0, owed |-> {}]

NewActivation(op, p, ev, caller) ==
    [NewFrame(op, p, ev, caller) EXCEPT !.calls = MaxCalls]

Top == Last(stack)
Below == Front(stack)
Running(op) == stack # <<>> /\ Top.op = op

----------------------------------------------------------------------------
(* The process list.                                                       *)

Closed(S) == \A q \in S : next[q] # NoProc => next[q] \in S

\* The processes a walk that starts at p and follows next comes past.
OnChain(p) ==
    {q \in Proc : \A S \in SUBSET Proc :
                    Closed(S) /\ (p # NoProc => p \in S) => q \in S}

Listed(p) == p \in OnChain(process_head)

\* The process the loop of frame f visits next: the next field of the last
\* one is read when its call has returned, whatever happened to it meanwhile.
LoopNext(f) == IF f.at = NoProc THEN process_head ELSE next[f.at]

\* Those a loop is still to visit.
Ahead(f) == OnChain(LoopNext(f))

\* Mutant: the unlinked process's next field is reset.
Unlink_ResetsNext(p) ==
    /\ process_head' = IF process_head = p THEN next[p] ELSE process_head
    /\ next' = [q \in Proc |->
                    IF q = p THEN NoProc
                    ELSE IF Listed(q) /\ next[q] = p THEN next[p] ELSE next[q]]

Unlink(p) ==
    /\ process_head' = IF process_head = p THEN next[p] ELSE process_head
    /\ next' = IF process_head = p THEN next
               ELSE [q \in Proc |-> IF Listed(q) /\ next[q] = p
                                    THEN next[p] ELSE next[q]]

----------------------------------------------------------------------------
\* What the macro PROCESS makes of a struct process.
InitProcesses ==
    /\ next = [p \in Proc |-> NoProc]
    /\ state = [p \in Proc |-> "NONE"]
    /\ needspoll = [p \in Proc |-> FALSE]
    /\ sched = [p \in Proc |-> FALSE]

Init ==
    /\ InitProcesses
    /\ process_head = NoProc
    /\ process_current = NoProc
    /\ poll_requested = 0
    /\ messages = <<>>
    /\ used = 0
    /\ held = 0
    /\ stack = <<>>
    /\ wanted = {}
    /\ strays = FALSE

----------------------------------------------------------------------------
(* call_process and exit_process, as the steps of their callers use them:  *)
(* "rest" is the stack they return to, "st" the states and "cur" the       *)
(* process_current they find.                                              *)

CallProcess(st, p, ev, rest) ==
    IF st[p] = "RUNNING"
    THEN /\ state' = [st EXCEPT ![p] = "CALLED"]
         /\ process_current' = p
         /\ stack' = Append(rest,
                        NewActivation("thread", p, ev, process_current))
    ELSE /\ state' = st
         /\ stack' = rest
         /\ UNCHANGED process_current

\* Mutant: the state is not set before the others hear of the exit.
BeginExit_LeavesState(p, from, cur, rest) ==
    /\ process_current' = cur
    /\ UNCHANGED <<list, state>>
    /\ IF Listed(p)
       THEN stack' = Append(rest,
                        [NewFrame("finish", p, "FINISHED", cur) EXCEPT
                            !.self = (p = from),
                            !.owed = OnChain(process_head) \ {p}])
       ELSE stack' = rest

\* A process that is found listed but not running is only unlinked.
BeginExit(p, from, cur, rest) ==
    /\ process_current' = cur
    /\ \/ /\ ~Listed(p)
          /\ stack' = rest
          /\ UNCHANGED <<list, state>>
       \/ /\ Listed(p) /\ state[p] # "NONE"
          /\ state' = [state EXCEPT ![p] = "NONE"]
          /\ stack' = Append(rest,
                        [NewFrame("finish", p, "FINISHED", cur) EXCEPT
                            !.self = (p = from),
                            !.owed = OnChain(process_head) \ {p}])
          /\ UNCHANGED list
       \/ /\ Listed(p) /\ state[p] = "NONE"
          /\ Unlink(p)
          /\ stack' = rest
          /\ UNCHANGED state

----------------------------------------------------------------------------
(* The interface, called by a thread or by the program around the          *)
(* scheduler.  Only the calls that can re-enter a thread are bounded.      *)

UserCode == stack # <<>> => Top.op \in Activation

MayCall(call) ==
    /\ call \in Api
    /\ UserCode
    /\ stack # <<>> => Top.calls > 0 /\ Len(stack) <= MaxDepth

\* The stack after the running activation has made one of its calls.
Spent == IF stack = <<>> THEN <<>>
         ELSE Append(Below, [Top EXCEPT !.calls = @ - 1])

\* A restarted process is a new one for the loops in progress.
Forget(s, p) == [i \in DOMAIN s |-> [s[i] EXCEPT !.owed = @ \ {p}]]

\* Mutant: a process that is on the list is started again.
StartProcess_Unchecked(p) ==
    /\ MayCall("start")
    /\ process_head' = p
    /\ next' = [next EXCEPT ![p] = process_head]
    /\ sched' = [sched EXCEPT ![p] = TRUE]
    /\ wanted' = wanted \ {p}
    /\ CallProcess([state EXCEPT ![p] = "RUNNING"], p, "INIT", Forget(Spent, p))
    /\ UNCHANGED <<needspoll, poll_requested, heap, strays>>

StartProcess(p) ==
    /\ MayCall("start")
    /\ \/ /\ Listed(p)
          /\ stack' = Spent
          /\ UNCHANGED <<list, state, sched, process_current, wanted>>
       \/ /\ ~Listed(p)
          /\ process_head' = p
          /\ next' = [next EXCEPT ![p] = process_head]
          /\ sched' = [sched EXCEPT ![p] = TRUE]
          /\ wanted' = wanted \ {p}
          /\ CallProcess([state EXCEPT ![p] = "RUNNING"], p, "INIT",
                         Forget(Spent, p))
    /\ UNCHANGED <<needspoll, poll_requested, heap, strays>>

\* exit_process reads proc->sched, so p has been started once.
ExitProcess(p) ==
    /\ MayCall("exit")
    /\ sched[p]
    /\ BeginExit(p, process_current, process_current, Spent)
    /\ strays' = (strays \/ (Listed(p) /\ state[p] # "RUNNING"))
    /\ UNCHANGED <<sched, heap, polls>>

\* Mutant: only the request is noted.
PollProcess_OnlyRequests(p) ==
    /\ "poll" \in Api
    /\ state[p] \in {"RUNNING", "CALLED"}
    /\ poll_requested' = 1
    /\ wanted' = wanted \cup {p}
    /\ UNCHANGED <<list, state, past, process_current, heap, stack, needspoll>>

\* By a thread or by an interrupt handler, at any time.
PollProcess(p) ==
    /\ "poll" \in Api
    /\ state[p] \in {"RUNNING", "CALLED"}
    /\ needspoll' = [needspoll EXCEPT ![p] = TRUE]
    /\ poll_requested' = 1
    /\ wanted' = wanted \cup {p}
    /\ UNCHANGED <<list, state, past, process_current, heap, stack>>

\* scheduler_malloc, when it succeeds.  What it asks for is in cba_malloc, which
\* may fail with any number of messages allocated: Cba says when.  A call that
\* fails returns NULL and changes nothing here, so that it is no step; and that
\* one succeeds is not promised, as no fairness makes it happen.
Malloc ==
    /\ "hold" \in Api
    /\ UserCode
    /\ used < MaxMsgs
    /\ used' = used + 1
    /\ held' = held + 1
    /\ UNCHANGED <<list, state, past, process_current, messages, polls, stack>>

Free ==
    /\ UserCode
    /\ held > 0
    /\ used' = used - 1
    /\ held' = held - 1
    /\ UNCHANGED <<list, state, past, process_current, messages, polls, stack>>

\* An INIT message marks its receiver running, so it is sent to one that
\* has been started: call_process reads its sched field.
Addressable(p, type) == type = "INIT" /\ p # NoProc => sched[p]

PostMsg(p, type) ==
    /\ UserCode
    /\ held > 0
    /\ Addressable(p, type)
    /\ messages' = Append(messages, [to |-> p, type |-> type])
    /\ held' = held - 1
    /\ UNCHANGED <<list, state, past, process_current, used, polls, stack>>

\* The process_send_msg functions, when cba_malloc succeeds: if it fails they
\* return without a change, as above.
SendMsg(p, type) ==
    /\ "send" \in Api
    /\ UserCode
    /\ Addressable(p, type)
    /\ used < MaxMsgs
    /\ used' = used + 1
    /\ messages' = Append(messages, [to |-> p, type |-> type])
    /\ UNCHANGED <<list, state, past, process_current, held, polls, stack>>

HandleMsg(p, type) ==
    /\ MayCall("handle")
    /\ \/ /\ p # NoProc
          /\ CallProcess(state, p, type, Spent)
       \/ /\ p = NoProc
          /\ stack' = Append(Spent,
                        [NewFrame("hbcast", NoProc, type, NoProc) EXCEPT
                            !.owed = OnChain(process_head)])
          /\ UNCHANGED <<state, process_current>>
    /\ UNCHANGED <<list, past, heap, polls>>

----------------------------------------------------------------------------
(* A thread returns: it yields or waits, or it has ended.                  *)

\* Mutant: the caller does not become the current process again.
ThreadYields_KeepsCurrent ==
    /\ Running("thread")
    /\ Top.ev # "EXIT"
    /\ state' = [state EXCEPT ![Top.proc] = "RUNNING"]
    /\ stack' = Below
    /\ UNCHANGED <<list, past, process_current, heap, polls>>

ThreadYields ==
    /\ Running("thread")
    /\ Top.ev # "EXIT"
    /\ process_current' = Top.caller
    /\ state' = [state EXCEPT ![Top.proc] = "RUNNING"]
    /\ stack' = Below
    /\ UNCHANGED <<list, past, heap, polls>>

ThreadEnds ==
    /\ Running("thread")
    /\ BeginExit(Top.proc, Top.proc, Top.caller, Below)
    /\ UNCHANGED <<past, heap, polls>>

ExitThreadReturns ==
    /\ Running("exit")
    /\ Unlink(Top.proc)
    /\ process_current' = Top.caller
    /\ stack' = Below
    /\ UNCHANGED <<state, past, heap, polls>>

----------------------------------------------------------------------------
(* The loops.                                                              *)

\* The stack once the innermost loop has moved on to process p.
Advanced(p) == Append(Below, [Top EXCEPT !.at = p, !.owed = @ \ {p}])

FinishVisits ==
    /\ Running("finish")
    /\ LoopNext(Top) # NoProc
    /\ LET p == LoopNext(Top)
       IN  \/ /\ p = Top.proc
              /\ stack' = Advanced(p)
              /\ UNCHANGED <<state, process_current>>
           \/ /\ p # Top.proc
              /\ CallProcess(state, p, "FINISHED", Advanced(p))
    /\ UNCHANGED <<list, past, heap, polls>>

\* The exiting process hears last, unless it is its thread that ended.
FinishEnds ==
    /\ Running("finish")
    /\ LoopNext(Top) = NoProc
    /\ \/ /\ Top.self
          /\ Unlink(Top.proc)
          /\ process_current' = Top.caller
          /\ stack' = Below
       \/ /\ ~Top.self
          /\ process_current' = Top.proc
          /\ stack' = Append(Below,
                        NewActivation("exit", Top.proc, "EXIT", Top.caller))
          /\ UNCHANGED list
    /\ UNCHANGED <<state, past, heap, polls>>

HandleVisits ==
    /\ Running("hbcast")
    /\ LoopNext(Top) # NoProc
    /\ CallProcess(state, LoopNext(Top), Top.ev, Advanced(LoopNext(Top)))
    /\ UNCHANGED <<list, past, heap, polls>>

HandleEnds ==
    /\ Running("hbcast")
    /\ LoopNext(Top) = NoProc
    /\ stack' = Below
    /\ UNCHANGED <<list, state, past, process_current, heap, polls>>

----------------------------------------------------------------------------
(* scheduler_run.                                                          *)

\* The request is taken back before the list is walked.
BeginPoll(rest) ==
    /\ poll_requested' = 0
    /\ stack' = Append(rest, NewFrame("poll", NoProc, "POLL", NoProc))

\* Mutant: polls wait until no message is left.
Run_MessagesFirst ==
    /\ stack = <<>>
    /\ IF poll_requested = 1 /\ messages = <<>>
       THEN BeginPoll(<<NewFrame("run", NoProc, "USER", NoProc)>>)
       ELSE /\ stack' = <<NewFrame("run", NoProc, "USER", NoProc)>>
            /\ UNCHANGED poll_requested
    /\ UNCHANGED <<list, state, past, process_current, heap,
                   needspoll, wanted>>

\* Mutant: a run that serves polls takes no message.
Run_PollsOnly ==
    /\ stack = <<>>
    /\ IF poll_requested = 1 THEN BeginPoll(<<>>)
       ELSE /\ stack' = <<NewFrame("run", NoProc, "USER", NoProc)>>
            /\ UNCHANGED poll_requested
    /\ UNCHANGED <<list, state, past, process_current, heap,
                   needspoll, wanted>>

Run ==
    /\ stack = <<>>
    /\ \/ /\ poll_requested = 1
          /\ BeginPoll(<<NewFrame("run", NoProc, "USER", NoProc)>>)
       \/ /\ poll_requested = 0
          /\ stack' = <<NewFrame("run", NoProc, "USER", NoProc)>>
          /\ UNCHANGED poll_requested
    /\ UNCHANGED <<list, state, past, process_current, heap,
                   needspoll, wanted>>

PollVisits ==
    /\ Running("poll")
    /\ LoopNext(Top) # NoProc
    /\ LET p == LoopNext(Top)
       IN  \/ /\ needspoll[p]
              /\ needspoll' = [needspoll EXCEPT ![p] = FALSE]
              /\ wanted' = wanted \ {p}
              /\ CallProcess([state EXCEPT ![p] = "RUNNING"], p, "POLL",
                             Advanced(p))
           \/ /\ ~needspoll[p]
              /\ stack' = Advanced(p)
              /\ UNCHANGED <<state, process_current, needspoll, wanted>>
    /\ UNCHANGED <<list, past, heap, poll_requested>>

\* Mutant: the request is taken back after the walk.
PollEnds_TakesRequestBack ==
    /\ Running("poll")
    /\ LoopNext(Top) = NoProc
    /\ stack' = Below
    /\ poll_requested' = 0
    /\ UNCHANGED <<list, state, past, process_current, heap, needspoll, wanted>>

PollEnds ==
    /\ Running("poll")
    /\ LoopNext(Top) = NoProc
    /\ stack' = Below
    /\ UNCHANGED <<list, state, past, process_current, heap, polls>>

RunTakesNoMessage ==
    /\ Running("run")
    /\ messages = <<>>
    /\ stack' = <<>>
    /\ UNCHANGED <<list, state, past, process_current, heap, polls>>

RunTakesMessage ==
    /\ Running("run")
    /\ messages # <<>>
    /\ messages' = Tail(messages)
    /\ LET msg == Head(messages)
       IN  \/ /\ msg.to # NoProc
              /\ CallProcess(IF msg.type = "INIT"
                             THEN [state EXCEPT ![msg.to] = "RUNNING"]
                             ELSE state,
                             msg.to, msg.type,
                             <<NewFrame("deliver", msg.to, msg.type, NoProc)>>)
              /\ strays' = (strays \/ (msg.type = "INIT" /\ ~Listed(msg.to)))
           \/ /\ msg.to = NoProc
              /\ stack' = <<[NewFrame("bcast", NoProc, msg.type, NoProc) EXCEPT
                                !.owed = OnChain(process_head)]>>
              /\ UNCHANGED <<state, process_current, strays>>
    /\ UNCHANGED <<list, sched, used, held, polls>>

\* Mutant: a broadcast message is not freed.
Delivered_KeepsBroadcast ==
    /\ \/ Running("deliver")
       \/ Running("bcast") /\ LoopNext(Top) = NoProc
    /\ used' = IF Running("bcast") THEN used ELSE used - 1
    /\ stack' = Below
    /\ UNCHANGED <<list, state, past, process_current, messages, held, polls>>

\* The message is freed when its receivers have returned.
Delivered ==
    /\ \/ Running("deliver")
       \/ Running("bcast") /\ LoopNext(Top) = NoProc
    /\ used' = used - 1
    /\ stack' = Below
    /\ UNCHANGED <<list, state, past, process_current, messages, held, polls>>

\* A broadcast serves poll requests between two receivers.
BroadcastVisits ==
    /\ Running("bcast")
    /\ LoopNext(Top) # NoProc
    /\ LET p == LoopNext(Top)
           rest == Append(Below, [Top EXCEPT !.op = "bcast_call", !.at = p])
       IN  \/ /\ poll_requested = 1
              /\ BeginPoll(rest)
              /\ UNCHANGED <<state, process_current>>
           \/ /\ poll_requested = 0
              /\ CallProcess(state, p, Top.ev, Advanced(p))
              /\ UNCHANGED poll_requested
    /\ UNCHANGED <<list, past, heap, needspoll, wanted>>

BroadcastCalls ==
    /\ Running("bcast_call")
    /\ CallProcess(state, Top.at, Top.ev,
                   Append(Below, [Top EXCEPT !.op = "bcast",
                                             !.owed = @ \ {Top.at}]))
    /\ UNCHANGED <<list, past, heap, polls>>

----------------------------------------------------------------------------
ThreadReturns == ThreadYields \/ ThreadEnds \/ ExitThreadReturns

SchedulerSteps ==
    \/ FinishVisits \/ FinishEnds
    \/ HandleVisits \/ HandleEnds
    \/ PollVisits \/ PollEnds
    \/ RunTakesNoMessage \/ RunTakesMessage \/ Delivered
    \/ BroadcastVisits \/ BroadcastCalls

\* The program goes on with what it is doing.
Continue == ThreadReturns \/ SchedulerSteps

UserCalls ==
    \/ \E p \in Proc : StartProcess(p) \/ ExitProcess(p) \/ PollProcess(p)
    \/ Malloc \/ Free
    \/ \E p \in Proc \cup {NoProc}, type \in MsgType :
            PostMsg(p, type) \/ SendMsg(p, type) \/ HandleMsg(p, type)

Next == Run \/ Continue \/ UserCalls

Spec == Init /\ [][Next]_vars

\* A thread returns to the scheduler after finitely many calls, which is what
\* a cooperative scheduler asks of it, and the main loop calls process_run
\* again and again, whatever else it calls in between.
FairSpec == Spec /\ WF_vars(Continue) /\ SF_vars(Run)
----------------------------------------------------------------------------
(* Properties.                                                             *)

Frames == {stack[i] : i \in DOMAIN stack}

\* The fields hold values of their types; a poll that is owed is marked in
\* the process that is to get it.
TypeOK ==
    /\ process_head \in Proc \cup {NoProc}
    /\ next \in [Proc -> Proc \cup {NoProc}]
    /\ state \in [Proc -> ProcessState]
    /\ needspoll \in [Proc -> BOOLEAN]
    /\ sched \in [Proc -> BOOLEAN]
    /\ process_current \in Proc \cup {NoProc}
    /\ poll_requested \in {0, 1}
    /\ messages \in Seq([to : Proc \cup {NoProc}, type : MsgType])
    /\ used \in 0..MaxMsgs
    /\ held \in 0..MaxMsgs
    /\ stack \in Seq(Frame)
    /\ wanted \subseteq {p \in Proc : needspoll[p]}
    /\ strays \in BOOLEAN

\* Every walk along the next fields ends, also one that goes on from a
\* process unlinked meanwhile: no order of starts and exits ties the list,
\* or the stale fields of unlinked processes, into a ring.
WalksEnd == \A p \in Proc : p \notin OnChain(next[p])

\* No process is skipped: one that was listed when a loop began and still is
\* the same incarnation is either visited or still ahead of the loop, though
\* the called threads unlink and restart processes around its position.
NobodySkipped ==
    \A f \in Frames :
        \A p \in f.owed : Listed(p) => p \in Ahead(f) \cup {f.at}

\* A poll request is never lost: process_poll may come between any two steps
\* of scheduler_utilize_poll, which takes poll_requested back before it
\* looks at the processes; until the POLL is handed over, either the request
\* stands or a loop is on its way to the process.
PollNotLost ==
    \A p \in wanted :
        Listed(p) => \/ poll_requested = 1
                     \/ \E f \in Frames : f.op = "poll" /\ p \in Ahead(f)

\* Every message in the scheduler's buffer has one owner, a caller, the queue
\* or the delivery in progress, through broadcasts whose receivers exit.
InDelivery == IF stack # <<>> /\ stack[1].op \in {"deliver", "bcast", "bcast_call"}
              THEN 1 ELSE 0

MessagesAccounted == used = Len(messages) + held + InDelivery

\* Mutant: poll requests are no events.
scheduler_events_MessagesOnly == Len(messages)

\* scheduler_events, by which the main loop decides that it may sleep.
scheduler_events == Len(messages) + poll_requested

\* When scheduler_events is 0 between two runs nothing is left to do: no poll
\* is outstanding and all the memory in use is in the hands of callers.
QuietMeansDone ==
    stack = <<>> /\ scheduler_events = 0 =>
        /\ used = held
        /\ \A p \in wanted : ~Listed(p)

Activations(p) == {i \in DOMAIN stack :
                    stack[i].op \in Activation /\ stack[i].proc = p}
Exits(p) == {i \in DOMAIN stack :
                stack[i].op \in {"finish", "exit"} /\ stack[i].proc = p}

\* The state fields and process_current agree with the call stack and the list
\* after every nesting of calls and exits: process_current is the process whose
\* thread is innermost; if running threads are not exited and stopped processes
\* not sent INIT, idle processes are listed and have no activation, called ones
\* are listed and have one, and one that is not running is unlinked or being
\* exited.
LifeCycle ==
    /\ LET inner == {i \in DOMAIN stack : stack[i].op \in Activation}
       IN  process_current = IF inner = {} THEN NoProc
                             ELSE stack[Max(inner)].proc
    /\ ~strays => \A p \in Proc :
           CASE state[p] = "RUNNING" -> /\ Listed(p)
                                        /\ Activations(p) = {}
                                        /\ Exits(p) = {}
             [] state[p] = "CALLED" -> /\ Listed(p)
                                       /\ Cardinality(Activations(p)) = 1
                                       /\ Exits(p) = {}
             [] state[p] = "NONE" -> /\ Cardinality(Activations(p)) <= 1
                                     /\ Cardinality(Exits(p))
                                           = IF Listed(p) THEN 1 ELSE 0

\* A stopped process stays silent: a thread is activated by call_process only
\* while its process is on the list, even by a loop that kept a pointer to
\* the process from before it was unlinked.
OnlyListedAreCalled ==
    [][~strays' => \A p \in Proc : process_current' = p /\ state'[p] = "CALLED"
                        /\ state[p] # "CALLED" => Listed(p)']_vars

\* A process that is polled gets its POLL event, unless it exits first.
PollServed == \A p \in Proc : []<>(p \notin wanted \/ ~Listed(p))

\* Polls do not keep messages waiting, however often interrupts request them:
\* while messages are queued they are handed over, one after the other, and
\* their memory is given back, if each scheduler_run returns.  (One does not
\* when the receivers of a broadcast restart themselves again and again.)
MessagesServed ==
    []<>(stack = <<>>) => []<>(used = held) \/ []<><<Delivered>>_vars
=============================================================================
