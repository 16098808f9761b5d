----------------------------- MODULE CommandQueue -----------------------------
(***************************************************************************)
(* The command queue of one object (pub14_core/command/command_queue.cc).  *)
(* Any thread of the io_service may enqueue a request, set or clear the    *)
(* default command, run the timer's handler or a delayed callback.  A      *)
(* thread's calls nest: a command that runs may set the default command of *)
(* the same queue, which notifies it again.                                *)
(***************************************************************************)
EXTENDS Integers, Sequences, FiniteSets

CONSTANTS
    Thread,         \* threads of the io_service
    Request,        \* commands players ask for, each once
    Default,        \* commands combat may set as the default, run repeatedly
    Queued,         \* the requests that go through the queue (add_to_combat_queue)
    Priority,       \* GetPriority of each request
    MaxChain,       \* bound: how often a callback asks for another one
    NoCommand

Command == Request \cup Default

ASSUME QueueAssumption ==
    /\ Queued \subseteq Request /\ Request \cap Default = {}
    /\ Priority \in [Request -> Nat]
    /\ NoCommand \notin Command
    /\ MaxChain \in Nat

VARIABLES
    processing,         \* processing_
    queue,              \* queue_: what it holds
    default_command,    \* default_command_
    timer,              \* the command whose time timer_ waits for, or NoCommand
    callbacks,          \* delayed callbacks: the command and how often it chained
    frames              \* each thread's calls into the queue, innermost last

\* History, read by the properties only.
VARIABLES
    requested,      \* requests accepted or refused so far
    finished        \* requests refused or processed

queueVars == <<processing, queue, default_command, timer, callbacks, frames,
               requested, finished>>

\* Where a call is: about to Notify, to take the next command, to process one,
\* in its Run, to report its removal, to start the timer, or to find no command.
Place == {"notify", "next", "process", "run", "report", "arm", "release"}

\* flow: the call belongs to the Notify that has set processing_.
Frame == [at : Place, command : Command \cup {NoCommand}, flow : BOOLEAN]

TypeOK ==
    /\ processing \in BOOLEAN
    /\ queue \subseteq Queued
    /\ default_command \in Default \cup {NoCommand}
    /\ timer \in Command \cup {NoCommand}
    /\ callbacks \subseteq [command : Request, chained : 0 .. MaxChain]
    /\ frames \in [Thread -> Seq(Frame)]
    /\ requested \subseteq Request /\ finished \subseteq requested

Init ==
    /\ processing = FALSE /\ queue = {} /\ default_command = NoCommand
    /\ timer = NoCommand /\ callbacks = {}
    /\ frames = [t \in Thread |-> <<>>]
    /\ requested = {} /\ finished = {}

-----------------------------------------------------------------------------
(* Calls. *)

Idle(t) == frames[t] = <<>>
Depth(t) == Len(frames[t])
Top(t) == frames[t][Depth(t)]
At(t, place) == ~Idle(t) /\ Top(t).at = place

NotifyCall == [at |-> "notify", command |-> NoCommand, flow |-> FALSE]
ProcessCall(c) == [at |-> "process", command |-> c, flow |-> FALSE]

\* The innermost call of t goes on to place; it ends; it ends or goes on.
Goto(t, place) == frames' = [frames EXCEPT ![t][Depth(t)].at = place]
Return(t) == frames' = [frames EXCEPT ![t] = SubSeq(@, 1, Len(@) - 1)]
Call(t, frame) == frames' = [frames EXCEPT ![t] = Append(@, frame)]

\* The innermost call of t has the flow, and goes on to place with c.
HoldFlow(t, place, c) ==
    frames' = [frames EXCEPT ![t][Depth(t)] = [at |-> place, command |-> c, flow |-> TRUE]]

\* ProcessCommand returns to Notify, which starts the timer, or to EnqueueCommand.
EndProcess(t) == IF Top(t).flow THEN Goto(t, "arm") ELSE Return(t)

Finish(c) == finished' = finished \cup ({c} \cap Request)

-----------------------------------------------------------------------------
(* Entry points. *)

\* EnqueueCommand, refused by the enqueue filters: reported at once.
RefuseCommand(t, c) ==
    /\ Idle(t) /\ c \notin requested
    /\ requested' = requested \cup {c}
    /\ Finish(c)
    /\ UNCHANGED <<processing, queue, default_command, timer, callbacks, frames>>

EnqueueCommand(t, c) ==
    /\ Idle(t) /\ c \notin requested
    /\ requested' = requested \cup {c}
    /\ IF c \in Queued
       THEN /\ queue' = queue \cup {c}
            /\ Call(t, NotifyCall)
       ELSE /\ Call(t, ProcessCall(c))
            /\ UNCHANGED queue
    /\ UNCHANGED <<processing, default_command, timer, callbacks, finished>>

SetDefaultCommand(t, d) ==
    /\ Idle(t) \/ At(t, "run")
    /\ default_command' = d
    /\ Call(t, NotifyCall)
    /\ UNCHANGED <<processing, queue, timer, callbacks, requested, finished>>

ClearDefaultCommand(t) ==
    /\ Idle(t) \/ At(t, "run")
    /\ default_command # NoCommand
    /\ default_command' = NoCommand
    /\ UNCHANGED <<processing, queue, timer, callbacks, frames, requested, finished>>

\* timer_'s handler: processing_ is cleared, then the queue is notified.
\* The mutant only clears it.
TimerFires_NoNotify(t) ==
    /\ Idle(t) /\ timer # NoCommand
    /\ timer' = NoCommand
    /\ processing' = FALSE
    /\ UNCHANGED <<queue, default_command, callbacks, frames, requested, finished>>
TimerFires(t) ==
    /\ Idle(t) /\ timer # NoCommand
    /\ timer' = NoCommand
    /\ processing' = FALSE
    /\ Call(t, NotifyCall)
    /\ UNCHANGED <<queue, default_command, callbacks, requested, finished>>

\* HandleCallback: the callback runs, and may ask for another one.
RunCallback(t, cb) ==
    /\ Idle(t) /\ cb \in callbacks
    /\ \/ callbacks' = callbacks \ {cb}
       \/ /\ cb.chained < MaxChain
          /\ callbacks' = (callbacks \ {cb}) \cup {[cb EXCEPT !.chained = @ + 1]}
    /\ UNCHANGED <<processing, queue, default_command, timer, frames, requested,
                   finished>>

-----------------------------------------------------------------------------
(* Notify. *)

\* The mutant does not look at processing_ under the lock.
NotifyEnter_Unchecked(t) ==
    /\ At(t, "notify")
    /\ processing' = TRUE
    /\ HoldFlow(t, "next", NoCommand)
    /\ UNCHANGED <<queue, default_command, timer, callbacks, requested, finished>>
NotifyEnter(t) ==
    /\ At(t, "notify")
    /\ IF processing
       THEN /\ Return(t)
            /\ UNCHANGED processing
       ELSE /\ processing' = TRUE
            /\ HoldFlow(t, "next", NoCommand)
    /\ UNCHANGED <<queue, default_command, timer, callbacks, requested, finished>>

\* A request of the highest priority, else the default command, else nothing.
\* The mutant leaves the request in the queue.
GetNextCommand_Peek(t) ==
    /\ At(t, "next")
    /\ \/ \E c \in queue :
             /\ \A other \in queue : Priority[other] <= Priority[c]
             /\ HoldFlow(t, "process", c)
       \/ queue = {} /\ default_command # NoCommand /\ HoldFlow(t, "process", default_command)
       \/ queue = {} /\ default_command = NoCommand /\ Goto(t, "release")
    /\ UNCHANGED <<processing, queue, default_command, timer, callbacks, requested,
                   finished>>
GetNextCommand(t) ==
    /\ At(t, "next")
    /\ \/ \E c \in queue :
             /\ \A other \in queue : Priority[other] <= Priority[c]
             /\ queue' = queue \ {c}
             /\ HoldFlow(t, "process", c)
       \/ /\ queue = {} /\ default_command # NoCommand
          /\ HoldFlow(t, "process", default_command)
          /\ UNCHANGED queue
       \/ /\ queue = {} /\ default_command = NoCommand
          /\ Goto(t, "release")
          /\ UNCHANGED queue
    /\ UNCHANGED <<processing, default_command, timer, callbacks, requested, finished>>

\* Nothing was found.  The mutant leaves processing_ set.
NothingToDo_StaysBusy(t) ==
    /\ At(t, "release")
    /\ Return(t)
    /\ UNCHANGED <<processing, queue, default_command, timer, callbacks, requested,
                   finished>>
NothingToDo(t) ==
    /\ At(t, "release")
    /\ processing' = FALSE
    /\ Return(t)
    /\ UNCHANGED <<queue, default_command, timer, callbacks, requested, finished>>

StartTimer(t) ==
    /\ At(t, "arm")
    /\ timer' = Top(t).command
    /\ Return(t)
    /\ UNCHANGED <<processing, queue, default_command, callbacks, requested, finished>>

-----------------------------------------------------------------------------
(* ProcessCommand. *)

\* The process filters or the command's own Validate refuse it.
Refuse(t) ==
    /\ At(t, "process")
    /\ Goto(t, "report")
    /\ UNCHANGED <<processing, queue, default_command, timer, callbacks, requested,
                   finished>>

Run(t) ==
    /\ At(t, "process")
    /\ Goto(t, "run")
    /\ UNCHANGED <<processing, queue, default_command, timer, callbacks, requested,
                   finished>>

\* Run returns, maybe with a callback (the default attacks never do).
RunReturns(t) ==
    /\ At(t, "run")
    /\ Goto(t, "report")
    /\ \/ UNCHANGED callbacks
       \/ /\ Top(t).command \in Request
          /\ callbacks' = callbacks \cup {[command |-> Top(t).command, chained |-> 0]}
    /\ UNCHANGED <<processing, queue, default_command, timer, requested, finished>>

\* Run throws: ProcessCommand logs it and reports nothing.
RunThrows(t) ==
    /\ At(t, "run")
    /\ EndProcess(t)
    /\ Finish(Top(t).command)
    /\ UNCHANGED <<processing, queue, default_command, timer, callbacks, requested>>

\* SendCommandQueueRemove.
Report(t) ==
    /\ At(t, "report")
    /\ EndProcess(t)
    /\ Finish(Top(t).command)
    /\ UNCHANGED <<processing, queue, default_command, timer, callbacks, requested>>

-----------------------------------------------------------------------------
InProgress(t) ==
    \/ NotifyEnter(t) \/ GetNextCommand(t) \/ NothingToDo(t) \/ StartTimer(t)
    \/ Refuse(t) \/ Run(t) \/ RunReturns(t) \/ RunThrows(t) \/ Report(t)

Next == \E t \in Thread :
    \/ InProgress(t) \/ TimerFires(t) \/ ClearDefaultCommand(t)
    \/ \E c \in Request : RefuseCommand(t, c) \/ EnqueueCommand(t, c)
    \/ \E d \in Default : SetDefaultCommand(t, d)
    \/ \E cb \in callbacks : RunCallback(t, cb)

Spec == Init /\ [][Next]_queueVars

\* Every thread of the io_service gets to run, a command's Run ends, and an
\* expired timer's handler is run by a thread that becomes free.
Fairness ==
    /\ \A t \in Thread : WF_queueVars(InProgress(t))
    /\ \A t \in Thread : SF_queueVars(RunReturns(t) \/ RunThrows(t))
    /\ SF_queueVars(\E t \in Thread : TimerFires(t))

FairSpec == Spec /\ Fairness

-----------------------------------------------------------------------------
(* Properties. *)

\* The calls that belong to a Notify that set processing_.
InFlow == {call \in Thread \X (1 .. 3) :
              /\ call[2] <= Depth(call[1])
              /\ frames[call[1]][call[2]].flow}

\* processing_ is set exactly while one call, or else the timer, has the flow:
\* no interleaving of Notify, the timer's handler and nested calls lets two
\* commands of the flow run, or run one during the time of another.
SingleFlow ==
    /\ \A a, b \in InFlow : a = b
    /\ timer # NoCommand => InFlow = {}
    /\ processing <=> (InFlow # {} \/ timer # NoCommand)

\* A request is in exactly one place: in the queue, in one thread's hands or
\* done with; none is lost, run twice or run and still queued (EnqueueCommand,
\* GetNextCommand, ProcessCommand).
Holding(c) == {call \in Thread \X (1 .. 3) :
                  /\ call[2] <= Depth(call[1])
                  /\ frames[call[1]][call[2]].command = c
                  /\ frames[call[1]][call[2]].at # "arm"}

EachRequestOnce ==
    \A c \in requested :
        \/ c \in queue /\ c \notin finished /\ Holding(c) = {}
        \/ c \notin queue /\ c \in finished /\ Holding(c) = {}
        \/ c \notin queue /\ c \notin finished /\ Cardinality(Holding(c)) = 1

\* The queue implements CommandFlow.
FlowCall == CHOOSE call \in InFlow : TRUE
FlowCommand == frames[FlowCall[1]][FlowCall[2]].command

Phase ==
    IF timer # NoCommand THEN "waiting"
    ELSE IF InFlow # {} /\ FlowCommand # NoCommand THEN "running"
    ELSE "free"
Current ==
    IF timer # NoCommand THEN timer
    ELSE IF InFlow # {} THEN FlowCommand
    ELSE NoCommand

OneAtATime == INSTANCE CommandFlow WITH
    Flow <- Queued \cup Default, phase <- Phase, current <- Current
ImplementsFlow == OneAtATime!Spec

\* The queue never stays busy: whoever has the flow gives it back.
FlowIsReleased == []<>(~processing)

\* A request that waits while another command's time runs is taken: the timer's
\* handler notifies the queue again.
WaitingIsTaken ==
    \A c \in Queued : (c \in queue /\ timer # NoCommand) ~> (c \notin queue)

\* "Enqueues a command for processing": a queued request is taken in the end.
EnqueuedIsProcessed == \A c \in Queued : (c \in queue) ~> (c \notin queue)
=============================================================================
