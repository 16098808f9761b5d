---------------------------- MODULE CommandCreation ----------------------------
(***************************************************************************)
(* From a CommandQueueEnqueue message to a command that has run            *)
(* (CommandService::EnqueueCommandRequest, CommandFactory, the Python      *)
(* creators and the Run of Python commands), seen through the two locks on *)
(* the way: creators_mutex_ and Python's interpreter lock.  Combat         *)
(* commands create default attacks from inside their Run.                  *)
(*                                                                         *)
(* The queue between creation and Run is CommandQueue; here a created      *)
(* command may be run by any thread.  The interpreter may also yield its   *)
(* lock in the middle of a Run, which only takes a thread back to waiting  *)
(* for that lock.                                                          *)
(***************************************************************************)
EXTENDS Integers, FiniteSets

CONSTANTS
    Thread,         \* threads of the io_service
    Request,        \* CommandQueueEnqueue messages
    Command,        \* names of commands
    CommandOf,      \* the command each request asks for
    DefaultAttack,  \* "defaultattack"
    Combat,         \* the BaseCombatCommands
    Known,          \* commands the command table has properties for
    Creator,        \* creator functions
    FirstCreator,   \* what the services register when they start
    Nobody

ASSUME CreationAssumption ==
    /\ CommandOf \in [Request -> Command]
    /\ Known \subseteq Command /\ Combat \subseteq Command
    /\ DefaultAttack \in Known
    /\ FirstCreator \in Creator /\ Nobody \notin Creator \cup Thread

VARIABLES
    command_creators,   \* command_creators_
    creators_mutex,     \* the thread that holds creators_mutex_
    gil,                \* the thread that holds Python's interpreter lock
    place,              \* where each thread is
    work,               \* the request each thread works on
    attacks,            \* default attacks the current Run has created
    created             \* requests whose command waits in a queue

\* History, read by the properties only.
VARIABLES
    received,           \* requests that have come in
    handled             \* requests dropped for want of a creator, or run

factoryVars == <<command_creators, creators_mutex, gil, place, work, attacks, created,
                 received, handled>>

\* lock: CreateCommand, before creators_mutex_ is taken.
\* creator: the Python creator, before the interpreter lock; creating: with both.
\* run: Run, before the interpreter lock; running: with it.
\* default_lock: InitiateCombat's CreateCommand, before creators_mutex_.
\* default_creating: the same with both locks (the interpreter's is recursive).
Place == {"idle", "lock", "creator", "creating", "run", "running", "default_lock",
          "default_creating"}

FactoryTypeOK ==
    /\ command_creators \in [Command -> Creator \cup {Nobody}]
    /\ creators_mutex \in Thread \cup {Nobody}
    /\ gil \in Thread \cup {Nobody}
    /\ place \in [Thread -> Place]
    /\ work \in [Thread -> Request \cup {Nobody}]
    /\ attacks \in [Thread -> 0 .. 2]
    /\ created \subseteq received
    /\ received \subseteq Request /\ handled \subseteq received \ created

\* The services have started: each known command has its creator.
Init ==
    /\ command_creators = [c \in Command |-> IF c \in Known THEN FirstCreator
                                                             ELSE Nobody]
    /\ creators_mutex = Nobody /\ gil = Nobody
    /\ place = [t \in Thread |-> "idle"]
    /\ work = [t \in Thread |-> Nobody]
    /\ attacks = [t \in Thread |-> 0]
    /\ created = {} /\ received = {} /\ handled = {}

-----------------------------------------------------------------------------
(* CommandFactory. *)

Goto(t, p) == place' = [place EXCEPT ![t] = p]
Finish(t) == Goto(t, "idle") /\ work' = [work EXCEPT ![t] = Nobody]

AddCommandCreator(c, k) ==
    /\ creators_mutex = Nobody
    /\ command_creators' = IF c \in Known /\ command_creators[c] = Nobody
                           THEN [command_creators EXCEPT ![c] = k]
                           ELSE command_creators
    /\ UNCHANGED <<creators_mutex, gil, place, work, attacks, created, received,
                   handled>>

\* Combat uses the default attack's creator without a check, and nobody removes it.
RemoveCommandCreator(c) ==
    /\ creators_mutex = Nobody /\ c # DefaultAttack
    /\ command_creators' = [command_creators EXCEPT ![c] = Nobody]
    /\ UNCHANGED <<creators_mutex, gil, place, work, attacks, created, received,
                   handled>>

\* EnqueueCommandRequest
EnqueueCommandRequest(t, r) ==
    /\ place[t] = "idle" /\ r \notin received
    /\ received' = received \cup {r}
    /\ work' = [work EXCEPT ![t] = r]
    /\ Goto(t, "lock")
    /\ UNCHANGED <<command_creators, creators_mutex, gil, attacks, created, handled>>

\* CreateCommand takes creators_mutex_; without a creator the request is dropped.
\* The mutant gives the mutex back before it calls the creator.
CreateCommand_Unlocked(t) ==
    /\ place[t] = "lock" /\ creators_mutex = Nobody
    /\ IF command_creators[CommandOf[work[t]]] = Nobody
       THEN Finish(t) /\ handled' = handled \cup {work[t]}
       ELSE Goto(t, "creator") /\ UNCHANGED <<work, handled>>
    /\ UNCHANGED <<command_creators, creators_mutex, gil, attacks, created, received>>
CreateCommand(t) ==
    /\ place[t] = "lock" /\ creators_mutex = Nobody
    /\ IF command_creators[CommandOf[work[t]]] = Nobody
       THEN /\ Finish(t) /\ handled' = handled \cup {work[t]}
            /\ UNCHANGED creators_mutex
       ELSE /\ Goto(t, "creator") /\ creators_mutex' = t
            /\ UNCHANGED <<work, handled>>
    /\ UNCHANGED <<command_creators, gil, attacks, created, received>>

\* PythonCommandCreator: the interpreter lock, with creators_mutex_ held.
EnterCreator(t) ==
    /\ place[t] = "creator" /\ gil = Nobody
    /\ gil' = t
    /\ Goto(t, "creating")
    /\ UNCHANGED <<command_creators, creators_mutex, work, attacks, created, received,
                   handled>>

\* The creator returns a command, which is enqueued, or None or an error, and
\* then the request is dropped; both locks are given back.
\* The mutant keeps the interpreter lock when the creator fails.
LeaveCreator_KeepsLock(t) ==
    /\ place[t] = "creating"
    /\ creators_mutex' = Nobody
    /\ Finish(t)
    /\ \/ gil' = Nobody /\ created' = created \cup {work[t]} /\ UNCHANGED handled
       \/ handled' = handled \cup {work[t]} /\ UNCHANGED <<created, gil>>
    /\ UNCHANGED <<command_creators, attacks, received>>
LeaveCreator(t) ==
    /\ place[t] = "creating"
    /\ creators_mutex' = Nobody /\ gil' = Nobody
    /\ Finish(t)
    /\ \/ created' = created \cup {work[t]} /\ UNCHANGED handled
       \/ handled' = handled \cup {work[t]} /\ UNCHANGED created
    /\ UNCHANGED <<command_creators, attacks, received>>

-----------------------------------------------------------------------------
(* Run. *)

\* The queue hands the command to a thread (CommandQueue).
ProcessCommand(t, r) ==
    /\ place[t] = "idle" /\ r \in created
    /\ created' = created \ {r}
    /\ work' = [work EXCEPT ![t] = r]
    /\ Goto(t, "run")
    /\ UNCHANGED <<command_creators, creators_mutex, gil, attacks, received, handled>>

EnterRun(t) ==
    /\ place[t] = "run" /\ gil = Nobody
    /\ gil' = t
    /\ attacks' = [attacks EXCEPT ![t] = 0]
    /\ Goto(t, "running")
    /\ UNCHANGED <<command_creators, creators_mutex, work, created, received, handled>>

\* InitiateCombat: a default attack for the attacker, one for the target, each
\* only if it does not defend against the other yet.
InitiateCombat(t) ==
    /\ place[t] = "running" /\ CommandOf[work[t]] \in Combat /\ attacks[t] < 2
    /\ attacks' = [attacks EXCEPT ![t] = @ + 1]
    /\ Goto(t, "default_lock")
    /\ UNCHANGED <<command_creators, creators_mutex, gil, work, created, received,
                   handled>>

CreateDefaultAttack(t) ==
    /\ place[t] = "default_lock" /\ creators_mutex = Nobody
    /\ creators_mutex' = t
    /\ Goto(t, "default_creating")
    /\ UNCHANGED <<command_creators, gil, work, attacks, created, received, handled>>

SetDefaultAttack(t) ==
    /\ place[t] = "default_creating"
    /\ creators_mutex' = Nobody
    /\ Goto(t, "running")
    /\ UNCHANGED <<command_creators, gil, work, attacks, created, received, handled>>

\* The mutant does not release the interpreter lock.
LeaveRun_KeepsLock(t) ==
    /\ place[t] = "running"
    /\ handled' = handled \cup {work[t]}
    /\ Finish(t)
    /\ UNCHANGED <<command_creators, creators_mutex, gil, attacks, created, received>>
LeaveRun(t) ==
    /\ place[t] = "running"
    /\ gil' = Nobody
    /\ handled' = handled \cup {work[t]}
    /\ Finish(t)
    /\ UNCHANGED <<command_creators, creators_mutex, attacks, created, received>>

-----------------------------------------------------------------------------
InProgress(t) ==
    \/ CreateCommand(t) \/ EnterCreator(t) \/ LeaveCreator(t)
    \/ EnterRun(t) \/ InitiateCombat(t) \/ CreateDefaultAttack(t)
    \/ SetDefaultAttack(t) \/ LeaveRun(t)

Next ==
    \/ \E t \in Thread : \/ InProgress(t)
                         \/ \E r \in Request : \/ EnqueueCommandRequest(t, r)
                                               \/ ProcessCommand(t, r)
    \/ \E c \in Command : \/ RemoveCommandCreator(c)
                          \/ \E k \in Creator : AddCommandCreator(c, k)

Spec == Init /\ [][Next]_factoryVars

\* Threads run, whoever waits for a lock that is free again and again gets it,
\* and a created command's turn comes (CommandQueue).
Fairness ==
    /\ \A t \in Thread : SF_factoryVars(InProgress(t))
    /\ \A r \in Request : SF_factoryVars(\E t \in Thread : ProcessCommand(t, r))

FairSpec == Spec /\ Fairness

-----------------------------------------------------------------------------
(* Properties. *)

\* The command whose creator a thread is in, holding a reference into the map.
InCreatorOf(t) ==
    CASE place[t] \in {"creator", "creating"} -> {CommandOf[work[t]]}
      [] place[t] = "default_creating" -> {DefaultAttack}
      [] OTHER -> {}

\* The creator CreateCommand calls is not removed under it: RemoveCommandCreator
\* would leave it with a reference to an erased entry.
CreatorInUseStays ==
    \A t \in Thread : \A c \in InCreatorOf(t) : command_creators[c] # Nobody

\* The two locks are held exactly by the threads whose place says so: no path of
\* CreateCommand, the creators or Run ends with a lock kept.
LocksAreAccountedFor ==
    \A t \in Thread :
        /\ creators_mutex = t <=> place[t] \in {"creator", "creating", "default_creating"}
        /\ gil = t <=>
              place[t] \in {"creating", "running", "default_lock", "default_creating"}

\* One thread holds creators_mutex_ and waits for the interpreter lock, another
\* holds that one and waits for creators_mutex_.
CircularWait ==
    \E t, u \in Thread :
        /\ place[t] = "creator" /\ creators_mutex = t
        /\ place[u] = "default_lock" /\ gil = u

\* "The command service is responsible for the handling of incoming command
\* requests": every request is run or refused in the end.
RequestIsHandled == \A r \in Request : (r \in received) ~> (r \in handled)

\* Nothing but the circular wait of the two locks keeps a request from that.
OnlyTheCycleBlocks ==
    \A r \in Request : (r \in received) ~> (r \in handled \/ CircularWait)
=============================================================================
