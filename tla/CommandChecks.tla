---------------------------- MODULE CommandChecks ----------------------------
(***************************************************************************)
(* Whether a command may run (pub14_core/command: CommandFilters,          *)
(* CommandValidator, CommandService, CommandQueueManager, CommandQueue;    *)
(* swganh/command: BaseSwgCommand, CommandProperties).  The filters test   *)
(* the actor and the target when a request comes in, and again when its    *)
(* command is processed, which for a queued command is later; a refusal is *)
(* answered with CommandQueueRemove.  Each filter reads the world at a     *)
(* moment of its own, and the world changes between them.                  *)
(*                                                                         *)
(* One player's requests.  Which of the waiting commands is processed and  *)
(* by whom is CommandQueue's subject, the creation of commands             *)
(* CommandCreation's.  A row is what the command table says of a request's *)
(* command: needs (an ability), ranged (a range greater than 0), group (not*)
(* 0), type (0 .. 2), queued, and the kind of target the request names.    *)
(***************************************************************************)
EXTENDS Naturals, Sequences

CONSTANTS
    Asked,      \* the player's requests
    Row,        \* what the command table and the request say of each
    State       \* the bits of a state bitmask

NoRequest == "none"

ASSUME ChecksAssumption ==
    /\ Row \in [Asked -> [needs : BOOLEAN, ranged : BOOLEAN, group : BOOLEAN, type : 0 .. 2,
                         queued : BOOLEAN, target : {"none", "tangible", "creature"}]]
    /\ NoRequest \notin Asked

VARIABLES
    mask,           \* each command's allow_in_state, which LoadCommandPropertiesMap leaves unassigned
    states, skilled, near, attackable,  \* of the actor and the target
    present,        \* the target is in the object map
    ready,          \* the player has a queue
    flow,           \* the queued command being processed, until its timer fires
    progress,       \* where each request is, and how many filters it has passed there
    held,           \* whose command holds its target_
    answers,        \* the CommandQueueRemoves sent for each request
    ran,            \* whose commands have run
    passed          \* history: the filters each has passed since processing began

worldVars == <<states, skilled, near, attackable, present>>
checksVars == <<worldVars, mask, ready, flow, progress, held, answers, ran, passed>>

Filters == <<"target", "posture", "state", "ability", "combat">>

\* The mutant's plugin registers four filters for processing.
ProcessFilters_NoRange == [Filters EXCEPT ![1] = "posture"]
ProcessFilters == Filters

ChecksInit ==
    /\ mask \in [Asked -> SUBSET State]
    /\ states = {} /\ skilled = FALSE /\ near = TRUE /\ attackable = TRUE /\ present = TRUE
    /\ ready = FALSE /\ flow = NoRequest
    /\ progress = [r \in Asked |-> [at |-> "new", filters |-> 0]]
    /\ held = {} /\ ran = {}
    /\ answers = [r \in Asked |-> <<>>] /\ passed = [r \in Asked |-> {}]

-----------------------------------------------------------------------------
(* The filters *)

\* GetTarget looks the target up until it finds it.
Finds(r) == r \in held \/ (Row[r].target # "none" /\ present)
ReadsTarget(f) == f \in {"target", "combat"}

\* The tests of posture are commented out.  CombatTargetCheckFilter asks whether the
\* target could attack itself.
Accepts(f, r) ==
    CASE f = "target" -> ~Finds(r) \/ ~Row[r].ranged \/ near
      [] f = "posture" -> TRUE
      [] f = "state" -> ~(mask[r] \subseteq states)
      [] f = "ability" -> ~Row[r].needs \/ skilled
      [] f = "combat" -> \/ ~Row[r].group \/ ~Finds(r)
                         \/ Row[r].target = "creature" /\ (Row[r].type < 2 \/ attackable)

Error(f) ==
    CASE f = "ability" -> 2 [] f = "combat" -> 3 [] f = "target" -> 4 [] f = "state" -> 5

\* GetLowestCommonBit stops after its first turn: the state has all of the mask.
Action(f, r) == IF f = "state" /\ mask[r] # {} THEN 1 ELSE 0

-----------------------------------------------------------------------------
(* The queue *)

At(r, place) == progress[r].at = place
Go(r, place) == progress' = [progress EXCEPT ![r] = [at |-> place, filters |-> 0]]
SendCommandQueueRemove(r, error, action) ==
    answers' = [answers EXCEPT ![r] = Append(@, [error |-> error, action |-> action])]

\* SubscribeObjectReadyEvent: AddQueue, which throws when there is a queue.
AddQueue ==
    /\ ~ready
    /\ ready' = TRUE
    /\ UNCHANGED <<worldVars, mask, flow, progress, held, answers, ran, passed>>

\* Without a queue the request is dropped, and nobody is told.
EnqueueCommand(r) ==
    /\ At(r, "new")
    /\ Go(r, IF ready THEN "enqueue" ELSE "dropped")
    /\ UNCHANGED <<worldVars, mask, ready, flow, held, answers, ran, passed>>

\* ValidateCommand: one filter after the other, until one refuses.
ValidateCommand(r, filters, next) ==
    LET f == filters[progress[r].filters + 1] IN
    /\ held' = IF ReadsTarget(f) /\ Finds(r) THEN held \cup {r} ELSE held
    /\ IF ~Accepts(f, r)
       THEN /\ Go(r, "done") /\ SendCommandQueueRemove(r, Error(f), Action(f, r))
            /\ UNCHANGED passed
       ELSE /\ IF progress[r].filters + 1 = Len(filters) THEN Go(r, next)
               ELSE progress' = [progress EXCEPT ![r].filters = @ + 1]
            /\ passed' = [passed EXCEPT ![r] = IF At(r, "process") THEN @ \cup {f} ELSE @]
            /\ UNCHANGED answers
    /\ UNCHANGED <<worldVars, mask, ready, flow, ran>>

ValidateForEnqueue(r) ==
    /\ At(r, "enqueue")
    /\ ValidateCommand(r, Filters, IF Row[r].queued THEN "waiting" ELSE "process")
ValidateForProcessing(r) == At(r, "process") /\ ValidateCommand(r, ProcessFilters, "run")

\* GetNextCommand, and the timer that lets the next one be taken.
GetNextCommand(r) ==
    /\ At(r, "waiting") /\ flow = NoRequest
    /\ flow' = r /\ Go(r, "process")
    /\ UNCHANGED <<worldVars, mask, ready, held, answers, ran, passed>>
TimerFires(r) ==
    /\ flow = r /\ At(r, "done")
    /\ flow' = NoRequest
    /\ UNCHANGED <<worldVars, mask, ready, progress, held, answers, ran, passed>>

\* ProcessCommand after the filters: the script's Validate refuses with action 1, or Run
\* returns, or it throws and nobody is told.
RunCommand(r) ==
    /\ At(r, "run") /\ Go(r, "done")
    /\ \/ SendCommandQueueRemove(r, 0, 1) /\ UNCHANGED ran
       \/ ran' = ran \cup {r} /\ (SendCommandQueueRemove(r, 0, 0) \/ UNCHANGED answers)
    /\ UNCHANGED <<worldVars, mask, ready, flow, held, passed>>

\* What other commands, moves and logins change in the meantime.
World ==
    /\ \/ \E s \in State : states' = (states \ {s}) \cup ({s} \ states)
          /\ UNCHANGED <<skilled, near, attackable, present>>
       \/ skilled' = ~skilled /\ UNCHANGED <<states, near, attackable, present>>
       \/ near' = ~near /\ UNCHANGED <<states, skilled, attackable, present>>
       \/ attackable' = ~attackable /\ UNCHANGED <<states, skilled, near, present>>
       \/ present' = ~present /\ UNCHANGED <<states, skilled, near, attackable>>
    /\ UNCHANGED <<mask, ready, flow, progress, held, answers, ran, passed>>

ChecksNext ==
    \/ AddQueue \/ World
    \/ \E r \in Asked : \/ EnqueueCommand(r) \/ ValidateForEnqueue(r)
                        \/ GetNextCommand(r) \/ ValidateForProcessing(r)
                        \/ RunCommand(r) \/ TimerFires(r)

ChecksSpec == ChecksInit /\ [][ChecksNext]_checksVars

-----------------------------------------------------------------------------
(* Properties *)

\* However long a command waits and whatever changes meanwhile, it runs only after each
\* filter has accepted it since its turn came; the player has at most one answer, which
\* says 0 and 0 only of a command that ran, and says nothing of one only when it threw,
\* is under way, or came before there was a queue.
AnswersAreTrue ==
    \A r \in Asked :
        /\ Len(answers[r]) <= 1
        /\ r \in ran => /\ passed[r] = {"target", "posture", "state", "ability", "combat"}
                        /\ answers[r] \in {<<>>, <<[error |-> 0, action |-> 0]>>}
        /\ r \notin ran => answers[r] # <<[error |-> 0, action |-> 0]>>
        /\ At(r, "done") /\ r \notin ran => answers[r] # <<>>
=============================================================================
