------------------------- MODULE CommandCreationProofs -------------------------
(***************************************************************************)
(* The locks of command creation, for any threads, requests and creators;  *)
(* and the filters of commands, for any requests, whatever the command     *)
(* table says of them and however the world changes between two filters.   *)
(***************************************************************************)
EXTENDS CommandCreation, CommandChecks, TLAPS

\* A request in hand is in one thread's hands, not in a queue and not done with.
WorkInv ==
    /\ \A t \in Thread : place[t] # "idle" => work[t] \in received \ (created \cup handled)
    /\ \A t, u \in Thread :
          place[t] # "idle" /\ place[u] # "idle" /\ t # u => work[t] # work[u]

CreationInv == FactoryTypeOK /\ WorkInv

\* Every variable stays in its type: in particular no request is handled twice or
\* handled while its command still waits.
THEOREM CreationTypeCorrect == Spec => []FactoryTypeOK
<1> USE CreationAssumption
<1>1. Init => CreationInv
  BY DEF Init, CreationInv, FactoryTypeOK, WorkInv, Place
<1>2. CreationInv /\ [Next]_factoryVars => CreationInv'
  <2> SUFFICES ASSUME CreationInv, [Next]_factoryVars PROVE CreationInv'
    OBVIOUS
  <2> USE DEF CreationInv, FactoryTypeOK, WorkInv, Place, Goto, Finish
  <2>1. ASSUME NEW t \in Thread, CreateCommand(t) PROVE CreationInv'
    BY <2>1 DEF CreateCommand
  <2>2. ASSUME NEW t \in Thread, EnterCreator(t) PROVE CreationInv'
    BY <2>2 DEF EnterCreator
  <2>3. ASSUME NEW t \in Thread, LeaveCreator(t) PROVE CreationInv'
    BY <2>3 DEF LeaveCreator
  <2>4. ASSUME NEW t \in Thread, EnterRun(t) PROVE CreationInv'
    BY <2>4 DEF EnterRun
  <2>5. ASSUME NEW t \in Thread, InitiateCombat(t) PROVE CreationInv'
    BY <2>5 DEF InitiateCombat
  <2>6. ASSUME NEW t \in Thread, CreateDefaultAttack(t) PROVE CreationInv'
    BY <2>6 DEF CreateDefaultAttack
  <2>7. ASSUME NEW t \in Thread, SetDefaultAttack(t) PROVE CreationInv'
    BY <2>7 DEF SetDefaultAttack
  <2>8. ASSUME NEW t \in Thread, LeaveRun(t) PROVE CreationInv'
    BY <2>8 DEF LeaveRun
  <2>9. ASSUME NEW t \in Thread, NEW r \in Request, EnqueueCommandRequest(t, r)
        PROVE CreationInv'
    BY <2>9 DEF EnqueueCommandRequest
  <2>10. ASSUME NEW t \in Thread, NEW r \in Request, ProcessCommand(t, r)
         PROVE CreationInv'
    BY <2>10 DEF ProcessCommand
  <2>11. ASSUME NEW c \in Command, RemoveCommandCreator(c) PROVE CreationInv'
    BY <2>11 DEF RemoveCommandCreator
  <2>12. ASSUME NEW c \in Command, NEW k \in Creator, AddCommandCreator(c, k)
         PROVE CreationInv'
    BY <2>12 DEF AddCommandCreator
  <2>13. CASE UNCHANGED factoryVars
    BY <2>13 DEF factoryVars
  <2> QED
    BY <2>1, <2>2, <2>3, <2>4, <2>5, <2>6, <2>7, <2>8, <2>9, <2>10, <2>11, <2>12,
       <2>13 DEF Next, InProgress
<1>3. CreationInv => FactoryTypeOK
  BY DEF CreationInv
<1> QED
  BY <1>1, <1>2, <1>3, PTL DEF Spec

\* A thread holds a lock exactly where its place in the code says so: no path of
\* CreateCommand, of a creator or of Run ends with a lock kept.
THEOREM LocksCorrect == Spec => []LocksAreAccountedFor
<1> USE CreationAssumption
<1>1. Init => LocksAreAccountedFor
  BY DEF Init, LocksAreAccountedFor
<1>2. FactoryTypeOK /\ LocksAreAccountedFor /\ [Next]_factoryVars
        => LocksAreAccountedFor'
  <2> SUFFICES ASSUME FactoryTypeOK, LocksAreAccountedFor, [Next]_factoryVars
               PROVE LocksAreAccountedFor'
    OBVIOUS
  <2> USE DEF LocksAreAccountedFor, FactoryTypeOK, Goto, Finish
  <2>1. ASSUME NEW t \in Thread, CreateCommand(t) PROVE LocksAreAccountedFor'
    BY <2>1 DEF CreateCommand
  <2>2. ASSUME NEW t \in Thread, EnterCreator(t) PROVE LocksAreAccountedFor'
    BY <2>2 DEF EnterCreator
  <2>3. ASSUME NEW t \in Thread, LeaveCreator(t) PROVE LocksAreAccountedFor'
    BY <2>3 DEF LeaveCreator
  <2>4. ASSUME NEW t \in Thread, EnterRun(t) PROVE LocksAreAccountedFor'
    BY <2>4 DEF EnterRun
  <2>5. ASSUME NEW t \in Thread, InitiateCombat(t) PROVE LocksAreAccountedFor'
    BY <2>5 DEF InitiateCombat
  <2>6. ASSUME NEW t \in Thread, CreateDefaultAttack(t) PROVE LocksAreAccountedFor'
    BY <2>6 DEF CreateDefaultAttack
  <2>7. ASSUME NEW t \in Thread, SetDefaultAttack(t) PROVE LocksAreAccountedFor'
    BY <2>7 DEF SetDefaultAttack
  <2>8. ASSUME NEW t \in Thread, LeaveRun(t) PROVE LocksAreAccountedFor'
    BY <2>8 DEF LeaveRun
  <2>9. ASSUME NEW t \in Thread, NEW r \in Request,
               EnqueueCommandRequest(t, r) \/ ProcessCommand(t, r)
        PROVE LocksAreAccountedFor'
    BY <2>9 DEF EnqueueCommandRequest, ProcessCommand
  <2>10. ASSUME NEW c \in Command, NEW k \in Creator,
                RemoveCommandCreator(c) \/ AddCommandCreator(c, k)
         PROVE LocksAreAccountedFor'
    BY <2>10 DEF RemoveCommandCreator, AddCommandCreator
  <2>11. CASE UNCHANGED factoryVars
    BY <2>11 DEF factoryVars
  <2> QED
    BY <2>1, <2>2, <2>3, <2>4, <2>5, <2>6, <2>7, <2>8, <2>9, <2>10, <2>11
       DEF Next, InProgress
<1> QED
  BY <1>1, <1>2, CreationTypeCorrect, PTL DEF Spec

-----------------------------------------------------------------------------
\* A thread at work has a request, and the default attack always has its creator.
CreatorInv ==
    /\ \A t \in Thread : place[t] # "idle" => work[t] \in Request
    /\ command_creators[DefaultAttack] # Nobody
    /\ CreatorInUseStays

\* The creator a thread is in is still registered: whoever removes one needs
\* creators_mutex_, and only its holder is in a creator (LocksCorrect).
THEOREM CreatorsCorrect == Spec => []CreatorInUseStays
<1> USE CreationAssumption
<1>1. Init => CreatorInv
  BY DEF Init, CreatorInv, CreatorInUseStays, InCreatorOf
<1>2. FactoryTypeOK /\ LocksAreAccountedFor /\ CreatorInv /\ [Next]_factoryVars
        => CreatorInv'
  <2> SUFFICES ASSUME FactoryTypeOK, LocksAreAccountedFor, CreatorInv,
                      [Next]_factoryVars
               PROVE CreatorInv'
    OBVIOUS
  <2> USE DEF CreatorInv, CreatorInUseStays, InCreatorOf, FactoryTypeOK, Goto, Finish
  <2>1. ASSUME NEW t \in Thread, CreateCommand(t) PROVE CreatorInv'
    BY <2>1 DEF CreateCommand
  <2>2. ASSUME NEW t \in Thread, EnterCreator(t) PROVE CreatorInv'
    BY <2>2 DEF EnterCreator
  <2>3. ASSUME NEW t \in Thread, LeaveCreator(t) PROVE CreatorInv'
    BY <2>3 DEF LeaveCreator
  <2>4. ASSUME NEW t \in Thread, EnterRun(t) PROVE CreatorInv'
    BY <2>4 DEF EnterRun
  <2>5. ASSUME NEW t \in Thread, InitiateCombat(t) PROVE CreatorInv'
    BY <2>5 DEF InitiateCombat
  <2>6. ASSUME NEW t \in Thread, CreateDefaultAttack(t) PROVE CreatorInv'
    BY <2>6 DEF CreateDefaultAttack
  <2>7. ASSUME NEW t \in Thread, SetDefaultAttack(t) PROVE CreatorInv'
    BY <2>7 DEF SetDefaultAttack
  <2>8. ASSUME NEW t \in Thread, LeaveRun(t) PROVE CreatorInv'
    BY <2>8 DEF LeaveRun
  <2>9. ASSUME NEW t \in Thread, NEW r \in Request,
               EnqueueCommandRequest(t, r) \/ ProcessCommand(t, r)
        PROVE CreatorInv'
    BY <2>9 DEF EnqueueCommandRequest, ProcessCommand
  <2>10. ASSUME NEW c \in Command, NEW k \in Creator,
                RemoveCommandCreator(c) \/ AddCommandCreator(c, k)
         PROVE CreatorInv'
    <3>1. \A t \in Thread :
             place[t] \notin {"creator", "creating", "default_creating"}
      BY <2>10 DEF RemoveCommandCreator, AddCommandCreator, LocksAreAccountedFor
    <3>2. UNCHANGED <<place, work>>
      BY <2>10 DEF RemoveCommandCreator, AddCommandCreator
    <3>3. CreatorInUseStays'
      BY <3>1, <3>2
    <3>4. command_creators'[DefaultAttack] # Nobody
      BY <2>10 DEF RemoveCommandCreator, AddCommandCreator
    <3> QED
      BY <3>2, <3>3, <3>4
  <2>11. CASE UNCHANGED factoryVars
    BY <2>11 DEF factoryVars
  <2> QED
    BY <2>1, <2>2, <2>3, <2>4, <2>5, <2>6, <2>7, <2>8, <2>9, <2>10, <2>11
       DEF Next, InProgress
<1>3. CreatorInv => CreatorInUseStays
  BY DEF CreatorInv
<1> QED
  BY <1>1, <1>2, <1>3, CreationTypeCorrect, LocksCorrect, PTL DEF Spec
-----------------------------------------------------------------------------
(* The filters of commands *)

FilterNames == {"target", "posture", "state", "ability", "combat"}
Places == {"new", "enqueue", "dropped", "waiting", "process", "run", "done"}
Answer == [error : Nat, action : Nat]

ChecksTypeOK ==
    /\ progress \in [Asked -> [at : Places, filters : 0 .. 4]]
    /\ answers \in [Asked -> Seq(Answer)]
    /\ passed \in [Asked -> SUBSET FilterNames]
    /\ ran \subseteq Asked

\* Until a request is done with nobody has been told anything and nothing has run; what
\* it has passed are the filters before the one it is at, and all of them once the
\* last has accepted it.
ChecksInv ==
    \A r \in Asked :
        /\ progress[r].at # "done" => answers[r] = <<>> /\ r \notin ran
        /\ progress[r].at \in {"new", "enqueue", "waiting"} => passed[r] = {}
        /\ progress[r].at = "process" => passed[r] = {Filters[i] : i \in 1 .. progress[r].filters}
        /\ progress[r].at = "run" => passed[r] = FilterNames

\* AnswersAreTrue, with its constants named.
Accepted == <<[error |-> 0, action |-> 0]>>
Told ==
    \A r \in Asked :
        /\ Len(answers[r]) <= 1
        /\ r \in ran => passed[r] = FilterNames /\ answers[r] \in {<<>>, Accepted}
        /\ r \notin ran => answers[r] # Accepted
        /\ progress[r].at = "done" /\ r \notin ran => answers[r] # <<>>

LEMMA FiveFilters ==
    /\ Filters \in Seq(FilterNames) /\ Len(Filters) = 5
    /\ \A n \in 0 .. 4 : {Filters[i] : i \in 1 .. n + 1} = {Filters[i] : i \in 1 .. n} \cup {Filters[n + 1]}
    /\ {Filters[i] : i \in 1 .. 4 + 1} = FilterNames
<1>1. /\ Filters \in Seq(FilterNames) /\ Len(Filters) = 5
      /\ Filters[1] = "target" /\ Filters[2] = "posture" /\ Filters[3] = "state"
      /\ Filters[4] = "ability" /\ Filters[5] = "combat"
  BY DEF Filters, FilterNames
<1>2. ASSUME NEW n \in 0 .. 4
      PROVE  {Filters[i] : i \in 1 .. n + 1} = {Filters[i] : i \in 1 .. n} \cup {Filters[n + 1]}
  <2>1. 1 .. n + 1 = (1 .. n) \cup {n + 1}
    OBVIOUS
  <2> QED
    BY <2>1
<1>3. 1 .. 4 + 1 = {1, 2, 3, 4, 5}
  OBVIOUS
<1> QED
  BY <1>1, <1>2, <1>3 DEF FilterNames

\* A refusal never reads as an acceptance: no filter that can refuse has the code 0.
LEMMA RefusalsHaveCodes ==
    ASSUME NEW r \in Asked, NEW f \in FilterNames, ~Accepts(f, r)
    PROVE  Error(f) \in 2 .. 5 /\ Action(f, r) \in {0, 1}
<1>1. f # "posture"
  BY DEF Accepts
<1>2. f \in {"target", "state", "ability", "combat"}
  BY <1>1 DEF FilterNames
<1>3. Error(f) \in 2 .. 5
  BY <1>2 DEF Error
<1> QED
  BY <1>3 DEF Action

LEMMA OneAnswer ==
    ASSUME NEW e \in Nat, NEW a \in Nat
    PROVE  LET s == <<[error |-> e, action |-> a]>> IN
           /\ s \in Seq(Answer) /\ Len(s) = 1 /\ s # <<>>
           /\ s = Accepted <=> e = 0 /\ a = 0
<1> DEFINE x == [error |-> e, action |-> a]
<1>1. x \in Answer
  BY DEF Answer
<1>2. x = [error |-> 0, action |-> 0] <=> e = 0 /\ a = 0
  <2>1. x.error = e /\ x.action = a
    OBVIOUS
  <2> QED
    BY <2>1
<1> HIDE DEF x
<1>3. <<x>> \in Seq(Answer) /\ Len(<<x>>) = 1 /\ <<x>> # <<>> /\ <<x>>[1] = x
  BY <1>1
<1>4. <<x>> = <<[error |-> 0, action |-> 0]>> <=> x = [error |-> 0, action |-> 0]
  BY <1>3
<1> QED
  BY <1>2, <1>3, <1>4 DEF x, Accepted

\* A request is done with: it is answered a, or not at all, and has run or not.
LEMMA Ending ==
    ASSUME ChecksTypeOK, ChecksInv, Told, NEW r \in Asked, NEW a \in Seq(Answer),
           progress' = [progress EXCEPT ![r] = [at |-> "done", filters |-> 0]],
           answers' = [answers EXCEPT ![r] = a], passed' = passed,
           r \notin ran, Len(a) <= 1,
           \/ ran' = ran \cup {r} /\ passed[r] = FilterNames /\ a \in {<<>>, Accepted}
           \/ ran' = ran /\ a \notin {<<>>, Accepted}
    PROVE  (ChecksTypeOK /\ ChecksInv /\ Told)'
<1>1. /\ progress'[r] = [at |-> "done", filters |-> 0] /\ answers'[r] = a
      /\ \A q \in Asked \ {r} : progress'[q] = progress[q] /\ answers'[q] = answers[q]
      /\ \A q \in Asked \ {r} : q \in ran' <=> q \in ran
      /\ r \in ran' => passed[r] = FilterNames /\ a \in {<<>>, Accepted}
      /\ r \notin ran' => a \notin {<<>>, Accepted}
  BY DEF ChecksTypeOK
<1>2. ChecksTypeOK'
  <2>1. [at |-> "done", filters |-> 0] \in [at : Places, filters : 0 .. 4]
    BY DEF Places
  <2>2. progress' \in [Asked -> [at : Places, filters : 0 .. 4]]
    BY <2>1 DEF ChecksTypeOK
  <2>3. answers' \in [Asked -> Seq(Answer)] /\ ran' \subseteq Asked
    BY DEF ChecksTypeOK
  <2> QED
    BY <2>2, <2>3 DEF ChecksTypeOK
<1>3. ChecksInv'
  BY <1>1 DEF ChecksInv
<1>4. Told'
  BY <1>1 DEF Told
<1> QED
  BY <1>2, <1>3, <1>4

\* One filter, when the request comes in or when it is processed.
LEMMA OneFilter ==
    ASSUME ChecksAssumption, ChecksTypeOK, ChecksInv, Told, NEW r \in Asked,
           NEW stage \in {"enqueue", "process"}, NEW next \in {"waiting", "process", "run"},
           At(r, stage), stage = "enqueue" <=> next # "run",
           ValidateCommand(r, Filters, next)
    PROVE  (ChecksTypeOK /\ ChecksInv /\ Told)'
<1> DEFINE f == Filters[progress[r].filters + 1]
<1>1. /\ progress[r] \in [at : Places, filters : 0 .. 4] /\ progress[r].at = stage
      /\ answers[r] = <<>> /\ r \notin ran /\ ran' = ran
  BY DEF ChecksTypeOK, ChecksInv, At, ValidateCommand
<1>2. f \in FilterNames
  BY <1>1, FiveFilters
<1>3. CASE ~Accepts(f, r)
  <2> DEFINE told == <<[error |-> Error(f), action |-> Action(f, r)]>>
  <2>1. /\ progress' = [progress EXCEPT ![r] = [at |-> "done", filters |-> 0]]
        /\ answers' = [answers EXCEPT ![r] = told]
        /\ passed' = passed
    BY <1>1, <1>3 DEF ValidateCommand, Go, SendCommandQueueRemove, ChecksTypeOK
  <2>2. /\ told \in Seq(Answer) /\ Len(told) = 1 /\ told # <<>>
        /\ told # Accepted
    BY <1>2, <1>3, RefusalsHaveCodes, OneAnswer
  <2>3. ran' = ran /\ told \notin {<<>>, Accepted} /\ Len(told) <= 1
    BY <1>1, <2>2
  <2> HIDE DEF f, told
  <2> QED
    BY <1>1, <2>1, <2>2, <2>3, Ending
<1>4. CASE Accepts(f, r)
  <2>1. /\ answers' = answers
        /\ progress' = [progress EXCEPT ![r] =
                IF progress[r].filters = 4 THEN [at |-> next, filters |-> 0]
                ELSE [at |-> stage, filters |-> progress[r].filters + 1]]
        /\ passed' = [passed EXCEPT ![r] = IF stage = "process" THEN @ \cup {f} ELSE @]
    BY <1>1, <1>4, FiveFilters DEF ValidateCommand, Go, ChecksTypeOK, At
  <2>2. ChecksTypeOK'
    BY <1>1, <1>2, <2>1 DEF ChecksTypeOK, Places
  <2>3. ASSUME stage = "process"
        PROVE  passed'[r] = {Filters[i] : i \in 1 .. progress[r].filters + 1}
    BY <1>1, <2>1, <2>3, FiveFilters DEF ChecksInv, ChecksTypeOK
  <2>4. progress[r].filters = 4 /\ stage = "process" => passed'[r] = FilterNames
    BY <2>3, FiveFilters
  <2>5. stage = "enqueue" => passed'[r] = {}
    BY <1>1, <2>1 DEF ChecksInv, ChecksTypeOK
  <2> HIDE DEF f
  <2>6. ChecksInv'
    <3> SUFFICES ASSUME NEW q \in Asked
                 PROVE  /\ progress'[q].at # "done" => answers'[q] = <<>> /\ q \notin ran'
                        /\ progress'[q].at \in {"new", "enqueue", "waiting"} => passed'[q] = {}
                        /\ progress'[q].at = "process" =>
                                passed'[q] = {Filters[i] : i \in 1 .. progress'[q].filters}
                        /\ progress'[q].at = "run" => passed'[q] = FilterNames
      BY DEF ChecksInv
    <3>1. CASE q = r
      <4>1. {Filters[i] : i \in 1 .. 0} = {}
        OBVIOUS
      <4>2. CASE progress[r].filters = 4
        <5>1. progress'[r] = [at |-> next, filters |-> 0]
          BY <2>1, <4>2 DEF ChecksTypeOK
        <5> QED
          BY <1>1, <2>1, <2>4, <2>5, <3>1, <4>1, <4>2, <5>1
      <4>3. CASE progress[r].filters # 4
        <5>1. progress'[r] = [at |-> stage, filters |-> progress[r].filters + 1]
          BY <2>1, <4>3 DEF ChecksTypeOK
        <5> QED
          BY <1>1, <2>1, <2>3, <2>5, <3>1, <4>3, <5>1
      <4> QED
        BY <4>2, <4>3
    <3>2. CASE q # r
      BY <1>1, <2>1, <3>2 DEF ChecksInv, ChecksTypeOK
    <3> QED
      BY <3>1, <3>2
  <2>7. Told'
    BY <1>1, <2>1 DEF Told, ChecksTypeOK
  <2> QED
    BY <2>2, <2>6, <2>7
<1> QED
  BY <1>3, <1>4

\* A command that runs has passed every filter since its turn came, and its player is
\* told once, and the truth, however the world changes between the filters and for
\* however long the command waits.
THEOREM AnswersCorrect == ChecksSpec => []AnswersAreTrue
<1> USE ChecksAssumption
<1> DEFINE All == ChecksTypeOK /\ ChecksInv /\ Told
<1>1. ChecksInit => All
  <2> SUFFICES ASSUME ChecksInit PROVE All
    OBVIOUS
  <2>1. ChecksTypeOK
    BY DEF ChecksInit, ChecksTypeOK, Places
  <2>2. \A r \in Asked : progress[r].at = "new" /\ answers[r] = <<>> /\ r \notin ran /\ passed[r] = {}
    BY DEF ChecksInit
  <2>3. <<>> # Accepted
    BY OneAnswer
  <2> QED
    BY <2>1, <2>2, <2>3 DEF ChecksInv, Told
<1>2. All /\ [ChecksNext]_checksVars => All'
  <2> SUFFICES ASSUME All, [ChecksNext]_checksVars PROVE All'
    OBVIOUS
  <2>1. CASE AddQueue
    BY <2>1 DEF AddQueue, ChecksTypeOK, ChecksInv, Told, At
  <2>2. CASE World
    BY <2>2 DEF World, ChecksTypeOK, ChecksInv, Told, At
  <2>3. ASSUME NEW r \in Asked, EnqueueCommand(r) PROVE All'
    BY <2>3 DEF EnqueueCommand, Go, ChecksTypeOK, ChecksInv, Told, At, Places
  <2>4. ASSUME NEW r \in Asked, ValidateForEnqueue(r) PROVE All'
    BY <2>4, OneFilter DEF ValidateForEnqueue
  <2>5. ASSUME NEW r \in Asked, ValidateForProcessing(r) PROVE All'
    BY <2>5, OneFilter DEF ValidateForProcessing, ProcessFilters
  <2>6. ASSUME NEW r \in Asked, GetNextCommand(r) PROVE All'
    <3>1. {Filters[i] : i \in 1 .. 0} = {}
      OBVIOUS
    <3> QED
      BY <2>6, <3>1 DEF GetNextCommand, Go, ChecksTypeOK, ChecksInv, Told, At, Places
  <2>7. ASSUME NEW r \in Asked, TimerFires(r) PROVE All'
    BY <2>7 DEF TimerFires, ChecksTypeOK, ChecksInv, Told, At
  <2>8. ASSUME NEW r \in Asked, RunCommand(r) PROVE All'
    <3> USE <2>8 DEF RunCommand, Go, At
    <3>1. answers[r] = <<>> /\ r \notin ran /\ passed[r] = FilterNames
      BY DEF ChecksInv
    <3> DEFINE No == <<[error |-> 0, action |-> 1]>>
    <3>2. \/ answers' = [answers EXCEPT ![r] = No] /\ ran' = ran
          \/ answers' = [answers EXCEPT ![r] = Accepted] /\ ran' = ran \cup {r}
          \/ answers' = answers /\ ran' = ran \cup {r}
      BY <3>1 DEF SendCommandQueueRemove, ChecksTypeOK, Accepted
    <3>3. /\ No \in Seq(Answer) /\ Len(No) = 1 /\ No # <<>> /\ No # Accepted
          /\ Accepted \in Seq(Answer) /\ Len(Accepted) = 1
      BY OneAnswer DEF Accepted
    <3> HIDE DEF No
    <3>4. passed' = passed /\ progress' = [progress EXCEPT ![r] = [at |-> "done", filters |-> 0]]
      OBVIOUS
    <3>5. PICK a \in {<<>>, No, Accepted} :
            /\ answers' = [answers EXCEPT ![r] = a]
            /\ \/ ran' = ran \cup {r} /\ a \in {<<>>, Accepted}
               \/ ran' = ran /\ a = No
      <4>1. answers = [answers EXCEPT ![r] = <<>>]
        BY <3>1 DEF ChecksTypeOK
      <4> QED
        BY <3>2, <4>1
    <3>6. <<>> \in Seq(Answer) /\ Len(<<>>) = 0
      OBVIOUS
    <3>7. /\ a \in Seq(Answer) /\ Len(a) <= 1
          /\ \/ ran' = ran \cup {r} /\ passed[r] = FilterNames /\ a \in {<<>>, Accepted}
             \/ ran' = ran /\ a \notin {<<>>, Accepted}
      <4>1. CASE a = <<>>
        BY <3>1, <3>3, <3>5, <3>6, <4>1
      <4>2. CASE a = No
        BY <3>1, <3>3, <3>5, <4>2
      <4>3. CASE a = Accepted
        <5>1. a \in Seq(Answer) /\ Len(a) <= 1
          <6>1. a \in Seq(Answer) /\ Len(a) = 1
            BY <3>3, <4>3, Zenon
          <6> QED
            BY <6>1, SMT
        <5>2. a # No /\ a \in {<<>>, Accepted}
          BY <3>3, <4>3, Zenon
        <5>3. ran' = ran \cup {r} /\ passed[r] = FilterNames
          BY <3>1, <3>5, <5>2, Zenon
        <5> QED
          BY <5>1, <5>2, <5>3
      <4> QED
        BY <4>1, <4>2, <4>3
    <3> QED
      BY <3>1, <3>4, <3>5, <3>7, Ending
  <2>9. CASE UNCHANGED checksVars
    BY <2>9 DEF checksVars, ChecksTypeOK, ChecksInv, Told, At
  <2> QED
    BY <2>1, <2>2, <2>3, <2>4, <2>5, <2>6, <2>7, <2>8, <2>9 DEF ChecksNext
<1>3. All => AnswersAreTrue
  BY DEF Told, AnswersAreTrue, At, Accepted, FilterNames
<1> QED
  BY <1>1, <1>2, <1>3, PTL DEF ChecksSpec
=============================================================================
