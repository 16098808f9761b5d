------------------------------- MODULE Combat -------------------------------
(***************************************************************************)
(* Duels, attacks, incapacitation and death: CombatService, the creature's *)
(* and tangible's lists it works on, the duel, endduel, deathblow, peace   *)
(* and posture scripts, and the default commands kept by                   *)
(* CommandQueueManager.                                                    *)
(*                                                                         *)
(* Every command runs under the interpreter lock, which a script may lose  *)
(* between two of its calls: the duel and the death blow have a step for   *)
(* what they test and one for what they do then.  The recovery from an     *)
(* incapacitation runs on the pool's threads, without that lock.           *)
(*                                                                         *)
(* Left out: the range, the filters (a command they refuse does nothing),  *)
(* messages, target_id and auto_attack_, which none of this reads to       *)
(* decide, and the pools ACTION and MIND, which nothing ever changes.      *)
(***************************************************************************)
EXTENDS Integers, Sequences, FiniteSets, SequencesExt

CONSTANTS Creatures, MaxHealth, MaxCommands   \* MaxCommands bounds the commands run

ASSUME CombatAssumption == MaxHealth \in Nat /\ MaxCommands \in Nat

None == "none"
Postures == {"upright", "prone", "incapacitated", "dead"}
States == {"COMBAT", "PEACE"}

VARIABLES
    posture, states, health,   \* Creature: posture_, state_bitmask_, the HEALTH pool
    pvp,                       \* pvp_status_
    duel,                      \* duel_list_
    defenders,                 \* Tangible: defender_list_
    queues,                    \* queue_map_: creatures with a command queue
    default,                   \* the queue's default_command_: whom it attacks
    script,                    \* what a creature's script has tested and is about to do
    timers, rising,            \* recoveries pending, and past their test of IsDead
    up,                        \* the server has not stopped
    commands,                  \* commands run, for the bound
    crossed,                   \* creatures of a duel that ended while a script started it
    mangled                    \* creatures of whose defenders an absent one was removed

fighters == <<posture, states, health>>
duels == <<pvp, duel, crossed>>
lists == <<defenders, mangled, up>>
waiting == <<timers, rising>>
vars == <<fighters, duels, lists, waiting, queues, default, script, commands>>

Idle == [does |-> "nothing"]
Fallen(c) == posture[c] \in {"incapacitated", "dead"}
Mutual(a, b) == b \in duel[a] /\ a \in duel[b]

\* A player's status is Player until a duel starts, so CanAttack asks only whether
\* the other is Attackable.
CanAttack(b) == pvp[b] = "Attackable"

Init ==
    /\ posture = [c \in Creatures |-> "upright"] /\ states = [c \in Creatures |-> {}]
    /\ health = [c \in Creatures |-> MaxHealth]
    /\ pvp = [c \in Creatures |-> "Player"] /\ duel = [c \in Creatures |-> {}] /\ crossed = {}
    /\ defenders = [c \in Creatures |-> <<>>] /\ mangled = {} /\ up = TRUE
    /\ timers = [c \in Creatures |-> 0] /\ rising = [c \in Creatures |-> 0]
    /\ queues = {} /\ default = [c \in Creatures |-> None]
    /\ script = [c \in Creatures |-> Idle] /\ commands = 0

-----------------------------------------------------------------------------
(* CommandQueueManager *)

\* ObjectReadyEvent: AddQueue throws for a creature that has a queue already.
AddQueue(c) ==
    /\ up /\ c \notin queues
    /\ queues' = queues \cup {c}
    /\ UNCHANGED <<fighters, duels, lists, waiting, default, script, commands>>

\* A command for an object without a queue is dropped.
SetDefault(map, c, target) == IF c \in queues THEN [map EXCEPT ![c] = target] ELSE map
ClearDefault(map, c) == [map EXCEPT ![c] = None]

\* Of the commands in a creature's queue one runs at a time.
Command(c) ==
    /\ up /\ c \in queues /\ script[c] = Idle
    /\ commands < MaxCommands /\ commands' = commands + 1

-----------------------------------------------------------------------------
(* Tangible::AddDefender and RemoveDefender *)

Added(list, d) == IF Contains(list, d) THEN list ELSE Append(list, d)

\* RemoveDefender returns when it finds the defender, and removes end() when it does
\* not: the build may stop there, or drop the vector's last entry; with an empty
\* vector it stops.  Each pair <<c, d>> removes d from c's list.
RemoveDefenders(pairs) ==
    LET lost == {p \in pairs : ~Contains(defenders[p[1]], p[2])}
    IN IF lost = {} THEN UNCHANGED lists
       ELSE \/ up' = FALSE /\ UNCHANGED <<defenders, mangled>>
            \/ /\ \A p \in lost : defenders[p[1]] # <<>>
               /\ defenders' = [c \in Creatures |->
                    IF \E p \in lost : p[1] = c THEN Front(defenders[c]) ELSE defenders[c]]
               /\ mangled' = mangled \cup {p[1] : p \in lost}
               /\ UNCHANGED up

-----------------------------------------------------------------------------
(* Duels *)

\* duel.py: the challenge, or its answer, which goes on to start the duel.
Duel(a, b) ==
    /\ Command(a)
    /\ duel' = [duel EXCEPT ![a] = @ \cup {b}]
    /\ script' = [script EXCEPT ![a] = IF a \in duel[b] THEN [does |-> "start", with |-> b] ELSE Idle]
    /\ UNCHANGED <<fighters, pvp, crossed, lists, waiting, queues, default>>

StartDuel(a) ==
    /\ up /\ script[a].does = "start"
    /\ LET b == script[a].with
       IN /\ pvp' = [pvp EXCEPT ![a] = "Attackable", ![b] = "Attackable"]
          /\ crossed' = IF Mutual(a, b) THEN crossed ELSE crossed \cup {a, b}
    /\ script' = [script EXCEPT ![a] = Idle]
    /\ UNCHANGED <<fighters, duel, lists, waiting, queues, default, commands>>

\* What CombatService::EndDuel does to the states, lists and statuses of the two.
\* The mutant leaves the target's status as it is.
Undueled_OneStatus(a, b) ==
    /\ duel' = [duel EXCEPT ![a] = @ \ {b}, ![b] = @ \ {a}]
    /\ pvp' = [pvp EXCEPT ![a] = "Player"]
    /\ crossed' = crossed \ {a, b}
Undueled(a, b) ==
    /\ duel' = [duel EXCEPT ![a] = @ \ {b}, ![b] = @ \ {a}]
    /\ pvp' = [pvp EXCEPT ![a] = "Player", ![b] = "Player"]
    /\ crossed' = crossed \ {a, b}
OutOfCombat(map, who) == [c \in Creatures |-> IF c \in who THEN map[c] \ {"COMBAT"} ELSE map[c]]

\* endduel.py, which also withdraws a challenge nobody has answered.
EndDuel(a, b) ==
    /\ Command(a)
    /\ IF b \in duel[a]
       THEN /\ Undueled(a, b)
            /\ states' = OutOfCombat(states, {a, b})
            /\ RemoveDefenders({<<a, b>>, <<b, a>>})
       ELSE UNCHANGED <<duels, states, lists>>
    /\ UNCHANGED <<posture, health, waiting, queues, default, script>>

-----------------------------------------------------------------------------
(* Attacks *)

\* InitiateCombat: it asks neither whether the attacker has fallen nor whether it is
\* at peace.
MayFight(a, b) == ~Fallen(b) /\ CanAttack(b)
Fighting(a, b) ==
    [c \in Creatures |-> IF c \in {a, b} THEN (states[c] \cup {"COMBAT"}) \ {"PEACE"} ELSE states[c]]

\* The default attacks of the two that were not each other's defenders yet.
Armed(a, b) ==
    LET attacker == IF Contains(defenders[a], b) THEN default ELSE SetDefault(default, a, b)
    IN IF Contains(defenders[b], a) THEN attacker ELSE SetDefault(attacker, b, a)
\* The mutant adds only the attacker's defender.
Engage_OneSide(a, b) ==
    /\ defenders' = [defenders EXCEPT ![a] = Added(@, b)]
    /\ UNCHANGED <<mangled, up>>
Engage(a, b) ==
    /\ defenders' = [defenders EXCEPT ![a] = Added(@, b), ![b] = Added(@, a)]
    /\ UNCHANGED <<mangled, up>>

Misses(a, b) ==
    /\ states' = Fighting(a, b) /\ default' = Armed(a, b)
    /\ UNCHANGED <<posture, health, duels, timers>>

\* ApplyDamage deducts from HEALTH whichever pool it has tested.
Wounds(a, b) ==
    /\ states' = Fighting(a, b) /\ default' = Armed(a, b)
    /\ \E damage \in 1 .. MaxHealth :
         health' = [health EXCEPT ![b] = IF @ > damage THEN @ - damage ELSE 0]
    /\ UNCHANGED <<posture, duels, timers>>

\* EndCombat with its EndDuel: only a duel ends the victim's combat too.  Both are in
\* each other's defenders here, so that RemoveDefender returns.
EndCombat(a, b) ==
    /\ default' = ClearDefault(ClearDefault(Armed(a, b), b), a)
    /\ IF b \in duel[a]
       THEN Undueled(a, b) /\ states' = OutOfCombat(Fighting(a, b), {a, b})
       ELSE UNCHANGED duels /\ states' = OutOfCombat(Fighting(a, b), {a})

\* SetIncapacitated.
\* The mutant starts no recovery.
Incapacitates_NoTimer(a, b) ==
    /\ posture' = [posture EXCEPT ![b] = "incapacitated"]
    /\ EndCombat(a, b)
    /\ UNCHANGED <<health, timers>>
Incapacitates(a, b) ==
    /\ posture' = [posture EXCEPT ![b] = "incapacitated"]
    /\ EndCombat(a, b)
    /\ timers' = [timers EXCEPT ![b] = @ + 1]
    /\ UNCHANGED health

\* A miss or a counter (which falls through to it) ends it; the multipliers of BLOCK
\* and DODGE reach nothing.
SingleTargetCombatAction(a, b) == Misses(a, b) \/ Wounds(a, b) \/ Incapacitates(a, b)

\* SendCombatAction, for a command of the player's or the default one.
SendCombatAction(a, b) ==
    /\ MayFight(a, b)
    /\ Engage(a, b)
    /\ SingleTargetCombatAction(a, b)
    /\ UNCHANGED <<rising, queues, script>>

Attack(a, b) == Command(a) /\ SendCombatAction(a, b)
DefaultAttack(a, b) == default[a] = b /\ Command(a) /\ SendCombatAction(a, b)

-----------------------------------------------------------------------------
(* Recovery and the scripts that set postures *)

\* The timer's callback tests IsDead and then sets the posture.
\* The mutant leaves the test out.
RecoveryTests_Untested(c) ==
    /\ up /\ timers[c] > 0
    /\ timers' = [timers EXCEPT ![c] = @ - 1]
    /\ rising' = [rising EXCEPT ![c] = @ + 1]
    /\ UNCHANGED <<fighters, duels, lists, queues, default, script, commands>>
RecoveryTests(c) ==
    /\ up /\ timers[c] > 0
    /\ timers' = [timers EXCEPT ![c] = @ - 1]
    /\ rising' = IF posture[c] = "dead" THEN rising ELSE [rising EXCEPT ![c] = @ + 1]
    /\ UNCHANGED <<fighters, duels, lists, queues, default, script, commands>>

\* The mutant resets the timer shown and forgets the posture.
RecoveryStands_NoPosture(c) ==
    /\ up /\ rising[c] > 0
    /\ rising' = [rising EXCEPT ![c] = @ - 1]
    /\ UNCHANGED <<fighters, duels, lists, timers, queues, default, script, commands>>
RecoveryStands(c) ==
    /\ up /\ rising[c] > 0
    /\ rising' = [rising EXCEPT ![c] = @ - 1]
    /\ posture' = [posture EXCEPT ![c] = "upright"]
    /\ UNCHANGED <<states, health, duels, lists, timers, queues, default, script, commands>>

\* stand.py, prone.py and the like ask nothing of the posture they replace.
SetPosture(c) ==
    /\ Command(c)
    /\ \E p \in {"upright", "prone"} : posture' = [posture EXCEPT ![c] = p]
    /\ UNCHANGED <<states, health, duels, lists, waiting, queues, default, script>>

\* deathblow.py kills, and then fails on a name it has not defined.
DeathBlow(a, b) ==
    /\ Command(a)
    /\ script' = [script EXCEPT ![a] =
            IF posture[b] = "incapacitated" THEN [does |-> "kill", with |-> b] ELSE Idle]
    /\ UNCHANGED <<fighters, duels, lists, waiting, queues, default>>
Kill(a) ==
    /\ up /\ script[a].does = "kill"
    /\ posture' = [posture EXCEPT ![script[a].with] = "dead"]
    /\ script' = [script EXCEPT ![a] = Idle]
    /\ UNCHANGED <<states, health, duels, lists, waiting, queues, default, commands>>

\* peace.py; without a target it fails after the states are changed.
Peace(a, b) ==
    /\ Command(a)
    /\ IF "COMBAT" \in states[a]
       THEN /\ states' = [states EXCEPT ![a] = (@ \ {"COMBAT"}) \cup {"PEACE"}]
            /\ IF b = None THEN UNCHANGED lists
               ELSE RemoveDefenders({<<a, b>>} \cup
                        (IF "COMBAT" \in states[b] THEN {} ELSE {<<b, a>>}))
       ELSE states' = [states EXCEPT ![a] = {}] /\ UNCHANGED lists
    /\ UNCHANGED <<posture, health, duels, waiting, queues, default, script>>

-----------------------------------------------------------------------------

OneOf(a) ==
    \/ SetPosture(a) \/ Peace(a, None)
    \/ \E b \in Creatures \ {a} :
        \/ Duel(a, b) \/ EndDuel(a, b)
        \/ Attack(a, b) \/ DefaultAttack(a, b)
        \/ DeathBlow(a, b) \/ Peace(a, b)
Next ==
    \E c \in Creatures :
        AddQueue(c) \/ OneOf(c) \/ StartDuel(c) \/ Kill(c) \/ RecoveryTests(c) \/ RecoveryStands(c)

Spec == Init /\ [][Next]_vars
\* The active object's timers fire and their callbacks end.
FairSpec == Spec /\ \A c \in Creatures : WF_vars(RecoveryTests(c)) /\ WF_vars(RecoveryStands(c))

-----------------------------------------------------------------------------
(* Properties *)

CombatTypeOK ==
    /\ posture \in [Creatures -> Postures] /\ states \in [Creatures -> SUBSET States]
    /\ health \in [Creatures -> 0 .. MaxHealth]
    /\ pvp \in [Creatures -> {"Player", "Attackable"}]
    /\ \A c \in Creatures : duel[c] \subseteq Creatures \ {c}
    /\ \A c \in Creatures : Len(defenders[c]) < Cardinality(Creatures) /\ IsInjective(defenders[c])
    /\ timers \in [Creatures -> 0 .. MaxCommands] /\ rising \in [Creatures -> 0 .. MaxCommands]
    /\ queues \subseteq Creatures /\ default \in [Creatures -> Creatures \cup {None}]
    /\ up \in BOOLEAN /\ commands \in 0 .. MaxCommands

\* Anybody may attack the Attackable, so a creature is Attackable only while it is in
\* a duel both have agreed to (duel.py, EndDuel), unless the duel was ended between
\* the script's test and its start.
AttackableInDuel ==
    \A c \in Creatures :
        pvp[c] = "Attackable" /\ c \notin crossed => \E d \in Creatures \ {c} : Mutual(c, d)

\* A default attack is set with the defender it goes to and never outlives it
\* (InitiateCombat, EndCombat), unless another entry was dropped in its place.
DefaultAttacksADefender ==
    \A c \in Creatures : default[c] # None /\ c \notin mangled => Contains(defenders[c], default[c])

\* Whoever lies incapacitated has a recovery under way (SetIncapacitated).
FallenAwaitRecovery ==
    up => \A c \in Creatures : posture[c] = "incapacitated" => timers[c] + rising[c] > 0

\* Only the dead's own posture commands, and the recoveries that tested IsDead before
\* the death blow fell, end death (RecoveryTests, deathblow.py): none joins them later.
OnlyLateRecoveriesRaiseTheDead ==
    [][\A c \in Creatures : posture[c] = "dead" =>
            /\ rising'[c] <= rising[c]
            /\ posture'[c] = "dead" \/ rising'[c] < rising[c] \/ SetPosture(c)]_vars

\* Whoever is incapacitated gets up, dies or sees the server stop.
IncapacitatedRecover ==
    \A c \in Creatures : posture[c] = "incapacitated" ~> posture[c] # "incapacitated" \/ ~up

\* InitiateCombat's comment: are we able to start combat, are we in peace?  Nobody at
\* peace attacks by its default command.
PeaceIsKept ==
    [][\A a, b \in Creatures : "PEACE" \in states[a] => ~DefaultAttack(a, b)]_vars
=============================================================================
