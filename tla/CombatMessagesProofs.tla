------------------------ MODULE CombatMessagesProofs ------------------------
(***************************************************************************)
(* Combat's safety properties for every set of creatures, every health and *)
(* every number of commands: who may be attacked, who gets up again, and   *)
(* whom a default attack goes to.  What combat, among others, tells the    *)
(* players, in fly texts and system messages: that it is whole.  And the   *)
(* containers that record their changes, of which any list of defenders is *)
(* one, for any keys, values and number of changes: that a client's copy   *)
(* is what the calls asked for.                                            *)
(***************************************************************************)
EXTENDS Combat, OutOfBand, NetworkContainers, SequenceTheorems, FiniteSetTheorems,
        WellFoundedInduction, TLAPS

Scripts == {Idle} \cup [does : {"start", "kill"}, with : Creatures]

\* What the steps below need to know of the variables' types, and that no script
\* has its own creature as its object.
Typed ==
    /\ posture \in [Creatures -> Postures]
    /\ pvp \in [Creatures -> {"Player", "Attackable"}]
    /\ duel \in [Creatures -> SUBSET Creatures]
    /\ defenders \in [Creatures -> Seq(Creatures)]
    /\ default \in [Creatures -> Creatures \cup {None}]
    /\ script \in [Creatures -> Scripts]
    /\ \A c \in Creatures : script[c].does # "nothing" => script[c].with \in Creatures \ {c}
    /\ timers \in [Creatures -> Nat] /\ rising \in [Creatures -> Nat]

IInv == Typed /\ AttackableInDuel /\ DefaultAttacksADefender /\ FallenAwaitRecovery

-----------------------------------------------------------------------------
(* Lists of defenders *)

\* Adding a defender keeps those there are, and leaves the new one in the list
\* (Tangible::AddDefender).
LEMMA AddedKeeps ==
    ASSUME NEW list \in Seq(Creatures), NEW d \in Creatures
    PROVE  /\ Added(list, d) \in Seq(Creatures)
           /\ Contains(Added(list, d), d)
           /\ \A e : Contains(list, e) => Contains(Added(list, d), e)
<1>1. CASE Contains(list, d)
  BY <1>1 DEF Added
<1>2. CASE ~Contains(list, d)
  <2>1. Added(list, d) = Append(list, d)
    BY <1>2 DEF Added
  <2>2. /\ Append(list, d) \in Seq(Creatures) /\ Len(Append(list, d)) = Len(list) + 1
        /\ Append(list, d)[Len(list) + 1] = d
        /\ \A i \in 1 .. Len(list) : Append(list, d)[i] = list[i]
    OBVIOUS
  <2>3. Contains(Append(list, d), d)
    BY <2>2 DEF Contains
  <2>4. ASSUME NEW e, Contains(list, e) PROVE Contains(Append(list, d), e)
    BY <2>2, <2>4 DEF Contains
  <2> QED BY <2>1, <2>2, <2>3, <2>4
<1> QED BY <1>1, <1>2

\* A removal leaves the lists of all it does not mark as mangled
\* (Tangible::RemoveDefender).
LEMMA RemovalsMark ==
    ASSUME Typed, NEW pairs, RemoveDefenders(pairs)
    PROVE  /\ defenders' \in [Creatures -> Seq(Creatures)]
           /\ mangled \subseteq mangled'
           /\ \A c \in Creatures : c \notin mangled' => defenders'[c] = defenders[c]
           /\ up' => up
<1> DEFINE lost == {p \in pairs : ~Contains(defenders[p[1]], p[2])}
<1>1. CASE lost = {}
  BY <1>1 DEF RemoveDefenders, lists, Typed
<1>2. CASE lost # {} /\ up' = FALSE /\ UNCHANGED <<defenders, mangled>>
  BY <1>2 DEF Typed
<1>3. CASE /\ \A p \in lost : defenders[p[1]] # <<>>
           /\ defenders' = [c \in Creatures |->
                IF \E p \in lost : p[1] = c THEN Front(defenders[c]) ELSE defenders[c]]
           /\ mangled' = mangled \cup {p[1] : p \in lost}
           /\ UNCHANGED up
  <2>1. ASSUME NEW c \in Creatures, defenders[c] # <<>>
        PROVE  Front(defenders[c]) \in Seq(Creatures)
    <3>1. defenders[c] \in Seq(Creatures) /\ Len(defenders[c]) \in Nat \ {0}
      BY <2>1 DEF Typed
    <3>2. \A i \in 1 .. Len(defenders[c]) - 1 : defenders[c][i] \in Creatures
      BY <3>1
    <3> QED BY <3>1, <3>2 DEF Front
  <2>2. \A c \in Creatures : defenders[c] \in Seq(Creatures)
    BY DEF Typed
  <2>3. \A c \in Creatures : (\E p \in lost : p[1] = c) => defenders[c] # <<>>
    BY <1>3
  <2>4. defenders' \in [Creatures -> Seq(Creatures)]
    BY <1>3, <2>1, <2>2, <2>3
  <2>5. \A c \in Creatures : c \notin mangled' => defenders'[c] = defenders[c]
    BY <1>3
  <2> QED BY <1>3, <2>4, <2>5
<1> QED BY <1>1, <1>2, <1>3 DEF RemoveDefenders

-----------------------------------------------------------------------------
(* Steps *)

\* A command that leaves duels, attacks and scripts alone, and ends no recovery of
\* a creature it leaves incapacitated.
LEMMA PostureStep ==
    ASSUME IInv, UNCHANGED <<pvp, duel, crossed, defenders, mangled, default>>,
           posture' \in [Creatures -> Postures],
           script' \in [Creatures -> Scripts],
           \A c \in Creatures : script'[c].does # "nothing" => script'[c].with \in Creatures \ {c},
           timers' \in [Creatures -> Nat], rising' \in [Creatures -> Nat],
           up' => up,
           \A c \in Creatures : posture'[c] = "incapacitated" =>
                posture[c] = "incapacitated" /\ timers'[c] + rising'[c] = timers[c] + rising[c]
    PROVE  IInv'
<1>1. Typed'
  BY DEF IInv, Typed
<1>2. AttackableInDuel'
  BY DEF IInv, AttackableInDuel, Mutual
<1>3. DefaultAttacksADefender'
  BY DEF IInv, DefaultAttacksADefender, Contains
<1>4. FallenAwaitRecovery'
  BY DEF IInv, FallenAwaitRecovery
<1> QED BY <1>1, <1>2, <1>3, <1>4 DEF IInv

\* Ending the duel of two creatures leaves nobody else Attackable without a duel
\* (CombatService::EndDuel).
LEMMA UnduelingKeeps ==
    ASSUME Typed, AttackableInDuel, NEW a \in Creatures, NEW b \in Creatures, Undueled(a, b)
    PROVE  /\ AttackableInDuel'
           /\ duel' \in [Creatures -> SUBSET Creatures]
           /\ pvp' \in [Creatures -> {"Player", "Attackable"}]
<1>1. /\ duel' \in [Creatures -> SUBSET Creatures]
      /\ pvp' \in [Creatures -> {"Player", "Attackable"}]
  BY DEF Undueled, Typed
<1>2. ASSUME NEW c \in Creatures, pvp'[c] = "Attackable", c \notin crossed'
      PROVE  \E d \in Creatures \ {c} : Mutual(c, d)'
  <2>1. c # a /\ c # b /\ pvp[c] = "Attackable" /\ c \notin crossed
    BY <1>2 DEF Undueled, Typed
  <2>2. PICK d \in Creatures \ {c} : Mutual(c, d)
    BY <2>1 DEF AttackableInDuel
  <2>3. Mutual(c, d)'
    BY <2>1, <2>2 DEF Mutual, Undueled, Typed
  <2> QED BY <2>3
<1> QED BY <1>1, <1>2 DEF AttackableInDuel

LEMMA DuelStep ==
    ASSUME IInv, NEW a \in Creatures, NEW b \in Creatures \ {a}, Duel(a, b)
    PROVE  IInv'
<1>1. Typed'
  <2>1. /\ duel' \in [Creatures -> SUBSET Creatures]
        /\ UNCHANGED <<posture, pvp, defenders, default, timers, rising>>
    BY DEF IInv, Typed, Duel, fighters, lists, waiting
  <2>2. script' \in [Creatures -> Scripts]
    BY DEF IInv, Typed, Duel, Scripts
  <2>3. \A c \in Creatures : script'[c].does # "nothing" => script'[c].with \in Creatures \ {c}
    BY DEF IInv, Typed, Duel, Idle
  <2> QED BY <2>1, <2>2, <2>3 DEF IInv, Typed
<1>2. AttackableInDuel'
  <2>1. \A c, d \in Creatures : Mutual(c, d) => Mutual(c, d)'
    BY DEF IInv, Typed, Duel, Mutual
  <2> QED BY <2>1 DEF IInv, AttackableInDuel, Duel
<1>3. DefaultAttacksADefender' /\ FallenAwaitRecovery'
  BY DEF IInv, DefaultAttacksADefender, FallenAwaitRecovery, Contains, Duel, fighters, lists, waiting
<1> QED BY <1>1, <1>2, <1>3 DEF IInv

LEMMA StartDuelStep ==
    ASSUME IInv, NEW a \in Creatures, StartDuel(a)
    PROVE  IInv'
<1> DEFINE b == script[a].with
<1>1. b \in Creatures \ {a}
  BY DEF IInv, Typed, StartDuel
<1>2. Typed'
  <2>1. /\ pvp' \in [Creatures -> {"Player", "Attackable"}]
        /\ UNCHANGED <<posture, duel, defenders, default, timers, rising>>
    BY DEF IInv, Typed, StartDuel, fighters, lists, waiting
  <2>2. script' \in [Creatures -> Scripts]
    BY DEF IInv, Typed, StartDuel, Scripts
  <2>3. \A c \in Creatures : script'[c].does # "nothing" => script'[c].with \in Creatures \ {c}
    BY DEF IInv, Typed, StartDuel, Idle
  <2> QED BY <2>1, <2>2, <2>3 DEF IInv, Typed
<1>3. AttackableInDuel'
  <2>1. ASSUME NEW c \in Creatures, pvp'[c] = "Attackable", c \notin crossed'
        PROVE  \E d \in Creatures \ {c} : Mutual(c, d)'
    <3>1. CASE c \in {a, b}
      <4>1. Mutual(a, b)
        BY <2>1, <3>1 DEF StartDuel
      <4> QED BY <4>1, <3>1, <1>1 DEF Mutual, StartDuel
    <3>2. CASE c \notin {a, b}
      <4>1. pvp[c] = "Attackable" /\ c \notin crossed
        BY <2>1, <3>2 DEF StartDuel, IInv, Typed
      <4> QED BY <4>1 DEF IInv, AttackableInDuel, Mutual, StartDuel
    <3> QED BY <3>1, <3>2
  <2> QED BY <2>1 DEF AttackableInDuel
<1>4. DefaultAttacksADefender' /\ FallenAwaitRecovery'
  BY DEF IInv, DefaultAttacksADefender, FallenAwaitRecovery, Contains, StartDuel, fighters, lists, waiting
<1> QED BY <1>2, <1>3, <1>4 DEF IInv

\* Removals change no default attack, and what they drop they mark.
LEMMA RemovalsKeepDefaults ==
    ASSUME Typed, DefaultAttacksADefender, UNCHANGED default,
           NEW pairs, RemoveDefenders(pairs)
    PROVE  DefaultAttacksADefender'
BY RemovalsMark DEF DefaultAttacksADefender, Contains

LEMMA EndDuelStep ==
    ASSUME IInv, NEW a \in Creatures, NEW b \in Creatures \ {a}, EndDuel(a, b)
    PROVE  IInv'
<1>0. UNCHANGED <<posture, timers, rising, default, script>>
  BY DEF EndDuel, waiting
<1>1. CASE b \in duel[a]
  <2>1. Undueled(a, b) /\ RemoveDefenders({<<a, b>>, <<b, a>>})
    BY <1>1 DEF EndDuel
  <2>2. /\ AttackableInDuel'
        /\ duel' \in [Creatures -> SUBSET Creatures]
        /\ pvp' \in [Creatures -> {"Player", "Attackable"}]
    BY <2>1, UnduelingKeeps DEF IInv
  <2>3. defenders' \in [Creatures -> Seq(Creatures)] /\ (up' => up)
    BY <2>1, RemovalsMark DEF IInv
  <2>4. Typed'
    BY <1>0, <2>2, <2>3 DEF IInv, Typed
  <2>5. DefaultAttacksADefender'
    BY <1>0, <2>1, RemovalsKeepDefaults DEF IInv
  <2>6. FallenAwaitRecovery'
    BY <1>0, <2>3 DEF IInv, FallenAwaitRecovery
  <2> QED BY <2>2, <2>4, <2>5, <2>6 DEF IInv
<1>2. CASE b \notin duel[a]
  <2>1. UNCHANGED <<duels, lists>>
    BY <1>2 DEF EndDuel
  <2> QED BY <1>0, <2>1, PostureStep DEF duels, lists, IInv, Typed
<1> QED BY <1>1, <1>2

LEMMA PeaceStep ==
    ASSUME IInv, NEW a \in Creatures, NEW b, Peace(a, b)
    PROVE  IInv'
<1>0. UNCHANGED <<posture, timers, rising, default, script, pvp, duel, crossed>>
  BY DEF Peace, waiting, duels
<1>1. CASE UNCHANGED lists
  BY <1>0, <1>1, PostureStep DEF lists, IInv, Typed
<1>2. ASSUME NEW pairs, RemoveDefenders(pairs) PROVE IInv'
  <2>1. defenders' \in [Creatures -> Seq(Creatures)] /\ (up' => up)
    BY <1>2, RemovalsMark DEF IInv
  <2>2. Typed' /\ AttackableInDuel'
    BY <1>0, <2>1 DEF IInv, Typed, AttackableInDuel, Mutual
  <2>3. DefaultAttacksADefender'
    BY <1>0, <1>2, RemovalsKeepDefaults DEF IInv
  <2>4. FallenAwaitRecovery'
    BY <1>0, <2>1 DEF IInv, FallenAwaitRecovery
  <2> QED BY <2>2, <2>3, <2>4 DEF IInv
<1> QED BY <1>1, <1>2 DEF Peace

\* The default attacks set by an attack go to defenders (InitiateCombat).
LEMMA ArmingKeepsDefaults ==
    ASSUME Typed, DefaultAttacksADefender, NEW a \in Creatures, NEW b \in Creatures \ {a},
           Engage(a, b)
    PROVE  /\ defenders' \in [Creatures -> Seq(Creatures)]
           /\ Armed(a, b) \in [Creatures -> Creatures \cup {None}]
           /\ \A c \in Creatures : Armed(a, b)[c] # None /\ c \notin mangled' =>
                Contains(defenders'[c], Armed(a, b)[c])
<1>1. /\ Added(defenders[a], b) \in Seq(Creatures) /\ Contains(Added(defenders[a], b), b)
      /\ \A e : Contains(defenders[a], e) => Contains(Added(defenders[a], b), e)
  BY AddedKeeps DEF Typed
<1>2. /\ Added(defenders[b], a) \in Seq(Creatures) /\ Contains(Added(defenders[b], a), a)
      /\ \A e : Contains(defenders[b], e) => Contains(Added(defenders[b], a), e)
  BY AddedKeeps DEF Typed
<1>3. /\ defenders' \in [Creatures -> Seq(Creatures)] /\ mangled' = mangled
      /\ defenders'[a] = Added(defenders[a], b) /\ defenders'[b] = Added(defenders[b], a)
      /\ \A c \in Creatures \ {a, b} : defenders'[c] = defenders[c]
  BY <1>1, <1>2 DEF Engage, Typed
<1>4. /\ Armed(a, b) \in [Creatures -> Creatures \cup {None}]
      /\ Armed(a, b)[a] \in {default[a], b} /\ Armed(a, b)[b] \in {default[b], a}
      /\ \A c \in Creatures \ {a, b} : Armed(a, b)[c] = default[c]
  BY DEF Armed, SetDefault, Typed
<1>5. ASSUME NEW c \in Creatures, Armed(a, b)[c] # None, c \notin mangled'
      PROVE  Contains(defenders'[c], Armed(a, b)[c])
  <2>1. default[c] # None => Contains(defenders[c], default[c])
    BY <1>3, <1>5 DEF DefaultAttacksADefender
  <2>2. CASE c = a
    BY <1>1, <1>3, <1>4, <1>5, <2>1, <2>2
  <2>3. CASE c = b
    BY <1>2, <1>3, <1>4, <1>5, <2>1, <2>3
  <2>4. CASE c \notin {a, b}
    BY <1>3, <1>4, <1>5, <2>1, <2>4
  <2> QED BY <2>2, <2>3, <2>4
<1> QED BY <1>3, <1>4, <1>5

LEMMA AttackStep ==
    ASSUME IInv, NEW a \in Creatures, NEW b \in Creatures \ {a}, SendCombatAction(a, b)
    PROVE  IInv'
<1>0. Engage(a, b) /\ UNCHANGED <<rising, script, up, mangled>>
  BY DEF SendCombatAction, Engage
<1>1. /\ defenders' \in [Creatures -> Seq(Creatures)]
      /\ Armed(a, b) \in [Creatures -> Creatures \cup {None}]
      /\ \A c \in Creatures : Armed(a, b)[c] # None /\ c \notin mangled' =>
           Contains(defenders'[c], Armed(a, b)[c])
  BY <1>0, ArmingKeepsDefaults DEF IInv
<1>2. CASE Misses(a, b) \/ Wounds(a, b)
  <2>1. UNCHANGED <<posture, timers, pvp, duel, crossed>> /\ default' = Armed(a, b)
    BY <1>2 DEF Misses, Wounds, duels
  <2>2. Typed'
    BY <1>0, <1>1, <2>1 DEF IInv, Typed
  <2>3. DefaultAttacksADefender'
    BY <1>1, <2>1 DEF DefaultAttacksADefender, Contains
  <2>4. AttackableInDuel' /\ FallenAwaitRecovery'
    BY <1>0, <2>1 DEF IInv, AttackableInDuel, Mutual, FallenAwaitRecovery
  <2> QED BY <2>2, <2>3, <2>4 DEF IInv
<1>3. CASE Incapacitates(a, b)
  <2>1. /\ posture' = [posture EXCEPT ![b] = "incapacitated"]
        /\ timers' = [timers EXCEPT ![b] = @ + 1]
        /\ default' = ClearDefault(ClearDefault(Armed(a, b), b), a)
    BY <1>3 DEF Incapacitates, EndCombat
  <2>2. /\ AttackableInDuel'
        /\ duel' \in [Creatures -> SUBSET Creatures]
        /\ pvp' \in [Creatures -> {"Player", "Attackable"}]
    <3>1. CASE Undueled(a, b)
      BY <3>1, UnduelingKeeps DEF IInv
    <3>2. CASE UNCHANGED duels
      BY <3>2 DEF IInv, Typed, AttackableInDuel, Mutual, duels
    <3> QED BY <1>3, <3>1, <3>2 DEF Incapacitates, EndCombat
  <2>3. /\ default' \in [Creatures -> Creatures \cup {None}]
        /\ \A c \in Creatures : default'[c] \in {None, Armed(a, b)[c]}
    BY <1>1, <2>1 DEF ClearDefault
  <2>4. /\ posture' \in [Creatures -> Postures] /\ timers' \in [Creatures -> Nat]
        /\ timers'[b] = timers[b] + 1
        /\ \A c \in Creatures \ {b} : posture'[c] = posture[c] /\ timers'[c] = timers[c]
    BY <2>1 DEF IInv, Typed, Postures
  <2>5. Typed'
    BY <1>0, <1>1, <2>2, <2>3, <2>4 DEF IInv, Typed
  <2>6. DefaultAttacksADefender'
    BY <1>1, <2>3 DEF DefaultAttacksADefender, Contains
  <2>7. FallenAwaitRecovery'
    <3>1. SUFFICES ASSUME up', NEW c \in Creatures, posture'[c] = "incapacitated"
                   PROVE  timers'[c] + rising'[c] > 0
      BY DEF FallenAwaitRecovery
    <3>2. timers[c] \in Nat /\ rising[c] \in Nat
      BY DEF IInv, Typed
    <3>3. CASE c = b
      BY <1>0, <2>4, <3>2, <3>3
    <3>4. CASE c # b
      BY <1>0, <2>4, <3>1, <3>4 DEF IInv, FallenAwaitRecovery
    <3> QED BY <3>3, <3>4
  <2> QED BY <2>2, <2>5, <2>6, <2>7 DEF IInv
<1> QED BY <1>2, <1>3 DEF SendCombatAction, SingleTargetCombatAction

\* The steps that set a posture to something else than incapacitated, begin or finish
\* a death blow, or let a recovery test or stand its creature up.
LEMMA PostureSteps ==
    ASSUME IInv, NEW a \in Creatures,
           \/ SetPosture(a) \/ Kill(a) \/ RecoveryTests(a) \/ RecoveryStands(a) \/ AddQueue(a)
           \/ \E b \in Creatures \ {a} : DeathBlow(a, b)
    PROVE  IInv'
<1> USE DEF IInv, Typed, fighters, duels, lists, waiting
<1>1. CASE SetPosture(a)
  BY <1>1, PostureStep DEF SetPosture, Postures
<1>2. CASE Kill(a)
  <2>1. /\ script' \in [Creatures -> Scripts]
        /\ \A c \in Creatures : script'[c].does # "nothing" => script'[c].with \in Creatures \ {c}
    BY <1>2 DEF Kill, Scripts, Idle
  <2>2. /\ posture' \in [Creatures -> Postures]
        /\ \A c \in Creatures : posture'[c] = "incapacitated" => posture[c] = "incapacitated"
    BY <1>2 DEF Kill, Postures
  <2> QED BY <1>2, <2>1, <2>2, PostureStep DEF Kill
<1>3. CASE RecoveryTests(a)
  <2>1. timers' \in [Creatures -> Nat] /\ rising' \in [Creatures -> Nat]
    BY <1>3 DEF RecoveryTests
  <2>2. ASSUME NEW c \in Creatures, posture[c] = "incapacitated"
        PROVE  timers'[c] + rising'[c] = timers[c] + rising[c]
    <3>1. timers[c] \in Nat /\ rising[c] \in Nat
      OBVIOUS
    <3>2. CASE c = a
      BY <1>3, <2>2, <3>1, <3>2 DEF RecoveryTests
    <3>3. CASE c # a
      BY <1>3, <3>3 DEF RecoveryTests
    <3> QED BY <3>2, <3>3
  <2> QED BY <1>3, <2>1, <2>2, PostureStep DEF RecoveryTests
<1>4. CASE RecoveryStands(a)
  <2>1. rising' \in [Creatures -> Nat] /\ posture' \in [Creatures -> Postures]
    BY <1>4 DEF RecoveryStands, Postures
  <2>2. \A c \in Creatures : posture'[c] = "incapacitated" =>
            posture[c] = "incapacitated" /\ timers'[c] + rising'[c] = timers[c] + rising[c]
    BY <1>4 DEF RecoveryStands
  <2> QED BY <1>4, <2>1, <2>2, PostureStep DEF RecoveryStands
<1>5. CASE AddQueue(a)
  BY <1>5, PostureStep DEF AddQueue
<1>6. ASSUME NEW b \in Creatures \ {a}, DeathBlow(a, b) PROVE IInv'
  <2>1. /\ script' \in [Creatures -> Scripts]
        /\ \A c \in Creatures : script'[c].does # "nothing" => script'[c].with \in Creatures \ {c}
    BY <1>6 DEF DeathBlow, Scripts, Idle
  <2> QED BY <1>6, <2>1, PostureStep DEF DeathBlow
<1> QED BY <1>1, <1>2, <1>3, <1>4, <1>5, <1>6

LEMMA InitHolds == Init => IInv
<1> SUFFICES ASSUME Init PROVE IInv
  OBVIOUS
<1>1. Typed
  BY DEF Init, Typed, Postures, Scripts, Idle
<1>2. AttackableInDuel /\ DefaultAttacksADefender /\ FallenAwaitRecovery
  BY DEF Init, AttackableInDuel, DefaultAttacksADefender, FallenAwaitRecovery
<1> QED BY <1>1, <1>2 DEF IInv

LEMMA StepHolds == IInv /\ [Next]_vars => IInv'
<1> SUFFICES ASSUME IInv, [Next]_vars PROVE IInv'
  OBVIOUS
<1>1. CASE UNCHANGED vars
  BY <1>1, PostureStep DEF vars, fighters, duels, lists, waiting, IInv, Typed
<1>2. ASSUME NEW c \in Creatures,
             AddQueue(c) \/ OneOf(c) \/ StartDuel(c) \/ Kill(c) \/ RecoveryTests(c) \/ RecoveryStands(c)
      PROVE  IInv'
  <2>1. CASE AddQueue(c) \/ Kill(c) \/ RecoveryTests(c) \/ RecoveryStands(c) \/ SetPosture(c)
    BY <2>1, PostureSteps
  <2>2. CASE StartDuel(c)
    BY <2>2, StartDuelStep
  <2>3. CASE Peace(c, None)
    BY <2>3, PeaceStep
  <2>4. ASSUME NEW b \in Creatures \ {c},
               \/ Duel(c, b) \/ EndDuel(c, b) \/ Attack(c, b) \/ DefaultAttack(c, b)
               \/ DeathBlow(c, b) \/ Peace(c, b)
        PROVE  IInv'
    <3>1. CASE Attack(c, b) \/ DefaultAttack(c, b)
      BY <3>1, AttackStep DEF Attack, DefaultAttack
    <3> QED BY <2>4, <3>1, DuelStep, EndDuelStep, PostureSteps, PeaceStep
  <2> QED BY <1>2, <2>1, <2>2, <2>3, <2>4 DEF OneOf
<1> QED BY <1>1, <1>2 DEF Next

THEOREM InvariantHolds == Spec => []IInv
BY InitHolds, StepHolds, PTL DEF Spec

-----------------------------------------------------------------------------
(* Theorems *)

\* Nobody is Attackable outside a duel both have agreed to, unless the duel was ended
\* while a script was starting it (duel.py, CombatService::EndDuel).
THEOREM AttackableTheorem == Spec => []AttackableInDuel
<1>1. IInv => AttackableInDuel
  BY DEF IInv
<1> QED BY <1>1, InvariantHolds, PTL

\* A default attack goes to a defender of the attacker's, unless a removal dropped
\* another entry of its list (CombatService::InitiateCombat, EndCombat).
THEOREM DefaultAttackTheorem == Spec => []DefaultAttacksADefender
<1>1. IInv => DefaultAttacksADefender
  BY DEF IInv
<1> QED BY <1>1, InvariantHolds, PTL

\* A recovery is under way for whoever lies incapacitated
\* (CombatService::SetIncapacitated).
THEOREM RecoveryTheorem == Spec => []FallenAwaitRecovery
<1>1. IInv => FallenAwaitRecovery
  BY DEF IInv
<1> QED BY <1>1, InvariantHolds, PTL

\* Of the dead only those stand up who do so themselves or whose recovery had tested
\* IsDead before they died (CombatService::SetIncapacitated, deathblow.py).
THEOREM DeathTheorem == Spec => OnlyLateRecoveriesRaiseTheDead
<1> DEFINE Rest(c) == /\ rising'[c] <= rising[c]
                      /\ posture'[c] = "dead" \/ rising'[c] < rising[c] \/ SetPosture(c)
<1>1. ASSUME IInv, Next, NEW c \in Creatures, posture[c] = "dead" PROVE Rest(c)
  <2> USE DEF IInv, Typed, fighters, duels, lists, waiting
  <2>1. ASSUME NEW a \in Creatures,
               \/ AddQueue(a) \/ StartDuel(a) \/ Kill(a) \/ RecoveryTests(a) \/ RecoveryStands(a)
               \/ SetPosture(a) \/ Peace(a, None)
        PROVE  Rest(c)
    <3>1. CASE AddQueue(a) \/ StartDuel(a) \/ Peace(a, None)
      BY <1>1, <3>1 DEF AddQueue, StartDuel, Peace
    <3>2. CASE Kill(a)
      BY <1>1, <3>2 DEF Kill
    <3>3. CASE RecoveryTests(a)
      BY <1>1, <3>3 DEF RecoveryTests
    <3>4. CASE RecoveryStands(a)
      BY <1>1, <3>4 DEF RecoveryStands
    <3>5. CASE SetPosture(a)
      <4>1. UNCHANGED rising /\ (a # c => posture'[c] = posture[c])
        BY <1>1, <3>5 DEF SetPosture
      <4> QED BY <1>1, <3>5, <4>1
    <3> QED BY <2>1, <3>1, <3>2, <3>3, <3>4, <3>5
  <2>2. ASSUME NEW a \in Creatures, NEW b \in Creatures \ {a},
               \/ Duel(a, b) \/ EndDuel(a, b) \/ Attack(a, b) \/ DefaultAttack(a, b)
               \/ DeathBlow(a, b) \/ Peace(a, b)
        PROVE  Rest(c)
    <3>1. CASE Duel(a, b) \/ EndDuel(a, b) \/ DeathBlow(a, b) \/ Peace(a, b)
      BY <1>1, <3>1 DEF Duel, EndDuel, DeathBlow, Peace
    <3>2. CASE SendCombatAction(a, b)
      <4>1. c # b /\ rising' = rising
        BY <1>1, <3>2 DEF SendCombatAction, MayFight, Fallen
      <4>2. posture' = posture \/ posture' = [posture EXCEPT ![b] = "incapacitated"]
        BY <3>2 DEF SendCombatAction, SingleTargetCombatAction, Misses, Wounds, Incapacitates
      <4>3. posture'[c] = posture[c]
        BY <1>1, <4>1, <4>2
      <4> QED BY <1>1, <4>1, <4>3
    <3> QED BY <2>2, <3>1, <3>2 DEF Attack, DefaultAttack
  <2> QED BY <1>1, <2>1, <2>2 DEF Next, OneOf
<1>2. ASSUME IInv, UNCHANGED vars, NEW c \in Creatures, posture[c] = "dead"
      PROVE  Rest(c)
  BY <1>2 DEF vars, fighters, waiting, IInv, Typed
<1>3. IInv /\ [Next]_vars => [\A c \in Creatures : posture[c] = "dead" => Rest(c)]_vars
  BY <1>1, <1>2
<1> QED BY <1>3, InvariantHolds, PTL DEF Spec, OnlyLateRecoveriesRaiseTheDead

-----------------------------------------------------------------------------
(* What is said to a player *)

Inserted == [id : Nat, file : Nat, label : Nat, text : Nat]
Proses == [base : Nat \X Nat, into : [Insert -> Inserted], display : BOOLEAN]

LEMMA ProseIs ==
    ASSUME NEW base \in Nat \X Nat, NEW into \in [Insert -> Inserted], NEW d \in BOOLEAN
    PROVE  Prose(base, into, d) \in Proses
  BY DEF Prose, Proses

LEMMA InsertedIs ==
    /\ Nobody \in Inserted /\ \A id \in Nat : WithObject(id) \in Inserted
    /\ \A file, label \in Nat : Stf(file, label) \in Inserted
    /\ \A text \in Nat : Custom(text) \in Inserted
<1>1. Nobody \in Inserted
  BY DEF Nobody, Inserted
<1>2. ASSUME NEW id \in Nat PROVE WithObject(id) \in Inserted
  BY DEF WithObject, Nobody, Inserted
<1>3. ASSUME NEW file \in Nat, NEW label \in Nat PROVE Stf(file, label) \in Inserted
  BY DEF Stf, Nobody, Inserted
<1>4. ASSUME NEW text \in Nat PROVE Custom(text) \in Inserted
  BY DEF Custom, Nobody, Inserted
<1> QED
  BY <1>1, <1>2, <1>3, <1>4

\* With its padding a package is a whole number of characters, at least forty-one.
LEMMA WholeCharacters ==
    ASSUME NEW p \in Proses
    PROVE  PackageSize(p) \in Nat /\ PackageSize(p) % 2 = 0 /\ PackageSize(p) >= 82
<1>1. NarrowCharacters(p) \in Nat
  <2>1. p.base[1] \in Nat /\ p.base[2] \in Nat
    BY DEF Proses
  <2>2. \A i \in Insert : p.into[i].file \in Nat /\ p.into[i].label \in Nat
    BY DEF Proses, Inserted
  <2>3. NarrowCharacters(p) = p.base[1] + p.base[2] + ((p.into["TU"].file + p.into["TU"].label)
            + (p.into["TT"].file + p.into["TT"].label) + (p.into["TO"].file + p.into["TO"].label))
    BY DEF NarrowCharacters, Total, Insert
  <2>4. "TU" \in Insert /\ "TT" \in Insert /\ "TO" \in Insert
    BY DEF Insert
  <2> QED
    BY <2>1, <2>2, <2>3, <2>4
<1>2. WideCharacters(p) \in Nat
  <2>1. \A i \in Insert : p.into[i].text \in Nat
    BY DEF Proses, Inserted
  <2>2. WideCharacters(p) = p.into["TU"].text + p.into["TT"].text + p.into["TO"].text
    BY DEF WideCharacters, Total, Insert
  <2>3. "TU" \in Insert /\ "TT" \in Insert /\ "TO" \in Insert
    BY DEF Insert
  <2> QED
    BY <2>1, <2>2, <2>3
<1>3. \A n, w \in Nat :
        LET size == 13 + 3 * 20 + 9 + n + (n % 2) + 2 * w
        IN size \in Nat /\ size % 2 = 0 /\ size >= 82
  OBVIOUS
<1> QED
  BY <1>1, <1>2, <1>3 DEF PackageSize

\* The attachment is of whole characters and its length covers its data; what was
\* added is what was asked for, and what was sent is whole.
ProseInv ==
    /\ called \in Seq(Proses) /\ package.packages = called /\ package.count = Len(called)
    /\ package.size \in Nat /\ package.size % 2 = 0 /\ package.size >= 6
    /\ called = <<>> => package = Bare
    /\ called # <<>> => package.length = Characters(package.size)
    /\ spoken # <<>> => \A i \in 1 .. 2 : spoken[i].length = spoken[i].follow
    /\ flown # <<>> /\ flown.colour = "MIX" => flown.sent = flown.mix
    /\ flown # <<>> => \A i \in 1 .. 3 : flown.colour \in {"WHITE", Component[i]} => flown.sent[i] = 255

LEMMA Taking ==
    ASSUME ProseInv, NEW p \in Proses, Take(p, p)
    PROVE  ProseInv'
<1> DEFINE size == package.size + PackageSize(p)
<1>1. PackageSize(p) \in Nat /\ PackageSize(p) % 2 = 0
  BY WholeCharacters
<1>2. package.size \in Nat /\ package.size % 2 = 0 /\ package.size >= 6
  BY DEF ProseInv
<1>3. size \in Nat /\ size % 2 = 0 /\ size >= 6
  BY <1>1, <1>2
<1> HIDE DEF size
<1>4. package' = [packages |-> Append(package.packages, p), size |-> size, count |-> package.count + 1,
                  length |-> Characters(size)]
  BY DEF Take, AddProse, size
<1>5. /\ package'.packages = Append(package.packages, p) /\ package'.size = size
      /\ package'.count = package.count + 1 /\ package'.length = Characters(size)
  BY <1>4
<1>6. called' = Append(called, p) /\ spoken' = <<>> /\ flown' = <<>>
  BY DEF Take
<1>7. /\ called \in Seq(Proses) /\ package.packages = called /\ package.count = Len(called)
  BY DEF ProseInv
<1>8. called' \in Seq(Proses) /\ called' # <<>> /\ Len(called') = Len(called) + 1
  BY <1>6, <1>7
<1> QED
  BY <1>3, <1>5, <1>6, <1>7, <1>8 DEF ProseInv

LEMMA Adding ==
    ASSUME ProseInv, AskedAsWritten, NEW base \in Bases, NEW d \in BOOLEAN, AddAny(base, d)
    PROVE  ProseInv'
<1> USE ProseAssumption
<1>0. base \in Nat \X Nat /\ \A i \in Stfs : i \in Nat \X Nat
  OBVIOUS
<1>1. ASSUME NEW ids \in [Insert -> {0, 1}], AddObjects(base, ids, d) PROVE ProseInv'
  <2> DEFINE into == [i \in Insert |-> WithObject(ids[i])]
  <2>1. into \in [Insert -> Inserted]
    BY InsertedIs
  <2>2. Take(Prose(base, into, d), Prose(base, into, d))
    BY <1>1 DEF AddObjects, AddProsePackage
  <2> HIDE DEF into
  <2> QED
    BY <1>0, <2>1, <2>2, ProseIs, Taking
<1>2. ASSUME NEW stfs \in [Insert -> Stfs], AddStfs(base, stfs, d) PROVE ProseInv'
  <2> DEFINE into == [i \in Insert |-> Stf(stfs[i][1], stfs[i][2])]
  <2>1. into \in [Insert -> Inserted]
    <3>1. \A i \in Insert : stfs[i][1] \in Nat /\ stfs[i][2] \in Nat
      BY <1>0
    <3> QED
      BY <3>1, InsertedIs
  <2>2. Take(Prose(base, into, d), Prose(base, into, d))
    BY <1>2 DEF AddStfs, AddProsePackage
  <2> HIDE DEF into
  <2> QED
    BY <1>0, <2>1, <2>2, ProseIs, Taking
<1>3. ASSUME NEW texts \in [Insert -> 0 .. MaxText], AddTexts(base, texts, d) PROVE ProseInv'
  <2> DEFINE into == [i \in Insert |-> Custom(texts[i])]
  <2>1. into \in [Insert -> Inserted]
    <3>1. \A i \in Insert : texts[i] \in Nat
      OBVIOUS
    <3> QED
      BY <3>1, InsertedIs
  <2>2. Take(Prose(base, into, d), Prose(base, into, d))
    BY <1>3 DEF AddTexts, AddProsePackage
  <2> HIDE DEF into
  <2> QED
    BY <1>0, <2>1, <2>2, ProseIs, Taking
<1>4. ASSUME NEW into \in Filled, ConstructFull(base, into, d) PROVE ProseInv'
  <2>1. into \in [Insert -> Inserted]
    BY DEF Inserted
  <2>2. into = [i \in Insert |-> into["TU"]]
    BY <2>1 DEF AskedAsWritten
  <2>3. Take(Prose(base, into, d), Prose(base, [i \in Insert |-> into["TU"]], d))
    BY <1>4 DEF ConstructFull
  <2>4. Take(Prose(base, into, d), Prose(base, into, d))
    BY <2>2, <2>3
  <2> QED
    BY <1>0, <2>1, <2>4, ProseIs, Taking
<1>5. \A type \in Types : ForType(type) = type
  BY DEF AskedAsWritten, ForType
<1>6. ASSUME NEW type \in Types, ConstructObject(base, type, 1, d) PROVE ProseInv'
  <2> DEFINE into == Only(type, WithObject(1))
  <2>1. into \in [Insert -> Inserted]
    BY InsertedIs DEF Only
  <2>2. Take(Prose(base, into, d), Prose(base, into, d))
    BY <1>5, <1>6 DEF ConstructObject
  <2> HIDE DEF into
  <2> QED
    BY <1>0, <2>1, <2>2, ProseIs, Taking
<1>7. ASSUME NEW type \in Types, NEW text \in 0 .. MaxText, ConstructText(base, type, text, d) PROVE ProseInv'
  <2> DEFINE into == Only(type, Custom(text))
  <2>1. into \in [Insert -> Inserted]
    BY InsertedIs DEF Only
  <2>2. Take(Prose(base, into, d), Prose(base, into, d))
    BY <1>7 DEF ConstructText
  <2> HIDE DEF into
  <2> QED
    BY <1>0, <2>1, <2>2, ProseIs, Taking
<1> QED
  BY <1>1, <1>2, <1>3, <1>4, <1>6, <1>7 DEF AddAny

LEMMA AddingBare ==
    ASSUME ProseInv, NEW base \in Bases, AddBare(base)
    PROVE  ProseInv'
<1> DEFINE into == [i \in Insert |-> Nobody]
<1>1. into \in [Insert -> Inserted]
  BY InsertedIs
<1>2. PICK d \in BOOLEAN : Take(Prose(base, into, d), Prose(base, into, d))
  BY DEF AddBare, ProsePackage
<1> HIDE DEF into
<1>3. base \in Nat \X Nat
  BY ProseAssumption
<1> QED
  BY <1>1, <1>2, <1>3, ProseIs, Taking

LEMMA BareIs ==
    Bare.packages = <<>> /\ Bare.size = 6 /\ Bare.count = 0 /\ Bare.length = 2
  BY DEF Bare

LEMMA Speaking ==
    ASSUME ProseInv, NEW text \in 0 .. MaxText, SendSystemMessage(text)
    PROVE  ProseInv'
<1>0. text \in Nat
  BY ProseAssumption
<1>1. package' = Bare /\ called' = <<>> /\ flown' = <<>>
  BY DEF SendSystemMessage
<1>2. \A i \in 1 .. 2 : spoken'[i].length = spoken'[i].follow
  <2>1. CASE text > 0
    <3>1. spoken' = <<Said(text), Said(0)>> \o <<Said(0), Attached(Bare)>>
      BY <2>1 DEF SendSystemMessage, SystemTexts
    <3>2. spoken'[1] = Said(text) /\ spoken'[2] = Said(0)
      BY <3>1
    <3> QED
      BY <3>2 DEF Said
  <2>2. CASE ~(text > 0)
    <3>1. package # Bare /\ text = 0
      BY <1>0, <2>2 DEF SendSystemMessage
    <3>2. spoken' = <<>> \o <<Said(0), Attached(package)>>
      BY <2>2 DEF SendSystemMessage, SystemTexts
    <3>3. spoken'[1] = Said(0) /\ spoken'[2] = Attached(package)
      BY <3>2
    <3>4. package.length = Characters(package.size)
      BY <3>1 DEF ProseInv
    <3> QED
      BY <3>3, <3>4 DEF Said, Attached
  <2> QED
    BY <2>1, <2>2
<1> QED
  BY <1>1, <1>2, BareIs DEF ProseInv

LEMMA Flying ==
    ASSUME ProseInv, NEW colour \in Colour, NEW mix \in [1 .. 3 -> Shade], NEW d \in BOOLEAN,
           SendFlyText(colour, mix, d)
    PROVE  ProseInv'
<1>1. package' = Bare /\ called' = <<>> /\ spoken' = <<>>
  BY DEF SendFlyText
<1>2. PICK memory \in [1 .. 3 -> Shade] :
        flown' = [colour |-> colour, mix |-> mix, display |-> d,
                  sent |-> [i \in 1 .. 3 |->
                      CASE colour = "MIX" -> mix[i]
                        [] colour = "WHITE" \/ colour = Component[i] -> 255
                        [] OTHER -> memory[i]],
                  history |-> IF d THEN 0 ELSE 1]
  BY DEF SendFlyText
<1>3. flown'.colour = colour /\ flown'.mix = mix
  BY <1>2
<1>4. flown'.sent = [i \in 1 .. 3 |->
                      CASE colour = "MIX" -> mix[i]
                        [] colour = "WHITE" \/ colour = Component[i] -> 255
                        [] OTHER -> memory[i]]
  BY <1>2
<1>5. \A i \in 1 .. 3 : Component[i] \in {"RED", "GREEN", "BLUE"}
  BY DEF Component
<1>6. CASE colour = "MIX"
  <2>1. flown'.sent = [i \in 1 .. 3 |-> mix[i]]
    <3>1. \A i \in 1 .. 3 : colour # "WHITE" /\ colour # Component[i]
      BY <1>5, <1>6
    <3>2. \A i \in 1 .. 3 : flown'.sent[i] = mix[i]
      BY <1>4, <1>6, <3>1
    <3> QED
      BY <1>4, <3>2
  <2>2. flown'.sent = mix
    BY <2>1
  <2>3. \A i \in 1 .. 3 : colour \notin {"WHITE", Component[i]}
    BY <1>5, <1>6
  <2> QED
    BY <1>1, <1>3, <2>2, <2>3, BareIs DEF ProseInv
<1>7. CASE colour # "MIX"
  <2>1. \A i \in 1 .. 3 : colour \in {"WHITE", Component[i]} => flown'.sent[i] = 255
    BY <1>4, <1>7
  <2> QED
    BY <1>1, <1>3, <1>7, <2>1, BareIs DEF ProseInv
<1> QED
  BY <1>6, <1>7

\* However long the texts and however many the packages, what a player is told is whole,
\* as long as callers ask for what the constructors can put in.
THEOREM ProseTheorem == AskedAsWritten /\ ProseSpec => []ProseIsWhole
<1> SUFFICES ASSUME AskedAsWritten PROVE ProseSpec => []ProseIsWhole
  OBVIOUS
<1>1. ProseInit => ProseInv
  BY BareIs DEF ProseInit, ProseInv
<1>2. ProseInv /\ [ProseNext]_proseVars => ProseInv'
  <2> SUFFICES ASSUME ProseInv, [ProseNext]_proseVars PROVE ProseInv'
    OBVIOUS
  <2>1. CASE UNCHANGED proseVars
    BY <2>1 DEF ProseInv, proseVars
  <2> QED
    BY <2>1, Adding, AddingBare, Speaking, Flying DEF ProseNext
<1>3. ProseInv => ProseIsWhole
  <2> SUFFICES ASSUME ProseInv PROVE called # <<>> => 4 + 2 * package.length = package.size
    BY DEF ProseInv, ProseIsWhole
  <2>1. \A size \in Nat : size % 2 = 0 /\ size >= 6 => 4 + 2 * ((size - 4) \div 2) = size
    OBVIOUS
  <2> QED
    BY <2>1 DEF ProseInv, Characters
<1> QED
  BY <1>1, <1>2, <1>3, PTL DEF ProseSpec

-----------------------------------------------------------------------------
(* What a copy is after entries. *)

\* Induction over the naturals, as membership in a set.
LEMMA Induction ==
    ASSUME NEW T, 0 \in T, \A n \in Nat : n \in T => n + 1 \in T
    PROVE  \A n \in Nat : n \in T
<1> DEFINE S == {n \in Nat : n \notin T}
<1> SUFFICES ASSUME S # {} PROVE FALSE
  OBVIOUS
<1>1. PICK n \in S : \A m \in S : ~(<<m, n>> \in OpToRel(<, Nat))
  <2> DEFINE R == OpToRel(<, Nat)
  <2>1. IsWellFoundedOn(R, Nat) /\ S \subseteq Nat /\ S # {}
    BY NatLessThanWellFounded
  <2> HIDE DEF R, S
  <2>2. \E n \in S : \A m \in S : ~(<<m, n>> \in R)
    BY <2>1, WFMin
  <2> QED BY <2>2 DEF R
<1>2. \A m \in S : ~(m < n)
  BY <1>1 DEF OpToRel
<1>3. n # 0 /\ n - 1 \in Nat /\ n - 1 \notin S
  BY <1>2
<1> QED BY <1>2, <1>3

\* f lists the copies after the first 0, 1, ... n entries.
IsTaking(kind, copy, entries, f, n) ==
    f = [i \in 0 .. n |-> IF i = 0 THEN copy ELSE Applied(kind, f[i - 1], entries[i])]

LEMMA TakingExists ==
    ASSUME NEW kind, NEW copy, NEW entries
    PROVE  \A n \in Nat : \E f : IsTaking(kind, copy, entries, f, n)
<1> DEFINE T == {n \in Nat : \E f : IsTaking(kind, copy, entries, f, n)}
<1>1. 0 \in T
  <2>1. IsTaking(kind, copy, entries, [i \in 0 .. 0 |-> copy], 0)
    BY DEF IsTaking
  <2> QED BY <2>1
<1>2. ASSUME NEW n \in Nat, n \in T PROVE n + 1 \in T
  <2>1. PICK f : IsTaking(kind, copy, entries, f, n)
    BY <1>2
  <2> DEFINE g == [i \in 0 .. n + 1 |-> IF i <= n THEN f[i] ELSE Applied(kind, f[n], entries[i])]
  <2>2. ASSUME NEW i \in 0 .. n + 1
        PROVE  g[i] = IF i = 0 THEN copy ELSE Applied(kind, g[i - 1], entries[i])
    <3>1. CASE i <= n
      <4>1. i \in 0 .. n /\ (i # 0 => i - 1 \in 0 .. n)
        BY <3>1
      <4>2. f[i] = IF i = 0 THEN copy ELSE Applied(kind, f[i - 1], entries[i])
        BY <2>1, <4>1 DEF IsTaking
      <4> QED BY <4>1, <4>2
    <3>2. CASE i = n + 1
      <4>1. i - 1 = n /\ i # 0 /\ ~(i <= n) /\ n \in 0 .. n + 1
        BY <3>2
      <4> QED BY <4>1
    <3> QED BY <3>1, <3>2
  <2>3. IsTaking(kind, copy, entries, g, n + 1)
    BY <2>2 DEF IsTaking
  <2> QED BY <2>3
<1> HIDE DEF T
<1>3. \A n \in Nat : n \in T
  BY <1>1, <1>2, Induction
<1> QED BY <1>3 DEF T

LEMMA TookIsLast ==
    ASSUME NEW kind, NEW copy, NEW entries, Len(entries) \in Nat
    PROVE  \E f : /\ IsTaking(kind, copy, entries, f, Len(entries))
                  /\ Took(kind, copy, entries) = f[Len(entries)]
<1> DEFINE R(g) == g = [i \in 0 .. Len(entries) |->
                            IF i = 0 THEN copy ELSE Applied(kind, g[i - 1], entries[i])]
           f == CHOOSE g : R(g)
<1>1. \E g : R(g)
  <2>1. \E g : IsTaking(kind, copy, entries, g, Len(entries))
    BY TakingExists
  <2> QED BY <2>1 DEF IsTaking
<1>2. R(f)
  <2> HIDE DEF R
  <2> QED BY <1>1
<1>3. Took(kind, copy, entries) = f[Len(entries)]
  BY DEF Took
<1> HIDE DEF f
<1> QED BY <1>2, <1>3 DEF IsTaking

\* Two takings agree as far as their entries do.
LEMMA TakingsAgree ==
    ASSUME NEW kind, NEW copy, NEW s, NEW t, NEW n \in Nat, NEW m \in Nat, n <= m,
           NEW f, IsTaking(kind, copy, s, f, n), NEW g, IsTaking(kind, copy, t, g, m),
           \A i \in 1 .. n : s[i] = t[i]
    PROVE  f[n] = g[n]
<1> DEFINE T == {k \in Nat : k <= n => f[k] = g[k]}
<1>1. 0 \in T
  BY DEF IsTaking
<1>2. ASSUME NEW k \in Nat, k \in T PROVE k + 1 \in T
  <2> SUFFICES ASSUME k + 1 <= n PROVE f[k + 1] = g[k + 1]
    OBVIOUS
  <2>1. /\ k + 1 \in 0 .. n /\ k + 1 \in 0 .. m /\ k + 1 # 0 /\ (k + 1) - 1 = k
        /\ k + 1 \in 1 .. n
    OBVIOUS
  <2>2. f[k + 1] = Applied(kind, f[k], s[k + 1])
    <3>1. f[k + 1] = IF k + 1 = 0 THEN copy ELSE Applied(kind, f[(k + 1) - 1], s[k + 1])
      BY <2>1 DEF IsTaking
    <3> QED BY <2>1, <3>1
  <2>3. g[k + 1] = Applied(kind, g[k], t[k + 1])
    <3>1. g[k + 1] = IF k + 1 = 0 THEN copy ELSE Applied(kind, g[(k + 1) - 1], t[k + 1])
      BY <2>1 DEF IsTaking
    <3> QED BY <2>1, <3>1
  <2>4. f[k] = g[k] /\ s[k + 1] = t[k + 1]
    BY <1>2, <2>1
  <2> QED BY <2>2, <2>3, <2>4
<1> HIDE DEF T
<1>3. \A k \in Nat : k \in T
  BY <1>1, <1>2, Induction
<1> QED BY <1>3 DEF T

LEMMA TookNone ==
    ASSUME NEW kind, NEW copy
    PROVE  Took(kind, copy, <<>>) = copy
<1>1. Len(<<>>) = 0 /\ 0 \in Nat
  OBVIOUS
<1>2. PICK f : IsTaking(kind, copy, <<>>, f, 0) /\ Took(kind, copy, <<>>) = f[0]
  BY <1>1, TookIsLast
<1> QED BY <1>2 DEF IsTaking

LEMMA TookOneMore ==
    ASSUME NEW kind, NEW copy, NEW S, NEW s \in Seq(S), NEW e \in S
    PROVE  Took(kind, copy, Append(s, e)) = Applied(kind, Took(kind, copy, s), e)
<1> DEFINE n == Len(s)
           t == Append(s, e)
<1>1. /\ n \in Nat /\ n + 1 \in Nat /\ Len(t) = n + 1 /\ t[n + 1] = e
      /\ \A i \in 1 .. n : s[i] = t[i]
  BY AppendProperties, LenProperties
<1>2. PICK f : IsTaking(kind, copy, s, f, n) /\ Took(kind, copy, s) = f[n]
  BY <1>1, TookIsLast
<1>3. PICK g : IsTaking(kind, copy, t, g, n + 1) /\ Took(kind, copy, t) = g[n + 1]
  BY <1>1, TookIsLast
<1> HIDE DEF n, t
<1>4. f[n] = g[n]
  BY <1>1, <1>2, <1>3, TakingsAgree
<1>5. g[n + 1] = Applied(kind, g[n], t[n + 1])
  <2>1. n + 1 \in 0 .. n + 1 /\ n + 1 # 0 /\ (n + 1) - 1 = n
    BY <1>1
  <2>2. g[n + 1] = IF n + 1 = 0 THEN copy ELSE Applied(kind, g[(n + 1) - 1], t[n + 1])
    BY <1>3, <2>1 DEF IsTaking
  <2> QED BY <2>1, <2>2
<1> QED BY <1>1, <1>2, <1>3, <1>4, <1>5 DEF t

-----------------------------------------------------------------------------
(* Entries that put items in *)

ItemSet == [key : Nat, value : Nat]
EntrySet == [what : {"add", "remove", "update"}, index : Nat \cup ItemSet, item : Nat \cup ItemSet]

LEMMA ASequence ==
    ASSUME NEW S, NEW n \in Nat, NEW f, DOMAIN f = 1 .. n, f = [i \in 1 .. n |-> f[i]],
           \A i \in 1 .. n : f[i] \in S
    PROVE  f \in Seq(S) /\ Len(f) = n
<1>1. f \in [1 .. n -> S]
  OBVIOUS
<1>2. f \in Seq(S)
  BY <1>1
<1> QED BY <1>2, LenProperties

\* The items of own at R, and those of base elsewhere.
Laid(own, R, base) == [x \in DOMAIN base \cup R |-> IF x \in R THEN own[x] ELSE base[x]]

LEMMA LaidMore ==
    \A own, R, base, i : With(Laid(own, R, base), i, own[i]) = Laid(own, R \cup {i}, base)
  BY DEF With, Laid

LEMMA LaidNone ==
    ASSUME NEW own, NEW base, base = [x \in DOMAIN base |-> base[x]]
    PROVE  Laid(own, {}, base) = base
  BY DEF Laid

\* The first n entries for a record of indexes, with the items they carry.
Reads(what, record, own, n) ==
    [i \in 1 .. n |-> [what |-> what, index |-> record[i], item |-> own[record[i]]]]

LEMMA ReadsMore ==
    ASSUME NEW what \in {"add", "update"}, NEW record \in Seq(Nat), NEW own,
           NEW n \in Nat, n + 1 <= Len(record), \A i \in DOMAIN record : own[record[i]] \in ItemSet
    PROVE  /\ Reads(what, record, own, n) \in Seq(EntrySet)
           /\ [what |-> what, index |-> record[n + 1], item |-> own[record[n + 1]]] \in EntrySet
           /\ Reads(what, record, own, n + 1)
                  = Append(Reads(what, record, own, n),
                           [what |-> what, index |-> record[n + 1], item |-> own[record[n + 1]]])
<1> DEFINE e == [what |-> what, index |-> record[n + 1], item |-> own[record[n + 1]]]
           s == Reads(what, record, own, n)
           t == Reads(what, record, own, n + 1)
<1>1. \A i \in 1 .. n + 1 : i \in DOMAIN record /\ record[i] \in Nat
  BY ElementOfSeq, LenProperties
<1>2. \A i \in 1 .. n + 1 : [what |-> what, index |-> record[i], item |-> own[record[i]]] \in EntrySet
  BY <1>1 DEF EntrySet
<1>3. s \in Seq(EntrySet) /\ Len(s) = n
  <2>1. DOMAIN s = 1 .. n /\ s = [i \in 1 .. n |-> s[i]] /\ \A i \in 1 .. n : s[i] \in EntrySet
    BY <1>2 DEF Reads
  <2> HIDE DEF s
  <2> QED BY <2>1, ASequence
<1>4. t \in Seq(EntrySet) /\ Len(t) = n + 1
  <2>1. n + 1 \in Nat /\ DOMAIN t = 1 .. n + 1 /\ t = [i \in 1 .. n + 1 |-> t[i]]
        /\ \A i \in 1 .. n + 1 : t[i] \in EntrySet
    BY <1>2 DEF Reads
  <2> HIDE DEF t
  <2> QED BY <2>1, ASequence
<1>5. e \in EntrySet
  BY <1>2
<1>6. \A i \in 1 .. n : s[i] = t[i]
  BY DEF Reads
<1>7. t[n + 1] = e
  BY DEF Reads
<1> HIDE DEF e, s, t
<1>8. t = Append(s, e)
  <2>1. /\ Append(s, e) \in Seq(EntrySet) /\ Len(Append(s, e)) = n + 1
        /\ \A i \in 1 .. n : Append(s, e)[i] = s[i]
        /\ Append(s, e)[n + 1] = e
    BY <1>3, <1>5, AppendProperties
  <2>2. \A i \in 1 .. n + 1 : t[i] = Append(s, e)[i]
    BY <2>1, <1>6, <1>7
  <2> QED BY <2>1, <2>2, <1>4, SeqEqual
<1> QED BY <1>3, <1>5, <1>8 DEF e, s, t

LEMMA AppendToBoth ==
    ASSUME NEW S, NEW s \in Seq(S), NEW t \in Seq(S), NEW e \in S
    PROVE  s \o Append(t, e) = Append(s \o t, e) /\ s \o t \in Seq(S)
  BY AppendIsConcat, ConcatAssociative, ConcatProperties

IsFunction(f) == f = [x \in DOMAIN f |-> f[x]]

\* Where a vector has room: at an index it has, or right after the last.
HasRoom(record, base) ==
    /\ base \in Seq(ItemSet)
    /\ \/ \A n \in DOMAIN record : record[n] \in DOMAIN base
       \/ \A n \in DOMAIN record : record[n] = Len(base) + n

LEMMA Placements ==
    ASSUME NEW kind \in {"vector", "sorted", "map", "array"}, NEW copy, NEW t \in Seq(EntrySet),
           NEW what \in {"add", "update"}, NEW record \in Seq(Nat), NEW own,
           \A i \in DOMAIN record : own[record[i]] \in ItemSet,
           NEW base, base = Took(kind, copy, t), IsFunction(base),
           kind = "vector" => HasRoom(record, base)
    PROVE  Took(kind, copy, t \o Reads(what, record, own, Len(record)))
               = Laid(own, Range(record), base)
<1> DEFINE R(n) == {record[i] : i \in 1 .. n}
           s(n) == Reads(what, record, own, n)
           T == {n \in Nat : n <= Len(record) => Took(kind, copy, t \o s(n)) = Laid(own, R(n), base)}
<1>0. Len(record) \in Nat /\ DOMAIN record = 1 .. Len(record) /\ \A i \in 1 .. Len(record) : record[i] \in Nat
  BY ElementOfSeq, LenProperties
<1>1. 0 \in T
  <2>1. s(0) = <<>>
    BY DEF Reads
  <2>2. t \o <<>> = t
    BY ConcatEmptySeq
  <2>3. Laid(own, R(0), base) = base
    <3>1. R(0) = {}
      OBVIOUS
    <3> QED BY <3>1, LaidNone DEF IsFunction
  <2> HIDE DEF R, s
  <2> QED BY <2>1, <2>2, <2>3
<1>2. ASSUME NEW n \in Nat, n \in T PROVE n + 1 \in T
  <2> SUFFICES ASSUME n + 1 <= Len(record)
               PROVE  Took(kind, copy, t \o s(n + 1)) = Laid(own, R(n + 1), base)
    OBVIOUS
  <2> DEFINE e == [what |-> what, index |-> record[n + 1], item |-> own[record[n + 1]]]
             was == Laid(own, R(n), base)
  <2>1. Took(kind, copy, t \o s(n)) = was
    BY <1>0, <1>2
  <2>2. s(n) \in Seq(EntrySet) /\ e \in EntrySet /\ s(n + 1) = Append(s(n), e)
    BY ReadsMore
  <2>3. e.what = what /\ e.index = record[n + 1] /\ e.item = own[record[n + 1]]
    OBVIOUS
  <2>4. R(n + 1) = R(n) \cup {record[n + 1]}
    <3>1. 1 .. n + 1 = (1 .. n) \cup {n + 1}
      OBVIOUS
    <3> QED BY <3>1
  <2>5. kind = "vector" => record[n + 1] \in 1 .. Len(was) + 1
    <3> SUFFICES ASSUME kind = "vector" PROVE record[n + 1] \in 1 .. Len(was) + 1
      OBVIOUS
    <3>1. HasRoom(record, base) /\ base \in Seq(ItemSet)
      BY DEF HasRoom
    <3>2. Len(base) \in Nat /\ DOMAIN base = 1 .. Len(base) /\ \A i \in 1 .. Len(base) : base[i] \in ItemSet
      BY <3>1, ElementOfSeq, LenProperties
    <3>3. \A x \in DOMAIN was : was[x] \in ItemSet
      <4>1. \A x \in R(n) : own[x] \in ItemSet
        <5>0. \A i \in 1 .. n : i \in 1 .. Len(record)
          BY <1>0
        <5>1. \A i \in 1 .. n : i \in DOMAIN record /\ own[record[i]] \in ItemSet
          BY <5>0, <1>0
        <5>2. \A x \in R(n) : \E i \in 1 .. n : x = record[i]
          OBVIOUS
        <5> HIDE DEF R
        <5> QED BY <5>1, <5>2
      <4>2. \A x \in DOMAIN was : x \in R(n) \/ x \in DOMAIN base
        BY DEF Laid
      <4>3. \A x \in DOMAIN was : was[x] = IF x \in R(n) THEN own[x] ELSE base[x]
        BY DEF Laid
      <4> HIDE DEF was, R
      <4> QED BY <4>1, <4>2, <4>3, <3>2
    <3>4. was = [x \in DOMAIN was |-> was[x]] /\ DOMAIN was = DOMAIN base \cup R(n)
      BY DEF Laid
    <3>5. CASE \A i \in DOMAIN record : record[i] \in DOMAIN base
      <4>1. DOMAIN was = 1 .. Len(base) /\ record[n + 1] \in 1 .. Len(base)
        <5>1. n + 1 \in DOMAIN record /\ \A i \in 1 .. n : i \in DOMAIN record
          BY <1>0
        <5>2. \A x \in R(n) : x \in 1 .. Len(base)
          BY <3>2, <3>5, <5>1
        <5> HIDE DEF was, R
        <5>3. DOMAIN was = 1 .. Len(base)
          BY <5>2, <3>2, <3>4
        <5> QED BY <5>1, <5>3, <3>2, <3>5
      <4> HIDE DEF was, R
      <4>2. was \in Seq(ItemSet) /\ Len(was) = Len(base)
        BY <3>2, <3>3, <3>4, <4>1, ASequence
      <4> QED BY <4>1, <4>2, <3>2
    <3>6. CASE \A i \in DOMAIN record : record[i] = Len(base) + i
      <4>1. DOMAIN was = 1 .. Len(base) + n
        <5>1. \A x \in R(n) : x \in 1 .. Len(base) + n
          BY <1>0, <3>2, <3>6
        <5>2. ASSUME NEW x \in 1 .. Len(base) + n PROVE x \in DOMAIN base \cup R(n)
          <6>1. CASE x <= Len(base)
            BY <6>1, <3>2
          <6>2. CASE x > Len(base)
            <7>1. x - Len(base) \in 1 .. n /\ x - Len(base) \in 1 .. Len(record)
                  /\ x = Len(base) + (x - Len(base))
              BY <6>2, <3>2, <1>0
            <7>2. record[x - Len(base)] = x
              BY <7>1, <3>6, <1>0
            <7> QED BY <7>1, <7>2
          <6> QED BY <6>1, <6>2, <3>2
        <5> HIDE DEF was, R
        <5> QED BY <5>1, <5>2, <3>2, <3>4
      <4>2. record[n + 1] = Len(base) + (n + 1)
        <5>1. n + 1 \in DOMAIN record
          BY <1>0
        <5> QED BY <5>1, <3>6
      <4> HIDE DEF was, R
      <4>3. was \in Seq(ItemSet) /\ Len(was) = Len(base) + n
        <5> DEFINE m == Len(base) + n
        <5>1. m \in Nat /\ DOMAIN was = 1 .. m
          BY <3>2, <4>1
        <5> HIDE DEF m
        <5>2. was = [x \in 1 .. m |-> was[x]] /\ \A x \in 1 .. m : was[x] \in ItemSet
          BY <5>1, <3>3, <3>4
        <5>3. was \in Seq(ItemSet) /\ Len(was) = m
          BY <5>1, <5>2, ASequence
        <5> QED BY <5>3 DEF m
      <4> QED BY <4>2, <4>3, <3>2
    <3> QED BY <3>1, <3>5, <3>6 DEF HasRoom
  <2>6. Applied(kind, was, e) = With(was, record[n + 1], own[record[n + 1]])
    <3>1. e.what \in {"add", "update"} /\ e.what # "remove"
      BY <2>3
    <3>2. Applied(kind, was, e) = Placed(kind, was, e)
      BY <3>1 DEF Applied
    <3> HIDE DEF was, e
    <3> QED BY <2>3, <2>5, <3>2 DEF Placed
  <2>7. Took(kind, copy, t \o s(n + 1)) = Applied(kind, was, e)
    <3> DEFINE a == s(n)
               b == s(n + 1)
    <3>1. a \in Seq(EntrySet) /\ e \in EntrySet /\ b = Append(a, e)
      BY <2>2
    <3>2. Took(kind, copy, t \o a) = was
      BY <2>1
    <3>3. ASSUME NEW x \in EntrySet, NEW u \in Seq(EntrySet)
          PROVE  /\ Took(kind, copy, t \o Append(u, x)) = Applied(kind, Took(kind, copy, t \o u), x)
      <4>1. t \o Append(u, x) = Append(t \o u, x) /\ t \o u \in Seq(EntrySet)
        BY AppendToBoth
      <4> DEFINE v == t \o u
      <4>2. v \in Seq(EntrySet)
        BY <4>1
      <4> HIDE DEF v
      <4>3. Took(kind, copy, Append(v, x)) = Applied(kind, Took(kind, copy, v), x)
        BY <4>2, TookOneMore
      <4> QED BY <4>1, <4>3 DEF v
    <3>4. Took(kind, copy, t \o b) = Applied(kind, was, e)
      <4> HIDE DEF a, b, e, was, s
      <4> QED BY <3>1, <3>2, <3>3
    <3> QED BY <3>4
  <2>8. With(was, record[n + 1], own[record[n + 1]]) = Laid(own, R(n + 1), base)
    <3>1. With(was, record[n + 1], own[record[n + 1]]) = Laid(own, R(n) \cup {record[n + 1]}, base)
      <4> DEFINE i == record[n + 1]
      <4>1. \A Q : With(Laid(own, Q, base), i, own[i]) = Laid(own, Q \cup {i}, base)
        <5> TAKE Q
        <5> HIDE DEF i
        <5> QED BY DEF With, Laid
      <4> DEFINE Q == R(n)
      <4>2. With(Laid(own, Q, base), i, own[i]) = Laid(own, Q \cup {i}, base)
        <5> HIDE DEF i, Q
        <5> QED BY <4>1
      <4> QED BY <4>2
    <3> QED BY <2>4, <3>1
  <2> QED BY <2>6, <2>7, <2>8
<1> HIDE DEF T
<1>3. \A n \in Nat : n \in T
  BY <1>1, <1>2, Induction
<1>4. R(Len(record)) = Range(record)
  BY <1>0 DEF Range
<1>5. Took(kind, copy, t \o s(Len(record))) = Laid(own, R(Len(record)), base)
  BY <1>0, <1>3 DEF T
<1> HIDE DEF R
<1> QED BY <1>4, <1>5

-----------------------------------------------------------------------------
(* Entries that take items away *)

Removal(x) == [what |-> "remove", index |-> x, item |-> x]
RemovalsOf(removed) == [n \in DOMAIN removed |-> Removal(removed[n])]

LEMMA RemovalsAre ==
    ASSUME NEW S, S \subseteq Nat \cup ItemSet, NEW removed \in Seq(S)
    PROVE  RemovalsOf(removed) \in Seq(EntrySet) /\ Len(RemovalsOf(removed)) = Len(removed)
<1> DEFINE s == RemovalsOf(removed)
           m == Len(removed)
<1>1. m \in Nat /\ DOMAIN removed = 1 .. m /\ \A i \in 1 .. m : removed[i] \in S
  BY ElementOfSeq, LenProperties
<1>2. DOMAIN s = 1 .. m /\ s = [i \in 1 .. m |-> s[i]]
  BY <1>1 DEF RemovalsOf
<1>3. \A i \in 1 .. m : s[i] = Removal(removed[i]) /\ removed[i] \in Nat \cup ItemSet
  BY <1>1 DEF RemovalsOf
<1>4. \A x \in Nat \cup ItemSet : Removal(x) \in EntrySet
  BY DEF Removal, EntrySet
<1>5. \A i \in 1 .. m : s[i] \in EntrySet
  BY <1>3, <1>4
<1> HIDE DEF s, m
<1>6. s \in Seq(EntrySet) /\ Len(s) = m
  BY <1>1, <1>2, <1>5, ASequence
<1> QED BY <1>6 DEF s, m

LEMMA RemovalsMore ==
    ASSUME NEW S, S \subseteq Nat \cup ItemSet, NEW removed \in Seq(S), NEW x \in S
    PROVE  RemovalsOf(Append(removed, x)) = Append(RemovalsOf(removed), Removal(x)) /\ Removal(x) \in EntrySet
<1> DEFINE m == Len(removed)
           s == RemovalsOf(removed)
           t == RemovalsOf(Append(removed, x))
<1>1. /\ Append(removed, x) \in Seq(S) /\ Len(Append(removed, x)) = m + 1 /\ m \in Nat
      /\ DOMAIN removed = 1 .. m /\ DOMAIN Append(removed, x) = 1 .. m + 1
      /\ \A i \in 1 .. m : Append(removed, x)[i] = removed[i]
      /\ Append(removed, x)[m + 1] = x
  BY AppendProperties, LenProperties
<1>2. s \in Seq(EntrySet) /\ Len(s) = m
  BY RemovalsAre
<1>3. t \in Seq(EntrySet) /\ Len(t) = m + 1
  BY <1>1, RemovalsAre
<1>4. Removal(x) \in EntrySet
  BY DEF Removal, EntrySet
<1>5. (\A i \in 1 .. m : t[i] = s[i]) /\ t[m + 1] = Removal(x)
  BY <1>1 DEF RemovalsOf
<1> HIDE DEF m, s, t
<1>6. /\ Append(s, Removal(x)) \in Seq(EntrySet) /\ Len(Append(s, Removal(x))) = m + 1
      /\ \A i \in 1 .. m : Append(s, Removal(x))[i] = s[i]
      /\ Append(s, Removal(x))[m + 1] = Removal(x)
  BY <1>2, <1>4, AppendProperties
<1>7. m \in Nat /\ \A i \in 1 .. m + 1 : i \in 1 .. m \/ i = m + 1
  BY <1>1
<1>8. \A i \in 1 .. m + 1 : t[i] = Append(s, Removal(x))[i]
  BY <1>5, <1>6, <1>7
<1>9. t = Append(s, Removal(x))
  BY <1>3, <1>6, <1>8, SeqEqual
<1> QED BY <1>4, <1>9 DEF s, t

\* Without the keys of the items.
Lacking(f, K) == Restrict(f, DOMAIN f \ K)

LEMMA RemovedFromMap ==
    \A copy : \A x \in ItemSet :
        Applied("map", copy, Removal(x)) = IF x.key \in DOMAIN copy THEN Lacking(copy, {x.key}) ELSE copy
<1> TAKE copy
<1> TAKE x \in ItemSet
<1>1. Applied("map", copy, Removal(x)) = Removed("map", copy, Removal(x))
  BY DEF Applied, Removal
<1>2. Removal(x).item.key = x.key
  BY DEF Removal
<1>3. CASE x.key \in DOMAIN copy
  <2>1. {x.key} \cap DOMAIN copy = {x.key} /\ (CHOOSE i \in {x.key} : TRUE) = x.key
    BY <1>3
  <2> QED BY <1>1, <1>2, <1>3, <2>1 DEF Removed, Without, Shifts, Lacking
<1>4. CASE x.key \notin DOMAIN copy
  <2>1. {x.key} \cap DOMAIN copy = {}
    BY <1>4
  <2> QED BY <1>1, <1>2, <1>4, <2>1 DEF Removed
<1> QED BY <1>3, <1>4

LEMMA RemovesOne ==
    ASSUME NEW f, NEW L, NEW x \in ItemSet
    PROVE  Applied("map", Lacking(f, L), Removal(x)) = Lacking(f, L \cup {x.key})
<1> DEFINE g == Lacking(f, L)
           k == x.key
<1>1. DOMAIN g = DOMAIN f \ L /\ \A i \in DOMAIN f \ L : g[i] = f[i]
  BY DEF Lacking, Restrict
<1>2. g = [i \in DOMAIN f \ L |-> g[i]]
  BY DEF Lacking, Restrict
<1>3. Applied("map", g, Removal(x)) = IF k \in DOMAIN g THEN Lacking(g, {k}) ELSE g
  BY RemovedFromMap
<1> HIDE DEF g, k
<1>4. Lacking(g, {k}) = Lacking(f, L \cup {k})
  <2>1. DOMAIN g \ {k} = DOMAIN f \ (L \cup {k})
    BY <1>1
  <2> QED BY <1>1, <2>1 DEF Lacking, Restrict
<1>5. ASSUME k \notin DOMAIN g PROVE g = Lacking(f, L \cup {k})
  <2>1. DOMAIN f \ L = DOMAIN f \ (L \cup {k})
    BY <1>1, <1>5
  <2> QED BY <1>1, <1>2, <2>1 DEF Lacking, Restrict
<1> QED BY <1>3, <1>4, <1>5 DEF g, k

KeysOf(removed) == {removed[i].key : i \in DOMAIN removed}

LEMMA MapRemovals ==
    ASSUME NEW copy, NEW t \in Seq(EntrySet), NEW base, base = Took("map", copy, t),
           Lacking(base, {}) = base
    PROVE  \A removed \in Seq(ItemSet) :
               Took("map", copy, t \o RemovalsOf(removed)) = Lacking(base, KeysOf(removed))
<1> DEFINE K(removed) == {removed[i].key : i \in DOMAIN removed}
           Good(removed) == Took("map", copy, t \o RemovalsOf(removed)) = Lacking(base, K(removed))
           T == {n \in Nat : \A removed \in Seq(ItemSet) : Len(removed) = n => Good(removed)}
<1>1. 0 \in T
  <2> SUFFICES ASSUME NEW removed \in Seq(ItemSet), Len(removed) = 0 PROVE Good(removed)
    OBVIOUS
  <2>1. removed = <<>>
    BY EmptySeq
  <2>2. RemovalsOf(removed) = <<>> /\ K(removed) = {}
    BY <2>1 DEF RemovalsOf
  <2>3. t \o <<>> = t
    BY ConcatEmptySeq
  <2>4. Lacking(base, {}) = base
    OBVIOUS
  <2> HIDE DEF K
  <2> QED BY <2>2, <2>3, <2>4
<1>2. ASSUME NEW n \in Nat, n \in T PROVE n + 1 \in T
  <2> SUFFICES ASSUME NEW whole \in Seq(ItemSet), Len(whole) = n + 1 PROVE Good(whole)
    OBVIOUS
  <2>1. PICK removed \in Seq(ItemSet), x \in ItemSet : whole = Append(removed, x)
    <3>1. whole # <<>>
      BY EmptySeq
    <3> QED BY <3>1, SequenceEmptyOrAppend
  <2>2. /\ Len(removed) = n /\ DOMAIN removed = 1 .. n /\ DOMAIN whole = 1 .. n + 1
        /\ (\A i \in 1 .. n : whole[i] = removed[i]) /\ whole[n + 1] = x
    BY <2>1, AppendProperties, LenProperties
  <2>3. Good(removed)
    BY <1>2, <2>2
  <2>4. K(whole) = K(removed) \cup {x.key}
    BY <2>2
  <2> DEFINE r == RemovalsOf(removed)
             e == Removal(x)
             was == Lacking(base, K(removed))
  <2>5. r \in Seq(EntrySet) /\ e \in EntrySet /\ RemovalsOf(whole) = Append(r, e)
    BY <2>1, RemovalsAre, RemovalsMore
  <2>6. Took("map", copy, t \o r) = was
    BY <2>3
  <2>7. ASSUME NEW y \in EntrySet, NEW u \in Seq(EntrySet)
        PROVE  Took("map", copy, t \o Append(u, y)) = Applied("map", Took("map", copy, t \o u), y)
    <3> DEFINE v == t \o u
    <3>1. t \o Append(u, y) = Append(v, y) /\ v \in Seq(EntrySet)
      BY AppendToBoth
    <3> HIDE DEF v
    <3>2. Took("map", copy, Append(v, y)) = Applied("map", Took("map", copy, v), y)
      BY <3>1, TookOneMore
    <3> QED BY <3>1, <3>2 DEF v
  <2>8. Took("map", copy, t \o RemovalsOf(whole)) = Applied("map", was, e)
    <3> HIDE DEF r, e, was
    <3> QED BY <2>5, <2>6, <2>7
  <2>9. Applied("map", was, e) = Lacking(base, K(removed) \cup {x.key})
    BY RemovesOne
  <2> QED BY <2>4, <2>8, <2>9
<1> HIDE DEF T
<1>3. \A n \in Nat : n \in T
  BY <1>1, <1>2, Induction
<1> SUFFICES ASSUME NEW removed \in Seq(ItemSet) PROVE Good(removed)
  BY DEF KeysOf
<1>4. Len(removed) \in Nat
  BY LenProperties
<1> QED BY <1>3, <1>4 DEF T

-----------------------------------------------------------------------------
(* What a container holds and has recorded *)

\* A container's items: no two have one key.
Keeps(kind, own) ==
    /\ own = [i \in DOMAIN own |-> own[i]] /\ \A i \in DOMAIN own : i \in Nat /\ own[i] \in ItemSet
    /\ IsFiniteSet(DOMAIN own)
    /\ Shifts(kind) => own \in Seq(ItemSet)
    /\ kind = "map" => \A i \in DOMAIN own : own[i].key = i
    /\ \A i, j \in DOMAIN own : own[i].key = own[j].key => i = j

\* They are what was asked for.
AsAsked(own, asked) ==
    /\ \A i \in DOMAIN own : own[i].key \in DOMAIN asked /\ asked[own[i].key] = own[i].value
    /\ \A k \in DOMAIN asked : \E i \in DOMAIN own : own[i].key = k

\* What a list has recorded are the items themselves.
Additions(added) == [n \in DOMAIN added |-> [what |-> "add", index |-> added[n], item |-> added[n]]]
ListRecord(copy, own, added, removed) ==
    /\ added \in Seq(ItemSet) /\ removed \in Seq(ItemSet)
    /\ Took("list", copy, RemovalsOf(removed) \o Additions(added)) = own

\* A vector, a sorted list and an array have recorded indexes: what was removed, and then
\* where something was put since.
IndexRecord(kind, copy, own, added, removed, changed) ==
    LET base == Took(kind, copy, RemovalsOf(removed)) IN
    /\ added \in Seq(Nat) /\ removed \in Seq(Nat) /\ changed \in Seq(Nat)
    /\ IsFunction(base)
    /\ DOMAIN own = DOMAIN base \cup Range(added) /\ Range(changed) \subseteq DOMAIN own
    /\ \A i \in DOMAIN base : own[i] = base[i] \/ i \in Range(added) \/ i \in Range(changed)
    /\ kind = "vector" => base \in Seq(ItemSet) /\ \A n \in DOMAIN added : added[n] = Len(base) + n

\* A map has recorded the keys it added, and removed others.
MapRecord(copy, own, added, removed, changed) ==
    LET gone == KeysOf(removed)
        new == Range(added) IN
    /\ added \in Seq(Nat) /\ removed \in Seq(ItemSet) /\ changed \in Seq(Nat)
    /\ IsFunction(copy)
    /\ DOMAIN own = (DOMAIN copy \cup new) \ gone /\ new \subseteq DOMAIN own
    /\ Range(changed) \subseteq DOMAIN own
    /\ \A i \in DOMAIN own : \/ i \in DOMAIN copy /\ own[i] = copy[i]
                           \/ i \in new \/ i \in Range(changed)

LEMMA ReadsAll ==
    ASSUME NEW what \in {"add", "update"}, NEW record \in Seq(Nat), NEW own,
           \A i \in DOMAIN record : own[record[i]] \in ItemSet
    PROVE  Reads(what, record, own, Len(record)) \in Seq(EntrySet)
<1> DEFINE s == Reads(what, record, own, Len(record))
           m == Len(record)
<1>1. m \in Nat /\ DOMAIN record = 1 .. m /\ \A i \in 1 .. m : record[i] \in Nat
  BY ElementOfSeq, LenProperties
<1>2. \A i \in 1 .. m : [what |-> what, index |-> record[i], item |-> own[record[i]]] \in EntrySet
  BY <1>1 DEF EntrySet
<1>3. DOMAIN s = 1 .. m /\ s = [i \in 1 .. m |-> s[i]] /\ \A i \in 1 .. m : s[i] \in EntrySet
  BY <1>2 DEF Reads
<1> HIDE DEF s, m
<1>4. s \in Seq(EntrySet)
  BY <1>1, <1>3, ASequence
<1> QED BY <1>4 DEF s, m

\* A delta of the removals, the additions and the changes leaves what the container has.
LEMMA IndexedArrive ==
    ASSUME NEW kind \in {"vector", "sorted", "array"}, NEW copy, NEW own, Keeps(kind, own),
           NEW added, NEW removed, NEW changed, IndexRecord(kind, copy, own, added, removed, changed)
    PROVE  Took(kind, copy, (RemovalsOf(removed) \o Reads("add", added, own, Len(added)))
                            \o Reads("update", changed, own, Len(changed))) = own
<1> DEFINE r == RemovalsOf(removed)
           a == Reads("add", added, own, Len(added))
           base == Took(kind, copy, r)
           new == Range(added)
           other == Range(changed)
           mid == Took(kind, copy, r \o a)
<1>1. /\ added \in Seq(Nat) /\ removed \in Seq(Nat) /\ changed \in Seq(Nat)
      /\ IsFunction(base)
      /\ DOMAIN own = DOMAIN base \cup new /\ other \subseteq DOMAIN own
      /\ \A i \in DOMAIN base : own[i] = base[i] \/ i \in new \/ i \in other
      /\ kind = "vector" => base \in Seq(ItemSet) /\ \A n \in DOMAIN added : added[n] = Len(base) + n
  BY DEF IndexRecord
<1>2. \A i \in DOMAIN own : own[i] \in ItemSet
  BY DEF Keeps
<1>3. r \in Seq(EntrySet)
  BY <1>1, RemovalsAre
<1>4. (\A n \in DOMAIN added : own[added[n]] \in ItemSet) /\ (\A n \in DOMAIN changed : own[changed[n]] \in ItemSet)
  BY <1>1, <1>2 DEF Range
<1>5. a \in Seq(EntrySet) /\ r \o a \in Seq(EntrySet)
  <2>1. a \in Seq(EntrySet)
    BY <1>1, <1>4, ReadsAll
  <2> HIDE DEF a, r
  <2> QED BY <1>3, <2>1, ConcatProperties
<1>6. mid = Laid(own, new, base)
  <2>1. kind = "vector" => HasRoom(added, base)
    BY <1>1 DEF HasRoom
  <2>2. base = Took(kind, copy, r)
    OBVIOUS
  <2> HIDE DEF base, r
  <2>3. Took(kind, copy, r \o Reads("add", added, own, Len(added))) = Laid(own, Range(added), base)
    BY <1>1, <1>3, <1>4, <2>1, <2>2, Placements
  <2> QED BY <2>3
<1>7. IsFunction(mid) /\ DOMAIN mid = DOMAIN own
  BY <1>1, <1>6 DEF Laid, IsFunction
<1>8. kind = "vector" => HasRoom(changed, mid)
  <2> SUFFICES ASSUME kind = "vector" PROVE HasRoom(changed, mid)
    OBVIOUS
  <2>1. own \in Seq(ItemSet)
    BY DEF Keeps, Shifts
  <2>2. Len(own) \in Nat /\ DOMAIN mid = 1 .. Len(own)
    BY <1>7, <2>1, LenProperties
  <2>3. \A i \in DOMAIN mid : mid[i] \in ItemSet
    <3>1. \A i \in DOMAIN base : base[i] \in ItemSet
      BY <1>1, ElementOfSeq, LenProperties
    <3>2. \A i \in DOMAIN mid : i \in DOMAIN base \cup new /\ mid[i] = IF i \in new THEN own[i] ELSE base[i]
      BY <1>6 DEF Laid
    <3> HIDE DEF mid, base, new
    <3> QED BY <1>1, <1>2, <3>1, <3>2
  <2>4. mid \in Seq(ItemSet)
    <3> HIDE DEF mid
    <3> DEFINE m == Len(own)
    <3>1. m \in Nat /\ DOMAIN mid = 1 .. m
      BY <2>2
    <3> HIDE DEF m
    <3>2. mid = [x \in 1 .. m |-> mid[x]] /\ \A x \in 1 .. m : mid[x] \in ItemSet
      BY <1>7, <2>3, <3>1 DEF IsFunction
    <3> QED BY <3>1, <3>2, ASequence
  <2>5. \A n \in DOMAIN changed : changed[n] \in DOMAIN mid
    BY <1>1, <1>7 DEF Range
  <2> QED BY <2>4, <2>5 DEF HasRoom
<1>9. Took(kind, copy, (r \o a) \o Reads("update", changed, own, Len(changed))) = Laid(own, other, mid)
  <2> DEFINE t == r \o a
  <2>1. t \in Seq(EntrySet) /\ mid = Took(kind, copy, t) /\ IsFunction(mid)
    BY <1>5, <1>7
  <2>2. changed \in Seq(Nat) /\ \A n \in DOMAIN changed : own[changed[n]] \in ItemSet
    BY <1>1, <1>4
  <2>3. kind = "vector" => HasRoom(changed, mid)
    BY <1>8
  <2>4. kind \in {"vector", "sorted", "map", "array"} /\ "update" \in {"add", "update"}
    OBVIOUS
  <2> HIDE DEF t, mid, base, r, a, new, other
  <2>5. Took(kind, copy, t \o Reads("update", changed, own, Len(changed))) = Laid(own, Range(changed), mid)
    BY <2>1, <2>2, <2>3, <2>4, Placements
  <2> QED BY <2>5 DEF t, other
<1>10. Laid(own, other, mid) = own
  <2>1. DOMAIN mid \cup other = DOMAIN own
    BY <1>1, <1>7
  <2>2. \A i \in DOMAIN own : own[i] = IF i \in other THEN own[i] ELSE mid[i]
    <3>1. \A i \in DOMAIN own : mid[i] = IF i \in new THEN own[i] ELSE base[i]
      BY <1>1, <1>6 DEF Laid
    <3> HIDE DEF mid, base, new, other
    <3> QED BY <1>1, <3>1
  <2>3. own = [i \in DOMAIN own |-> own[i]]
    BY DEF Keeps
  <2> HIDE DEF mid, other
  <2> QED BY <2>1, <2>2, <2>3 DEF Laid
<1> QED BY <1>9, <1>10

\* A map's delta has the additions before the removals.
LEMMA MapArrive ==
    ASSUME NEW copy, NEW own, Keeps("map", own),
           NEW added, NEW removed, NEW changed, MapRecord(copy, own, added, removed, changed)
    PROVE  Took("map", copy, (Reads("add", added, own, Len(added)) \o RemovalsOf(removed))
                             \o Reads("update", changed, own, Len(changed))) = own
<1> DEFINE a == Reads("add", added, own, Len(added))
           r == RemovalsOf(removed)
           u == Reads("update", changed, own, Len(changed))
           new == Range(added)
           gone == KeysOf(removed)
           other == Range(changed)
           more == Laid(own, new, copy)
           mid == Lacking(more, gone)
<1>1. /\ added \in Seq(Nat) /\ removed \in Seq(ItemSet) /\ changed \in Seq(Nat)
      /\ IsFunction(copy)
      /\ DOMAIN own = (DOMAIN copy \cup new) \ gone /\ new \subseteq DOMAIN own /\ other \subseteq DOMAIN own
      /\ \A i \in DOMAIN own : (i \in DOMAIN copy /\ own[i] = copy[i]) \/ i \in new \/ i \in other
  BY DEF MapRecord
<1>2. \A i \in DOMAIN own : own[i] \in ItemSet
  BY DEF Keeps
<1>3. (\A n \in DOMAIN added : own[added[n]] \in ItemSet) /\ (\A n \in DOMAIN changed : own[changed[n]] \in ItemSet)
  BY <1>1, <1>2 DEF Range
<1>4. a \in Seq(EntrySet) /\ r \in Seq(EntrySet)
  <2>1. a \in Seq(EntrySet)
    BY <1>1, <1>3, ReadsAll
  <2>2. r \in Seq(EntrySet)
    BY <1>1, RemovalsAre
  <2> QED BY <2>1, <2>2
<1>5. a \o r \in Seq(EntrySet)
  <2> HIDE DEF a, r
  <2> QED BY <1>4, ConcatProperties
<1>6. Took("map", copy, a) = more
  <2>1. <<>> \in Seq(EntrySet) /\ <<>> \o a = a /\ copy = Took("map", copy, <<>>)
    <3>1. <<>> \o a = a
      <4> HIDE DEF a
      <4> QED BY <1>4, ConcatEmptySeq
    <3> QED BY <3>1, TookNone
  <2>2. "map" \in {"vector", "sorted", "map", "array"} /\ "add" \in {"add", "update"} /\ "map" # "vector"
    OBVIOUS
  <2> DEFINE t == <<>>
             start == copy
  <2>3. t \in Seq(EntrySet) /\ start = Took("map", copy, t) /\ t \o a = a /\ IsFunction(start)
    BY <1>1, <2>1
  <2>4. added \in Seq(Nat) /\ \A n \in DOMAIN added : own[added[n]] \in ItemSet
    BY <1>1, <1>3
  <2> HIDE DEF t, start, a, r, u, new, gone, other
  <2>5. Took("map", copy, t \o Reads("add", added, own, Len(added))) = Laid(own, Range(added), start)
    BY <2>2, <2>3, <2>4, Placements
  <2> QED BY <2>3, <2>5 DEF start, a, new
<1>7. Took("map", copy, a \o r) = mid
  <2>1. Lacking(more, {}) = more
    <3>1. more = [x \in DOMAIN more |-> more[x]] /\ DOMAIN more \ {} = DOMAIN more
      BY DEF Laid
    <3> HIDE DEF more
    <3> QED BY <3>1 DEF Lacking, Restrict
  <2> HIDE DEF a, more
  <2>2. Took("map", copy, a \o RemovalsOf(removed)) = Lacking(more, KeysOf(removed))
    BY <1>1, <1>4, <1>6, <2>1, MapRemovals
  <2> QED BY <2>2
<1>8. /\ DOMAIN mid = DOMAIN own /\ IsFunction(mid)
      /\ \A i \in DOMAIN own : mid[i] = IF i \in new THEN own[i] ELSE copy[i]
  <2>1. DOMAIN more = DOMAIN copy \cup new /\ \A i \in DOMAIN more : more[i] = IF i \in new THEN own[i] ELSE copy[i]
    BY DEF Laid
  <2> HIDE DEF more, new, gone
  <2>2. DOMAIN mid = DOMAIN more \ gone /\ IsFunction(mid) /\ \A i \in DOMAIN mid : mid[i] = more[i]
    BY DEF Lacking, Restrict, IsFunction
  <2> HIDE DEF mid
  <2> QED BY <1>1, <2>1, <2>2
<1>9. Took("map", copy, (a \o r) \o u) = Laid(own, other, mid)
  <2> DEFINE t == a \o r
  <2>1. t \in Seq(EntrySet) /\ mid = Took("map", copy, t) /\ IsFunction(mid)
    BY <1>5, <1>7, <1>8
  <2>2. changed \in Seq(Nat) /\ \A n \in DOMAIN changed : own[changed[n]] \in ItemSet
    BY <1>1, <1>3
  <2>3. "map" \in {"vector", "sorted", "map", "array"} /\ "update" \in {"add", "update"} /\ "map" # "vector"
    OBVIOUS
  <2> HIDE DEF t, mid, more, r, a, new, other
  <2>4. Took("map", copy, t \o Reads("update", changed, own, Len(changed))) = Laid(own, Range(changed), mid)
    BY <2>1, <2>2, <2>3, Placements
  <2> QED BY <2>4 DEF t, other
<1>10. Laid(own, other, mid) = own
  <2>1. DOMAIN mid \cup other = DOMAIN own
    BY <1>1, <1>8
  <2> HIDE DEF mid, other, new
  <2>2. \A i \in DOMAIN own : own[i] = IF i \in other THEN own[i] ELSE mid[i]
    BY <1>1, <1>8
  <2>3. own = [i \in DOMAIN own |-> own[i]]
    BY DEF Keeps
  <2> QED BY <2>1, <2>2, <2>3 DEF Laid
<1> QED BY <1>9, <1>10

-----------------------------------------------------------------------------
(* What a change leaves of the items *)

\* All but one item, at the same index or the one before.
LEMMA RemovedAt ==
    ASSUME NEW S, NEW s \in Seq(S), NEW i \in 1 .. Len(s)
    PROVE  /\ RemoveAt(s, i) \in Seq(S) /\ Len(RemoveAt(s, i)) = Len(s) - 1
           /\ \A j \in 1 .. Len(s) - 1 : RemoveAt(s, i)[j] = IF j < i THEN s[j] ELSE s[j + 1]
<1> DEFINE low == SubSeq(s, 1, i - 1)
           high == SubSeq(s, i + 1, Len(s))
<1>1. Len(s) \in Nat /\ i \in Nat /\ \A j \in 1 .. Len(s) : s[j] \in S
  BY LenProperties, ElementOfSeq
<1>2. low \in Seq(S) /\ Len(low) = i - 1 /\ \A j \in 1 .. i - 1 : low[j] = s[j]
  <2>1. 1 \in Int /\ i - 1 \in Int /\ \A j \in 1 .. i - 1 : s[j] \in S
    BY <1>1
  <2>2. /\ low \in Seq(S) /\ Len(low) = IF 1 <= i - 1 THEN (i - 1) - 1 + 1 ELSE 0
        /\ \A j \in 1 .. (i - 1) - 1 + 1 : low[j] = s[1 + j - 1]
    BY <2>1, SubSeqProperties
  <2> HIDE DEF low
  <2>3. \A j \in 1 .. i - 1 : 1 + j - 1 = j /\ j \in 1 .. (i - 1) - 1 + 1
    BY <1>1
  <2> QED BY <1>1, <2>2, <2>3
<1>3. high \in Seq(S) /\ Len(high) = Len(s) - i /\ \A j \in 1 .. Len(s) - i : high[j] = s[i + j]
  <2>1. i + 1 \in Int /\ Len(s) \in Int /\ \A j \in i + 1 .. Len(s) : s[j] \in S
    BY <1>1
  <2>2. /\ high \in Seq(S) /\ Len(high) = IF i + 1 <= Len(s) THEN Len(s) - (i + 1) + 1 ELSE 0
        /\ \A j \in 1 .. Len(s) - (i + 1) + 1 : high[j] = s[(i + 1) + j - 1]
    BY <2>1, SubSeqProperties
  <2> HIDE DEF high
  <2>3. \A j \in 1 .. Len(s) - i : (i + 1) + j - 1 = i + j /\ j \in 1 .. Len(s) - (i + 1) + 1
    BY <1>1
  <2> QED BY <1>1, <2>2, <2>3
<1>4. RemoveAt(s, i) = low \o high
  BY DEF RemoveAt
<1> HIDE DEF low, high
<1>5. /\ low \o high \in Seq(S) /\ Len(low \o high) = Len(low) + Len(high)
      /\ \A j \in 1 .. Len(low) + Len(high) :
            (low \o high)[j] = IF j <= Len(low) THEN low[j] ELSE high[j - Len(low)]
  BY <1>2, <1>3, ConcatProperties
<1>6. ASSUME NEW j \in 1 .. Len(s) - 1
      PROVE  (low \o high)[j] = IF j < i THEN s[j] ELSE s[j + 1]
  <2>1. (low \o high)[j] = IF j <= i - 1 THEN low[j] ELSE high[j - (i - 1)]
    BY <1>1, <1>2, <1>3, <1>5
  <2>2. CASE j < i
    BY <1>1, <1>2, <2>1, <2>2
  <2>3. CASE ~(j < i)
    <3>1. j - (i - 1) \in 1 .. Len(s) - i /\ i + (j - (i - 1)) = j + 1
      BY <1>1, <2>3
    <3> QED BY <1>1, <1>3, <2>1, <2>3, <3>1
  <2> QED BY <2>2, <2>3
<1> QED BY <1>1, <1>2, <1>3, <1>4, <1>5, <1>6

\* An item at a new index, of a key that is not there.
LEMMA WithKeeps ==
    ASSUME NEW kind, NEW own, NEW asked, Keeps(kind, own), AsAsked(own, asked),
           NEW item \in ItemSet, NEW at \in Nat, at \notin DOMAIN own,
           \A i \in DOMAIN own : own[i].key # item.key,
           Shifts(kind) => at = Len(own) + 1, kind = "map" => at = item.key
    PROVE  /\ Keeps(kind, With(own, at, item)) /\ item.key \notin DOMAIN asked
           /\ AsAsked(With(own, at, item), With(asked, item.key, item.value))
<1> DEFINE new == With(own, at, item)
           k == item.key
           w == With(asked, k, item.value)
<1>1. /\ DOMAIN new = DOMAIN own \cup {at} /\ new = [x \in DOMAIN new |-> new[x]]
      /\ new[at] = item /\ \A x \in DOMAIN own : new[x] = own[x]
  BY DEF With
<1>2. /\ DOMAIN w = DOMAIN asked \cup {k} /\ w[k] = item.value
      /\ \A x \in DOMAIN asked : x # k => w[x] = asked[x]
  BY DEF With
<1>3. k \notin DOMAIN asked
  BY DEF AsAsked
<1>4. Shifts(kind) => new \in Seq(ItemSet)
  <2> SUFFICES ASSUME Shifts(kind) PROVE new \in Seq(ItemSet)
    OBVIOUS
  <2> DEFINE n == Len(own) + 1
  <2>1. own \in Seq(ItemSet) /\ Len(own) \in Nat /\ DOMAIN own = 1 .. Len(own) /\ \A i \in 1 .. Len(own) : own[i] \in ItemSet
    BY LenProperties, ElementOfSeq DEF Keeps
  <2>2. n \in Nat /\ DOMAIN new = 1 .. n
    BY <1>1, <2>1
  <2>3. \A i \in 1 .. n : new[i] \in ItemSet
    BY <1>1, <2>1
  <2> HIDE DEF n, new
  <2>4. new = [x \in 1 .. n |-> new[x]]
    BY <1>1, <2>2
  <2> QED BY <2>2, <2>3, <2>4, ASequence
<1>5. IsFiniteSet(DOMAIN new)
  BY <1>1, FS_AddElement DEF Keeps
<1>6. Keeps(kind, new)
  <2>1. \A i \in DOMAIN new : i \in Nat /\ new[i] \in ItemSet
    BY <1>1 DEF Keeps
  <2>2. kind = "map" => \A i \in DOMAIN new : new[i].key = i
    BY <1>1 DEF Keeps
  <2>3. \A i, j \in DOMAIN new : new[i].key = new[j].key => i = j
    BY <1>1 DEF Keeps
  <2> HIDE DEF new
  <2> QED BY <1>1, <1>4, <1>5, <2>1, <2>2, <2>3 DEF Keeps
<1>7. AsAsked(new, w)
  <2> HIDE DEF new, w
  <2>1. ASSUME NEW i \in DOMAIN new PROVE new[i].key \in DOMAIN w /\ w[new[i].key] = new[i].value
    BY <1>1, <1>2, <1>3 DEF AsAsked
  <2>2. ASSUME NEW x \in DOMAIN w PROVE \E i \in DOMAIN new : new[i].key = x
    <3>1. CASE x = k
      BY <1>1, <3>1
    <3>2. CASE x \in DOMAIN asked
      BY <1>1, <3>2 DEF AsAsked
    <3> QED BY <1>2, <3>1, <3>2
  <2> QED BY <2>1, <2>2 DEF AsAsked
<1> QED BY <1>3, <1>6, <1>7

\* One item less.
LEMMA WithoutKeeps ==
    ASSUME NEW kind, NEW own, NEW asked, Keeps(kind, own), AsAsked(own, asked), NEW i \in DOMAIN own
    PROVE  /\ Keeps(kind, Without(kind, own, i))
           /\ AsAsked(Without(kind, own, i), Restrict(asked, DOMAIN asked \ {own[i].key}))
<1> DEFINE new == Without(kind, own, i)
           k == own[i].key
           w == Restrict(asked, DOMAIN asked \ {k})
           From(j) == IF Shifts(kind) /\ ~(j < i) THEN j + 1 ELSE j
           Back(j) == IF Shifts(kind) /\ j > i THEN j - 1 ELSE j
<1>1. /\ IsFiniteSet(DOMAIN new) /\ new = [x \in DOMAIN new |-> new[x]]
      /\ Shifts(kind) => new \in Seq(ItemSet)
      /\ \A j \in DOMAIN new : /\ From(j) \in DOMAIN own /\ From(j) # i /\ new[j] = own[From(j)]
                               /\ j \in Nat
      /\ \A j \in DOMAIN own : j # i => Back(j) \in DOMAIN new /\ From(Back(j)) = j
  <2>1. CASE Shifts(kind)
    <3>1. own \in Seq(ItemSet) /\ Len(own) \in Nat /\ DOMAIN own = 1 .. Len(own)
      BY <2>1, LenProperties DEF Keeps
    <3>2. /\ new \in Seq(ItemSet) /\ Len(new) = Len(own) - 1
          /\ \A j \in 1 .. Len(own) - 1 : new[j] = IF j < i THEN own[j] ELSE own[j + 1]
      BY <2>1, <3>1, RemovedAt DEF Without
    <3> HIDE DEF new
    <3>3. Len(new) \in Nat /\ DOMAIN new = 1 .. Len(own) - 1 /\ new \in [1 .. Len(own) - 1 -> ItemSet]
      BY <3>1, <3>2, LenProperties
    <3>4. IsFiniteSet(DOMAIN new)
      <4>1. 1 \in Int /\ Len(own) - 1 \in Int
        BY <3>1
      <4> QED BY <3>3, <4>1, FS_Interval
    <3>5. new = [x \in DOMAIN new |-> new[x]]
      BY <3>3
    <3>6. \A j \in DOMAIN new : /\ From(j) \in DOMAIN own /\ From(j) # i /\ new[j] = own[From(j)]
                               /\ j \in Nat
      BY <2>1, <3>1, <3>2, <3>3
    <3>7. \A j \in DOMAIN own : j # i => Back(j) \in DOMAIN new /\ From(Back(j)) = j
      BY <2>1, <3>1, <3>3
    <3> QED BY <3>2, <3>4, <3>5, <3>6, <3>7
  <2>2. CASE ~Shifts(kind)
    <3>1. /\ DOMAIN new = DOMAIN own \ {i} /\ new = [x \in DOMAIN new |-> new[x]]
          /\ \A j \in DOMAIN new : new[j] = own[j]
      BY <2>2 DEF Without, Restrict
    <3>2. IsFiniteSet(DOMAIN new)
      BY <3>1, FS_RemoveElement DEF Keeps
    <3>3. \A j \in DOMAIN own : j \in Nat
      BY DEF Keeps
    <3> HIDE DEF new
    <3> QED BY <2>2, <3>1, <3>2, <3>3
  <2> QED BY <2>1, <2>2
<1>2. DOMAIN w = DOMAIN asked \ {k} /\ \A x \in DOMAIN w : w[x] = asked[x]
  BY DEF Restrict
<1> HIDE DEF new, w
<1>3. Keeps(kind, new)
  <2>1. \A j \in DOMAIN new : new[j] \in ItemSet
    <3> HIDE DEF From, Back
    <3> QED BY <1>1 DEF Keeps
  <2>2. kind = "map" => \A j \in DOMAIN new : new[j].key = j
    BY <1>1 DEF Keeps, Shifts
  <2>3. \A j, h \in DOMAIN new : new[j].key = new[h].key => j = h
    <3> SUFFICES ASSUME NEW j \in DOMAIN new, NEW h \in DOMAIN new, new[j].key = new[h].key PROVE j = h
      OBVIOUS
    <3>1. From(j) = From(h)
      <4> HIDE DEF From, Back
      <4> QED BY <1>1 DEF Keeps
    <3>2. i \in Nat
      BY DEF Keeps
    <3> QED BY <1>1, <3>1, <3>2
  <2> HIDE DEF From, Back
  <2> QED BY <1>1, <2>1, <2>2, <2>3 DEF Keeps
<1>4. AsAsked(new, w)
  <2> HIDE DEF From, Back, k
  <2>1. ASSUME NEW j \in DOMAIN new PROVE new[j].key \in DOMAIN w /\ w[new[j].key] = new[j].value
    <3>1. new[j].key # k
      BY <1>1 DEF Keeps, k
    <3> QED BY <1>1, <1>2, <3>1 DEF AsAsked
  <2>2. ASSUME NEW x \in DOMAIN w PROVE \E j \in DOMAIN new : new[j].key = x
    <3>1. PICK h \in DOMAIN own : own[h].key = x
      BY <1>2 DEF AsAsked
    <3>2. h # i
      BY <1>2, <3>1 DEF k
    <3> QED BY <1>1, <3>1, <3>2
  <2> QED BY <2>1, <2>2 DEF AsAsked
<1> QED BY <1>3, <1>4 DEF new, w

\* Another value at an index.
LEMMA UpdateKeeps ==
    ASSUME NEW kind, NEW own, NEW asked, Keeps(kind, own), AsAsked(own, asked), NEW i \in DOMAIN own,
           NEW value \in Nat
    PROVE  /\ Keeps(kind, [own EXCEPT ![i].value = value])
           /\ AsAsked([own EXCEPT ![i].value = value], With(asked, own[i].key, value))
<1> DEFINE new == [own EXCEPT ![i].value = value]
           k == own[i].key
           w == With(asked, k, value)
<1>0. own = [x \in DOMAIN own |-> own[x]] /\ \A j \in DOMAIN own : own[j] \in ItemSet
  BY DEF Keeps
<1>1. /\ DOMAIN new = DOMAIN own /\ new = [x \in DOMAIN new |-> new[x]]
      /\ \A j \in DOMAIN own : /\ new[j] \in ItemSet /\ new[j].key = own[j].key
                               /\ new[j].value = IF j = i THEN value ELSE own[j].value
  <2>1. new = [own EXCEPT ![i] = [own[i] EXCEPT !.value = value]]
    OBVIOUS
  <2>2. \A x \in ItemSet : /\ [x EXCEPT !.value = value] \in ItemSet
                           /\ [x EXCEPT !.value = value].key = x.key
                           /\ [x EXCEPT !.value = value].value = value
    BY DEF ItemSet
  <2>3. DOMAIN new = DOMAIN own /\ new = [x \in DOMAIN new |-> new[x]]
    OBVIOUS
  <2> DEFINE e == [own[i] EXCEPT !.value = value]
  <2>4. \A j \in DOMAIN own : new[j] = IF j = i THEN e ELSE own[j]
    BY <1>0
  <2>5. e \in ItemSet /\ e.key = own[i].key /\ e.value = value
    BY <1>0, <2>2
  <2> HIDE DEF new, e
  <2> QED BY <1>0, <2>3, <2>4, <2>5
<1>2. /\ DOMAIN w = DOMAIN asked \cup {k} /\ w[k] = value
      /\ \A x \in DOMAIN asked : x # k => w[x] = asked[x]
  BY DEF With
<1>3. k \in DOMAIN asked
  BY DEF AsAsked
<1> HIDE DEF new, w
<1>4. Shifts(kind) => new \in Seq(ItemSet)
  <2> SUFFICES ASSUME Shifts(kind) PROVE new \in Seq(ItemSet)
    OBVIOUS
  <2> DEFINE n == Len(own)
  <2>1. own \in Seq(ItemSet) /\ n \in Nat /\ DOMAIN own = 1 .. n
    BY LenProperties DEF Keeps
  <2> HIDE DEF n
  <2>2. new = [x \in 1 .. n |-> new[x]] /\ DOMAIN new = 1 .. n /\ \A j \in 1 .. n : new[j] \in ItemSet
    BY <1>1, <2>1
  <2> QED BY <2>1, <2>2, ASequence
<1>5. Keeps(kind, new)
  BY <1>1, <1>4 DEF Keeps
<1>6. AsAsked(new, w)
  <2>1. ASSUME NEW j \in DOMAIN new PROVE new[j].key \in DOMAIN w /\ w[new[j].key] = new[j].value
    <3>1. CASE j = i
      BY <1>1, <1>2, <3>1
    <3>2. CASE j # i
      <4>1. own[j].key # k
        BY <1>1, <3>2 DEF Keeps
      <4> QED BY <1>1, <1>2, <3>2, <4>1 DEF AsAsked
    <3> QED BY <3>1, <3>2
  <2>2. ASSUME NEW x \in DOMAIN w PROVE \E j \in DOMAIN new : new[j].key = x
    <3> HIDE DEF k
    <3>1. x \in DOMAIN asked
      BY <1>2, <1>3
    <3> QED BY <1>1, <3>1 DEF AsAsked
  <2> QED BY <2>1, <2>2 DEF AsAsked
<1> QED BY <1>5, <1>6 DEF new, w

-----------------------------------------------------------------------------
(* What a change leaves of the record *)

LEMMA AdditionsAre ==
    ASSUME NEW added \in Seq(ItemSet)
    PROVE  Additions(added) \in Seq(EntrySet) /\ Len(Additions(added)) = Len(added)
<1> DEFINE m == Len(added)
           s == Additions(added)
           Entry(y) == [what |-> "add", index |-> y, item |-> y]
<1>1. m \in Nat /\ DOMAIN added = 1 .. m /\ \A i \in 1 .. m : added[i] \in ItemSet
  BY LenProperties, ElementOfSeq
<1>2. \A y \in ItemSet : Entry(y) \in EntrySet
  BY DEF EntrySet
<1>3. DOMAIN s = 1 .. m /\ s = [i \in 1 .. m |-> s[i]] /\ \A i \in 1 .. m : s[i] = Entry(added[i])
  BY <1>1 DEF Additions
<1> HIDE DEF m, s, Entry
<1>4. \A i \in 1 .. m : s[i] \in EntrySet
  BY <1>1, <1>2, <1>3
<1>5. s \in Seq(EntrySet) /\ Len(s) = m
  BY <1>1, <1>3, <1>4, ASequence
<1> QED BY <1>5 DEF m, s

LEMMA AdditionsMore ==
    ASSUME NEW added \in Seq(ItemSet), NEW x \in ItemSet
    PROVE  /\ Additions(added) \in Seq(EntrySet)
           /\ [what |-> "add", index |-> x, item |-> x] \in EntrySet
           /\ Additions(Append(added, x)) = Append(Additions(added), [what |-> "add", index |-> x, item |-> x])
<1> DEFINE m == Len(added)
           s == Additions(added)
           longer == Append(added, x)
           t == Additions(longer)
           Entry(y) == [what |-> "add", index |-> y, item |-> y]
           e == Entry(x)
<1>1. /\ m \in Nat /\ DOMAIN added = 1 .. m /\ DOMAIN longer = 1 .. m + 1
      /\ \A i \in 1 .. m : longer[i] = added[i]
      /\ longer[m + 1] = x
      /\ \A i \in 1 .. m : added[i] \in ItemSet
  BY AppendProperties, LenProperties, ElementOfSeq
<1>2. \A y \in ItemSet : Entry(y) \in EntrySet
  BY DEF EntrySet
<1>3. e \in EntrySet
  BY <1>2
<1>4. /\ DOMAIN s = 1 .. m /\ s = [i \in 1 .. m |-> s[i]]
      /\ \A i \in 1 .. m : s[i] = Entry(added[i])
  BY <1>1 DEF Additions
<1>5. /\ DOMAIN t = 1 .. m + 1 /\ t = [i \in 1 .. m + 1 |-> t[i]]
      /\ \A i \in 1 .. m + 1 : t[i] = Entry(longer[i])
  BY <1>1 DEF Additions
<1>6. \A i \in 1 .. m + 1 : i \in 1 .. m \/ i = m + 1
  BY <1>1
<1>7. m + 1 \in Nat /\ (\A i \in 1 .. m : i \in 1 .. m + 1) /\ m + 1 \in 1 .. m + 1
  BY <1>1
<1> HIDE DEF m, s, t, longer, Entry
<1>8. s \in Seq(EntrySet) /\ Len(s) = m
  <2>1. \A i \in 1 .. m : s[i] \in EntrySet
    BY <1>1, <1>2, <1>4
  <2> QED BY <1>1, <1>4, <2>1, ASequence
<1>9. t \in Seq(EntrySet) /\ Len(t) = m + 1
  <2>1. \A i \in 1 .. m + 1 : t[i] \in EntrySet
    BY <1>1, <1>2, <1>3, <1>5, <1>6
  <2> QED BY <1>7, <1>5, <2>1, ASequence
<1> HIDE DEF e
<1>10. /\ Append(s, e) \in Seq(EntrySet) /\ Len(Append(s, e)) = m + 1
       /\ \A i \in 1 .. m : Append(s, e)[i] = s[i]
       /\ Append(s, e)[m + 1] = e
  BY <1>3, <1>8, AppendProperties
<1>11. \A i \in 1 .. m + 1 : t[i] = Append(s, e)[i]
  BY <1>1, <1>4, <1>5, <1>6, <1>7, <1>10 DEF e
<1>12. t = Append(s, e)
  BY <1>9, <1>10, <1>11, SeqEqual
<1> QED BY <1>3, <1>8, <1>12 DEF e, Entry, s, t, longer

LEMMA RangeMore ==
    ASSUME NEW S, NEW record \in Seq(S), NEW x \in S
    PROVE  Range(Append(record, x)) = Range(record) \cup {x}
<1> DEFINE m == Len(record)
           longer == Append(record, x)
<1>1. /\ m \in Nat /\ DOMAIN record = 1 .. m /\ DOMAIN longer = 1 .. m + 1
      /\ \A i \in 1 .. m : longer[i] = record[i]
      /\ longer[m + 1] = x
  BY AppendProperties, LenProperties
<1>2. \A i \in 1 .. m + 1 : i \in 1 .. m \/ i = m + 1
  BY <1>1
<1> HIDE DEF m, longer
<1>3. ASSUME NEW y \in Range(longer) PROVE y \in Range(record) \cup {x}
  BY <1>1, <1>2, <1>3 DEF Range
<1>4. ASSUME NEW y \in Range(record) \cup {x} PROVE y \in Range(longer)
  <2>1. (\A i \in 1 .. m : i \in 1 .. m + 1) /\ m + 1 \in 1 .. m + 1
    BY <1>1
  <2> QED BY <1>1, <2>1, <1>4 DEF Range
<1> QED BY <1>3, <1>4 DEF longer

LEMMA KeysMore ==
    ASSUME NEW removed \in Seq(ItemSet), NEW x \in ItemSet
    PROVE  KeysOf(Append(removed, x)) = KeysOf(removed) \cup {x.key}
<1> DEFINE m == Len(removed)
           longer == Append(removed, x)
<1>1. /\ m \in Nat /\ DOMAIN removed = 1 .. m /\ DOMAIN longer = 1 .. m + 1
      /\ \A i \in 1 .. m : longer[i] = removed[i]
      /\ longer[m + 1] = x
  BY AppendProperties, LenProperties
<1>2. \A i \in 1 .. m + 1 : i \in 1 .. m \/ i = m + 1
  BY <1>1
<1> HIDE DEF m, longer
<1>3. ASSUME NEW y \in KeysOf(longer) PROVE y \in KeysOf(removed) \cup {x.key}
  BY <1>1, <1>2, <1>3 DEF KeysOf
<1>4. ASSUME NEW y \in KeysOf(removed) \cup {x.key} PROVE y \in KeysOf(longer)
  <2>1. (\A i \in 1 .. m : i \in 1 .. m + 1) /\ m + 1 \in 1 .. m + 1
    BY <1>1
  <2> QED BY <1>1, <2>1, <1>4 DEF KeysOf
<1> QED BY <1>3, <1>4 DEF longer

\* What is recorded makes what the container has out of the client's copy.
Accounts(kind, copy, own, added, removed, changed) ==
    CASE kind = "list" -> ListRecord(copy, own, added, removed) /\ changed = <<>>
      [] kind = "map" -> MapRecord(copy, own, added, removed, changed)
      [] OTHER -> IndexRecord(kind, copy, own, added, removed, changed)

LEMMA NothingMore ==
    ASSUME NEW kind, NEW own, Keeps(kind, own)
    PROVE  Accounts(kind, own, own, <<>>, <<>>, <<>>)
<1>1. /\ RemovalsOf(<<>>) = <<>> /\ Additions(<<>>) = <<>> /\ <<>> \o <<>> = <<>>
      /\ KeysOf(<<>>) = {} /\ Range(<<>>) = {}
      /\ <<>> \in Seq(Nat) /\ <<>> \in Seq(ItemSet)
  BY DEF RemovalsOf, Additions, KeysOf, Range
<1>2. Took(kind, own, <<>>) = own /\ Took("list", own, <<>>) = own
  BY TookNone
<1>3. IsFunction(own)
  BY DEF Keeps, IsFunction
<1>4. kind = "vector" => own \in Seq(ItemSet) /\ \A n \in DOMAIN <<>> : <<>>[n] = Len(own) + n
  BY DEF Keeps, Shifts
<1> DEFINE none == <<>>
<1>5. /\ RemovalsOf(none) = none /\ Additions(none) = none /\ none \o none = none
      /\ KeysOf(none) = {} /\ Range(none) = {}
      /\ none \in Seq(Nat) /\ none \in Seq(ItemSet)
      /\ Took(kind, own, none) = own /\ Took("list", own, none) = own
      /\ kind = "vector" => own \in Seq(ItemSet) /\ \A n \in DOMAIN none : none[n] = Len(own) + n
  BY <1>1, <1>2, <1>4
<1>6. Accounts(kind, own, own, none, none, none) /\ none = <<>>
  <2>1. none = <<>>
    OBVIOUS
  <2> HIDE DEF none
  <2> QED BY <1>3, <1>5, <2>1 DEF Accounts, ListRecord, MapRecord, IndexRecord
<1> QED BY <1>6

\* A map makes room for a key after no removal.
LEMMA AddAccounts ==
    ASSUME NEW kind \in {"list", "vector", "sorted", "map"}, NEW copy, NEW own, Keeps(kind, own),
           NEW added, NEW removed, NEW changed, Accounts(kind, copy, own, added, removed, changed),
           NEW item \in ItemSet, NEW at \in Nat, at \notin DOMAIN own,
           Shifts(kind) => at = Len(own) + 1, kind = "map" => removed = <<>>
    PROVE  Accounts(kind, copy, With(own, at, item),
                    Append(added, IF kind = "list" THEN item ELSE at), removed, changed)
<1> DEFINE new == With(own, at, item)
<1>0. DOMAIN new = DOMAIN own \cup {at} /\ new[at] = item /\ \A x \in DOMAIN own : new[x] = own[x]
  BY DEF With
<1>1. CASE kind = "list"
  <2>1. /\ added \in Seq(ItemSet) /\ removed \in Seq(ItemSet) /\ changed = <<>>
        /\ Took("list", copy, RemovalsOf(removed) \o Additions(added)) = own
    BY <1>1 DEF Accounts, ListRecord
  <2>2. new = Append(own, item)
    <3>1. own \in Seq(ItemSet) /\ Len(own) \in Nat /\ DOMAIN own = 1 .. Len(own) /\ at = Len(own) + 1
      BY <1>1, LenProperties DEF Keeps, Shifts
    <3>2. /\ Append(own, item) \in [1 .. Len(own) + 1 -> ItemSet]
          /\ \A i \in 1 .. Len(own) : Append(own, item)[i] = own[i]
          /\ Append(own, item)[Len(own) + 1] = item
      <4> DEFINE longer == Append(own, item)
      <4>1. /\ longer \in Seq(ItemSet) /\ Len(longer) = Len(own) + 1
            /\ \A i \in 1 .. Len(own) : longer[i] = own[i]
            /\ longer[Len(own) + 1] = item
        BY <3>1, AppendProperties
      <4> HIDE DEF longer
      <4>2. longer \in [1 .. Len(longer) -> ItemSet]
        BY <4>1, LenProperties
      <4> QED BY <4>1, <4>2 DEF longer
    <3>3. DOMAIN new = 1 .. Len(own) + 1 /\ new = [x \in DOMAIN new |-> new[x]]
      BY <3>1 DEF With
    <3>4. \A x \in 1 .. Len(own) + 1 : new[x] = Append(own, item)[x]
      BY <1>0, <3>1, <3>2
    <3> HIDE DEF new
    <3> QED BY <3>2, <3>3, <3>4
  <2> DEFINE r == RemovalsOf(removed)
             a == Additions(added)
             b == Additions(Append(added, item))
             e == [what |-> "add", index |-> item, item |-> item]
  <2>3. r \in Seq(EntrySet)
    BY <2>1, RemovalsAre
  <2>4. a \in Seq(EntrySet) /\ e \in EntrySet /\ b = Append(a, e)
    BY <2>1, AdditionsMore
  <2>5. Took("list", copy, r \o b) = Applied("list", own, e)
    <3> DEFINE v == r \o a
    <3> HIDE DEF r, a, b, e
    <3>1. r \o b = Append(v, e) /\ v \in Seq(EntrySet)
      BY <2>3, <2>4, AppendToBoth
    <3>2. Took("list", copy, v) = own
      BY <2>1 DEF r, a
    <3> HIDE DEF v
    <3> QED BY <2>4, <3>1, <3>2, TookOneMore
  <2>6. Applied("list", own, e) = Append(own, item)
    BY DEF Applied, Placed
  <2>7. Append(added, item) \in Seq(ItemSet)
    BY <2>1, AppendProperties
  <2>8. ListRecord(copy, new, Append(added, item), removed)
    <3> HIDE DEF new
    <3> QED BY <2>1, <2>2, <2>5, <2>6, <2>7 DEF ListRecord
  <2> QED BY <1>1, <2>1, <2>8 DEF Accounts
<1>2. CASE kind = "map"
  <2>1. MapRecord(copy, own, added, removed, changed) /\ removed = <<>>
    BY <1>2 DEF Accounts
  <2>2. Range(Append(added, at)) = Range(added) \cup {at} /\ Append(added, at) \in Seq(Nat)
    BY <2>1, RangeMore, AppendProperties DEF MapRecord
  <2>3. KeysOf(removed) = {}
    BY <2>1 DEF KeysOf
  <2>4. MapRecord(copy, new, Append(added, at), removed, changed)
    <3> HIDE DEF new
    <3> QED BY <1>0, <2>1, <2>2, <2>3 DEF MapRecord
  <2> QED BY <1>2, <2>4 DEF Accounts
<1>3. CASE kind \in {"vector", "sorted"}
  <2>1. IndexRecord(kind, copy, own, added, removed, changed)
    BY <1>3 DEF Accounts
  <2> DEFINE base == Took(kind, copy, RemovalsOf(removed))
  <2>2. /\ added \in Seq(Nat) /\ removed \in Seq(Nat) /\ changed \in Seq(Nat)
        /\ IsFunction(base)
        /\ DOMAIN own = DOMAIN base \cup Range(added) /\ Range(changed) \subseteq DOMAIN own
        /\ \A i \in DOMAIN base : own[i] = base[i] \/ i \in Range(added) \/ i \in Range(changed)
        /\ kind = "vector" => base \in Seq(ItemSet) /\ \A n \in DOMAIN added : added[n] = Len(base) + n
    BY <2>1 DEF IndexRecord
  <2>3. Range(Append(added, at)) = Range(added) \cup {at} /\ Append(added, at) \in Seq(Nat)
    <3>1. added \in Seq(Nat)
      BY <2>2
    <3> QED BY <3>1, RangeMore, AppendProperties
  <2>4. kind = "vector" => \A n \in DOMAIN Append(added, at) : Append(added, at)[n] = Len(base) + n
    <3> SUFFICES ASSUME kind = "vector"
                 PROVE  \A n \in DOMAIN Append(added, at) : Append(added, at)[n] = Len(base) + n
      OBVIOUS
    <3>1. /\ Len(base) \in Nat /\ DOMAIN base = 1 .. Len(base)
          /\ Len(added) \in Nat /\ DOMAIN added = 1 .. Len(added)
          /\ Len(own) \in Nat /\ DOMAIN own = 1 .. Len(own) /\ at = Len(own) + 1
      BY <2>2, LenProperties DEF Keeps, Shifts
    <3> HIDE DEF base
    <3>2. \A x \in DOMAIN own : x <= Len(base) + Len(added)
      BY <2>2, <3>1 DEF Range
    <3>3. Len(base) + Len(added) = 0 \/ Len(base) + Len(added) \in DOMAIN own
      <4>1. CASE Len(added) = 0
        BY <2>2, <3>1, <4>1
      <4>2. CASE Len(added) # 0
        <5>1. Len(added) \in DOMAIN added
          BY <3>1, <4>2
        <5>2. added[Len(added)] = Len(base) + Len(added)
          BY <2>2, <5>1
        <5> QED BY <2>2, <5>1, <5>2 DEF Range
      <4> QED BY <4>1, <4>2
    <3>4. Len(own) = Len(base) + Len(added)
      <4> DEFINE p == Len(own)
                 q == Len(base) + Len(added)
      <4>1. p \in Nat /\ q \in Nat /\ DOMAIN own = 1 .. p
        BY <3>1
      <4>2. (\A x \in 1 .. p : x <= q) /\ (q = 0 \/ q \in 1 .. p)
        BY <3>1, <3>2, <3>3
      <4> HIDE DEF p, q
      <4>3. p = q
        BY <4>1, <4>2
      <4> QED BY <4>3 DEF p, q
    <3>5. /\ DOMAIN Append(added, at) = 1 .. Len(added) + 1
          /\ \A n \in 1 .. Len(added) : Append(added, at)[n] = added[n]
          /\ Append(added, at)[Len(added) + 1] = at
      BY <2>2, <3>1, AppendProperties, LenProperties
    <3>6. ASSUME NEW n \in DOMAIN Append(added, at) PROVE Append(added, at)[n] = Len(base) + n
      <4>1. CASE n = Len(added) + 1
        BY <3>1, <3>4, <3>5, <4>1
      <4>2. CASE n \in 1 .. Len(added)
        BY <2>2, <3>1, <3>5, <4>2
      <4> QED BY <3>1, <3>5, <4>1, <4>2
    <3> QED BY <3>6
  <2>5. IndexRecord(kind, copy, new, Append(added, at), removed, changed)
    <3> HIDE DEF new
    <3> QED BY <1>0, <2>2, <2>3, <2>4 DEF IndexRecord
  <2> QED BY <1>3, <2>5 DEF Accounts
<1> QED BY <1>1, <1>2, <1>3

\* A map has not added what is taken away; the others have added nothing.
LEMMA RemoveAccounts ==
    ASSUME NEW kind \in {"list", "vector", "sorted", "map"}, NEW copy, NEW own, Keeps(kind, own),
           NEW added, NEW removed, Accounts(kind, copy, own, added, removed, <<>>),
           NEW i \in DOMAIN own, Keeps(kind, Without(kind, own, i)),
           kind # "map" => added = <<>>, kind = "map" => i \notin Range(added)
    PROVE  Accounts(kind, copy, Without(kind, own, i), added,
                    Append(removed, IF kind \in {"list", "map"} THEN own[i] ELSE i), <<>>)
<1> DEFINE new == Without(kind, own, i)
           r == RemovalsOf(removed)
<1>0. i \in Nat /\ own[i] \in ItemSet /\ IsFunction(own) /\ IsFunction(new)
  BY DEF Keeps, IsFunction
<1>1. CASE kind = "list"
  <2> DEFINE x == own[i]
  <2>1. /\ removed \in Seq(ItemSet) /\ added = <<>> /\ added \in Seq(ItemSet)
        /\ Took("list", copy, r \o Additions(added)) = own
    BY <1>1 DEF Accounts, ListRecord
  <2>2. Additions(added) = <<>>
    BY <2>1 DEF Additions
  <2>3. r \in Seq(EntrySet)
    BY <2>1, RemovalsAre
  <2>4. Took("list", copy, r) = own
    <3> HIDE DEF r
    <3> QED BY <2>1, <2>2, <2>3, ConcatEmptySeq
  <2>5. /\ RemovalsOf(Append(removed, x)) = Append(r, Removal(x)) /\ Removal(x) \in EntrySet
        /\ Append(removed, x) \in Seq(ItemSet)
    <3> HIDE DEF x
    <3>1. x \in ItemSet
      BY <1>0 DEF x
    <3> QED BY <2>1, <3>1, RemovalsMore, AppendProperties
  <2>6. Took("list", copy, Append(r, Removal(x))) = Applied("list", own, Removal(x))
    <3> DEFINE e == Removal(x)
    <3>1. e \in EntrySet
      BY <2>5
    <3> HIDE DEF r, e
    <3>2. Took("list", copy, Append(r, e)) = Applied("list", own, e)
      BY <2>3, <2>4, <3>1, TookOneMore
    <3> QED BY <3>2 DEF e
  <2>7. Applied("list", own, Removal(x)) = new
    <3>1. PositionOf(own, x) = {i}
      BY DEF PositionOf, Keeps
    <3>2. Removal(x).item = x /\ Removal(x).what = "remove"
      BY DEF Removal
    <3>3. {i} \cap DOMAIN own = {i} /\ {i} # {} /\ (CHOOSE j \in {i} : TRUE) = i
      OBVIOUS
    <3> HIDE DEF x
    <3>4. Removed("list", own, Removal(x)) = Without("list", own, i)
      BY <3>1, <3>2, <3>3 DEF Removed
    <3> QED BY <1>1, <3>2, <3>4 DEF Applied
  <2>8. Append(r, Removal(x)) \in Seq(EntrySet)
    BY <2>3, <2>5, AppendProperties
  <2>9. Took("list", copy, RemovalsOf(Append(removed, x)) \o Additions(added)) = new
    <3> DEFINE s == Append(r, Removal(x))
    <3>1. s \o <<>> = s
      <4> HIDE DEF s
      <4> QED BY <2>8, ConcatEmptySeq DEF s
    <3> QED BY <2>2, <2>5, <2>6, <2>7, <3>1
  <2>10. ListRecord(copy, new, added, Append(removed, x))
    <3> HIDE DEF new, x
    <3> QED BY <2>1, <2>5, <2>9 DEF ListRecord
  <2> QED BY <1>1, <2>10 DEF Accounts
<1>2. CASE kind = "map"
  <2> DEFINE x == own[i]
  <2>1. MapRecord(copy, own, added, removed, <<>>)
    BY <1>2 DEF Accounts
  <2>2. x.key = i
    BY <1>2 DEF Keeps
  <2>3. KeysOf(Append(removed, x)) = KeysOf(removed) \cup {i} /\ Append(removed, x) \in Seq(ItemSet)
    <3>1. removed \in Seq(ItemSet) /\ x \in ItemSet
      BY <1>0, <2>1 DEF MapRecord
    <3> HIDE DEF x
    <3> QED BY <2>2, <3>1, KeysMore, AppendProperties
  <2>4. DOMAIN new = DOMAIN own \ {i} /\ \A j \in DOMAIN new : new[j] = own[j]
    BY <1>2 DEF Without, Shifts, Restrict
  <2>5. i \notin Range(added) /\ Range(<<>>) = {}
    BY <1>2 DEF Range
  <2>6. MapRecord(copy, new, added, Append(removed, x), <<>>)
    <3> DEFINE none == <<>>
    <3>1. MapRecord(copy, own, added, removed, none) /\ Range(none) = {}
      BY <2>1, <2>5
    <3> HIDE DEF new, x, none
    <3>2. MapRecord(copy, new, added, Append(removed, x), none)
      BY <2>3, <2>4, <2>5, <3>1 DEF MapRecord
    <3> QED BY <3>2 DEF none
  <2> QED BY <1>2, <2>6 DEF Accounts
<1>3. CASE kind \in {"vector", "sorted"}
  <2> DEFINE base == Took(kind, copy, r)
             none == <<>>
  <2>1. IndexRecord(kind, copy, own, none, removed, none)
    BY <1>3 DEF Accounts
  <2>2. Range(none) = {} /\ none \in Seq(Nat) /\ \A n \in DOMAIN none : FALSE
    BY DEF Range
  <2> HIDE DEF none
  <2>3. /\ removed \in Seq(Nat) /\ IsFunction(base) /\ DOMAIN own = DOMAIN base
        /\ \A j \in DOMAIN base : own[j] = base[j]
    BY <2>1, <2>2 DEF IndexRecord
  <2>4. r \in Seq(EntrySet)
    BY <2>3, RemovalsAre
  <2>5. base = own
    <3> HIDE DEF base
    <3> QED BY <1>0, <2>3 DEF IsFunction
  <2>6. /\ RemovalsOf(Append(removed, i)) = Append(r, Removal(i)) /\ Removal(i) \in EntrySet
        /\ Append(removed, i) \in Seq(Nat)
    BY <1>0, <2>3, RemovalsMore, AppendProperties
  <2>7. Took(kind, copy, Append(r, Removal(i))) = Applied(kind, own, Removal(i))
    <3> DEFINE e == Removal(i)
    <3>1. e \in EntrySet /\ Took(kind, copy, r) = own
      BY <2>5, <2>6
    <3> HIDE DEF r, e
    <3>2. Took(kind, copy, Append(r, e)) = Applied(kind, own, e)
      BY <2>4, <3>1, TookOneMore
    <3> QED BY <3>2 DEF e
  <2>8. Applied(kind, own, Removal(i)) = new
    <3>1. Removal(i).index = i /\ Removal(i).what = "remove"
      BY DEF Removal
    <3>2. {i} \cap DOMAIN own = {i} /\ {i} # {} /\ (CHOOSE j \in {i} : TRUE) = i
      OBVIOUS
    <3>3. Removed(kind, own, Removal(i)) = Without(kind, own, i)
      BY <1>3, <3>1, <3>2 DEF Removed
    <3> QED BY <3>1, <3>3 DEF Applied
  <2>9. Took(kind, copy, RemovalsOf(Append(removed, i))) = new
    BY <2>6, <2>7, <2>8
  <2>10. kind = "vector" => new \in Seq(ItemSet)
    BY DEF Keeps, Shifts
  <2>11. IndexRecord(kind, copy, new, none, Append(removed, i), none)
    <3> HIDE DEF new, base, r
    <3> QED BY <1>0, <2>2, <2>6, <2>9, <2>10 DEF IndexRecord
  <2>12. IndexRecord(kind, copy, new, added, Append(removed, i), <<>>)
    BY <1>3, <2>11 DEF none
  <2> QED BY <1>3, <2>12 DEF Accounts
<1> QED BY <1>1, <1>2, <1>3

LEMMA UpdateAccounts ==
    ASSUME NEW kind \in {"vector", "sorted", "map", "array"}, NEW copy, NEW own, Keeps(kind, own),
           NEW added, NEW removed, NEW changed, Accounts(kind, copy, own, added, removed, changed),
           NEW i \in DOMAIN own, NEW value
    PROVE  Accounts(kind, copy, [own EXCEPT ![i].value = value], added, removed, Append(changed, i))
<1> DEFINE new == [own EXCEPT ![i].value = value]
<1>1. DOMAIN new = DOMAIN own /\ \A j \in DOMAIN own : j # i => new[j] = own[j]
  OBVIOUS
<1>2. i \in Nat
  BY DEF Keeps
<1>3. CASE kind = "map"
  <2>1. MapRecord(copy, own, added, removed, changed)
    BY <1>3 DEF Accounts
  <2>2. Range(Append(changed, i)) = Range(changed) \cup {i} /\ Append(changed, i) \in Seq(Nat)
    BY <1>2, <2>1, RangeMore, AppendProperties DEF MapRecord
  <2>3. MapRecord(copy, new, added, removed, Append(changed, i))
    <3> HIDE DEF new
    <3> QED BY <1>1, <2>1, <2>2 DEF MapRecord
  <2> QED BY <1>3, <2>3 DEF Accounts
<1>4. CASE kind # "map"
  <2>1. IndexRecord(kind, copy, own, added, removed, changed)
    BY <1>4 DEF Accounts
  <2>2. Range(Append(changed, i)) = Range(changed) \cup {i} /\ Append(changed, i) \in Seq(Nat)
    <3>1. changed \in Seq(Nat)
      BY <2>1 DEF IndexRecord
    <3> QED BY <1>2, <3>1, RangeMore, AppendProperties
  <2>3. IndexRecord(kind, copy, new, added, removed, Append(changed, i))
    <3> DEFINE base == Took(kind, copy, RemovalsOf(removed))
    <3>1. /\ added \in Seq(Nat) /\ removed \in Seq(Nat) /\ changed \in Seq(Nat)
          /\ IsFunction(base)
          /\ DOMAIN own = DOMAIN base \cup Range(added) /\ Range(changed) \subseteq DOMAIN own
          /\ \A j \in DOMAIN base : own[j] = base[j] \/ j \in Range(added) \/ j \in Range(changed)
          /\ kind = "vector" => base \in Seq(ItemSet) /\ \A n \in DOMAIN added : added[n] = Len(base) + n
      BY <2>1 DEF IndexRecord
    <3>2. \A j \in DOMAIN base : new[j] = base[j] \/ j \in Range(added) \/ j \in Range(Append(changed, i))
      <4> HIDE DEF new, base
      <4> QED BY <1>1, <2>2, <3>1
    <3> HIDE DEF new
    <3> QED BY <1>1, <2>2, <3>1, <3>2 DEF IndexRecord
  <2> QED BY <1>4, <2>3 DEF Accounts
<1> QED BY <1>3, <1>4

-----------------------------------------------------------------------------
(* The invariant *)

ChangeSet == [what : {"add", "lose", "remove", "update", "clear", "reinstall", "reset"}, key : Nat]

RankOf(kind, what) ==
    CASE what = "remove" -> IF kind = "map" THEN 2 ELSE 1
      [] what = "add" -> IF kind = "map" THEN 1 ELSE 2
      [] OTHER -> 3

Earlier(kind, c, d) ==
    /\ RankOf(kind, c.what) <= RankOf(kind, d.what)
    /\ ~(kind = "map" /\ c = [d EXCEPT !.what = "add"] /\ d.what = "remove")

\* The changes are in the order in which a delta lists them.
InOrder(kind, calls) ==
    /\ \A n \in DOMAIN calls : calls[n].what \in {"add", "remove", "update"}
    /\ \A n, o \in DOMAIN calls : n < o => Earlier(kind, calls[n], calls[o])

Alone(calls, what) == Len(calls) = 1 /\ calls[1].what = what

\* Nothing is recorded that no change asked for.
Matches(kind, added, removed, changed, calls) ==
    /\ (\A n \in DOMAIN calls : calls[n].what # "add") => added = <<>>
    /\ (\A n \in DOMAIN calls : calls[n].what # "remove") => removed = <<>>
    /\ (\A n \in DOMAIN calls : calls[n].what # "update") => changed = <<>>
    /\ kind = "map" =>
        \A k \in Range(added) : \E n \in DOMAIN calls : calls[n].what = "add" /\ calls[n].key = k

Recording ==
    /\ ~clear /\ ~reinstall
    /\ Keeps(container, items) /\ AsAsked(items, wanted)
    /\ Matches(container, items_added, items_removed, items_changed, changes)
    /\ Accounts(container, shown, items, items_added, items_removed, items_changed)

NothingRecorded == items_added = <<>> /\ items_removed = <<>> /\ items_changed = <<>>

\* After a clearing or a reinstallation alone.
Cleared ==
    NothingRecorded /\ clear /\ ~reinstall /\ wanted = Empty /\ (container = "vector" \/ items = Empty)
Reinstalled ==
    /\ container \in {"vector", "map"}
    /\ NothingRecorded /\ ~clear /\ reinstall /\ Keeps(container, items) /\ AsAsked(items, wanted)

CopyInv ==
    /\ container \in {"list", "vector", "sorted", "map", "array"}
    /\ changes \in Seq(ChangeSet) /\ orderly \in BOOLEAN
    /\ orderly /\ changes = <<>> => shown = items
    /\ orderly /\ InOrder(container, changes) => Recording
    /\ orderly /\ Alone(changes, "clear") /\ container # "list" => Cleared
    /\ orderly /\ Alone(changes, "reinstall") => Reinstalled

LEMMA OrderMore ==
    ASSUME NEW kind, NEW calls \in Seq(ChangeSet), NEW c \in ChangeSet
    PROVE  /\ Append(calls, c) \in Seq(ChangeSet) /\ Append(calls, c) # <<>>
           /\ InOrder(kind, Append(calls, c)) =>
                /\ c.what \in {"add", "remove", "update"} /\ InOrder(kind, calls)
                /\ \A n \in DOMAIN calls : Earlier(kind, calls[n], c)
           /\ \A what : Alone(Append(calls, c), what) => calls = <<>> /\ c.what = what
<1> DEFINE m == Len(calls)
           longer == Append(calls, c)
<1>1. /\ longer \in Seq(ChangeSet) /\ longer # <<>> /\ Len(longer) = m + 1
      /\ (\A i \in 1 .. m : longer[i] = calls[i]) /\ longer[m + 1] = c
  BY AppendProperties
<1>2. m \in Nat /\ DOMAIN calls = 1 .. m
  BY LenProperties
<1> HIDE DEF longer
<1>3. DOMAIN longer = 1 .. m + 1
  BY <1>1, LenProperties
<1>4. m = 0 => calls = <<>>
  BY <1>2, EmptySeq
<1> HIDE DEF m
<1>5. m + 1 \in 1 .. m + 1 /\ \A i \in 1 .. m : i \in 1 .. m + 1 /\ i < m + 1
  BY <1>2
<1>6. ASSUME InOrder(kind, longer)
      PROVE  /\ c.what \in {"add", "remove", "update"} /\ InOrder(kind, calls)
             /\ \A n \in DOMAIN calls : Earlier(kind, calls[n], c)
  <2>1. /\ \A n \in 1 .. m + 1 : longer[n].what \in {"add", "remove", "update"}
        /\ \A n, o \in 1 .. m + 1 : n < o => Earlier(kind, longer[n], longer[o])
    BY <1>3, <1>6 DEF InOrder
  <2>2. InOrder(kind, calls)
    BY <1>1, <1>2, <1>5, <2>1 DEF InOrder
  <2>3. \A n \in DOMAIN calls : Earlier(kind, calls[n], c)
    BY <1>1, <1>2, <1>5, <2>1
  <2> QED BY <1>1, <1>5, <2>1, <2>2, <2>3
<1>7. ASSUME NEW what, Alone(longer, what) PROVE calls = <<>> /\ c.what = what
  <2>1. m = 0 /\ longer[1].what = what
    BY <1>1, <1>2, <1>7 DEF Alone
  <2> QED BY <1>1, <1>4, <2>1
<1> QED BY <1>1, <1>6, <1>7 DEF longer

LEMMA MatchesMore ==
    ASSUME NEW kind, NEW calls \in Seq(ChangeSet), NEW c \in ChangeSet,
           NEW added, NEW removed, NEW changed, Matches(kind, added, removed, changed, calls),
           NEW a, NEW r, NEW u,
           c.what = "add" \/ a = added, c.what = "remove" \/ r = removed, c.what = "update" \/ u = changed,
           kind = "map" => \A k \in Range(a) : k \in Range(added) \/ (c.what = "add" /\ c.key = k)
    PROVE  Matches(kind, a, r, u, Append(calls, c))
<1> DEFINE m == Len(calls)
           longer == Append(calls, c)
<1>1. (\A i \in 1 .. m : longer[i] = calls[i]) /\ longer[m + 1] = c
  BY AppendProperties
<1>2. m \in Nat /\ DOMAIN calls = 1 .. m /\ DOMAIN longer = 1 .. m + 1
  BY AppendProperties, LenProperties
<1> HIDE DEF m, longer
<1>3. m + 1 \in DOMAIN longer /\ longer[m + 1] = c
      /\ \A i \in DOMAIN calls : i \in DOMAIN longer /\ longer[i] = calls[i]
  BY <1>1, <1>2
<1>4. (\A n \in DOMAIN longer : longer[n].what # "add") => a = <<>>
  BY <1>3 DEF Matches
<1>5. (\A n \in DOMAIN longer : longer[n].what # "remove") => r = <<>>
  BY <1>3 DEF Matches
<1>6. (\A n \in DOMAIN longer : longer[n].what # "update") => u = <<>>
  BY <1>3 DEF Matches
<1>7. ASSUME kind = "map", NEW k \in Range(a)
      PROVE  \E n \in DOMAIN longer : longer[n].what = "add" /\ longer[n].key = k
  <2>1. CASE k \in Range(added)
    BY <1>3, <1>7, <2>1 DEF Matches
  <2>2. CASE c.what = "add" /\ c.key = k
    BY <1>3, <2>2
  <2> QED BY <1>7, <2>1, <2>2
<1> QED BY <1>4, <1>5, <1>6, <1>7 DEF Matches, longer

\* A change leaves the invariant if it keeps what is recorded in order.
LEMMA AfterChange ==
    ASSUME CopyInv, NEW c \in ChangeSet, Change(c.what, c.key),
           orderly /\ InOrder(container, changes) /\ InOrder(container, Append(changes, c)) => Recording',
           orderly /\ c.what = "clear" /\ changes = <<>> /\ container # "list" => Cleared',
           orderly /\ c.what = "reinstall" /\ changes = <<>> => Reinstalled'
    PROVE  CopyInv'
<1>1. /\ changes' = Append(changes, c) /\ container' = container /\ orderly' = orderly /\ shown' = shown
      /\ changes \in Seq(ChangeSet)
  <2>1. c = [what |-> c.what, key |-> c.key]
    BY DEF ChangeSet
  <2> QED BY <2>1 DEF Change, CopyInv
<1>2. /\ changes' \in Seq(ChangeSet) /\ changes' # <<>>
      /\ InOrder(container, changes') => InOrder(container, changes)
      /\ \A what : Alone(changes', what) => changes = <<>> /\ c.what = what
  BY <1>1, OrderMore
<1>3. orderly' /\ InOrder(container', changes') => Recording'
  BY <1>1, <1>2
<1>4. orderly' /\ Alone(changes', "clear") /\ container' # "list" => Cleared'
  BY <1>1, <1>2
<1>5. orderly' /\ Alone(changes', "reinstall") => Reinstalled'
  BY <1>1, <1>2
<1> QED BY <1>1, <1>2, <1>3, <1>4, <1>5 DEF CopyInv

LEMMA ContainerInitOk == ContainerInit => CopyInv
<1> SUFFICES ASSUME ContainerInit PROVE CopyInv
  OBVIOUS
<1> USE DEF ContainerInit
<1>1. changes \in Seq(ChangeSet) /\ Len(changes) = 0
  OBVIOUS
<1>2. Keeps(container, items) /\ AsAsked(items, wanted)
  <2>1. CASE container = "array"
    <3>1. KeyCount \in Nat /\ ValueCount \in Nat
      BY ContainerAssumption
    <3>2. IsFiniteSet(1 .. KeyCount)
      BY <3>1, FS_Interval
    <3> QED BY <2>1, <3>1, <3>2 DEF Keeps, AsAsked, Shifts, Item, ItemSet, Keys
  <2>2. CASE container # "array"
    <3>1. items = <<>> /\ wanted = <<>> /\ DOMAIN items = {} /\ DOMAIN wanted = {} /\ items \in Seq(ItemSet)
      BY <2>2 DEF Empty
    <3>2. items = [i \in DOMAIN items |-> items[i]] /\ IsFiniteSet(DOMAIN items)
      BY <3>1, FS_EmptySet
    <3> QED BY <3>1, <3>2 DEF Keeps, AsAsked
  <2> QED BY <2>1, <2>2
<1>3. Accounts(container, shown, items, items_added, items_removed, items_changed)
  BY <1>2, NothingMore
<1>4. Matches(container, items_added, items_removed, items_changed, changes)
  BY DEF Matches, Range
<1>5. Recording
  BY <1>2, <1>3, <1>4 DEF Recording
<1> QED BY <1>1, <1>5 DEF CopyInv, Alone

-----------------------------------------------------------------------------
(* Each change *)

LEMMA AddStep ==
    ASSUME CopyInv, NEW item \in ItemSet, Add(item)
    PROVE  CopyInv'
<1> DEFINE at == IndexFor(item)
           taken == at \in DOMAIN items
           k == item.key
           Named(what) == [what |-> what, key |-> k]
<1>0. /\ k \in Nat /\ item.value \in Nat
      /\ \A what : Named(what).what = what /\ Named(what).key = k
      /\ Named("add") \in ChangeSet /\ Named("lose") \in ChangeSet
  BY DEF ItemSet, ChangeSet
<1>1. CASE Has(k)
  <2> DEFINE c == Named("add")
  <2>1. /\ items' = items /\ items_added' = items_added /\ items_removed' = items_removed
        /\ items_changed' = items_changed /\ clear' = clear /\ reinstall' = reinstall
        /\ Change("add", k) /\ wanted' = IF k \in DOMAIN wanted THEN wanted ELSE With(wanted, k, item.value)
    BY <1>1 DEF Add
  <2>2. ASSUME InOrder(container, changes), orderly PROVE Recording'
    <3>1. Recording
      BY <2>2 DEF CopyInv
    <3>2. k \in DOMAIN wanted
      BY <1>1, <3>1 DEF Has, Recording, Keeps, AsAsked
    <3>3. /\ container' = container /\ shown' = shown /\ changes' = Append(changes, c) /\ wanted' = wanted
          /\ changes \in Seq(ChangeSet) /\ c \in ChangeSet /\ c.what = "add"
      BY <1>0, <2>1, <3>2 DEF Change, CopyInv
    <3> HIDE DEF c
    <3>4. Matches(container, items_added, items_removed, items_changed, Append(changes, c))
      BY <3>1, <3>3, MatchesMore DEF Recording
    <3> QED BY <2>1, <3>1, <3>3, <3>4 DEF Recording
  <2>3. c \in ChangeSet /\ c.what = "add" /\ c.key = k
    BY <1>0
  <2> HIDE DEF c
  <2> QED BY <2>1, <2>2, <2>3, AfterChange
<1>2. CASE ~Has(k) /\ taken
  <2> DEFINE c == Named("lose")
  <2>1. Change("lose", k)
    BY <1>2 DEF Add
  <2>2. c \in ChangeSet /\ c.what = "lose" /\ c.key = k /\ changes \in Seq(ChangeSet)
    BY <1>0 DEF CopyInv
  <2> HIDE DEF c
  <2>3. ~InOrder(container, Append(changes, c))
    BY <2>2, OrderMore
  <2> QED BY <2>1, <2>2, <2>3, AfterChange
<1>3. CASE ~Has(k) /\ ~taken
  <2> DEFINE c == Named("add")
             more == IF container = "list" THEN item ELSE at
  <2>1. /\ items' = With(items, at, item) /\ items_added' = Append(items_added, more)
        /\ items_removed' = items_removed /\ items_changed' = items_changed
        /\ clear' = clear /\ reinstall' = reinstall /\ container # "array"
        /\ Change("add", k) /\ wanted' = IF k \in DOMAIN wanted THEN wanted ELSE With(wanted, k, item.value)
    BY <1>3 DEF Add, Recorded
  <2>2. c \in ChangeSet /\ c.what = "add" /\ c.key = k /\ changes \in Seq(ChangeSet)
    BY <1>0 DEF CopyInv
  <2>3. ASSUME InOrder(container, changes), orderly, InOrder(container, Append(changes, c)) PROVE Recording'
    <3>1. Recording /\ container \in {"list", "vector", "sorted", "map"}
      BY <2>1, <2>3 DEF CopyInv
    <3>2. /\ container' = container /\ shown' = shown /\ changes' = Append(changes, c)
      BY <2>1 DEF Change
    <3>3. at \in Nat /\ (Shifts(container) => at = Len(items) + 1) /\ (container = "map" => at = k)
      <4>1. IsFiniteSet(DOMAIN items)
        BY <3>1 DEF Recording, Keeps
      <4>2. Cardinality(DOMAIN items) \in Nat
        BY <4>1, FS_CardinalityType
      <4>3. ASSUME Shifts(container) PROVE Cardinality(DOMAIN items) = Len(items)
        <5>1. Len(items) \in Nat /\ DOMAIN items = 1 .. Len(items)
          BY <3>1, <4>3, LenProperties DEF Recording, Keeps
        <5>2. Cardinality(1 .. Len(items)) = IF 1 > Len(items) THEN 0 ELSE Len(items) - 1 + 1
          BY <5>1, FS_Interval
        <5> QED BY <5>1, <5>2
      <4> QED BY <1>0, <4>2, <4>3 DEF IndexFor, Shifts
    <3>4. \A i \in DOMAIN items : items[i].key # k
      BY <1>3, <3>1 DEF Has, Recording, Keeps
    <3>5. container = "map" => items_removed = <<>>
      <4>1. \A n \in DOMAIN changes : Earlier(container, changes[n], c)
        BY <2>2, <2>3, OrderMore
      <4>2. container = "map" => \A n \in DOMAIN changes : changes[n].what # "remove"
        BY <2>2, <4>1 DEF Earlier, RankOf
      <4> QED BY <3>1, <4>2 DEF Recording, Matches
    <3>6. /\ Keeps(container, items) /\ AsAsked(items, wanted) /\ ~clear /\ ~reinstall
          /\ Matches(container, items_added, items_removed, items_changed, changes)
          /\ Accounts(container, shown, items, items_added, items_removed, items_changed)
      BY <3>1 DEF Recording
    <3>7. at \notin DOMAIN items
      BY <1>3
    <3> HIDE DEF at, k, c, more
    <3>8. /\ Keeps(container, With(items, at, item)) /\ k \notin DOMAIN wanted
          /\ AsAsked(With(items, at, item), With(wanted, k, item.value))
      BY <3>3, <3>4, <3>6, <3>7, WithKeeps DEF k
    <3>9. Accounts(container, shown, With(items, at, item), Append(items_added, more), items_removed, items_changed)
      BY <3>1, <3>3, <3>5, <3>6, <3>7, AddAccounts DEF more
    <3>10. Matches(container, Append(items_added, more), items_removed, items_changed, Append(changes, c))
      <4>1. container = "map" => \A x \in Range(Append(items_added, more)) : x \in Range(items_added) \/ c.key = x
        <5>1. container = "map" => items_added \in Seq(Nat) /\ more = at /\ at = c.key
          BY <2>2, <3>3, <3>6 DEF Accounts, MapRecord, more
        <5>2. container = "map" => Range(Append(items_added, more)) = Range(items_added) \cup {more}
          BY <3>3, <5>1, RangeMore
        <5> QED BY <5>1, <5>2
      <4> QED BY <2>2, <3>6, <4>1, MatchesMore
    <3> QED BY <2>1, <3>2, <3>6, <3>8, <3>9, <3>10 DEF Recording
  <2> HIDE DEF c
  <2> QED BY <2>1, <2>2, <2>3, AfterChange
<1> QED BY <1>1, <1>2, <1>3

LEMMA RemoveStep ==
    ASSUME CopyInv, NEW i, RemoveItem(i), items[i].key \in Nat
    PROVE  CopyInv'
<1> DEFINE k == items[i].key
           c == [what |-> "remove", key |-> k]
           new == Without(container, items, i)
           less == IF container \in {"list", "map"} THEN items[i] ELSE i
           w == Restrict(wanted, DOMAIN wanted \ {k})
<1>1. /\ i \in DOMAIN items /\ items' = new /\ items_removed' = Append(items_removed, less)
      /\ items_added' = items_added /\ items_changed' = items_changed
      /\ clear' = clear /\ reinstall' = reinstall /\ container # "array"
      /\ Change("remove", k) /\ wanted' = w
  BY DEF RemoveItem
<1>2. c \in ChangeSet /\ c.what = "remove" /\ c.key = k /\ changes \in Seq(ChangeSet)
  BY DEF CopyInv, ChangeSet
<1>3. ASSUME InOrder(container, changes), orderly, InOrder(container, Append(changes, c)) PROVE Recording'
  <2>1. container \in {"list", "vector", "sorted", "map"}
    BY <1>1, <1>3 DEF CopyInv
  <2>2. /\ Keeps(container, items) /\ AsAsked(items, wanted) /\ ~clear /\ ~reinstall
        /\ Matches(container, items_added, items_removed, items_changed, changes)
        /\ Accounts(container, shown, items, items_added, items_removed, items_changed)
    BY <1>3 DEF CopyInv, Recording
  <2>3. container' = container /\ shown' = shown /\ changes' = Append(changes, c)
    BY <1>1 DEF Change
  <2>4. \A n \in DOMAIN changes : Earlier(container, changes[n], c)
    BY <1>2, <1>3, OrderMore
  <2>5. items_changed = <<>>
    <3>1. \A n \in DOMAIN changes : changes[n].what # "update"
      BY <1>2, <2>1, <2>4 DEF Earlier, RankOf
    <3> QED BY <2>2, <3>1 DEF Matches
  <2>6. container # "map" => items_added = <<>>
    <3>1. container # "map" => \A n \in DOMAIN changes : changes[n].what # "add"
      BY <1>2, <2>1, <2>4 DEF Earlier, RankOf
    <3> QED BY <2>2, <3>1 DEF Matches
  <2>7. container = "map" => i \notin Range(items_added)
    <3> SUFFICES ASSUME container = "map", i \in Range(items_added) PROVE FALSE
      OBVIOUS
    <3>1. k = i
      BY <1>1, <2>2 DEF Keeps
    <3>2. PICK n \in DOMAIN changes : changes[n].what = "add" /\ changes[n].key = k
      BY <2>2, <3>1 DEF Matches
    <3>3. changes[n] \in ChangeSet
      BY <1>2, <3>2, ElementOfSeq, LenProperties
    <3>4. changes[n] = [what |-> "add", key |-> k]
      BY <3>2, <3>3 DEF ChangeSet
    <3>5. [c EXCEPT !.what = "add"] = [what |-> "add", key |-> k]
      OBVIOUS
    <3> QED BY <1>2, <2>4, <3>2, <3>4, <3>5 DEF Earlier
  <2> HIDE DEF c, new, less
  <2>8. Keeps(container, new) /\ AsAsked(new, w)
    BY <1>1, <2>2, WithoutKeeps DEF new
  <2>9. Accounts(container, shown, new, items_added, Append(items_removed, less), items_changed)
    <3>1. Accounts(container, shown, items, items_added, items_removed, <<>>)
      BY <2>2, <2>5
    <3>2. Keeps(container, Without(container, items, i))
      BY <2>8 DEF new
    <3>3. Keeps(container, items) /\ i \in DOMAIN items
      BY <1>1, <2>2
    <3>4. Accounts(container, shown, Without(container, items, i), items_added,
                   Append(items_removed, IF container \in {"list", "map"} THEN items[i] ELSE i), <<>>)
      BY <2>1, <2>6, <2>7, <3>1, <3>2, <3>3, RemoveAccounts
    <3> QED BY <2>5, <3>4 DEF new, less
  <2>10. Matches(container, items_added, Append(items_removed, less), items_changed, Append(changes, c))
    BY <1>2, <2>2, MatchesMore
  <2> QED BY <1>1, <2>2, <2>3, <2>8, <2>9, <2>10 DEF Recording
<1> HIDE DEF c, new, less, w
<1> QED BY <1>1, <1>2, <1>3, AfterChange

LEMMA UpdateStep ==
    ASSUME CopyInv, NEW i, NEW value \in Nat, Update(i, value), items[i].key \in Nat
    PROVE  CopyInv'
<1> DEFINE k == items[i].key
           c == [what |-> "update", key |-> k]
           new == [items EXCEPT ![i].value = value]
           w == With(wanted, k, value)
<1>1. /\ i \in DOMAIN items /\ items' = new /\ items_changed' = Append(items_changed, i)
      /\ items_added' = items_added /\ items_removed' = items_removed
      /\ clear' = clear /\ reinstall' = reinstall /\ container # "list"
      /\ Change("update", k) /\ wanted' = w
  BY DEF Update
<1>2. c \in ChangeSet /\ c.what = "update" /\ c.key = k /\ changes \in Seq(ChangeSet)
  BY DEF CopyInv, ChangeSet
<1>3. ASSUME InOrder(container, changes), orderly, InOrder(container, Append(changes, c)) PROVE Recording'
  <2>1. container \in {"vector", "sorted", "map", "array"}
    BY <1>1, <1>3 DEF CopyInv
  <2>2. /\ Keeps(container, items) /\ AsAsked(items, wanted) /\ ~clear /\ ~reinstall
        /\ Matches(container, items_added, items_removed, items_changed, changes)
        /\ Accounts(container, shown, items, items_added, items_removed, items_changed)
    BY <1>3 DEF CopyInv, Recording
  <2>3. container' = container /\ shown' = shown /\ changes' = Append(changes, c)
    BY <1>1 DEF Change
  <2> HIDE DEF c
  <2>4. Keeps(container, new) /\ AsAsked(new, w)
    BY <1>1, <2>2, UpdateKeeps
  <2>5. Accounts(container, shown, new, items_added, items_removed, Append(items_changed, i))
    BY <1>1, <2>1, <2>2, UpdateAccounts
  <2>6. Matches(container, items_added, items_removed, Append(items_changed, i), Append(changes, c))
    BY <1>2, <2>2, MatchesMore
  <2> QED BY <1>1, <2>2, <2>3, <2>4, <2>5, <2>6 DEF Recording
<1> HIDE DEF c, new, w
<1> QED BY <1>1, <1>2, <1>3, AfterChange

\* A change that is in no order.
LEMMA NotInOrder ==
    ASSUME CopyInv, NEW c \in ChangeSet, c.what \in {"clear", "reinstall", "reset"}
    PROVE  ~InOrder(container, Append(changes, c))
  BY OrderMore DEF CopyInv

\* Before any change, nothing is recorded.
LEMMA NoneYet ==
    ASSUME CopyInv, orderly, changes = <<>>
    PROVE  Recording /\ NothingRecorded
<1>1. InOrder(container, changes)
  BY DEF InOrder
<1>2. Recording
  BY <1>1 DEF CopyInv
<1> QED BY <1>2 DEF Recording, Matches, NothingRecorded

LEMMA ClearStep ==
    ASSUME CopyInv, Clear
    PROVE  CopyInv'
<1> DEFINE c == [what |-> "clear", key |-> 0]
<1>1. c \in ChangeSet /\ c.what = "clear" /\ c.key = 0
  BY DEF ChangeSet
<1>2. /\ items' = (IF container = "vector" THEN items ELSE Empty) /\ clear' = TRUE /\ wanted' = Empty
      /\ Change("clear", 0) /\ reinstall' = reinstall
      /\ items_added' = items_added /\ items_removed' = items_removed /\ items_changed' = items_changed
  BY DEF Clear
<1>3. ASSUME orderly, changes = <<>> PROVE Cleared'
  <2>1. Recording /\ NothingRecorded
    BY <1>3, NoneYet
  <2>2. container' = container
    BY <1>2 DEF Change
  <2> QED BY <1>2, <2>1, <2>2 DEF Recording, NothingRecorded, Cleared
<1> HIDE DEF c
<1>4. ~InOrder(container, Append(changes, c))
  BY <1>1, NotInOrder
<1> QED BY <1>1, <1>2, <1>3, <1>4, AfterChange

LEMMA ReinstallStep ==
    ASSUME CopyInv, Reinstall
    PROVE  CopyInv'
<1> DEFINE c == [what |-> "reinstall", key |-> 0]
<1>1. c \in ChangeSet /\ c.what = "reinstall" /\ c.key = 0
  BY DEF ChangeSet
<1>2. /\ items' = items /\ clear' = clear /\ wanted' = wanted
      /\ Change("reinstall", 0) /\ reinstall' = TRUE
      /\ items_added' = items_added /\ items_removed' = items_removed /\ items_changed' = items_changed
  BY DEF Reinstall
<1>3. ASSUME orderly, changes = <<>> PROVE Reinstalled'
  <2>1. Recording /\ NothingRecorded
    BY <1>3, NoneYet
  <2>2. container' = container /\ container \in {"vector", "map"}
    BY <1>2 DEF Change, Reinstall
  <2> QED BY <1>2, <2>1, <2>2 DEF Recording, NothingRecorded, Reinstalled
<1> HIDE DEF c
<1>4. ~InOrder(container, Append(changes, c))
  BY <1>1, NotInOrder
<1> QED BY <1>1, <1>2, <1>3, <1>4, AfterChange

LEMMA ResetStep ==
    ASSUME CopyInv, NEW item \in ItemSet, Reset(item)
    PROVE  CopyInv'
<1> DEFINE c == [what |-> "reset", key |-> item.key]
<1>1. c \in ChangeSet /\ c.what = "reset" /\ c.key = item.key
  BY DEF ChangeSet, ItemSet
<1>2. Change("reset", item.key)
  BY DEF Reset
<1> HIDE DEF c
<1>3. ~InOrder(container, Append(changes, c))
  BY <1>1, NotInOrder
<1> QED BY <1>1, <1>2, <1>3, AfterChange

-----------------------------------------------------------------------------
(* What is sent *)

\* After what is sent, the client has all the items and nothing is recorded.
LEMMA AllSent ==
    ASSUME CopyInv, container' = container, orderly' \in BOOLEAN, changes' = <<>>,
           orderly' => /\ shown' = items' /\ ~clear' /\ ~reinstall' /\ NothingRecorded'
                       /\ Keeps(container, items') /\ AsAsked(items', wanted')
    PROVE  CopyInv'
<1>1. changes' \in Seq(ChangeSet) /\ Len(changes') = 0
  OBVIOUS
<1>2. ASSUME orderly' PROVE Recording'
  <2>1. Accounts(container, shown', items', items_added', items_removed', items_changed')
    BY <1>2, NothingMore DEF NothingRecorded
  <2>2. Matches(container', items_added', items_removed', items_changed', changes')
    BY <1>2 DEF Matches, NothingRecorded, Range
  <2> QED BY <1>2, <2>1, <2>2 DEF Recording
<1> QED BY <1>1, <1>2 DEF CopyInv, Alone

LEMMA BaselinesStep ==
    ASSUME CopyInv, SerializeBaselines
    PROVE  CopyInv'
<1> USE DEF SerializeBaselines, recordVars
<1>1. CASE orderly /\ changes = <<>>
  <2>1. Recording /\ NothingRecorded
    BY <1>1, NoneYet
  <2>2. shown' = items' /\ items' = items /\ wanted' = wanted /\ container' = container /\ changes' = <<>>
        /\ orderly' \in BOOLEAN /\ ~clear' /\ ~reinstall' /\ NothingRecorded'
    BY <1>1, <2>1 DEF Recording, NothingRecorded
  <2> QED BY <2>1, <2>2, AllSent DEF Recording
<1>2. CASE ~(orderly /\ changes = <<>>)
  <2>1. ~orderly' /\ orderly' \in BOOLEAN
    BY <1>2 DEF CopyInv
  <2> QED BY <2>1 DEF CopyInv
<1> QED BY <1>1, <1>2

LEMMA NoEntries ==
    /\ \A what : Entries(what, <<>>) = <<>>
    /\ items_removed = <<>> => Removals = <<>>
  BY DEF Entries, Removals

LEMMA EntriesAre ==
    ASSUME container # "list", NEW record \in Seq(Nat), Range(record) \subseteq DOMAIN items
    PROVE  \A what : Entries(what, record) = Reads(what, record, items, Len(record))
<1>1. DOMAIN record = 1 .. Len(record)
  BY LenProperties
<1>2. \A n \in DOMAIN record : At(record[n]) = items[record[n]]
  BY DEF At, Range
<1> QED BY <1>1, <1>2 DEF Entries, Reads

\* A delta of a record that is in order makes the client's copy what the container has.
LEMMA DeltaArrives ==
    ASSUME Recording, container \in {"list", "vector", "sorted", "map", "array"}
    PROVE  /\ Took(container, shown, SubSeq(Delta, 1, Announced)) = items
           /\ container \in {"map", "sorted"} => ToSet(items_added) \cup ToSet(items_changed) \subseteq DOMAIN items
<1> DEFINE own == items
           r == RemovalsOf(items_removed)
           a == Reads("add", items_added, own, Len(items_added))
           u == Reads("update", items_changed, own, Len(items_changed))
<1>1. /\ Keeps(container, own) /\ Flags = <<>>
      /\ Accounts(container, shown, own, items_added, items_removed, items_changed)
  <2>1. <<>> \o <<>> = <<>>
    OBVIOUS
  <2> QED BY <2>1 DEF Recording, Flags
<1>2. Removals = r
  BY DEF Removals, RemovalsOf, Removal
<1>3. CASE container = "list"
  <2> DEFINE b == Additions(items_added)
             d == r \o b
  <2>1. /\ items_added \in Seq(ItemSet) /\ items_removed \in Seq(ItemSet) /\ items_changed = <<>>
        /\ Took("list", shown, d) = own
    BY <1>1, <1>3 DEF Accounts, ListRecord
  <2>2. Entries("add", items_added) = b /\ Entries("update", items_changed) = <<>>
    BY <1>3, <2>1, NoEntries DEF Entries, Additions
  <2>3. r \in Seq(EntrySet) /\ Len(r) = Len(items_removed)
    BY <2>1, RemovalsAre
  <2>4. b \in Seq(EntrySet) /\ Len(b) = Len(items_added)
    BY <2>1, AdditionsAre
  <2> HIDE DEF b, r
  <2>5. d \in Seq(EntrySet) /\ Len(d) = Len(r) + Len(b)
    BY <2>3, <2>4, ConcatProperties
  <2> HIDE DEF d
  <2>6. Delta = d
    <3>1. d \o <<>> = d
      BY <2>5, ConcatEmptySeq
    <3>2. Delta = ((r \o b) \o <<>>) \o <<>>
      BY <1>1, <1>2, <1>3, <2>2 DEF Delta
    <3> QED BY <3>1, <3>2 DEF d
  <2>7. Announced = Len(d)
    <3>1. Len(items_added) \in Nat /\ Len(items_removed) \in Nat
      BY <2>1, LenProperties
    <3> QED BY <1>3, <2>3, <2>4, <2>5, <3>1 DEF Announced
  <2>8. SubSeq(d, 1, Len(d)) = d
    BY <2>5, SubSeqFull
  <2> QED BY <1>3, <2>1, <2>6, <2>7, <2>8
<1>4. CASE container # "list"
  <2>1. /\ items_added \in Seq(Nat) /\ items_changed \in Seq(Nat) /\ items_removed \in Seq(Nat) \cup Seq(ItemSet)
        /\ Range(items_added) \subseteq DOMAIN own /\ Range(items_changed) \subseteq DOMAIN own
    BY <1>1, <1>4 DEF Accounts, MapRecord, IndexRecord
  <2>2. Entries("add", items_added) = a /\ Entries("update", items_changed) = u
    BY <1>4, <2>1, EntriesAre
  <2>3. r \in Seq(EntrySet)
    BY <2>1, RemovalsAre
  <2>4. a \in Seq(EntrySet) /\ u \in Seq(EntrySet)
    <3>1. /\ \A n \in DOMAIN items_added : own[items_added[n]] \in ItemSet
          /\ \A n \in DOMAIN items_changed : own[items_changed[n]] \in ItemSet
      BY <1>1, <2>1 DEF Keeps, Range
    <3> QED BY <2>1, <3>1, ReadsAll
  <2> DEFINE d == (IF container = "map" THEN a \o r ELSE r \o a) \o u
  <2>5. d \in Seq(EntrySet)
    <3> HIDE DEF a, r, u
    <3>1. a \o r \in Seq(EntrySet) /\ r \o a \in Seq(EntrySet)
      BY <2>3, <2>4, ConcatProperties
    <3> DEFINE v == IF container = "map" THEN a \o r ELSE r \o a
    <3>2. v \in Seq(EntrySet)
      BY <3>1
    <3> HIDE DEF v
    <3>3. v \o u \in Seq(EntrySet)
      BY <2>4, <3>2, ConcatProperties
    <3> QED BY <3>3 DEF v
  <2>6. Delta = d
    <3>1. Delta = d \o <<>>
      <4> HIDE DEF a, r, u
      <4> QED BY <1>1, <1>2, <2>2 DEF Delta
    <3> HIDE DEF d
    <3> QED BY <2>5, <3>1, ConcatEmptySeq
  <2>7. Announced = Len(d)
    BY <1>4, <2>6 DEF Announced
  <2>8. SubSeq(d, 1, Len(d)) = d
    <3> HIDE DEF d
    <3> QED BY <2>5, SubSeqFull
  <2>9. Took(container, shown, d) = own
    <3>1. CASE container = "map"
      <4>1. Keeps("map", own) /\ MapRecord(shown, own, items_added, items_removed, items_changed)
        BY <1>1, <3>1 DEF Accounts
      <4>2. Took("map", shown, (a \o r) \o u) = own
        BY <4>1, MapArrive
      <4> QED BY <3>1, <4>2
    <3>2. CASE container # "map"
      <4>1. /\ container \in {"vector", "sorted", "array"} /\ Keeps(container, own)
            /\ IndexRecord(container, shown, own, items_added, items_removed, items_changed)
        BY <1>1, <1>4, <3>2 DEF Accounts
      <4>2. Took(container, shown, (r \o a) \o u) = own
        BY <4>1, IndexedArrive
      <4> QED BY <3>2, <4>2
    <3> QED BY <3>1, <3>2
  <2>10. ToSet(items_added) \cup ToSet(items_changed) \subseteq DOMAIN items
    BY <2>1 DEF ToSet, Range
  <2> HIDE DEF d
  <2> QED BY <2>6, <2>7, <2>8, <2>9, <2>10
<1> QED BY <1>3, <1>4

\* One entry that says it all.
LEMMA TookOne ==
    ASSUME NEW kind, NEW copy, NEW e
    PROVE  /\ Took(kind, copy, SubSeq(<<e>>, 1, Len(<<e>>))) = Applied(kind, copy, e)
           /\ (<<>> \o <<>>) \o <<>> = <<>> /\ <<>> \o <<e>> = <<e>> /\ <<e>> \o <<>> = <<e>>
<1>1. <<>> \in Seq({e}) /\ e \in {e} /\ <<e>> \in Seq({e}) /\ Append(<<>>, e) = <<e>>
  OBVIOUS
<1>2. Took(kind, copy, Append(<<>>, e)) = Applied(kind, Took(kind, copy, <<>>), e)
  <2> DEFINE S == {e}
             none == <<>>
  <2>1. none \in Seq(S) /\ e \in S
    BY <1>1
  <2> HIDE DEF S, none
  <2>2. Took(kind, copy, Append(none, e)) = Applied(kind, Took(kind, copy, none), e)
    BY <2>1, TookOneMore
  <2> QED BY <2>2 DEF none
<1>3. Took(kind, copy, <<>>) = copy
  BY TookNone
<1>4. SubSeq(<<e>>, 1, Len(<<e>>)) = <<e>>
  BY <1>1, SubSeqFull
<1>5. (<<>> \o <<>>) \o <<>> = <<>> /\ <<>> \o <<e>> = <<e>> /\ <<e>> \o <<>> = <<e>>
  BY <1>1, ConcatEmptySeq
<1> QED BY <1>1, <1>2, <1>3, <1>4, <1>5

LEMMA EmptyKeeps ==
    ASSUME NEW kind
    PROVE  Keeps(kind, <<>>) /\ AsAsked(<<>>, <<>>)
<1> DEFINE none == <<>>
<1>1. DOMAIN none = {} /\ none \in Seq(ItemSet) /\ none = [i \in DOMAIN none |-> none[i]]
  OBVIOUS
<1>2. IsFiniteSet(DOMAIN none)
  BY <1>1, FS_EmptySet
<1> HIDE DEF none
<1>3. Keeps(kind, none) /\ AsAsked(none, none)
  BY <1>1, <1>2 DEF Keeps, AsAsked
<1> QED BY <1>3 DEF none

LEMMA TellableIs ==
    ASSUME CopyInv, Tellable
    PROVE  \/ Alone(changes, "clear") /\ container # "list"
           \/ Alone(changes, "reinstall")
           \/ InOrder(container, changes)
<1>1. \A what : Rank(what) = RankOf(container, what)
  BY DEF Rank, RankOf
<1> QED BY <1>1 DEF Tellable, Alone, InOrder, Earlier

LEMMA DeltasStep ==
    ASSUME CopyInv, SerializeDeltas
    PROVE  CopyInv'
<1>1. /\ shown' = Took(container, shown, SubSeq(Delta, 1, Announced))
      /\ items' = CASE container = "vector" /\ clear -> Empty
                    [] container \in {"map", "sorted"} ->
                          [i \in DOMAIN items \cup ToSet(items_added) \cup ToSet(items_changed) |-> At(i)]
                    [] OTHER -> items
      /\ NothingRecorded' /\ ~clear' /\ ~reinstall'
      /\ orderly' = (orderly /\ Tellable) /\ changes' = <<>> /\ container' = container /\ wanted' = wanted
  BY DEF SerializeDeltas, NothingRecorded
<1>2. container \in {"list", "vector", "sorted", "map", "array"} /\ orderly \in BOOLEAN /\ Tellable \in BOOLEAN
  BY DEF CopyInv, Tellable
<1>3. ASSUME ToSet(items_added) \cup ToSet(items_changed) \subseteq DOMAIN items \/ container \notin {"map", "sorted"},
             container # "vector" \/ ~clear, Keeps(container, items)
      PROVE  items' = items
  <2>1. items = [i \in DOMAIN items |-> items[i]]
    BY <1>3 DEF Keeps
  <2>2. CASE container \in {"map", "sorted"}
    <3>1. DOMAIN items \cup ToSet(items_added) \cup ToSet(items_changed) = DOMAIN items
      BY <1>3, <2>2
    <3>2. items' = [i \in DOMAIN items |-> At(i)]
      BY <1>1, <2>2, <3>1
    <3>3. \A i \in DOMAIN items : At(i) = items[i]
      BY DEF At
    <3> QED BY <2>1, <3>2, <3>3
  <2>3. CASE container \notin {"map", "sorted"}
    BY <1>1, <1>3, <2>3
  <2> QED BY <2>2, <2>3
<1>4. ASSUME orderly, Tellable
      PROVE  shown' = items' /\ Keeps(container, items') /\ AsAsked(items', wanted')
  <2>1. CASE Alone(changes, "clear") /\ container # "list"
    <3>1. NothingRecorded /\ clear /\ ~reinstall /\ wanted = Empty /\ (container = "vector" \/ items = Empty)
      BY <1>4, <2>1 DEF CopyInv, Cleared
    <3> DEFINE e == [what |-> "clear"]
    <3>2. Delta = <<e>> /\ Announced = Len(<<e>>)
      <4>1. Removals = <<>> /\ \A what : Entries(what, <<>>) = <<>>
        BY <3>1, NoEntries DEF NothingRecorded
      <4>2. Flags = <<>> \o <<e>>
        BY <3>1 DEF Flags
      <4>3. (<<>> \o <<>>) \o <<>> = <<>> /\ <<>> \o <<e>> = <<e>>
        BY TookOne
      <4>4. Delta = ((<<>> \o <<>>) \o <<>>) \o (<<>> \o <<e>>)
        <5>1. Entries("add", items_added) = <<>> /\ Entries("update", items_changed) = <<>>
          BY <3>1, <4>1 DEF NothingRecorded
        <5> HIDE DEF e
        <5> QED BY <4>1, <4>2, <5>1 DEF Delta
      <4>5. Delta = <<e>>
        <5> HIDE DEF e
        <5> QED BY <4>3, <4>4
      <4> QED BY <2>1, <4>5 DEF Announced
    <3>3. shown' = Empty
      <4>1. Took(container, shown, SubSeq(<<e>>, 1, Len(<<e>>))) = Applied(container, shown, e)
        <5> HIDE DEF e
        <5> QED BY TookOne
      <4>2. Applied(container, shown, e) = Empty
        BY DEF Applied
      <4> QED BY <1>1, <3>2, <4>1, <4>2
    <3>4. items' = Empty
      <4>1. CASE container = "vector"
        BY <1>1, <3>1, <4>1
      <4>2. CASE container # "vector"
        <5>1. items = <<>>
          BY <3>1, <4>2 DEF Empty
        <5>2. Keeps(container, items)
          BY <5>1, EmptyKeeps
        <5>3. ToSet(items_added) \cup ToSet(items_changed) \subseteq DOMAIN items
          BY <3>1 DEF ToSet, NothingRecorded
        <5> QED BY <1>3, <4>2, <5>1, <5>2, <5>3 DEF Empty
      <4> QED BY <4>1, <4>2
    <3> QED BY <1>1, <3>1, <3>3, <3>4, EmptyKeeps DEF Empty
  <2>2. CASE Alone(changes, "reinstall")
    <3>1. /\ NothingRecorded /\ ~clear /\ reinstall /\ Keeps(container, items) /\ AsAsked(items, wanted)
          /\ container \in {"vector", "map"}
      BY <1>4, <2>2 DEF CopyInv, Reinstalled
    <3> DEFINE e == [what |-> "reinstall", items |-> items]
    <3>2. Delta = <<e>> /\ Announced = Len(<<e>>)
      <4>1. Removals = <<>> /\ \A what : Entries(what, <<>>) = <<>>
        BY <3>1, NoEntries DEF NothingRecorded
      <4>2. Flags = <<e>> \o <<>>
        BY <3>1 DEF Flags
      <4>3. (<<>> \o <<>>) \o <<>> = <<>> /\ <<>> \o <<e>> = <<e>> /\ <<e>> \o <<>> = <<e>>
        <5> HIDE DEF e
        <5> QED BY TookOne
      <4>4. Delta = ((<<>> \o <<>>) \o <<>>) \o (<<e>> \o <<>>)
        <5>1. Entries("add", items_added) = <<>> /\ Entries("update", items_changed) = <<>>
          BY <3>1, <4>1 DEF NothingRecorded
        <5> HIDE DEF e
        <5> QED BY <4>1, <4>2, <5>1 DEF Delta
      <4>5. Delta = <<e>>
        <5> HIDE DEF e
        <5> QED BY <4>3, <4>4
      <4> QED BY <3>1, <4>5 DEF Announced
    <3>3. shown' = items
      <4>1. Took(container, shown, SubSeq(<<e>>, 1, Len(<<e>>))) = Applied(container, shown, e)
        <5> HIDE DEF e
        <5> QED BY TookOne
      <4>2. Applied(container, shown, e) = items
        BY DEF Applied
      <4> QED BY <1>1, <3>2, <4>1, <4>2
    <3>4. ToSet(items_added) \cup ToSet(items_changed) \subseteq DOMAIN items
      BY <3>1 DEF ToSet, NothingRecorded
    <3>5. items' = items
      BY <1>3, <3>1, <3>4
    <3> QED BY <1>1, <3>1, <3>3, <3>5
  <2>3. CASE InOrder(container, changes)
    <3>1. Recording
      BY <1>4, <2>3 DEF CopyInv
    <3>2. /\ Took(container, shown, SubSeq(Delta, 1, Announced)) = items
          /\ container \in {"map", "sorted"} => ToSet(items_added) \cup ToSet(items_changed) \subseteq DOMAIN items
      BY <1>2, <3>1, DeltaArrives
    <3>3. Keeps(container, items) /\ AsAsked(items, wanted) /\ ~clear
      BY <3>1 DEF Recording
    <3>4. items' = items
      BY <1>3, <3>2, <3>3
    <3> QED BY <1>1, <3>2, <3>3, <3>4
  <2> QED BY <1>4, <2>1, <2>2, <2>3, TellableIs
<1> QED BY <1>1, <1>2, <1>4, AllSent

-----------------------------------------------------------------------------
(* The copy is as asked *)

\* The items are items, whatever was done to them.
ItemsInv ==
    /\ \A i \in DOMAIN items : items[i] \in ItemSet
    /\ Shifts(container) => items \in Seq(ItemSet)

LEMMA ItemsInit == ContainerInit => ItemsInv
<1> SUFFICES ASSUME ContainerInit PROVE ItemsInv
  OBVIOUS
<1>1. KeyCount \in Nat
  BY ContainerAssumption
<1> QED BY <1>1 DEF ContainerInit, ItemsInv, Item, ItemSet, Keys, Empty, Shifts

LEMMA ItemsAreItems ==
    \A k \in Keys, v \in Values : Item(k, v) \in ItemSet
<1>1. KeyCount \in Nat /\ ValueCount \in Nat
  BY ContainerAssumption
<1> QED BY <1>1 DEF Keys, Values, Item, ItemSet

LEMMA ItemsStep ==
    ASSUME ItemsInv, ContainerNext
    PROVE  ItemsInv'
<1>1. ASSUME NEW item \in ItemSet, Add(item) PROVE ItemsInv'
  <2> DEFINE at == IndexFor(item)
  <2>1. items' = items \/ (items' = With(items, at, item) /\ at \notin DOMAIN items)
    BY <1>1 DEF Add
  <2>2. container' = container
    BY <1>1 DEF Add, Change
  <2>3. CASE items' = With(items, at, item) /\ at \notin DOMAIN items
    <3> DEFINE new == With(items, at, item)
    <3>1. DOMAIN new = DOMAIN items \cup {at} /\ new = [x \in DOMAIN new |-> new[x]]
          /\ \A x \in DOMAIN new : new[x] \in ItemSet
      <4> HIDE DEF at
      <4> QED BY DEF With, ItemsInv
    <3>2. Shifts(container) => new \in Seq(ItemSet)
      <4> SUFFICES ASSUME Shifts(container) PROVE new \in Seq(ItemSet)
        OBVIOUS
      <4> DEFINE n == Len(items)
      <4>1. items \in Seq(ItemSet) /\ n \in Nat /\ DOMAIN items = 1 .. n
        BY LenProperties DEF ItemsInv
      <4>2. Cardinality(1 .. n) = IF 1 > n THEN 0 ELSE n - 1 + 1
        BY <4>1, FS_Interval
      <4>3. at = n + 1
        BY <4>1, <4>2 DEF IndexFor, Shifts
      <4> DEFINE m == n + 1
      <4>4. DOMAIN new = 1 .. m /\ m \in Nat
        BY <3>1, <4>1, <4>3
      <4> HIDE DEF new, m
      <4> QED BY <3>1, <4>4, ASequence
    <3> HIDE DEF new
    <3> QED BY <2>2, <2>3, <3>1, <3>2 DEF ItemsInv, new
  <2> QED BY <2>1, <2>2, <2>3 DEF ItemsInv
<1>2. ASSUME NEW item \in ItemSet, Reset(item) PROVE ItemsInv'
  <2>1. container' = container /\ container \in {"vector", "map"}
    BY <1>2 DEF Reset, Change
  <2>2. CASE container = "map"
    <3>1. items' = With(Empty, item.key, item)
      BY <1>2, <2>2 DEF Reset
    <3> QED BY <2>1, <2>2, <3>1 DEF ItemsInv, With, Empty, Shifts
  <2>3. CASE container = "vector"
    <3>1. items' = items \/ items' = Append(items, item)
      BY <1>2, <2>3 DEF Reset
    <3>2. items \in Seq(ItemSet)
      BY <2>3 DEF ItemsInv, Shifts
    <3>3. items' \in Seq(ItemSet)
      BY <3>1, <3>2, AppendProperties
    <3>4. \A i \in DOMAIN items' : items'[i] \in ItemSet
      BY <3>3, LenProperties, ElementOfSeq
    <3> QED BY <3>3, <3>4 DEF ItemsInv
  <2> QED BY <2>1, <2>2, <2>3
<1>3. ASSUME NEW i, RemoveItem(i) PROVE ItemsInv'
  <2>1. container' = container /\ items' = Without(container, items, i) /\ i \in DOMAIN items
    BY <1>3 DEF RemoveItem, Change
  <2>2. CASE Shifts(container)
    <3>1. items \in Seq(ItemSet) /\ i \in 1 .. Len(items)
      BY <2>1, <2>2, LenProperties DEF ItemsInv
    <3>2. items' \in Seq(ItemSet)
      BY <2>1, <2>2, <3>1, RemovedAt DEF Without
    <3>3. \A j \in DOMAIN items' : items'[j] \in ItemSet
      BY <3>2, LenProperties, ElementOfSeq
    <3> QED BY <3>2, <3>3 DEF ItemsInv
  <2>3. CASE ~Shifts(container)
    BY <2>1, <2>3 DEF Without, Restrict, ItemsInv
  <2> QED BY <2>2, <2>3
<1>4. ASSUME NEW i, NEW value \in Nat, Update(i, value) PROVE ItemsInv'
  <2>1. container' = container /\ items' = [items EXCEPT ![i].value = value] /\ i \in DOMAIN items
    BY <1>4 DEF Update, Change
  <2>2. items[i] \in ItemSet
    BY <2>1 DEF ItemsInv
  <2> DEFINE e == [items[i] EXCEPT !.value = value]
  <2>3. e \in ItemSet
    BY <2>2 DEF ItemSet
  <2>4. items' = [items EXCEPT ![i] = e]
    BY <2>1
  <2> HIDE DEF e
  <2>5. \A j \in DOMAIN items' : items'[j] \in ItemSet
    BY <2>3, <2>4 DEF ItemsInv
  <2>6. Shifts(container) => items' \in Seq(ItemSet)
    <3> SUFFICES ASSUME Shifts(container) PROVE items' \in Seq(ItemSet)
      OBVIOUS
    <3>1. items \in Seq(ItemSet) /\ i \in 1 .. Len(items)
      BY <2>1, LenProperties DEF ItemsInv
    <3> QED BY <2>3, <2>4, <3>1, ExceptSeq
  <2> QED BY <2>1, <2>5, <2>6 DEF ItemsInv
<1>5. ASSUME Clear PROVE ItemsInv'
  <2>1. container' = container /\ (items' = items \/ items' = <<>>)
    BY <1>5 DEF Clear, Change, Empty
  <2>2. DOMAIN <<>> = {} /\ <<>> \in Seq(ItemSet)
    OBVIOUS
  <2>3. CASE items' = items
    BY <2>1, <2>3 DEF ItemsInv
  <2>4. CASE items' = <<>>
    BY <2>1, <2>2, <2>4 DEF ItemsInv
  <2> QED BY <2>1, <2>3, <2>4
<1>6. ASSUME Reinstall \/ SerializeBaselines PROVE ItemsInv'
  BY <1>6 DEF Reinstall, SerializeBaselines, Change, ItemsInv
<1>7. ASSUME SerializeDeltas PROVE ItemsInv'
  <2>1. Default \in ItemSet
    BY DEF Default, Item, ItemSet
  <2>2. \A i : At(i) \in ItemSet
    BY <2>1 DEF At, ItemsInv
  <2>3. CASE container \in {"map", "sorted"}
    <3>1. items' = [i \in DOMAIN items \cup ToSet(items_added) \cup ToSet(items_changed) |-> At(i)]
          /\ container' = container
      BY <1>7, <2>3 DEF SerializeDeltas
    <3> QED BY <2>2, <2>3, <3>1 DEF ItemsInv, Shifts
  <2>4. CASE container \notin {"map", "sorted"}
    <3>1. container' = container /\ (items' = items \/ items' = <<>>)
      BY <1>7, <2>4 DEF SerializeDeltas, Empty
    <3>2. DOMAIN <<>> = {} /\ <<>> \in Seq(ItemSet)
      OBVIOUS
    <3>3. CASE items' = items
      BY <3>1, <3>3 DEF ItemsInv
    <3>4. CASE items' = <<>>
      BY <3>1, <3>2, <3>4 DEF ItemsInv
    <3> QED BY <3>1, <3>3, <3>4
  <2> QED BY <2>3, <2>4
<1>8. \A v \in Values : v \in Nat
  BY ContainerAssumption DEF Values
<1> QED BY <1>1, <1>2, <1>3, <1>4, <1>5, <1>6, <1>7, <1>8, ItemsAreItems DEF ContainerNext

LEMMA CopyStep ==
    ASSUME CopyInv, ItemsInv, ContainerNext
    PROVE  CopyInv'
<1>1. ASSUME NEW k \in Keys, NEW v \in Values, Add(Item(k, v)) \/ Reset(Item(k, v)) PROVE CopyInv'
  <2>1. Item(k, v) \in ItemSet
    BY ItemsAreItems
  <2> QED BY <1>1, <2>1, AddStep, ResetStep
<1>2. ASSUME NEW i, RemoveItem(i) PROVE CopyInv'
  <2>1. items[i].key \in Nat
    BY <1>2 DEF RemoveItem, ItemsInv, ItemSet
  <2> QED BY <1>2, <2>1, RemoveStep
<1>3. ASSUME NEW i, NEW v \in Values, Update(i, v) PROVE CopyInv'
  <2>1. items[i].key \in Nat
    BY <1>3 DEF Update, ItemsInv, ItemSet
  <2>2. v \in Nat
    BY ContainerAssumption DEF Values
  <2> QED BY <1>3, <2>1, <2>2, UpdateStep
<1> QED BY <1>1, <1>2, <1>3, ClearStep, ReinstallStep, DeltasStep, BaselinesStep DEF ContainerNext

LEMMA CopyInvMeans == CopyInv => CopyIsAsAsked
<1> SUFFICES ASSUME CopyInv, changes = <<>>, orderly
             PROVE  /\ shown = items
                    /\ {<<items[i].key, items[i].value>> : i \in DOMAIN items}
                           = {<<k, wanted[k]>> : k \in DOMAIN wanted}
  BY DEF CopyIsAsAsked
<1>1. AsAsked(items, wanted) /\ shown = items
  BY NoneYet DEF Recording, CopyInv
<1>2. ASSUME NEW i \in DOMAIN items
      PROVE  \E k \in DOMAIN wanted : <<items[i].key, items[i].value>> = <<k, wanted[k]>>
  BY <1>1 DEF AsAsked
<1>3. ASSUME NEW k \in DOMAIN wanted
      PROVE  \E i \in DOMAIN items : <<items[i].key, items[i].value>> = <<k, wanted[k]>>
  BY <1>1 DEF AsAsked
<1> QED BY <1>1, <1>2, <1>3

\* After each delta the client shows what the calls asked for, as long as the changes
\* were ones a delta can tell (Serialize, Add, Remove and Update of the containers).
THEOREM CopyTheorem == ContainerSpec => []CopyIsAsAsked
<1>1. ContainerInit => CopyInv /\ ItemsInv
  BY ContainerInitOk, ItemsInit
<1>2. CopyInv /\ ItemsInv /\ [ContainerNext]_containerVars => (CopyInv /\ ItemsInv)'
  <2> SUFFICES ASSUME CopyInv, ItemsInv, [ContainerNext]_containerVars PROVE (CopyInv /\ ItemsInv)'
    OBVIOUS
  <2>1. CASE ContainerNext
    BY <2>1, CopyStep, ItemsStep
  <2>2. CASE UNCHANGED containerVars
    <3>1. ItemsInv'
      BY <2>2 DEF containerVars, ItemsInv
    <3>2. CopyInv'
      BY <2>2 DEF containerVars, CopyInv, Recording, Cleared, Reinstalled, NothingRecorded
    <3> QED BY <3>1, <3>2
  <2> QED BY <2>1, <2>2
<1>3. CopyInv /\ ItemsInv => CopyIsAsAsked
  BY CopyInvMeans
<1> QED BY <1>1, <1>2, <1>3, PTL DEF ContainerSpec
=============================================================================
