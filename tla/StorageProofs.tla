----------------------------- MODULE StorageProofs -----------------------------
(***************************************************************************)
(* What the database keeps.  The fields of an object of any class, however *)
(* often they are written and whenever its client leaves: those that the   *)
(* tables save and load come back after a restart.  The characters of the  *)
(* accounts, through failed creations, races and crashes: they are there   *)
(* for whom they were made.                                                *)
(***************************************************************************)
EXTENDS ObjectFields, Characters, FiniteSetTheorems, TLAPS

-----------------------------------------------------------------------------
(* The tables *)

LEMMA DomainOfBoth ==
    \A f, g : DOMAIN (f ++ g) = DOMAIN f \cup DOMAIN g
  BY DEF ++

\* What a table on top of another has: its own, and the other's where it has nothing.
LEMMA UpperFirst ==
    \A f, g, x : x \in DOMAIN f => x \in DOMAIN (f ++ g) /\ (f ++ g)[x] = f[x]
  BY DEF ++

LEMMA LowerElse ==
    \A f, g, x : x \notin DOMAIN f /\ x \in DOMAIN g => x \in DOMAIN (f ++ g) /\ (f ++ g)[x] = g[x]
  BY DEF ++

LEMMA InNeither ==
    \A f, g, x : x \notin DOMAIN f /\ x \notin DOMAIN g => x \notin DOMAIN (f ++ g)
  BY DEF ++

LEMMA SameIsSame ==
    \A fields : \A x \in fields : x \in DOMAIN Same(fields) /\ Same(fields)[x] = x
  BY DEF Same

LEMMA DomainOfSame ==
    \A fields : DOMAIN Same(fields) = fields
  BY DEF Same

ClassNames == {"Tangible", "Intangible", "Creature", "Player"}

OfObjectFields == {"template", "custom_name", "position", "orientation", "container", "complexity",
    "stf_name", "volume", "scene_id"}
OfTangibleFields == {"customization", "component_customization", "options_mask", "incap_timer",
    "condition_damage", "max_condition", "is_static", "defenders"}
OfCreatureFields == DOMAIN CreatureSetters \cup DOMAIN CreatureSetters2 \cup DOMAIN CreatureSetters3
    \cup DOMAIN CreatureSetters4 \cup DOMAIN CreatureSetters5 \cup DOMAIN CreatureSetters6
    \cup DOMAIN CreatureSetters7 \cup DOMAIN CreatureSetters8
OfPlayerFields == DOMAIN PlayerSetters \cup DOMAIN PlayerSetters2 \cup DOMAIN PlayerSetters3
    \cup DOMAIN PlayerSetters4 \cup DOMAIN PlayerSetters5 \cup DOMAIN PlayerSetters6

\* The fields a class declares are its own and those of the classes it is derived from.
LEMMA FieldsOfClasses ==
    /\ DOMAIN Setters = ClassNames
    /\ DOMAIN Setters["Tangible"] = OfObjectFields \cup OfTangibleFields
    /\ DOMAIN Setters["Creature"] = OfObjectFields \cup OfTangibleFields \cup OfCreatureFields
    /\ DOMAIN Setters["Player"] = OfObjectFields \cup OfPlayerFields
<1>1. /\ DOMAIN Setters = ClassNames
      /\ Setters["Tangible"] = OfTangible
      /\ Setters["Creature"] = OfTangible ++ OfCreature ++ OfCreature2
      /\ Setters["Player"] = OfObject ++ OfPlayer ++ OfPlayer2 ++ OfPlayer3
  BY DEF Setters, ClassNames
<1>2. DOMAIN OfObject = OfObjectFields
  <2>1. DOMAIN ObjectSetters = {"template", "custom_name", "position", "orientation", "container"}
    BY DEF ObjectSetters
  <2>2. DOMAIN ObjectSetters2 = {"complexity", "stf_name", "volume", "scene_id"}
    BY DEF ObjectSetters2
  <2>3. DOMAIN OfObject = DOMAIN ObjectSetters \cup DOMAIN ObjectSetters2
    BY DomainOfBoth DEF OfObject
  <2> QED
    BY <2>1, <2>2, <2>3 DEF OfObjectFields
<1>3. DOMAIN OfTangible = OfObjectFields \cup OfTangibleFields
  <2>1. DOMAIN TangibleSetters = {"customization", "component_customization", "options_mask", "incap_timer",
            "condition_damage", "max_condition", "is_static"}
    BY DEF TangibleSetters
  <2>2. DOMAIN TangibleSetters2 = {"defenders"}
    BY DEF TangibleSetters2
  <2>3. DOMAIN OfTangible = DOMAIN OfObject \cup DOMAIN TangibleSetters \cup DOMAIN TangibleSetters2
    <3>1. DOMAIN (OfObject ++ TangibleSetters) = DOMAIN OfObject \cup DOMAIN TangibleSetters
      BY DomainOfBoth
    <3>2. DOMAIN OfTangible = DOMAIN (OfObject ++ TangibleSetters) \cup DOMAIN TangibleSetters2
      BY DomainOfBoth DEF OfTangible
    <3> QED
      BY <3>1, <3>2
  <2> QED
    BY <1>2, <2>1, <2>2, <2>3 DEF OfTangibleFields
<1>4. DOMAIN OfCreature \cup DOMAIN OfCreature2 = OfCreatureFields
  <2>1. DOMAIN OfCreature = DOMAIN CreatureSetters \cup DOMAIN CreatureSetters2
                            \cup DOMAIN CreatureSetters3 \cup DOMAIN CreatureSetters4
    <3>1. DOMAIN (CreatureSetters ++ CreatureSetters2) = DOMAIN CreatureSetters \cup DOMAIN CreatureSetters2
      BY DomainOfBoth
    <3>2. DOMAIN (CreatureSetters ++ CreatureSetters2 ++ CreatureSetters3) = DOMAIN (CreatureSetters ++ CreatureSetters2) \cup DOMAIN CreatureSetters3
      BY DomainOfBoth
    <3>3. DOMAIN OfCreature = DOMAIN (CreatureSetters ++ CreatureSetters2 ++ CreatureSetters3) \cup DOMAIN CreatureSetters4
      BY DomainOfBoth DEF OfCreature
    <3> QED
      BY <3>1, <3>2, <3>3
  <2>2. DOMAIN OfCreature2 = DOMAIN CreatureSetters5 \cup DOMAIN CreatureSetters6
                             \cup DOMAIN CreatureSetters7 \cup DOMAIN CreatureSetters8
    <3>1. DOMAIN (CreatureSetters5 ++ CreatureSetters6) = DOMAIN CreatureSetters5 \cup DOMAIN CreatureSetters6
      BY DomainOfBoth
    <3>2. DOMAIN (CreatureSetters5 ++ CreatureSetters6 ++ CreatureSetters7) = DOMAIN (CreatureSetters5 ++ CreatureSetters6) \cup DOMAIN CreatureSetters7
      BY DomainOfBoth
    <3>3. DOMAIN OfCreature2 = DOMAIN (CreatureSetters5 ++ CreatureSetters6 ++ CreatureSetters7) \cup DOMAIN CreatureSetters8
      BY DomainOfBoth DEF OfCreature2
    <3> QED
      BY <3>1, <3>2, <3>3
  <2> QED
    BY <2>1, <2>2 DEF OfCreatureFields
<1>5. DOMAIN OfPlayer \cup DOMAIN OfPlayer2 \cup DOMAIN OfPlayer3 = OfPlayerFields
  <2>1. DOMAIN OfPlayer = DOMAIN PlayerSetters \cup DOMAIN PlayerSetters2
    BY DomainOfBoth DEF OfPlayer
  <2>2. DOMAIN OfPlayer2 = DOMAIN PlayerSetters3 \cup DOMAIN PlayerSetters4
    BY DomainOfBoth DEF OfPlayer2
  <2>3. DOMAIN OfPlayer3 = DOMAIN PlayerSetters5 \cup DOMAIN PlayerSetters6
    BY DomainOfBoth DEF OfPlayer3
  <2> QED
    BY <2>1, <2>2, <2>3 DEF OfPlayerFields
<1>6. DOMAIN Setters["Creature"] = DOMAIN OfTangible \cup DOMAIN OfCreature \cup DOMAIN OfCreature2
  <2>1. DOMAIN Setters["Creature"] = DOMAIN (OfTangible ++ OfCreature) \cup DOMAIN OfCreature2
    BY <1>1, DomainOfBoth
  <2>2. DOMAIN (OfTangible ++ OfCreature) = DOMAIN OfTangible \cup DOMAIN OfCreature
    BY DomainOfBoth
  <2> QED
    BY <2>1, <2>2
<1>7. DOMAIN Setters["Player"] = DOMAIN OfObject \cup DOMAIN OfPlayer \cup DOMAIN OfPlayer2 \cup DOMAIN OfPlayer3
  <2>1. DOMAIN Setters["Player"] = DOMAIN (OfObject ++ OfPlayer ++ OfPlayer2) \cup DOMAIN OfPlayer3
    BY <1>1, DomainOfBoth
  <2>2. DOMAIN (OfObject ++ OfPlayer ++ OfPlayer2) = DOMAIN (OfObject ++ OfPlayer) \cup DOMAIN OfPlayer2
    BY DomainOfBoth
  <2>3. DOMAIN (OfObject ++ OfPlayer) = DOMAIN OfObject \cup DOMAIN OfPlayer
    BY DomainOfBoth
  <2> QED
    BY <2>1, <2>2, <2>3
<1> QED
  BY <1>1, <1>2, <1>3, <1>4, <1>5, <1>6, <1>7

-----------------------------------------------------------------------------
(* What is saved and loaded *)

\* What neither of the two is about, for any class.
ForgottenFields == {"container", "orientation",
    "component_customization", "defenders",
    "cash_credits", "stat_base", "skills", "stat_encumberance", "skill_mods",
    "mood_animation", "invite_sender_id", "target_id", "mission_critical_objects",
    "equipment", "stationary", "pvp_status",
    "status_flags", "profile_flags", "born_date", "experience", "waypoints", "force_power",
    "force_sensitive_quests", "completed_force_sensitive_quests", "experimentation_points",
    "draft_schematics", "gender"}

\* A column that is read into the field it has the name of.
Kept(c, f) == f \in Persisted[c] /\ f \in DOMAIN Loaded[c] /\ Loaded[c][f] = f

LEMMA ObjectKept ==
    ASSUME NEW f \in OfObjectFields \ ForgottenFields
    PROVE  f \in ObjectPersisted /\ f \in DOMAIN ObjectLoaded /\ ObjectLoaded[f] = f
  BY DEF OfObjectFields, ForgottenFields, ObjectPersisted, ObjectLoaded, Same

LEMMA TangibleKept ==
    ASSUME NEW f \in (OfObjectFields \cup OfTangibleFields) \ ForgottenFields
    PROVE  f \in TangiblePersisted /\ f \in DOMAIN TangibleLoaded /\ TangibleLoaded[f] = f
  BY DEF OfObjectFields, OfTangibleFields, ForgottenFields, ObjectPersisted, ObjectLoaded, Same,
         TangiblePersisted, TangibleLoaded, ++

LEMMA CreatureKept ==
    ASSUME NEW f \in (OfObjectFields \cup OfTangibleFields \cup OfCreatureFields) \ ForgottenFields
    PROVE  f \in CreaturePersisted /\ f \in DOMAIN CreatureLoaded /\ CreatureLoaded[f] = f
<1> DEFINE Odd == [mood_animation |-> "mood_id", stat_base |-> "stat_wound"]
           Own == {"owner_id", "listen_to_id", "bank_credits", "posture", "faction_rank", "scale",
    "battle_fatigue", "state_bitmask", "acceleration_multiplier_base",
    "acceleration_multiplier_modifier", "speed_multiplier_base",
    "speed_multiplier_modifier", "run_speed", "slope_modifier_angle",
    "slope_modifier_percent", "walking_speed", "turn_radius", "water_modifier_percent",
    "combat_level", "animation", "group_id", "guild_id", "weapon_id", "mood_id",
    "performance_id", "disguise", "stat_current", "stat_max", "stat_wound"}
<1>1. CreatureLoaded = (TangibleLoaded ++ Odd) ++ Same(Own \cup SkillsLoaded)
  BY DEF CreatureLoaded
<1>2. f \notin DOMAIN Odd
  BY DEF ForgottenFields
<1>3. f \in OfCreatureFields => f \in Own /\ f \in CreaturePersisted
  BY DEF OfCreatureFields, CreatureSetters, CreatureSetters2, CreatureSetters3, CreatureSetters4,
         CreatureSetters5, CreatureSetters6, CreatureSetters7, CreatureSetters8, ForgottenFields,
         CreaturePersisted
<1>4. DOMAIN TangibleLoaded = DOMAIN ObjectLoaded \cup {"customization", "options_mask", "incap_timer",
                                  "condition_damage", "max_condition", "is_static"}
  <2>1. DOMAIN TangibleLoaded = DOMAIN ObjectLoaded \cup DOMAIN Same({"customization", "options_mask",
                                    "incap_timer", "condition_damage", "max_condition", "is_static"})
    BY DomainOfBoth DEF TangibleLoaded
  <2> QED
    BY <2>1, DomainOfSame
<1>5. DOMAIN ObjectLoaded = {"scene_id", "position", "orientation", "complexity", "stf_name",
                             "custom_name", "volume", "template"}
  BY DomainOfSame DEF ObjectLoaded
<1>6. f \in Own => f \notin DOMAIN TangibleLoaded
  BY <1>4, <1>5
<1> HIDE DEF Odd, Own
<1>7. CASE f \in OfObjectFields \cup OfTangibleFields
  <2>1. f \in DOMAIN TangibleLoaded /\ TangibleLoaded[f] = f /\ f \in CreaturePersisted
    BY <1>7, TangibleKept DEF CreaturePersisted
  <2>2. f \in DOMAIN (TangibleLoaded ++ Odd) /\ (TangibleLoaded ++ Odd)[f] = f
    BY <2>1, UpperFirst
  <2>3. f \in DOMAIN CreatureLoaded /\ CreatureLoaded[f] = f
    BY <1>1, <2>2, UpperFirst
  <2> QED
    BY <2>1, <2>3
<1>8. CASE f \in OfCreatureFields
  <2>1. f \notin DOMAIN (TangibleLoaded ++ Odd)
    BY <1>2, <1>3, <1>6, <1>8, InNeither
  <2>2. f \in DOMAIN Same(Own \cup SkillsLoaded) /\ Same(Own \cup SkillsLoaded)[f] = f
    BY <1>3, <1>8, SameIsSame
  <2>3. f \in DOMAIN CreatureLoaded /\ CreatureLoaded[f] = f
    BY <1>1, <2>1, <2>2, LowerElse
  <2> QED
    BY <1>3, <1>8, <2>3
<1> QED
  BY <1>7, <1>8

LEMMA PlayerKept ==
    ASSUME NEW f \in (OfObjectFields \cup OfPlayerFields) \ ForgottenFields
    PROVE  f \in PlayerPersisted /\ f \in DOMAIN PlayerLoaded /\ PlayerLoaded[f] = f
<1> DEFINE Plain == {"profession_tag", "born_date", "total_playtime",
    "admin_tag", "force_power", "max_force_power", "experimentation_flag", "crafting_stage",
    "nearest_crafting_station", "experimentation_points", "accomplishment_counter",
    "language", "current_stomach", "max_stomach", "current_drink", "max_drink",
    "jedi_state"}
           Own == Plain \cup FlagsLoaded \cup XpAndSchematics.loaded \cup Quests.loaded
    \cup NameLists.loaded
<1>1. PlayerLoaded = ObjectLoaded ++ Same(Own)
  BY DEF PlayerLoaded
<1>2. /\ Quests.persisted = {"quest_journal"} /\ Quests.loaded = {"quest_journal",
             "force_sensitive_quests", "completed_force_sensitive_quests"}
      /\ NameLists.loaded = {"friends", "ignored_players"} /\ NameLists.persisted = {"friends", "ignored_players"}
  BY DEF Quests, NameLists
<1>3. f \in OfPlayerFields => f \in PlayerPersisted
    /\ (f \in Plain \/ f = "quest_journal" \/ f \in {"friends", "ignored_players"})
  BY <1>2 DEF OfPlayerFields, PlayerSetters, PlayerSetters2, PlayerSetters3, PlayerSetters4, PlayerSetters5,
         PlayerSetters6, ForgottenFields, PlayerPersisted
<1>4. DOMAIN ObjectLoaded = {"scene_id", "position", "orientation", "complexity", "stf_name",
                             "custom_name", "volume", "template"}
  BY DomainOfSame DEF ObjectLoaded
<1>5. f \in OfPlayerFields => f \notin DOMAIN ObjectLoaded
  BY <1>3, <1>4
<1>6. f \in OfPlayerFields => f \in Own
  <2> HIDE DEF Plain
  <2> QED
    BY <1>2, <1>3
<1> HIDE DEF Plain, Own
<1>7. CASE f \in OfObjectFields
  <2>1. f \in DOMAIN ObjectLoaded /\ ObjectLoaded[f] = f /\ f \in PlayerPersisted
    BY <1>7, ObjectKept DEF PlayerPersisted
  <2>2. f \in DOMAIN PlayerLoaded /\ PlayerLoaded[f] = f
    BY <1>1, <2>1, UpperFirst
  <2> QED
    BY <2>1, <2>2
<1>8. CASE f \in OfPlayerFields
  <2>1. f \in DOMAIN Same(Own) /\ Same(Own)[f] = f
    BY <1>6, <1>8, SameIsSame
  <2>2. f \in DOMAIN PlayerLoaded /\ PlayerLoaded[f] = f
    BY <1>1, <1>5, <1>8, <2>1, LowerElse
  <2> QED
    BY <1>3, <1>8, <2>2
<1> QED
  BY <1>7, <1>8

\* Whatever SurvivesRestart does not except is saved and loaded under its own name.
LEMMA WhatIsKept ==
    ASSUME FieldsAssumption, class \in Classes, NEW f \in Fields \ Forgotten
    PROVE  Kept(class, f) /\ Stores(f) /\ f # "orientation"
<1>1. class \in {"Tangible", "Creature", "Player"} /\ f \notin ForgottenFields
  BY DEF FieldsAssumption, Forgotten, ForgottenFields
<1>2. class = "Tangible" => Kept(class, f)
  <2> SUFFICES ASSUME class = "Tangible" PROVE Kept("Tangible", f)
    OBVIOUS
  <2>1. f \in (OfObjectFields \cup OfTangibleFields) \ ForgottenFields
    BY <1>1, FieldsOfClasses DEF Fields
  <2>2. Persisted["Tangible"] = TangiblePersisted /\ Loaded["Tangible"] = TangibleLoaded
    BY DEF Persisted, Loaded
  <2> QED
    BY <2>1, <2>2, TangibleKept DEF Kept
<1>3. class = "Creature" => Kept(class, f)
  <2> SUFFICES ASSUME class = "Creature" PROVE Kept("Creature", f)
    OBVIOUS
  <2>1. f \in (OfObjectFields \cup OfTangibleFields \cup OfCreatureFields) \ ForgottenFields
    BY <1>1, FieldsOfClasses DEF Fields
  <2>2. Persisted["Creature"] = CreaturePersisted /\ Loaded["Creature"] = CreatureLoaded
    BY DEF Persisted, Loaded
  <2> QED
    BY <2>1, <2>2, CreatureKept DEF Kept
<1>4. class = "Player" => Kept(class, f)
  <2> SUFFICES ASSUME class = "Player" PROVE Kept("Player", f)
    OBVIOUS
  <2>1. f \in (OfObjectFields \cup OfPlayerFields) \ ForgottenFields
    BY <1>1, FieldsOfClasses DEF Fields
  <2>2. Persisted["Player"] = PlayerPersisted /\ Loaded["Player"] = PlayerLoaded
    BY DEF Persisted, Loaded
  <2> QED
    BY <2>1, <2>2, PlayerKept DEF Kept
<1>5. Stores(f) /\ f # "orientation"
  BY <1>1 DEF Stores, ForgottenFields
<1> QED
  BY <1>1, <1>2, <1>3, <1>4, <1>5

\* An object has what its setters were last given, and its row what they had been given
\* when it was saved, in every field that is kept.
StorageInv ==
    /\ class \in Classes /\ writes \in Nat
    /\ DOMAIN value = Fields /\ DOMAIN written = Fields
    /\ DOMAIN stored = Fields /\ DOMAIN saved = Fields
    /\ \A f \in Fields \ Forgotten : value[f] = written[f] /\ stored[f] = saved[f]

\* After a restart each field that is kept has the value it had when its client last
\* left: whatever was written, by any setter and any number of times, before or after.
THEOREM RestartTheorem == Spec => SurvivesRestart
<1> USE FieldsAssumption
<1>1. Init => StorageInv
  BY DEF Init, StorageInv
<1>2. StorageInv /\ [Next]_vars => StorageInv'
  <2> SUFFICES ASSUME StorageInv, [Next]_vars PROVE StorageInv'
    OBVIOUS
  <2>1. ASSUME NEW f \in Fields, Write(f) PROVE StorageInv'
    <3>1. class' = class /\ Fields' = Fields /\ Forgotten' = Forgotten
      BY <2>1 DEF Write, Fields, Forgotten
    <3>2. writes' \in Nat /\ stored' = stored /\ saved' = saved
      BY <2>1 DEF Write, StorageInv
    <3>3. /\ written' = [written EXCEPT ![f] = writes']
          /\ value' = IF Stores(f) THEN [value EXCEPT ![f] = writes'] ELSE value
      BY <2>1 DEF Write
    <3>4. f \notin Forgotten => Stores(f)
      BY <2>1, WhatIsKept DEF StorageInv
    <3> QED
      BY <3>1, <3>2, <3>3, <3>4 DEF StorageInv
  <2>2. CASE Join
    BY <2>2 DEF Join, StorageInv, Fields, Forgotten
  <2>3. CASE Leave
    <3>1. class' = class /\ Fields' = Fields /\ Forgotten' = Forgotten
      BY <2>3 DEF Leave, Fields, Forgotten
    <3>2. /\ stored' = [f \in Fields |-> IF f \in Persisted[class] THEN value[f] ELSE stored[f]]
          /\ saved' = written /\ value' = value /\ written' = written /\ writes' = writes
      BY <2>3 DEF Leave
    <3>3. DOMAIN stored' = Fields
      BY <3>2 DEF StorageInv
    <3>4. \A f \in Fields \ Forgotten : stored'[f] = saved'[f]
      BY <3>2, WhatIsKept DEF StorageInv, Kept
    <3> QED
      BY <3>1, <3>2, <3>3, <3>4 DEF StorageInv
  <2>4. CASE Restart
    <3>1. class' = class /\ Fields' = Fields /\ Forgotten' = Forgotten
      BY <2>4 DEF Restart, Fields, Forgotten
    <3>2. DOMAIN value' = Fields /\ written' = value' /\ writes' = writes /\ stored' = stored /\ saved' = saved
      BY <2>4 DEF Restart
    <3> QED
      BY <3>1, <3>2 DEF StorageInv
  <2>5. ASSUME NEW i \in 1 .. MaxWrites + MaxJoins, HandleEvent(i) PROVE StorageInv'
    BY <2>5 DEF HandleEvent, StorageInv, Fields, Forgotten
  <2>6. CASE UNCHANGED vars
    BY <2>6 DEF vars, StorageInv, Fields, Forgotten
  <2> QED
    BY <2>1, <2>2, <2>3, <2>4, <2>5, <2>6 DEF Next
<1>3. StorageInv /\ [Next]_vars =>
          [restarted' # restarted => \A f \in Fields \ Forgotten : value'[f] = saved[f]]_vars
  <2> SUFFICES ASSUME StorageInv, Next, restarted' # restarted, NEW f \in Fields \ Forgotten
               PROVE  value'[f] = saved[f]
    BY DEF vars
  <2>1. Restart
    BY DEF Next, Write, Join, Leave, HandleEvent
  <2>2. Kept(class, f) /\ f # "orientation"
    BY WhatIsKept DEF StorageInv
  <2> QED
    BY <2>1, <2>2 DEF Restart, Kept, ReadColumn, StorageInv
<1> QED
  BY <1>1, <1>2, <1>3, PTL DEF Spec, SurvivesRestart

-----------------------------------------------------------------------------
(* The characters: tables of rows *)

Rows == [name : CharacterName, owner : User \cup {NoOne}, deleted : BOOLEAN]
Tables == UNION {[ids -> Rows] : ids \in SUBSET Nat}

LEMMA TableIs ==
    ASSUME NEW f \in Tables
    PROVE  DOMAIN f \subseteq Nat /\ \A i \in DOMAIN f : f[i] \in Rows
  BY DEF Tables

LEMMA EmptyTable == <<>> \in Tables /\ DOMAIN <<>> = {}
<1>1. DOMAIN <<>> = {}
  OBVIOUS
<1>2. <<>> \in [{} -> Rows]
  OBVIOUS
<1> QED
  BY <1>1, <1>2 DEF Tables

\* A row that a transaction wrote is the one it reads.
LEMMA OverIs ==
    ASSUME NEW own, NEW others
    PROVE  /\ DOMAIN Over(own, others) = DOMAIN own \cup DOMAIN others
           /\ \A i \in DOMAIN own : Over(own, others)[i] = own[i]
           /\ \A i \in DOMAIN others \ DOMAIN own : Over(own, others)[i] = others[i]
  BY DEF Over

LEMMA OverIsTable ==
    ASSUME NEW own \in Tables, NEW others \in Tables
    PROVE  Over(own, others) \in Tables
<1> DEFINE ids == DOMAIN own \cup DOMAIN others
<1>1. ids \subseteq Nat
  BY TableIs
<1>2. \A i \in ids : (IF i \in DOMAIN own THEN own[i] ELSE others[i]) \in Rows
  BY TableIs
<1>3. Over(own, others) \in [ids -> Rows]
  BY <1>2 DEF Over
<1> QED
  BY <1>1, <1>3 DEF Tables

LEMMA RowIsTable ==
    ASSUME NEW id \in Nat, NEW row \in Rows
    PROVE  Row(id, row) \in Tables /\ DOMAIN Row(id, row) = {id} /\ Row(id, row)[id] = row
<1>1. Row(id, row) \in [{id} -> Rows] /\ {id} \in SUBSET Nat
  BY DEF Row
<1>2. DOMAIN Row(id, row) = {id} /\ Row(id, row)[id] = row
  BY DEF Row
<1> QED
  BY <1>1, <1>2 DEF Tables

LEMMA DeletedRow ==
    ASSUME NEW row \in Rows
    PROVE  /\ Deleted(row) \in Rows /\ Deleted(row).deleted
           /\ Deleted(row).owner = row.owner /\ Deleted(row).name = row.name
  BY DEF Rows, Deleted

-----------------------------------------------------------------------------
(* The invariant *)

LastId == Cardinality(DOMAIN rows)
Own(d) == transaction[d].own

Transactions == [open : BOOLEAN, read : BOOLEAN, seen : Tables, own : Tables,
                 players : SUBSET (User \cup {NoOne}), locks : SUBSET Nat]
Handlers == [at : {"rest", "register", "player", "authenticate", "create"},
             account : User \cup {NoOne}, user : User \cup {NoOne},
             name : CharacterName \cup {<<>>}, conn : Connection \cup {NoOne},
             checked : SUBSET Nat, list : SUBSET Nat]

DatabaseType ==
    /\ rows \in Tables /\ LastId \in Nat /\ DOMAIN rows = 1 .. LastId
    /\ transaction \in [Connection -> Transactions]

AnswersType ==
    /\ created \subseteq [id : Nat, account : User \cup {NoOne}, name : CharacterName, unseen : SUBSET Nat]
    /\ gone \subseteq [account : User \cup {NoOne}, id : Nat, open : BOOLEAN]
    /\ \A g \in gone : g.id \in DOMAIN rows

\* What a transaction saw is still there, for the same account and of the same name.
SeenAreOld ==
    \A d \in Connection : \A i \in DOMAIN transaction[d].seen :
        /\ i \in DOMAIN rows
        /\ transaction[d].seen[i].owner = rows[i].owner /\ transaction[d].seen[i].name = rows[i].name

\* It wrote into a row that is there only to delete it for its owner,
OwnWereDeleted ==
    \A d \in Connection : \A i \in DOMAIN Own(d) : i \in DOMAIN rows =>
        /\ Own(d)[i].owner = rows[i].owner /\ Own(d)[i].name = rows[i].name /\ Own(d)[i].deleted
        /\ \E g \in gone : g.id = i /\ g.account = rows[i].owner

\* and the row that a failed creation left in it is the next one, and locked:
OwnIsPending ==
    \A d \in Connection : \A i \in DOMAIN Own(d) : i \notin DOMAIN rows =>
        /\ i = LastId + 1 /\ i \in transaction[d].locks
        /\ Own(d)[i].owner = NoOne /\ ~Own(d)[i].deleted

\* only one transaction has such a row.
OnePending ==
    \A d, e \in Connection : LastId + 1 \in DOMAIN Own(d) /\ LastId + 1 \in DOMAIN Own(e) => d = e

DatabaseInv == DatabaseType /\ AnswersType /\ SeenAreOld /\ OwnWereDeleted /\ OwnIsPending /\ OnePending

\* A row, committed or not, that has another name than this.
NotNamed(i, name) ==
    \/ i \in DOMAIN rows /\ rows[i].name # name
    \/ \E d \in Connection : i \in DOMAIN Own(d) /\ Own(d)[i].name # name

\* Whoever has checked a name found that no row he could see has it.
HandlersInv ==
    /\ handler \in [AccountClient -> Handlers]
    /\ \A c \in AccountClient :
        /\ handler[c].at = "create" =>
            /\ handler[c].account \in User /\ handler[c].name \in CharacterName /\ handler[c].conn \in Connection
            /\ \A i \in handler[c].checked : NotNamed(i, <<handler[c].name[1], "">>)
        /\ handler[c].at \in {"register", "player", "authenticate"} => handler[c].user \in User

CharactersInv == DatabaseInv /\ HandlersInv /\ CharactersAreKept

-----------------------------------------------------------------------------
(* Counting rows *)

LEMMA CountTo ==
    ASSUME NEW n \in Nat
    PROVE  Cardinality(1 .. n) = n /\ IsFiniteSet(1 .. n)
  BY FS_Interval

LEMMA NextIsLast == \A n \in Nat : \A i \in (1 .. n) \cup {n + 1} : ~(n + 1 < i)
  OBVIOUS

LEMMA NextIsNew == \A n \in Nat : n + 1 \notin 1 .. n
  OBVIOUS

\* The other connections have no row of their own that is not there, if the last is not
\* locked by one.
LEMMA NoneIsLocked ==
    ASSUME DatabaseInv, NEW d \in Connection, ~LastLocked(d),
           NEW e \in Connection, e # d
    PROVE  DOMAIN Own(e) \subseteq DOMAIN rows
<1> SUFFICES ASSUME NEW i \in DOMAIN Own(e), i \notin DOMAIN rows PROVE FALSE
  OBVIOUS
<1>1. i = LastId + 1 /\ i \in transaction[e].locks
  BY DEF DatabaseInv, OwnIsPending
<1>2. \A k \in Connection : \A j \in DOMAIN Own(k) : j \in DOMAIN rows \/ j = LastId + 1
  BY DEF DatabaseInv, OwnIsPending
<1>3. DOMAIN rows \cup Pending = 1 .. (LastId + 1)
  <2>1. Pending \subseteq DOMAIN rows \cup {LastId + 1}
    BY <1>2 DEF Pending, Own
  <2>2. LastId + 1 \in Pending
    BY <1>1 DEF Pending, Own
  <2>3. DOMAIN rows = 1 .. LastId /\ LastId \in Nat
    BY DEF DatabaseInv, DatabaseType
  <2> HIDE DEF LastId
  <2>4. (1 .. LastId) \cup {LastId + 1} = 1 .. (LastId + 1)
    BY <2>3
  <2> QED
    BY <2>1, <2>2, <2>3, <2>4
<1>4. Cardinality(DOMAIN rows \cup Pending) = LastId + 1
  <2>1. LastId + 1 \in Nat
    BY DEF DatabaseInv, DatabaseType
  <2> HIDE DEF LastId
  <2> QED
    BY <1>3, <2>1, CountTo
<1>5. LastId + 1 \in LockedByAnother(d)
  BY <1>1 DEF LockedByAnother
<1> QED
  BY <1>4, <1>5 DEF LastLocked

\* What a transaction that commits leaves.
LEMMA CommittedRows ==
    ASSUME DatabaseInv, NEW d \in Connection
    PROVE  /\ Committed(d) \in Tables
           /\ DOMAIN Committed(d) = DOMAIN rows \cup DOMAIN Own(d)
           /\ DOMAIN Committed(d) = 1 .. Cardinality(DOMAIN Committed(d))
           /\ Cardinality(DOMAIN Committed(d)) \in Nat
           /\ \A i \in DOMAIN rows :
                /\ Committed(d)[i].owner = rows[i].owner /\ Committed(d)[i].name = rows[i].name
                /\ rows[i].deleted => Committed(d)[i].deleted
                /\ Committed(d)[i].deleted =>
                      rows[i].deleted \/ \E g \in gone : g.id = i /\ g.account = rows[i].owner
           /\ \A i \in DOMAIN Own(d) : Committed(d)[i] = Own(d)[i]
           /\ \A i \in DOMAIN Committed(d) \ DOMAIN rows :
                /\ i = LastId + 1 /\ i \in DOMAIN Own(d)
                /\ Committed(d)[i].owner = NoOne /\ ~Committed(d)[i].deleted
<1>1. Own(d) \in Tables /\ rows \in Tables /\ Committed(d) = Over(Own(d), rows)
  BY DEF DatabaseInv, DatabaseType, Transactions, Own, Committed
<1>2. /\ DOMAIN Committed(d) = DOMAIN rows \cup DOMAIN Own(d)
      /\ \A i \in DOMAIN Own(d) : Committed(d)[i] = Own(d)[i]
      /\ \A i \in DOMAIN rows \ DOMAIN Own(d) : Committed(d)[i] = rows[i]
  <2> DEFINE own == Own(d)
             C == Committed(d)
  <2>1. /\ DOMAIN Over(own, rows) = DOMAIN own \cup DOMAIN rows
        /\ \A i \in DOMAIN own : Over(own, rows)[i] = own[i]
        /\ \A i \in DOMAIN rows \ DOMAIN own : Over(own, rows)[i] = rows[i]
    <3> HIDE DEF own
    <3> QED
      BY OverIs
  <2>2. C = Over(own, rows)
    BY <1>1
  <2> HIDE DEF own, C
  <2>3. /\ DOMAIN C = DOMAIN rows \cup DOMAIN own
        /\ \A i \in DOMAIN own : C[i] = own[i]
        /\ \A i \in DOMAIN rows \ DOMAIN own : C[i] = rows[i]
    BY <2>1, <2>2
  <2> QED
    BY <2>3 DEF own, C
<1>3. Committed(d) \in Tables
  BY <1>1, OverIsTable
<1>4. \A i \in DOMAIN Own(d) : i \in DOMAIN rows \/ i = LastId + 1
  BY DEF DatabaseInv, OwnIsPending
<1>5. LastId \in Nat /\ DOMAIN rows = 1 .. LastId
  BY DEF DatabaseInv, DatabaseType
<1>6. \E n \in Nat : DOMAIN Committed(d) = 1 .. n
  <2> HIDE DEF LastId
  <2>1. CASE LastId + 1 \in DOMAIN Own(d)
    <3>1. DOMAIN Committed(d) = (1 .. LastId) \cup {LastId + 1}
      BY <1>2, <1>4, <1>5, <2>1
    <3> QED
      BY <3>1, <1>5
  <2>2. CASE LastId + 1 \notin DOMAIN Own(d)
    <3>1. DOMAIN Committed(d) = 1 .. LastId
      BY <1>2, <1>4, <1>5, <2>2
    <3> QED
      BY <3>1, <1>5
  <2> QED
    BY <2>1, <2>2
<1>7. /\ DOMAIN Committed(d) = 1 .. Cardinality(DOMAIN Committed(d))
      /\ Cardinality(DOMAIN Committed(d)) \in Nat
  BY <1>6, CountTo
<1>8. ASSUME NEW i \in DOMAIN rows
      PROVE  /\ Committed(d)[i].owner = rows[i].owner /\ Committed(d)[i].name = rows[i].name
             /\ rows[i].deleted => Committed(d)[i].deleted
             /\ Committed(d)[i].deleted =>
                   rows[i].deleted \/ \E g \in gone : g.id = i /\ g.account = rows[i].owner
  <2>1. CASE i \in DOMAIN Own(d)
    BY <1>2, <2>1 DEF DatabaseInv, OwnWereDeleted
  <2>2. CASE i \notin DOMAIN Own(d)
    BY <1>2, <2>2
  <2> QED
    BY <2>1, <2>2
<1>9. ASSUME NEW i \in DOMAIN Committed(d) \ DOMAIN rows
      PROVE  /\ i = LastId + 1 /\ i \in DOMAIN Own(d)
             /\ Committed(d)[i].owner = NoOne /\ ~Committed(d)[i].deleted
  BY <1>2 DEF DatabaseInv, OwnIsPending
<1> QED
  BY <1>2, <1>3, <1>7, <1>8, <1>9

-----------------------------------------------------------------------------
(* Steps of the database *)

\* Names go nowhere: a row keeps its own, whether or when it is committed.
NamesKept ==
    /\ \A i \in DOMAIN rows : i \in DOMAIN rows' /\ rows'[i].name = rows[i].name
    /\ \A d \in Connection : \A i \in DOMAIN Own(d) :
        \/ i \in DOMAIN rows' /\ rows'[i].name = Own(d)[i].name
        \/ i \in DOMAIN Own(d)' /\ Own(d)'[i].name = Own(d)[i].name

LEMMA StillNotNamed ==
    ASSUME NamesKept, NEW i, NEW name, NotNamed(i, name)
    PROVE  NotNamed(i, name)'
<1>1. CASE i \in DOMAIN rows /\ rows[i].name # name
  BY <1>1 DEF NamesKept, NotNamed
<1>2. ASSUME NEW d \in Connection, i \in DOMAIN Own(d), Own(d)[i].name # name
      PROVE  NotNamed(i, name)'
  <2>1. \/ i \in DOMAIN rows' /\ rows'[i].name # name
        \/ i \in DOMAIN Own(d)' /\ Own(d)'[i].name # name
    BY <1>2 DEF NamesKept
  <2> QED
    BY <2>1 DEF NotNamed
<1> QED
  BY <1>1, <1>2 DEF NotNamed

LEMMA HandlersKept ==
    ASSUME HandlersInv, NamesKept, handler' = handler
    PROVE  HandlersInv'
<1>1. ASSUME NEW c \in AccountClient, handler[c].at = "create", NEW i \in handler[c].checked
      PROVE  NotNamed(i, <<handler[c].name[1], "">>)'
  BY <1>1, StillNotNamed DEF HandlersInv
<1> QED
  BY <1>1 DEF HandlersInv

\* A statement that reads, in a transaction or not.
LEMMA Read ==
    ASSUME DatabaseInv, NEW d \in Connection
    PROVE  /\ AfterRead(d) \in Transactions
           /\ AfterRead(d).own = Own(d) /\ AfterRead(d).locks = transaction[d].locks
           /\ AfterRead(d).open = transaction[d].open
           /\ AfterRead(d).seen = transaction[d].seen \/ AfterRead(d).seen = rows
<1> DEFINE t == transaction[d]
<1>1. t \in Transactions /\ rows \in Tables
  BY DEF DatabaseInv, DatabaseType
<1>2. AfterRead(d) = t \/ AfterRead(d) = [t EXCEPT !.read = TRUE, !.seen = rows]
  BY DEF AfterRead
<1> HIDE DEF t
<1>3. CASE AfterRead(d) = t
  BY <1>1, <1>3 DEF t, Own
<1>4. CASE AfterRead(d) = [t EXCEPT !.read = TRUE, !.seen = rows]
  <2> DEFINE u == [t EXCEPT !.read = TRUE, !.seen = rows]
  <2>1. u \in Transactions /\ u.own = t.own /\ u.locks = t.locks /\ u.open = t.open /\ u.seen = rows
    BY <1>1 DEF Transactions
  <2> HIDE DEF u
  <2> QED
    BY <1>4, <2>1 DEF u, t, Own
<1> QED
  BY <1>2, <1>3, <1>4

LEMMA Reading ==
    ASSUME DatabaseInv, NEW d \in Connection,
           transaction' = [transaction EXCEPT ![d] = AfterRead(d)], rows' = rows,
           AnswersType', gone \subseteq gone'
    PROVE  DatabaseInv' /\ NamesKept /\ \A e \in Connection : Own(e)' = Own(e)
<1> DEFINE r == AfterRead(d)
<1>1. /\ r \in Transactions /\ r.own = Own(d) /\ r.locks = transaction[d].locks
      /\ r.seen = transaction[d].seen \/ r.seen = rows
  BY Read
<1> HIDE DEF r
<1>2. transaction \in [Connection -> Transactions] /\ transaction' = [transaction EXCEPT ![d] = r]
  BY DEF DatabaseInv, DatabaseType, r
<1>3. transaction' \in [Connection -> Transactions]
  BY <1>1, <1>2
<1>4. \A e \in Connection :
        /\ Own(e)' = Own(e) /\ transaction'[e].locks = transaction[e].locks
        /\ transaction'[e].seen = transaction[e].seen \/ transaction'[e].seen = rows
  BY <1>1, <1>2 DEF Own
<1>5. LastId' = LastId
  BY DEF LastId
<1>6. DatabaseType'
  BY <1>3, <1>5 DEF DatabaseInv, DatabaseType
<1>7. SeenAreOld'
  BY <1>4 DEF DatabaseInv, SeenAreOld
<1>8. OwnWereDeleted'
  BY <1>4 DEF DatabaseInv, OwnWereDeleted
<1>9. OwnIsPending'
  BY <1>4, <1>5 DEF DatabaseInv, OwnIsPending
<1>10. OnePending'
  BY <1>4, <1>5 DEF DatabaseInv, OnePending
<1>11. NamesKept
  BY <1>4 DEF NamesKept
<1> QED
  BY <1>4, <1>6, <1>7, <1>8, <1>9, <1>10, <1>11 DEF DatabaseInv

\* A transaction that commits, on a connection where another may be opened: the rows
\* are those it leaves and perhaps one more, made at once or left in the new one.
LEMMA Committing ==
    ASSUME DatabaseInv, NEW d \in Connection, NEW t \in Transactions,
           transaction' = [transaction EXCEPT ![d] = t],
           rows' \in Tables, LastId' \in Nat, DOMAIN rows' = 1 .. LastId',
           \A i \in DOMAIN Committed(d) : i \in DOMAIN rows' /\ rows'[i] = Committed(d)[i],
           DOMAIN rows' = DOMAIN Committed(d) \/ ~LastLocked(d),
           \A i \in DOMAIN t.seen : i \in DOMAIN rows' /\ t.seen[i] = rows'[i],
           \A i \in DOMAIN t.own :
               /\ ~LastLocked(d) /\ i = LastId' + 1 /\ i \in t.locks
               /\ t.own[i].owner = NoOne /\ ~t.own[i].deleted,
           AnswersType', gone' = gone
    PROVE  DatabaseInv' /\ NamesKept
<1> DEFINE C == Committed(d)
<1>1. /\ transaction'[d] = t /\ \A e \in Connection \ {d} : transaction'[e] = transaction[e]
      /\ transaction' \in [Connection -> Transactions]
      /\ Own(d)' = t.own /\ \A e \in Connection \ {d} : Own(e)' = Own(e)
  BY DEF DatabaseInv, DatabaseType, Own
<1>2. /\ DOMAIN C = DOMAIN rows \cup DOMAIN Own(d)
      /\ \A i \in DOMAIN rows : C[i].owner = rows[i].owner /\ C[i].name = rows[i].name
      /\ \A i \in DOMAIN Own(d) : C[i] = Own(d)[i]
      /\ \A i \in DOMAIN C \ DOMAIN rows : i = LastId + 1 /\ i \in DOMAIN Own(d)
  BY CommittedRows
<1>3. \A i \in DOMAIN C : i \in DOMAIN rows' /\ rows'[i] = C[i]
  OBVIOUS
<1> HIDE DEF C
<1>4. \A i \in DOMAIN rows :
        i \in DOMAIN rows' /\ rows'[i].owner = rows[i].owner /\ rows'[i].name = rows[i].name
  BY <1>2, <1>3
<1>5. DatabaseType'
  BY <1>1 DEF DatabaseType
<1>6. SeenAreOld'
  <2> SUFFICES ASSUME NEW e \in Connection, NEW i \in DOMAIN transaction'[e].seen
               PROVE  /\ i \in DOMAIN rows' /\ transaction'[e].seen[i].owner = rows'[i].owner
                      /\ transaction'[e].seen[i].name = rows'[i].name
    BY DEF SeenAreOld
  <2>1. CASE e = d
    BY <1>1, <2>1
  <2>2. CASE e # d
    BY <1>1, <1>4, <2>2 DEF DatabaseInv, SeenAreOld
  <2> QED
    BY <2>1, <2>2
\* What another has of its own that is not there stays the next row.
<1>7. ASSUME NEW e \in Connection \ {d}, NEW i \in DOMAIN Own(e), i \notin DOMAIN rows
      PROVE  i \notin DOMAIN rows' /\ LastId' = LastId
  <2>1. LastLocked(d)
    BY <1>7, NoneIsLocked
  <2>2. DOMAIN rows' = DOMAIN C
    BY <2>1 DEF C
  <2>3. i = LastId + 1 /\ i \notin DOMAIN Own(d)
    BY <1>7 DEF DatabaseInv, OwnIsPending, OnePending
  <2>4. DOMAIN C = DOMAIN rows
    BY <1>2, <2>3
  <2> QED
    BY <1>7, <2>2, <2>4 DEF LastId
<1>8. \A e \in Connection \ {d} : \A i \in DOMAIN Own(e) : i \in DOMAIN rows' => i \in DOMAIN rows
  BY <1>7
<1>9. OwnWereDeleted'
  <2> SUFFICES ASSUME NEW e \in Connection, NEW i \in DOMAIN Own(e)', i \in DOMAIN rows'
               PROVE  /\ Own(e)'[i].owner = rows'[i].owner /\ Own(e)'[i].name = rows'[i].name /\ Own(e)'[i].deleted
                      /\ \E g \in gone' : g.id = i /\ g.account = rows'[i].owner
    BY DEF OwnWereDeleted
  <2>1. e # d
    <3> SUFFICES ASSUME e = d PROVE FALSE
      OBVIOUS
    <3>1. i = LastId' + 1
      BY <1>1
    <3> QED
      BY <3>1, NextIsNew
  <2>2. i \in DOMAIN Own(e) /\ Own(e)' = Own(e)
    BY <1>1, <2>1
  <2>3. i \in DOMAIN rows
    BY <1>8, <2>1, <2>2
  <2> QED
    BY <1>4, <2>2, <2>3 DEF DatabaseInv, OwnWereDeleted
<1>10. OwnIsPending'
  <2> SUFFICES ASSUME NEW e \in Connection, NEW i \in DOMAIN Own(e)', i \notin DOMAIN rows'
               PROVE  /\ i = LastId' + 1 /\ i \in transaction'[e].locks
                      /\ Own(e)'[i].owner = NoOne /\ ~Own(e)'[i].deleted
    BY DEF OwnIsPending
  <2>1. CASE e = d
    BY <1>1, <2>1
  <2>2. CASE e # d
    <3>1. i \in DOMAIN Own(e) /\ i \notin DOMAIN rows /\ Own(e)' = Own(e) /\ transaction'[e] = transaction[e]
      BY <1>1, <1>4, <2>2
    <3>2. LastId' = LastId
      BY <1>7, <2>2, <3>1
    <3> QED
      BY <3>1, <3>2 DEF DatabaseInv, OwnIsPending
  <2> QED
    BY <2>1, <2>2
<1>11. OnePending'
  <2> SUFFICES ASSUME NEW e \in Connection, NEW k \in Connection, e # k,
                      LastId' + 1 \in DOMAIN Own(e)', LastId' + 1 \in DOMAIN Own(k)'
               PROVE  FALSE
    BY DEF OnePending
  <2>1. LastId' + 1 \notin DOMAIN rows'
    <3> HIDE DEF LastId
    <3> QED
      OBVIOUS
  <2>2. \A j \in Connection \ {d} : LastId' + 1 \in DOMAIN Own(j)' =>
            LastId' = LastId /\ LastId + 1 \in DOMAIN Own(j) /\ LastId + 1 \notin DOMAIN rows /\ LastLocked(d)
    <3> TAKE j \in Connection \ {d}
    <3> HAVE LastId' + 1 \in DOMAIN Own(j)'
    <3>1. LastId' + 1 \in DOMAIN Own(j) /\ LastId' + 1 \notin DOMAIN rows
      BY <1>1, <1>4, <2>1
    <3>2. LastId' = LastId
      BY <1>7, <3>1
    <3>3. LastLocked(d)
      BY <3>1, NoneIsLocked
    <3> QED
      BY <3>1, <3>2, <3>3
  <2>3. CASE e # d /\ k # d
    BY <2>2, <2>3 DEF DatabaseInv, OnePending
  <2>4. CASE e = d \/ k = d
    BY <1>1, <2>2, <2>4
  <2> QED
    BY <2>3, <2>4
<1>12. NamesKept
  <2>1. \A i \in DOMAIN Own(d) : i \in DOMAIN rows' /\ rows'[i].name = Own(d)[i].name
    BY <1>2, <1>3
  <2> QED
    BY <1>1, <1>4, <2>1 DEF NamesKept
<1> QED
  BY <1>5, <1>6, <1>9, <1>10, <1>11, <1>12 DEF DatabaseInv

-----------------------------------------------------------------------------
(* Handlers and answers *)

\* The rows and their owners stay.
OwnersKept == \A i \in DOMAIN rows : i \in DOMAIN rows' /\ rows'[i].owner = rows[i].owner

LEMMA ListsKept ==
    ASSUME ListsAreOwn, OwnersKept, handler' = handler
    PROVE  ListsAreOwn'
  BY DEF ListsAreOwn, OwnersKept

\* One handler goes on, and not to create anything.
LEMMA HandlerGoesOn ==
    ASSUME HandlersInv, NamesKept, NEW c \in AccountClient, NEW h \in Handlers, Become(c, h),
           h.at # "create", h.at \in {"register", "player", "authenticate"} => h.user \in User
    PROVE  HandlersInv'
<1>1. handler \in [AccountClient -> Handlers] /\ handler' = [handler EXCEPT ![c] = h]
  BY DEF HandlersInv, Become
<1>2. /\ handler' \in [AccountClient -> Handlers] /\ handler'[c] = h
      /\ \A k \in AccountClient \ {c} : handler'[k] = handler[k]
  BY <1>1
<1>3. ASSUME NEW k \in AccountClient \ {c}, handler[k].at = "create", NEW i \in handler[k].checked
      PROVE  NotNamed(i, <<handler[k].name[1], "">>)'
  <2> DEFINE name == handler[k].name
  <2>1. name' = name
    BY <1>2
  <2>2. ASSUME NEW n, n = <<name[1], "">> PROVE NotNamed(i, n)'
    BY <1>3, <2>2, StillNotNamed DEF HandlersInv
  <2> HIDE DEF name
  <2>3. NotNamed(i, <<name[1], "">>)'
    BY <2>1, <2>2
  <2> QED
    BY <2>3 DEF name
<1>4. ASSUME NEW k \in AccountClient
      PROVE  /\ handler'[k].at = "create" =>
                /\ handler'[k].account \in User /\ handler'[k].name \in CharacterName
                /\ handler'[k].conn \in Connection
                /\ \A i \in handler'[k].checked : NotNamed(i, <<handler[k].name[1], "">>)'
             /\ handler'[k].at \in {"register", "player", "authenticate"} => handler'[k].user \in User
  <2>1. CASE k = c
    BY <1>2, <2>1
  <2>2. CASE k # c
    BY <1>2, <1>3, <2>2 DEF HandlersInv
  <2> QED
    BY <2>1, <2>2
<1> QED
  BY <1>2, <1>4 DEF HandlersInv

LEMMA ListGoesOn ==
    ASSUME ListsAreOwn, OwnersKept, HandlersInv, NEW c \in AccountClient, NEW h, Become(c, h),
           \A i \in h.list : i \in DOMAIN rows' /\ rows'[i].owner = h.account
    PROVE  ListsAreOwn'
<1>1. handler'[c] = h /\ \A k \in AccountClient \ {c} : handler'[k] = handler[k]
  BY DEF HandlersInv, Become
<1> SUFFICES ASSUME NEW k \in AccountClient, NEW i \in handler'[k].list
             PROVE  i \in DOMAIN rows' /\ rows'[i].owner = handler'[k].account
  BY DEF ListsAreOwn
<1>2. CASE k = c
  BY <1>1, <1>2
<1>3. CASE k # c
  BY <1>1, <1>3 DEF ListsAreOwn, OwnersKept
<1> QED
  BY <1>2, <1>3

\* What was created and deleted.
AnswersAreKept == CreatedIsThere /\ OthersAreOwnedByNoOne /\ DeletedForItsOwner /\ NamesTwiceUnseen

LEMMA AnswersStay ==
    ASSUME AnswersAreKept, UNCHANGED <<rows, created, gone>>
    PROVE  AnswersAreKept' /\ OwnersKept
  BY DEF AnswersAreKept, CreatedIsThere, OthersAreOwnedByNoOne, DeletedForItsOwner, NamesTwiceUnseen, OwnersKept

LEMMA AnswersTypeStays ==
    ASSUME AnswersType, UNCHANGED <<rows, created, gone>>
    PROVE  AnswersType'
  BY DEF AnswersType

\* A statement outside a transaction reads the rows, one in it an older state of them
\* and what a failed creation has left there.
LEMMA ViewIs ==
    ASSUME DatabaseInv, NEW d \in Connection
    PROVE  /\ DOMAIN View(d) \subseteq Nat
           /\ \A i \in DOMAIN View(d) :
                \/ /\ i \in DOMAIN rows
                   /\ View(d)[i].owner = rows[i].owner /\ View(d)[i].name = rows[i].name
                \/ i \in DOMAIN Own(d) /\ i \notin DOMAIN rows /\ View(d)[i] = Own(d)[i]
<1> DEFINE t == transaction[d]
           base == IF t.read THEN t.seen ELSE rows
<1>1. t \in Transactions /\ t.own \in Tables /\ t.seen \in Tables /\ rows \in Tables
  BY DEF DatabaseInv, DatabaseType, Transactions
<1>2. CASE ~t.open
  <2>1. View(d) = rows
    BY <1>2 DEF View
  <2> QED
    BY <1>1, <2>1, TableIs
<1>3. CASE t.open
  <2>1. View(d) = Over(t.own, base)
    BY <1>3 DEF View
  <2>2. base \in Tables /\ \A i \in DOMAIN base :
          i \in DOMAIN rows /\ base[i].owner = rows[i].owner /\ base[i].name = rows[i].name
    BY <1>1 DEF DatabaseInv, SeenAreOld
  <2> HIDE DEF base
  <2>3. /\ DOMAIN View(d) = DOMAIN Own(d) \cup DOMAIN base
        /\ \A i \in DOMAIN Own(d) : View(d)[i] = Own(d)[i]
        /\ \A i \in DOMAIN base \ DOMAIN Own(d) : View(d)[i] = base[i]
    <3>1. /\ DOMAIN Over(t.own, base) = DOMAIN t.own \cup DOMAIN base
          /\ \A i \in DOMAIN t.own : Over(t.own, base)[i] = t.own[i]
          /\ \A i \in DOMAIN base \ DOMAIN t.own : Over(t.own, base)[i] = base[i]
      BY OverIs
    <3> QED
      BY <2>1, <3>1 DEF Own
  <2>4. DOMAIN View(d) \subseteq Nat
    BY <1>1, <2>2, <2>3, TableIs DEF Own
  <2>5. ASSUME NEW i \in DOMAIN View(d)
        PROVE  \/ /\ i \in DOMAIN rows
                  /\ View(d)[i].owner = rows[i].owner /\ View(d)[i].name = rows[i].name
               \/ i \in DOMAIN Own(d) /\ i \notin DOMAIN rows /\ View(d)[i] = Own(d)[i]
    <3>1. CASE i \in DOMAIN Own(d)
      BY <2>3, <3>1 DEF DatabaseInv, OwnWereDeleted
    <3>2. CASE i \notin DOMAIN Own(d)
      BY <2>2, <2>3, <3>2
    <3> QED
      BY <3>1, <3>2
  <2> QED
    BY <2>4, <2>5
<1> QED
  BY <1>2, <1>3

\* The list that a client is sent.
LEMMA ListIs ==
    ASSUME DatabaseInv, NEW d \in Connection, NEW u \in User
    PROVE  /\ GetCharactersForAccount(u, d) \subseteq Nat
           /\ \A i \in GetCharactersForAccount(u, d) : i \in DOMAIN rows /\ rows[i].owner = u
<1>1. \A i \in DOMAIN Own(d) : i \notin DOMAIN rows => Own(d)[i].owner = NoOne
  BY DEF DatabaseInv, OwnIsPending
<1> QED
  BY <1>1, ViewIs, CharactersAssumption DEF GetCharactersForAccount

-----------------------------------------------------------------------------
(* The handlers *)

LEMMA DatabaseStays ==
    ASSUME DatabaseInv, UNCHANGED <<rows, transaction, created, gone>>
    PROVE  DatabaseInv' /\ NamesKept
  BY DEF DatabaseInv, DatabaseType, AnswersType, SeenAreOld, OwnWereDeleted, OwnIsPending, OnePending,
         NamesKept, LastId, Own

\* A handler that only reads.
LEMMA NothingAnswered ==
    ASSUME CharactersInv, answer' = "", UNCHANGED <<rows, created, gone>>,
           DatabaseInv', HandlersInv', ListsAreOwn'
    PROVE  CharactersInv'
<1>1. AnswersAreKept'
  BY AnswersStay DEF CharactersInv, CharactersAreKept, AnswersAreKept
<1>2. InternalErrorLeavesOpen'
  BY DEF InternalErrorLeavesOpen
<1> QED
  BY <1>1, <1>2 DEF CharactersInv, CharactersAreKept, AnswersAreKept

\* A handler that reads nothing new of the lists.
LEMMA SameList ==
    ASSUME CharactersInv, UNCHANGED <<rows, created, gone>>, NEW c \in AccountClient,
           NEW h, Become(c, h), h.list = handler[c].list, h.account = handler[c].account
    PROVE  ListsAreOwn'
<1>1. OwnersKept /\ ListsAreOwn /\ HandlersInv
  BY AnswersStay DEF CharactersInv, CharactersAreKept, AnswersAreKept
<1>2. \A i \in h.list : i \in DOMAIN rows' /\ rows'[i].owner = h.account
  BY <1>1 DEF ListsAreOwn
<1> QED
  BY <1>1, <1>2, ListGoesOn

LEMMA Refusing ==
    ASSUME CharactersInv, NEW c \in AccountClient, Refuse(c), NamesKept, UNCHANGED <<rows, created, gone>>
    PROVE  HandlersInv' /\ ListsAreOwn'
<1> DEFINE h == [handler[c] EXCEPT !.at = "rest", !.user = NoOne]
<1>1. handler[c] \in Handlers
  BY DEF CharactersInv, HandlersInv
<1>2. h \in Handlers /\ h.at = "rest" /\ h.list = handler[c].list /\ h.account = handler[c].account
  BY <1>1 DEF Handlers
<1>3. Become(c, h)
  BY DEF Refuse
<1> HIDE DEF h
<1>4. HandlersInv'
  BY <1>2, <1>3, HandlerGoesOn DEF CharactersInv
<1>5. ListsAreOwn'
  BY <1>2, <1>3, SameList
<1> QED
  BY <1>4, <1>5

LEMMA Admitting ==
    ASSUME CharactersInv, NEW c \in AccountClient, NEW u \in User, NEW right, AdmitOrRefuse(c, u, right),
           UNCHANGED <<rows, created, gone>>
    PROVE  DatabaseInv' /\ HandlersInv' /\ ListsAreOwn'
<1>1. DatabaseInv /\ HandlersInv /\ ListsAreOwn /\ AnswersType' /\ OwnersKept
  BY AnswersTypeStays, AnswersStay DEF CharactersInv, DatabaseInv, CharactersAreKept, AnswersAreKept
<1>2. CASE Refuse(c) /\ UNCHANGED transaction
  <2>1. DatabaseInv' /\ NamesKept
    BY <1>1, <1>2, DatabaseStays
  <2> QED
    BY <1>2, <2>1, Refusing
<1>3. CASE Admit(c, u)
  <2>1. PICK d \in Connection :
          /\ Become(c, [handler[c] EXCEPT !.at = "rest", !.account = u, !.user = NoOne,
                                          !.list = GetCharactersForAccount(u, d)])
          /\ transaction' = [transaction EXCEPT ![d] = AfterRead(d)]
    BY <1>3 DEF Admit
  <2> DEFINE list == GetCharactersForAccount(u, d)
             h == [handler[c] EXCEPT !.at = "rest", !.account = u, !.user = NoOne, !.list = list]
  <2>2. list \subseteq Nat /\ \A i \in list : i \in DOMAIN rows /\ rows[i].owner = u
    BY <1>1, ListIs
  <2> HIDE DEF list
  <2>3. handler[c] \in Handlers
    BY <1>1 DEF HandlersInv
  <2>4. h \in Handlers /\ h.at = "rest" /\ h.list = list /\ h.account = u
    BY <2>2, <2>3 DEF Handlers
  <2>5. Become(c, h)
    BY <2>1 DEF list
  <2> HIDE DEF h
  <2>6. DatabaseInv' /\ NamesKept
    BY <1>1, <2>1, Reading
  <2>7. HandlersInv'
    BY <1>1, <2>4, <2>5, <2>6, HandlerGoesOn
  <2>8. ListsAreOwn'
    BY <1>1, <2>2, <2>4, <2>5, ListGoesOn
  <2> QED
    BY <2>6, <2>7, <2>8
<1> QED
  BY <1>2, <1>3 DEF AdmitOrRefuse

LEMMA LoggingIn ==
    ASSUME CharactersInv, NEW c \in AccountClient, NEW u \in User, NEW right, HandleLoginClientId(c, u, right),
           answer' = ""
    PROVE  CharactersInv'
<1>1. UNCHANGED <<rows, created, gone>>
  BY DEF HandleLoginClientId
<1>2. CASE u \in registered
  <2>1. AdmitOrRefuse(c, u, right)
    BY <1>2 DEF HandleLoginClientId
  <2> QED
    BY <1>1, <2>1, Admitting, NothingAnswered
<1>3. CASE u \notin registered
  <2> DEFINE h == [handler[c] EXCEPT !.at = "register", !.user = u]
  <2>1. handler[c] \in Handlers
    BY DEF CharactersInv, HandlersInv
  <2>2. /\ h \in Handlers /\ h.at = "register" /\ h.user = u
        /\ h.list = handler[c].list /\ h.account = handler[c].account
    BY <2>1 DEF Handlers
  <2>3. Become(c, h) /\ transaction' = transaction
    BY <1>3 DEF HandleLoginClientId
  <2> HIDE DEF h
  <2>4. DatabaseInv' /\ NamesKept
    BY <1>1, <2>3, DatabaseStays DEF CharactersInv
  <2>5. HandlersInv'
    BY <2>2, <2>3, <2>4, HandlerGoesOn DEF CharactersInv
  <2>6. ListsAreOwn'
    BY <1>1, <2>2, <2>3, SameList
  <2> QED
    BY <1>1, <2>4, <2>5, <2>6, NothingAnswered
<1> QED
  BY <1>2, <1>3

\* From one part of a registration to the next.
LEMMA NextPart ==
    ASSUME CharactersInv, NEW c \in AccountClient, NEW at \in {"player", "authenticate"},
           handler[c].at \in {"register", "player"}, NamesKept, UNCHANGED <<rows, created, gone>>,
           Become(c, [handler[c] EXCEPT !.at = at])
    PROVE  HandlersInv' /\ ListsAreOwn'
<1> DEFINE h == [handler[c] EXCEPT !.at = at]
<1>1. handler[c] \in Handlers /\ handler[c].user \in User
  BY DEF CharactersInv, HandlersInv
<1>2. /\ h \in Handlers /\ h.at = at /\ h.user \in User
      /\ h.list = handler[c].list /\ h.account = handler[c].account
  BY <1>1 DEF Handlers
<1> HIDE DEF h
<1>3. Become(c, h)
  BY DEF h
<1>4. HandlersInv'
  BY <1>2, <1>3, HandlerGoesOn DEF CharactersInv
<1>5. ListsAreOwn'
  BY <1>2, <1>3, SameList
<1> QED
  BY <1>4, <1>5

LEMMA Registering ==
    ASSUME CharactersInv, NEW c \in AccountClient, CreateAccount(c), answer' = ""
    PROVE  CharactersInv'
<1>1. UNCHANGED <<rows, transaction, created, gone>> /\ handler[c].at = "register"
  BY DEF CreateAccount, databaseVars
<1>2. DatabaseInv' /\ NamesKept
  BY <1>1, DatabaseStays DEF CharactersInv
<1>3. HandlersInv' /\ ListsAreOwn'
  <2>1. CASE Refuse(c)
    BY <1>1, <1>2, <2>1, Refusing
  <2>2. CASE Become(c, [handler[c] EXCEPT !.at = "player"])
    BY <1>1, <1>2, <2>2, NextPart
  <2> QED
    BY <2>1, <2>2 DEF CreateAccount
<1> QED
  BY <1>1, <1>2, <1>3, NothingAnswered

LEMMA MakingPlayer ==
    ASSUME CharactersInv, NEW c \in AccountClient, CreatePlayerAccount(c), answer' = ""
    PROVE  CharactersInv'
<1>1. UNCHANGED <<rows, created, gone>> /\ handler[c].at = "player"
  BY DEF CreatePlayerAccount
<1>2. CASE Refuse(c) /\ UNCHANGED transaction
  <2>1. DatabaseInv' /\ NamesKept
    BY <1>1, <1>2, DatabaseStays DEF CharactersInv
  <2>2. HandlersInv' /\ ListsAreOwn'
    BY <1>1, <1>2, <2>1, Refusing
  <2> QED
    BY <1>1, <2>1, <2>2, NothingAnswered
<1>3. ASSUME NEW d \in Connection,
             \/ transaction' = [transaction EXCEPT ![d].players = @ \cup {handler[c].user}]
             \/ UNCHANGED transaction,
             Become(c, [handler[c] EXCEPT !.at = "authenticate"])
      PROVE  CharactersInv'
  <2>1. DatabaseInv' /\ NamesKept
    <3>1. CASE UNCHANGED transaction
      BY <1>1, <3>1, DatabaseStays DEF CharactersInv
    <3>2. CASE transaction' = [transaction EXCEPT ![d].players = @ \cup {handler[c].user}]
      <4>1. transaction \in [Connection -> Transactions] /\ handler[c].user \in User \cup {NoOne}
        BY DEF CharactersInv, DatabaseInv, DatabaseType, HandlersInv, Handlers
      <4> DEFINE u == handler[c].user
                 t == [transaction[d] EXCEPT !.players = @ \cup {u}]
      <4>2. /\ t \in Transactions /\ t.own = transaction[d].own
            /\ t.seen = transaction[d].seen /\ t.locks = transaction[d].locks
        <5>1. transaction[d] \in Transactions /\ u \in User \cup {NoOne}
          BY <4>1
        <5> HIDE DEF u
        <5> QED
          BY <5>1 DEF Transactions
      <4>3. transaction' = [transaction EXCEPT ![d] = t]
        BY <3>2, <4>1
      <4> HIDE DEF t
      <4>4. transaction' \in [Connection -> Transactions]
        BY <4>1, <4>2, <4>3
      <4>5. \A e \in Connection : Own(e)' = Own(e) /\ transaction'[e].seen = transaction[e].seen
                                  /\ transaction'[e].locks = transaction[e].locks
        BY <4>1, <4>2, <4>3 DEF Own
      <4>6. LastId' = LastId
        BY <1>1 DEF LastId
      <4>7. DatabaseType' /\ AnswersType'
        BY <1>1, <4>4, <4>6, AnswersTypeStays DEF CharactersInv, DatabaseInv, DatabaseType
      <4>8. SeenAreOld' /\ OwnWereDeleted'
        <5>1. SeenAreOld'
          <6> SUFFICES ASSUME NEW e \in Connection, NEW i \in DOMAIN transaction'[e].seen
                       PROVE  /\ i \in DOMAIN rows /\ transaction'[e].seen[i].owner = rows[i].owner
                              /\ transaction'[e].seen[i].name = rows[i].name
            BY <1>1 DEF SeenAreOld
          <6>1. transaction'[e].seen = transaction[e].seen
            BY <4>5
          <6> QED
            BY <6>1 DEF CharactersInv, DatabaseInv, SeenAreOld
        <5>2. OwnWereDeleted'
          <6> SUFFICES ASSUME NEW e \in Connection, NEW i \in DOMAIN Own(e)', i \in DOMAIN rows
                       PROVE  /\ Own(e)'[i].owner = rows[i].owner /\ Own(e)'[i].name = rows[i].name
                              /\ Own(e)'[i].deleted /\ \E g \in gone : g.id = i /\ g.account = rows[i].owner
            BY <1>1 DEF OwnWereDeleted
          <6>1. Own(e)' = Own(e)
            BY <4>5
          <6>2. /\ Own(e)[i].owner = rows[i].owner /\ Own(e)[i].name = rows[i].name
                /\ Own(e)[i].deleted /\ \E g \in gone : g.id = i /\ g.account = rows[i].owner
            <7>1. i \in DOMAIN Own(e)
              BY <6>1
            <7> QED
              BY <7>1 DEF CharactersInv, DatabaseInv, OwnWereDeleted
          <6> QED
            BY <6>1, <6>2
        <5> QED
          BY <5>1, <5>2
      <4>9. OwnIsPending' /\ OnePending'
        BY <1>1, <4>5, <4>6 DEF CharactersInv, DatabaseInv, OwnIsPending, OnePending
      <4>10. NamesKept
        BY <1>1, <4>5 DEF NamesKept
      <4> QED
        BY <4>7, <4>8, <4>9, <4>10 DEF DatabaseInv
    <3> QED
      BY <1>3, <3>1, <3>2
  <2>2. HandlersInv' /\ ListsAreOwn'
    BY <1>1, <1>3, <2>1, NextPart
  <2> QED
    BY <1>1, <2>1, <2>2, NothingAnswered
<1> QED
  BY <1>2, <1>3 DEF CreatePlayerAccount

LEMMA Authenticating ==
    ASSUME CharactersInv, NEW c \in AccountClient, AuthenticateRegistered(c), answer' = ""
    PROVE  CharactersInv'
<1>1. UNCHANGED <<rows, created, gone>> /\ AdmitOrRefuse(c, handler[c].user, TRUE)
  BY DEF AuthenticateRegistered
<1>2. handler[c].user \in User
  BY DEF AuthenticateRegistered, CharactersInv, HandlersInv
<1>3. DatabaseInv' /\ HandlersInv' /\ ListsAreOwn'
  BY <1>1, <1>2, Admitting
<1> QED
  BY <1>1, <1>3, NothingAnswered

LEMMA LoggingOut ==
    ASSUME CharactersInv, NEW c \in AccountClient, LogOut(c), answer' = ""
    PROVE  CharactersInv'
<1>1. UNCHANGED <<rows, transaction, created, gone>> /\ Become(c, Rest0)
  BY DEF LogOut, databaseVars, Become
<1>2. DatabaseInv' /\ NamesKept
  BY <1>1, DatabaseStays DEF CharactersInv
<1>3. Rest0 \in Handlers /\ Rest0.at = "rest" /\ Rest0.list = {}
  BY DEF Rest0, Handlers
<1>4. HandlersInv'
  BY <1>1, <1>2, <1>3, HandlerGoesOn DEF CharactersInv
<1>5. OwnersKept
  BY <1>1, AnswersStay DEF CharactersInv, CharactersAreKept, AnswersAreKept
<1>6. ListsAreOwn'
  BY <1>1, <1>3, <1>5, ListGoesOn DEF CharactersInv, CharactersAreKept
<1> QED
  BY <1>1, <1>2, <1>4, <1>6, NothingAnswered

LEMMA UsingElsewhere ==
    ASSUME CharactersInv, UseElsewhere, answer' = ""
    PROVE  CharactersInv'
<1>1. UNCHANGED <<rows, created, gone, handler>>
  BY DEF UseElsewhere
<1>2. PICK d \in Connection : transaction' = [transaction EXCEPT ![d] = AfterRead(d)]
  BY DEF UseElsewhere
<1>3. DatabaseInv' /\ NamesKept
  BY <1>1, <1>2, Reading, AnswersTypeStays DEF CharactersInv, DatabaseInv
<1>4. HandlersInv' /\ ListsAreOwn'
  BY <1>1, <1>3, HandlersKept, ListsKept, AnswersStay DEF CharactersInv, CharactersAreKept, AnswersAreKept
<1> QED
  BY <1>1, <1>3, <1>4, NothingAnswered

\* What was not committed is gone, and so are the handlers.
LEMMA ClosedIs ==
    /\ Closed \in Transactions /\ DOMAIN Closed.own = {} /\ DOMAIN Closed.seen = {}
    /\ [Closed EXCEPT !.open = TRUE] \in Transactions
    /\ DOMAIN [Closed EXCEPT !.open = TRUE].own = {} /\ DOMAIN [Closed EXCEPT !.open = TRUE].seen = {}
    /\ [Closed EXCEPT !.open = TRUE].open
  BY EmptyTable DEF Closed, Transactions

LEMMA Crashing ==
    ASSUME CharactersInv, Crash, answer' = ""
    PROVE  CharactersInv'
<1>1. /\ UNCHANGED <<rows, created, gone>> /\ transaction' = [d \in Connection |-> Closed]
      /\ handler' = [c \in AccountClient |-> Rest0]
  BY DEF Crash
<1>2. \A d \in Connection : DOMAIN Own(d)' = {} /\ DOMAIN transaction'[d].seen = {}
  BY <1>1, ClosedIs DEF Own
<1>3. DatabaseType' /\ AnswersType'
  <2>1. transaction' \in [Connection -> Transactions] /\ LastId' = LastId
    BY <1>1, ClosedIs DEF LastId
  <2> QED
    BY <1>1, <2>1, AnswersTypeStays DEF CharactersInv, DatabaseInv, DatabaseType
<1>4. DatabaseInv'
  BY <1>2, <1>3 DEF DatabaseInv, SeenAreOld, OwnWereDeleted, OwnIsPending, OnePending
<1>5. \A c \in AccountClient : handler'[c] = Rest0 /\ Rest0 \in Handlers /\ Rest0.at = "rest" /\ Rest0.list = {}
  BY <1>1 DEF Rest0, Handlers
<1>6. HandlersInv'
  BY <1>1, <1>5 DEF HandlersInv
<1>7. ListsAreOwn'
  BY <1>5 DEF ListsAreOwn
<1> QED
  BY <1>1, <1>4, <1>6, <1>7, NothingAnswered

-----------------------------------------------------------------------------
(* Deleting *)

LEMMA AnswersGoOn ==
    ASSUME CharactersInv, handler' = handler, answer' = "", created' = created,
           DatabaseInv', NamesKept, OwnersKept, DOMAIN rows' = DOMAIN rows, DeletedForItsOwner'
    PROVE  CharactersInv'
<1>1. HandlersInv' /\ ListsAreOwn'
  BY HandlersKept, ListsKept DEF CharactersInv, CharactersAreKept
<1>2. CreatedIsThere' /\ OthersAreOwnedByNoOne' /\ NamesTwiceUnseen' /\ InternalErrorLeavesOpen'
  <2>1. CreatedIsThere'
    BY DEF CharactersInv, CharactersAreKept, CreatedIsThere, OwnersKept, NamesKept
  <2>2. OthersAreOwnedByNoOne'
    BY DEF CharactersInv, CharactersAreKept, OthersAreOwnedByNoOne, OwnersKept
  <2>3. NamesTwiceUnseen' /\ InternalErrorLeavesOpen'
    BY DEF CharactersInv, CharactersAreKept, NamesTwiceUnseen, InternalErrorLeavesOpen
  <2> QED
    BY <2>1, <2>2, <2>3
<1> QED
  BY <1>1, <1>2 DEF CharactersInv, CharactersAreKept

\* The update of a row of its owner's, at once or in the open transaction.
LEMMA Updating ==
    ASSUME CharactersInv, NEW c \in AccountClient, NEW d \in Connection, NEW id \in DOMAIN rows,
           handler[c].account \in User, rows[id].owner = handler[c].account,
           UpdateDeleted(d, id), Reply(c, id, d, TRUE), UNCHANGED <<handler, created>>, answer' = ""
    PROVE  CharactersInv'
<1> DEFINE answered == [account |-> handler[c].account, id |-> id, open |-> transaction[d].open]
<1>1. /\ DatabaseInv /\ DeletedForItsOwner /\ rows \in Tables
      /\ transaction[d] \in Transactions /\ transaction \in [Connection -> Transactions]
  BY DEF CharactersInv, CharactersAreKept, DatabaseInv, DatabaseType
<1>2. /\ gone' = gone \cup {answered} /\ answered.account = handler[c].account /\ answered.id = id
      /\ answered.open = transaction[d].open /\ transaction[d].open \in BOOLEAN /\ id \in Nat
  BY <1>1, TableIs DEF Reply, Transactions
<1>3. answered \in [account : User \cup {NoOne}, id : Nat, open : BOOLEAN]
  BY <1>2
<1> HIDE DEF answered
<1>4. CASE ~transaction[d].open
  <2>1. rows' = [rows EXCEPT ![id] = Deleted(rows[id])] /\ transaction' = transaction
    BY <1>4 DEF UpdateDeleted
  <2>2. /\ rows[id] \in Rows /\ Deleted(rows[id]) \in Rows /\ Deleted(rows[id]).deleted
        /\ Deleted(rows[id]).owner = rows[id].owner /\ Deleted(rows[id]).name = rows[id].name
    BY <1>1, TableIs, DeletedRow
  <2>3. /\ DOMAIN rows' = DOMAIN rows /\ rows'[id] = Deleted(rows[id])
        /\ \A i \in DOMAIN rows \ {id} : rows'[i] = rows[i]
    BY <2>1
  <2>4. \A i \in DOMAIN rows : rows'[i].owner = rows[i].owner /\ rows'[i].name = rows[i].name
    BY <2>2, <2>3
  <2>5. rows' \in Tables
    <3>1. PICK ids \in SUBSET Nat : rows \in [ids -> Rows]
      BY <1>1 DEF Tables
    <3>2. rows' \in [ids -> Rows]
      BY <2>1, <2>2, <3>1
    <3> QED
      BY <3>1, <3>2 DEF Tables
  <2>6. LastId' = LastId
    BY <2>3 DEF LastId
  <2>7. DatabaseType'
    BY <1>1, <2>1, <2>3, <2>5, <2>6 DEF DatabaseInv, DatabaseType
  <2>8. AnswersType'
    BY <1>1, <1>2, <1>3, <2>3 DEF DatabaseInv, AnswersType
  <2>9. SeenAreOld'
    <3> SUFFICES ASSUME NEW e \in Connection, NEW i \in DOMAIN transaction[e].seen
                 PROVE  /\ i \in DOMAIN rows' /\ transaction[e].seen[i].owner = rows'[i].owner
                        /\ transaction[e].seen[i].name = rows'[i].name
      BY <2>1 DEF SeenAreOld
    <3>1. /\ i \in DOMAIN rows /\ transaction[e].seen[i].owner = rows[i].owner
          /\ transaction[e].seen[i].name = rows[i].name
      BY <1>1 DEF DatabaseInv, SeenAreOld
    <3> QED
      BY <2>3, <2>4, <3>1
  <2>10. OwnWereDeleted'
    <3> SUFFICES ASSUME NEW e \in Connection, NEW i \in DOMAIN Own(e)', i \in DOMAIN rows'
                 PROVE  /\ Own(e)'[i].owner = rows'[i].owner /\ Own(e)'[i].name = rows'[i].name
                        /\ Own(e)'[i].deleted /\ \E g \in gone' : g.id = i /\ g.account = rows'[i].owner
      BY DEF OwnWereDeleted
    <3>0. Own(e)' = Own(e) /\ i \in DOMAIN Own(e)
      BY <2>1 DEF Own
    <3>1. /\ Own(e)[i].owner = rows[i].owner /\ Own(e)[i].name = rows[i].name /\ Own(e)[i].deleted
          /\ \E g \in gone : g.id = i /\ g.account = rows[i].owner
      BY <1>1, <2>3, <3>0 DEF DatabaseInv, OwnWereDeleted
    <3> QED
      BY <1>2, <2>3, <2>4, <3>0, <3>1
  <2>11. OwnIsPending' /\ OnePending'
    BY <1>1, <2>1, <2>3, <2>6 DEF DatabaseInv, OwnIsPending, OnePending, Own
  <2>12. NamesKept /\ OwnersKept
    BY <2>1, <2>3, <2>4 DEF NamesKept, OwnersKept, Own
  <2>13. DeletedForItsOwner'
    <3> SUFFICES ASSUME NEW i \in DOMAIN rows
                 PROVE  /\ rows'[i].deleted => \E g \in gone' : g.id = i /\ g.account = rows'[i].owner
                        /\ (\E g \in gone' : g.id = i /\ g.account = rows'[i].owner /\ ~g.open) => rows'[i].deleted
      BY <2>3 DEF DeletedForItsOwner
    <3>1. CASE i = id
      BY <1>2, <2>2, <2>3, <2>4, <3>1
    <3>2. CASE i # id
      <4>1. \A g \in gone' : g.id = i => g \in gone
        BY <1>2, <3>2
      <4>2. rows'[i] = rows[i] /\ gone \subseteq gone'
        BY <1>2, <2>3, <3>2
      <4>3. /\ rows[i].deleted => \E g \in gone : g.id = i /\ g.account = rows[i].owner
            /\ (\E g \in gone : g.id = i /\ g.account = rows[i].owner /\ ~g.open) => rows[i].deleted
        BY <1>1 DEF DeletedForItsOwner
      <4> QED
        BY <4>1, <4>2, <4>3
    <3> QED
      BY <3>1, <3>2
  <2>14. DatabaseInv'
    BY <2>7, <2>8, <2>9, <2>10, <2>11 DEF DatabaseInv
  <2> QED
    BY <2>3, <2>12, <2>13, <2>14, AnswersGoOn
<1>5. CASE transaction[d].open
  <2> DEFINE row == Latest(d, id)
             own == Over(Row(id, Deleted(row)), Own(d))
             r == AfterRead(d)
             t == [r EXCEPT !.own = own, !.locks = @ \cup {id}]
  <2>1. /\ r \in Transactions /\ r.own = Own(d) /\ r.locks = transaction[d].locks
        /\ r.seen = transaction[d].seen \/ r.seen = rows
    BY <1>1, Read
  <2>2. rows' = rows /\ transaction' = [transaction EXCEPT ![d] = t]
    <3>1. /\ rows' = rows
          /\ transaction' = [transaction EXCEPT ![d] =
                [AfterRead(d) EXCEPT !.own = Over(Row(id, Deleted(row)), @), !.locks = @ \cup {id}]]
      BY <1>5 DEF UpdateDeleted
    <3> QED
      BY <2>1, <3>1
  <2> HIDE DEF r
  <2>3. row \in Rows /\ row.owner = rows[id].owner /\ row.name = rows[id].name
    <3>1. CASE id \in DOMAIN Own(d)
      BY <1>1, <3>1, TableIs DEF Latest, Own, Transactions, DatabaseInv, OwnWereDeleted
    <3>2. CASE id \notin DOMAIN Own(d)
      BY <1>1, <3>2, TableIs DEF Latest, Own
    <3> QED
      BY <3>1, <3>2
  <2> HIDE DEF row
  <2>4. /\ Deleted(row) \in Rows /\ Deleted(row).deleted
        /\ Deleted(row).owner = rows[id].owner /\ Deleted(row).name = rows[id].name
    BY <2>3, DeletedRow
  <2>5. /\ Row(id, Deleted(row)) \in Tables /\ DOMAIN Row(id, Deleted(row)) = {id}
        /\ Row(id, Deleted(row))[id] = Deleted(row)
    BY <1>2, <2>4, RowIsTable
  <2>6. Own(d) \in Tables
    BY <1>1 DEF Own, Transactions
  <2>7. own \in Tables
    BY <2>5, <2>6, OverIsTable
  <2>8. /\ DOMAIN own = {id} \cup DOMAIN Own(d) /\ own[id] = Deleted(row)
        /\ \A i \in DOMAIN Own(d) \ {id} : own[i] = Own(d)[i]
    <3> DEFINE new == Row(id, Deleted(row))
    <3>1. DOMAIN new = {id} /\ new[id] = Deleted(row)
      BY <2>5
    <3> HIDE DEF new
    <3>2. /\ DOMAIN Over(new, Own(d)) = DOMAIN new \cup DOMAIN Own(d)
          /\ \A i \in DOMAIN new : Over(new, Own(d))[i] = new[i]
          /\ \A i \in DOMAIN Own(d) \ DOMAIN new : Over(new, Own(d))[i] = Own(d)[i]
      BY OverIs
    <3>3. own = Over(new, Own(d))
      BY DEF new
    <3> HIDE DEF own
    <3> QED
      BY <3>1, <3>2, <3>3
  <2> HIDE DEF own
  <2>9. /\ t \in Transactions /\ t.own = own /\ t.locks = transaction[d].locks \cup {id}
        /\ t.seen = transaction[d].seen \/ t.seen = rows
    BY <1>2, <2>1, <2>7 DEF Transactions
  <2> HIDE DEF t
  <2>10. /\ transaction' \in [Connection -> Transactions] /\ transaction'[d] = t /\ Own(d)' = own
         /\ \A e \in Connection \ {d} : transaction'[e] = transaction[e] /\ Own(e)' = Own(e)
    BY <1>1, <2>2, <2>9 DEF Own
  <2>11. LastId' = LastId
    BY <2>2 DEF LastId
  <2>12. DatabaseType'
    BY <1>1, <2>2, <2>10, <2>11 DEF DatabaseInv, DatabaseType
  <2>13. AnswersType'
    BY <1>1, <1>2, <1>3, <2>2 DEF DatabaseInv, AnswersType
  <2>14. SeenAreOld'
    <3> SUFFICES ASSUME NEW e \in Connection, NEW i \in DOMAIN transaction'[e].seen
                 PROVE  /\ i \in DOMAIN rows /\ transaction'[e].seen[i].owner = rows[i].owner
                        /\ transaction'[e].seen[i].name = rows[i].name
      <4>1. rows' = rows
        BY <2>2
      <4> QED
        BY <4>1 DEF SeenAreOld
    <3>1. transaction'[e].seen = transaction[e].seen \/ transaction'[e].seen = rows
      BY <2>9, <2>10
    <3>2. i \in DOMAIN transaction[e].seen =>
            /\ i \in DOMAIN rows /\ transaction[e].seen[i].owner = rows[i].owner
            /\ transaction[e].seen[i].name = rows[i].name
      BY <1>1 DEF DatabaseInv, SeenAreOld
    <3> QED
      BY <3>1, <3>2
  <2>15. OwnWereDeleted'
    <3> SUFFICES ASSUME NEW e \in Connection, NEW i \in DOMAIN Own(e)', i \in DOMAIN rows
                 PROVE  /\ Own(e)'[i].owner = rows[i].owner /\ Own(e)'[i].name = rows[i].name /\ Own(e)'[i].deleted
                        /\ \E g \in gone' : g.id = i /\ g.account = rows[i].owner
      BY <2>2 DEF OwnWereDeleted
    <3>1. CASE e = d /\ i = id
      BY <1>2, <2>4, <2>8, <2>10, <3>1
    <3>2. CASE ~(e = d /\ i = id)
      <4>1. i \in DOMAIN Own(e) /\ Own(e)'[i] = Own(e)[i]
        BY <2>8, <2>10, <3>2
      <4> QED
        <5>1. /\ Own(e)[i].owner = rows[i].owner /\ Own(e)[i].name = rows[i].name /\ Own(e)[i].deleted
              /\ \E g \in gone : g.id = i /\ g.account = rows[i].owner
          BY <1>1, <4>1 DEF DatabaseInv, OwnWereDeleted
        <5> QED
          BY <1>2, <4>1, <5>1
    <3> QED
      BY <3>1, <3>2
  <2>16. \A e \in Connection : \A i \in DOMAIN Own(e)' \ DOMAIN rows :
            i \in DOMAIN Own(e) /\ Own(e)'[i] = Own(e)[i]
    BY <2>8, <2>10
  <2>17. OwnIsPending'
    <3>1. \A e \in Connection : transaction[e].locks \subseteq transaction'[e].locks
      BY <2>9, <2>10
    <3> SUFFICES ASSUME NEW e \in Connection, NEW i \in DOMAIN Own(e)', i \notin DOMAIN rows
                 PROVE  /\ i = LastId + 1 /\ i \in transaction'[e].locks
                        /\ Own(e)'[i].owner = NoOne /\ ~Own(e)'[i].deleted
      <4>1. rows' = rows
        BY <2>2
      <4> QED
        BY <2>11, <4>1 DEF OwnIsPending
    <3>2. i \in DOMAIN Own(e) /\ Own(e)'[i] = Own(e)[i]
      BY <2>16
    <3>3. /\ i = LastId + 1 /\ i \in transaction[e].locks
          /\ Own(e)[i].owner = NoOne /\ ~Own(e)[i].deleted
      BY <1>1, <3>2 DEF DatabaseInv, OwnIsPending
    <3> QED
      BY <3>1, <3>2, <3>3
  <2>18. OnePending'
    <3>1. LastId + 1 \notin DOMAIN rows
      BY <1>1, NextIsNew DEF DatabaseInv, DatabaseType
    <3> QED
      BY <1>1, <2>11, <2>16, <3>1 DEF DatabaseInv, OnePending
  <2>19. NamesKept /\ OwnersKept
    <3>1. ASSUME NEW e \in Connection, NEW i \in DOMAIN Own(e)
          PROVE  \/ i \in DOMAIN rows /\ rows[i].name = Own(e)[i].name
                 \/ i \in DOMAIN Own(e)' /\ Own(e)'[i].name = Own(e)[i].name
      <4>1. CASE i \in DOMAIN rows
        BY <1>1, <4>1 DEF DatabaseInv, OwnWereDeleted
      <4>2. CASE i \notin DOMAIN rows
        BY <2>8, <2>10, <4>2
      <4> QED
        BY <4>1, <4>2
    <3> QED
      BY <2>2, <3>1 DEF NamesKept, OwnersKept
  <2>20. DeletedForItsOwner'
    <3>1. \A g \in gone' : ~g.open => g \in gone
      BY <1>2, <1>5
    <3> QED
      BY <1>1, <1>2, <2>2, <3>1 DEF DeletedForItsOwner
  <2>21. DatabaseInv'
    BY <2>12, <2>13, <2>14, <2>15, <2>17, <2>18 DEF DatabaseInv
  <2> QED
    BY <2>2, <2>19, <2>20, <2>21, AnswersGoOn
<1> QED
  BY <1>4, <1>5

LEMMA Deleting ==
    ASSUME CharactersInv, NEW c \in AccountClient, NEW id \in DOMAIN rows,
           HandleDeleteCharacterMessage(c, id), answer' = ""
    PROVE  CharactersInv'
<1>1. UNCHANGED <<handler, created>> /\ handler[c].account \in User
  BY DEF HandleDeleteCharacterMessage, CharactersInv, HandlersInv, Handlers
<1>2. PICK d \in Connection : DeleteCharacter(c, id, d)
  BY DEF HandleDeleteCharacterMessage
<1>3. /\ DatabaseInv /\ AnswersType /\ DeletedForItsOwner /\ transaction[d].open \in BOOLEAN /\ id \in Nat
  BY TableIs DEF CharactersInv, CharactersAreKept, DatabaseInv, DatabaseType, Transactions
<1>4. id \in DOMAIN View(d) => View(d)[id].owner = rows[id].owner
  BY <1>3, ViewIs
<1>5. ASSUME transaction' = [transaction EXCEPT ![d] = AfterRead(d)], rows' = rows, NEW success,
             Reply(c, id, d, success), success => handler[c].account # rows[id].owner
      PROVE  CharactersInv'
  <2> DEFINE answered == [account |-> handler[c].account, id |-> id, open |-> transaction[d].open]
  <2>1. gone' = gone \/ (gone' = gone \cup {answered} /\ handler[c].account # rows[id].owner)
    BY <1>5 DEF Reply
  <2>2. /\ answered.account = handler[c].account /\ answered.id = id
        /\ answered \in [account : User \cup {NoOne}, id : Nat, open : BOOLEAN]
    BY <1>1, <1>3
  <2> HIDE DEF answered
  <2>3. AnswersType' /\ gone \subseteq gone'
    BY <1>1, <1>3, <1>5, <2>1, <2>2 DEF AnswersType
  <2>4. DatabaseInv' /\ NamesKept
    BY <1>3, <1>5, <2>3, Reading
  <2>5. DeletedForItsOwner'
    <3>1. \A g \in gone' : g \in gone \/ (g.id = id /\ g.account # rows[id].owner)
      BY <2>1, <2>2
    <3> QED
      BY <1>3, <1>5, <2>3, <3>1 DEF DeletedForItsOwner
  <2>6. OwnersKept /\ DOMAIN rows' = DOMAIN rows
    BY <1>5 DEF OwnersKept
  <2> QED
    BY <1>1, <2>4, <2>5, <2>6, AnswersGoOn
<1>6. CASE ~MayDelete(handler[c].account, id, View(d))
  <2>1. /\ transaction' = [transaction EXCEPT ![d] = AfterRead(d)] /\ rows' = rows
        /\ Reply(c, id, d, id \in DOMAIN View(d) /\ View(d)[id].deleted)
    BY <1>2, <1>6 DEF DeleteCharacter
  <2>2. id \in DOMAIN View(d) => handler[c].account # rows[id].owner
    BY <1>4, <1>6 DEF MayDelete
  <2> QED
    BY <1>5, <2>1, <2>2
<1>7. CASE MayDelete(handler[c].account, id, View(d)) /\ id \in LockedByAnother(d)
  <2>1. /\ transaction' = [transaction EXCEPT ![d] = AfterRead(d)] /\ rows' = rows
        /\ Reply(c, id, d, FALSE)
    BY <1>2, <1>7 DEF DeleteCharacter
  <2> QED
    BY <1>5, <2>1
<1>8. CASE MayDelete(handler[c].account, id, View(d)) /\ id \notin LockedByAnother(d)
  <2>1. UpdateDeleted(d, id) /\ Reply(c, id, d, TRUE)
    BY <1>2, <1>8 DEF DeleteCharacter
  <2>2. rows[id].owner = handler[c].account
    BY <1>4, <1>8 DEF MayDelete
  <2> QED
    BY <1>1, <2>1, <2>2, Updating
<1> QED
  BY <1>6, <1>7, <1>8

-----------------------------------------------------------------------------
(* Creating *)

LEMMA Declining ==
    ASSUME CharactersInv, NEW c \in AccountClient, NEW reason, Decline(c, reason), NamesKept, OwnersKept
    PROVE  HandlersInv' /\ ListsAreOwn' /\ answer' = reason
<1> DEFINE h == [handler[c] EXCEPT !.at = "rest", !.name = <<>>, !.conn = NoOne, !.checked = {}]
<1>1. handler[c] \in Handlers /\ ListsAreOwn /\ HandlersInv
  BY DEF CharactersInv, CharactersAreKept, HandlersInv
<1>2. h \in Handlers /\ h.at = "rest" /\ h.list = handler[c].list /\ h.account = handler[c].account
  BY <1>1 DEF Handlers
<1>3. Become(c, h) /\ answer' = reason
  BY DEF Decline
<1> HIDE DEF h
<1>4. HandlersInv'
  BY <1>1, <1>2, <1>3, HandlerGoesOn
<1>5. \A i \in h.list : i \in DOMAIN rows' /\ rows'[i].owner = h.account
  BY <1>1, <1>2 DEF ListsAreOwn, OwnersKept
<1>6. ListsAreOwn'
  BY <1>1, <1>3, <1>5, ListGoesOn
<1> QED
  BY <1>3, <1>4, <1>6

\* The name is not in use as far as this connection sees.
LEMMA Proceeding ==
    ASSUME CharactersInv, NEW c \in AccountClient, NEW name \in CharacterName, NEW d \in Connection,
           handler[c].at = "rest", handler[c].account # NoOne, ~NameInUse(name, View(d)), NamesKept,
           UNCHANGED <<rows, created, gone>>,
           Become(c, [handler[c] EXCEPT !.at = "create", !.name = name, !.conn = d, !.checked = DOMAIN View(d)])
    PROVE  HandlersInv' /\ ListsAreOwn'
<1> DEFINE view == View(d)
           seen == DOMAIN view
           h == [handler[c] EXCEPT !.at = "create", !.name = name, !.conn = d, !.checked = seen]
<1>1. handler[c] \in Handlers /\ HandlersInv /\ DatabaseInv
  BY DEF CharactersInv, HandlersInv
<1>2. seen \subseteq Nat
  BY <1>1, ViewIs
<1>3. ASSUME NEW i \in seen, NEW n, n = <<name[1], "">> PROVE NotNamed(i, n)'
  <2>1. view[i].name # n
    BY <1>3 DEF NameInUse
  <2>2. NotNamed(i, n)
    BY <1>1, <1>3, <2>1, ViewIs DEF NotNamed
  <2> QED
    BY <2>2, StillNotNamed
<1>4. Become(c, h)
  OBVIOUS
<1> HIDE DEF seen, view
<1>5. /\ h \in Handlers /\ h.at = "create" /\ h.account \in User /\ h.name = name /\ h.conn = d
      /\ h.checked = seen /\ h.list = handler[c].list /\ h.account = handler[c].account
  BY <1>1, <1>2 DEF Handlers
<1> HIDE DEF h
<1>6. /\ handler' \in [AccountClient -> Handlers] /\ handler'[c] = h
      /\ \A k \in AccountClient \ {c} : handler'[k] = handler[k]
  BY <1>1, <1>4, <1>5 DEF Become, HandlersInv
<1>7. ASSUME NEW k \in AccountClient, handler'[k].at = "create", NEW i \in handler'[k].checked
      PROVE  NotNamed(i, <<handler[k].name[1], "">>)'
  <2>1. ASSUME NEW n, n = <<handler'[k].name[1], "">> PROVE NotNamed(i, n)'
    <3>1. CASE k = c
      BY <1>3, <1>5, <1>6, <1>7, <2>1, <3>1
    <3>2. CASE k # c
      <4>1. NotNamed(i, n)
        BY <1>1, <1>6, <1>7, <2>1, <3>2 DEF HandlersInv
      <4> QED
        BY <4>1, StillNotNamed
    <3> QED
      BY <3>1, <3>2
  <2> QED
    BY <2>1
<1>8. ASSUME NEW k \in AccountClient
      PROVE  /\ handler'[k].at = "create" =>
                /\ handler'[k].account \in User /\ handler'[k].name \in CharacterName
                /\ handler'[k].conn \in Connection
             /\ handler'[k].at \in {"register", "player", "authenticate"} => handler'[k].user \in User
  <2>1. CASE k = c
    BY <1>5, <1>6, <2>1
  <2>2. CASE k # c
    BY <1>1, <1>6, <2>2 DEF HandlersInv
  <2> QED
    BY <2>1, <2>2
<1>9. HandlersInv'
  BY <1>6, <1>7, <1>8 DEF HandlersInv
<1>10. ListsAreOwn'
  BY <1>4, <1>5, SameList
<1> QED
  BY <1>9, <1>10

LEMMA CheckingName ==
    ASSUME CharactersInv, NEW c \in AccountClient, NEW name \in CharacterName, CheckName(c, name)
    PROVE  CharactersInv'
<1>1. UNCHANGED <<rows, created, gone>> /\ handler[c].at = "rest" /\ handler[c].account # NoOne
  BY DEF CheckName
<1>2. DatabaseInv /\ AnswersType' /\ AnswersAreKept' /\ OwnersKept
  BY <1>1, AnswersTypeStays, AnswersStay DEF CharactersInv, DatabaseInv, CharactersAreKept, AnswersAreKept
<1>3. SUFFICES DatabaseInv' /\ HandlersInv' /\ ListsAreOwn' /\ answer' # "internal_error"
  BY <1>2 DEF CharactersInv, CharactersAreKept, AnswersAreKept, InternalErrorLeavesOpen
<1>4. CASE Refusal[name] # ""
  <2>1. Decline(c, Refusal[name]) /\ UNCHANGED transaction
    BY <1>4 DEF CheckName
  <2>2. DatabaseInv' /\ NamesKept
    BY <1>1, <1>2, <2>1, DatabaseStays
  <2>3. HandlersInv' /\ ListsAreOwn' /\ answer' = Refusal[name]
    BY <1>2, <2>1, <2>2, Declining
  <2>4. Refusal[name] \in Refusals
    BY CharactersAssumption
  <2>5. Refusal[name] # "internal_error"
    BY <2>4 DEF Refusals
  <2> QED
    BY <2>2, <2>3, <2>5
<1>5. CASE Refusal[name] = ""
  <2>1. PICK d \in Connection :
          /\ transaction' = [transaction EXCEPT ![d] = AfterRead(d)]
          /\ \/ NameInUse(name, View(d)) /\ Decline(c, setCharacterCreateErrorCode(0))
             \/ /\ ~NameInUse(name, View(d)) /\ answer' = ""
                /\ Become(c, [handler[c] EXCEPT !.at = "create", !.name = name, !.conn = d, !.checked = DOMAIN View(d)])
    BY <1>5 DEF CheckName
  <2>2. DatabaseInv' /\ NamesKept
    BY <1>1, <1>2, <2>1, Reading
  <2>3. CASE NameInUse(name, View(d)) /\ Decline(c, setCharacterCreateErrorCode(0))
    <3>1. HandlersInv' /\ ListsAreOwn' /\ answer' = setCharacterCreateErrorCode(0)
      BY <1>2, <2>2, <2>3, Declining
    <3>2. setCharacterCreateErrorCode(0) # "internal_error"
      BY DEF setCharacterCreateErrorCode, ErrorCodes
    <3> QED
      BY <2>2, <3>1, <3>2
  <2>4. CASE /\ ~NameInUse(name, View(d)) /\ answer' = ""
             /\ Become(c, [handler[c] EXCEPT !.at = "create", !.name = name, !.conn = d, !.checked = DOMAIN View(d)])
    <3>1. HandlersInv' /\ ListsAreOwn'
      BY <1>1, <2>2, <2>4, Proceeding
    <3> QED
      BY <2>2, <2>4, <3>1
  <2> QED
    BY <2>1, <2>3, <2>4
<1> QED
  BY <1>4, <1>5

\* After a commit the same was created and deleted, whatever else is there and belongs
\* to nobody or was created just now.
LEMMA AnswersAfterCommit ==
    ASSUME CharactersInv, NEW d \in Connection, gone' = gone, created \subseteq created',
           \A i \in DOMAIN Committed(d) : i \in DOMAIN rows' /\ rows'[i] = Committed(d)[i],
           \A i \in DOMAIN rows' \ DOMAIN Committed(d) :
                ~rows'[i].deleted /\ \E x \in created' : x.id = i,
           \A x \in created' \ created :
                /\ x.id \in DOMAIN rows' /\ rows'[x.id].owner = x.account /\ rows'[x.id].name = x.name
    PROVE  CreatedIsThere' /\ OthersAreOwnedByNoOne' /\ DeletedForItsOwner' /\ OwnersKept
<1> DEFINE C == Committed(d)
<1>1. /\ DOMAIN C = DOMAIN rows \cup DOMAIN Own(d)
      /\ \A i \in DOMAIN rows :
            /\ C[i].owner = rows[i].owner /\ C[i].name = rows[i].name
            /\ rows[i].deleted => C[i].deleted
            /\ C[i].deleted => rows[i].deleted \/ \E g \in gone : g.id = i /\ g.account = rows[i].owner
      /\ \A i \in DOMAIN C \ DOMAIN rows : C[i].owner = NoOne /\ ~C[i].deleted
  BY CommittedRows DEF CharactersInv
<1>2. \A i \in DOMAIN C : i \in DOMAIN rows' /\ rows'[i] = C[i]
  OBVIOUS
<1>3. \A i \in DOMAIN rows' \ DOMAIN C : ~rows'[i].deleted /\ \E x \in created' : x.id = i
  OBVIOUS
<1> HIDE DEF C
<1>4. \A i \in DOMAIN rows :
        i \in DOMAIN rows' /\ rows'[i].owner = rows[i].owner /\ rows'[i].name = rows[i].name
  BY <1>1, <1>2
<1>5. CreatedIsThere'
  <2> SUFFICES ASSUME NEW x \in created'
               PROVE  x.id \in DOMAIN rows' /\ rows'[x.id].owner = x.account /\ rows'[x.id].name = x.name
    BY DEF CreatedIsThere
  <2>1. CASE x \in created
    BY <1>4, <2>1 DEF CharactersInv, CharactersAreKept, CreatedIsThere
  <2> QED
    BY <2>1
<1>6. OthersAreOwnedByNoOne'
  <2> SUFFICES ASSUME NEW i \in DOMAIN rows', \A x \in created' : x.id # i
               PROVE  rows'[i].owner = NoOne
    BY DEF OthersAreOwnedByNoOne
  <2>1. i \in DOMAIN C
    BY <1>3
  <2>2. CASE i \in DOMAIN rows
    BY <1>4, <2>2 DEF CharactersInv, CharactersAreKept, OthersAreOwnedByNoOne
  <2>3. CASE i \notin DOMAIN rows
    BY <1>1, <1>2, <2>1, <2>3
  <2> QED
    BY <2>2, <2>3
<1>7. DeletedForItsOwner'
  <2> SUFFICES ASSUME NEW i \in DOMAIN rows'
               PROVE  /\ rows'[i].deleted => \E g \in gone : g.id = i /\ g.account = rows'[i].owner
                      /\ (\E g \in gone : g.id = i /\ g.account = rows'[i].owner /\ ~g.open) => rows'[i].deleted
    BY DEF DeletedForItsOwner
  <2>1. CASE i \in DOMAIN rows
    <3>1. /\ rows[i].deleted => \E g \in gone : g.id = i /\ g.account = rows[i].owner
          /\ (\E g \in gone : g.id = i /\ g.account = rows[i].owner /\ ~g.open) => rows[i].deleted
      BY <2>1 DEF CharactersInv, CharactersAreKept, DeletedForItsOwner
    <3>2. rows'[i] = C[i] /\ rows'[i].owner = rows[i].owner
      BY <1>1, <1>2, <1>4, <2>1
    <3> QED
      BY <1>1, <2>1, <3>1, <3>2
  <2>2. CASE i \notin DOMAIN rows
    <3>1. ~rows'[i].deleted
      BY <1>1, <1>2, <1>3, <2>2
    <3>2. \A g \in gone : g.id # i
      BY <2>2 DEF CharactersInv, DatabaseInv, AnswersType
    <3> QED
      BY <3>1, <3>2
  <2> QED
    BY <2>1, <2>2
<1>8. OwnersKept
  BY <1>4 DEF OwnersKept
<1> QED
  BY <1>5, <1>6, <1>7, <1>8

\* If the last row is not locked by another, the next id is that after all rows.
LEMMA NewIdIs ==
    ASSUME DatabaseInv, NEW d \in Connection, ~LastLocked(d)
    PROVE  NewId(Committed(d)) = Cardinality(DOMAIN Committed(d)) + 1
<1>1. \A e \in Connection \ {d} : DOMAIN Own(e) \subseteq DOMAIN rows
  BY NoneIsLocked
<1>2. DOMAIN Committed(d) = DOMAIN rows \cup DOMAIN Own(d)
  BY CommittedRows
<1>3. Pending \subseteq DOMAIN Committed(d)
  BY <1>1, <1>2 DEF Pending, Own
<1>4. DOMAIN Committed(d) \cup Pending = DOMAIN Committed(d)
  BY <1>3
<1> QED
  BY <1>4 DEF NewId

LEMMA GivingUp ==
    ASSUME CharactersInv, NEW c \in AccountClient, NEW d \in Connection, GiveUp(c, d), UNCHANGED gone
    PROVE  CharactersInv'
<1> DEFINE C == Committed(d)
           t == [Closed EXCEPT !.open = TRUE]
<1>1. /\ DatabaseInv /\ AnswersType
  BY DEF CharactersInv, DatabaseInv
<1>2. /\ C \in Tables /\ DOMAIN C = DOMAIN rows \cup DOMAIN Own(d)
      /\ DOMAIN C = 1 .. Cardinality(DOMAIN C) /\ Cardinality(DOMAIN C) \in Nat
  BY <1>1, CommittedRows
<1>3. /\ rows' = C /\ transaction' = [transaction EXCEPT ![d] = t] /\ created' = created
      /\ Decline(c, setCharacterCreateErrorCode(4))
  BY DEF GiveUp
<1>4. t \in Transactions /\ DOMAIN t.own = {} /\ DOMAIN t.seen = {} /\ t.open
  BY ClosedIs
<1>5. rows' \in Tables /\ LastId' \in Nat /\ DOMAIN rows' = 1 .. LastId'
  BY <1>2, <1>3 DEF LastId
<1>6. AnswersType'
  BY <1>1, <1>2, <1>3 DEF AnswersType
<1> HIDE DEF t
<1>7. DatabaseInv' /\ NamesKept
  BY <1>1, <1>3, <1>4, <1>5, <1>6, Committing
<1>8. CreatedIsThere' /\ OthersAreOwnedByNoOne' /\ DeletedForItsOwner' /\ OwnersKept
  BY <1>3, AnswersAfterCommit
<1>9. HandlersInv' /\ ListsAreOwn'
  BY <1>3, <1>7, <1>8, Declining
<1>10. NamesTwiceUnseen'
  BY <1>3 DEF CharactersInv, CharactersAreKept, NamesTwiceUnseen
<1>11. InternalErrorLeavesOpen'
  <2>1. transaction'[d].open
    BY <1>1, <1>3, <1>4 DEF DatabaseInv, DatabaseType
  <2> QED
    BY <2>1 DEF InternalErrorLeavesOpen
<1> QED
  BY <1>7, <1>8, <1>9, <1>10, <1>11 DEF CharactersInv, CharactersAreKept

LEMMA Failing ==
    ASSUME CharactersInv, NEW c \in AccountClient, NEW d \in Connection, handler[c].at = "create",
           FailAtTheEnd(c, d), ~LastLocked(d), UNCHANGED gone
    PROVE  CharactersInv'
<1> DEFINE C == Committed(d)
           n == Cardinality(DOMAIN C)
           id == NewId(C)
           row == [name |-> handler[c].name, owner |-> NoOne, deleted |-> FALSE]
           own == Row(id, row)
           locks == LastOf(C) \cup {id}
           t == [open |-> TRUE, read |-> TRUE, seen |-> C, players |-> {}, locks |-> locks, own |-> own]
<1>1. DatabaseInv /\ AnswersType /\ handler[c].name \in CharacterName
  BY DEF CharactersInv, DatabaseInv, HandlersInv
<1>2. C \in Tables /\ DOMAIN C = DOMAIN rows \cup DOMAIN Own(d) /\ DOMAIN C = 1 .. n /\ n \in Nat
  BY <1>1, CommittedRows
<1>3. /\ rows' = C /\ transaction' = [transaction EXCEPT ![d] = t] /\ created' = created
      /\ Decline(c, setCharacterCreateErrorCode(4))
  BY DEF FailAtTheEnd
<1>4. id = n + 1
  BY <1>1, NewIdIs
<1>5. row \in Rows /\ row.owner = NoOne /\ ~row.deleted
  BY <1>1 DEF Rows
<1>6. id \in Nat
  <2> HIDE DEF n, id
  <2> QED
    BY <1>2, <1>4
<1> HIDE DEF row
<1>7. own \in Tables /\ DOMAIN own = {id} /\ own[id] = row
  BY <1>5, <1>6, RowIsTable
<1>8. locks \subseteq Nat /\ id \in locks
  BY <1>2, <1>6 DEF LastOf
<1> HIDE DEF id, own, locks, C
<1>9. t \in Transactions /\ t.own = own /\ t.seen = C /\ t.locks = locks /\ t.open
  BY <1>2, <1>7, <1>8 DEF Transactions
<1> HIDE DEF t
<1>10. LastId' = n
  BY <1>3 DEF LastId
<1>11. rows' \in Tables /\ LastId' \in Nat /\ DOMAIN rows' = 1 .. LastId'
  BY <1>2, <1>3, <1>10
<1>12. AnswersType'
  BY <1>1, <1>2, <1>3 DEF AnswersType
<1>13. DatabaseInv' /\ NamesKept
  <2>1. \A i \in DOMAIN t.own : ~LastLocked(d) /\ i = LastId' + 1 /\ i \in t.locks
                               /\ t.own[i].owner = NoOne /\ ~t.own[i].deleted
    BY <1>4, <1>5, <1>7, <1>8, <1>9, <1>10
  <2>2. \A i \in DOMAIN t.seen : i \in DOMAIN rows' /\ t.seen[i] = rows'[i]
    BY <1>3, <1>9
  <2>3. \A i \in DOMAIN Committed(d) : i \in DOMAIN rows' /\ rows'[i] = Committed(d)[i]
    BY <1>3 DEF C
  <2> QED
    BY <1>1, <1>3, <1>9, <1>11, <1>12, <2>1, <2>2, <2>3, Committing
<1>14. CreatedIsThere' /\ OthersAreOwnedByNoOne' /\ DeletedForItsOwner' /\ OwnersKept
  BY <1>3, AnswersAfterCommit DEF C
<1>15. HandlersInv' /\ ListsAreOwn'
  BY <1>3, <1>13, <1>14, Declining
<1>16. NamesTwiceUnseen'
  BY <1>3 DEF CharactersInv, CharactersAreKept, NamesTwiceUnseen
<1>17. InternalErrorLeavesOpen'
  <2>1. transaction'[d].open
    BY <1>1, <1>3, <1>9 DEF DatabaseInv, DatabaseType
  <2> QED
    BY <2>1 DEF InternalErrorLeavesOpen
<1> QED
  BY <1>13, <1>14, <1>15, <1>16, <1>17 DEF CharactersInv, CharactersAreKept

LEMMA Inserting ==
    ASSUME CharactersInv, NEW c \in AccountClient, NEW d \in Connection, handler[c].at = "create",
           Insert(c, d), ~LastLocked(d), UNCHANGED gone
    PROVE  CharactersInv'
<1> DEFINE C == Committed(d)
           n == Cardinality(DOMAIN C)
           id == NewId(C)
           row == [name |-> handler[c].name, owner |-> handler[c].account, deleted |-> FALSE]
           new == Row(id, row)
           x == [id |-> id, account |-> handler[c].account, name |-> handler[c].name,
                 unseen |-> DOMAIN C \ handler[c].checked]
<1>1. /\ DatabaseInv /\ AnswersType /\ handler[c].name \in CharacterName /\ handler[c].account \in User
      /\ \A i \in handler[c].checked : NotNamed(i, <<handler[c].name[1], "">>)
  BY DEF CharactersInv, DatabaseInv, HandlersInv
<1>2. C \in Tables /\ DOMAIN C = DOMAIN rows \cup DOMAIN Own(d) /\ DOMAIN C = 1 .. n /\ n \in Nat
  BY <1>1, CommittedRows
<1>3. /\ rows' = Over(new, C) /\ transaction' = [transaction EXCEPT ![d] = Closed]
      /\ created' = created \cup {x} /\ Decline(c, "created")
  BY DEF Insert
<1>4. id = n + 1
  BY <1>1, NewIdIs
<1>5. id \in Nat /\ id \notin 1 .. n /\ (1 .. n) \cup {id} = 1 .. (n + 1) /\ n + 1 \in Nat
  <2> HIDE DEF n, id
  <2> QED
    BY <1>2, <1>4
<1>6. row \in Rows /\ ~row.deleted /\ row.owner = handler[c].account /\ row.name = handler[c].name
  BY <1>1 DEF Rows
<1> HIDE DEF row
<1>7. new \in Tables /\ DOMAIN new = {id} /\ new[id] = row
  BY <1>5, <1>6, RowIsTable
<1> HIDE DEF new, C, id
<1>8. /\ rows' \in Tables /\ DOMAIN rows' = {id} \cup DOMAIN C /\ rows'[id] = row
      /\ \A i \in DOMAIN C : i # id /\ i \in DOMAIN rows' /\ rows'[i] = C[i]
  <2>1. /\ DOMAIN Over(new, C) = DOMAIN new \cup DOMAIN C
        /\ \A i \in DOMAIN new : Over(new, C)[i] = new[i]
        /\ \A i \in DOMAIN C \ DOMAIN new : Over(new, C)[i] = C[i]
    BY OverIs
  <2>2. Over(new, C) \in Tables
    BY <1>2, <1>7, OverIsTable
  <2>3. \A i \in DOMAIN C : i # id
    BY <1>2, <1>5
  <2> QED
    BY <1>3, <1>7, <2>1, <2>2, <2>3
<1>9. DOMAIN rows' = 1 .. (n + 1)
  BY <1>2, <1>5, <1>8
<1>10. LastId' = n + 1
  BY <1>5, <1>9, CountTo DEF LastId
<1>11. /\ x.id = id /\ x.account = handler[c].account /\ x.name = handler[c].name
       /\ x.unseen = DOMAIN C \ handler[c].checked
       /\ x \in [id : Nat, account : User \cup {NoOne}, name : CharacterName, unseen : SUBSET Nat]
  BY <1>1, <1>2, <1>5, TableIs
<1> HIDE DEF x
<1>12. AnswersType'
  BY <1>1, <1>2, <1>3, <1>8, <1>11 DEF AnswersType
<1>13. DatabaseInv' /\ NamesKept
  <2>1. \A i \in DOMAIN Committed(d) : i \in DOMAIN rows' /\ rows'[i] = Committed(d)[i]
    BY <1>8 DEF C
  <2>2. LastId' \in Nat /\ DOMAIN rows' = 1 .. LastId'
    BY <1>5, <1>9, <1>10
  <2> QED
    BY <1>1, <1>3, <1>8, <1>12, <2>1, <2>2, ClosedIs, Committing
<1>14. CreatedIsThere' /\ OthersAreOwnedByNoOne' /\ DeletedForItsOwner' /\ OwnersKept
  <2>1. \A i \in DOMAIN Committed(d) : i \in DOMAIN rows' /\ rows'[i] = Committed(d)[i]
    BY <1>8 DEF C
  <2>2. \A i \in DOMAIN rows' \ DOMAIN Committed(d) : ~rows'[i].deleted /\ \E y \in created' : y.id = i
    <3> SUFFICES ASSUME NEW i \in DOMAIN rows' \ DOMAIN C
                 PROVE  ~rows'[i].deleted /\ \E y \in created' : y.id = i
      BY DEF C
    <3>1. i = id
      BY <1>8
    <3> QED
      BY <1>3, <1>6, <1>8, <1>11, <3>1
  <2>3. \A y \in created' \ created :
          y.id \in DOMAIN rows' /\ rows'[y.id].owner = y.account /\ rows'[y.id].name = y.name
    BY <1>3, <1>6, <1>8, <1>11
  <2>4. created \subseteq created'
    BY <1>3
  <2> QED
    BY <2>1, <2>2, <2>3, <2>4, AnswersAfterCommit
<1>15. HandlersInv' /\ ListsAreOwn' /\ answer' = "created"
  BY <1>3, <1>13, <1>14, Declining
<1>16. NamesTwiceUnseen'
  <2> SUFFICES ASSUME NEW y \in created', NEW z \in created', y.id < z.id, y.name = z.name, y.name[2] = ""
               PROVE  y.id \in z.unseen
    BY DEF NamesTwiceUnseen
  <2>1. \A w \in created : w.id \in DOMAIN rows /\ rows[w.id].name = w.name /\ w.id \in 1 .. n
    BY <1>2 DEF CharactersInv, CharactersAreKept, CreatedIsThere
  <2>2. CASE y \in created /\ z \in created
    BY <2>2 DEF CharactersInv, CharactersAreKept, NamesTwiceUnseen
  <2>3. CASE y = x
    <3>1. z = x \/ z.id \in 1 .. n
      BY <1>3, <2>1
    <3>2. y.id = n + 1
      BY <1>4, <1>11, <2>3
    <3>3. n \in Nat /\ z.id \in (1 .. n) \cup {n + 1}
      BY <1>2, <2>3, <3>1, <3>2
    <3> HIDE DEF n
    <3>4. ~(n + 1 < z.id)
      BY <3>3, NextIsLast
    <3> QED
      BY <3>2, <3>4
  <2>4. CASE y \in created /\ z = x
    <3>1. y.name = handler[c].name /\ y.id \in DOMAIN C
      BY <1>2, <1>11, <2>1, <2>4
    <3>2. <<handler[c].name[1], "">> = handler[c].name
      BY <1>1, <3>1, CharactersAssumption
    <3>3. y.id \notin handler[c].checked
      <4> SUFFICES ASSUME y.id \in handler[c].checked PROVE FALSE
        OBVIOUS
      <4>1. NotNamed(y.id, handler[c].name)
        BY <1>1, <3>2
      <4>2. rows[y.id].name = handler[c].name /\ y.id \in DOMAIN rows
        BY <2>1, <2>4, <3>1
      <4>3. \A e \in Connection : y.id \in DOMAIN Own(e) => Own(e)[y.id].name = handler[c].name
        BY <1>1, <4>2 DEF DatabaseInv, OwnWereDeleted
      <4> QED
        BY <4>1, <4>2, <4>3 DEF NotNamed
    <3> QED
      BY <1>11, <2>4, <3>1, <3>3
  <2> QED
    BY <1>3, <2>2, <2>3, <2>4
<1>17. InternalErrorLeavesOpen'
  BY <1>15 DEF InternalErrorLeavesOpen
<1> QED
  BY <1>13, <1>14, <1>15, <1>16, <1>17 DEF CharactersInv, CharactersAreKept

LEMMA CreatingIt ==
    ASSUME CharactersInv, NEW c \in AccountClient, CharacterCreate(c)
    PROVE  CharactersInv'
<1> DEFINE d == handler[c].conn
<1>1. handler[c].at = "create" /\ gone' = gone /\ (IF LastLocked(d) THEN GiveUp(c, d) ELSE Insert(c, d) \/ FailAtTheEnd(c, d))
  BY DEF CharacterCreate
<1>2. d \in Connection
  BY <1>1 DEF CharactersInv, HandlersInv
<1> HIDE DEF d
<1> QED
  BY <1>1, <1>2, GivingUp, Failing, Inserting

-----------------------------------------------------------------------------

LEMMA CharactersStep ==
    ASSUME CharactersInv, [CharactersNext]_characterVars
    PROVE  CharactersInv'
<1>1. ASSUME NEW c \in AccountClient, Creating(c) PROVE CharactersInv'
  BY <1>1, CheckingName, CreatingIt DEF Creating
<1>2. ASSUME NEW c \in AccountClient, Otherwise(c), answer' = "" PROVE CharactersInv'
  BY <1>2, LoggingIn, Registering, MakingPlayer, Authenticating, Deleting, LoggingOut DEF Otherwise
<1>3. CASE UNCHANGED characterVars
  <2>1. /\ UNCHANGED <<rows, transaction, created, gone, handler, answer>>
    BY <1>3 DEF characterVars, databaseVars, accountVars
  <2>2. DatabaseInv' /\ NamesKept
    BY <2>1, DatabaseStays DEF CharactersInv
  <2>3. AnswersAreKept' /\ OwnersKept
    BY <2>1, AnswersStay DEF CharactersInv, CharactersAreKept, AnswersAreKept
  <2>4. HandlersInv' /\ ListsAreOwn'
    BY <2>1, <2>2, <2>3, HandlersKept, ListsKept DEF CharactersInv, CharactersAreKept
  <2>5. InternalErrorLeavesOpen'
    BY <2>1 DEF CharactersInv, CharactersAreKept, InternalErrorLeavesOpen
  <2> QED
    BY <2>2, <2>3, <2>4, <2>5 DEF CharactersInv, CharactersAreKept, AnswersAreKept
<1> QED
  BY <1>1, <1>2, <1>3, UsingElsewhere, Crashing DEF CharactersNext

\* Whatever requests come, and wherever they fail or the server stops, a character is
\* kept for whom it was made, under its name, until it is deleted for him.
THEOREM CharactersTheorem == CharactersSpec => []CharactersAreKept
<1>1. CharactersInit => CharactersInv
  <2> SUFFICES ASSUME CharactersInit PROVE CharactersInv
    OBVIOUS
  <2>1. /\ rows = <<>> /\ transaction = [d \in Connection |-> Closed] /\ created = {} /\ gone = {}
        /\ handler = [c \in AccountClient |-> Rest0] /\ answer = ""
    BY DEF CharactersInit
  <2>2. \A d \in Connection : DOMAIN Own(d) = {} /\ DOMAIN transaction[d].seen = {}
    BY <2>1, ClosedIs DEF Own
  <2>3. DOMAIN rows = {} /\ rows \in Tables
    BY <2>1, EmptyTable
  <2>4. LastId = 0
    BY <2>3, FS_EmptySet DEF LastId
  <2>5. DatabaseType /\ AnswersType
    <3>1. transaction \in [Connection -> Transactions]
      BY <2>1, ClosedIs
    <3>2. DOMAIN rows = 1 .. LastId
      BY <2>3, <2>4
    <3> QED
      BY <2>1, <2>3, <2>4, <3>1, <3>2 DEF DatabaseType, AnswersType
  <2>6. DatabaseInv
    BY <2>2, <2>5 DEF DatabaseInv, SeenAreOld, OwnWereDeleted, OwnIsPending, OnePending
  <2>7. \A c \in AccountClient : handler[c] = Rest0 /\ Rest0 \in Handlers /\ Rest0.at = "rest" /\ Rest0.list = {}
    BY <2>1 DEF Rest0, Handlers
  <2>8. HandlersInv
    BY <2>1, <2>7 DEF HandlersInv
  <2>9. CharactersAreKept
    BY <2>1, <2>3, <2>7 DEF CharactersAreKept, CreatedIsThere, OthersAreOwnedByNoOne, DeletedForItsOwner,
                            NamesTwiceUnseen, ListsAreOwn, InternalErrorLeavesOpen
  <2> QED
    BY <2>6, <2>8, <2>9 DEF CharactersInv
<1>2. CharactersInv /\ [CharactersNext]_characterVars => CharactersInv'
  BY CharactersStep
<1>3. CharactersInv => CharactersAreKept
  BY DEF CharactersInv
<1> QED
  BY <1>1, <1>2, <1>3, PTL DEF CharactersSpec
=============================================================================
