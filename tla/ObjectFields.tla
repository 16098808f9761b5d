---------------------------- MODULE ObjectFields ----------------------------
(***************************************************************************)
(* The tables that must agree for a field of an object to be seen and kept *)
(* (swganh/object): the setter's event, the handlers each message builder  *)
(* registers, the place and kind of every delta, the layout of every       *)
(* baseline, and the columns that are saved when a client leaves and read  *)
(* when the object is loaded again.                                        *)
(*                                                                         *)
(* Fields have the members' names, events the code's without the class     *)
(* before "::", deltas the names of their Build...Delta.  A value is the   *)
(* number of the write that made it.  One thread, one client: what the     *)
(* interleavings do is ObjectReplication's subject.                        *)
(***************************************************************************)
EXTENDS Integers, Sequences, FiniteSets, Functions, SequencesExt, TLC

CONSTANTS Classes, MaxWrites, MaxJoins   \* the Max... are bounds on the calls

ASSUME FieldsAssumption ==
    /\ Classes \subseteq {"Tangible", "Intangible", "Creature", "Player"}
    /\ MaxWrites \in Nat /\ MaxJoins \in Nat

\* One table on top of another.
f ++ g == [x \in DOMAIN f \cup DOMAIN g |-> IF x \in DOMAIN f THEN f[x] ELSE g[x]]

-----------------------------------------------------------------------------
(* Setters: the events a write of the field dispatches. *)

ObjectSetters == [
    template |-> {"Template"}, custom_name |-> {"CustomName"}, position |-> {"Position"},
    orientation |-> {"Orientation"}, container |-> {"Container"}]
ObjectSetters2 == [
    complexity |-> {"Complexity"}, stf_name |-> {"StfName"}, volume |-> {"Volume"},
    scene_id |-> {"SceneId"}]

TangibleSetters == [
    customization |-> {"Customization"}, component_customization |-> {"ComponentCustomization"},
    options_mask |-> {"OptionsMask"}, incap_timer |-> {"IncapTimer"},
    condition_damage |-> {"ConditionDamage"}, max_condition |-> {"MaxCondition"},
    is_static |-> {"Static"}]
\* The mutant misspells the event.
TangibleSetters2_Typo == [defenders |-> {"Defender"}]
TangibleSetters2 == [defenders |-> {"Defenders"}]

CreatureSetters == [
    bank_credits |-> {"Bank"}, cash_credits |-> {"Cash"}, stat_base |-> {"StatBase"},
    skills |-> {"Skill"}]
CreatureSetters2 == [
    posture |-> {"Posture"}, faction_rank |-> {"FactionRank"}, owner_id |-> {"OwnerId"},
    scale |-> {"Scale"}, battle_fatigue |-> {"BattleFatigue"},
    state_bitmask |-> {"StateBitmask"}, stat_wound |-> {"StatWound"}]
CreatureSetters3 == [
    acceleration_multiplier_base |-> {"AccelerationMultiplierBase"},
    acceleration_multiplier_modifier |-> {"AccelerationMultiplierModifier"},
    stat_encumberance |-> {"StatEncumberance"}, skill_mods |-> {"SkillMod"}]
CreatureSetters4 == [
    speed_multiplier_base |-> {"SpeedMultiplierBase"},
    speed_multiplier_modifier |-> {"SpeedMultiplierModifer"},
    listen_to_id |-> {"ListenToId"}, run_speed |-> {"RunSpeed"},
    slope_modifier_angle |-> {"SlopeModifierAngle"},
    slope_modifier_percent |-> {"SlopeModifierPercent"},
    turn_radius |-> {"TurnRadius"}, walking_speed |-> {"WalkingSpeed"}]
CreatureSetters5 == [
    water_modifier_percent |-> {"WaterModifierPercent"},
    mission_critical_objects |-> {"MissionCriticalObject"},
    combat_level |-> {"CombatLevel"}, animation |-> {"Animation"},
    mood_animation |-> {"MoodAnimation"}, weapon_id |-> {"WeaponId"}, group_id |-> {"GroupId"}]
CreatureSetters6 == [
    invite_sender_id |-> {"InviteSenderId"}, guild_id |-> {"GuildId"},
    target_id |-> {"TargetId"}, mood_id |-> {"MoodId"}, performance_id |-> {"PerformanceId"},
    stat_current |-> {"StatCurrent"}]
CreatureSetters7 == [stat_max |-> {"StatMax"}, equipment |-> {"EquipmentItem"},
    disguise |-> {"Disguise"}]
CreatureSetters8 == [stationary |-> {"Stationary"}, pvp_status |-> {"PvPStatus"}]

PlayerSetters == [
    status_flags |-> {"StatusBitmask"}, profile_flags |-> {"ProfileFlag"},
    profession_tag |-> {"ProfessionTag"}, born_date |-> {"BornDate"},
    total_playtime |-> {"TotalPlayTime"}, admin_tag |-> {"AdminTag"}]
PlayerSetters2 == [experience |-> {"Experience"}, waypoints |-> {"Waypoint"}]
PlayerSetters3 == [
    force_power |-> {"ForcePower"}, max_force_power |-> {"MaxForcePower"},
    force_sensitive_quests |-> {"ForceSensitiveQuests"},
    completed_force_sensitive_quests |-> {"CompletedForceSensitiveQuests"},
    quest_journal |-> {"QuestJournal"}]
PlayerSetters4 == [
    experimentation_flag |-> {"ExperimentationFlag"}, crafting_stage |-> {"CraftingStage"},
    nearest_crafting_station |-> {"NearestCraftingStation"},
    draft_schematics |-> {"DraftSchematic"},
    experimentation_points |-> {"ExperimentationPoints"},
    accomplishment_counter |-> {"AccomplishmentCounter"}]
PlayerSetters5 == [friends |-> {"Friend", "RemoveFriend"},
    ignored_players |-> {"IgnorePlayer", "RemoveIgnoredPlayer"}]
PlayerSetters6 == [
    language |-> {"Language"}, current_stomach |-> {"CurrentStomach"},
    max_stomach |-> {"MaxStomach"}, current_drink |-> {"CurrentDrink"},
    max_drink |-> {"MaxDrink"}, jedi_state |-> {"JediState"}, gender |-> {}]

\* What a class declares, on top of the class it is derived from.
OfObject == ObjectSetters ++ ObjectSetters2
OfTangible == OfObject ++ TangibleSetters ++ TangibleSetters2
IntangibleSetters == [stf_detail |-> {}]
OfCreature == CreatureSetters ++ CreatureSetters2 ++ CreatureSetters3 ++ CreatureSetters4
OfCreature2 == CreatureSetters5 ++ CreatureSetters6 ++ CreatureSetters7 ++ CreatureSetters8
OfPlayer == PlayerSetters ++ PlayerSetters2
OfPlayer2 == PlayerSetters3 ++ PlayerSetters4
OfPlayer3 == PlayerSetters5 ++ PlayerSetters6
Setters == [
    Tangible |-> OfTangible, Intangible |-> OfObject ++ IntangibleSetters,
    Creature |-> OfTangible ++ OfCreature ++ OfCreature2,
    Player |-> OfObject ++ OfPlayer ++ OfPlayer2 ++ OfPlayer3]

\* SetCashCredits assigns its parameter to itself.
Stores(f) == f # "cash_credits"

-----------------------------------------------------------------------------
(* Handlers: the deltas each event's handlers build, once per registration. *)

ObjectHandlers == [
    CustomName |-> <<"CustomName">>, StfName |-> <<"StfName">>,
    Complexity |-> <<"Complexity">>, Volume |-> <<"Volume">>]

TangibleHandlers == [
    Customization |-> <<"Customization", "Customization">>,
    ComponentCustomization |-> <<"ComponentCustomization">>,
    OptionsMask |-> <<"OptionsMask">>, IncapTimer |-> <<"IncapTimer">>,
    ConditionDamage |-> <<"ConditionDamage">>, MaxCondition |-> <<"MaxCondition">>,
    Static |-> <<"Static">>, Defenders |-> <<"Defenders">>]

CreatureHandlers == [
    Bank |-> <<"BankCredits">>, Cash |-> <<"CashCredits">>, StatBase |-> <<"StatBase">>,
    Skill |-> <<"Skill">>, Posture |-> <<"Posture">>, FactionRank |-> <<"FactionRank">>,
    OwnerId |-> <<"OwnerId">>, Scale |-> <<"Scale">>, BattleFatigue |-> <<"Scale">>,
    StateBitmask |-> <<"StateBitmask", "StateBitmask">>, StatWound |-> <<"StatWound">>,
    AccelerationMultiplierBase |-> <<"AccelerationMultiplierBase">>,
    AccelerationMultiplierModifier |-> <<"AccelerationMultiplierModifier">>,
    StatEncumberance |-> <<"StatEncumberance">>, SkillMod |-> <<"SkillMod">>,
    SpeedMultiplierBase |-> <<"SpeedMultiplierBase">>,
    SpeedMultiplierModifer |-> <<"SpeedMultiplierModifier">>,
    ListenToId |-> <<"ListenToId">>, RunSpeed |-> <<"RunSpeed">>,
    SlopeModifierAngle |-> <<"SlopeModifierAngle">>,
    SlopeModifierPercent |-> <<"SlopeModifierPercent">>, TurnRadius |-> <<"TurnRadius">>,
    WalkingSpeed |-> <<"WalkingSpeed">>]
CreatureHandlers2 == [
    WaterModifierPercent |-> <<"WaterModifierPercent">>,
    MissionCriticalObject |-> <<"MissionCriticalObject">>, Animation |-> <<"Animation">>,
    MoodAnimation |-> <<"MoodAnimation">>, WeaponId |-> <<"WeaponId">>,
    GroupId |-> <<"GroupId">>, InviteSenderId |-> <<"InviteSenderId">>,
    GuildId |-> <<"GuildId">>, TargetId |-> <<"TargetId">>,
    PerformanceId |-> <<"PerformanceId">>, StatCurrent |-> <<"StatCurrent">>,
    StatMax |-> <<"StatMax">>, EquipmentItem |-> <<"Equipment">>,
    Disguise |-> <<"Disguise">>, Stationary |-> <<"Stationary">>,
    PvPStatus |-> <<"UpdatePvpStatus">>]

PlayerHandlers == [
    StatusBitmask |-> <<"StatusBitmask">>, ProfileFlag |-> <<"ProfileBitmask">>,
    ProfessionTag |-> <<"ProfessionTag">>, BornDate |-> <<"BornDate">>,
    TotalPlayTime |-> <<"PlayTime">>, AdminTag |-> <<"AdminTag">>, Experience |-> <<"Xp">>,
    Waypoint |-> <<"Waypoint">>, ForcePower |-> <<"CurrentForcePower">>,
    MaxForcePower |-> <<"MaxForcePower">>,
    ForceSensitiveQuests |-> <<"ForceSensitiveQuest">>,
    CompletedForceSensitiveQuests |-> <<"CompletedForceSensitiveQuest">>,
    QuestJournal |-> <<"QuestJournal">>, ExperimentationFlag |-> <<"ExperimentationFlag">>,
    CraftingStage |-> <<"CraftingStage">>,
    NearestCraftingStation |-> <<"NearestCraftingStation">>,
    DraftSchematic |-> <<"DraftSchematic">>,
    ExperimentationPoints |-> <<"ExperimentationPoints">>,
    AccomplishmentCounter |-> <<"AccomplishmentCounter">>,
    RemoveFriend |-> <<"Friends">>, RemoveIgnoredPlayer |-> <<"Ignored">>,
    Friend |-> <<"Friends">>, IgnorePlayer |-> <<"Ignored">>, Language |-> <<"Language">>,
    CurrentStomach |-> <<"CurrentStomach">>, MaxStomach |-> <<"MaxStomach">>,
    CurrentDrink |-> <<"CurrentDrink">>, MaxDrink |-> <<"MaxDrink">>,
    JediState |-> <<"JediState">>]

\* One message builder per registered type; each constructor of its chain
\* registers the handlers of its own class.
RegisteredTypes == <<"Object", "Tangible", "Intangible", "Creature", "Player">>
Chain == [Object |-> <<"Object">>, Tangible |-> <<"Object", "Tangible">>,
          Intangible |-> <<"Object">>, Creature |-> <<"Object", "Tangible", "Creature">>,
          Player |-> <<"Object", "Player">>]
HandlersOf == [Object |-> ObjectHandlers, Tangible |-> TangibleHandlers,
               Creature |-> CreatureHandlers @@ CreatureHandlers2, Player |-> PlayerHandlers]

\* No two classes have an event of one name, so "::" and the class can be left out.
Handled(e) ==
    FlattenSeq([i \in DOMAIN RegisteredTypes |->
        FlattenSeq([j \in DOMAIN Chain[RegisteredTypes[i]] |->
            LET handlers == HandlersOf[Chain[RegisteredTypes[i]][j]]
            IN IF e \in DOMAIN handlers THEN handlers[e] ELSE <<>>])])

-----------------------------------------------------------------------------
(* Deltas: where a Build...Delta puts which field, and as what. *)

D(view, index, field, kind) == [view |-> view, index |-> index, field |-> field, kind |-> kind]

ObjectDeltas == [
    Complexity |-> D(3, 0, "complexity", "float"), StfName |-> D(3, 1, "stf_name", "stf"),
    CustomName |-> D(3, 2, "custom_name", "wstring"), Volume |-> D(3, 3, "volume", "u32")]

TangibleDeltas == [
    Customization |-> D(3, 4, "customization", "string"),
    ComponentCustomization |-> D(3, 5, "component_customization", "list"),
    OptionsMask |-> D(3, 6, "options_mask", "u32"), IncapTimer |-> D(3, 7, "incap_timer", "u32"),
    ConditionDamage |-> D(3, 8, "condition_damage", "u32"),
    MaxCondition |-> D(3, 9, "max_condition", "u32"), Static |-> D(3, 10, "is_static", "u8"),
    Defenders |-> D(6, 1, "defenders", "list")]

CreatureDeltas == [
    BankCredits |-> D(1, 0, "bank_credits", "u32"), CashCredits |-> D(1, 1, "cash_credits", "u32"),
    StatBase |-> D(1, 2, "stat_base", "list"), Skill |-> D(1, 3, "skills", "list"),
    Posture |-> D(3, 11, "posture", "u8"), FactionRank |-> D(3, 12, "faction_rank", "u8"),
    OwnerId |-> D(3, 13, "owner_id", "u64"), Scale |-> D(3, 14, "scale", "float"),
    StateBitmask |-> D(3, 16, "state_bitmask", "u64"), StatWound |-> D(3, 17, "stat_wound", "list")]
CreatureDeltas2 == [
    AccelerationMultiplierBase |-> D(4, 0, "acceleration_multiplier_base", "float"),
    AccelerationMultiplierModifier |-> D(4, 1, "acceleration_multiplier_modifier", "float"),
    StatEncumberance |-> D(4, 2, "stat_encumberance", "list"),
    SkillMod |-> D(4, 3, "skill_mods", "list"),
    SpeedMultiplierBase |-> D(4, 4, "speed_multiplier_base", "float"),
    SpeedMultiplierModifier |-> D(4, 5, "speed_multiplier_modifier", "float"),
    ListenToId |-> D(4, 6, "listen_to_id", "u64"), RunSpeed |-> D(4, 7, "run_speed", "float"),
    SlopeModifierAngle |-> D(4, 8, "slope_modifier_angle", "float"),
    SlopeModifierPercent |-> D(4, 9, "slope_modifier_percent", "float"),
    TurnRadius |-> D(4, 10, "turn_radius", "float"),
    WalkingSpeed |-> D(4, 11, "walking_speed", "float"),
    WaterModifierPercent |-> D(4, 12, "water_modifier_percent", "float"),
    MissionCriticalObject |-> D(4, 13, "mission_critical_objects", "list")]
CreatureDeltas3 == [
    Animation |-> D(6, 3, "animation", "string"),
    MoodAnimation |-> D(6, 4, "mood_animation", "string"),
    WeaponId |-> D(6, 5, "weapon_id", "u64"), GroupId |-> D(6, 6, "group_id", "u64"),
    InviteSenderId |-> D(6, 7, "invite_sender_id", "counter, id"),
    GuildId |-> D(6, 8, "guild_id", "u32"), TargetId |-> D(6, 9, "target_id", "u64"),
    PerformanceId |-> D(6, 12, "performance_id", "u32")]
\* UpdatePvpStatus is a message of its own, here the view 0.
CreatureDeltas4 == [
    StatCurrent |-> D(6, 13, "stat_current", "list"), StatMax |-> D(6, 14, "stat_max", "list"),
    Equipment |-> D(6, 15, "equipment", "list"), Disguise |-> D(6, 16, "disguise", "string"),
    Stationary |-> D(6, 17, "stationary", "u8"),
    UpdatePvpStatus |-> D(0, 0, "pvp_status", "u32")]

PlayerDeltas == [
    StatusBitmask |-> D(3, 5, "status_flags", "flags"),
    ProfileBitmask |-> D(3, 6, "profile_flags", "flags"),
    ProfessionTag |-> D(3, 7, "profession_tag", "string"),
    BornDate |-> D(3, 8, "born_date", "u32"), PlayTime |-> D(3, 9, "total_playtime", "u32"),
    AdminTag |-> D(6, 1, "admin_tag", "u8"), Xp |-> D(7, 0, "experience", "list"),
    Waypoint |-> D(7, 1, "waypoints", "list"),
    CurrentForcePower |-> D(8, 2, "force_power", "u32"),
    MaxForcePower |-> D(8, 3, "max_force_power", "u32"),
    ForceSensitiveQuest |-> D(8, 4, "force_sensitive_quests", "u32"),
    CompletedForceSensitiveQuest |-> D(8, 5, "completed_force_sensitive_quests", "u32"),
    QuestJournal |-> D(8, 6, "quest_journal", "list")]
PlayerDeltas2 == [
    ExperimentationFlag |-> D(9, 1, "experimentation_flag", "u32"),
    CraftingStage |-> D(9, 2, "crafting_stage", "u32"),
    NearestCraftingStation |-> D(9, 3, "nearest_crafting_station", "u64"),
    DraftSchematic |-> D(9, 4, "draft_schematics", "list"),
    ExperimentationPoints |-> D(9, 5, "experimentation_points", "u32"),
    AccomplishmentCounter |-> D(9, 6, "accomplishment_counter", "u32"),
    Friends |-> D(9, 7, "friends", "list"), Ignored |-> D(9, 8, "ignored_players", "list"),
    Language |-> D(9, 9, "language", "u32"), CurrentStomach |-> D(9, 10, "current_stomach", "u32"),
    MaxStomach |-> D(9, 11, "max_stomach", "u32"), CurrentDrink |-> D(9, 12, "current_drink", "u32"),
    MaxDrink |-> D(9, 13, "max_drink", "u32"),
    JediState |-> D(9, 17, "experimentation_points", "u32")]

Deltas == ObjectDeltas @@ TangibleDeltas @@ CreatureDeltas @@ CreatureDeltas2
    @@ CreatureDeltas3 @@ CreatureDeltas4 @@ PlayerDeltas @@ PlayerDeltas2

-----------------------------------------------------------------------------
(* Baselines: the fields of a view in order.  "-" is a constant or a counter. *)

F(field, kind) == [field |-> field, kind |-> kind]
Fixed == F("-", "u32")

ObjectBaseline3 == <<F("complexity", "float"), F("stf_name", "stf"),
    F("custom_name", "wstring"), F("volume", "u32")>>
ObjectBaseline6 == <<Fixed>>

TangibleBaseline3 == ObjectBaseline3 \o <<F("customization", "string"),
    F("component_customization", "list"), F("options_mask", "u32"), F("incap_timer", "u32"),
    F("condition_damage", "u32"), F("max_condition", "u32"), F("is_static", "u8")>>
TangibleBaseline6 == ObjectBaseline6 \o <<F("defenders", "list")>>

\* The mutant exchanges two fields of the baseline.
CreatureBaseline1 == <<F("bank_credits", "u32"), F("cash_credits", "u32"),
    F("stat_base", "list"), F("skills", "list")>>
CreatureBaseline3 == TangibleBaseline3 \o <<F("posture", "u8"), F("faction_rank", "u8"),
    F("owner_id", "u64"), F("scale", "float"), F("battle_fatigue", "u32"),
    F("state_bitmask", "u64"), F("stat_wound", "list")>>
CreatureBaseline4 == <<F("acceleration_multiplier_base", "float"),
    F("acceleration_multiplier_modifier", "float"), F("stat_encumberance", "list"),
    F("skill_mods", "list"), F("speed_multiplier_base", "float"),
    F("speed_multiplier_modifier", "float"), F("listen_to_id", "u64"), F("run_speed", "float"),
    F("slope_modifier_angle", "float"), F("slope_modifier_percent", "float"),
    F("turn_radius", "float"), F("walking_speed", "float"),
    F("water_modifier_percent", "float"), F("mission_critical_objects", "list")>>
CreatureBaseline6 == TangibleBaseline6 \o <<F("combat_level", "u16"), F("animation", "string"),
    F("mood_animation", "string"), F("weapon_id", "u64"), F("group_id", "u64"),
    F("invite_sender_id", "id, counter"), F("guild_id", "u32"), F("target_id", "u64"),
    F("mood_id", "u8"), Fixed, F("performance_id", "u32"), F("stat_current", "list"),
    F("stat_max", "list"), F("equipment", "list"), F("disguise", "string"),
    F("stationary", "u8")>>
PvpMessage == <<F("pvp_status", "u32")>>

PlayerBaseline3 == ObjectBaseline3 \o <<Fixed, F("status_flags", "flags"),
    F("profile_flags", "flags"), F("profession_tag", "string"), F("born_date", "u32"),
    F("total_playtime", "u32")>>
PlayerBaseline6 == <<F("scene_id", "u32"), F("admin_tag", "u8")>>
PlayerBaseline8 == <<F("experience", "list"), F("waypoints", "list"), F("force_power", "u32"),
    F("max_force_power", "u32"), F("-", "list"), F("-", "list"), F("quest_journal", "list")>>
PlayerBaseline9 == <<F("-", "list"), F("experimentation_flag", "u32"),
    F("crafting_stage", "u32"), F("nearest_crafting_station", "u64"),
    F("draft_schematics", "list"), F("experimentation_points", "u32"),
    F("accomplishment_counter", "u32"), F("friends", "list"), F("ignored_players", "list"),
    F("language", "u32"), F("current_stomach", "u32"), F("max_stomach", "u32"),
    F("current_drink", "u32"), F("max_drink", "u32"), Fixed, Fixed, Fixed, Fixed,
    F("jedi_state", "u32")>>

\* What SendBaselines of each class sends (view 7 of a Tangible is constant).  Nothing
\* handles the event of an Intangible, so its builder's view 6 is never sent.
Baselines == [
    Intangible |-> <<>>,
    Tangible |-> (3 :> TangibleBaseline3 @@ 6 :> TangibleBaseline6),
    Creature |-> (1 :> CreatureBaseline1 @@ 3 :> CreatureBaseline3 @@ 4 :> CreatureBaseline4
                  @@ 6 :> CreatureBaseline6 @@ 0 :> PvpMessage),
    Player |-> (3 :> PlayerBaseline3 @@ 6 :> PlayerBaseline6 @@ 8 :> PlayerBaseline8
                @@ 9 :> PlayerBaseline9)]

-----------------------------------------------------------------------------
(* Entries: what an item of a list writes into a baseline and into a delta. *)

Item(baseline, delta) == [baseline |-> baseline, delta |-> delta]
SameItem(items) == Item(items, items)

\* The containers write "add" before an item in a delta; a map's baseline has it too,
\* written by the item itself.
MapItem(baseline, delta) == Item(baseline, <<"u8">> \o delta)

Defender == SameItem(<<"u64">>)
ComponentCustomization == SameItem(<<"u32">>)

SkillMod == MapItem(<<"u8", "string", "u32", "u32">>, <<"string", "u32", "u32">>)
Stat == SameItem(<<"i32">>)
EquipmentItem == SameItem(<<"string", "u32", "u64", "u32">>)
MissionCriticalObject == SameItem(<<"u64", "u64">>)
Skill == SameItem(<<"string">>)

Name == SameItem(<<"string">>)
XpData == MapItem(<<"u8", "string", "u32">>, <<"string", "u32">>)
FlagBitmask == SameItem(<<"u32">>)
QuestJournalData == MapItem(<<"u8", "u32", "u64", "u16", "u16", "u8", "u32">>,
                            <<"u32", "u64", "u16", "u16", "u8", "u32">>)
DraftSchematicData == SameItem(<<"u32", "u32">>)

\* The baseline has the waypoint's id and no "add".
PlayerWaypointSerializer ==
    LET rest == <<"u32", "float", "float", "float", "u64", "u32", "wstring", "u64", "u8", "u8">>
    IN MapItem(<<"u64">> \o rest, rest)

\* A list of the client's takes items of one form.
ItemOf == [
    defenders |-> Defender, component_customization |-> ComponentCustomization,
    skill_mods |-> SkillMod, equipment |-> EquipmentItem, skills |-> Skill,
    mission_critical_objects |-> MissionCriticalObject,
    stat_base |-> Stat, stat_wound |-> Stat, stat_encumberance |-> Stat,
    stat_current |-> Stat, stat_max |-> Stat]
ItemOf2 == [
    friends |-> Name, ignored_players |-> Name, experience |-> XpData,
    status_flags |-> FlagBitmask, profile_flags |-> FlagBitmask,
    quest_journal |-> QuestJournalData, draft_schematics |-> DraftSchematicData,
    waypoints |-> PlayerWaypointSerializer]
Items == ItemOf @@ ItemOf2
ItemsIn(message, field) == IF field \in DOMAIN Items THEN Items[field][message] ELSE <<>>

-----------------------------------------------------------------------------
(* Storage: the columns PersistObject writes, the column each field is read from. *)

Same(fields) == [f \in fields |-> f]

\* The mutant does not save the volume.
ObjectPersisted_NoVolume == {"scene_id", "template", "position", "orientation",
    "complexity", "stf_name", "custom_name"}
ObjectPersisted == {"scene_id", "template", "position", "orientation", "complexity",
    "stf_name", "custom_name", "volume"}
ObjectLoaded == Same({"scene_id", "position", "orientation", "complexity", "stf_name",
    "custom_name", "volume", "template"})

TangiblePersisted == ObjectPersisted \cup {"customization", "options_mask", "incap_timer",
    "condition_damage", "max_condition", "is_static"}
TangibleLoaded == ObjectLoaded ++ Same({"customization", "options_mask", "incap_timer",
    "condition_damage", "max_condition", "is_static"})

CreaturePersisted == TangiblePersisted \cup {"owner_id", "listen_to_id", "bank_credits",
    "cash_credits", "posture", "faction_rank", "scale", "battle_fatigue", "state_bitmask",
    "acceleration_multiplier_base", "acceleration_multiplier_modifier",
    "speed_multiplier_base", "speed_multiplier_modifier", "run_speed",
    "slope_modifier_angle", "slope_modifier_percent", "turn_radius", "walking_speed",
    "water_modifier_percent", "combat_level", "animation", "group_id", "guild_id",
    "weapon_id", "mood_id", "performance_id", "disguise", "stat_wound",
    "stat_encumberance", "stat_current", "stat_max"}
SkillsLoaded == {"skills", "skill_mods"}
\* The mood's name is looked up by mood_id, the base stats are read from the wounds.
CreatureLoaded == TangibleLoaded
    ++ [mood_animation |-> "mood_id", stat_base |-> "stat_wound"]
    ++ Same({"owner_id", "listen_to_id", "bank_credits", "posture", "faction_rank", "scale",
    "battle_fatigue", "state_bitmask", "acceleration_multiplier_base",
    "acceleration_multiplier_modifier", "speed_multiplier_base",
    "speed_multiplier_modifier", "run_speed", "slope_modifier_angle",
    "slope_modifier_percent", "walking_speed", "turn_radius", "water_modifier_percent",
    "combat_level", "animation", "group_id", "guild_id", "weapon_id", "mood_id",
    "performance_id", "disguise", "stat_current", "stat_max", "stat_wound"}
    \cup SkillsLoaded)

\* Rows of their own.  The procedures that save experience and schematics do not exist,
\* the one for the quests names no player; nobody handles the events that are to load
\* and to save the waypoints.
FlagsLoaded == {"status_flags", "profile_flags"}
XpAndSchematics == [loaded |-> {"experience", "draft_schematics"}, persisted |-> {}]
Quests == [loaded |-> {"quest_journal", "force_sensitive_quests",
                       "completed_force_sensitive_quests"},
           persisted |-> {"quest_journal"}]
NameLists == [loaded |-> {"friends", "ignored_players"}, persisted |-> {"friends", "ignored_players"}]

\* PersistPlayer's UPDATE leaves out experimentation_points.
PlayerPersisted == ObjectPersisted \cup {"profession_tag", "total_playtime", "admin_tag",
    "max_force_power", "experimentation_flag", "crafting_stage",
    "nearest_crafting_station", "accomplishment_counter", "language", "current_stomach",
    "max_stomach", "current_drink", "max_drink", "jedi_state"}
    \cup XpAndSchematics.persisted \cup Quests.persisted \cup NameLists.persisted
PlayerLoaded == ObjectLoaded ++ Same({"profession_tag", "born_date", "total_playtime",
    "admin_tag", "force_power", "max_force_power", "experimentation_flag", "crafting_stage",
    "nearest_crafting_station", "experimentation_points", "accomplishment_counter",
    "language", "current_stomach", "max_stomach", "current_drink", "max_drink",
    "jedi_state"} \cup FlagsLoaded \cup XpAndSchematics.loaded \cup Quests.loaded
    \cup NameLists.loaded)

\* PersistObject saves the values of a new Intangible, under no object's id.
IntangiblePersisted == {}
IntangibleLoaded == ObjectLoaded ++ Same({"stf_detail"})

Persisted == [Intangible |-> IntangiblePersisted, Tangible |-> TangiblePersisted,
              Creature |-> CreaturePersisted, Player |-> PlayerPersisted]
Loaded == [Intangible |-> IntangibleLoaded, Tangible |-> TangibleLoaded, Creature |-> CreatureLoaded,
           Player |-> PlayerLoaded]

\* Saved as x, y, z, w and read by a constructor that takes w first.
Turned(v) == -1 - v
ReadColumn(f, v) == IF f = "orientation" THEN Turned(v) ELSE v

-----------------------------------------------------------------------------

VARIABLES
    class,      \* the object's class
    value,      \* its members
    written,    \* what the setters were last given for each
    writes,     \* calls of setters so far
    queue,      \* events dispatched and not yet handled
    joins,      \* times the client has become aware since the server started
    aware,      \* the client observes the object
    shown,      \* what the client has: place -> field, kind, form of items and value
    stored,     \* the object's row
    saved,      \* written, when the row was last saved
    restarted,  \* the server has been restarted
    repeated    \* lists of which one event sent more than one delta

vars == <<class, value, written, writes, queue, joins, aware, shown, stored, saved, restarted, repeated>>

Fields == DOMAIN Setters[class]
Nothing == <<>>

Init ==
    /\ class \in Classes
    /\ value = [f \in Fields |-> 0] /\ written = value /\ stored = value /\ saved = value
    /\ writes = 0 /\ joins = 0 /\ queue = <<>> /\ aware = FALSE /\ shown = Nothing
    /\ restarted = FALSE /\ repeated = {}

\* A setter stores the value and dispatches its event.
Write(f) ==
    /\ writes < MaxWrites
    /\ writes' = writes + 1
    /\ written' = [written EXCEPT ![f] = writes']
    /\ value' = IF Stores(f) THEN [value EXCEPT ![f] = writes'] ELSE value
    /\ IF Setters[class][f] = {} THEN UNCHANGED queue
       ELSE \E e \in Setters[class][f] : queue' = Append(queue, e)
    /\ UNCHANGED <<class, joins, aware, shown, stored, saved, restarted, repeated>>

\* A client becomes aware: the object is created there and asks for its baselines.
Join ==
    /\ ~aware /\ joins < MaxJoins
    /\ aware' = TRUE /\ joins' = joins + 1
    /\ queue' = Append(queue, "Baselines")
    /\ UNCHANGED <<class, value, written, writes, shown, stored, saved, restarted, repeated>>

ValueOf(f) == IF f = "-" THEN 0 ELSE value[f]
Places == UNION {{<<v, i - 1>> : i \in DOMAIN Baselines[class][v]} : v \in DOMAIN Baselines[class]}
Layout(p) == Baselines[class][p[1]][p[2] + 1]

SendBaselines ==
    /\ shown' = [p \in Places |-> [field |-> Layout(p).field, kind |-> Layout(p).kind,
                                   items |-> ItemsIn("baseline", Layout(p).field),
                                   value |-> ValueOf(Layout(p).field)]]
    /\ UNCHANGED repeated

\* A delta for a view the client has no baseline of is nothing to it.
ApplyDelta(copy, d) ==
    IF d.view \in DOMAIN Baselines[class]
    THEN <<d.view, d.index>> :> [field |-> d.field, kind |-> d.kind,
             items |-> ItemsIn("delta", d.field), value |-> value[d.field]] @@ copy
    ELSE copy

SendDeltas(built) ==
    /\ shown' = FoldLeft(ApplyDelta, shown, [i \in DOMAIN built |-> Deltas[built[i]]])
    /\ repeated' = repeated \cup
            {Deltas[built[i]].field : i \in {i \in DOMAIN built :
                Deltas[built[i]].kind = "list" /\ \E j \in DOMAIN built \ {i} : built[j] = built[i]}}

\* Any event may be next: the pool's threads take them from the queue, the
\* dispatcher's lock lets them in in any order.
HandleEvent(i) ==
    /\ i \in DOMAIN queue
    /\ queue' = RemoveAt(queue, i)
    /\ IF ~aware THEN UNCHANGED <<shown, repeated>>
       ELSE IF queue[i] = "Baselines" THEN SendBaselines
       ELSE IF shown = Nothing THEN UNCHANGED <<shown, repeated>>
       ELSE SendDeltas(Handled(queue[i]))
    /\ UNCHANGED <<class, value, written, writes, joins, aware, stored, saved, restarted>>

\* RemoveSession persists the client's objects.
Leave ==
    /\ aware
    /\ aware' = FALSE /\ shown' = Nothing
    /\ stored' = [f \in Fields |-> IF f \in Persisted[class] THEN value[f] ELSE stored[f]]
    /\ saved' = written
    /\ UNCHANGED <<class, value, written, writes, queue, joins, restarted, repeated>>

\* The server stops, starts again and loads the object.
Restart ==
    /\ ~restarted /\ restarted' = TRUE
    /\ value' = [f \in Fields |->
            IF f \in DOMAIN Loaded[class] THEN ReadColumn(f, stored[Loaded[class][f]]) ELSE 0]
    /\ written' = value'
    /\ queue' = <<>> /\ joins' = 0 /\ aware' = FALSE /\ shown' = Nothing
    /\ UNCHANGED <<class, writes, stored, saved, repeated>>

Next ==
    \/ \E f \in Fields : Write(f)
    \/ Join \/ Leave \/ Restart
    \/ \E i \in 1 .. MaxWrites + MaxJoins : HandleEvent(i)

Spec == Init /\ [][Next]_vars

-----------------------------------------------------------------------------
(* Properties.  Each names the fields the code is known to get wrong. *)

\* The tables name fields and events of the class only, and each place once.
FieldsTypeOK ==
    /\ class \in Classes /\ writes \in 0 .. MaxWrites /\ joins \in 0 .. MaxJoins /\ aware \in BOOLEAN
    /\ \A f \in Fields : {value[f], written[f], stored[f], saved[f]} \subseteq -1 - MaxWrites .. MaxWrites
    /\ shown = Nothing \/ Places = DOMAIN shown
    /\ Persisted[class] \cup DOMAIN Loaded[class] \cup Range(Loaded[class]) \subseteq Fields

\* No event of theirs is handled, or not with their own delta: battle_fatigue sends
\* the scale, jedi_state the experimentation points, the experience and the waypoints
\* go to a view without baseline, invite_sender_id with its parts exchanged; the
\* baseline has empty quests; cash_credits is never stored.
Unheard == {"battle_fatigue", "combat_level", "mood_id", "scene_id", "jedi_state", "experience",
            "waypoints", "force_sensitive_quests", "completed_force_sensitive_quests", "cash_credits"}

\* The changes of a list are not sent twice for one event, or the client would apply
\* them twice, but for the classes whose handlers several builders register.
ListChangesOnce == repeated \subseteq {"defenders", "component_customization"}

\* The invitation's parts are exchanged, the quests are numbers where the baseline
\* has lists, and the Jedi state's delta is put, and filled, wrongly.
Misplaced == {<<"Creature", <<6, 7>>>>, <<"Player", <<8, 4>>>>, <<"Player", <<8, 5>>>>,
              <<"Player", <<9, 17>>>>}

\* A delta lands on the place its field has in the baseline, with the same kind of
\* content and items of the same form, except on those places.
PlacesKeepTheirField ==
    shown # Nothing =>
        \A p \in Places : <<class, p>> \notin Misplaced =>
            /\ shown[p].field = Layout(p).field /\ shown[p].kind = Layout(p).kind
            /\ shown[p].items = ItemsIn("baseline", Layout(p).field)

\* Deltas land where the baselines put their fields, and once every event has been
\* handled the client shows what each setter was last given, for every field but
\* those: setter, event, handler, delta and baseline agree (Creature::Set...,
\* CreatureMessageBuilder's Build...Delta and BuildBaseline..., the two Serialize of
\* each item, and the other classes').
SettledFieldsAgree ==
    /\ PlacesKeepTheirField /\ ListChangesOnce
    /\ aware /\ queue = <<>> =>
        \A p \in Places : Layout(p).field \notin Unheard \cup {"-"} =>
            shown[p].value = written[Layout(p).field]

\* Never written to the row, or read from another place than they were written to.
Forgotten == {"container", "orientation",
    "component_customization", "defenders",
    "cash_credits", "stat_base", "skills", "stat_encumberance", "skill_mods",
    "mood_animation", "invite_sender_id", "target_id", "mission_critical_objects",
    "equipment", "stationary", "pvp_status",
    "status_flags", "profile_flags", "born_date", "experience", "waypoints", "force_power",
    "force_sensitive_quests", "completed_force_sensitive_quests", "experimentation_points",
    "draft_schematics", "gender"}
    \cup IF class = "Intangible" THEN Fields ELSE {}

\* After a restart an object has the values it had when its client last left, for
\* every field but those, an Intangible's all among them (CreatureFactory's
\* PersistObject and CreateObjectFromStorage, and the other classes').
SurvivesRestart ==
    [][restarted' # restarted => \A f \in Fields \ Forgotten : value'[f] = saved[f]]_vars
=============================================================================
