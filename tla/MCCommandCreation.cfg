SPECIFICATION CommandsSpec
CONSTANTS
    r1 = r1
    r2 = r2
    r3 = r3
    attack = attack
    stand = stand
    defaultattack = defaultattack
    Thread = {t1, t2}
    Request = {r1, r2, r3}
    Command = {attack, stand, defaultattack}
    CommandOf <- CombatRequests
    DefaultAttack = defaultattack
    Combat = {attack, defaultattack}
    Known = {attack, stand, defaultattack}
    Creator = {k1, k2}
    FirstCreator = k1
    Nobody = Nobody
    Asked = {"special", "glance"}
    Row <- MCRow
    State = {"COMBAT"}
INVARIANT CreatorInUseStays
INVARIANT LocksAreAccountedFor
INVARIANT AnswersAreTrue
PROPERTY OnlyTheCycleBlocks
CHECK_DEADLOCK FALSE
