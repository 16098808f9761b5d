SPECIFICATION FairSpec
CONSTANTS
    Creatures = {"a", "b", "c"}
    MaxHealth = 2
    MaxCommands = 6
INVARIANTS
    
    DefaultAttacksADefender
    FallenAwaitRecovery
PROPERTIES
    OnlyLateRecoveriesRaiseTheDead
    IncapacitatedRecover
CHECK_DEADLOCK FALSE
