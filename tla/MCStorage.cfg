SPECIFICATION StorageSpec
CONSTANTS
    Classes = {"Tangible", "Intangible", "Creature", "Player"}
    MaxWrites = 2
    MaxJoins = 1
    AccountClient = {a1, a2}
    User = {u1, u2}
    CharacterName <- MCName
    Refusal <- MCRefusal
    Connection = {k1, k2}
    NoOne = NoOne
    MaxCharacters = 2
    MaxCrashes = 1
INVARIANTS
    
    CharactersAreKept
PROPERTIES
    SurvivesRestart
SYMMETRY Symmetry
CHECK_DEADLOCK FALSE
