SPECIFICATION MessagesSpec
CONSTANTS
    SizeT = 8
    MaxSize = 2
    KeyCount = 3
    ValueCount = 2
    MaxChanges = 3
    MaxText = 1
    MaxPackages = 2
    Bases <- MCBases
    Stfs <- MCStfs
    Filled <- MCFilled
    Types = {"TU", "TT", "TO"}
    Shade = {0, 255}
INVARIANTS
    SurvivesTheWire
    
    ProseIsWhole
CONSTRAINT StillOrderly
