SPECIFICATION FairSpec
CONSTANTS
    Threads = {t1, t2}
    Clients = {c1, c2}
    Cells <- MCCells
    Fields <- MCFields
    FieldOf <- MCFieldOf
    ViewOrder <- MCViewOrder
    ViewOf <- MCViewOf
    Names = {anakin}
    MaxCalls = 2
    MaxAware = 2
INVARIANTS
    SettledViewsAgree
    FriendsAgreeOnceEach
PROPERTIES
    NeverShowsOlder
    WritesArrive
CHECK_DEADLOCK FALSE
