SPECIFICATION LoginSpec
CONSTANTS
    Process = {"a", "b"}
    Client = {"c"}
    Home <- MCHome
    Name <- MCName
    Fleets <- MCFleets
    MaxStarts = 2
INVARIANTS
    OnlineIsEarned
    RowsFollowProcesses
CHECK_DEADLOCK FALSE
PROPERTIES
    StatusSettles
