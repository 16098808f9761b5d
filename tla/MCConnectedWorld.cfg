SPECIFICATION WorldSpec
CONSTANTS
    c1 = c1
    c2 = c2
    c3 = c3
    p1 = p1
    p2 = p2
    Session = {c1, c2, c3}
    Player = {p1, p2}
    PlayerOf <- TwoPlayers
    Threads = 1
    Leftover = {}
    NoPlayer = NoPlayer
    NoSession = NoSession
    Character = {10, 20}
    Contents <- MCContents
    Label = {"corellia", "naboo"}
    Started = {"corellia", "naboo"}
    SceneOf <- MCSceneOf
    Client = {d1, d2, d3}
    NoClient = NoClient
    Position = {1, 2}
    MaxCounter = 2
INVARIANT ClosedIsRemoved
 
 
 
INVARIANT ClientsShowTheirScene
SYMMETRY Symmetry
CHECK_DEADLOCK FALSE
