-------------------------------- MODULE Scenes --------------------------------
(***************************************************************************)
(* Who is shown what (pub14_core/simulation: SimulationService, Scene,     *)
(* SceneManager, MovementManager; swganh/object: containment, awareness    *)
(* and observers of Object).  A client selects a character: the character  *)
(* gets a controller or its controller the client, and it and what it      *)
(* contains are added to its scene, where each object is created at the    *)
(* clients of the others.  Clients move, leave and come back.              *)
(*                                                                         *)
(* Handlers of different clients run on different threads, so their visits *)
(* of the scene's objects interleave, and a move may fall between reading  *)
(* an object's position for SceneCreateObjectByCrc and sending it.         *)
(* Objects are ids: a character's contents have greater ids than it, as    *)
(* the rows of sp_CharacterCreate have.  The index of positions is         *)
(* SpatialIndex's subject, the fields of objects ObjectFields'.            *)
(***************************************************************************)
EXTENDS Naturals, Sequences, FiniteSets, Functions, FiniteSetsExt

CONSTANTS
    Character,      \* ids of the characters in the database
    Contents,       \* what each contains
    Label,          \* the scenes' labels
    Started,        \* the scenes that were started
    SceneOf,        \* each object's scene id, which nothing changes once it is loaded
    Client,         \* the clients' connections, each used once
    NoClient,
    Position,       \* where a client may move
    MaxCounter      \* bounds the counters of movements

Object == Character \cup UNION Range(Contents)
Container == [x \in Object |-> {o \in Character : x \in Contents[o]}]

ASSUME ScenesAssumption ==
    /\ DOMAIN Contents = Character /\ Object \subseteq Nat \ {0} /\ NoClient \notin Client
    /\ Started \subseteq Label /\ SceneOf \in [Character -> Label]
    /\ \A o \in Character : \A x \in Contents[o] : x > o /\ x \notin Character
    /\ \A o, other \in Character : o # other => Contents[o] \cap Contents[other] = {}
    /\ MaxCounter \in Nat /\ Position # {}

VARIABLES
    objects,        \* object_map_ of every scene
    remote,         \* the client of each character's controller; NoClient without one
    controls,       \* the character each connection has selected, 0 for none
    online,         \* the connections that are open
    observers,      \* observers_ of every object, as the characters whose controllers they are
    position, counter,  \* the objects' positions and counter_map_
    adding,         \* the AddObject each connection's thread is in, Idle for none
    screen          \* what each client shows: object -> where, and how it came there

scenesVars == <<objects, remote, controls, online, observers, position, counter, adding,
                screen>>

-----------------------------------------------------------------------------
(* Screens *)

HasController(x) == x \in Character /\ remote[x] # NoClient
Shown(c) == DOMAIN screen[c]
Nothing == [x \in {} |-> 0]

\* SceneCreateObjectByCrc and UpdateContainmentMessage, as a client takes them.  The
\* position may have been read before the object's last movement was sent.
Create(shown, made) ==
    [x \in DOMAIN shown \cup {made.what} |->
        IF x # made.what THEN shown[x]
        ELSE [where |-> made.where, late |-> made.where # position[x],
              held |-> Container[x] \subseteq DOMAIN shown]]

\* NotifyObservers with an object's new position: a client that does not show the
\* object has nothing to move.
Update(x, p) ==
    [c \in Client |->
        IF c \in online /\ x \in Shown(c) /\ \E o \in observers[x] : remote[o] = c
        THEN [screen[c] EXCEPT ![x] = [@ EXCEPT !.where = p, !.late = FALSE]] ELSE screen[c]]

-----------------------------------------------------------------------------
(* Scene::AddObject: the object is inserted, then the stored objects are visited in
   the order of their ids, then what it contains is added. *)

Idle == [now |-> 0]
Adding(c) == adding[c].now # 0
Scene(c) == SceneOf[controls[c]]

AddObject(x, contained) == [now |-> x, left |-> contained, visited |-> 0, making |-> <<>>]
InsertObject(x, s) == [objects EXCEPT ![s] = @ \cup {x}]

Unvisited(c) == {x \in objects[Scene(c)] : x > adding[c].visited}

\* stored->AddAwareObject(object) and object->AddAwareObject(stored): each is
\* subscribed to the other's controller and read to be created at its client.
AddAwareObject(x, other) ==
    IF HasController(other) THEN <<[what |-> x, at |-> other, where |-> position[x]]>> ELSE <<>>

\* The mutant makes only the stored object aware.
Visit_OneSided(c) ==
    LET object == adding[c].now
        stored == Min(Unvisited(c)) IN
    /\ Adding(c) /\ adding[c].making = <<>> /\ Unvisited(c) # {}
    /\ observers' = [x \in Object |-> observers[x]
            \cup (IF x = stored /\ HasController(object) THEN {object} ELSE {})]
    /\ adding' = [adding EXCEPT ![c] =
            [@ EXCEPT !.making = AddAwareObject(stored, object), !.visited = stored]]
    /\ UNCHANGED <<objects, remote, controls, online, position, counter, screen>>

Visit(c) ==
    LET object == adding[c].now
        stored == Min(Unvisited(c)) IN
    /\ Adding(c) /\ adding[c].making = <<>> /\ Unvisited(c) # {}
    /\ observers' = [x \in Object |-> observers[x]
            \cup (IF x = stored /\ HasController(object) THEN {object} ELSE {})
            \cup (IF x = object /\ HasController(stored) THEN {stored} ELSE {})]
    /\ adding' = [adding EXCEPT ![c] =
            [@ EXCEPT !.making = AddAwareObject(stored, object) \o AddAwareObject(object, stored),
                      !.visited = stored]]
    /\ UNCHANGED <<objects, remote, controls, online, position, counter, screen>>

\* One object is created at the client its observer's controller has by now.
MakeClean(c) ==
    LET made == Head(adding[c].making)
        to == remote[made.at] IN
    /\ Adding(c) /\ adding[c].making # <<>>
    /\ screen' = IF to \in online THEN [screen EXCEPT ![to] = Create(@, made)] ELSE screen
    /\ adding' = [adding EXCEPT ![c] = [@ EXCEPT !.making = Tail(adding[c].making)]]
    /\ UNCHANGED <<objects, remote, controls, online, observers, position, counter>>

\* All are visited: the next of what the object contains is added, if there is one.
AddContained(c) ==
    LET contained == adding[c].left
        next == Min(contained) IN
    /\ Adding(c) /\ adding[c].making = <<>> /\ Unvisited(c) = {}
    /\ IF contained = {}
       THEN /\ adding' = [adding EXCEPT ![c] = Idle]
            /\ UNCHANGED objects
       ELSE /\ adding' = [adding EXCEPT ![c] = AddObject(next, contained \ {next})]
            /\ objects' = InsertObject(next, Scene(c))
    /\ UNCHANGED <<remote, controls, online, observers, position, counter, screen>>

-----------------------------------------------------------------------------
(* The handlers. *)

\* A connection that has not selected yet selects a character nobody plays: the
\* connection service has closed the character's other connection.  A controller of
\* an earlier connection gets the new client; a new one is its object's observer.
\* Without the scene the handler throws, with the character already controlled.
GiveController(c, o) ==
    /\ remote' = [remote EXCEPT ![o] = c]
    /\ controls' = [controls EXCEPT ![c] = o]
    /\ observers' = IF HasController(o) THEN observers ELSE [observers EXCEPT ![o] = @ \cup {o}]

SelectCharacter(c, o) ==
    /\ c \in online /\ controls[c] = 0
    /\ \A other \in online : controls[other] # o
    /\ GiveController(c, o)
    /\ IF SceneOf[o] \in Started
       THEN /\ adding' = [adding EXCEPT ![c] = AddObject(o, Contents[o])]
            /\ objects' = InsertObject(o, SceneOf[o])
       ELSE UNCHANGED <<adding, objects>>
    /\ UNCHANGED <<online, position, counter, screen>>

\* The client answers CmdStartScene: it is told its place with the next counter.
HandleCmdSceneReady(c) ==
    /\ c \in online /\ controls[c] # 0 /\ SceneOf[controls[c]] \in Started
    /\ counter[controls[c]] < MaxCounter
    /\ counter' = [counter EXCEPT ![controls[c]] = @ + 1]
    /\ screen' = IF controls[c] \notin Shown(c) THEN screen
                 ELSE [screen EXCEPT ![c][controls[c]] =
                          [@ EXCEPT !.where = position[controls[c]], !.late = FALSE]]
    /\ UNCHANGED <<objects, remote, controls, online, observers, position, adding>>

\* A movement with an older counter changes nothing; the update sent for one that is
\* taken has the next counter.
HandleDataTransform(c, p, n) ==
    LET o == controls[c] IN
    /\ c \in online /\ o # 0
    /\ n > counter[o] /\ n < MaxCounter
    /\ counter' = [counter EXCEPT ![o] = n + 1]
    /\ position' = [position EXCEPT ![o] = p]
    /\ screen' = Update(o, p)
    /\ UNCHANGED <<objects, remote, controls, online, observers, adding>>

\* RemoveSession: the object stays, and so does its controller.
Leave(c) ==
    /\ c \in online
    /\ online' = online \ {c}
    /\ screen' = [screen EXCEPT ![c] = Nothing]
    /\ UNCHANGED <<objects, remote, controls, observers, position, counter, adding>>

ScenesInit ==
    /\ objects = [s \in Label |-> {}]
    /\ remote = [o \in Character |-> NoClient] /\ controls = [c \in Client |-> 0]
    /\ online = Client
    /\ observers = [x \in Object |-> {}]
    /\ position = [x \in Object |-> CHOOSE p \in Position : TRUE]
    /\ counter = [o \in Character |-> 0]
    /\ adding = [c \in Client |-> Idle]
    /\ screen = [c \in Client |-> Nothing]

ScenesNext ==
    \E c \in Client :
        \/ Visit(c) \/ MakeClean(c) \/ AddContained(c)
        \/ HandleCmdSceneReady(c) \/ Leave(c)
        \/ \E o \in Character : SelectCharacter(c, o)
        \/ \E p \in Position, n \in 1 .. MaxCounter : HandleDataTransform(c, p, n)

ScenesSpec == ScenesInit /\ [][ScenesNext]_scenesVars

-----------------------------------------------------------------------------
(* Properties *)

(***************************************************************************)
(* Once no object is being added, a client shows the objects of its        *)
(* character's scene and no others, the character's contents among them;   *)
(* each came after what contains it, and is shown where it is, but for the *)
(* one whose movement was sent between the reading and the sending of its  *)
(* creation (Scene::AddObject under interleaved handlers,                  *)
(* HandleSelectCharacter, NotifyObservers).                                *)
(***************************************************************************)
ClientsShowTheirScene ==
    (\A c \in Client : ~Adding(c)) =>
        \A c \in online : controls[c] # 0 /\ SceneOf[controls[c]] \in Started =>
            /\ Shown(c) = objects[SceneOf[controls[c]]]
            /\ {controls[c]} \cup Contents[controls[c]] \subseteq Shown(c)
            /\ \A x \in Shown(c) :
                  screen[c][x].held /\ (screen[c][x].late \/ screen[c][x].where = position[x])

(***************************************************************************)
(* What a client shows is where it is.  Not so: an update may be sent      *)
(* before the creation that was read earlier (Object::MakeClean).          *)
(***************************************************************************)
NeverLate == \A c \in online : \A x \in Shown(c) : screen[c][x].where = position[x]
=============================================================================
