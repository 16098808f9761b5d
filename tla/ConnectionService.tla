--------------------------- MODULE ConnectionService ---------------------------
(***************************************************************************)
(* Who plays whom: the session map of the connection service, the login of *)
(* a client (HandleClientIdMsg_), Session::Close with RemoveSession, the   *)
(* rows of player_session and the controllers of the simulation service.   *)
(*                                                                         *)
(* Messages are handlers of one io_service, run in order by a pool of      *)
(* threads; a session's strand runs one of its handlers at a time.  The    *)
(* pool has hardware_concurrency() - 1 threads, so it may well be one.     *)
(*                                                                         *)
(* A session that leaves changes nothing in the simulation: RemoveSession  *)
(* looks for the player object in ObjectManager's object_map_, which only  *)
(* holds what LoadObjectById was asked for, the creature and never what it *)
(* contains, so OnPlayerExit gets no player and sets no timer.             *)
(***************************************************************************)
EXTENDS Integers, Sequences, FiniteSets

CONSTANTS
    Session,        \* clients, each with one session
    Player,         \* player accounts, each with one character
    PlayerOf,       \* the player each client logs in as
    Threads,        \* threads that run the io_service
    Leftover,       \* what the uninitialised player_id_ of a session may hold
    NoPlayer, NoSession

ASSUME ConnectionAssumption ==
    /\ PlayerOf \in [Session -> Player]
    /\ Threads \in Nat \ {0}
    /\ Leftover \subseteq Player /\ NoPlayer \notin Player
    /\ NoSession \notin Session

VARIABLES
    phase,              \* what each client has sent so far
    posted,             \* the io_service's handlers for the clients' messages
    session_map,        \* session_map_
    connected,          \* connected_ of each session
    player_id,          \* player_id_ of each session
    place, victim,      \* each strand: where its handler is, whom it closes
    player_session,     \* the table's rows, each named by the session it is for
    controlled,         \* controlled_objects_: each character's controller
    client,             \* client_ of each controller, named by who made it
    controller          \* controller_ of each session

\* History, read by the properties only.
VARIABLE joined         \* sessions that have been Connected

serviceVars == <<phase, posted, session_map, connected, player_id, place, victim,
                 player_session, controlled, client, controller, joined>>

Phase == {"new", "open", "asked", "selected", "left"}
Message == {"ClientIdMsg", "SelectCharacter", "Disconnect"}
Place == {"idle", "close", "disconnect", "remove", "end", "create", "connect",
          "control", "insert"}

ServiceTypeOK ==
    /\ phase \in [Session -> Phase]
    /\ posted \in Seq([session : Session, message : Message])
    /\ session_map \subseteq Session
    /\ connected \in [Session -> BOOLEAN]
    /\ player_id \in [Session -> Player \cup {NoPlayer}]
    /\ place \in [Session -> Place]
    /\ victim \in [Session -> Session \cup {NoSession}]
    /\ player_session \subseteq Session
    /\ controlled \in [Player -> Session \cup {NoSession}]
    /\ client \in [Session -> Session \cup {NoSession}]
    /\ controller \in [Session -> Session \cup {NoSession}]
    /\ joined \subseteq Session
    /\ \A s \in Session :
          victim[s] # NoSession <=> place[s] \in {"close", "disconnect", "remove", "end"}

Init ==
    /\ phase = [s \in Session |-> "new"]
    /\ posted = <<>>
    /\ session_map = {}
    /\ connected = [s \in Session |-> FALSE]
    /\ player_id = [s \in Session |-> NoPlayer]
    /\ place = [s \in Session |-> "idle"]
    /\ victim = [s \in Session |-> NoSession]
    /\ player_session = {}
    /\ controlled = [p \in Player |-> NoSession]
    /\ client = [s \in Session |-> NoSession]
    /\ controller = [s \in Session |-> NoSession]
    /\ joined = {}

-----------------------------------------------------------------------------
(* The clients. *)

\* CreateSession, and the handshake that connects the session.  The constructor
\* leaves player_id_ as it finds it.
CreateSession(s) ==
    /\ phase[s] = "new"
    /\ phase' = [phase EXCEPT ![s] = "open"]
    /\ session_map' = session_map \cup {s}
    /\ connected' = [connected EXCEPT ![s] = TRUE]
    /\ \E p \in Leftover \cup {NoPlayer} : player_id' = [player_id EXCEPT ![s] = p]
    /\ UNCHANGED <<posted, place, victim, player_session, controlled, client,
                   controller, joined>>

\* A client logs in, chooses its character once it is let in, and leaves.
MayFollow == {<<"open", "ClientIdMsg", "asked">>,
              <<"asked", "SelectCharacter", "selected">>,
              <<"open", "Disconnect", "left">>, <<"asked", "Disconnect", "left">>,
              <<"selected", "Disconnect", "left">>}

\* GetSession finds the session, which posts the message to its strand.
Arrive(s, message) ==
    /\ s \in session_map
    /\ message = "SelectCharacter" => s \in joined
    /\ \E step \in MayFollow :
          /\ step[1] = phase[s] /\ step[2] = message
          /\ phase' = [phase EXCEPT ![s] = step[3]]
    /\ posted' = Append(posted, [session |-> s, message |-> message])
    /\ UNCHANGED <<session_map, connected, player_id, place, victim, player_session,
                   controlled, client, controller, joined>>

-----------------------------------------------------------------------------
(* The io_service. *)

Busy == {s \in Session : place[s] # "idle"}

\* A free thread takes the first handler whose strand is free.
Take(i) ==
    /\ Cardinality(Busy) < Threads
    /\ posted[i].session \notin Busy
    /\ \A j \in 1 .. i - 1 : posted[j].session \in Busy
    /\ posted' = SubSeq(posted, 1, i - 1) \o SubSeq(posted, i + 1, Len(posted))

Goto(s, p) == place' = [place EXCEPT ![s] = p]

-----------------------------------------------------------------------------
(* HandleClientIdMsg_. *)

\* FindConnectionByPlayerId: the first of the sessions with that player_id_.
Existing(p) == {u \in session_map : player_id[u] = p}

\* The key names no account, or the account no player.
RefuseClientIdMsg(i) ==
    /\ Take(i) /\ posted[i].message = "ClientIdMsg"
    /\ UNCHANGED <<phase, session_map, connected, player_id, place, victim,
                   player_session, controlled, client, controller, joined>>

\* The mutant does not look for an existing session.
HandleClientIdMsg_NoSearch(i) ==
    LET s == posted[i].session IN
    /\ Take(i) /\ posted[i].message = "ClientIdMsg"
    /\ Goto(s, "create") /\ UNCHANGED victim
    /\ UNCHANGED <<phase, session_map, connected, player_id, player_session, controlled,
                   client, controller, joined>>
HandleClientIdMsg(i) ==
    LET s == posted[i].session IN
    /\ Take(i) /\ posted[i].message = "ClientIdMsg"
    /\ IF Existing(PlayerOf[s]) = {}
       THEN Goto(s, "create") /\ UNCHANGED victim
       ELSE \E u \in Existing(PlayerOf[s]) :
               Goto(s, "close") /\ victim' = [victim EXCEPT ![s] = u]
    /\ UNCHANGED <<phase, session_map, connected, player_id, player_session, controlled,
                   client, controller, joined>>

CreateGameSession(s) ==
    /\ place[s] = "create"
    /\ player_session' = player_session \cup {s}
    /\ Goto(s, "connect")
    /\ UNCHANGED <<phase, posted, session_map, connected, player_id, victim, controlled,
                   client, controller, joined>>

\* Connect, and the reply that lets the client go on.
Connect(s) ==
    /\ place[s] = "connect"
    /\ player_id' = [player_id EXCEPT ![s] = PlayerOf[s]]
    /\ joined' = joined \cup {s}
    /\ Goto(s, "idle")
    /\ UNCHANGED <<phase, posted, session_map, connected, victim, player_session,
                   controlled, client, controller>>

-----------------------------------------------------------------------------
(* Session::Close, called by the strand of s for the session victim[s]. *)

HandleDisconnect(i) ==
    LET s == posted[i].session IN
    /\ Take(i) /\ posted[i].message = "Disconnect"
    /\ Goto(s, "close") /\ victim' = [victim EXCEPT ![s] = s]
    /\ UNCHANGED <<phase, session_map, connected, player_id, player_session, controlled,
                   client, controller, joined>>

\* After Close the login goes on, the handler of Disconnect ends.
AfterClose(s) == /\ Goto(s, IF victim[s] = s THEN "idle" ELSE "create")
                 /\ victim' = [victim EXCEPT ![s] = NoSession]

\* The test of connected_, and its reset: nothing keeps two threads apart here.
Close(s) ==
    /\ place[s] = "close"
    /\ IF connected[victim[s]]
       THEN Goto(s, "disconnect") /\ UNCHANGED victim
       ELSE AfterClose(s)
    /\ UNCHANGED <<phase, posted, session_map, connected, player_id, player_session,
                   controlled, client, controller, joined>>
Disconnected(s) ==
    /\ place[s] = "disconnect"
    /\ connected' = [connected EXCEPT ![victim[s]] = FALSE]
    /\ Goto(s, "remove")
    /\ UNCHANGED <<phase, posted, session_map, player_id, victim, player_session,
                   controlled, client, controller, joined>>

\* RemoveSession.  The mutant forgets the map.
RemoveSession_Stays(s) ==
    /\ place[s] = "remove"
    /\ Goto(s, "end")
    /\ UNCHANGED <<phase, posted, session_map, connected, player_id, victim,
                   player_session, controlled, client, controller, joined>>
RemoveSession(s) ==
    /\ place[s] = "remove"
    /\ session_map' = session_map \ {victim[s]}
    /\ Goto(s, "end")
    /\ UNCHANGED <<phase, posted, connected, player_id, victim, player_session,
                   controlled, client, controller, joined>>

\* EndGameSession deletes the rows of the player.  The mutant does nothing.
EndGameSession_Skipped(s) ==
    /\ place[s] = "end"
    /\ AfterClose(s)
    /\ UNCHANGED <<phase, posted, session_map, connected, player_id, player_session,
                   controlled, client, controller, joined>>
EndGameSession(s) ==
    /\ place[s] = "end"
    /\ player_session' = {u \in player_session : PlayerOf[u] # player_id[victim[s]]}
    /\ AfterClose(s)
    /\ UNCHANGED <<phase, posted, session_map, connected, player_id, controlled, client,
                   controller, joined>>

-----------------------------------------------------------------------------
(* HandleSelectCharacter: the character is found or loaded, then controlled. *)

HandleSelectCharacter(i) ==
    /\ Take(i) /\ posted[i].message = "SelectCharacter"
    /\ Goto(posted[i].session, "control")
    /\ UNCHANGED <<phase, session_map, connected, player_id, victim, player_session,
                   controlled, client, controller, joined>>

\* StartControllingObject: an existing controller is given the client, or a new
\* one is inserted.  The mutant leaves an existing controller's client.
StartControllingObject_KeepsClient(s) ==
    LET k == controlled[PlayerOf[s]] IN
    /\ place[s] = "control"
    /\ IF k # NoSession
       THEN /\ controller' = [controller EXCEPT ![s] = k]
            /\ Goto(s, "idle")
       ELSE Goto(s, "insert") /\ UNCHANGED controller
    /\ UNCHANGED <<phase, posted, session_map, connected, player_id, victim,
                   player_session, controlled, client, joined>>
StartControllingObject(s) ==
    LET k == controlled[PlayerOf[s]] IN
    /\ place[s] = "control"
    /\ IF k # NoSession
       THEN /\ client' = [client EXCEPT ![k] = s]
            /\ controller' = [controller EXCEPT ![s] = k]
            /\ Goto(s, "idle")
       ELSE Goto(s, "insert") /\ UNCHANGED <<client, controller>>
    /\ UNCHANGED <<phase, posted, session_map, connected, player_id, victim,
                   player_session, controlled, joined>>

\* insert keeps an entry that another thread has put there meanwhile.
InsertController(s) ==
    /\ place[s] = "insert"
    /\ controlled' = [controlled EXCEPT ![PlayerOf[s]] = IF @ = NoSession THEN s ELSE @]
    /\ client' = [client EXCEPT ![s] = s]
    /\ controller' = [controller EXCEPT ![s] = s]
    /\ Goto(s, "idle")
    /\ UNCHANGED <<phase, posted, session_map, connected, player_id, victim,
                   player_session, joined>>

-----------------------------------------------------------------------------
Continue(s) ==
    \/ CreateGameSession(s) \/ Connect(s)
    \/ Close(s) \/ Disconnected(s) \/ RemoveSession(s) \/ EndGameSession(s)
    \/ StartControllingObject(s) \/ InsertController(s)

Handle == \E i \in DOMAIN posted :
    \/ RefuseClientIdMsg(i) \/ HandleClientIdMsg(i)
    \/ HandleDisconnect(i) \/ HandleSelectCharacter(i)

Next ==
    \/ Handle
    \/ \E s \in Session : \/ Continue(s) \/ CreateSession(s)
                          \/ \E message \in Message : Arrive(s, message)

Spec == Init /\ [][Next]_serviceVars

\* The io_service's threads keep running handlers.
Fairness ==
    /\ WF_serviceVars(Handle)
    /\ \A s \in Session : WF_serviceVars(Continue(s))

FairSpec == Spec /\ Fairness

-----------------------------------------------------------------------------
(* Properties. *)

\* A closed session is in the map only while some thread is taking it out: the
\* map never keeps a session nobody will remove (Close, RemoveSession).
ClosedIsRemoved ==
    \A s \in session_map : connected[s] \/
        \E t \in Session : victim[t] = s /\ place[t] \in {"disconnect", "remove"}

\* With one thread, a player is never played by two connected clients: the
\* second login closes the first (HandleClientIdMsg_).
OneSessionPerPlayer ==
    \A s, u \in joined :
        connected[s] /\ connected[u] /\ PlayerOf[s] = PlayerOf[u] => s = u

\* With one thread, between two handlers: player_session has a row for exactly
\* the players with a connected client (CreateGameSession, EndGameSession).
RowsMatchSessions ==
    Busy = {} =>
        {PlayerOf[s] : s \in player_session} =
            {PlayerOf[s] : s \in {u \in joined : connected[u]}}

\* A connected client that has chosen its character gets what is sent to the
\* character: its controller is the registered one and has this client
\* (StartControllingObject after a relog).
PlayingClientIsServed ==
    \A s \in Session :
        connected[s] /\ controller[s] # NoSession =>
            controlled[PlayerOf[s]] = controller[s] /\ client[controller[s]] = s

\* "destroy the object, unless logged back in": when the client that controls a
\* character has left, another takes over or the character is removed.
Abandoned(p) == controlled[p] # NoSession /\ ~connected[client[controlled[p]]]
LeavingPlayerIsRemoved ==
    \A p \in Player : Abandoned(p) ~> ~Abandoned(p)
=============================================================================
