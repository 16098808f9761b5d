------------------------- MODULE ConnectedWorldProofs -------------------------
(***************************************************************************)
(* The connection service, for any number of clients, players and threads: *)
(* its types, and that Session::Close never leaves a closed session in the *)
(* map.  With one thread, for any number of clients and players: a player  *)
(* has one connected client, player_session a row for each player that has *)
(* one, and a client that has chosen its character is served by it.  With  *)
(* more threads two logins of a player can pass each other's search, so    *)
(* that none of these holds.                                               *)
(*                                                                         *)
(* The scenes, for any characters, contents and clients: once no object is *)
(* being added, every client shows its scene, however the visits of the    *)
(* handlers, movements, departures and returns interleave.                 *)
(***************************************************************************)
EXTENDS ConnectionService, Scenes, SequenceTheorems, FiniteSetTheorems,
        WellFoundedInduction, TLAPS

Handler == [session : Session, message : Message]

\* A thread takes one of the posted handlers, which leaves handlers.
LEMMA TakeTyped ==
    ASSUME ServiceTypeOK, NEW i \in DOMAIN posted, Take(i)
    PROVE  posted' \in Seq(Handler) /\ posted[i].session \in Session
           /\ place[posted[i].session] = "idle"
<1>1. posted \in Seq(Handler) BY DEF ServiceTypeOK, Handler
<1>2. i \in 1 .. Len(posted) BY <1>1
<1>3. posted[i] \in Handler BY <1>1, <1>2
<1>4. SubSeq(posted, 1, i - 1) \in Seq(Handler)
  BY <1>1, <1>2, SubSeqProperties
<1>5. SubSeq(posted, i + 1, Len(posted)) \in Seq(Handler)
  <2>1. Len(posted) \in Nat BY <1>1, LenProperties
  <2>. QED BY <1>1, <1>2, <2>1, SubSeqProperties
<1>6. posted' \in Seq(Handler)
  BY <1>4, <1>5, ConcatProperties DEF Take
<1>. QED BY <1>3, <1>6 DEF Take, Busy, Handler

\* What the map promises, with the types it needs.
ServiceInv == ServiceTypeOK /\ ClosedIsRemoved

LEMMA ServiceInitial == Init => ServiceInv
<1>. SUFFICES ASSUME Init PROVE ServiceInv OBVIOUS
<1>1. <<>> \in Seq(Handler) OBVIOUS
<1>. QED BY <1>1, ConnectionAssumption
          DEF Init, ServiceInv, ServiceTypeOK, ClosedIsRemoved, Phase, Place, Handler

\* A step of the clients: a session is made, a message arrives.
LEMMA ClientStep ==
    ASSUME ServiceInv, NEW s \in Session,
           CreateSession(s) \/ \E message \in Message : Arrive(s, message)
    PROVE  ServiceInv'
<1>. USE DEF ServiceInv
<1>1. CASE CreateSession(s)
  <2>. USE <1>1 DEF CreateSession
  <2>1. player_id' \in [Session -> Player \cup {NoPlayer}]
    BY ConnectionAssumption DEF ServiceTypeOK
  <2>2. ServiceTypeOK' BY <2>1 DEF ServiceTypeOK, Phase
  <2>3. ClosedIsRemoved' BY DEF ServiceTypeOK, ClosedIsRemoved
  <2>. QED BY <2>2, <2>3
<1>2. ASSUME NEW message \in Message, Arrive(s, message) PROVE ServiceInv'
  <2>. USE <1>2 DEF Arrive
  <2>1. posted \in Seq(Handler) BY DEF ServiceTypeOK, Handler
  <2>2. [session |-> s, message |-> message] \in Handler BY DEF Handler
  <2>3. posted' \in Seq(Handler) BY <2>1, <2>2, AppendProperties
  <2>4. phase' \in [Session -> Phase] BY DEF ServiceTypeOK, MayFollow, Phase
  <2>5. ServiceTypeOK' BY <2>3, <2>4 DEF ServiceTypeOK, Handler
  <2>6. ClosedIsRemoved' BY DEF ClosedIsRemoved
  <2>. QED BY <2>5, <2>6
<1>. QED BY <1>1, <1>2

\* A thread takes a handler.
LEMMA HandleStep == ASSUME ServiceInv, Handle PROVE ServiceInv'
<1>. USE DEF ServiceInv
<1>1. PICK i \in DOMAIN posted : \/ RefuseClientIdMsg(i) \/ HandleClientIdMsg(i)
                                 \/ HandleDisconnect(i) \/ HandleSelectCharacter(i)
  BY DEF Handle
<1>. DEFINE s == posted[i].session
<1>2. Take(i)
  BY <1>1 DEF RefuseClientIdMsg, HandleClientIdMsg, HandleDisconnect,
              HandleSelectCharacter
<1>3. posted' \in Seq(Handler) /\ s \in Session /\ place[s] = "idle"
  BY <1>2, TakeTyped
<1>4. victim[s] = NoSession BY <1>3 DEF ServiceTypeOK
<1>. HIDE DEF s
<1>5. CASE RefuseClientIdMsg(i)
  <2>1. ServiceTypeOK' BY <1>3, <1>5 DEF ServiceTypeOK, RefuseClientIdMsg, Handler
  <2>2. ClosedIsRemoved' BY <1>5 DEF ClosedIsRemoved, RefuseClientIdMsg
  <2>. QED BY <2>1, <2>2
<1>6. CASE HandleClientIdMsg(i)
  <2>1. UNCHANGED <<phase, session_map, connected, player_id, player_session,
                    controlled, client, controller, joined>>
    BY <1>6 DEF HandleClientIdMsg
  <2>2. \/ place' = [place EXCEPT ![s] = "create"] /\ victim' = victim
        \/ \E u \in Session : /\ place' = [place EXCEPT ![s] = "close"]
                              /\ victim' = [victim EXCEPT ![s] = u]
    BY <1>6 DEF HandleClientIdMsg, Goto, Existing, ServiceTypeOK, s
  <2>3. ASSUME place' = [place EXCEPT ![s] = "create"], victim' = victim
        PROVE  ServiceTypeOK'
    BY <1>3, <1>4, <2>1, <2>3 DEF ServiceTypeOK, Place, Handler
  <2>4. ASSUME NEW u \in Session, place' = [place EXCEPT ![s] = "close"],
               victim' = [victim EXCEPT ![s] = u]
        PROVE  ServiceTypeOK'
    BY <1>3, <2>1, <2>4, ConnectionAssumption DEF ServiceTypeOK, Place, Handler
  <2>5. ServiceTypeOK' BY <2>2, <2>3, <2>4
  <2>6. ClosedIsRemoved' BY <1>3, <2>1, <2>2 DEF ServiceTypeOK, ClosedIsRemoved
  <2>. QED BY <2>5, <2>6
<1>7. CASE HandleDisconnect(i)
  <2>1. /\ place' = [place EXCEPT ![s] = "close"]
        /\ victim' = [victim EXCEPT ![s] = s]
        /\ UNCHANGED <<phase, session_map, connected, player_id, player_session,
                       controlled, client, controller, joined>>
    BY <1>7 DEF HandleDisconnect, Goto, s
  <2>2. ServiceTypeOK'
    BY <1>3, <2>1, ConnectionAssumption DEF ServiceTypeOK, Place, Handler
  <2>3. ClosedIsRemoved' BY <1>3, <2>1 DEF ServiceTypeOK, ClosedIsRemoved
  <2>. QED BY <2>2, <2>3
<1>8. CASE HandleSelectCharacter(i)
  <2>1. /\ place' = [place EXCEPT ![s] = "control"]
        /\ UNCHANGED <<phase, session_map, connected, player_id, victim,
                       player_session, controlled, client, controller, joined>>
    BY <1>8 DEF HandleSelectCharacter, Goto, s
  <2>2. ServiceTypeOK' BY <1>3, <2>1 DEF ServiceTypeOK, Place, Handler
  <2>3. ClosedIsRemoved' BY <1>3, <2>1 DEF ServiceTypeOK, ClosedIsRemoved
  <2>. QED BY <2>2, <2>3
<1>. QED BY <1>1, <1>5, <1>6, <1>7, <1>8

\* A thread goes on with Session::Close for the session victim[s].
LEMMA CloseStep ==
    ASSUME ServiceInv, NEW s \in Session,
           Close(s) \/ Disconnected(s) \/ RemoveSession(s) \/ EndGameSession(s)
    PROVE  ServiceInv'
<1>. USE DEF ServiceInv, ServiceTypeOK, Goto
<1>1. victim[s] \in Session
  BY DEF Close, Disconnected, RemoveSession, EndGameSession
<1>2. CASE Close(s)
  <2>1. ServiceTypeOK' BY <1>2, ConnectionAssumption DEF Close, AfterClose, Place
  <2>2. ClosedIsRemoved' BY <1>2 DEF Close, AfterClose, ClosedIsRemoved
  <2>. QED BY <2>1, <2>2
<1>3. CASE Disconnected(s)
  <2>1. ServiceTypeOK' BY <1>1, <1>3 DEF Disconnected, Place
  <2>2. ClosedIsRemoved' BY <1>1, <1>3 DEF Disconnected, ClosedIsRemoved
  <2>. QED BY <2>1, <2>2
<1>4. CASE RemoveSession(s)
  <2>1. ServiceTypeOK' BY <1>4 DEF RemoveSession, Place
  <2>2. ClosedIsRemoved' BY <1>4 DEF RemoveSession, ClosedIsRemoved
  <2>. QED BY <2>1, <2>2
<1>5. CASE EndGameSession(s)
  <2>1. ServiceTypeOK'
    BY <1>5, ConnectionAssumption DEF EndGameSession, AfterClose, Place
  <2>2. ClosedIsRemoved' BY <1>5 DEF EndGameSession, AfterClose, ClosedIsRemoved
  <2>. QED BY <2>1, <2>2
<1>. QED BY <1>2, <1>3, <1>4, <1>5

\* A thread goes on with a login or with the choice of a character.
LEMMA LoginStep ==
    ASSUME ServiceInv, NEW s \in Session,
           \/ CreateGameSession(s) \/ Connect(s)
           \/ StartControllingObject(s) \/ InsertController(s)
    PROVE  ServiceInv'
<1>. USE DEF ServiceInv, ServiceTypeOK, Goto
<1>1. CASE CreateGameSession(s)
  <2>1. ServiceTypeOK' BY <1>1 DEF CreateGameSession, Place
  <2>2. ClosedIsRemoved' BY <1>1 DEF CreateGameSession, ClosedIsRemoved
  <2>. QED BY <2>1, <2>2
<1>2. CASE Connect(s)
  <2>1. ServiceTypeOK' BY <1>2, ConnectionAssumption DEF Connect, Place
  <2>2. ClosedIsRemoved' BY <1>2 DEF Connect, ClosedIsRemoved
  <2>. QED BY <2>1, <2>2
<1>3. CASE StartControllingObject(s)
  <2>1. controlled[PlayerOf[s]] \in Session \cup {NoSession}
    BY ConnectionAssumption
  <2>2. ServiceTypeOK' BY <1>3, <2>1 DEF StartControllingObject, Place
  <2>3. ClosedIsRemoved' BY <1>3 DEF StartControllingObject, ClosedIsRemoved
  <2>. QED BY <2>2, <2>3
<1>4. CASE InsertController(s)
  <2>1. ServiceTypeOK' BY <1>4, ConnectionAssumption DEF InsertController, Place
  <2>2. ClosedIsRemoved' BY <1>4 DEF InsertController, ClosedIsRemoved
  <2>. QED BY <2>1, <2>2
<1>. QED BY <1>1, <1>2, <1>3, <1>4

LEMMA ServiceInductive == ServiceInv /\ [Next]_serviceVars => ServiceInv'
<1>. SUFFICES ASSUME ServiceInv, [Next]_serviceVars PROVE ServiceInv'
  OBVIOUS
<1>1. CASE UNCHANGED serviceVars
  BY <1>1 DEF serviceVars, ServiceInv, ServiceTypeOK, ClosedIsRemoved
<1>2. CASE Handle BY <1>2, HandleStep
<1>3. ASSUME NEW s \in Session, Continue(s) PROVE ServiceInv'
  BY <1>3, CloseStep, LoginStep DEF Continue
<1>4. ASSUME NEW s \in Session,
             CreateSession(s) \/ \E message \in Message : Arrive(s, message)
      PROVE  ServiceInv'
  BY <1>4, ClientStep
<1>. QED BY <1>1, <1>2, <1>3, <1>4 DEF Next

LEMMA ServiceInvCorrect == Spec => []ServiceInv
BY ServiceInitial, ServiceInductive, PTL DEF Spec

\* Whatever the number of threads and whatever a new session's memory holds,
\* every variable keeps its type and a strand has a session to close exactly
\* while it is closing one (Session::Close).
THEOREM ServiceTypeCorrect == Spec => []ServiceTypeOK
<1>1. ServiceInv => ServiceTypeOK BY DEF ServiceInv
<1>. QED BY <1>1, ServiceInvCorrect, PTL

\* Whatever the number of threads, a closed session stays in the map only while
\* a thread is on its way to take it out (Session::Close, RemoveSession).
THEOREM ClosedIsRemovedCorrect == Spec => []ClosedIsRemoved
<1>1. ServiceInv => ClosedIsRemoved BY DEF ServiceInv
<1>. QED BY <1>1, ServiceInvCorrect, PTL

-----------------------------------------------------------------------------
(* One thread *)

\* The one thread, and a player_id_ that starts out as nobody's.
OneThread == Threads = 1 /\ Leftover = {} /\ IsFiniteSet(Session)

Playing == {u \in joined : connected[u]}
RowPlayers == {PlayerOf[u] : u \in player_session}
PlayingPlayers == {PlayerOf[u] : u \in Playing}

\* player_id_ tells who has joined, and the map who is connected.
Named ==
    /\ \A s \in Session : player_id[s] = IF s \in joined THEN PlayerOf[s] ELSE NoPlayer
    /\ \A s \in Session : connected[s] => s \in session_map
    /\ \A s \in session_map : phase[s] # "new"

\* One handler runs, after the client's login was taken: a login comes before all
\* that its client sends later, and finds the client connected.
Logins(s) == {i \in 1 .. Len(posted) : posted[i].session = s /\ posted[i].message = "ClientIdMsg"}
InOrder ==
    /\ \A s, t \in Busy : s = t
    /\ \A s \in Session : phase[s] = "open" => connected[s]
    /\ \A s \in Session : place[s] # "idle" \/ s \in joined =>
        phase[s] \notin {"new", "open"} /\ Logins(s) = {}
    /\ \A i \in 1 .. Len(posted) : phase[posted[i].session] \notin {"new", "open"}
    /\ \A s \in Session : \A i \in Logins(s) :
        connected[s] /\ \A j \in 1 .. i - 1 : posted[j].session # s

\* A client that is being let in has no other playing; what Close has found and
\* done about its victim so far.
Free ==
    \A s \in Session : place[s] \in {"create", "connect"} =>
        /\ connected[s] /\ s \notin joined
        /\ \A u \in Playing : PlayerOf[u] # PlayerOf[s]
Closing ==
    \A s \in Session :
        /\ place[s] \in {"close", "disconnect", "remove", "end"} =>
            /\ victim[s] \in Session /\ phase[victim[s]] # "new"
            /\ victim[s] # s =>
                /\ connected[s] /\ s \notin joined
                /\ victim[s] \in joined /\ PlayerOf[victim[s]] = PlayerOf[s]
        /\ place[s] = "close" /\ victim[s] # s => connected[victim[s]]
        /\ place[s] = "disconnect" => connected[victim[s]]
        /\ place[s] \in {"remove", "end"} =>
            /\ ~connected[victim[s]]
            /\ victim[s] \in joined => \A u \in Playing : PlayerOf[u] # PlayerOf[victim[s]]

\* The rows between two handlers, and the one that is added or about to go.
Rows ==
    /\ (\A s \in Session : place[s] \notin {"connect", "remove", "end"}) =>
        RowPlayers = PlayingPlayers
    /\ \A s \in Session : place[s] = "connect" => RowPlayers = PlayingPlayers \cup {PlayerOf[s]}
    /\ \A s \in Session : place[s] \in {"remove", "end"} =>
        RowPlayers = PlayingPlayers \cup
            (IF victim[s] \in joined THEN {PlayerOf[victim[s]]} ELSE {})

LoginInv == Named /\ InOrder /\ OneSessionPerPlayer /\ Free /\ Closing /\ Rows

-----------------------------------------------------------------------------
(* Steps *)

LEMMA NobodyBusy ==
    ASSUME OneThread, ServiceTypeOK, NEW i \in DOMAIN posted, Take(i)
    PROVE  /\ \A s \in Session : place[s] = "idle"
           /\ i = 1 /\ i \in 1 .. Len(posted) /\ posted[i].session \in Session
           /\ Len(posted') = Len(posted) - 1
           /\ \A j \in 1 .. Len(posted) - 1 : posted'[j] = posted[j + 1]
<1>1. IsFiniteSet(Busy)
  BY FS_Subset DEF Busy, OneThread
<1>2. Cardinality(Busy) = 0
  BY <1>1, FS_CardinalityType DEF Take, OneThread
<1>3. Busy = {}
  BY <1>1, <1>2, FS_EmptySet
<1>4. posted \in Seq(Handler) /\ i \in 1 .. Len(posted) /\ Len(posted) \in Nat
  BY DEF ServiceTypeOK, Handler
<1>5. i = 1
  <2>1. 1 \in 1 .. Len(posted) /\ (i # 1 => 1 \in 1 .. i - 1)
    BY <1>4
  <2> QED BY <1>3, <2>1 DEF Take
<1>6. posted' = SubSeq(posted, 1, 0) \o SubSeq(posted, 2, Len(posted))
  BY <1>5 DEF Take
<1>7. SubSeq(posted, 1, 0) = <<>> /\ SubSeq(posted, 2, Len(posted)) \in Seq(Handler)
  BY <1>4, <1>5, SubSeqProperties
<1>8. posted' = SubSeq(posted, 2, Len(posted))
  BY <1>6, <1>7, ConcatEmptySeq
<1>9. /\ Len(posted') = Len(posted) - 1
      /\ \A j \in 1 .. Len(posted) - 1 : posted'[j] = posted[j + 1]
  <2>1. \A j \in 2 .. Len(posted) : posted[j] \in Handler
    BY <1>4
  <2>2. /\ Len(SubSeq(posted, 2, Len(posted))) =
            IF 2 <= Len(posted) THEN Len(posted) - 2 + 1 ELSE 0
        /\ \A j \in 1 .. Len(posted) - 2 + 1 :
            SubSeq(posted, 2, Len(posted))[j] = posted[2 + j - 1]
    BY <1>4, <2>1, SubSeqProperties
  <2>3. Len(posted') = Len(posted) - 1
    <3>1. Len(posted) \in Nat /\ Len(posted) >= 1
      BY <1>4, <1>5
    <3>2. Len(posted') = IF 2 <= Len(posted) THEN Len(posted) - 2 + 1 ELSE 0
      BY <1>8, <2>2
    <3>3. \A n \in Nat : n >= 1 => (IF 2 <= n THEN n - 2 + 1 ELSE 0) = n - 1
      OBVIOUS
    <3> QED BY <3>1, <3>2, <3>3
  <2>4. ASSUME NEW j \in 1 .. Len(posted) - 1 PROVE posted'[j] = posted[j + 1]
    <3>1. j \in 1 .. Len(posted) - 2 + 1 /\ 2 + j - 1 = j + 1
      BY <1>4
    <3> QED BY <1>8, <2>2, <3>1
  <2> QED BY <2>3, <2>4
<1> QED BY <1>3, <1>4, <1>5, <1>9, TakeTyped DEF Busy

LEMMA PostedTyped ==
    ASSUME ServiceTypeOK
    PROVE  Len(posted) \in Nat /\ \A i \in 1 .. Len(posted) : posted[i].session \in Session
<1>1. posted \in Seq(Handler)
  BY DEF ServiceTypeOK, Handler
<1>2. \A i \in 1 .. Len(posted) : posted[i] \in Handler
  BY <1>1
<1> QED BY <1>1, <1>2 DEF Handler

LEMMA CreateLogin ==
    ASSUME OneThread, ServiceInv, LoginInv, NEW s \in Session, CreateSession(s)
    PROVE  LoginInv'
<1> USE DEF ServiceInv, LoginInv, CreateSession
<1>0. /\ s \notin joined /\ place[s] = "idle" /\ ~connected[s]
      /\ Leftover \cup {NoPlayer} = {NoPlayer}
  BY DEF InOrder, Named, OneThread
<1>1. Named'
  BY <1>0 DEF Named, ServiceTypeOK, Phase
<1>2. UNCHANGED <<Playing, PlayingPlayers, RowPlayers>>
  BY <1>0 DEF Playing, PlayingPlayers, RowPlayers, ServiceTypeOK
<1>3. \A u \in Session : connected[u] => connected'[u]
  BY DEF ServiceTypeOK
<1>4. /\ \A u \in Session : u # s => phase'[u] = phase[u] /\ connected'[u] = connected[u]
      /\ phase'[s] = "open" /\ connected'[s]
  BY DEF ServiceTypeOK
<1>5. InOrder'
  <2>1. \A i \in 1 .. Len(posted) : posted[i].session # s /\ posted[i].session \in Session
    BY PostedTyped DEF InOrder
  <2> QED BY <1>0, <1>3, <1>4, <2>1 DEF InOrder, Logins, Busy
<1>6. OneSessionPerPlayer' /\ Free' /\ Rows'
  BY <1>0, <1>2, <1>4 DEF OneSessionPerPlayer, Free, Rows, ServiceTypeOK
<1>7. Closing'
  BY <1>0, <1>2, <1>4 DEF Closing
<1> QED BY <1>1, <1>5, <1>6, <1>7

LEMMA ArriveLogin ==
    ASSUME OneThread, ServiceInv, LoginInv, NEW s \in Session,
           NEW message \in Message, Arrive(s, message)
    PROVE  LoginInv'
<1> USE DEF ServiceInv, LoginInv, Arrive
<1>1. /\ phase[s] # "new" /\ phase'[s] \notin {"new", "open"}
      /\ \A u \in Session : u # s => phase'[u] = phase[u]
      /\ message = "ClientIdMsg" => phase[s] = "open"
  <2>1. PICK step \in MayFollow : /\ step[1] = phase[s] /\ step[2] = message
                                  /\ phase' = [phase EXCEPT ![s] = step[3]]
    OBVIOUS
  <2> QED BY <2>1 DEF MayFollow, ServiceTypeOK
<1>2. UNCHANGED <<Playing, PlayingPlayers, RowPlayers>>
  BY DEF Playing, PlayingPlayers, RowPlayers
<1>3. /\ Len(posted') = Len(posted) + 1 /\ Len(posted) \in Nat
      /\ posted'[Len(posted) + 1] = [session |-> s, message |-> message]
      /\ \A i \in 1 .. Len(posted) : posted'[i] = posted[i] /\ posted[i].session \in Session
  <2>1. posted \in Seq(Handler) /\ [session |-> s, message |-> message] \in Handler
    BY DEF ServiceTypeOK, Handler
  <2>2. \A i \in 1 .. Len(posted) : posted[i] \in Handler
    BY <2>1
  <2>3. \A h \in Handler : h.session \in Session
    BY DEF Handler
  <2> HIDE DEF ServiceInv
  <2> QED BY <2>1, <2>2, <2>3
<1>4. \A u \in Session : \A i \in Nat : i \in Logins(u)' <=>
          i \in Logins(u) \/ (u = s /\ message = "ClientIdMsg" /\ i = Len(posted) + 1)
  BY <1>3 DEF Logins
<1>5. InOrder'
  <2>1. \A i \in 1 .. Len(posted') : phase'[posted'[i].session] \notin {"new", "open"}
    BY <1>1, <1>3 DEF InOrder
  <2>2. \A u \in Session : (place[u] # "idle" \/ u \in joined) =>
            phase'[u] \notin {"new", "open"} /\ Logins(u)' = {}
    <3>1. \A u \in Session : Logins(u)' \subseteq Nat
      BY <1>3 DEF Logins
    <3> QED BY <1>1, <1>4, <3>1 DEF InOrder
  <2>3. \A u \in Session : \A i \in Logins(u)' :
            connected[u] /\ \A j \in 1 .. i - 1 : posted'[j].session # u
    <3> SUFFICES ASSUME NEW u \in Session, NEW i \in Logins(u)'
                 PROVE  connected[u] /\ \A j \in 1 .. i - 1 : posted'[j].session # u
      OBVIOUS
    <3>1. CASE i \in Logins(u)
      BY <1>3, <3>1 DEF InOrder, Logins
    <3>2. CASE u = s /\ message = "ClientIdMsg" /\ i = Len(posted) + 1
      BY <1>1, <1>3, <3>2 DEF InOrder
    <3>3. i \in Nat
      BY <1>3 DEF Logins
    <3> QED BY <1>4, <3>1, <3>2, <3>3
  <2>4. /\ \A u, v \in Busy' : u = v
        /\ \A u \in Session : phase'[u] = "open" => connected[u]
    BY <1>1 DEF InOrder, Busy
  <2> QED BY <2>1, <2>2, <2>3, <2>4 DEF InOrder
<1>6. Named' /\ OneSessionPerPlayer' /\ Free' /\ Rows'
  BY <1>1, <1>2 DEF Named, OneSessionPerPlayer, Free, Rows
<1>7. Closing'
  BY <1>1, <1>2 DEF Closing
<1> QED BY <1>5, <1>6, <1>7

\* The thread takes a handler: the first one, while every strand is idle.
LEMMA HandleLogin ==
    ASSUME OneThread, ServiceInv, LoginInv, Handle
    PROVE  LoginInv'
<1> USE DEF ServiceInv, LoginInv
<1>1. PICK i \in DOMAIN posted :
          \/ RefuseClientIdMsg(i) \/ HandleClientIdMsg(i)
          \/ HandleDisconnect(i) \/ HandleSelectCharacter(i)
  BY DEF Handle
<1>2. /\ Take(i)
      /\ UNCHANGED <<phase, session_map, connected, player_id, player_session, joined>>
  BY <1>1 DEF RefuseClientIdMsg, HandleClientIdMsg, HandleDisconnect, HandleSelectCharacter
<1>0. PICK s \in Session : s = posted[i].session
  BY <1>2, NobodyBusy
<1>3. /\ \A u \in Session : place[u] = "idle"
      /\ i = 1 /\ i \in 1 .. Len(posted) /\ s = posted[i].session
      /\ Len(posted') = Len(posted) - 1 /\ Len(posted) \in Nat
      /\ \A j \in 1 .. Len(posted) - 1 : posted'[j] = posted[j + 1]
  BY <1>0, <1>2, NobodyBusy, PostedTyped
<1>4. \A u \in Session : u # s => place'[u] = "idle"
  BY <1>1, <1>3 DEF RefuseClientIdMsg, HandleClientIdMsg, HandleDisconnect,
     HandleSelectCharacter, Goto, ServiceTypeOK
<1>5. Named' /\ OneSessionPerPlayer'
  BY <1>2 DEF Named, OneSessionPerPlayer
<1>6. Logins(s)' = {} /\ \A u \in Session : \A j \in Logins(u)' : j + 1 \in Logins(u)
  <2>1. \A u \in Session : \A j \in Logins(u)' : j + 1 \in Logins(u) /\ j >= 1
    BY <1>3 DEF Logins
  <2>2. ASSUME NEW j \in Logins(s)' PROVE FALSE
    <3>0. j + 1 \in Logins(s) /\ j \in 1 .. Len(posted')
      BY <1>3, <2>1, <2>2 DEF Logins
    <3>1. j + 1 \in Logins(s) /\ 1 \in 1 .. (j + 1) - 1
      BY <1>3, <3>0
    <3>2. posted[1].session # s
      BY <1>3, <3>1 DEF InOrder
    <3> QED BY <1>3, <3>2
  <2> QED BY <2>1, <2>2
<1>7. InOrder'
  <2>1. \A u, v \in Busy' : u = v
    BY <1>4 DEF Busy
  <2>2. phase[s] \notin {"new", "open"}
    BY <1>3 DEF InOrder
  <2>3. \A u \in Session : (place'[u] # "idle" \/ u \in joined) =>
            phase[u] \notin {"new", "open"} /\ Logins(u)' = {}
    <3> SUFFICES ASSUME NEW u \in Session, place'[u] # "idle" \/ u \in joined
                 PROVE  phase[u] \notin {"new", "open"} /\ Logins(u)' = {}
      OBVIOUS
    <3>1. CASE u = s
      BY <1>6, <2>2, <3>1
    <3>2. CASE u # s
      BY <1>4, <1>6, <3>2 DEF InOrder
    <3> QED BY <3>1, <3>2
  <2>4. \A j \in 1 .. Len(posted') : phase[posted'[j].session] \notin {"new", "open"}
    BY <1>3 DEF InOrder
  <2>5. ASSUME NEW u \in Session, NEW j \in Logins(u)'
        PROVE  connected[u] /\ \A k \in 1 .. j - 1 : posted'[k].session # u
    <3>1. j + 1 \in Logins(u) /\ j \in 1 .. Len(posted) - 1
      BY <1>3, <1>6 DEF Logins
    <3>2. connected[u] /\ \A k \in 1 .. (j + 1) - 1 : posted[k].session # u
      BY <3>1 DEF InOrder
    <3>3. ASSUME NEW k \in 1 .. j - 1 PROVE posted'[k].session # u
      <4>1. k \in 1 .. Len(posted) - 1 /\ k + 1 \in 1 .. (j + 1) - 1
        BY <1>3, <3>1
      <4> QED BY <1>3, <3>2, <4>1
    <3> QED BY <3>2, <3>3
  <2> QED BY <1>2, <2>1, <2>3, <2>4, <2>5 DEF InOrder
<1>8. UNCHANGED <<Playing, PlayingPlayers, RowPlayers>> /\ RowPlayers = PlayingPlayers
  BY <1>2, <1>3 DEF Playing, PlayingPlayers, RowPlayers, Rows
<1>9. place'[s] \in {"idle", "close", "create", "control"}
  BY <1>1, <1>3 DEF RefuseClientIdMsg, HandleClientIdMsg, HandleDisconnect,
     HandleSelectCharacter, Goto, ServiceTypeOK
<1>10. Rows'
  BY <1>4, <1>8, <1>9 DEF Rows
<1>11. CASE RefuseClientIdMsg(i) \/ HandleSelectCharacter(i)
  <2>1. place'[s] \in {"idle", "control"}
    BY <1>3, <1>11 DEF RefuseClientIdMsg, HandleSelectCharacter, Goto, ServiceTypeOK
  <2>2. Free' /\ Closing'
    BY <1>4, <2>1 DEF Free, Closing
  <2> QED BY <1>5, <1>7, <1>10, <2>2
<1>12. CASE HandleDisconnect(i)
  <2>1. place'[s] = "close" /\ victim'[s] = s /\ phase'[s] # "new"
    BY <1>2, <1>3, <1>12 DEF HandleDisconnect, Goto, ServiceTypeOK, InOrder
  <2>2. Free' /\ Closing'
    BY <1>4, <2>1 DEF Free, Closing
  <2> QED BY <1>5, <1>7, <1>10, <2>2
<1>13. CASE HandleClientIdMsg(i)
  <2>1. connected[s] /\ s \notin joined
    BY <1>3, <1>13 DEF HandleClientIdMsg, InOrder, Logins
  <2>2. \A u \in session_map : connected[u] /\ u \in Session
    BY <1>3 DEF ClosedIsRemoved, ServiceTypeOK
  <2>3. CASE Existing(PlayerOf[s]) = {}
    <3>1. place'[s] = "create"
      BY <1>3, <1>13, <2>3 DEF HandleClientIdMsg, Goto, ServiceTypeOK
    <3>2. ASSUME NEW u \in Playing, PlayerOf[u] = PlayerOf[s] PROVE FALSE
      <4>1. u \in Session /\ player_id[u] = PlayerOf[s] /\ u \in session_map
        BY <3>2 DEF Playing, Named, ServiceTypeOK
      <4> QED BY <2>3, <4>1 DEF Existing
    <3>3. Free' /\ Closing'
      BY <1>2, <1>4, <1>8, <2>1, <3>1, <3>2 DEF Free, Closing
    <3> QED BY <1>5, <1>7, <1>10, <3>3
  <2>4. CASE Existing(PlayerOf[s]) # {}
    <3>1. PICK u \in Existing(PlayerOf[s]) :
              Goto(s, "close") /\ victim' = [victim EXCEPT ![s] = u]
      BY <1>3, <1>13, <2>4 DEF HandleClientIdMsg
    <3>2. place'[s] = "close" /\ victim'[s] = u /\ u \in session_map
      BY <1>3, <3>1 DEF Goto, ServiceTypeOK, Existing
    <3>3. u \in Session /\ u \in joined /\ PlayerOf[u] = PlayerOf[s] /\ u # s
          /\ connected[u] /\ phase[u] # "new"
      <4>1. u \in Session /\ player_id[u] = PlayerOf[s] /\ PlayerOf[s] # NoPlayer
        BY <1>3, <2>2, <3>2, ConnectionAssumption DEF Existing
      <4> QED BY <2>1, <2>2, <3>2, <4>1 DEF Named
    <3>4. Free' /\ Closing'
      BY <1>2, <1>4, <2>1, <3>2, <3>3 DEF Free, Closing
    <3> QED BY <1>5, <1>7, <1>10, <3>4
  <2> QED BY <2>3, <2>4
<1> QED BY <1>1, <1>11, <1>12, <1>13

\* The handler that runs is s's, and every other strand is idle.
LEMMA OthersIdle ==
    ASSUME InOrder, NEW s \in Session, place[s] # "idle"
    PROVE  \A u \in Session : u # s => place[u] = "idle"
BY DEF InOrder, Busy

\* A step of the handler that runs, which neither connects nor disconnects a client.
LEMMA SameOrder ==
    ASSUME ServiceInv, InOrder, NEW s \in Session, place[s] # "idle", NEW p, Goto(s, p),
           UNCHANGED <<phase, posted, connected>>, joined' \subseteq joined \cup {s}
    PROVE  InOrder' /\ place'[s] = p /\ \A u \in Session : u # s => place'[u] = "idle"
<1>1. place'[s] = p /\ \A u \in Session : u # s => place'[u] = "idle"
  BY OthersIdle DEF Goto, ServiceInv, ServiceTypeOK
<1>2. UNCHANGED <<phase, posted, connected>> /\ \A u \in Session : Logins(u)' = Logins(u)
  BY DEF Logins
<1>3. \A u, v \in Busy' : u = v
  BY <1>1 DEF Busy
<1> QED BY <1>1, <1>2, <1>3 DEF InOrder

\* A client is let in.
LEMMA EnterLogin ==
    ASSUME ServiceInv, LoginInv, NEW s \in Session, CreateGameSession(s) \/ Connect(s)
    PROVE  LoginInv'
<1> USE DEF LoginInv
<1>1. CASE CreateGameSession(s)
  <2> USE <1>1 DEF CreateGameSession
  <2>1. InOrder' /\ place'[s] = "connect" /\ \A u \in Session : u # s => place'[u] = "idle"
    BY SameOrder
  <2>2. UNCHANGED <<Playing, PlayingPlayers>> /\ RowPlayers' = RowPlayers \cup {PlayerOf[s]}
    BY DEF Playing, PlayingPlayers, RowPlayers
  <2>3. RowPlayers = PlayingPlayers
    BY OthersIdle DEF Rows
  <2>4. Rows' /\ Free' /\ Closing'
    BY <2>1, <2>2, <2>3 DEF Rows, Free, Closing
  <2>5. Named' /\ OneSessionPerPlayer'
    BY DEF Named, OneSessionPerPlayer
  <2> QED BY <2>1, <2>4, <2>5
<1>2. CASE Connect(s)
  <2> USE <1>2 DEF Connect
  <2>1. InOrder' /\ place'[s] = "idle" /\ \A u \in Session : u # s => place'[u] = "idle"
    BY SameOrder
  <2>2. connected[s] /\ s \notin joined /\ \A u \in Playing : PlayerOf[u] # PlayerOf[s]
    BY DEF Free
  <2>3. Playing' = Playing \cup {s} /\ RowPlayers' = RowPlayers
    BY <2>2 DEF Playing, RowPlayers
  <2>4. PlayingPlayers' = PlayingPlayers \cup {PlayerOf[s]}
    BY <2>3 DEF PlayingPlayers
  <2>5. RowPlayers = PlayingPlayers \cup {PlayerOf[s]}
    BY DEF Rows
  <2>6. Rows' /\ Free' /\ Closing'
    BY <2>1, <2>3, <2>4, <2>5 DEF Rows, Free, Closing
  <2>7. Named'
    BY DEF Named, ServiceInv, ServiceTypeOK
  <2>8. OneSessionPerPlayer'
    BY <2>2 DEF OneSessionPerPlayer, Playing
  <2> QED BY <2>1, <2>6, <2>7, <2>8
<1> QED BY <1>1, <1>2

\* Session::Close, by the strand of s.
LEMMA CloseLogin ==
    ASSUME ServiceInv, ServiceInv', LoginInv, NEW s \in Session,
           Close(s) \/ Disconnected(s) \/ RemoveSession(s) \/ EndGameSession(s)
    PROVE  LoginInv'
<1> USE DEF LoginInv
<1> DEFINE v == victim[s]
<1>0. /\ place[s] \in {"close", "disconnect", "remove", "end"}
      /\ v \in Session /\ v # NoSession /\ phase[v] # "new"
      /\ v # s => connected[s] /\ s \notin joined /\ v \in joined /\ PlayerOf[v] = PlayerOf[s]
      /\ \A u \in Session : u # s => place[u] = "idle"
  BY OthersIdle, ConnectionAssumption DEF Close, Disconnected, RemoveSession, EndGameSession, Closing
<1>1. CASE Close(s)
  <2> USE <1>1 DEF Close
  <2>1. UNCHANGED <<Playing, PlayingPlayers, RowPlayers>> /\ RowPlayers = PlayingPlayers
    BY <1>0 DEF Playing, PlayingPlayers, RowPlayers, Rows
  <2>2. Named' /\ OneSessionPerPlayer'
    BY DEF Named, OneSessionPerPlayer
  <2>3. CASE connected[v]
    <3>1. InOrder' /\ place'[s] = "disconnect" /\ \A u \in Session : u # s => place'[u] = "idle"
      BY <2>3, SameOrder
    <3>2. Rows' /\ Free' /\ Closing'
      BY <1>0, <2>1, <2>3, <3>1 DEF Rows, Free, Closing
    <3> QED BY <2>2, <3>1, <3>2
  <2>4. CASE ~connected[v]
    <3>1. v = s
      BY <1>0, <2>4 DEF Closing
    <3>2. InOrder' /\ place'[s] = "idle" /\ \A u \in Session : u # s => place'[u] = "idle"
      BY <2>4, <3>1, SameOrder DEF AfterClose
    <3>3. Rows' /\ Free' /\ Closing'
      BY <2>1, <3>2 DEF Rows, Free, Closing
    <3> QED BY <2>2, <3>2, <3>3
  <2> QED BY <2>3, <2>4
<1>2. CASE Disconnected(s)
  <2> USE <1>2 DEF Disconnected
  <2>1. /\ place'[s] = "remove" /\ \A u \in Session : u # s => place'[u] = "idle"
        /\ ~connected'[v] /\ \A u \in Session : u # v => connected'[u] = connected[u]
        /\ connected[v]
    BY <1>0 DEF Goto, ServiceInv, ServiceTypeOK, Closing
  <2>2. phase[v] # "open" /\ Logins(v) = {}
    BY <1>0 DEF InOrder
  <2>3. InOrder'
    <3>1. \A u \in Session : Logins(u)' = Logins(u)
      BY DEF Logins
    <3>2. \A u, w \in Busy' : u = w
      BY <2>1 DEF Busy
    <3>3. \A u \in Session : phase[u] = "open" => connected'[u]
      BY <2>1, <2>2 DEF InOrder
    <3>4. \A u \in Session : \A i \in Logins(u) :
            connected'[u] /\ \A j \in 1 .. i - 1 : posted[j].session # u
      BY <2>1, <2>2 DEF InOrder
    <3>5. \A u \in Session : (place'[u] # "idle" \/ u \in joined) =>
            phase[u] \notin {"new", "open"} /\ Logins(u) = {}
      BY <1>0, <2>1 DEF InOrder
    <3> QED BY <3>1, <3>2, <3>3, <3>4, <3>5 DEF InOrder
  <2>4. Named' /\ OneSessionPerPlayer'
    BY <1>0, <2>1 DEF Named, OneSessionPerPlayer, ServiceInv, ServiceTypeOK
  <2>5. Playing' = Playing \ {v}
    BY <1>0, <2>1 DEF Playing, ServiceInv, ServiceTypeOK
  <2>6. v \in joined => v \in Playing /\ \A u \in Playing' : PlayerOf[u] # PlayerOf[v]
    BY <2>1, <2>5 DEF Playing, OneSessionPerPlayer
  <2>7. RowPlayers' = RowPlayers /\ RowPlayers = PlayingPlayers
    BY <1>0 DEF RowPlayers, Rows
  <2>8. PlayingPlayers = PlayingPlayers' \cup (IF v \in joined THEN {PlayerOf[v]} ELSE {})
    BY <2>5, <2>6 DEF PlayingPlayers, Playing
  <2>9. Rows' /\ Free'
    BY <2>1, <2>7, <2>8 DEF Rows, Free
  <2>10. Closing'
    BY <1>0, <2>1, <2>6 DEF Closing
  <2> QED BY <2>3, <2>4, <2>9, <2>10
<1>3. CASE RemoveSession(s)
  <2> USE <1>3 DEF RemoveSession
  <2>1. InOrder' /\ place'[s] = "end" /\ \A u \in Session : u # s => place'[u] = "idle"
    BY SameOrder
  <2>2. UNCHANGED <<Playing, PlayingPlayers, RowPlayers>>
    BY DEF Playing, PlayingPlayers, RowPlayers
  <2>3. ~connected[v]
    BY DEF Closing
  <2>4. Named' /\ OneSessionPerPlayer'
    BY <2>3 DEF Named, OneSessionPerPlayer
  <2>5. Rows' /\ Free' /\ Closing'
    BY <1>0, <2>1, <2>2 DEF Rows, Free, Closing
  <2> QED BY <2>1, <2>4, <2>5
<1>4. CASE EndGameSession(s)
  <2> USE <1>4 DEF EndGameSession
  <2>1. /\ InOrder' /\ place'[s] = (IF v = s THEN "idle" ELSE "create")
        /\ \A u \in Session : u # s => place'[u] = "idle"
    BY SameOrder DEF AfterClose
  <2>2. UNCHANGED <<Playing, PlayingPlayers>>
    BY DEF Playing, PlayingPlayers
  <2>3. RowPlayers = PlayingPlayers \cup (IF v \in joined THEN {PlayerOf[v]} ELSE {})
    BY DEF Rows
  <2>4. v \in joined => \A u \in Playing : PlayerOf[u] # PlayerOf[v]
    BY DEF Closing
  <2>5. RowPlayers' = RowPlayers \ {player_id[v]}
    BY DEF RowPlayers
  <2>6. player_id[v] = IF v \in joined THEN PlayerOf[v] ELSE NoPlayer
    BY <1>0 DEF Named
  <2>7. PlayingPlayers \subseteq Player
    BY ConnectionAssumption DEF PlayingPlayers, Playing, ServiceInv, ServiceTypeOK
  <2>8. RowPlayers' = PlayingPlayers
    <3>1. CASE v \in joined
      <4>1. PlayerOf[v] \notin PlayingPlayers
        BY <2>4, <3>1 DEF PlayingPlayers
      <4> QED BY <2>3, <2>5, <2>6, <3>1, <4>1
    <3>2. CASE v \notin joined
      BY <2>3, <2>5, <2>6, <2>7, <3>2, ConnectionAssumption
    <3> QED BY <3>1, <3>2
  <2>9. Named' /\ OneSessionPerPlayer'
    BY DEF Named, OneSessionPerPlayer
  <2>10. Rows' /\ Free' /\ Closing'
    BY <1>0, <2>1, <2>2, <2>4, <2>8 DEF Rows, Free, Closing
  <2> QED BY <2>1, <2>9, <2>10
<1> QED BY <1>1, <1>2, <1>3, <1>4

\* The character is controlled: neither logins nor rows are touched.
LEMMA ControlLogin ==
    ASSUME ServiceInv, LoginInv, NEW s \in Session,
           StartControllingObject(s) \/ InsertController(s)
    PROVE  LoginInv'
<1> USE DEF LoginInv
<1>1. /\ place[s] \in {"control", "insert"}
      /\ UNCHANGED <<phase, posted, session_map, connected, player_id, victim, player_session,
                     joined>>
      /\ \E p \in {"idle", "insert"} : Goto(s, p)
  BY DEF StartControllingObject, InsertController
<1>2. /\ InOrder' /\ place'[s] \in {"idle", "insert"}
      /\ \A u \in Session : u # s => place[u] = "idle" /\ place'[u] = "idle"
  BY <1>1, SameOrder, OthersIdle
<1>3. UNCHANGED <<Playing, PlayingPlayers, RowPlayers>> /\ RowPlayers = PlayingPlayers
  BY <1>1, <1>2 DEF Playing, PlayingPlayers, RowPlayers, Rows
<1>4. Named' /\ OneSessionPerPlayer' /\ Free' /\ Closing' /\ Rows'
  BY <1>1, <1>2, <1>3 DEF Named, OneSessionPerPlayer, Free, Closing, Rows
<1> QED BY <1>2, <1>4

LEMMA LoginInitial == Init /\ OneThread => LoginInv
<1> SUFFICES ASSUME Init, OneThread PROVE LoginInv
  OBVIOUS
<1>1. Named /\ InOrder /\ OneSessionPerPlayer
  BY DEF Init, Named, InOrder, OneSessionPerPlayer, Logins, Busy
<1>2. Free /\ Closing /\ Rows
  BY DEF Init, Free, Closing, Rows, RowPlayers, PlayingPlayers, Playing
<1> QED BY <1>1, <1>2 DEF LoginInv

LEMMA LoginInductive == OneThread /\ ServiceInv /\ LoginInv /\ [Next]_serviceVars => LoginInv'
<1> SUFFICES ASSUME OneThread, ServiceInv, LoginInv, [Next]_serviceVars PROVE LoginInv'
  OBVIOUS
<1>0. ServiceInv'
  BY ServiceInductive
<1>1. CASE UNCHANGED serviceVars
  <2> USE <1>1 DEF serviceVars, LoginInv
  <2>1. UNCHANGED <<Busy, RowPlayers, PlayingPlayers, Playing>>
    BY DEF Busy, RowPlayers, PlayingPlayers, Playing
  <2>2. \A s \in Session : Logins(s)' = Logins(s)
    BY DEF Logins
  <2>3. Named' /\ InOrder' /\ OneSessionPerPlayer'
    BY <2>1, <2>2 DEF Named, InOrder, OneSessionPerPlayer
  <2>4. Free' /\ Closing' /\ Rows'
    BY <2>1 DEF Free, Closing, Rows
  <2> QED BY <2>3, <2>4
<1>2. CASE Handle
  BY <1>2, HandleLogin
<1>3. ASSUME NEW s \in Session,
             Continue(s) \/ CreateSession(s) \/ \E message \in Message : Arrive(s, message)
      PROVE  LoginInv'
  BY <1>0, <1>3, CreateLogin, ArriveLogin, EnterLogin, CloseLogin, ControlLogin DEF Continue
<1> QED BY <1>1, <1>2, <1>3 DEF Next

-----------------------------------------------------------------------------
(* Theorems *)

\* A player is never played by two connected clients when one thread runs the
\* handlers (ConnectionService::HandleClientIdMsg_).
THEOREM OneSessionCorrect == OneThread /\ Spec => []OneSessionPerPlayer
<1>1. LoginInv => OneSessionPerPlayer
  BY DEF LoginInv
<1>2. OneThread => OneThread'
  BY DEF OneThread
<1> QED BY <1>1, <1>2, LoginInitial, LoginInductive, ServiceInvCorrect, PTL DEF Spec

\* Between two handlers of the one thread, player_session has a row for exactly the
\* players with a connected client (CreateGameSession, EndGameSession).
THEOREM RowsCorrect == OneThread /\ Spec => []RowsMatchSessions
<1>1. LoginInv => RowsMatchSessions
  <2> SUFFICES ASSUME LoginInv, Busy = {}
               PROVE  {PlayerOf[s] : s \in player_session} =
                          {PlayerOf[s] : s \in {u \in joined : connected[u]}}
    BY DEF RowsMatchSessions
  <2>1. \A s \in Session : place[s] = "idle"
    BY DEF Busy
  <2> QED BY <2>1 DEF LoginInv, Rows, RowPlayers, PlayingPlayers, Playing
<1>2. OneThread => OneThread'
  BY DEF OneThread
<1> QED BY <1>1, <1>2, LoginInitial, LoginInductive, ServiceInvCorrect, PTL DEF Spec

-----------------------------------------------------------------------------
(* The controllers *)

\* A client's choices of a character that are still to be handled, and the one the
\* thread is handling.
Selects(s) == {i \in 1 .. Len(posted) :
                  posted[i].session = s /\ posted[i].message = "SelectCharacter"}
Controls(s) == place[s] \in {"control", "insert"}

\* A client chooses once, after it has logged in.  Until its choice is handled it has
\* no controller, and no client that plays the same character is ahead of it.
Chosen ==
    \A s \in Session : phase[s] \in {"new", "open", "asked"} =>
        controller[s] = NoSession /\ ~Controls(s) /\ Selects(s) = {}
Waiting ==
    \A s \in Session : \A i \in Selects(s) :
        /\ s \in joined /\ controller[s] = NoSession /\ ~Controls(s)
        /\ \A j \in Selects(s) : j = i
        /\ \A u \in Playing : u # s /\ PlayerOf[u] = PlayerOf[s] =>
              /\ controller[u] = NoSession /\ ~Controls(u)
              /\ \A j \in Selects(u) : i < j
Controlling ==
    \A s \in Session : Controls(s) =>
        /\ s \in joined /\ controller[s] = NoSession
        /\ \A u \in Playing : u # s /\ PlayerOf[u] = PlayerOf[s] => controller[u] = NoSession
        /\ place[s] = "insert" => controlled[PlayerOf[s]] = NoSession

\* A client's controller is the registered one of its character.
Registered ==
    /\ \A s \in Session : controller[s] # NoSession =>
        s \in joined /\ controlled[PlayerOf[s]] = controller[s]
    /\ \A p \in Player : controlled[p] # NoSession => PlayerOf[controlled[p]] = p

ServedInv == Chosen /\ Waiting /\ Controlling /\ Registered /\ PlayingClientIsServed

\* A step that leaves the queue, the controllers and the running choice alone, and lets
\* no client in.
LEMMA SameServed ==
    ASSUME ServiceInv, ServedInv,
           \A s \in Session : phase'[s] \in {"new", "open", "asked"} =>
               phase[s] \in {"new", "open", "asked"},
           \A s \in Session : Controls(s)' <=> Controls(s),
           \A s \in Session : place'[s] = "insert" => place[s] = "insert",
           Playing' \subseteq Playing,
           \A s \in Session : connected'[s] /\ controller[s] # NoSession => connected[s],
           UNCHANGED <<posted, controlled, client, controller, joined>>
    PROVE  ServedInv'
<1> USE DEF ServedInv
<1>1. \A s \in Session : Selects(s)' = Selects(s)
  BY DEF Selects
<1>2. Chosen' BY <1>1 DEF Chosen
<1>3. Waiting'
  <2>1. \A u \in Playing' : u \in Session /\ u \in Playing
    BY DEF Playing, ServiceInv, ServiceTypeOK
  <2> QED BY <1>1, <2>1 DEF Waiting
<1>4. Controlling' BY DEF Controlling, Playing
<1>5. Registered' BY DEF Registered
<1>6. PlayingClientIsServed' BY DEF PlayingClientIsServed
<1> QED BY <1>2, <1>3, <1>4, <1>5, <1>6

LEMMA CreateServed ==
    ASSUME ServiceInv, LoginInv, ServedInv, NEW s \in Session, CreateSession(s)
    PROVE  ServedInv'
<1>1. /\ phase[s] = "new" /\ UNCHANGED <<posted, place, controlled, client, controller, joined>>
      /\ \A u \in Session : u # s => phase'[u] = phase[u] /\ connected'[u] = connected[u]
      /\ phase'[s] = "open"
  BY DEF CreateSession, ServiceInv, ServiceTypeOK
<1>2. s \notin joined /\ controller[s] = NoSession
  BY <1>1 DEF LoginInv, InOrder, ServedInv, Chosen
<1>3. Playing' = Playing
  BY <1>1, <1>2 DEF Playing, ServiceInv, ServiceTypeOK
<1>4. \A u \in Session : Controls(u)' <=> Controls(u)
  BY <1>1 DEF Controls
<1>5. \A u \in Session : phase'[u] \in {"new", "open", "asked"} =>
          phase[u] \in {"new", "open", "asked"}
  BY <1>1
<1>6. \A u \in Session : connected'[u] /\ controller[u] # NoSession => connected[u]
  BY <1>1, <1>2
<1> QED BY <1>1, <1>3, <1>4, <1>5, <1>6, SameServed

\* A choice that arrives is the last in the queue, of a client that plays alone.
LEMMA ArriveServed ==
    ASSUME ServiceInv, LoginInv, ServedInv, NEW s \in Session, NEW message \in Message,
           Arrive(s, message)
    PROVE  ServedInv'
<1>1. /\ message = "SelectCharacter" =>
            phase[s] = "asked" /\ phase'[s] = "selected" /\ s \in joined /\ s \in session_map
      /\ phase'[s] \in {"new", "open", "asked"} => phase[s] \in {"new", "open", "asked"}
      /\ \A u \in Session : u # s => phase'[u] = phase[u]
  <2>1. PICK step \in MayFollow : /\ step[1] = phase[s] /\ step[2] = message
                                  /\ phase' = [phase EXCEPT ![s] = step[3]]
    BY DEF Arrive
  <2> QED BY <2>1 DEF MayFollow, Arrive, ServiceInv, ServiceTypeOK
<1>2. UNCHANGED <<connected, place, controlled, client, controller, joined, Playing>>
  BY DEF Arrive, Playing
<1>3. /\ Len(posted') = Len(posted) + 1 /\ Len(posted) \in Nat
      /\ posted'[Len(posted) + 1] = [session |-> s, message |-> message]
      /\ \A i \in 1 .. Len(posted) : posted'[i] = posted[i]
  <2>1. posted \in Seq(Handler) /\ [session |-> s, message |-> message] \in Handler
    BY DEF ServiceInv, ServiceTypeOK, Handler
  <2> QED BY <2>1 DEF Arrive
<1>4. \A u \in Session : Selects(u)' = Selects(u) \cup
          (IF u = s /\ message = "SelectCharacter" THEN {Len(posted) + 1} ELSE {})
  <2>1. \A u \in Session : \A i : i \in Selects(u)' <=>
            \/ i \in Selects(u)
            \/ u = s /\ message = "SelectCharacter" /\ i = Len(posted) + 1
    BY <1>3 DEF Selects
  <2> QED BY <2>1
<1>5. \A u \in Session : Controls(u)' <=> Controls(u)
  BY <1>2 DEF Controls
<1>6. Chosen'
  BY <1>1, <1>2, <1>4, <1>5 DEF ServedInv, Chosen
<1>7. Controlling' /\ Registered' /\ PlayingClientIsServed'
  BY <1>2, <1>5 DEF ServedInv, Controlling, Registered, PlayingClientIsServed
<1>8. ASSUME message = "SelectCharacter", NEW u \in Playing, PlayerOf[u] = PlayerOf[s]
      PROVE  u = s
  <2>1. CASE connected[s]
    BY <1>1, <1>8, <2>1 DEF LoginInv, OneSessionPerPlayer, Playing
  <2>2. CASE ~connected[s]
    <3>1. PICK t \in Session : victim[t] = s /\ place[t] \in {"disconnect", "remove"}
      BY <1>1, <1>8, <2>2 DEF ServiceInv, ClosedIsRemoved
    <3> QED BY <1>1, <1>8, <2>2, <3>1 DEF LoginInv, Closing
  <2> QED BY <2>1, <2>2
<1>9. \A u \in Session : \A i \in Selects(u) : i < Len(posted) + 1
  BY <1>3 DEF Selects
<1>10. Waiting'
  <2>1. \A u \in Playing : u \in Session
    BY DEF Playing, ServiceInv, ServiceTypeOK
  <2> SUFFICES ASSUME NEW t \in Session, NEW i \in Selects(t)'
               PROVE  /\ t \in joined /\ controller[t] = NoSession /\ ~Controls(t)
                      /\ \A j \in Selects(t)' : j = i
                      /\ \A u \in Playing : u # t /\ PlayerOf[u] = PlayerOf[t] =>
                            /\ controller[u] = NoSession /\ ~Controls(u)
                            /\ \A j \in Selects(u)' : i < j
    <3>1. Waiting' <=> \A t \in Session : \A i \in Selects(t)' :
              /\ t \in joined' /\ controller'[t] = NoSession /\ ~Controls(t)'
              /\ \A j \in Selects(t)' : j = i
              /\ \A u \in Playing' : u # t /\ PlayerOf[u] = PlayerOf[t] =>
                    /\ controller'[u] = NoSession /\ ~Controls(u)'
                    /\ \A j \in Selects(u)' : i < j
      BY DEF Waiting
    <3> QED BY <1>2, <1>5, <2>1, <3>1
  <2>2. CASE t = s /\ message = "SelectCharacter"
    BY <1>1, <1>4, <1>8, <2>2 DEF ServedInv, Chosen
  <2>3. CASE ~(t = s /\ message = "SelectCharacter")
    <3>1. Selects(t)' = Selects(t)
      BY <1>4, <2>3
    <3>2. \A u \in Session : \A j \in Selects(u)' : j \in Selects(u) \/ j = Len(posted) + 1
      BY <1>4
    <3> QED BY <1>9, <2>1, <3>1, <3>2 DEF ServedInv, Waiting
  <2> QED BY <2>2, <2>3
<1> QED BY <1>6, <1>7, <1>10 DEF ServedInv

\* The thread takes the first handler.  A choice it takes has no other in front of it.
LEMMA HandleServed ==
    ASSUME OneThread, ServiceInv, LoginInv, ServedInv, Handle
    PROVE  ServedInv'
<1>1. PICK i \in DOMAIN posted :
          \/ RefuseClientIdMsg(i) \/ HandleClientIdMsg(i)
          \/ HandleDisconnect(i) \/ HandleSelectCharacter(i)
  BY DEF Handle
<1>2. /\ Take(i)
      /\ UNCHANGED <<phase, connected, controlled, client, controller, joined, Playing>>
  BY <1>1 DEF RefuseClientIdMsg, HandleClientIdMsg, HandleDisconnect, HandleSelectCharacter,
     Playing
<1>3. PICK s \in Session : s = posted[i].session
  BY <1>2, NobodyBusy DEF ServiceInv
<1>4. /\ \A u \in Session : place[u] = "idle"
      /\ i = 1 /\ i \in 1 .. Len(posted) /\ s = posted[1].session
      /\ Len(posted') = Len(posted) - 1 /\ Len(posted) \in Nat
      /\ \A j \in 1 .. Len(posted) - 1 : posted'[j] = posted[j + 1]
  BY <1>2, <1>3, NobodyBusy, PostedTyped DEF ServiceInv
<1>5. \A u \in Session : place'[u] =
          IF u = s /\ posted[1].message = "SelectCharacter" THEN "control"
          ELSE IF u = s THEN place'[u] ELSE "idle"
  BY <1>1, <1>3, <1>4 DEF RefuseClientIdMsg, HandleClientIdMsg, HandleDisconnect,
     HandleSelectCharacter, Goto, ServiceInv, ServiceTypeOK
<1>6. posted[1].message # "SelectCharacter" => place'[s] \in {"idle", "close", "create"}
  BY <1>1, <1>3, <1>4 DEF RefuseClientIdMsg, HandleClientIdMsg, HandleDisconnect,
     HandleSelectCharacter, Goto, ServiceInv, ServiceTypeOK
<1>7. \A u \in Session :
          /\ ~Controls(u)
          /\ Controls(u)' <=> u = s /\ posted[1].message = "SelectCharacter"
          /\ place'[u] # "insert"
  BY <1>4, <1>5, <1>6 DEF Controls
<1>8. \A u \in Session : \A j \in Selects(u)' : j + 1 \in Selects(u) /\ j \in Nat /\ j >= 1
  BY <1>4 DEF Selects
<1>9. posted[1].message = "SelectCharacter" => 1 \in Selects(s)
  BY <1>4 DEF Selects
<1>10. Chosen'
  BY <1>2, <1>7, <1>8, <1>9 DEF ServedInv, Chosen
<1>11. Controlling'
  <2>1. ASSUME posted[1].message = "SelectCharacter"
        PROVE  /\ s \in joined /\ controller[s] = NoSession
               /\ \A u \in Playing : u # s /\ PlayerOf[u] = PlayerOf[s] =>
                    controller[u] = NoSession
    BY <1>9, <2>1 DEF ServedInv, Waiting
  <2> QED BY <1>2, <1>7, <2>1 DEF Controlling
<1>12. Waiting'
  <2>1. ASSUME NEW t \in Session, NEW j \in Selects(t)'
        PROVE  /\ t \in joined' /\ controller'[t] = NoSession /\ ~Controls(t)'
               /\ \A k \in Selects(t)' : k = j
               /\ \A u \in Playing' : u # t /\ PlayerOf[u] = PlayerOf[t] =>
                     /\ controller'[u] = NoSession /\ ~Controls(u)'
                     /\ \A k \in Selects(u)' : j < k
    <3>1. /\ j + 1 \in Selects(t) /\ j \in Nat /\ j + 1 # 1
          /\ \A k \in Selects(t)' : k + 1 \in Selects(t) /\ k \in Nat
      BY <1>8
    <3>2. /\ t \in joined /\ controller[t] = NoSession
          /\ \A k \in Selects(t) : k = j + 1
          /\ \A u \in Playing : u # t /\ PlayerOf[u] = PlayerOf[t] =>
                /\ controller[u] = NoSession
                /\ \A k \in Selects(u) : j + 1 < k
      BY <3>1 DEF ServedInv, Waiting
    <3>3. ~Controls(t)'
      BY <1>7, <1>9, <3>1, <3>2
    <3>4. \A k \in Selects(t)' : k = j
      BY <3>1, <3>2
    <3>5. ASSUME NEW u \in Playing, u # t, PlayerOf[u] = PlayerOf[t]
          PROVE  /\ ~Controls(u)' /\ \A k \in Selects(u)' : j < k
      <4>1. u \in Session
        BY DEF Playing, ServiceInv, ServiceTypeOK
      <4>2. \A k \in Selects(u) : j + 1 < k
        BY <3>2, <3>5
      <4>3. ~(u = s /\ posted[1].message = "SelectCharacter")
        BY <1>9, <3>1, <4>2
      <4>4. \A k \in Selects(u)' : j < k
        BY <1>8, <3>1, <4>1, <4>2
      <4> QED BY <1>7, <4>1, <4>3, <4>4
    <3> QED BY <1>2, <3>2, <3>3, <3>4, <3>5
  <2> QED BY <2>1 DEF Waiting
<1>13. Registered' /\ PlayingClientIsServed'
  BY <1>2 DEF ServedInv, Registered, PlayingClientIsServed
<1> QED BY <1>10, <1>11, <1>12, <1>13 DEF ServedInv

\* A client that is let in has chosen nothing yet.
LEMMA EnterServed ==
    ASSUME ServiceInv, LoginInv, ServedInv, NEW s \in Session,
           CreateGameSession(s) \/ Connect(s)
    PROVE  ServedInv'
<1>1. /\ UNCHANGED <<phase, posted, connected, controlled, client, controller>>
      /\ place[s] \in {"create", "connect"} /\ place'[s] \in {"connect", "idle"}
      /\ \A u \in Session : u # s => place'[u] = place[u]
      /\ joined' = joined \/ joined' = joined \cup {s}
  BY DEF CreateGameSession, Connect, Goto, ServiceInv, ServiceTypeOK
<1>2. s \notin joined
  BY <1>1 DEF LoginInv, Free
<1>3. \A u \in Session : (Controls(u)' <=> Controls(u)) /\ Selects(u)' = Selects(u)
  BY <1>1 DEF Controls, Selects
<1>4. controller[s] = NoSession /\ ~Controls(s) /\ Selects(s) = {}
  BY <1>2 DEF ServedInv, Registered, Controlling, Waiting
<1>5. joined \subseteq joined' /\ \A u \in Playing' : u \in Playing \/ u = s
  BY <1>1 DEF Playing
<1>6. \A u \in Session : place'[u] = "insert" => place[u] = "insert"
  BY <1>1
<1>7. Chosen' BY <1>1, <1>3 DEF ServedInv, Chosen
<1>8. Waiting'
  <2>1. \A u \in Playing' : u \in Session
    BY <1>5 DEF Playing, ServiceInv, ServiceTypeOK
  <2> QED BY <1>1, <1>3, <1>4, <1>5, <2>1 DEF ServedInv, Waiting
<1>9. Controlling' BY <1>1, <1>3, <1>4, <1>5, <1>6 DEF ServedInv, Controlling
<1>10. Registered' /\ PlayingClientIsServed'
  BY <1>1, <1>5 DEF ServedInv, Registered, PlayingClientIsServed
<1> QED BY <1>7, <1>8, <1>9, <1>10 DEF ServedInv

\* Session::Close: the clients that play become fewer.
LEMMA CloseServed ==
    ASSUME ServiceInv, LoginInv, ServedInv, NEW s \in Session,
           Close(s) \/ Disconnected(s) \/ RemoveSession(s) \/ EndGameSession(s)
    PROVE  ServedInv'
<1>1. /\ UNCHANGED <<phase, posted, controlled, client, controller, joined>>
      /\ place[s] \in {"close", "disconnect", "remove", "end"}
      /\ place'[s] \in {"disconnect", "remove", "end", "idle", "create"}
      /\ \A u \in Session : u # s => place'[u] = place[u]
      /\ \A u \in Session : connected'[u] => connected[u]
  BY DEF Close, Disconnected, RemoveSession, EndGameSession, AfterClose, Goto, ServiceInv,
     ServiceTypeOK
<1>2. \A u \in Session : Controls(u)' <=> Controls(u)
  BY <1>1 DEF Controls
<1>3. Playing' \subseteq Playing
  BY <1>1 DEF Playing, ServiceInv, ServiceTypeOK
<1>4. \A u \in Session : place'[u] = "insert" => place[u] = "insert"
  BY <1>1
<1> QED BY <1>1, <1>2, <1>3, <1>4, SameServed

\* The character's controller is made, or taken over from one who no longer plays.
LEMMA ControlServed ==
    ASSUME ServiceInv, LoginInv, ServedInv, NEW s \in Session,
           StartControllingObject(s) \/ InsertController(s)
    PROVE  ServedInv'
<1> DEFINE p == PlayerOf[s]
<1>1. /\ Controls(s) /\ \A u \in Session : u # s => place[u] = "idle"
      /\ UNCHANGED <<phase, posted, connected, joined, Playing>>
      /\ PlayerOf[s] \in Player
  BY OthersIdle, ConnectionAssumption DEF StartControllingObject, InsertController, Controls,
     Playing, LoginInv
<1>2. /\ s \in joined /\ controller[s] = NoSession
      /\ \A u \in Playing : u # s /\ PlayerOf[u] = PlayerOf[s] => controller[u] = NoSession
      /\ place[s] = "insert" => controlled[p] = NoSession
  BY <1>1 DEF ServedInv, Controlling
<1>3. /\ \A u \in Session : u # s => place'[u] = place[u] /\ controller'[u] = controller[u]
      /\ place'[s] \in {"idle", "insert"}
  BY DEF StartControllingObject, InsertController, Goto, ServiceInv, ServiceTypeOK
<1>4. \A u \in Session :
          /\ Selects(u)' = Selects(u)
          /\ Controls(u)' => u = s
          /\ Controls(u) <=> u = s
  BY <1>1, <1>3 DEF Controls, Selects
<1>5. /\ Selects(s) = {} /\ phase[s] \notin {"new", "open", "asked"}
      /\ \A t \in Session : Selects(t) # {} /\ PlayerOf[t] = p => s \notin Playing
  BY <1>1, <1>4 DEF ServedInv, Waiting, Chosen
<1>6. Chosen' BY <1>1, <1>3, <1>4, <1>5 DEF ServedInv, Chosen
<1>7. Waiting'
  <2>1. \A u \in Playing' : u \in Session
    BY <1>1 DEF Playing, ServiceInv, ServiceTypeOK
  <2> QED BY <1>1, <1>3, <1>4, <1>5, <2>1 DEF ServedInv, Waiting
<1>8. CASE controlled[p] # NoSession
  <2>1. /\ client' = [client EXCEPT ![controlled[p]] = s]
        /\ controller' = [controller EXCEPT ![s] = controlled[p]]
        /\ UNCHANGED controlled /\ place'[s] = "idle"
    BY <1>2, <1>8 DEF StartControllingObject, InsertController, Goto, ServiceInv, ServiceTypeOK
  <2>2. controlled[p] \in Session /\ controller'[s] = controlled[p]
        /\ client'[controlled[p]] = s
        /\ \A k \in Session : k # controlled[p] => client'[k] = client[k]
    BY <1>1, <1>8, <2>1 DEF ServiceInv, ServiceTypeOK
  <2>3. Controlling'
    BY <1>4, <2>1 DEF Controlling, Controls
  <2>4. Registered'
    BY <1>1, <1>2, <1>3, <2>1, <2>2 DEF ServedInv, Registered
  <2>5. ASSUME NEW u \in Session, connected[u], u # s, controller[u] # NoSession
        PROVE  controlled[PlayerOf[u]] = controller[u] /\ client'[controller[u]] = u
    <3>1. controlled[PlayerOf[u]] = controller[u] /\ client[controller[u]] = u /\ u \in Playing
      BY <2>5 DEF ServedInv, Registered, PlayingClientIsServed, Playing
    <3>2. PlayerOf[u] # p
      BY <1>2, <2>5, <3>1
    <3>3. PlayerOf[u] \in Player /\ controller[u] \in Session
      BY <2>5, ConnectionAssumption DEF ServiceInv, ServiceTypeOK
    <3>4. controller[u] # controlled[p]
      BY <1>1, <1>8, <2>5, <3>1, <3>2, <3>3 DEF ServedInv, Registered
    <3> QED BY <2>2, <3>1, <3>3, <3>4
  <2>6. PlayingClientIsServed'
    BY <1>1, <1>3, <2>1, <2>2, <2>5 DEF PlayingClientIsServed
  <2> QED BY <1>6, <1>7, <2>3, <2>4, <2>6 DEF ServedInv
<1>9. CASE controlled[p] = NoSession /\ place[s] = "control"
  <2>1. UNCHANGED <<controlled, client, controller>>
    BY <1>9 DEF StartControllingObject, InsertController
  <2>2. Controlling'
    BY <1>1, <1>2, <1>4, <1>9, <2>1 DEF Controlling
  <2>3. Registered' /\ PlayingClientIsServed'
    BY <1>1, <2>1 DEF ServedInv, Registered, PlayingClientIsServed
  <2> QED BY <1>6, <1>7, <2>2, <2>3 DEF ServedInv
<1>10. CASE controlled[p] = NoSession /\ place[s] = "insert"
  <2>1. /\ controlled'[p] = s /\ client'[s] = s /\ controller'[s] = s /\ place'[s] = "idle"
        /\ \A q \in Player : q # p => controlled'[q] = controlled[q]
        /\ \A k \in Session : k # s => client'[k] = client[k]
    BY <1>1, <1>10 DEF StartControllingObject, InsertController, Goto, ServiceInv, ServiceTypeOK
  <2>2. Controlling'
    BY <1>4, <2>1 DEF Controlling, Controls
  <2>3. \A u \in Session : u # s /\ controller[u] # NoSession =>
            PlayerOf[u] # p /\ PlayerOf[u] \in Player /\ u \in joined
            /\ controlled[PlayerOf[u]] = controller[u] /\ controller[u] \in Session
    BY <1>10, ConnectionAssumption DEF ServedInv, Registered, ServiceInv, ServiceTypeOK
  <2>4. Registered'
    BY <1>1, <1>2, <1>3, <2>1, <2>3 DEF ServedInv, Registered
  <2>5. \A u \in Session : u # s /\ controller[u] # NoSession => controller[u] # s
    BY <1>1, <2>3 DEF ServedInv, Registered
  <2>6. PlayingClientIsServed'
    BY <1>1, <1>3, <2>1, <2>3, <2>5 DEF ServedInv, PlayingClientIsServed
  <2> QED BY <1>6, <1>7, <2>2, <2>4, <2>6 DEF ServedInv
<1> QED BY <1>1, <1>8, <1>9, <1>10 DEF Controls

LEMMA ServedInitial == Init => ServedInv
<1> SUFFICES ASSUME Init PROVE ServedInv
  OBVIOUS
<1>1. \A s \in Session : Selects(s) = {} /\ ~Controls(s)
  BY DEF Init, Selects, Controls
<1> QED BY <1>1, ConnectionAssumption
        DEF Init, ServedInv, Chosen, Waiting, Controlling, Registered, PlayingClientIsServed

LEMMA ServedInductive ==
    OneThread /\ ServiceInv /\ LoginInv /\ ServedInv /\ [Next]_serviceVars => ServedInv'
<1> SUFFICES ASSUME OneThread, ServiceInv, LoginInv, ServedInv, [Next]_serviceVars
             PROVE  ServedInv'
  OBVIOUS
<1>1. CASE UNCHANGED serviceVars
  BY <1>1, SameServed DEF serviceVars, Controls, Playing
<1>2. CASE Handle
  BY <1>2, HandleServed
<1>3. ASSUME NEW s \in Session,
             Continue(s) \/ CreateSession(s) \/ \E message \in Message : Arrive(s, message)
      PROVE  ServedInv'
  BY <1>3, CreateServed, ArriveServed, EnterServed, CloseServed, ControlServed DEF Continue
<1> QED BY <1>1, <1>2, <1>3 DEF Next

\* With one thread, a connected client that has chosen its character is the one who gets
\* what is sent to the character, however often the player logged in before
\* (StartControllingObject, HandleSelectCharacter).
THEOREM ServedCorrect == OneThread /\ Spec => []PlayingClientIsServed
<1>1. ServedInv => PlayingClientIsServed
  BY DEF ServedInv
<1>2. OneThread => OneThread'
  BY DEF OneThread
<1> QED BY <1>1, <1>2, LoginInitial, LoginInductive, ServedInitial, ServedInductive,
           ServiceInvCorrect, PTL DEF Spec

-----------------------------------------------------------------------------
(* The scenes *)

(* Types *)

Made == [what : Object, at : Character, where : Position]
Addition == [now : Object, left : SUBSET Object, visited : Nat, making : Seq(Made)]
Picture == [where : Position, late : BOOLEAN, held : BOOLEAN]
Screen == UNION {[D -> Picture] : D \in SUBSET Object}

ScenesTypeOK ==
    /\ objects \in [Label -> SUBSET Object]
    /\ remote \in [Character -> Client \cup {NoClient}]
    /\ controls \in [Client -> Character \cup {0}]
    /\ online \subseteq Client
    /\ observers \in [Object -> SUBSET Character]
    /\ position \in [Object -> Position]
    /\ counter \in [Character -> Nat]
    /\ adding \in [Client -> Addition \cup {Idle}]
    /\ screen \in [Client -> Screen]

LEMMA ConstantFacts ==
    /\ DOMAIN Contents = Character /\ Character \subseteq Object /\ Object \subseteq Nat \ {0}
    /\ NoClient \notin Client /\ 0 \notin Character
    /\ Started \subseteq Label /\ SceneOf \in [Character -> Label]
    /\ \A o \in Character : Contents[o] \subseteq Object
    /\ \A o \in Character : \A x \in Contents[o] :
           x > o /\ x \notin Character /\ Container[x] = {o}
    /\ \A o \in Character : Container[o] = {}
    /\ \A x \in Object \ Character : \E o \in Character : x \in Contents[o]
    /\ \A x \in Object : x \in Nat /\ x > 0
<1>1. /\ DOMAIN Contents = Character /\ Object \subseteq Nat \ {0}
      /\ NoClient \notin Client
      /\ Started \subseteq Label /\ SceneOf \in [Character -> Label]
      /\ \A o \in Character : \A x \in Contents[o] : x > o /\ x \notin Character
      /\ \A o, other \in Character : o # other => Contents[o] \cap Contents[other] = {}
  BY ScenesAssumption
<1>2. Character \subseteq Object /\ \A o \in Character : Contents[o] \subseteq Object
  BY <1>1 DEF Object, Range
<1>3. \A x \in Object \ Character : \E o \in Character : x \in Contents[o]
  BY <1>1 DEF Object, Range
<1>4. \A o \in Character : Container[o] = {}
  BY <1>1, <1>2 DEF Container
<1>5. \A o \in Character : \A x \in Contents[o] : Container[x] = {o}
  <2> TAKE o \in Character
  <2> TAKE x \in Contents[o]
  <2>1. x \in Object /\ \A other \in Character : x \in Contents[other] => other = o
    BY <1>1, <1>2
  <2> QED BY <2>1 DEF Container
<1>6. \A x \in Object : x \in Nat /\ x > 0
  BY <1>1
<1> QED BY <1>1, <1>2, <1>3, <1>4, <1>5, <1>6

LEMMA MinOf ==
    ASSUME NEW S, S \subseteq Nat, S # {}
    PROVE  Min(S) \in S /\ \A m \in S : Min(S) <= m
<1>1. PICK n \in S : \A m \in S : ~(<<m, n>> \in OpToRel(<, Nat))
  BY NatLessThanWellFounded, WFMin
<1>2. \A m \in S : ~(m < n)
  <2>1. \A m \in S : m \in Nat /\ n \in Nat /\ <<m, n>> \in Nat \X Nat
    OBVIOUS
  <2> QED BY <1>1, <2>1 DEF OpToRel
<1>3. \A m \in S : n <= m
  BY <1>2
<1>4. \E k \in S : \A m \in S : k <= m
  BY <1>3
<1> QED BY <1>4 DEF Min

LEMMA AdditionFacts ==
    ASSUME ScenesTypeOK, NEW c \in Client, Adding(c)
    PROVE  /\ adding[c] \in Addition /\ adding[c].now \in Object
           /\ adding[c].left \subseteq Object /\ adding[c].visited \in Nat
           /\ adding[c].making \in Seq(Made)
<1>1. adding[c] \in Addition
  BY DEF ScenesTypeOK, Adding, Idle
<1> QED BY <1>1 DEF Addition

LEMMA PictureType ==
    ASSUME NEW shown \in Screen
    PROVE  /\ DOMAIN shown \subseteq Object
           /\ \A x \in DOMAIN shown : shown[x] \in Picture
           /\ shown = [x \in DOMAIN shown |-> shown[x]]
<1>1. PICK D \in SUBSET Object : shown \in [D -> Picture]
  BY DEF Screen
<1> QED BY <1>1

LEMMA ScreenType ==
    ASSUME NEW shown, DOMAIN shown \subseteq Object, shown = [x \in DOMAIN shown |-> shown[x]],
           \A x \in DOMAIN shown : shown[x] \in Picture
    PROVE  shown \in Screen
<1>1. shown \in [DOMAIN shown -> Picture]
  OBVIOUS
<1> QED BY <1>1 DEF Screen

\* What creating an object leaves a client with.
LEMMA CreateFacts ==
    ASSUME ScenesTypeOK, NEW shown \in Screen, NEW m \in Made
    PROVE  /\ Create(shown, m) \in Screen
           /\ DOMAIN Create(shown, m) = DOMAIN shown \cup {m.what}
           /\ \A x \in DOMAIN shown : x # m.what => Create(shown, m)[x] = shown[x]
           /\ Create(shown, m)[m.what].late \/ Create(shown, m)[m.what].where = position[m.what]
           /\ Create(shown, m)[m.what].held = (Container[m.what] \subseteq DOMAIN shown)
<1> DEFINE pic == [where |-> m.where, late |-> m.where # position[m.what],
                   held |-> Container[m.what] \subseteq DOMAIN shown]
           new == Create(shown, m)
<1>1. /\ DOMAIN new = DOMAIN shown \cup {m.what}
      /\ new = [x \in DOMAIN new |-> new[x]]
      /\ \A x \in DOMAIN shown : x # m.what => new[x] = shown[x]
      /\ new[m.what] = pic
  BY DEF Create
<1>2. m.what \in Object /\ m.where \in Position
  BY DEF Made
<1>3. pic \in Picture
  <2>1. (m.where # position[m.what]) \in BOOLEAN /\ (Container[m.what] \subseteq DOMAIN shown) \in BOOLEAN
    OBVIOUS
  <2> QED BY <1>2, <2>1, Zenon DEF Picture
<1>4. \A x \in DOMAIN new : new[x] \in Picture
  <2> HIDE DEF new, pic
  <2> QED BY <1>1, <1>3, PictureType
<1>5. DOMAIN new \subseteq Object
  BY <1>1, <1>2, PictureType
<1>6. new \in Screen
  <2> HIDE DEF new
  <2> QED BY <1>1, <1>4, <1>5, ScreenType
<1>7. pic.late \/ pic.where = position[m.what]
  OBVIOUS
<1>8. pic.held = (Container[m.what] \subseteq DOMAIN shown)
  OBVIOUS
<1> HIDE DEF new, pic
<1>9. Create(shown, m) = new
  BY DEF new
<1> QED BY <1>1, <1>6, <1>7, <1>8, <1>9

-----------------------------------------------------------------------------
(* The inductive invariant. *)

\* The creations a connection's thread has read and not sent.
Making(d) ==
    IF Adding(d) THEN {adding[d].making[i] : i \in DOMAIN adding[d].making} ELSE {}

Left(d) == IF Adding(d) THEN adding[d].left ELSE {}

\* The thread of d is about to create x at o's client.
Pends(d, x, o) == \E m \in Making(d) : m.what = x /\ m.at = o

\* The thread of d is adding y and is still to create it for what c plays.
Meeting(d, c, y) ==
    Adding(d) /\ adding[d].now = y /\ (controls[c] > adding[d].visited \/ Pends(d, y, controls[c]))

\* c's own thread, adding what c plays, is still to create x for it.
OwnVisit(c, x) ==
    /\ Adding(c) /\ adding[c].now = controls[c]
    /\ x > adding[c].visited \/ Pends(c, x, controls[c])

Reached(c, x) == x \in Shown(c) \/ OwnVisit(c, x)

Entered(c) == controls[c] # 0 /\ Scene(c) \in Started
InScene(c) == c \in online /\ Entered(c)

\* A controller has the one open connection that plays its character.
Controlled ==
    \A c \in online, o \in Character : remote[o] = c <=> controls[c] = o

\* What a thread is adding, and what of its character's is in the scene.
Inserted ==
    \A c \in Client :
        /\ Adding(c) => /\ Entered(c) /\ adding[c].left \subseteq Contents[controls[c]]
                        /\ adding[c].now \in objects[Scene(c)]
                        /\ adding[c].now \in {controls[c]} \cup Contents[controls[c]]
        /\ Entered(c) => /\ controls[c] \in objects[Scene(c)]
                         /\ Contents[controls[c]] \subseteq objects[Scene(c)] \cup Left(c)

\* A scene holds its own characters and what they contain.
Housed ==
    \A s \in Label : \A x \in objects[s] : \E o \in objects[s] \cap Character :
        SceneOf[o] = s /\ x \in {o} \cup Contents[o]

\* A creation is of an object of the scene, for one of its observers there; one for the
\* object that is being added is of the object visited.
MadeInScene ==
    \A c \in Client : \A m \in Making(c) :
        /\ m.what \in objects[Scene(c)] /\ m.at \in objects[Scene(c)]
        /\ m.at \in observers[m.what]
        /\ m.at = adding[c].now => m.what = adding[c].visited

\* What a client shows is of its scene and observed by it, is where the object is, and
\* came after what contains it or will be created again.
Pictured ==
    \A c \in online : \A x \in Shown(c) :
        /\ Entered(c) /\ x \in objects[Scene(c)] /\ controls[c] \in observers[x]
        /\ screen[c][x].late \/ screen[c][x].where = position[x]
        /\ screen[c][x].held \/ OwnVisit(c, x)

\* What is in the scene is reached by its own visit or is still being added.
Covered ==
    \A c \in online : InScene(c) =>
        \A y \in objects[Scene(c)] : Reached(c, y) \/ \E d \in Client : Meeting(d, c, y)

\* Whom a thread has visited with an object has it, and so they have its container.
Met ==
    \A c \in online, d \in Client : InScene(c) /\ Adding(d) /\ Scene(d) = Scene(c) =>
        /\ Reached(c, adding[d].now) \/ Meeting(d, c, adding[d].now)
        /\ adding[d].now # controls[d] => Reached(c, controls[d])

\* What contains an object of the scene was there before it.
Carried ==
    \A c \in online : InScene(c) =>
        \A y \in Character : \A x \in Contents[y] \cap objects[Scene(c)] : Reached(c, y)

ScenesInv ==
    /\ ScenesTypeOK /\ Controlled /\ Inserted /\ Housed /\ MadeInScene
    /\ Pictured /\ Covered /\ Met /\ Carried

LEMMA SceneFacts ==
    ASSUME ScenesTypeOK
    PROVE  /\ \A c \in Client : Entered(c) => /\ Scene(c) \in Label /\ objects[Scene(c)] \subseteq Object
                                              /\ controls[c] \in Character /\ controls[c] \in Nat
           /\ \A c \in Client : controls[c] \in Character \cup {0}
           /\ \A c \in Client : \A m \in Making(c) : m \in Made
<1>1. ASSUME NEW c \in Client, Entered(c)
      PROVE  /\ Scene(c) \in Label /\ objects[Scene(c)] \subseteq Object
             /\ controls[c] \in Character /\ controls[c] \in Nat
  BY <1>1, ConstantFacts DEF ScenesTypeOK, Entered
<1>2. ASSUME NEW c \in Client, NEW m \in Making(c) PROVE m \in Made
  <2>1. Adding(c) /\ \E i \in DOMAIN adding[c].making : m = adding[c].making[i]
    BY <1>2 DEF Making
  <2>2. adding[c].making \in Seq(Made)
    BY <2>1, AdditionFacts
  <2> QED BY <2>1, <2>2
<1> QED BY <1>1, <1>2 DEF ScenesTypeOK

-----------------------------------------------------------------------------
(* What each step changes. *)

Entry(x, o) == [what |-> x, at |-> o, where |-> position[x]]

LEMMA VisitFacts ==
    ASSUME ScenesTypeOK, Inserted, NEW c \in Client, Visit(c), NEW object, NEW stored,
           object = adding[c].now, stored = Min(Unvisited(c))
    PROVE  /\ Adding(c) /\ Entered(c) /\ object \in objects[Scene(c)] /\ stored \in objects[Scene(c)]
           /\ object \in Object /\ stored \in Object
           /\ stored > adding[c].visited
           /\ \A x \in objects[Scene(c)] : x > adding[c].visited => x >= stored
           /\ adding' \in [Client -> Addition \cup {Idle}]
           /\ observers' \in [Object -> SUBSET Character]
           /\ \A x \in Object : observers[x] \subseteq observers'[x]
           /\ HasController(object) => object \in observers'[stored]
           /\ HasController(stored) => stored \in observers'[object]
           /\ Making(c) = {}
           /\ Making(c)' = (IF HasController(object) THEN {Entry(stored, object)} ELSE {})
                            \cup (IF HasController(stored) THEN {Entry(object, stored)} ELSE {})
           /\ adding'[c].visited = stored
           /\ \A d \in Client : /\ Adding(d)' = Adding(d) /\ adding'[d].now = adding[d].now
                                /\ Left(d)' = Left(d)
                                /\ adding[d].left = adding'[d].left
                                /\ d # c => adding'[d] = adding[d] /\ Making(d)' = Making(d)
<1>1. Adding(c) /\ adding[c].making = <<>> /\ Unvisited(c) # {}
  BY DEF Visit
<1>2. /\ adding[c] \in Addition /\ object \in Object
      /\ adding[c].left \subseteq Object /\ adding[c].visited \in Nat
  BY <1>1, AdditionFacts
<1>3. /\ Entered(c) /\ object \in objects[Scene(c)] /\ objects[Scene(c)] \subseteq Object
  BY <1>1, SceneFacts DEF Inserted
<1>4. Unvisited(c) \subseteq Nat /\ Unvisited(c) \subseteq objects[Scene(c)]
  BY <1>3, ConstantFacts DEF Unvisited
<1>5. stored \in Unvisited(c) /\ \A x \in Unvisited(c) : stored <= x
  BY <1>1, <1>4, MinOf
<1>6. /\ stored \in objects[Scene(c)] /\ stored \in Object /\ stored \in Nat
      /\ stored > adding[c].visited
      /\ \A x \in objects[Scene(c)] : x > adding[c].visited => x >= stored
  BY <1>3, <1>4, <1>5, ConstantFacts DEF Unvisited
<1> DEFINE one == AddAwareObject(stored, object)
           two == AddAwareObject(object, stored)
           making == one \o two
<1>7. /\ one \in Seq(Made) /\ {one[i] : i \in DOMAIN one} = IF HasController(object) THEN {Entry(stored, object)} ELSE {}
  <2>1. HasController(object) => Entry(stored, object) \in Made
    BY <1>6 DEF HasController, Entry, Made, ScenesTypeOK
  <2> QED BY <2>1 DEF AddAwareObject, Entry
<1>8. /\ two \in Seq(Made) /\ {two[i] : i \in DOMAIN two} = IF HasController(stored) THEN {Entry(object, stored)} ELSE {}
  <2>1. HasController(stored) => Entry(object, stored) \in Made
    BY <1>2 DEF HasController, Entry, Made, ScenesTypeOK
  <2> QED BY <2>1 DEF AddAwareObject, Entry
<1>9. /\ making \in Seq(Made)
      /\ {making[i] : i \in DOMAIN making} = {one[i] : i \in DOMAIN one} \cup {two[i] : i \in DOMAIN two}
  <2> HIDE DEF one, two
  <2>1. /\ making \in Seq(Made) /\ Len(making) = Len(one) + Len(two)
        /\ \A i \in 1 .. Len(making) : making[i] = IF i <= Len(one) THEN one[i] ELSE two[i - Len(one)]
    BY <1>7, <1>8
  <2>2. /\ Len(one) \in Nat /\ Len(two) \in Nat /\ DOMAIN one = 1 .. Len(one) /\ DOMAIN two = 1 .. Len(two)
        /\ DOMAIN making = 1 .. Len(making)
    BY <1>7, <1>8, <2>1
  <2> HIDE DEF making
  <2>3. \A i \in DOMAIN one : i \in DOMAIN making /\ making[i] = one[i]
    BY <2>1, <2>2
  <2>4. \A i \in DOMAIN two : i + Len(one) \in DOMAIN making /\ making[i + Len(one)] = two[i]
    BY <2>1, <2>2
  <2>5. \A i \in DOMAIN making : \/ i \in DOMAIN one /\ making[i] = one[i]
                                 \/ i - Len(one) \in DOMAIN two /\ making[i] = two[i - Len(one)]
    BY <2>1, <2>2
  <2> QED BY <2>1, <2>3, <2>4, <2>5
<1> HIDE DEF one, two, making
<1>10. adding' = [adding EXCEPT ![c] = [@ EXCEPT !.making = making, !.visited = stored]]
  BY DEF Visit, one, two, making
<1>11. /\ adding'[c].making = making /\ adding'[c].visited = stored /\ adding'[c].now = object
       /\ adding'[c].left = adding[c].left /\ adding'[c] \in Addition
       /\ \A d \in Client : d # c => adding'[d] = adding[d]
       /\ adding' \in [Client -> Addition \cup {Idle}]
  BY <1>2, <1>6, <1>9, <1>10 DEF Addition, ScenesTypeOK
<1>12. \A d \in Client : Adding(d)' = Adding(d) /\ adding'[d].now = adding[d].now /\ adding'[d].left = adding[d].left
  BY <1>11 DEF Adding
<1>13. /\ Making(c) = {} /\ Making(c)' = {making[i] : i \in DOMAIN making}
       /\ \A d \in Client : Left(d)' = Left(d) /\ (d # c => Making(d)' = Making(d))
  <2>1. Making(c) = {}
    BY <1>1 DEF Making
  <2>2. Adding(c)'
    BY <1>1, <1>12
  <2>3. Making(c)' = {making[i] : i \in DOMAIN making}
    BY <2>2, <1>11 DEF Making
  <2>4. \A d \in Client : Left(d)' = Left(d)
    BY <1>12 DEF Left
  <2>5. ASSUME NEW d \in Client, d # c PROVE Making(d)' = Making(d)
    <3>1. adding'[d] = adding[d] /\ Adding(d)' = Adding(d)
      BY <1>11, <1>12, <2>5
    <3> QED BY <3>1 DEF Making
  <2> QED BY <2>1, <2>3, <2>4, <2>5
<1>14. observers' = [x \in Object |-> observers[x]
            \cup (IF x = stored /\ HasController(object) THEN {object} ELSE {})
            \cup (IF x = object /\ HasController(stored) THEN {stored} ELSE {})]
  BY DEF Visit
<1>15. /\ observers' \in [Object -> SUBSET Character]
       /\ \A x \in Object : observers[x] \subseteq observers'[x]
       /\ HasController(object) => object \in observers'[stored]
       /\ HasController(stored) => stored \in observers'[object]
  BY <1>2, <1>6, <1>14 DEF ScenesTypeOK, HasController
<1> QED BY <1>1, <1>2, <1>3, <1>6, <1>7, <1>8, <1>9, <1>11, <1>12, <1>13, <1>15

LEMMA MakeCleanFacts ==
    ASSUME ScenesTypeOK, NEW c \in Client, MakeClean(c), NEW made, made = Head(adding[c].making)
    PROVE  /\ made \in Making(c) /\ Making(c)' \subseteq Making(c)
           /\ Making(c) \subseteq Making(c)' \cup {made}
           /\ adding' \in [Client -> Addition \cup {Idle}]
           /\ \A d \in Client : /\ Adding(d)' = Adding(d) /\ adding'[d].now = adding[d].now
                                /\ Left(d)' = Left(d) /\ adding[d].left = adding'[d].left
                                /\ adding'[d].visited = adding[d].visited
                                /\ d # c => Making(d)' = Making(d)
<1>1. Adding(c) /\ adding[c].making # <<>>
  BY DEF MakeClean
<1>2. /\ adding[c] \in Addition /\ adding[c].making \in Seq(Made)
      /\ adding[c].left \subseteq Object /\ adding[c].visited \in Nat
  BY <1>1, AdditionFacts
<1> DEFINE was == adding[c].making
           is == Tail(was)
<1>3. was \in Seq(Made) /\ was # <<>>
  BY <1>1, <1>2
<1>4. /\ is \in Seq(Made) /\ Len(was) \in Nat \ {0} /\ Len(is) = Len(was) - 1
      /\ DOMAIN was = 1 .. Len(was) /\ DOMAIN is = 1 .. Len(is)
      /\ \A i \in 1 .. Len(is) : is[i] = was[i + 1]
      /\ Head(was) = was[1]
  <2> HIDE DEF was
  <2> QED BY <1>3
<1>5. adding' = [adding EXCEPT ![c] = [@ EXCEPT !.making = is]]
  BY DEF MakeClean
<1> HIDE DEF was, is
<1>6. /\ adding'[c].making = is /\ adding'[c].visited = adding[c].visited
      /\ adding'[c].now = adding[c].now /\ adding'[c].left = adding[c].left
      /\ adding'[c] \in Addition
      /\ \A d \in Client : d # c => adding'[d] = adding[d]
      /\ adding' \in [Client -> Addition \cup {Idle}]
  BY <1>2, <1>4, <1>5 DEF Addition, ScenesTypeOK
<1>7. \A d \in Client : /\ Adding(d)' = Adding(d) /\ adding'[d].now = adding[d].now
                        /\ adding'[d].left = adding[d].left /\ adding'[d].visited = adding[d].visited
  BY <1>6 DEF Adding
<1>8. \A d \in Client : Left(d)' = Left(d)
  BY <1>7 DEF Left
<1>9. ASSUME NEW d \in Client, d # c PROVE Making(d)' = Making(d)
  <2>1. adding'[d] = adding[d] /\ Adding(d)' = Adding(d)
    BY <1>6, <1>7, <1>9
  <2> QED BY <2>1 DEF Making
<1>10. Making(c) = {was[i] : i \in DOMAIN was}
  BY <1>1 DEF Making, was
<1>11. Making(c)' = {is[i] : i \in DOMAIN is}
  BY <1>1, <1>6, <1>7 DEF Making
<1>12. made = was[1] /\ 1 \in DOMAIN was
  BY <1>4 DEF was
<1>13. \A i \in DOMAIN is : i + 1 \in DOMAIN was /\ is[i] = was[i + 1]
  BY <1>4
<1>14. \A i \in DOMAIN was : i = 1 \/ (i - 1 \in DOMAIN is /\ was[i] = is[i - 1])
  BY <1>4
<1>15. made \in Making(c) /\ Making(c)' \subseteq Making(c)
  BY <1>10, <1>11, <1>12, <1>13
<1>16. Making(c) \subseteq Making(c)' \cup {made}
  BY <1>10, <1>11, <1>12, <1>14
<1> QED BY <1>6, <1>7, <1>8, <1>9, <1>15, <1>16

\* The creation reaches the one client that plays its observer, if there is one.
LEMMA ScreenFacts ==
    ASSUME ScenesTypeOK, NEW c \in Client, MakeClean(c), NEW made, made = Head(adding[c].making)
    PROVE  /\ screen' \in [Client -> Screen]
           /\ \A d \in Client : \/ screen'[d] = screen[d] /\ ~(d \in online /\ remote[made.at] = d)
                                \/ /\ d \in online /\ remote[made.at] = d
                                   /\ screen'[d] = Create(screen[d], made)
<1>1. made \in Made
  BY MakeCleanFacts, SceneFacts
<1> DEFINE to == remote[made.at]
<1>2. screen' = IF to \in online THEN [screen EXCEPT ![to] = Create(@, made)] ELSE screen
  BY DEF MakeClean
<1>3. screen \in [Client -> Screen] /\ online \subseteq Client
  BY DEF ScenesTypeOK
<1>4. \A d \in Client : Create(screen[d], made) \in Screen
  BY <1>1, <1>3, CreateFacts
<1> HIDE DEF to
<1>5. CASE to \in online
  BY <1>2, <1>3, <1>4, <1>5 DEF to
<1>6. CASE to \notin online
  BY <1>2, <1>3, <1>6 DEF to
<1> QED BY <1>5, <1>6

LEMMA AddContainedFacts ==
    ASSUME ScenesTypeOK, Inserted, NEW c \in Client, AddContained(c)
    PROVE  /\ Adding(c) /\ Entered(c) /\ Making(c) = {} /\ Making(c)' = {}
           /\ \A x \in objects[Scene(c)] : ~(x > adding[c].visited)
           /\ adding' \in [Client -> Addition \cup {Idle}]
           /\ objects' \in [Label -> SUBSET Object]
           /\ \A s \in Label : objects[s] \subseteq objects'[s]
           /\ \A d \in Client : d # c => adding'[d] = adding[d] /\ Adding(d)' = Adding(d)
                                       /\ Making(d)' = Making(d) /\ Left(d)' = Left(d)
           /\ \/ /\ adding[c].left = {} /\ ~Adding(c)' /\ Left(c)' = {} /\ objects' = objects
              \/ \E next \in adding[c].left :
                    /\ Adding(c)' /\ adding'[c].now = next /\ Left(c)' = adding[c].left \ {next}
                    /\ adding'[c].left = adding[c].left \ {next}
                    /\ adding'[c].visited = 0
                    /\ objects' = [objects EXCEPT ![Scene(c)] = @ \cup {next}]
<1>1. Adding(c) /\ adding[c].making = <<>> /\ Unvisited(c) = {}
  BY DEF AddContained
<1>2. /\ adding[c] \in Addition /\ adding[c].left \subseteq Object
  BY <1>1, AdditionFacts
<1>3. Entered(c) /\ Scene(c) \in Label
  BY <1>1, SceneFacts DEF Inserted
<1>4. Making(c) = {} /\ \A x \in objects[Scene(c)] : ~(x > adding[c].visited)
  BY <1>1 DEF Making, Unvisited
<1>5. CASE adding[c].left = {}
  <2>1. adding' = [adding EXCEPT ![c] = Idle] /\ objects' = objects
    BY <1>5 DEF AddContained
  <2>2. /\ adding' \in [Client -> Addition \cup {Idle}] /\ adding'[c] = Idle
        /\ \A d \in Client : d # c => adding'[d] = adding[d]
    BY <2>1 DEF ScenesTypeOK
  <2>3. ~Adding(c)' /\ \A d \in Client : d # c => Adding(d)' = Adding(d)
    BY <2>2 DEF Adding, Idle
  <2>4. Making(c)' = {} /\ Left(c)' = {}
    BY <2>3 DEF Making, Left
  <2>5. ASSUME NEW d \in Client, d # c PROVE Making(d)' = Making(d) /\ Left(d)' = Left(d)
    <3>1. adding'[d] = adding[d] /\ Adding(d)' = Adding(d)
      BY <2>2, <2>3, <2>5
    <3> QED BY <3>1 DEF Making, Left
  <2> QED BY <1>1, <1>3, <1>4, <1>5, <2>1, <2>2, <2>3, <2>4, <2>5 DEF ScenesTypeOK
<1>6. CASE adding[c].left # {}
  <2> DEFINE next == Min(adding[c].left)
  <2>1. next \in adding[c].left
    BY <1>2, <1>6, ConstantFacts, MinOf
  <2>2. /\ adding' = [adding EXCEPT ![c] = AddObject(next, adding[c].left \ {next})]
        /\ objects' = [objects EXCEPT ![Scene(c)] = @ \cup {next}]
    BY <1>6 DEF AddContained, InsertObject
  <2> HIDE DEF next
  <2>3. next \in Object /\ next # 0
    BY <1>2, <2>1, ConstantFacts
  <2>4. /\ adding'[c] = AddObject(next, adding[c].left \ {next})
        /\ \A d \in Client : d # c => adding'[d] = adding[d]
    BY <2>2 DEF ScenesTypeOK
  <2>5. AddObject(next, adding[c].left \ {next}) \in Addition
    BY <1>2, <2>3 DEF AddObject, Addition
  <2>6. adding' \in [Client -> Addition \cup {Idle}]
    BY <2>2, <2>5 DEF ScenesTypeOK
  <2>7. /\ adding'[c].now = next /\ adding'[c].left = adding[c].left \ {next}
        /\ adding'[c].visited = 0 /\ adding'[c].making = <<>>
    BY <2>4 DEF AddObject
  <2>8. Adding(c)' /\ \A d \in Client : d # c => Adding(d)' = Adding(d)
    BY <2>3, <2>4, <2>7 DEF Adding
  <2>9. Making(c)' = {} /\ Left(c)' = adding[c].left \ {next}
    BY <2>7, <2>8 DEF Making, Left
  <2>10. ASSUME NEW d \in Client, d # c PROVE Making(d)' = Making(d) /\ Left(d)' = Left(d)
    <3>1. adding'[d] = adding[d] /\ Adding(d)' = Adding(d)
      BY <2>4, <2>8, <2>10
    <3> QED BY <3>1 DEF Making, Left
  <2>11. objects' \in [Label -> SUBSET Object] /\ \A s \in Label : objects[s] \subseteq objects'[s]
    BY <1>3, <2>2, <2>3 DEF ScenesTypeOK
  <2> QED BY <1>1, <1>3, <1>4, <2>1, <2>2, <2>4, <2>6, <2>7, <2>8, <2>9, <2>10, <2>11
<1> QED BY <1>5, <1>6

LEMMA SelectFacts ==
    ASSUME ScenesInv, NEW c \in Client, NEW o \in Character, SelectCharacter(c, o)
    PROVE  /\ c \in online /\ controls[c] = 0 /\ \A other \in online : controls[other] # o
           /\ ~Adding(c) /\ Making(c) = {} /\ Shown(c) = {}
           /\ remote' = [remote EXCEPT ![o] = c] /\ controls' = [controls EXCEPT ![c] = o]
           /\ observers' \in [Object -> SUBSET Character]
           /\ \A x \in Object : observers[x] \subseteq observers'[x]
           /\ adding' \in [Client -> Addition \cup {Idle}]
           /\ objects' \in [Label -> SUBSET Object]
           /\ \A s \in Label : objects[s] \subseteq objects'[s]
           /\ Making(c)' = {}
           /\ \A d \in Client : d # c => adding'[d] = adding[d] /\ Adding(d)' = Adding(d)
                                       /\ Making(d)' = Making(d) /\ Left(d)' = Left(d)
           /\ \/ /\ SceneOf[o] \notin Started /\ ~Adding(c)' /\ objects' = objects
              \/ /\ SceneOf[o] \in Started /\ Adding(c)' /\ adding'[c].now = o
                 /\ adding'[c].left = Contents[o] /\ Left(c)' = Contents[o]
                 /\ adding'[c].visited = 0
                 /\ objects' = [objects EXCEPT ![SceneOf[o]] = @ \cup {o}]
<1>1. /\ c \in online /\ controls[c] = 0 /\ \A other \in online : controls[other] # o
      /\ remote' = [remote EXCEPT ![o] = c] /\ controls' = [controls EXCEPT ![c] = o]
      /\ observers' = IF HasController(o) THEN observers ELSE [observers EXCEPT ![o] = @ \cup {o}]
  BY DEF SelectCharacter, GiveController
<1>2. ScenesTypeOK /\ Inserted /\ Pictured
  BY DEF ScenesInv
<1>3. ~Adding(c) /\ Making(c) = {} /\ Shown(c) = {}
  BY <1>1, <1>2 DEF Inserted, Pictured, Entered, Making
<1>4. o \in Object /\ o # 0 /\ Contents[o] \subseteq Object
  BY ConstantFacts
<1>5. /\ observers' \in [Object -> SUBSET Character]
      /\ \A x \in Object : observers[x] \subseteq observers'[x]
  BY <1>1, <1>2, <1>4 DEF ScenesTypeOK
<1>6. CASE SceneOf[o] \notin Started
  <2>1. adding' = adding /\ objects' = objects
    BY <1>6 DEF SelectCharacter
  <2>2. \A d \in Client : adding'[d] = adding[d] /\ Adding(d)' = Adding(d)
    BY <2>1 DEF Adding
  <2>3. \A d \in Client : Making(d)' = Making(d) /\ Left(d)' = Left(d)
    BY <2>1, <2>2 DEF Making, Left
  <2> QED BY <1>1, <1>2, <1>3, <1>5, <1>6, <2>1, <2>2, <2>3 DEF ScenesTypeOK
<1>7. CASE SceneOf[o] \in Started
  <2>1. /\ adding' = [adding EXCEPT ![c] = AddObject(o, Contents[o])]
        /\ objects' = [objects EXCEPT ![SceneOf[o]] = @ \cup {o}]
    BY <1>7 DEF SelectCharacter, InsertObject
  <2>2. SceneOf[o] \in Label
    BY ConstantFacts
  <2>3. AddObject(o, Contents[o]) \in Addition
    BY <1>4 DEF AddObject, Addition
  <2>4. /\ adding' \in [Client -> Addition \cup {Idle}] /\ adding'[c] = AddObject(o, Contents[o])
        /\ \A d \in Client : d # c => adding'[d] = adding[d]
    BY <1>2, <2>1, <2>3 DEF ScenesTypeOK
  <2>5. /\ adding'[c].now = o /\ adding'[c].left = Contents[o]
        /\ adding'[c].visited = 0 /\ adding'[c].making = <<>>
    BY <2>4 DEF AddObject
  <2>6. Adding(c)' /\ \A d \in Client : d # c => Adding(d)' = Adding(d)
    BY <1>4, <2>4, <2>5 DEF Adding
  <2>7. Making(c)' = {} /\ Left(c)' = Contents[o]
    BY <2>5, <2>6 DEF Making, Left
  <2>8. ASSUME NEW d \in Client, d # c PROVE Making(d)' = Making(d) /\ Left(d)' = Left(d)
    <3>1. adding'[d] = adding[d] /\ Adding(d)' = Adding(d)
      BY <2>4, <2>6, <2>8
    <3> QED BY <3>1 DEF Making, Left
  <2>9. objects' \in [Label -> SUBSET Object] /\ \A s \in Label : objects[s] \subseteq objects'[s]
    BY <1>2, <1>4, <2>1, <2>2 DEF ScenesTypeOK
  <2> QED BY <1>1, <1>3, <1>5, <1>7, <2>1, <2>4, <2>5, <2>6, <2>7, <2>8, <2>9
<1> QED BY <1>6, <1>7

\* The steps that move objects or end a connection leave scenes and visits alone.
Quiet ==
    /\ UNCHANGED <<objects, remote, controls, observers, adding>>
    /\ online' \subseteq online
    /\ \A d \in online' : Shown(d)' = Shown(d)

\* A picture that is changed is kept as it is, or shows where the object is now.
LEMMA ReadyFacts ==
    ASSUME ScenesTypeOK, NEW c \in Client, HandleCmdSceneReady(c)
    PROVE  /\ Quiet /\ ScenesTypeOK'
           /\ \A d \in online' : \A x \in Shown(d) :
                 /\ screen'[d][x].held = screen[d][x].held
                 /\ (screen[d][x].late \/ screen[d][x].where = position[x]) =>
                        (screen'[d][x].late \/ screen'[d][x].where = position'[x])
<1> DEFINE o == controls[c]
           old == screen[c][o]
           new == [old EXCEPT !.where = position[o], !.late = FALSE]
<1>1. /\ c \in online /\ counter' = [counter EXCEPT ![o] = @ + 1]
      /\ screen' = IF o \notin Shown(c) THEN screen ELSE [screen EXCEPT ![c][o] = new]
      /\ UNCHANGED <<objects, remote, controls, online, observers, position, adding>>
  BY DEF HandleCmdSceneReady
<1>2. counter' \in [Character -> Nat]
  <2>1. counter \in [Character -> Nat]
    BY DEF ScenesTypeOK
  <2>2. \A other \in Character : counter'[other] \in Nat
    BY <1>1, <2>1
  <2> QED BY <1>1, <2>1, <2>2
<1>3. CASE o \notin Shown(c)
  <2>1. screen' = screen
    BY <1>1, <1>3
  <2> QED BY <1>1, <1>2, <2>1 DEF Quiet, Shown, ScenesTypeOK
<1>4. CASE o \in Shown(c)
  <2>1. screen \in [Client -> Screen] /\ screen[c] \in Screen
    BY DEF ScenesTypeOK
  <2>2. o \in Object /\ old \in Picture
    BY <1>4, <2>1, PictureType DEF Shown
  <2>3. position[o] \in Position
    BY <2>2 DEF ScenesTypeOK
  <2>4. new \in Picture /\ new.held = old.held /\ new.where = position[o]
    BY <2>2, <2>3 DEF Picture
  <2> DEFINE shown == [screen[c] EXCEPT ![o] = new]
  <2> HIDE DEF new, old, o
  <2>5. /\ DOMAIN shown = Shown(c) /\ shown[o] = new /\ shown = [x \in DOMAIN shown |-> shown[x]]
        /\ \A x \in Shown(c) : x # o => shown[x] = screen[c][x]
    BY <1>4 DEF Shown
  <2>6. \A x \in Shown(c) : x \in Object /\ screen[c][x] \in Picture
    BY <2>1, PictureType DEF Shown
  <2>7. shown \in Screen
    <3> HIDE DEF shown
    <3>1. \A x \in DOMAIN shown : shown[x] \in Picture
      BY <2>4, <2>5, <2>6
    <3> QED BY <2>5, <2>6, <3>1, ScreenType
  <2>8. screen' = [screen EXCEPT ![c] = shown]
    BY <1>1, <1>4
  <2> HIDE DEF shown
  <2>9. screen' \in [Client -> Screen] /\ screen'[c] = shown /\ \A d \in Client : d # c => screen'[d] = screen[d]
    BY <2>1, <2>7, <2>8
  <2>10. ScenesTypeOK'
    BY <1>1, <1>2, <2>9 DEF ScenesTypeOK
  <2>11. \A d \in Client : Shown(d)' = Shown(d)
    BY <2>5, <2>9 DEF Shown
  <2>12. ASSUME NEW d \in online', NEW x \in Shown(d)
         PROVE  /\ screen'[d][x].held = screen[d][x].held
                /\ (screen[d][x].late \/ screen[d][x].where = position[x]) =>
                       (screen'[d][x].late \/ screen'[d][x].where = position'[x])
    <3>1. d \in Client
      BY <1>1 DEF ScenesTypeOK
    <3>2. CASE d = c /\ x = o
      BY <1>1, <2>4, <2>5, <2>9, <3>2 DEF old
    <3>3. CASE ~(d = c /\ x = o)
      BY <1>1, <2>5, <2>9, <3>1, <3>3
    <3> QED BY <3>2, <3>3
  <2>13. online \subseteq Client
    BY DEF ScenesTypeOK
  <2> QED BY <1>1, <2>10, <2>11, <2>12, <2>13 DEF Quiet
<1> QED BY <1>3, <1>4

LEMMA TransformFacts ==
    ASSUME ScenesTypeOK, Controlled, Pictured,
           NEW c \in Client, NEW p \in Position, NEW n \in 1 .. MaxCounter, HandleDataTransform(c, p, n)
    PROVE  /\ Quiet /\ ScenesTypeOK'
           /\ \A d \in online' : \A x \in Shown(d) :
                 /\ screen'[d][x].held = screen[d][x].held
                 /\ (screen[d][x].late \/ screen[d][x].where = position[x]) =>
                        (screen'[d][x].late \/ screen'[d][x].where = position'[x])
<1> DEFINE o == controls[c]
<1>1. /\ c \in online /\ o # 0 /\ counter' = [counter EXCEPT ![o] = n + 1]
      /\ position' = [position EXCEPT ![o] = p] /\ screen' = Update(o, p)
      /\ UNCHANGED <<objects, remote, controls, online, observers, adding>>
  BY DEF HandleDataTransform
<1>2. o \in Character /\ o \in Object
  BY <1>1, ConstantFacts DEF ScenesTypeOK
<1>3. /\ counter' \in [Character -> Nat] /\ position' \in [Object -> Position]
      /\ position'[o] = p /\ \A x \in Object : x # o => position'[x] = position[x]
  <2>1. n + 1 \in Nat
    OBVIOUS
  <2> HIDE DEF o
  <2> QED BY <1>1, <1>2, <2>1 DEF ScenesTypeOK
<1> HIDE DEF o
<1> DEFINE sees(d) == d \in online /\ o \in Shown(d) /\ \E other \in observers[o] : remote[other] = d
           new(d) == [screen[d][o] EXCEPT !.where = p, !.late = FALSE]
           shown(d) == [screen[d] EXCEPT ![o] = new(d)]
<1>4. screen' = [d \in Client |-> IF sees(d) THEN shown(d) ELSE screen[d]]
  BY <1>1 DEF Update
<1>5. \A d \in Client : screen[d] \in Screen
  BY DEF ScenesTypeOK
<1>6. ASSUME NEW d \in Client, sees(d)
      PROVE  /\ shown(d) \in Screen /\ DOMAIN shown(d) = Shown(d)
             /\ shown(d)[o].where = p /\ shown(d)[o].held = screen[d][o].held
             /\ \A x \in Shown(d) : x # o => shown(d)[x] = screen[d][x]
  <2>1. screen[d][o] \in Picture /\ o \in Shown(d)
    BY <1>5, <1>6, PictureType DEF Shown
  <2>2. new(d) \in Picture /\ new(d).where = p /\ new(d).held = screen[d][o].held
    BY <2>1 DEF Picture
  <2> HIDE DEF new
  <2>3. /\ DOMAIN shown(d) = Shown(d) /\ shown(d)[o] = new(d)
        /\ shown(d) = [x \in DOMAIN shown(d) |-> shown(d)[x]]
        /\ \A x \in Shown(d) : x # o => shown(d)[x] = screen[d][x]
    BY <2>1 DEF Shown
  <2>4. \A x \in Shown(d) : x \in Object /\ screen[d][x] \in Picture
    BY <1>5, PictureType DEF Shown
  <2> HIDE DEF shown
  <2>5. \A x \in DOMAIN shown(d) : shown(d)[x] \in Picture
    BY <2>2, <2>3, <2>4
  <2>6. shown(d) \in Screen
    BY <2>3, <2>4, <2>5, ScreenType
  <2> QED BY <2>2, <2>3, <2>6
<1> HIDE DEF new, shown
<1>7. screen' \in [Client -> Screen]
  <2> HIDE DEF sees
  <2> QED BY <1>4, <1>5, <1>6
<1>8. ScenesTypeOK'
  BY <1>1, <1>3, <1>7 DEF ScenesTypeOK
<1>9. ASSUME NEW d \in Client PROVE Shown(d)' = Shown(d)
  <2>1. screen'[d] = IF sees(d) THEN shown(d) ELSE screen[d]
    BY <1>4
  <2> HIDE DEF sees
  <2> QED BY <1>6, <2>1 DEF Shown
<1>10. online \subseteq Client
  BY DEF ScenesTypeOK
<1>11. Quiet
  BY <1>1, <1>9, <1>10 DEF Quiet
<1>12. ASSUME NEW d \in online', NEW x \in Shown(d)
       PROVE  /\ screen'[d][x].held = screen[d][x].held
              /\ (screen[d][x].late \/ screen[d][x].where = position[x]) =>
                     (screen'[d][x].late \/ screen'[d][x].where = position'[x])
  <2>1. d \in Client /\ d \in online
    BY <1>1, <1>10
  <2>2. screen'[d] = IF sees(d) THEN shown(d) ELSE screen[d]
    BY <1>4, <2>1
  <2>3. x \in Object
    BY <1>5, <2>1, PictureType DEF Shown
  <2>4. CASE x = o
    <3>1. Entered(d) /\ controls[d] \in observers[o]
      BY <2>1, <2>4 DEF Pictured
    <3>2. remote[controls[d]] = d
      BY <2>1, <3>1, SceneFacts DEF Controlled
    <3>3. sees(d)
      BY <2>1, <2>4, <3>1, <3>2
    <3> HIDE DEF sees
    <3> QED BY <1>3, <1>6, <2>1, <2>2, <2>4, <3>3
  <2>5. CASE x # o
    <3>1. screen'[d][x] = screen[d][x]
      <4> HIDE DEF sees
      <4> QED BY <1>6, <2>1, <2>2, <2>5
    <3> QED BY <1>3, <2>3, <2>5, <3>1
  <2> QED BY <2>4, <2>5
<1> QED BY <1>8, <1>11, <1>12

LEMMA LeaveFacts ==
    ASSUME ScenesTypeOK, NEW c \in Client, Leave(c)
    PROVE  /\ Quiet /\ ScenesTypeOK' /\ position' = position
           /\ \A d \in online' : screen'[d] = screen[d]
<1>1. /\ online' = online \ {c} /\ screen' = [screen EXCEPT ![c] = Nothing]
      /\ UNCHANGED <<objects, remote, controls, observers, position, counter, adding>>
  BY DEF Leave
<1>2. Nothing \in Screen
  <2>1. DOMAIN Nothing = {} /\ Nothing = [x \in DOMAIN Nothing |-> Nothing[x]]
    BY DEF Nothing
  <2> QED BY <2>1, ScreenType
<1>3. ScenesTypeOK'
  BY <1>1, <1>2 DEF ScenesTypeOK
<1>4. \A d \in online' : screen'[d] = screen[d]
  BY <1>1 DEF ScenesTypeOK
<1> QED BY <1>1, <1>3, <1>4 DEF Quiet, Shown

-----------------------------------------------------------------------------
(* What is reached stays reached, and what is met is reached or still met. *)

\* The thread of d starts to add y.
Begins(d, y) == Adding(d)' /\ adding'[d].now = y /\ adding'[d].visited = 0

\* What every step does for the clients that were in a scene, for those that enter one, and
\* of what is added.
GoesOn ==
    /\ online' \subseteq online
    /\ \A c \in Client : controls[c] # 0 => controls'[c] = controls[c]
    /\ \A c \in online' : Entered(c) =>
           \A x \in objects[Scene(c)] : Reached(c, x) => Reached(c, x)'
    /\ \A c \in online', d \in Client : Entered(c) /\ Adding(d) /\ Scene(d) = Scene(c) =>
           \A y \in Object : Meeting(d, c, y) => Meeting(d, c, y)' \/ Reached(c, y)'
    /\ \A c \in online' : Entered(c)' /\ ~Entered(c) => \A x \in Object : OwnVisit(c, x)'
    /\ \A s \in Label : \A y \in objects'[s] : y \in objects[s] \/
           \E d \in Client : Begins(d, y) /\ Scene(d)' = s
    /\ \A d \in Client : Adding(d)' =>
           \/ Adding(d) /\ adding'[d].now = adding[d].now
           \/ /\ Begins(d, adding'[d].now)
              /\ adding'[d].now # controls'[d] =>
                     /\ Adding(d)
                     /\ \A c \in online' : Entered(c) /\ Scene(c) = Scene(d) => Reached(c, controls[d])

\* A character, and what it contains, is in one scene.
LEMMA OneScene ==
    ASSUME ScenesTypeOK, Housed, NEW s \in Label, NEW t \in Label, NEW x, x \in objects[s], x \in objects[t]
    PROVE  s = t
<1>1. PICK o \in objects[s] \cap Character : SceneOf[o] = s /\ x \in {o} \cup Contents[o]
  BY DEF Housed
<1>2. PICK other \in objects[t] \cap Character : SceneOf[other] = t /\ x \in {other} \cup Contents[other]
  BY DEF Housed
<1>3. o = other
  <2>1. CASE x \in Character
    BY <1>1, <1>2, <2>1, ConstantFacts
  <2>2. CASE x \notin Character
    <3>1. Container[x] = {o} /\ Container[x] = {other}
      BY <1>1, <1>2, <2>2, ConstantFacts
    <3> QED BY <3>1
  <2> QED BY <2>1, <2>2
<1> QED BY <1>1, <1>2, <1>3

LEMMA ContainerHoused ==
    ASSUME ScenesTypeOK, Housed, NEW s \in Label, NEW y \in Character, NEW x \in Contents[y], x \in objects[s]
    PROVE  y \in objects[s]
<1>1. PICK o \in objects[s] \cap Character : x \in {o} \cup Contents[o]
  BY DEF Housed
<1>2. x \notin Character /\ Container[x] = {y}
  BY ConstantFacts
<1>3. x \in Contents[o] /\ Container[x] = {o}
  BY <1>1, <1>2, ConstantFacts
<1> QED BY <1>1, <1>2, <1>3

\* Of the client of a thread that is adding, or that has entered.
LEMMA StableFacts ==
    ASSUME ScenesInv, GoesOn, NEW c \in Client, Entered(c)
    PROVE  /\ controls'[c] = controls[c] /\ Scene(c)' = Scene(c) /\ Entered(c)'
           /\ Scene(c) \in Label /\ controls[c] \in Character /\ controls[c] \in objects[Scene(c)]
<1>1. controls'[c] = controls[c]
  BY DEF GoesOn, Entered
<1>2. Scene(c)' = Scene(c) /\ Entered(c)'
  BY <1>1 DEF Scene, Entered
<1>3. Scene(c) \in Label /\ controls[c] \in Character
  BY SceneFacts DEF ScenesInv
<1>4. controls[c] \in objects[Scene(c)]
  BY DEF ScenesInv, Inserted
<1> QED BY <1>1, <1>2, <1>3, <1>4

LEMMA ReachGoesOn ==
    ASSUME ScenesInv, GoesOn, ScenesTypeOK', Inserted', Housed'
    PROVE  Covered' /\ Met' /\ Carried'
<1>1. /\ ScenesTypeOK /\ Inserted /\ Housed /\ Covered /\ Met /\ Carried
  BY DEF ScenesInv
<1>2. online' \subseteq online /\ online \subseteq Client
  BY <1>1 DEF GoesOn, ScenesTypeOK
\* A client that enters visits everything.
<1>3. ASSUME NEW c \in online', Entered(c)', ~Entered(c), NEW x \in Object
      PROVE  Reached(c, x)'
  BY <1>3 DEF GoesOn, Reached
<1>4. ASSUME NEW c \in online', Entered(c)', NEW d \in Client, NEW y, Begins(d, y)
      PROVE  Meeting(d, c, y)'
  <2>1. controls'[c] \in Nat /\ controls'[c] > 0
    <3>1. controls'[c] \in Character \cup {0} /\ controls'[c] # 0
      BY <1>1, <1>2, <1>4 DEF ScenesTypeOK, Entered
    <3> QED BY <3>1, ConstantFacts
  <2> QED BY <1>4, <2>1 DEF Meeting, Begins
<1>5. ASSUME NEW c \in online', Entered(c), NEW x \in objects[Scene(c)], Reached(c, x)
      PROVE  Reached(c, x)'
  BY <1>5 DEF GoesOn
<1>6. ASSUME NEW c \in online', Entered(c), NEW d \in Client, NEW y \in objects[Scene(c)], Meeting(d, c, y)
      PROVE  Meeting(d, c, y)' \/ Reached(c, y)'
  <2>1. Adding(d) /\ y = adding[d].now
    BY <1>6 DEF Meeting
  <2>2. Entered(d) /\ y \in objects[Scene(d)]
    BY <1>1, <2>1 DEF Inserted
  <2>3. Scene(c) \in Label /\ Scene(d) \in Label /\ y \in Object
    BY <1>1, <1>2, <1>6, <2>2, SceneFacts
  <2>4. Scene(d) = Scene(c)
    BY <1>1, <1>6, <2>2, <2>3, OneScene
  <2> QED BY <1>6, <2>1, <2>3, <2>4 DEF GoesOn
<1>7. Covered'
  <2> SUFFICES ASSUME NEW c \in online', Entered(c)', NEW y \in objects'[Scene(c)']
               PROVE  Reached(c, y)' \/ \E d \in Client : Meeting(d, c, y)'
    BY DEF Covered, InScene
  <2>1. c \in Client /\ c \in online
    BY <1>2
  <2>2. CASE ~Entered(c)
    <3>1. Scene(c)' \in Label
      BY <2>1, ConstantFacts DEF Entered
    <3>2. y \in Object
      BY <3>1 DEF ScenesTypeOK
    <3> QED BY <1>3, <2>2, <3>2
  <2>3. CASE Entered(c)
    <3>1. Scene(c)' = Scene(c) /\ Scene(c) \in Label
      BY <2>1, <2>3, StableFacts
    <3>2. CASE y \in objects[Scene(c)]
      <4>1. Reached(c, y) \/ \E d \in Client : Meeting(d, c, y)
        BY <1>1, <2>1, <2>3, <3>2 DEF Covered, InScene
      <4> QED BY <1>5, <1>6, <2>3, <3>2, <4>1
    <3>3. CASE y \notin objects[Scene(c)]
      <4>1. \E d \in Client : Begins(d, y)
        BY <3>1, <3>3 DEF GoesOn
      <4> QED BY <1>4, <4>1
    <3> QED BY <3>2, <3>3
  <2> QED BY <2>2, <2>3
<1>8. Met'
  <2> SUFFICES ASSUME NEW c \in online', NEW d \in Client, Entered(c)', Adding(d)', Scene(d)' = Scene(c)'
               PROVE  /\ Reached(c, adding[d].now)' \/ Meeting(d, c, adding[d].now)'
                      /\ adding'[d].now # controls'[d] => Reached(c, controls[d])'
    BY DEF Met, InScene
  <2>1. c \in Client /\ c \in online
    BY <1>2
  <2>2. Entered(d)' /\ adding'[d].now \in Object /\ controls'[d] \in Object
    <3>1. Entered(d)' /\ Scene(d)' \in Label /\ adding'[d].now \in objects'[Scene(d)'] /\ controls'[d] \in objects'[Scene(d)']
      BY ConstantFacts DEF Inserted, Entered
    <3> QED BY <3>1 DEF ScenesTypeOK
  <2>3. CASE ~Entered(c)
    <3>1. \A x \in Object : Reached(c, x)'
      BY <1>3, <2>3
    <3> QED BY <2>2, <3>1 DEF Reached, OwnVisit, Shown
  <2>4. CASE Entered(c) /\ Adding(d) /\ adding'[d].now = adding[d].now
    <3>1. /\ Entered(d) /\ adding[d].now \in objects[Scene(d)]
      BY <1>1, <2>4 DEF Inserted
    <3>2. /\ Scene(d)' = Scene(d) /\ Scene(c)' = Scene(c)
          /\ controls'[d] = controls[d] /\ controls[d] \in objects[Scene(d)]
      BY <2>1, <2>4, <3>1, StableFacts
    <3>3. /\ Reached(c, adding[d].now) \/ Meeting(d, c, adding[d].now)
          /\ adding[d].now # controls[d] => Reached(c, controls[d])
      BY <1>1, <2>1, <2>4, <3>2 DEF Met, InScene
    <3>4. Reached(c, adding[d].now)' \/ Meeting(d, c, adding[d].now)'
      <4>1. PICK y : y = adding[d].now
        OBVIOUS
      <4>2. y \in objects[Scene(c)] /\ (Reached(c, y) \/ Meeting(d, c, y))
        BY <3>1, <3>2, <3>3, <4>1
      <4>3. Reached(c, y)' \/ Meeting(d, c, y)'
        BY <1>5, <1>6, <2>4, <4>2
      <4>4. adding'[d].now = y
        BY <2>4, <4>1
      <4> QED BY <4>3, <4>4 DEF Reached, Meeting, OwnVisit, Shown, Pends
    <3>5. ASSUME adding'[d].now # controls'[d] PROVE Reached(c, controls[d])'
      <4>1. PICK y : y = controls[d]
        OBVIOUS
      <4>2. y \in objects[Scene(c)] /\ Reached(c, y) /\ controls'[d] = y
        BY <2>4, <3>2, <3>3, <3>5, <4>1
      <4>3. Reached(c, y)'
        BY <1>5, <2>4, <4>2
      <4> QED BY <4>2, <4>3 DEF Reached, OwnVisit, Shown, Pends
    <3> QED BY <3>4, <3>5
  <2>5. CASE Entered(c) /\ ~(Adding(d) /\ adding'[d].now = adding[d].now)
    <3>1. /\ Begins(d, adding'[d].now)
          /\ adding'[d].now # controls'[d] =>
                 /\ Adding(d)
                 /\ \A e \in online' : Entered(e) /\ Scene(e) = Scene(d) => Reached(e, controls[d])
      BY <2>5 DEF GoesOn
    <3>2. Meeting(d, c, adding[d].now)'
      <4>1. PICK y : y = adding'[d].now /\ Begins(d, y)
        BY <3>1
      <4>2. Meeting(d, c, y)'
        BY <1>4, <4>1
      <4> QED BY <4>1, <4>2 DEF Meeting, Pends
    <3>3. ASSUME adding'[d].now # controls'[d] PROVE Reached(c, controls[d])'
      <4>1. Adding(d) /\ Entered(d)
        BY <1>1, <3>1, <3>3 DEF Inserted
      <4>2. /\ Scene(d)' = Scene(d) /\ Scene(c)' = Scene(c)
            /\ controls'[d] = controls[d] /\ controls[d] \in objects[Scene(d)]
        BY <2>1, <2>5, <4>1, StableFacts
      <4>3. PICK y : y = controls[d]
        OBVIOUS
      <4>4. y \in objects[Scene(c)] /\ Reached(c, y) /\ controls'[d] = y
        BY <2>5, <3>1, <3>3, <4>2, <4>3
      <4>5. Reached(c, y)'
        BY <1>5, <2>5, <4>4
      <4> QED BY <4>4, <4>5 DEF Reached, OwnVisit, Shown, Pends
    <3> QED BY <3>2, <3>3
  <2> QED BY <2>3, <2>4, <2>5
<1>9. Carried'
  <2> SUFFICES ASSUME NEW c \in online', Entered(c)', NEW y \in Character,
                      NEW x \in Contents[y], x \in objects'[Scene(c)']
               PROVE  Reached(c, y)'
    BY DEF Carried, InScene
  <2>1. c \in Client /\ c \in online
    BY <1>2
  <2>2. CASE ~Entered(c)
    BY <1>3, <2>2, ConstantFacts
  <2>3. CASE Entered(c)
    <3>1. Scene(c)' = Scene(c) /\ Scene(c) \in Label
      BY <2>1, <2>3, StableFacts
    <3>2. CASE x \in objects[Scene(c)]
      <4>1. y \in objects[Scene(c)] /\ Reached(c, y)
        BY <1>1, <2>1, <2>3, <3>1, <3>2, ContainerHoused DEF Carried, InScene
      <4> QED BY <1>5, <2>3, <4>1
    <3>3. CASE x \notin objects[Scene(c)]
      <4>1. PICK d \in Client : Begins(d, x) /\ Scene(d)' = Scene(c)
        BY <3>1, <3>3 DEF GoesOn
      <4>2. /\ Adding(d)' /\ adding'[d].now = x /\ Entered(d)' /\ x \in {controls'[d]} \cup Contents[controls'[d]]
        BY <4>1 DEF Begins, Inserted
      <4>3. controls'[d] \in Character /\ x \notin Character /\ Container[x] = {y}
        <5>1. controls'[d] \in Character \cup {0} /\ controls'[d] # 0
          BY <4>2 DEF ScenesTypeOK, Entered
        <5> QED BY <5>1, ConstantFacts
      <4>4. y = controls'[d] /\ adding'[d].now # controls'[d]
        <5>1. PICK o : o = controls'[d]
          OBVIOUS
        <5>2. o \in Character /\ x \in Contents[o]
          BY <4>2, <4>3, <5>1
        <5>3. Container[x] = {o}
          BY <5>2, ConstantFacts
        <5> QED BY <4>2, <4>3, <5>1, <5>2, <5>3
      <4>5. Reached(c, controls[d])'
        BY <1>2, <1>8, <4>1, <4>2, <4>4, <3>1 DEF Met, InScene
      <4> QED BY <4>4, <4>5 DEF Reached, OwnVisit, Shown, Pends
    <3> QED BY <3>2, <3>3
  <2> QED BY <2>2, <2>3
<1> QED BY <1>7, <1>8, <1>9

-----------------------------------------------------------------------------
(* Each step keeps the invariant. *)

LEMMA QuietKeeps ==
    ASSUME ScenesInv, Quiet, ScenesTypeOK'
    PROVE  /\ Controlled' /\ Inserted' /\ Housed' /\ MadeInScene' /\ Covered' /\ Met' /\ Carried'
           /\ \A c \in online' : \A x \in Shown(c)' :
                 /\ Entered(c)' /\ x \in objects'[Scene(c)'] /\ controls'[c] \in observers'[x]
                 /\ screen[c][x].held \/ OwnVisit(c, x)'
<1>1. /\ ScenesTypeOK /\ Controlled /\ Inserted /\ Housed /\ MadeInScene
      /\ Pictured /\ Covered /\ Met /\ Carried
  BY DEF ScenesInv
<1>2. /\ objects' = objects /\ remote' = remote /\ controls' = controls
      /\ observers' = observers /\ adding' = adding /\ online' \subseteq online
      /\ \A c \in online' : Shown(c)' = Shown(c)
  BY DEF Quiet
<1>3. \A c : /\ Adding(c)' = Adding(c) /\ Scene(c)' = Scene(c) /\ Making(c)' = Making(c)
             /\ Left(c)' = Left(c) /\ Entered(c)' = Entered(c)
  BY <1>2 DEF Adding, Scene, Making, Left, Entered
<1>4. \A d, x, o : Pends(d, x, o)' = Pends(d, x, o)
  BY <1>3 DEF Pends
<1>5. /\ \A c, x : OwnVisit(c, x)' = OwnVisit(c, x)
      /\ \A d, c, y : Meeting(d, c, y)' = Meeting(d, c, y)
  BY <1>2, <1>3 DEF OwnVisit, Meeting, Pends
<1>6. \A c \in online' : \A x : Reached(c, x)' = Reached(c, x)
  BY <1>2, <1>5 DEF Reached
<1>7. Controlled'
  BY <1>1, <1>2 DEF Controlled
<1>8. Inserted'
  BY <1>1, <1>2, <1>3 DEF Inserted
<1>9. Housed'
  BY <1>1, <1>2 DEF Housed
<1>10. MadeInScene'
  BY <1>1, <1>2, <1>3 DEF MadeInScene
<1>11. GoesOn
  <2>1. \A c \in online' : Entered(c) => \A x \in objects[Scene(c)] : Reached(c, x) => Reached(c, x)'
    BY <1>6
  <2>2. \A c \in online', d \in Client : \A y \in Object : Meeting(d, c, y) => Meeting(d, c, y)'
    BY <1>5
  <2>3. \A c \in online' : ~(Entered(c)' /\ ~Entered(c))
    BY <1>3
  <2>4. \A d \in Client : Adding(d)' => Adding(d) /\ adding'[d].now = adding[d].now
    BY <1>2, <1>3
  <2> QED BY <1>2, <2>1, <2>2, <2>3, <2>4 DEF GoesOn
<1>12. Covered' /\ Met' /\ Carried'
  BY <1>8, <1>9, <1>11, ReachGoesOn
<1>13. ASSUME NEW c \in online', NEW x \in Shown(c)'
       PROVE  /\ Entered(c)' /\ x \in objects'[Scene(c)'] /\ controls'[c] \in observers'[x]
              /\ screen[c][x].held \/ OwnVisit(c, x)'
  <2>1. c \in online /\ x \in Shown(c)
    BY <1>2, <1>13
  <2> QED BY <1>1, <1>2, <1>3, <1>5, <2>1 DEF Pictured
<1> QED BY <1>7, <1>8, <1>9, <1>10, <1>12, <1>13

LEMMA VisitKeeps ==
    ASSUME ScenesInv, NEW e \in Client, Visit(e)
    PROVE  ScenesInv'
<1>1. /\ ScenesTypeOK /\ Controlled /\ Inserted /\ Housed /\ MadeInScene
      /\ Pictured /\ Covered /\ Met /\ Carried
  BY DEF ScenesInv
<1>2. PICK object, stored : object = adding[e].now /\ stored = Min(Unvisited(e))
  OBVIOUS
<1>3. UNCHANGED <<objects, remote, controls, online, position, counter, screen>>
  BY DEF Visit
<1>4. /\ Adding(e) /\ Entered(e) /\ object \in objects[Scene(e)] /\ stored \in objects[Scene(e)]
      /\ object \in Object /\ stored \in Object
      /\ stored > adding[e].visited
      /\ \A x \in objects[Scene(e)] : x > adding[e].visited => x >= stored
      /\ adding' \in [Client -> Addition \cup {Idle}]
      /\ observers' \in [Object -> SUBSET Character]
      /\ \A x \in Object : observers[x] \subseteq observers'[x]
      /\ HasController(object) => object \in observers'[stored]
      /\ HasController(stored) => stored \in observers'[object]
      /\ Making(e) = {}
      /\ Making(e)' = (IF HasController(object) THEN {Entry(stored, object)} ELSE {})
                       \cup (IF HasController(stored) THEN {Entry(object, stored)} ELSE {})
      /\ adding'[e].visited = stored
      /\ \A d \in Client : /\ Adding(d)' = Adding(d) /\ adding'[d].now = adding[d].now
                           /\ Left(d)' = Left(d) /\ adding[d].left = adding'[d].left
                           /\ d # e => adding'[d] = adding[d] /\ Making(d)' = Making(d)
  BY <1>1, <1>2, VisitFacts
<1>5. ScenesTypeOK'
  BY <1>1, <1>3, <1>4 DEF ScenesTypeOK
<1>6. \A c : Scene(c)' = Scene(c) /\ Entered(c)' = Entered(c) /\ Shown(c)' = Shown(c)
  BY <1>3 DEF Scene, Entered, Shown
<1>7. Controlled' /\ Housed'
  BY <1>1, <1>3 DEF Controlled, Housed
<1>8. Inserted'
  BY <1>1, <1>3, <1>4, <1>6 DEF Inserted
<1>9. MadeInScene'
  <2> SUFFICES ASSUME NEW c \in Client, NEW m \in Making(c)'
               PROVE  /\ m.what \in objects[Scene(c)] /\ m.at \in objects[Scene(c)]
                      /\ m.at \in observers'[m.what]
                      /\ m.at = adding'[c].now => m.what = adding'[c].visited
    BY <1>3, <1>6 DEF MadeInScene
  <2>1. CASE c # e
    <3>1. m \in Making(c) /\ adding'[c] = adding[c]
      BY <1>4, <2>1
    <3>2. /\ m.what \in objects[Scene(c)] /\ m.at \in objects[Scene(c)]
          /\ m.at \in observers[m.what]
          /\ m.at = adding[c].now => m.what = adding[c].visited
      BY <1>1, <3>1 DEF MadeInScene
    <3>3. m.what \in Object
      BY <1>1, <3>1, SceneFacts DEF Made
    <3> QED BY <1>4, <3>1, <3>2, <3>3
  <2>2. CASE c = e /\ HasController(object) /\ m = Entry(stored, object)
    <3>1. m.what = stored /\ m.at = object
      BY <2>2 DEF Entry
    <3> QED BY <1>4, <2>2, <3>1
  <2>3. CASE c = e /\ HasController(stored) /\ m = Entry(object, stored)
    <3>1. m.what = object /\ m.at = stored
      BY <2>3 DEF Entry
    <3> QED BY <1>2, <1>4, <2>3, <3>1
  <2> QED BY <1>4, <2>1, <2>2, <2>3
\* Whom a client that is in the scene plays has a controller.
<1>10. ASSUME NEW c \in online, Entered(c)
       PROVE  HasController(controls[c]) /\ controls[c] \in objects[Scene(c)] /\ controls[c] \in Nat /\ Scene(c) \in Label
  <2>1. c \in Client /\ controls[c] \in Character /\ controls[c] \in Nat /\ Scene(c) \in Label
    BY <1>1, <1>10, SceneFacts DEF ScenesTypeOK
  <2>2. remote[controls[c]] = c /\ c # NoClient
    BY <1>1, <2>1, ConstantFacts DEF Controlled
  <2> QED BY <1>1, <1>10, <2>1, <2>2 DEF HasController, Inserted
<1>11. stored \in Nat /\ adding[e].visited \in Nat
  BY <1>1, <1>4, ConstantFacts, AdditionFacts
<1>12. ASSUME NEW c \in online, Entered(c), NEW x \in objects[Scene(c)], OwnVisit(c, x)
       PROVE  OwnVisit(c, x)'
  <2>1. c \in Client
    BY <1>1 DEF ScenesTypeOK
  <2>2. CASE c # e
    BY <1>3, <1>4, <1>12, <2>1, <2>2 DEF OwnVisit, Pends
  <2>3. CASE c = e
    <3>1. object = controls[c] /\ x > adding[e].visited
      BY <1>2, <1>4, <1>12, <2>3 DEF OwnVisit, Pends
    <3>2. CASE x = stored
      <4>1. Entry(stored, object) \in Making(e)'
        BY <1>4, <1>10, <1>12, <3>1
      <4>2. Pends(e, x, controls[c])'
        BY <1>3, <3>1, <3>2, <4>1 DEF Pends, Entry
      <4> QED BY <1>2, <1>3, <1>4, <2>3, <3>1, <4>2 DEF OwnVisit
    <3>3. CASE x # stored
      <4>1. x \in Nat
        BY <1>1, <1>12, <2>1, SceneFacts, ConstantFacts
      <4>2. x > stored
        BY <1>4, <1>11, <1>12, <2>3, <3>1, <3>3, <4>1
      <4> QED BY <1>2, <1>3, <1>4, <2>3, <3>1, <4>2 DEF OwnVisit
    <3> QED BY <3>2, <3>3
  <2> QED BY <2>2, <2>3
<1>13. ASSUME NEW c \in online, NEW d \in Client, Entered(c), Scene(d) = Scene(c), NEW y \in Object, Meeting(d, c, y)
       PROVE  Meeting(d, c, y)'
  <2>1. CASE d # e
    BY <1>3, <1>4, <1>13, <2>1 DEF Meeting, Pends
  <2>2. CASE d = e
    <3>1. object = y /\ controls[c] > adding[e].visited /\ controls[c] \in objects[Scene(e)]
      BY <1>2, <1>4, <1>10, <1>13, <2>2 DEF Meeting, Pends
    <3>2. CASE controls[c] = stored
      <4>1. Entry(object, stored) \in Making(e)'
        BY <1>4, <1>10, <1>13, <3>2
      <4>2. Pends(e, y, controls[c])'
        BY <1>3, <3>1, <3>2, <4>1 DEF Pends, Entry
      <4> QED BY <1>2, <1>4, <2>2, <3>1, <4>2 DEF Meeting
    <3>3. CASE controls[c] # stored
      <4>1. controls'[c] > stored
        BY <1>3, <1>4, <1>10, <1>11, <1>13, <3>1, <3>3
      <4> QED BY <1>2, <1>4, <2>2, <3>1, <4>1 DEF Meeting
    <3> QED BY <3>2, <3>3
  <2> QED BY <2>1, <2>2
<1>14. GoesOn
  <2>1. online' \subseteq online /\ \A c \in Client : controls'[c] = controls[c]
    BY <1>3
  <2>2. \A c \in online' : Entered(c) => \A x \in objects[Scene(c)] : Reached(c, x) => Reached(c, x)'
    BY <1>3, <1>6, <1>12 DEF Reached
  <2>3. \A c \in online', d \in Client : Entered(c) /\ Adding(d) /\ Scene(d) = Scene(c) =>
           \A y \in Object : Meeting(d, c, y) => Meeting(d, c, y)'
    BY <1>3, <1>13
  <2>4. \A c \in online' : ~(Entered(c)' /\ ~Entered(c))
    BY <1>6
  <2>5. \A d \in Client : Adding(d)' => Adding(d) /\ adding'[d].now = adding[d].now
    BY <1>4
  <2> QED BY <1>3, <2>1, <2>2, <2>3, <2>4, <2>5 DEF GoesOn
<1>15. Covered' /\ Met' /\ Carried'
  BY <1>5, <1>7, <1>8, <1>14, ReachGoesOn
<1>16. Pictured'
  <2> SUFFICES ASSUME NEW c \in online, NEW x \in Shown(c)
               PROVE  /\ Entered(c) /\ x \in objects[Scene(c)] /\ controls[c] \in observers'[x]
                      /\ screen[c][x].late \/ screen[c][x].where = position[x]
                      /\ screen[c][x].held \/ OwnVisit(c, x)'
    BY <1>3, <1>6 DEF Pictured
  <2>1. /\ Entered(c) /\ x \in objects[Scene(c)] /\ controls[c] \in observers[x]
        /\ screen[c][x].late \/ screen[c][x].where = position[x]
        /\ screen[c][x].held \/ OwnVisit(c, x)
    BY <1>1 DEF Pictured
  <2>2. x \in Object
    BY <1>1, <2>1, SceneFacts DEF ScenesTypeOK
  <2> QED BY <1>4, <1>12, <2>1, <2>2
<1> QED BY <1>5, <1>7, <1>8, <1>9, <1>15, <1>16 DEF ScenesInv

\* A scene's characters have it as theirs.
LEMMA CharacterHoused ==
    ASSUME ScenesTypeOK, Housed, NEW s \in Label, NEW o \in Character, o \in objects[s]
    PROVE  SceneOf[o] = s
<1>1. PICK other \in objects[s] \cap Character : SceneOf[other] = s /\ o \in {other} \cup Contents[other]
  BY DEF Housed
<1>2. o \notin Contents[other]
  BY <1>1, ConstantFacts
<1> QED BY <1>1, <1>2

LEMMA MakeCleanKeeps ==
    ASSUME ScenesInv, NEW e \in Client, MakeClean(e)
    PROVE  ScenesInv'
<1>1. /\ ScenesTypeOK /\ Controlled /\ Inserted /\ Housed /\ MadeInScene
      /\ Pictured /\ Covered /\ Met /\ Carried
  BY DEF ScenesInv
<1>2. PICK made : made = Head(adding[e].making)
  OBVIOUS
<1>3. UNCHANGED <<objects, remote, controls, online, observers, position, counter>>
  BY DEF MakeClean
<1>4. /\ made \in Making(e) /\ Making(e)' \subseteq Making(e) /\ Making(e) \subseteq Making(e)' \cup {made}
      /\ adding' \in [Client -> Addition \cup {Idle}]
      /\ \A d \in Client : /\ Adding(d)' = Adding(d) /\ adding'[d].now = adding[d].now
                           /\ Left(d)' = Left(d) /\ adding[d].left = adding'[d].left
                           /\ adding'[d].visited = adding[d].visited
                           /\ d # e => Making(d)' = Making(d)
  BY <1>1, <1>2, MakeCleanFacts
<1>5. /\ screen' \in [Client -> Screen]
      /\ \A d \in Client : \/ screen'[d] = screen[d] /\ ~(d \in online /\ remote[made.at] = d)
                           \/ /\ d \in online /\ remote[made.at] = d
                              /\ screen'[d] = Create(screen[d], made)
  BY <1>1, <1>2, ScreenFacts
<1>6. /\ made \in Made /\ made.what \in objects[Scene(e)] /\ made.at \in objects[Scene(e)]
      /\ made.at \in observers[made.what] /\ made.at \in Character
      /\ Adding(e) /\ Entered(e) /\ Scene(e) \in Label
  <2>1. made \in Made
    BY <1>1, <1>4, SceneFacts
  <2>2. Adding(e)
    BY <1>4 DEF Making
  <2>3. Entered(e) /\ Scene(e) \in Label
    BY <1>1, <2>2, SceneFacts DEF Inserted
  <2> QED BY <1>1, <1>4, <2>1, <2>2, <2>3 DEF MadeInScene, Made
<1>7. ScenesTypeOK'
  BY <1>1, <1>3, <1>4, <1>5 DEF ScenesTypeOK
<1>8. \A c : Scene(c)' = Scene(c) /\ Entered(c)' = Entered(c)
  BY <1>3 DEF Scene, Entered
<1>9. Controlled' /\ Housed'
  BY <1>1, <1>3 DEF Controlled, Housed
<1>10. Inserted'
  BY <1>1, <1>3, <1>4, <1>8 DEF Inserted
<1>11. \A c \in Client : Making(c)' \subseteq Making(c)
  BY <1>4
<1>12. MadeInScene'
  BY <1>1, <1>3, <1>4, <1>8, <1>11 DEF MadeInScene
<1>13. ASSUME NEW c \in Client
       PROVE  /\ Shown(c) \subseteq Shown(c)' /\ Shown(c)' \subseteq Shown(c) \cup {made.what}
              /\ \A x \in Shown(c)' : \/ x \in Shown(c) /\ screen'[c][x] = screen[c][x]
                                      \/ c \in online /\ remote[made.at] = c /\ x = made.what
              /\ c \in online /\ remote[made.at] = c =>
                     /\ made.what \in Shown(c)'
                     /\ screen'[c][made.what].late \/ screen'[c][made.what].where = position[made.what]
                     /\ screen'[c][made.what].held = (Container[made.what] \subseteq Shown(c))
  <2>1. screen[c] \in Screen
    BY <1>1 DEF ScenesTypeOK
  <2>2. CASE screen'[c] = screen[c] /\ ~(c \in online /\ remote[made.at] = c)
    BY <2>2 DEF Shown
  <2>3. CASE c \in online /\ remote[made.at] = c /\ screen'[c] = Create(screen[c], made)
    <3> DEFINE new == Create(screen[c], made)
    <3>1. /\ DOMAIN new = DOMAIN screen[c] \cup {made.what}
          /\ \A x \in DOMAIN screen[c] : x # made.what => new[x] = screen[c][x]
          /\ new[made.what].late \/ new[made.what].where = position[made.what]
          /\ new[made.what].held = (Container[made.what] \subseteq DOMAIN screen[c])
      BY <1>1, <1>6, <2>1, CreateFacts
    <3> HIDE DEF new
    <3>2. screen'[c] = new
      BY <2>3 DEF new
    <3> QED BY <2>3, <3>1, <3>2 DEF Shown
  <2> QED BY <1>5, <2>2, <2>3
<1>14. ASSUME NEW c \in online, NEW d \in Client, Entered(c)
       PROVE  \A x : Pends(d, x, controls[c]) =>
                        Pends(d, x, controls[c])' \/ (remote[made.at] = c /\ x = made.what)
  <2> SUFFICES ASSUME NEW x, Pends(d, x, controls[c])
               PROVE  Pends(d, x, controls[c])' \/ (remote[made.at] = c /\ x = made.what)
    OBVIOUS
  <2>1. PICK m \in Making(d) : m.what = x /\ m.at = controls[c]
    BY DEF Pends
  <2>2. CASE m \in Making(d)'
    BY <1>3, <2>1, <2>2 DEF Pends
  <2>3. CASE m \notin Making(d)'
    <3>1. m = made
      BY <1>4, <2>1, <2>3
    <3> QED BY <1>1, <1>6, <2>1, <3>1 DEF Controlled
  <2> QED BY <2>2, <2>3
<1>15. ASSUME NEW c \in online, Entered(c), NEW x, OwnVisit(c, x)
       PROVE  OwnVisit(c, x)' \/ (remote[made.at] = c /\ x = made.what)
  <2>1. c \in Client
    BY <1>1 DEF ScenesTypeOK
  <2>2. CASE x > adding[c].visited
    BY <1>3, <1>4, <1>15, <2>1, <2>2 DEF OwnVisit
  <2>3. CASE Pends(c, x, controls[c])
    <3>1. Pends(c, x, controls[c])' \/ (remote[made.at] = c /\ x = made.what)
      BY <1>14, <1>15, <2>1, <2>3
    <3> QED BY <1>3, <1>4, <1>15, <2>1, <3>1 DEF OwnVisit
  <2> QED BY <1>15, <2>2, <2>3 DEF OwnVisit
<1>16. ASSUME NEW c \in online, Entered(c), NEW x, remote[made.at] = c /\ x = made.what
       PROVE  x \in Shown(c)'
  BY <1>1, <1>13, <1>16 DEF ScenesTypeOK
<1>17. GoesOn
  <2>1. online' \subseteq online /\ \A c \in Client : controls'[c] = controls[c]
    BY <1>3
  <2>2. ASSUME NEW c \in online', Entered(c), NEW x \in objects[Scene(c)], Reached(c, x)
        PROVE  Reached(c, x)'
    <3>1. c \in online /\ c \in Client
      BY <1>1, <1>3 DEF ScenesTypeOK
    <3>2. CASE x \in Shown(c)
      BY <1>13, <3>1, <3>2 DEF Reached
    <3>3. CASE OwnVisit(c, x)
      <4>1. OwnVisit(c, x)' \/ (remote[made.at] = c /\ x = made.what)
        BY <1>15, <2>2, <3>1, <3>3
      <4>2. OwnVisit(c, x)' \/ x \in Shown(c)'
        BY <1>16, <2>2, <3>1, <4>1
      <4> QED BY <4>2 DEF Reached
    <3> QED BY <2>2, <3>2, <3>3 DEF Reached
  <2>3. ASSUME NEW c \in online', NEW d \in Client, Entered(c), NEW y \in Object, Meeting(d, c, y)
        PROVE  Meeting(d, c, y)' \/ Reached(c, y)'
    <3>1. c \in online
      BY <1>3
    <3>2. CASE controls[c] > adding[d].visited
      BY <1>3, <1>4, <2>3, <3>2 DEF Meeting
    <3>3. CASE Pends(d, y, controls[c])
      <4>1. Pends(d, y, controls[c])' \/ y \in Shown(c)'
        <5>1. Pends(d, y, controls[c])' \/ (remote[made.at] = c /\ y = made.what)
          <6>1. \A x : Pends(d, x, controls[c]) =>
                         Pends(d, x, controls[c])' \/ (remote[made.at] = c /\ x = made.what)
            BY <1>14, <2>3, <3>1
          <6> QED BY <3>3, <6>1
        <5>2. remote[made.at] = c /\ y = made.what => y \in Shown(c)'
          BY <1>16, <2>3, <3>1
        <5> QED BY <5>1, <5>2
      <4> QED BY <1>3, <1>4, <2>3, <4>1 DEF Meeting, Reached
    <3> QED BY <2>3, <3>2, <3>3 DEF Meeting
  <2>4. \A c \in online' : ~(Entered(c)' /\ ~Entered(c))
    BY <1>8
  <2>5. \A d \in Client : Adding(d)' => Adding(d) /\ adding'[d].now = adding[d].now
    BY <1>4
  <2> QED BY <1>3, <2>1, <2>2, <2>3, <2>4, <2>5 DEF GoesOn
<1>18. Covered' /\ Met' /\ Carried'
  BY <1>7, <1>9, <1>10, <1>17, ReachGoesOn
<1>19. Pictured'
  <2> SUFFICES ASSUME NEW c \in online, NEW x \in Shown(c)'
               PROVE  /\ Entered(c) /\ x \in objects[Scene(c)] /\ controls[c] \in observers[x]
                      /\ screen'[c][x].late \/ screen'[c][x].where = position[x]
                      /\ screen'[c][x].held \/ OwnVisit(c, x)'
    BY <1>3, <1>8 DEF Pictured
  <2>1. c \in Client
    BY <1>1 DEF ScenesTypeOK
  <2>2. CASE x \in Shown(c) /\ screen'[c][x] = screen[c][x] /\ ~(remote[made.at] = c /\ x = made.what)
    <3>1. /\ Entered(c) /\ x \in objects[Scene(c)] /\ controls[c] \in observers[x]
          /\ screen[c][x].late \/ screen[c][x].where = position[x]
          /\ screen[c][x].held \/ OwnVisit(c, x)
      BY <1>1, <2>2 DEF Pictured
    <3> QED BY <1>15, <2>2, <3>1
  <2>3. CASE remote[made.at] = c /\ x = made.what
    <3>1. controls[c] = made.at
      BY <1>1, <1>6, <2>3 DEF Controlled
    <3>2. SceneOf[made.at] = Scene(e)
      BY <1>1, <1>6, CharacterHoused
    <3>3. Scene(c) = Scene(e) /\ Entered(c)
      BY <1>6, <3>1, <3>2, ConstantFacts DEF Scene, Entered
    <3>4. x \in objects[Scene(c)] /\ controls[c] \in observers[x] /\ x \in Object
      BY <1>6, <2>3, <3>1, <3>3, SceneFacts, <1>1
    <3>5. screen'[c][x].held \/ OwnVisit(c, x)'
      <4> SUFFICES ASSUME ~(Container[x] \subseteq Shown(c)) PROVE OwnVisit(c, x)'
        BY <1>13, <2>1, <2>3
      <4>1. PICK y \in Character : x \in Contents[y]
        BY <3>4, ConstantFacts
      <4>2. x > y /\ Container[x] = {y} /\ x \in Nat /\ y \in Nat
        BY <3>4, <4>1, ConstantFacts
      <4>3. OwnVisit(c, y)
        BY <1>1, <3>3, <3>4, <4>1, <4>2 DEF Carried, InScene, Reached
      <4>4. adding[c].visited \in Nat
        BY <1>1, <2>1, <4>3, AdditionFacts DEF OwnVisit
      <4>5. y >= adding[c].visited
        <5>1. CASE Pends(c, y, controls[c])
          <6>1. PICK m \in Making(c) : m.what = y /\ m.at = controls[c]
            BY <5>1 DEF Pends
          <6>2. y = adding[c].visited
            BY <1>1, <2>1, <4>3, <6>1 DEF MadeInScene, OwnVisit
          <6> QED BY <4>4, <6>2
        <5> QED BY <4>2, <4>3, <4>4, <5>1 DEF OwnVisit
      <4>6. x > adding[c].visited
        BY <4>2, <4>4, <4>5
      <4> QED BY <1>3, <1>4, <2>1, <4>3, <4>6 DEF OwnVisit
    <3> QED BY <1>13, <2>1, <2>3, <3>3, <3>4, <3>5
  <2> QED BY <1>13, <2>1, <2>2, <2>3
<1> QED BY <1>7, <1>9, <1>10, <1>12, <1>18, <1>19 DEF ScenesInv

LEMMA AddContainedKeeps ==
    ASSUME ScenesInv, NEW e \in Client, AddContained(e)
    PROVE  ScenesInv'
<1>1. /\ ScenesTypeOK /\ Controlled /\ Inserted /\ Housed /\ MadeInScene
      /\ Pictured /\ Covered /\ Met /\ Carried
  BY DEF ScenesInv
<1>2. UNCHANGED <<remote, controls, online, observers, position, counter, screen>>
  BY DEF AddContained
<1>3. /\ Adding(e) /\ Entered(e) /\ Making(e) = {} /\ Making(e)' = {}
      /\ \A x \in objects[Scene(e)] : ~(x > adding[e].visited)
      /\ adding' \in [Client -> Addition \cup {Idle}]
      /\ objects' \in [Label -> SUBSET Object]
      /\ \A s \in Label : objects[s] \subseteq objects'[s]
      /\ \A d \in Client : d # e => adding'[d] = adding[d] /\ Adding(d)' = Adding(d)
                                    /\ Making(d)' = Making(d) /\ Left(d)' = Left(d)
  BY <1>1, AddContainedFacts
<1>4. \/ /\ adding[e].left = {} /\ ~Adding(e)' /\ Left(e)' = {} /\ objects' = objects
      \/ \E next \in adding[e].left :
            /\ Adding(e)' /\ adding'[e].now = next /\ Left(e)' = adding[e].left \ {next}
            /\ adding'[e].left = adding[e].left \ {next}
            /\ adding'[e].visited = 0
            /\ objects' = [objects EXCEPT ![Scene(e)] = @ \cup {next}]
  BY <1>1, AddContainedFacts
<1>5. ScenesTypeOK'
  BY <1>1, <1>2, <1>3 DEF ScenesTypeOK
<1>6. \A c : Scene(c)' = Scene(c) /\ Entered(c)' = Entered(c) /\ Shown(c)' = Shown(c)
  BY <1>2 DEF Scene, Entered, Shown
<1>7. Controlled'
  BY <1>1, <1>2 DEF Controlled
<1>8. /\ Scene(e) \in Label /\ controls[e] \in Character /\ controls[e] \in objects[Scene(e)]
      /\ adding[e].left \subseteq Contents[controls[e]] /\ SceneOf[controls[e]] = Scene(e)
  BY <1>1, <1>3, SceneFacts DEF Inserted, Scene
<1>9. Housed'
  <2> SUFFICES ASSUME NEW s \in Label, NEW x \in objects'[s]
               PROVE  \E o \in objects'[s] \cap Character : SceneOf[o] = s /\ x \in {o} \cup Contents[o]
    BY DEF Housed
  <2>1. CASE x \in objects[s]
    <3>1. PICK o \in objects[s] \cap Character : SceneOf[o] = s /\ x \in {o} \cup Contents[o]
      BY <1>1, <2>1 DEF Housed
    <3> QED BY <1>3, <3>1
  <2>2. CASE x \notin objects[s]
    <3>1. s = Scene(e) /\ x \in adding[e].left
      BY <1>1, <1>4, <1>8, <2>2 DEF ScenesTypeOK
    <3> QED BY <1>3, <1>8, <3>1
  <2> QED BY <2>1, <2>2
<1>10. Inserted'
  <2> SUFFICES ASSUME NEW c \in Client
               PROVE  /\ Adding(c)' => /\ Entered(c) /\ adding'[c].left \subseteq Contents[controls[c]]
                                       /\ adding'[c].now \in objects'[Scene(c)]
                                       /\ adding'[c].now \in {controls[c]} \cup Contents[controls[c]]
                      /\ Entered(c) => /\ controls[c] \in objects'[Scene(c)]
                                       /\ Contents[controls[c]] \subseteq objects'[Scene(c)] \cup Left(c)'
    BY <1>2, <1>6 DEF Inserted
  <2>1. Entered(c) => Scene(c) \in Label
    BY <1>1, SceneFacts
  <2>2. CASE c # e
    BY <1>1, <1>3, <2>1, <2>2 DEF Inserted
  <2>3. CASE c = e
    <3>1. Contents[controls[e]] \subseteq objects[Scene(e)] \cup adding[e].left
      BY <1>1, <1>3 DEF Inserted, Left
    <3>2. CASE ~Adding(e)'
      <4>1. Contents[controls[e]] \subseteq objects'[Scene(e)]
        BY <1>3, <1>4, <1>8, <3>1, <3>2
      <4> QED BY <1>3, <1>8, <2>3, <3>2, <4>1
    <3>3. CASE Adding(e)'
      <4>1. PICK next \in adding[e].left :
               /\ adding'[e].now = next /\ Left(e)' = adding[e].left \ {next}
               /\ adding'[e].left = adding[e].left \ {next}
               /\ objects' = [objects EXCEPT ![Scene(e)] = @ \cup {next}]
        BY <1>4, <3>3
      <4>2. objects'[Scene(e)] = objects[Scene(e)] \cup {next}
        BY <1>1, <1>8, <4>1 DEF ScenesTypeOK
      <4> QED BY <1>3, <1>8, <2>3, <3>1, <4>1, <4>2
    <3> QED BY <3>2, <3>3
  <2> QED BY <2>2, <2>3
<1>11. MadeInScene'
  <2> SUFFICES ASSUME NEW c \in Client, NEW m \in Making(c)'
               PROVE  /\ m.what \in objects'[Scene(c)] /\ m.at \in objects'[Scene(c)]
                      /\ m.at \in observers[m.what]
                      /\ m.at = adding'[c].now => m.what = adding'[c].visited
    BY <1>2, <1>6 DEF MadeInScene
  <2>1. c # e /\ adding'[c] = adding[c] /\ m \in Making(c)
    BY <1>3
  <2>2. Scene(c) \in Label
    BY <1>1, <2>1, SceneFacts DEF Making, Inserted
  <2> QED BY <1>1, <1>3, <2>1, <2>2 DEF MadeInScene
\* Nothing of the scene is unvisited, so this thread's own visit is not due to anything.
<1>12. ASSUME NEW c \in online, Entered(c), NEW x \in objects[Scene(c)], OwnVisit(c, x)
       PROVE  c # e /\ OwnVisit(c, x)'
  <2>1. c \in Client
    BY <1>1 DEF ScenesTypeOK
  <2>2. c # e
    BY <1>3, <1>12 DEF OwnVisit, Pends
  <2> QED BY <1>2, <1>3, <1>12, <2>1, <2>2 DEF OwnVisit, Pends
<1>13. ASSUME NEW c \in online, NEW d \in Client, Entered(c), Scene(d) = Scene(c), NEW y, Meeting(d, c, y)
       PROVE  d # e /\ Meeting(d, c, y)'
  <2>1. controls[c] \in objects[Scene(c)]
    BY <1>1, <1>13 DEF Inserted, ScenesTypeOK
  <2>2. d # e
    BY <1>3, <1>13, <2>1 DEF Meeting, Pends
  <2> QED BY <1>2, <1>3, <1>13, <2>2 DEF Meeting, Pends
<1>14. GoesOn
  <2>1. online' \subseteq online /\ \A c \in Client : controls'[c] = controls[c]
    BY <1>2
  <2>2. \A c \in online' : Entered(c) => \A x \in objects[Scene(c)] : Reached(c, x) => Reached(c, x)'
    BY <1>2, <1>6, <1>12 DEF Reached
  <2>3. \A c \in online', d \in Client : Entered(c) /\ Adding(d) /\ Scene(d) = Scene(c) =>
           \A y \in Object : Meeting(d, c, y) => Meeting(d, c, y)'
    BY <1>2, <1>13
  <2>4. \A c \in online' : ~(Entered(c)' /\ ~Entered(c))
    BY <1>6
  <2>5. ASSUME NEW s \in Label, NEW y \in objects'[s], y \notin objects[s]
        PROVE  \E d \in Client : Begins(d, y) /\ Scene(d)' = s
    <3>1. s = Scene(e) /\ Adding(e)' /\ adding'[e].now = y /\ adding'[e].visited = 0
      BY <1>1, <1>4, <1>8, <2>5 DEF ScenesTypeOK
    <3> QED BY <1>6, <3>1 DEF Begins
  <2>6. ASSUME NEW d \in Client, Adding(d)', d = e
        PROVE  /\ Begins(d, adding'[d].now) /\ Adding(d)
               /\ \A c \in online' : Entered(c) /\ Scene(c) = Scene(d) => Reached(c, controls[d])
    <3>1. Begins(d, adding'[d].now) /\ Adding(d)
      BY <1>3, <1>4, <2>6 DEF Begins
    <3>2. ASSUME NEW c \in online', Entered(c), Scene(c) = Scene(d)
          PROVE  Reached(c, controls[d])
      <4>1. c \in online /\ ~Meeting(d, c, adding[d].now)
        BY <1>2, <1>13, <2>6, <3>2
      <4> QED BY <1>1, <3>1, <3>2, <4>1 DEF Met, InScene
    <3> QED BY <3>1, <3>2
  <2>7. \A d \in Client : Adding(d)' /\ d # e => Adding(d) /\ adding'[d].now = adding[d].now
    BY <1>3
  <2> QED BY <2>1, <2>2, <2>3, <2>4, <2>5, <2>6, <2>7 DEF GoesOn
<1>15. Covered' /\ Met' /\ Carried'
  BY <1>5, <1>9, <1>10, <1>14, ReachGoesOn
<1>16. Pictured'
  <2> SUFFICES ASSUME NEW c \in online, NEW x \in Shown(c)
               PROVE  /\ Entered(c) /\ x \in objects'[Scene(c)] /\ controls[c] \in observers[x]
                      /\ screen[c][x].late \/ screen[c][x].where = position[x]
                      /\ screen[c][x].held \/ OwnVisit(c, x)'
    BY <1>2, <1>6 DEF Pictured
  <2>1. /\ Entered(c) /\ x \in objects[Scene(c)] /\ controls[c] \in observers[x]
        /\ screen[c][x].late \/ screen[c][x].where = position[x]
        /\ screen[c][x].held \/ OwnVisit(c, x)
    BY <1>1 DEF Pictured
  <2>2. Scene(c) \in Label
    BY <1>1, <2>1, SceneFacts DEF ScenesTypeOK
  <2> QED BY <1>3, <1>12, <2>1, <2>2
<1> QED BY <1>5, <1>7, <1>9, <1>10, <1>11, <1>15, <1>16 DEF ScenesInv

LEMMA SelectKeeps ==
    ASSUME ScenesInv, NEW e \in Client, NEW o \in Character, SelectCharacter(e, o)
    PROVE  ScenesInv'
<1>1. /\ ScenesTypeOK /\ Controlled /\ Inserted /\ Housed /\ MadeInScene
      /\ Pictured /\ Covered /\ Met /\ Carried
  BY DEF ScenesInv
<1>2. UNCHANGED <<online, position, counter, screen>>
  BY DEF SelectCharacter
<1>3. /\ e \in online /\ controls[e] = 0 /\ \A other \in online : controls[other] # o
      /\ ~Adding(e) /\ Making(e) = {} /\ Shown(e) = {}
      /\ remote' = [remote EXCEPT ![o] = e] /\ controls' = [controls EXCEPT ![e] = o]
      /\ observers' \in [Object -> SUBSET Character]
      /\ \A x \in Object : observers[x] \subseteq observers'[x]
      /\ adding' \in [Client -> Addition \cup {Idle}]
      /\ objects' \in [Label -> SUBSET Object]
      /\ \A s \in Label : objects[s] \subseteq objects'[s]
      /\ Making(e)' = {}
      /\ \A d \in Client : d # e => adding'[d] = adding[d] /\ Adding(d)' = Adding(d)
                                    /\ Making(d)' = Making(d) /\ Left(d)' = Left(d)
  BY SelectFacts
<1>4. \/ /\ SceneOf[o] \notin Started /\ ~Adding(e)' /\ objects' = objects
      \/ /\ SceneOf[o] \in Started /\ Adding(e)' /\ adding'[e].now = o
         /\ adding'[e].left = Contents[o] /\ Left(e)' = Contents[o]
         /\ adding'[e].visited = 0
         /\ objects' = [objects EXCEPT ![SceneOf[o]] = @ \cup {o}]
  BY SelectFacts
<1>5. ScenesTypeOK'
  BY <1>1, <1>2, <1>3 DEF ScenesTypeOK
<1>6. /\ controls'[e] = o /\ remote'[o] = e
      /\ \A c \in Client : c # e => controls'[c] = controls[c]
      /\ \A other \in Character : other # o => remote'[other] = remote[other]
  BY <1>1, <1>3 DEF ScenesTypeOK
<1>7. \A c \in Client : c # e => Scene(c)' = Scene(c) /\ Entered(c)' = Entered(c)
  BY <1>6 DEF Scene, Entered
<1>8. /\ Scene(e)' = SceneOf[o] /\ (Entered(e)' <=> SceneOf[o] \in Started) /\ ~Entered(e)
      /\ o # 0 /\ SceneOf[o] \in Label /\ Shown(e)' = {}
  <2>1. o # 0 /\ SceneOf[o] \in Label
    BY ConstantFacts
  <2> QED BY <1>2, <1>3, <1>6, <2>1 DEF Scene, Entered, Shown
<1>9. \A c : Shown(c)' = Shown(c)
  BY <1>2 DEF Shown
<1>10. Controlled'
  <2> SUFFICES ASSUME NEW c \in online, NEW other \in Character
               PROVE  remote'[other] = c <=> controls'[c] = other
    BY <1>2 DEF Controlled
  <2>1. c \in Client /\ (remote[other] = c <=> controls[c] = other)
    BY <1>1 DEF Controlled, ScenesTypeOK
  <2>2. other # 0
    BY ConstantFacts
  <2>3. CASE c = e
    BY <1>3, <1>6, <2>1, <2>2, <2>3
  <2>4. CASE c # e
    BY <1>3, <1>6, <2>1, <2>4
  <2> QED BY <2>3, <2>4
<1>11. SceneOf[o] \in Started => o \in objects'[SceneOf[o]]
  BY <1>1, <1>4, <1>8 DEF ScenesTypeOK
<1>12. Housed'
  <2> SUFFICES ASSUME NEW s \in Label, NEW x \in objects'[s]
               PROVE  \E other \in objects'[s] \cap Character : SceneOf[other] = s /\ x \in {other} \cup Contents[other]
    BY DEF Housed
  <2>1. CASE x \in objects[s]
    <3>1. PICK other \in objects[s] \cap Character : SceneOf[other] = s /\ x \in {other} \cup Contents[other]
      BY <1>1, <2>1 DEF Housed
    <3> QED BY <1>3, <3>1
  <2>2. CASE x \notin objects[s]
    <3>1. s = SceneOf[o] /\ x = o
      BY <1>1, <1>4, <1>8, <2>2 DEF ScenesTypeOK
    <3> QED BY <3>1
  <2> QED BY <2>1, <2>2
<1>13. Inserted'
  <2> SUFFICES ASSUME NEW c \in Client
               PROVE  /\ Adding(c)' => /\ Entered(c)' /\ adding'[c].left \subseteq Contents[controls'[c]]
                                       /\ adding'[c].now \in objects'[Scene(c)']
                                       /\ adding'[c].now \in {controls'[c]} \cup Contents[controls'[c]]
                      /\ Entered(c)' => /\ controls'[c] \in objects'[Scene(c)']
                                        /\ Contents[controls'[c]] \subseteq objects'[Scene(c)'] \cup Left(c)'
    BY DEF Inserted
  <2>1. CASE c # e
    <3>1. Entered(c) => Scene(c) \in Label
      BY <1>1, SceneFacts
    <3> QED BY <1>1, <1>3, <1>6, <1>7, <2>1, <3>1 DEF Inserted
  <2>2. CASE c = e
    BY <1>4, <1>6, <1>8, <1>11, <2>2
  <2> QED BY <2>1, <2>2
<1>14. MadeInScene'
  <2> SUFFICES ASSUME NEW c \in Client, NEW m \in Making(c)'
               PROVE  /\ m.what \in objects'[Scene(c)'] /\ m.at \in objects'[Scene(c)']
                      /\ m.at \in observers'[m.what]
                      /\ m.at = adding'[c].now => m.what = adding'[c].visited
    BY DEF MadeInScene
  <2>1. c # e /\ adding'[c] = adding[c] /\ m \in Making(c) /\ Scene(c)' = Scene(c)
    BY <1>3, <1>7
  <2>2. Scene(c) \in Label /\ m \in Made
    BY <1>1, <2>1, SceneFacts DEF Making, Inserted
  <2>3. m.what \in Object
    BY <2>2 DEF Made
  <2>4. /\ m.what \in objects[Scene(c)] /\ m.at \in objects[Scene(c)]
        /\ m.at \in observers[m.what]
        /\ m.at = adding[c].now => m.what = adding[c].visited
    BY <1>1, <2>1 DEF MadeInScene
  <2> QED BY <1>3, <2>1, <2>2, <2>3, <2>4
<1>15. ASSUME NEW c \in Client, c # e, NEW x
       PROVE  OwnVisit(c, x)' = OwnVisit(c, x)
  BY <1>3, <1>6, <1>15 DEF OwnVisit, Pends
<1>16. ASSUME NEW c \in online, NEW d \in Client, Entered(c), NEW y, Meeting(d, c, y)
       PROVE  Meeting(d, c, y)'
  <2>1. c \in Client /\ c # e /\ d # e
    BY <1>1, <1>3, <1>8, <1>16 DEF ScenesTypeOK, Meeting
  <2> QED BY <1>3, <1>6, <1>16, <2>1 DEF Meeting, Pends
<1>17. GoesOn
  <2>1. online' \subseteq online /\ \A c \in Client : controls[c] # 0 => controls'[c] = controls[c]
    BY <1>2, <1>3, <1>6
  <2>2. ASSUME NEW c \in online', Entered(c), NEW x \in objects[Scene(c)], Reached(c, x)
        PROVE  Reached(c, x)'
    <3>1. c \in Client /\ c # e
      BY <1>1, <1>2, <1>8, <2>2 DEF ScenesTypeOK
    <3> QED BY <1>9, <1>15, <2>2, <3>1 DEF Reached
  <2>3. \A c \in online', d \in Client : Entered(c) /\ Adding(d) /\ Scene(d) = Scene(c) =>
           \A y \in Object : Meeting(d, c, y) => Meeting(d, c, y)'
    BY <1>2, <1>16
  <2>4. ASSUME NEW c \in online', Entered(c)', ~Entered(c), NEW x \in Object
        PROVE  OwnVisit(c, x)'
    <3>1. c \in Client
      BY <1>1, <1>2 DEF ScenesTypeOK
    <3>2. c = e /\ SceneOf[o] \in Started
      BY <1>7, <1>8, <2>4, <3>1
    <3>3. x > 0
      BY ConstantFacts
    <3> QED BY <1>4, <1>6, <3>2, <3>3 DEF OwnVisit
  <2>5. ASSUME NEW s \in Label, NEW y \in objects'[s], y \notin objects[s]
        PROVE  \E d \in Client : Begins(d, y) /\ Scene(d)' = s
    <3>1. s = SceneOf[o] /\ y = o /\ Adding(e)' /\ adding'[e].now = o /\ adding'[e].visited = 0
      BY <1>1, <1>4, <1>8, <2>5 DEF ScenesTypeOK
    <3> QED BY <1>8, <3>1 DEF Begins
  <2>6. ASSUME NEW d \in Client, Adding(d)', d = e
        PROVE  Begins(d, adding'[d].now) /\ adding'[d].now = controls'[d]
    BY <1>4, <1>6, <2>6 DEF Begins
  <2>7. \A d \in Client : Adding(d)' /\ d # e => Adding(d) /\ adding'[d].now = adding[d].now
    BY <1>3
  <2> QED BY <2>1, <2>2, <2>3, <2>4, <2>5, <2>6, <2>7 DEF GoesOn
<1>18. Covered' /\ Met' /\ Carried'
  BY <1>5, <1>12, <1>13, <1>17, ReachGoesOn
<1>19. Pictured'
  <2> SUFFICES ASSUME NEW c \in online, NEW x \in Shown(c)
               PROVE  /\ Entered(c)' /\ x \in objects'[Scene(c)'] /\ controls'[c] \in observers'[x]
                      /\ screen[c][x].late \/ screen[c][x].where = position[x]
                      /\ screen[c][x].held \/ OwnVisit(c, x)'
    BY <1>2, <1>9 DEF Pictured
  <2>1. /\ Entered(c) /\ x \in objects[Scene(c)] /\ controls[c] \in observers[x]
        /\ screen[c][x].late \/ screen[c][x].where = position[x]
        /\ screen[c][x].held \/ OwnVisit(c, x)
    BY <1>1 DEF Pictured
  <2>2. c \in Client /\ c # e /\ Scene(c) \in Label /\ x \in Object
    BY <1>1, <1>3, <2>1, SceneFacts DEF ScenesTypeOK
  <2> QED BY <1>3, <1>6, <1>7, <1>15, <2>1, <2>2
<1> QED BY <1>5, <1>10, <1>12, <1>13, <1>14, <1>18, <1>19 DEF ScenesInv

\* A step that leaves scenes and visits alone and keeps pictures true.
LEMMA QuietStep ==
    ASSUME ScenesInv, Quiet, ScenesTypeOK',
           \A d \in online' : \A x \in Shown(d) :
              /\ screen'[d][x].held = screen[d][x].held
              /\ (screen[d][x].late \/ screen[d][x].where = position[x]) =>
                     (screen'[d][x].late \/ screen'[d][x].where = position'[x])
    PROVE  ScenesInv'
<1>1. Controlled' /\ Inserted' /\ Housed' /\ MadeInScene' /\ Covered' /\ Met' /\ Carried'
  BY QuietKeeps
<1>2. Pictured'
  <2> SUFFICES ASSUME NEW c \in online', NEW x \in Shown(c)'
               PROVE  /\ Entered(c)' /\ x \in objects'[Scene(c)'] /\ controls'[c] \in observers'[x]
                      /\ screen'[c][x].late \/ screen'[c][x].where = position'[x]
                      /\ screen'[c][x].held \/ OwnVisit(c, x)'
    BY DEF Pictured
  <2>1. /\ Entered(c)' /\ x \in objects'[Scene(c)'] /\ controls'[c] \in observers'[x]
        /\ screen[c][x].held \/ OwnVisit(c, x)'
    BY QuietKeeps
  <2>2. x \in Shown(c) /\ c \in online
    BY DEF Quiet
  <2>3. screen[c][x].late \/ screen[c][x].where = position[x]
    BY <2>2 DEF ScenesInv, Pictured
  <2> QED BY <2>1, <2>2, <2>3
<1> QED BY <1>1, <1>2 DEF ScenesInv

LEMMA ScenesStart == ScenesInit => ScenesInv
<1> SUFFICES ASSUME ScenesInit PROVE ScenesInv
  OBVIOUS
<1>1. /\ objects = [s \in Label |-> {}]
      /\ remote = [o \in Character |-> NoClient] /\ controls = [c \in Client |-> 0]
      /\ online = Client
      /\ observers = [x \in Object |-> {}]
      /\ position = [x \in Object |-> CHOOSE p \in Position : TRUE]
      /\ counter = [o \in Character |-> 0]
      /\ adding = [c \in Client |-> Idle]
      /\ screen = [c \in Client |-> Nothing]
  BY DEF ScenesInit
<1>2. Nothing \in Screen /\ DOMAIN Nothing = {}
  <2>1. DOMAIN Nothing = {} /\ Nothing = [x \in DOMAIN Nothing |-> Nothing[x]]
    BY DEF Nothing
  <2> QED BY <2>1, ScreenType
<1>3. (CHOOSE p \in Position : TRUE) \in Position
  <2>1. Position # {}
    BY ScenesAssumption
  <2> QED BY <2>1
<1>4. ScenesTypeOK
  BY <1>1, <1>2, <1>3 DEF ScenesTypeOK
<1>5. \A c \in Client : /\ ~Adding(c) /\ Shown(c) = {} /\ ~Entered(c) /\ Making(c) = {}
  BY <1>1, <1>2 DEF Adding, Idle, Shown, Entered, Making
<1>6. Controlled
  BY <1>1, ConstantFacts DEF Controlled
<1>7. Inserted
  BY <1>5 DEF Inserted
<1>8. Housed
  BY <1>1 DEF Housed
<1>9. MadeInScene
  BY <1>5 DEF MadeInScene
<1>10. Pictured
  BY <1>1, <1>5 DEF Pictured
<1>11. Covered /\ Met /\ Carried
  BY <1>1, <1>5 DEF Covered, Met, Carried, InScene
<1> QED BY <1>4, <1>6, <1>7, <1>8, <1>9, <1>10, <1>11 DEF ScenesInv

LEMMA ScenesStep == ScenesInv /\ [ScenesNext]_scenesVars => ScenesInv'
<1> SUFFICES ASSUME ScenesInv, [ScenesNext]_scenesVars PROVE ScenesInv'
  OBVIOUS
<1>1. ASSUME NEW c \in Client, HandleCmdSceneReady(c) PROVE ScenesInv'
  BY <1>1, ReadyFacts, QuietStep DEF ScenesInv
<1>2. ASSUME NEW c \in Client, Leave(c) PROVE ScenesInv'
  <2>1. /\ Quiet /\ ScenesTypeOK' /\ position' = position
        /\ \A d \in online' : screen'[d] = screen[d]
    BY <1>2, LeaveFacts DEF ScenesInv
  <2> QED BY <2>1, QuietStep
<1>3. ASSUME NEW c \in Client, NEW p \in Position, NEW n \in 1 .. MaxCounter, HandleDataTransform(c, p, n)
      PROVE  ScenesInv'
  BY <1>3, TransformFacts, QuietStep DEF ScenesInv
<1>4. CASE UNCHANGED scenesVars
  <2>1. Quiet /\ ScenesTypeOK' /\ position' = position /\ \A d \in online' : screen'[d] = screen[d]
    BY <1>4 DEF scenesVars, ScenesInv, Quiet, Shown, ScenesTypeOK
  <2> QED BY <2>1, QuietStep
<1> QED BY <1>1, <1>2, <1>3, <1>4, VisitKeeps, MakeCleanKeeps, AddContainedKeeps, SelectKeeps DEF ScenesNext

-----------------------------------------------------------------------------
(* What the invariant says once no object is being added. *)

LEMMA InvShowsScene == ScenesInv => ClientsShowTheirScene
<1> SUFFICES ASSUME ScenesInv, \A c \in Client : ~Adding(c),
                    NEW c \in online, controls[c] # 0, Scene(c) \in Started
             PROVE  /\ Shown(c) = objects[Scene(c)]
                    /\ {controls[c]} \cup Contents[controls[c]] \subseteq Shown(c)
                    /\ \A x \in Shown(c) :
                          screen[c][x].held /\ (screen[c][x].late \/ screen[c][x].where = position[x])
  BY DEF ClientsShowTheirScene, Scene
<1>1. c \in Client /\ Entered(c) /\ InScene(c)
  BY DEF ScenesInv, ScenesTypeOK, Entered, InScene
<1>2. objects[Scene(c)] \subseteq Shown(c)
  BY <1>1 DEF ScenesInv, Covered, Reached, OwnVisit, Meeting
<1>3. \A x \in Shown(c) : /\ x \in objects[Scene(c)] /\ screen[c][x].held
                          /\ screen[c][x].late \/ screen[c][x].where = position[x]
  BY <1>1 DEF ScenesInv, Pictured, OwnVisit
<1>4. {controls[c]} \cup Contents[controls[c]] \subseteq objects[Scene(c)]
  BY <1>1 DEF ScenesInv, Inserted, Left
<1> QED BY <1>2, <1>3, <1>4

(***************************************************************************)
(* For any characters and contents, scenes and clients, however their      *)
(* handlers' visits interleave with movements, departures and returns:     *)
(* once no object is being added, a client shows its character's scene and *)
(* nothing else, each object after what contains it and, but for one that  *)
(* moved as it was created, where it is (Scene::AddObject,                 *)
(* Object::AddAwareObject, Object::MakeClean, NotifyObservers).            *)
(***************************************************************************)
THEOREM ScenesTheorem == ScenesSpec => []ClientsShowTheirScene
<1>1. ScenesInit => ScenesInv
  BY ScenesStart
<1>2. ScenesInv /\ [ScenesNext]_scenesVars => ScenesInv'
  BY ScenesStep
<1>3. ScenesInv => ClientsShowTheirScene
  BY InvShowsScene
<1> QED BY <1>1, <1>2, <1>3, PTL DEF ScenesSpec

=============================================================================
