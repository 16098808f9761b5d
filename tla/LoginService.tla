---------------------------- MODULE LoginService ----------------------------
(***************************************************************************)
(* LoginService on top of ServiceDirectory: the list of galaxies it shows, *)
(* refreshed by the event that follows each update of the galaxy's status, *)
(* and the clients that log in and out.                                    *)
(*                                                                         *)
(* A client's handler runs on its session's strand, the event's handler    *)
(* and the main thread's own refresh on theirs; all share galaxy_status_.  *)
(* Left out: accounts, keys and characters, and the torn vector that two   *)
(* threads may read and write at once: an assignment is one step here.     *)
(***************************************************************************)
EXTENDS ServiceDirectory

CONSTANTS
    Client,
    Home         \* the login server in a client's configuration

VARIABLES
    posted,      \* an UpdateGalaxyStatus event waits for the dispatcher
    announced,   \* galaxy_status_: the status shown for each galaxy listed
    refresh,     \* UpdateGalaxyStatus_
    session      \* a client's session: its place, and the list it was sent last

loginVars == <<posted, announced, refresh, session>>
vars == <<directoryVars, loginVars>>

Nothing == <<>>     \* no galaxy listed
AtRest == [place |-> "rest", left |-> {}, list |-> Nothing]
Away == [place |-> "away", view |-> Nothing, draft |-> Nothing, closing |-> FALSE]

LoginInit ==
    /\ Init
    /\ posted = [p \in Process |-> FALSE] /\ announced = [p \in Process |-> Nothing]
    /\ refresh = [p \in Process |-> AtRest]
    /\ session = [c \in Client |-> Away]

\* LoginService::Startup has been entered, and so subscribed and opened the socket, and
\* Shutdown has not.
Serving(p) ==
    /\ stage[p] \in {"start", "up", "stop"}
    /\ starting[p] = "login" \/ mine[p]["login"].status = "ONLINE"

-----------------------------------------------------------------------------
(* UpdateGalaxyStatus_ *)

\* GetGalaxyStatus_ begins with the galaxies there are.
Begin(p) == refresh' = [refresh EXCEPT ![p] = [place |-> "listing", left |-> DOMAIN galaxies, list |-> Nothing]]

\* It lists, in whatever order, each that has a connection service, and shows for every
\* one the status of this server's own galaxy.  With the last galaxy_status_ is assigned.
Connected(g) == \E i \in RowsOf(g) : rows[i].type = "connection"

ListGalaxy(p) ==
    /\ refresh[p].place = "listing"
    /\ \E g \in refresh[p].left :
        LET list == IF ~Connected(g) THEN refresh[p].list
                    ELSE [h \in DOMAIN refresh[p].list \cup {g} |->
                            IF h = g THEN active[p].status ELSE refresh[p].list[h]]
            last == refresh[p].left = {g}
        IN /\ refresh' = [refresh EXCEPT ![p] = [place |-> IF last THEN "broadcast" ELSE "listing",
                                                 left |-> @.left \ {g}, list |-> list]]
           /\ announced' = IF last THEN [announced EXCEPT ![p] = list] ELSE announced
    /\ UNCHANGED <<directoryVars, posted, session>>

\* Every session in session_map_ is sent the message built from the list.  Whoever is
\* still logging in is sent another status at the end of that, so only the views of the
\* others are kept.
Broadcast(p) ==
    /\ refresh[p].place = "broadcast"
    /\ session' = [c \in Client |-> IF Home[c] = p /\ session[c].place = "in"
                                    THEN [session[c] EXCEPT !.view = refresh[p].list] ELSE session[c]]
    /\ refresh' = [refresh EXCEPT ![p] = AtRest]
    /\ UNCHANGED <<directoryVars, posted, announced>>

\* Before LoginService has subscribed the event is nobody's, nor is it once the kernel has
\* dropped the dispatcher, after ServiceManager::Stop.
HandleEvent(p) ==
    /\ posted[p] /\ posted' = [posted EXCEPT ![p] = FALSE]
    /\ refresh[p] = AtRest
    /\ IF Serving(p) \/ stage[p] = "stop" THEN Begin(p) ELSE UNCHANGED refresh
    /\ UNCHANGED <<directoryVars, announced, session>>

-----------------------------------------------------------------------------
(* The directory's steps, with what they mean to the login service *)

Dispatched(p) == "login" \in Runs(p)     \* nobody else subscribes

\* GalaxyService dispatches the event after every update, an empty one too.  The timer
\* waits ten seconds, in which the last event is handled and LoginService::Startup, which
\* follows GalaxyService's, returns: one thread at a time refreshes the list.
LoginUpdate(p) ==
    \/ /\ ~posted[p] /\ refresh[p] = AtRest
       /\ CountServices(p)
       /\ posted' = [posted EXCEPT ![p] = Dispatched(p) /\ RowsOf(active[p].id) = {}]
       /\ UNCHANGED <<announced, refresh, session>>
    \/ SetStatus(p) /\ UNCHANGED loginVars
    \/ /\ SaveStatus(p) /\ posted' = [posted EXCEPT ![p] = Dispatched(p)]
       /\ UNCHANGED <<announced, refresh, session>>

\* Startup refreshes the list itself before it returns.
LoginBoot(p) ==
    \/ /\ FindGalaxy(p) \/ CreateGalaxy(p) \/ Snapshot(p) \/ RemoveLeftover(p)
       /\ UNCHANGED loginVars
    \/ \E s \in Service : AddService(p, s) /\ UNCHANGED loginVars
    \/ \E s \in Service :
        /\ Startup(p, s)
        /\ IF s = "login" THEN Begin(p) ELSE UNCHANGED refresh
        /\ UNCHANGED <<posted, announced, session>>
    \/ /\ starting[p] = "login" => refresh[p] = AtRest
       /\ FinishStartup(p) /\ UNCHANGED loginVars

\* With the process go its sessions and its list.
LoginGone(p) ==
    /\ posted' = [posted EXCEPT ![p] = FALSE] /\ announced' = [announced EXCEPT ![p] = Nothing]
    /\ refresh' = [refresh EXCEPT ![p] = AtRest]
    /\ session' = [c \in Client |-> IF Home[c] = p THEN Away ELSE session[c]]

LoginLeave(p) ==
    \/ \E s \in Service : StopService(p, s) /\ UNCHANGED loginVars
    \/ \E s \in Service : /\ ForgetService(p, s)
                          /\ IF Registered(p) = {s} THEN LoginGone(p) ELSE UNCHANGED loginVars

-----------------------------------------------------------------------------
(* Clients *)

SetSession(c, s) ==
    /\ session' = [session EXCEPT ![c] = s]
    /\ UNCHANGED <<directoryVars, posted, announced, refresh>>

Knock(c) ==
    /\ Serving(Home[c]) /\ session[c] = Away
    /\ SetSession(c, [Away EXCEPT !.place = "open"])

\* The strand is between two messages.  A client may send LoginClientId again at any time.
Idle(c) == session[c].place \in {"open", "refused", "in"}

\* HandleLoginClientId_ refuses: an error message now, the end after some seconds.
Refuse(c) ==
    /\ Idle(c)
    /\ SetSession(c, [session[c] EXCEPT !.place = "refused", !.closing = TRUE])

\* It accepts, a client that was refused before, too; the token and the galaxies go out.
Accept(c) ==
    /\ Idle(c)
    /\ SetSession(c, [session[c] EXCEPT !.place = "accepted"])

\* The status goes out last; between building the message and sending it a refresh may
\* send a newer one.
BuildClusterStatus(c) ==
    /\ session[c].place = "accepted"
    /\ SetSession(c, [session[c] EXCEPT !.place = "built", !.draft = announced[Home[c]]])

SendClusterStatus(c) ==
    /\ session[c].place = "built"
    /\ SetSession(c, [session[c] EXCEPT !.place = "in", !.view = session[c].draft, !.draft = Nothing])

\* The timer of a refusal closes the session whatever it has become; RemoveSession.
CloseRefused(c) ==
    /\ session[c].closing
    /\ SetSession(c, [session[c] EXCEPT !.place = "closed", !.closing = FALSE,
                                        !.view = Nothing, !.draft = Nothing])

Answer(c) == BuildClusterStatus(c) \/ SendClusterStatus(c)

-----------------------------------------------------------------------------
Refresh(p) == HandleEvent(p) \/ ListGalaxy(p) \/ Broadcast(p)

LoginNext ==
    \/ \E p \in Process :
        \/ Start(p) /\ UNCHANGED loginVars
        \/ Quit(p) /\ UNCHANGED loginVars
        \/ LoginBoot(p) \/ LoginLeave(p) \/ LoginUpdate(p) \/ Refresh(p)
        \/ Crash(p) /\ LoginGone(p)
    \/ \E c \in Client : Knock(c) \/ Refuse(c) \/ Accept(c) \/ Answer(c) \/ CloseRefused(c)

\* The main thread and the pool's go on with what they began and the timers fire; nobody
\* has to start, stop or kill a server, or to log in.
LoginSpec == LoginInit /\ [][LoginNext]_vars
    /\ \A p \in Process :
        WF_vars(LoginBoot(p) \/ LoginLeave(p)) /\ WF_vars(LoginUpdate(p) \/ Refresh(p))
    /\ \A c \in Client : WF_vars(Answer(c)) /\ WF_vars(CloseRefused(c))

-----------------------------------------------------------------------------
(* Properties *)

\* The galaxy's row, the server's memory, the list it shows and what its clients were sent
\* last all say what the services do; nobody that was refused is still there.
Settled ==
    /\ \A p \in Process : stage[p] = "up" =>
        /\ RowsOf(active[p].id) # {} =>
               /\ active[p].status = Summary(RowsOf(active[p].id))
               /\ galaxies[active[p].id].status = active[p].status
        /\ "login" \in Runs(p) =>
               announced[p] = [g \in {h \in DOMAIN galaxies : Connected(h)} |-> active[p].status]
    /\ \A c \in Client : /\ session[c].place = "in" => session[c].view = announced[Home[c]]
                         /\ ~session[c].closing

\* Once servers are no longer started, stopped or killed everything settles for good,
\* although each status is counted at one step, saved at a later one over what another
\* server has saved, listed at yet another, and sent to clients that may be sent an older
\* list afterwards.
StatusSettles == <>[]Settled
=============================================================================
