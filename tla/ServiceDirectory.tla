-------------------------- MODULE ServiceDirectory --------------------------
(***************************************************************************)
(* Server processes and what they tell each other through the tables       *)
(* galaxy and service: SwganhApp's start and end, ServiceManager,          *)
(* ServiceDirectory with Datastore, and GalaxyService's timer.             *)
(*                                                                         *)
(* A process has a main thread, which joins the galaxy, cleans up, loads   *)
(* and starts its services and in the end stops and forgets them, and the  *)
(* timer of its GalaxyService, which sums the services up on a thread of   *)
(* the pool.  Any process may be killed at any moment; its rows stay.      *)
(*                                                                         *)
(* Left out: SQL that fails, addresses and ports, and pulse,               *)
(* updateServiceStatus and makePrimaryService, which nothing calls.        *)
(***************************************************************************)
EXTENDS Naturals, Sequences, FiniteSets, Functions

CONSTANTS
    Process,
    Name,        \* a process's galaxy_name
    Fleets,      \* what each process runs, by its server_mode, and the galaxies there are
    MaxStarts    \* bounds how often processes are started

Service == {"login", "connection", "galaxy"}

ASSUME DirectoryAssumption ==
    /\ \A f \in Fleets : /\ f.runs \in [Process -> SUBSET Service] /\ Cardinality(f.known) \in {0, 1}
                         /\ \A p \in Process : f.runs[p] # {} => "galaxy" \in f.runs[p]
    /\ MaxStarts \in Nat

None == "none"
Status == {"OFFLINE", "LOADING", "ONLINE"}     \* Galaxy::LOCKED is never used

VARIABLES
    galaxies,   \* table galaxy: name and status by id
    rows,       \* table service: galaxy, type and status by id
    nextId,     \* its AUTO_INCREMENT
    stage,      \* where a process's main thread is
    active,     \* active_galaxy_: its id and status
    doomed,     \* rows CleanupServices_ has found and not yet removed
    mine,       \* services_: id and status of each service's description
    starting,   \* the service whose Startup is running
    update,     \* updateGalaxyStatus on the timer's thread
    fleet,      \* the fleet of this behaviour
    starts,     \* processes started, for the bound
    robbed,     \* history: another process's clean-up has found this one's services
    lost        \* history: the rows a process's clean-up found that nobody knew any more

tables == <<galaxies, rows, nextId>>
main == <<stage, doomed, mine, starting, fleet, starts, robbed, lost>>
directoryVars == <<tables, main, update, active>>

Unregistered == [s \in Service |-> [id |-> 0, status |-> "OFFLINE"]]
NoGalaxy == [id |-> 0, status |-> "OFFLINE"]
Waiting == [place |-> "waiting", status |-> "OFFLINE"]

Runs(p) == fleet.runs[p]
RowsOf(g) == {i \in DOMAIN rows : rows[i].galaxy = g}
Known == {mine[p][s].id : p \in Process, s \in Service}

\* The table's script leaves a galaxy that is ONLINE.
Init ==
    /\ fleet \in Fleets
    /\ \/ fleet.known = {} /\ galaxies = <<>>
       \/ \E n \in fleet.known : galaxies = <<[name |-> n, status |-> "ONLINE"]>>
    /\ rows = <<>> /\ nextId = 1
    /\ stage = [p \in Process |-> "down"] /\ active = [p \in Process |-> NoGalaxy]
    /\ doomed = [p \in Process |-> {}] /\ mine = [p \in Process |-> Unregistered]
    /\ starting = [p \in Process |-> None] /\ update = [p \in Process |-> Waiting]
    /\ starts = 0 /\ robbed = [p \in Process |-> FALSE] /\ lost = [p \in Process |-> {}]

-----------------------------------------------------------------------------
(* SwganhApp::Initialize: joining the galaxy and cleaning up *)

Start(p) ==
    /\ Runs(p) # {} /\ stage[p] = "down" /\ starts < MaxStarts
    /\ stage' = [stage EXCEPT ![p] = "find"] /\ starts' = starts + 1
    /\ UNCHANGED <<tables, update, active, doomed, mine, starting, fleet, robbed, lost>>

\* joinGalaxy: findGalaxyByName takes one of the galaxies of that name.  Its status is
\* the one the last process to save it left behind.
FindGalaxy(p) ==
    /\ stage[p] = "find"
    /\ LET found == {g \in DOMAIN galaxies : galaxies[g].name = Name[p]}
       IN \/ \E g \in found : /\ active' = [active EXCEPT ![p] = [id |-> g, status |-> galaxies[g].status]]
                              /\ stage' = [stage EXCEPT ![p] = "snapshot"]
          \/ found = {} /\ stage' = [stage EXCEPT ![p] = "create"] /\ UNCHANGED active
    /\ UNCHANGED <<tables, update, doomed, mine, starting, fleet, starts, robbed, lost>>

CreateGalaxy(p) ==
    /\ stage[p] = "create"
    /\ galaxies' = Append(galaxies, [name |-> Name[p], status |-> "OFFLINE"])
    /\ active' = [active EXCEPT ![p] = [id |-> Len(galaxies) + 1, status |-> "OFFLINE"]]
    /\ stage' = [stage EXCEPT ![p] = "snapshot"]
    /\ UNCHANGED <<rows, nextId, update, doomed, mine, starting, fleet, starts, robbed, lost>>

\* CleanupServices_ takes every service of the galaxy for a leftover.
Snapshot(p) ==
    /\ stage[p] = "snapshot"
    /\ LET all == RowsOf(active[p].id)
       IN /\ doomed' = [doomed EXCEPT ![p] = all]
          /\ robbed' = [q \in Process |-> robbed[q] \/ \E s \in Service : mine[q][s].id \in all]
          /\ lost' = [lost EXCEPT ![p] = all \ Known]
          /\ stage' = [stage EXCEPT ![p] = IF all = {} THEN "load" ELSE "clean"]
    /\ UNCHANGED <<tables, update, active, mine, starting, fleet, starts>>

\* ServiceDirectory::removeService, in any order.
Removed(ids) == Restrict(rows, DOMAIN rows \ ids)

\* The mutant stops one short of the list's end.
RemoveLeftover_OneShort(p) ==
    /\ stage[p] = "clean"
    /\ \E i \in doomed[p] :
        /\ rows' = IF doomed[p] = {i} THEN rows ELSE Removed({i})
        /\ doomed' = [doomed EXCEPT ![p] = @ \ {i}]
        /\ stage' = [stage EXCEPT ![p] = IF doomed[p] = {i} THEN "load" ELSE "clean"]
    /\ UNCHANGED <<galaxies, nextId, update, active, mine, starting, fleet, starts, robbed, lost>>

RemoveLeftover(p) ==
    /\ stage[p] = "clean"
    /\ \E i \in doomed[p] :
        /\ rows' = Removed({i})
        /\ doomed' = [doomed EXCEPT ![p] = @ \ {i}]
        /\ stage' = [stage EXCEPT ![p] = IF doomed[p] = {i} THEN "load" ELSE "clean"]
    /\ UNCHANGED <<galaxies, nextId, update, active, mine, starting, fleet, starts, robbed, lost>>

-----------------------------------------------------------------------------
(* ServiceManager *)

\* LoadCoreServices_ adds the galaxy service last; services_ is a map, which Start,
\* Stop and the destructor go through by name.
LoadRank == [login |-> 1, connection |-> 2, galaxy |-> 3]
NameRank == [connection |-> 1, galaxy |-> 2, login |-> 3]

\* s is the first by rank of the process's services that are left.
IsNext(s, left, rank) == s \in left /\ \A t \in left : rank[s] <= rank[t]

WithStatus(p, status) == {s \in Runs(p) : mine[p][s].status = status}
Registered(p) == {s \in Runs(p) : mine[p][s].id # 0}

\* Datastore::saveService updates the row with the service's id, if there is one.
SaveService(p, s, status) ==
    /\ mine' = [mine EXCEPT ![p][s].status = status]
    /\ rows' = [i \in DOMAIN rows |->
                  IF i = mine[p][s].id THEN [rows[i] EXCEPT !.status = status] ELSE rows[i]]

\* AddService: registerService inserts the row, with -1, and updateService makes that
\* LOADING.  Nothing tells the two apart, and an update of a row that was removed between
\* them changes nothing: they are one step.
AddService(p, s) ==
    /\ stage[p] = "load" /\ IsNext(s, Runs(p) \ Registered(p), LoadRank)
    /\ rows' = [i \in DOMAIN rows \cup {nextId} |->
                  IF i = nextId THEN [galaxy |-> active[p].id, type |-> s, status |-> "LOADING"] ELSE rows[i]]
    /\ mine' = [mine EXCEPT ![p][s] = [id |-> nextId, status |-> "LOADING"]]
    /\ nextId' = nextId + 1
    /\ stage' = [stage EXCEPT ![p] = IF Runs(p) \ Registered(p) = {s} THEN "start" ELSE "load"]
    /\ UNCHANGED <<galaxies, update, active, doomed, starting, fleet, starts, robbed, lost>>

\* ServiceManager::Start: the service's own Startup.
Startup(p, s) ==
    /\ stage[p] = "start" /\ starting[p] = None /\ IsNext(s, WithStatus(p, "LOADING"), NameRank)
    /\ starting' = [starting EXCEPT ![p] = s]
    /\ UNCHANGED <<tables, update, active, stage, doomed, mine, fleet, starts, robbed, lost>>

\* When it returns the service is ONLINE.
FinishStartup(p) ==
    /\ stage[p] = "start" /\ starting[p] # None
    /\ SaveService(p, starting[p], "ONLINE")
    /\ starting' = [starting EXCEPT ![p] = None]
    /\ stage' = [stage EXCEPT ![p] = IF WithStatus(p, "LOADING") = {starting[p]} THEN "up" ELSE "start"]
    /\ UNCHANGED <<galaxies, nextId, update, active, doomed, fleet, starts, robbed, lost>>

-----------------------------------------------------------------------------
(* The end of a process *)

Quit(p) ==
    /\ stage[p] = "up" /\ stage' = [stage EXCEPT ![p] = "stop"]
    /\ UNCHANGED <<tables, update, active, doomed, mine, starting, fleet, starts, robbed, lost>>

\* ServiceManager::Stop.
StopService(p, s) ==
    /\ stage[p] = "stop" /\ IsNext(s, WithStatus(p, "ONLINE"), NameRank)
    /\ SaveService(p, s, "OFFLINE")
    /\ stage' = [stage EXCEPT ![p] = IF WithStatus(p, "ONLINE") = {s} THEN "leave" ELSE "stop"]
    /\ UNCHANGED <<galaxies, nextId, update, active, doomed, starting, fleet, starts, robbed, lost>>

\* The memory of a process that is no more.
Gone(p) ==
    /\ stage' = [stage EXCEPT ![p] = "down"] /\ active' = [active EXCEPT ![p] = NoGalaxy]
    /\ doomed' = [doomed EXCEPT ![p] = {}] /\ mine' = [mine EXCEPT ![p] = Unregistered]
    /\ starting' = [starting EXCEPT ![p] = None] /\ lost' = [lost EXCEPT ![p] = {}]
    /\ robbed' = [robbed EXCEPT ![p] = FALSE]
    /\ update' = [update EXCEPT ![p] = Waiting]

\* ~ServiceManager removes the rows one by one; then the services are destroyed.
ForgetService(p, s) ==
    /\ stage[p] = "leave" /\ IsNext(s, Registered(p), NameRank)
    /\ rows' = Removed({mine[p][s].id})
    /\ IF Registered(p) = {s} THEN Gone(p)
       ELSE /\ mine' = [mine EXCEPT ![p][s].id = 0]
            /\ UNCHANGED <<stage, active, doomed, starting, robbed, lost, update>>
    /\ UNCHANGED <<galaxies, nextId, fleet, starts>>

Crash(p) == stage[p] # "down" /\ Gone(p) /\ UNCHANGED <<tables, fleet, starts>>

-----------------------------------------------------------------------------
(* ServiceDirectory::updateGalaxyStatus *)

\* The mutant leaves out services that are still loading.
Summary_SomeOnline(ids) ==
    CASE \E i \in ids : rows[i].status = "ONLINE" -> "ONLINE"
      [] \A i \in ids : rows[i].status = "OFFLINE" -> "OFFLINE"
      [] OTHER -> "LOADING"

Summary(ids) ==
    CASE \A i \in ids : rows[i].status = "ONLINE" -> "ONLINE"
      [] \A i \in ids : rows[i].status = "OFFLINE" -> "OFFLINE"
      [] OTHER -> "LOADING"

\* GalaxyService::Startup arms the update, which is there until the service is destroyed.
Armed(p) ==
    \/ stage[p] = "start" /\ (starting[p] = "galaxy" \/ mine[p]["galaxy"].status = "ONLINE")
    \/ stage[p] \in {"up", "stop", "leave"}

\* Without services the update ends here.
CountServices(p) ==
    /\ Armed(p) /\ update[p].place = "waiting"
    /\ LET all == RowsOf(active[p].id)
       IN IF all = {} THEN UNCHANGED update
          ELSE update' = [update EXCEPT ![p] = [place |-> "counted", status |-> Summary(all)]]
    /\ UNCHANGED <<tables, main, active>>

\* The mutant saves only a status that this process has not set before.
SetStatus_OnChange(p) ==
    /\ update[p].place = "counted"
    /\ active' = [active EXCEPT ![p].status = update[p].status]
    /\ update' = [update EXCEPT ![p] = IF update[p].status = active[p].status THEN Waiting
                                       ELSE [@ EXCEPT !.place = "set"]]
    /\ UNCHANGED <<tables, main>>

SetStatus(p) ==
    /\ update[p].place = "counted"
    /\ active' = [active EXCEPT ![p].status = update[p].status]
    /\ update' = [update EXCEPT ![p].place = "set"]
    /\ UNCHANGED <<tables, main>>

\* saveGalaxyStatus, without the directory's mutex.
SaveStatus(p) ==
    /\ update[p].place = "set"
    /\ galaxies' = [galaxies EXCEPT ![active[p].id].status = update[p].status]
    /\ update' = [update EXCEPT ![p] = Waiting]
    /\ UNCHANGED <<rows, nextId, main, active>>

-----------------------------------------------------------------------------
Boot(p) ==
    \/ FindGalaxy(p) \/ CreateGalaxy(p) \/ Snapshot(p) \/ RemoveLeftover(p)
    \/ \E s \in Service : AddService(p, s) \/ Startup(p, s)
    \/ FinishStartup(p)
Leave(p) == \E s \in Service : StopService(p, s) \/ ForgetService(p, s)
Update(p) == CountServices(p) \/ SetStatus(p) \/ SaveStatus(p)

Next == \E p \in Process : Start(p) \/ Boot(p) \/ Quit(p) \/ Leave(p) \/ Crash(p) \/ Update(p)

Spec == Init /\ [][Next]_directoryVars

-----------------------------------------------------------------------------
(* Properties *)

Listed(p, s) == mine[p][s].id \in DOMAIN rows

GalaxyName == (UNION {f.known : f \in Fleets}) \cup {Name[p] : p \in Process}

DirectoryTypeOK ==
    /\ galaxies \in Seq([name : GalaxyName, status : Status])
    /\ DOMAIN rows \subseteq 1 .. nextId - 1 /\ nextId \in Nat \ {0}
    /\ \A i \in DOMAIN rows : rows[i] \in [galaxy : DOMAIN galaxies, type : Service, status : Status]
    /\ stage \in [Process -> {"down", "find", "create", "snapshot", "clean", "load", "start", "up", "stop", "leave"}]
    /\ active \in [Process -> [id : Nat, status : Status]]
    /\ doomed \in [Process -> SUBSET Nat] /\ robbed \in [Process -> BOOLEAN] /\ lost \in [Process -> SUBSET Nat]
    /\ mine \in [Process -> [Service -> [id : Nat, status : Status]]]
    /\ starting \in [Process -> Service \cup {None}]
    /\ update \in [Process -> [place : {"waiting", "counted", "set"}, status : Status]]
    /\ fleet \in Fleets /\ starts \in 0 .. MaxStarts

\* The status a server is about to save is ONLINE only if each of its own services has been
\* started or is no longer listed, although it was counted earlier, on another thread than
\* the one that starts the services, and other processes change the tables all the time
\* (updateGalaxyStatus against AddService and ServiceManager::Start).
OnlineIsEarned ==
    \A p \in Process :
        stage[p] \in {"start", "up"} /\ update[p].place # "waiting" /\ update[p].status = "ONLINE" =>
            \A s \in Runs(p) : mine[p][s].status = "ONLINE" \/ ~Listed(p, s)

\* The table follows the processes.  A running server's service is listed unless another
\* server's start found it, and a server that has cleaned up has left no row of the
\* processes that were gone by then (CleanupServices_, AddService).
RowsFollowProcesses ==
    \A p \in Process :
        /\ ~robbed[p] => \A s \in Registered(p) : Listed(p, s)
        /\ stage[p] \in {"load", "start", "up", "stop", "leave"} => lost[p] \cap DOMAIN rows = {}
=============================================================================
