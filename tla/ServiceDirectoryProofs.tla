----------------------- MODULE ServiceDirectoryProofs -----------------------
(***************************************************************************)
(* ServiceDirectory's types and safety properties for every set of server  *)
(* processes, whatever each runs and however often they are started.       *)
(***************************************************************************)
EXTENDS ServiceDirectory, TLAPS

\* What a process's own variables say of each other at each stage of its main thread.
Staged ==
    \A p \in Process :
        /\ stage[p] \notin {"down", "find", "create"} => active[p].id \in DOMAIN galaxies
        /\ stage[p] \in {"down", "find", "create", "snapshot", "clean"} =>
               \A s \in Service : mine[p][s].id = 0
        /\ stage[p] \in {"start", "up"} => \A s \in Runs(p) : mine[p][s].id # 0
        /\ update[p].place # "waiting" => stage[p] \in {"start", "up", "stop", "leave"}
        /\ stage[p] # "clean" => doomed[p] = {}

\* A service's row, while there is one, is that service's alone and says what its process
\* says.
OwnRows ==
    /\ \A p \in Process, s \in Service : mine[p][s].id < nextId
    /\ \A p, q \in Process, s, t \in Service :
           mine[p][s].id = mine[q][t].id /\ mine[p][s].id # 0 => p = q /\ s = t
    /\ \A p \in Process, s \in Service : Listed(p, s) =>
           /\ rows[mine[p][s].id].status = mine[p][s].status
           /\ rows[mine[p][s].id].galaxy = active[p].id

\* What a clean-up found is removed or still to be removed, and is nobody's but theirs
\* whom it robs.
CleanUps ==
    /\ \A p \in Process : /\ doomed[p] \subseteq 1 .. nextId - 1
                          /\ lost[p] \subseteq 1 .. nextId - 1
                          /\ lost[p] \cap DOMAIN rows \subseteq doomed[p]
    /\ \A p, q \in Process, s \in Service : mine[p][s].id \in doomed[q] => robbed[p]
    /\ \A p \in Process, s \in Service : ~robbed[p] /\ mine[p][s].id # 0 => Listed(p, s)

IInv == DirectoryTypeOK /\ Staged /\ OwnRows /\ CleanUps /\ OnlineIsEarned

-----------------------------------------------------------------------------
(* Joining a galaxy and cleaning up *)

\* The galaxies' rows, one by one.
LEMMA GalaxyRows ==
    ASSUME DirectoryTypeOK
    PROVE  \A g \in DOMAIN galaxies : g \in Nat /\ galaxies[g] \in [name : GalaxyName, status : Status]
<1> DEFINE Row == [name : GalaxyName, status : Status]
<1>1. galaxies \in Seq(Row)
  BY DEF DirectoryTypeOK
<1> HIDE DEF Row
<1>2. \A g \in DOMAIN galaxies : g \in Nat /\ galaxies[g] \in Row
  BY <1>1
<1> QED BY <1>2 DEF Row

\* Starting a process touches no table (SwganhApp::Initialize).
LEMMA StartStep ==
    ASSUME IInv, NEW p \in Process, Start(p)
    PROVE  IInv'
<1>1. DirectoryTypeOK'
  BY DirectoryAssumption DEF Start, tables, main, IInv, DirectoryTypeOK, Staged
<1>2. Staged'
  BY DEF Start, tables, main, IInv, Staged, DirectoryTypeOK, Runs
<1>3. OwnRows'
  BY DEF Start, tables, main, IInv, OwnRows, DirectoryTypeOK, Staged, Listed
<1>4. CleanUps'
  BY DEF Start, tables, main, IInv, CleanUps, DirectoryTypeOK, Staged, OwnRows, Listed
<1>5. OnlineIsEarned'
  BY DEF Start, tables, main, IInv, OnlineIsEarned, DirectoryTypeOK, Staged, OwnRows, Listed, Runs
<1> QED BY <1>1, <1>2, <1>3, <1>4, <1>5 DEF IInv

\* A galaxy that is found is a row of the table (joinGalaxy).
LEMMA FindGalaxyStep ==
    ASSUME IInv, NEW p \in Process, FindGalaxy(p)
    PROVE  IInv'
<1>1. /\ stage[p] = "find" /\ UNCHANGED <<tables, update, doomed, mine, starting, fleet, starts, robbed, lost>>
      /\ \/ stage' = [stage EXCEPT ![p] = "create"] /\ UNCHANGED active
         \/ \E g \in DOMAIN galaxies : /\ active' = [active EXCEPT ![p] = [id |-> g, status |-> galaxies[g].status]]
                                       /\ stage' = [stage EXCEPT ![p] = "snapshot"]
  BY DEF FindGalaxy
<1>2. \A g \in DOMAIN galaxies : g \in Nat /\ galaxies[g].status \in Status
  BY GalaxyRows DEF IInv
<1>3. /\ active' \in [Process -> [id : Nat, status : Status]]
      /\ stage' \in [Process -> {"down", "find", "create", "snapshot", "clean", "load", "start", "up", "stop", "leave"}]
      /\ stage'[p] \in {"create", "snapshot"}
      /\ stage'[p] = "snapshot" => active'[p].id \in DOMAIN galaxies
      /\ \A q \in Process : q # p => active'[q] = active[q] /\ stage'[q] = stage[q]
  <2>1. active \in [Process -> [id : Nat, status : Status]] /\ stage \in [Process -> {"down", "find", "create", "snapshot", "clean", "load", "start", "up", "stop", "leave"}]
    BY DEF IInv, DirectoryTypeOK
  <2>2. CASE stage' = [stage EXCEPT ![p] = "create"] /\ UNCHANGED active
    BY <2>1, <2>2
  <2>3. ASSUME NEW g \in DOMAIN galaxies, stage' = [stage EXCEPT ![p] = "snapshot"],
               active' = [active EXCEPT ![p] = [id |-> g, status |-> galaxies[g].status]]
        PROVE  /\ active' \in [Process -> [id : Nat, status : Status]]
               /\ stage' \in [Process -> {"down", "find", "create", "snapshot", "clean", "load", "start", "up", "stop", "leave"}]
               /\ stage'[p] = "snapshot" /\ active'[p].id = g
               /\ \A q \in Process : q # p => active'[q] = active[q] /\ stage'[q] = stage[q]
    <3>1. [id |-> g, status |-> galaxies[g].status] \in [id : Nat, status : Status]
      BY <1>2
    <3> QED BY <2>1, <2>3, <3>1
  <2> QED BY <1>1, <2>2, <2>3
<1>4. DirectoryTypeOK'
  BY <1>1, <1>3 DEF tables, IInv, DirectoryTypeOK
<1>5. Staged'
  BY <1>1, <1>3 DEF tables, IInv, Staged, Runs
<1>6. \A s \in Service : mine[p][s].id = 0 /\ mine[p][s].id \notin DOMAIN rows
  BY <1>1 DEF IInv, Staged, DirectoryTypeOK
<1>7. OwnRows'
  BY <1>1, <1>3, <1>6 DEF tables, IInv, OwnRows, Listed
<1>8. CleanUps'
  BY <1>1 DEF tables, IInv, CleanUps, Listed
<1>9. OnlineIsEarned'
  BY <1>1, <1>3 DEF tables, IInv, OnlineIsEarned, Listed, Runs
<1> QED BY <1>4, <1>5, <1>7, <1>8, <1>9 DEF IInv

\* A galaxy that is created is the table's last row (createGalaxy).
LEMMA CreateGalaxyStep ==
    ASSUME IInv, NEW p \in Process, CreateGalaxy(p)
    PROVE  IInv'
<1>1. DirectoryTypeOK'
  <2>1. /\ stage[p] = "create"
        /\ galaxies' = Append(galaxies, [name |-> Name[p], status |-> "OFFLINE"])
        /\ UNCHANGED <<rows, nextId, update, doomed, mine, starting, fleet, starts, robbed, lost>>
    BY DEF CreateGalaxy
  <2>2. [name |-> Name[p], status |-> "OFFLINE"] \in [name : GalaxyName, status : Status]
    <3>1. Name[p] \in {Name[q] : q \in Process}
      OBVIOUS
    <3>2. Name[p] \in GalaxyName
      BY <3>1, ZenonT(30) DEF GalaxyName
    <3> QED BY <3>2 DEF Status
  <2>3. galaxies' \in Seq([name : GalaxyName, status : Status])
    BY <2>1, <2>2 DEF IInv, DirectoryTypeOK
  <2>4. DOMAIN galaxies \subseteq DOMAIN galaxies'
    BY <2>1 DEF IInv, DirectoryTypeOK
  <2>5. \A i \in DOMAIN rows : rows[i] \in [galaxy : DOMAIN galaxies', type : Service, status : Status]
    BY <2>4 DEF IInv, DirectoryTypeOK
  <2>6. active' \in [Process -> [id : Nat, status : Status]]
    BY DEF CreateGalaxy, IInv, DirectoryTypeOK, Status
  <2>7. stage' \in [Process -> {"down", "find", "create", "snapshot", "clean", "load", "start", "up", "stop", "leave"}]
    BY DEF CreateGalaxy, IInv, DirectoryTypeOK
  <2> QED BY <2>1, <2>3, <2>5, <2>6, <2>7 DEF IInv, DirectoryTypeOK
<1>2. Staged'
  BY DEF CreateGalaxy, tables, main, IInv, Staged, DirectoryTypeOK, Runs
<1>3. OwnRows'
  BY DEF CreateGalaxy, tables, main, IInv, OwnRows, DirectoryTypeOK, Staged, Listed
<1>4. CleanUps'
  BY DEF CreateGalaxy, tables, main, IInv, CleanUps, DirectoryTypeOK, Staged, OwnRows, Listed
<1>5. OnlineIsEarned'
  BY DEF CreateGalaxy, tables, main, IInv, OnlineIsEarned, DirectoryTypeOK, Staged, OwnRows, Listed, Runs
<1> QED BY <1>1, <1>2, <1>3, <1>4, <1>5 DEF IInv

\* The clean-up's list is the galaxy's rows: the processes that own one are robbed, the
\* others' rows are lost (CleanupServices_).
LEMMA SnapshotStep ==
    ASSUME IInv, NEW p \in Process, Snapshot(p)
    PROVE  IInv'
<1>1. DirectoryTypeOK'
  <2>1. /\ UNCHANGED <<tables, update, active, mine, starting, fleet, starts>>
        /\ doomed' = [doomed EXCEPT ![p] = RowsOf(active[p].id)]
        /\ robbed' = [q \in Process |-> robbed[q] \/ \E s \in Service : mine[q][s].id \in RowsOf(active[p].id)]
        /\ lost' = [lost EXCEPT ![p] = RowsOf(active[p].id) \ Known]
        /\ stage' = [stage EXCEPT ![p] = IF RowsOf(active[p].id) = {} THEN "load" ELSE "clean"]
    BY DEF Snapshot
  <2>2. RowsOf(active[p].id) \in SUBSET Nat
    BY DEF RowsOf, IInv, DirectoryTypeOK
  <2>3. doomed' \in [Process -> SUBSET Nat] /\ lost' \in [Process -> SUBSET Nat]
    BY <2>1, <2>2 DEF IInv, DirectoryTypeOK
  <2>4. robbed' \in [Process -> BOOLEAN]
    BY <2>1
  <2>5. stage' \in [Process -> {"down", "find", "create", "snapshot", "clean", "load", "start", "up", "stop", "leave"}]
    BY <2>1 DEF IInv, DirectoryTypeOK
  <2> QED BY <2>1, <2>3, <2>4, <2>5 DEF tables, IInv, DirectoryTypeOK
<1>2. Staged'
  BY DEF Snapshot, tables, main, IInv, Staged, DirectoryTypeOK, Runs
<1>3. OwnRows'
  BY DEF Snapshot, tables, main, IInv, OwnRows, DirectoryTypeOK, Staged, Listed
<1>4. CleanUps'
  <2> DEFINE all == RowsOf(active[p].id)
  <2>1. /\ UNCHANGED <<tables, mine>>
        /\ doomed' = [doomed EXCEPT ![p] = all]
        /\ robbed' = [q \in Process |-> robbed[q] \/ \E s \in Service : mine[q][s].id \in all]
        /\ lost' = [lost EXCEPT ![p] = all \ Known]
    BY DEF Snapshot
  <2>2. all \subseteq 1 .. nextId - 1
    BY DEF RowsOf, IInv, DirectoryTypeOK
  <2>3. /\ doomed'[p] = all /\ lost'[p] \subseteq all
        /\ \A q \in Process : q # p => doomed'[q] = doomed[q] /\ lost'[q] = lost[q]
    BY <2>1 DEF IInv, DirectoryTypeOK
  <2> HIDE DEF all
  <2>4. \A q \in Process : /\ doomed'[q] \subseteq 1 .. nextId - 1 /\ lost'[q] \subseteq 1 .. nextId - 1
                           /\ lost'[q] \cap DOMAIN rows \subseteq doomed'[q]
    BY <2>2, <2>3 DEF IInv, CleanUps
  <2>5. \A r, q \in Process, s \in Service : mine[r][s].id \in doomed'[q] => robbed'[r]
    BY <2>1, <2>3 DEF IInv, CleanUps
  <2>6. \A q \in Process : ~robbed'[q] => ~robbed[q]
    BY <2>1
  <2> QED BY <2>1, <2>4, <2>5, <2>6 DEF tables, IInv, CleanUps, Listed
<1>5. OnlineIsEarned'
  BY DEF Snapshot, tables, main, IInv, OnlineIsEarned, DirectoryTypeOK, Staged, OwnRows, Listed, Runs
<1> QED BY <1>1, <1>2, <1>3, <1>4, <1>5 DEF IInv

\* Removing a listed row hurts only who has been robbed (removeService).
LEMMA RemoveLeftoverStep ==
    ASSUME IInv, NEW p \in Process, RemoveLeftover(p)
    PROVE  IInv'
<1>1. DirectoryTypeOK'
  BY DEF RemoveLeftover, Removed, Restrict, tables, main, IInv, DirectoryTypeOK, Staged, Status
<1>2. Staged'
  BY DEF RemoveLeftover, Removed, Restrict, tables, main, IInv, Staged, DirectoryTypeOK, Runs
<1>3. OwnRows'
  BY DEF RemoveLeftover, Removed, Restrict, tables, main, IInv, OwnRows, DirectoryTypeOK, Staged, Listed
<1>4. CleanUps'
  BY DEF RemoveLeftover, Removed, Restrict, tables, main, IInv, CleanUps, DirectoryTypeOK, Staged, OwnRows, Listed
<1>5. OnlineIsEarned'
  BY DEF RemoveLeftover, Removed, Restrict, tables, main, IInv, OnlineIsEarned, DirectoryTypeOK, Staged, OwnRows, Listed, Runs
<1> QED BY <1>1, <1>2, <1>3, <1>4, <1>5 DEF IInv

\* A new row has an id no process has and no clean-up has listed (registerService).
LEMMA AddServiceStep ==
    ASSUME IInv, NEW p \in Process, NEW s \in Service, AddService(p, s)
    PROVE  IInv'
<1>1. /\ stage[p] = "load" /\ s \in Runs(p) \ Registered(p)
      /\ rows' = [i \in DOMAIN rows \cup {nextId} |->
                    IF i = nextId THEN [galaxy |-> active[p].id, type |-> s, status |-> "LOADING"] ELSE rows[i]]
      /\ mine' = [mine EXCEPT ![p][s] = [id |-> nextId, status |-> "LOADING"]]
      /\ nextId' = nextId + 1
      /\ stage' = [stage EXCEPT ![p] = IF Runs(p) \ Registered(p) = {s} THEN "start" ELSE "load"]
      /\ UNCHANGED <<galaxies, update, active, doomed, starting, fleet, starts, robbed, lost>>
  BY DEF AddService, IsNext
<1>2. /\ nextId \in Nat \ {0} /\ nextId \notin DOMAIN rows /\ DOMAIN rows' = DOMAIN rows \cup {nextId}
      /\ rows'[nextId] = [galaxy |-> active[p].id, type |-> s, status |-> "LOADING"]
      /\ \A i \in DOMAIN rows : rows'[i] = rows[i]
  BY <1>1 DEF IInv, DirectoryTypeOK
<1>3. /\ mine'[p][s] = [id |-> nextId, status |-> "LOADING"]
      /\ \A q \in Process, t \in Service : q # p \/ t # s => mine'[q][t] = mine[q][t]
  BY <1>1 DEF IInv, DirectoryTypeOK
<1>4. /\ \A q \in Process : q # p => stage'[q] = stage[q]
      /\ stage'[p] \in {"load", "start"}
      /\ stage'[p] = "start" => \A t \in Runs(p) : t = s \/ mine[p][t].id # 0
  BY <1>1 DEF IInv, DirectoryTypeOK, Registered
<1>5. DirectoryTypeOK'
  <2>1. DOMAIN rows' \subseteq 1 .. nextId' - 1 /\ nextId' \in Nat \ {0}
    BY <1>1, <1>2 DEF IInv, DirectoryTypeOK
  <2>2. [galaxy |-> active[p].id, type |-> s, status |-> "LOADING"] \in [galaxy : DOMAIN galaxies, type : Service, status : Status]
    BY <1>1 DEF IInv, DirectoryTypeOK, Staged, Status
  <2>3. \A i \in DOMAIN rows' : rows'[i] \in [galaxy : DOMAIN galaxies, type : Service, status : Status]
    BY <1>2, <2>2 DEF IInv, DirectoryTypeOK
  <2>4. [id |-> nextId, status |-> "LOADING"] \in [id : Nat, status : Status]
    BY <1>2 DEF Status
  <2>5. mine' \in [Process -> [Service -> [id : Nat, status : Status]]]
    BY <1>1, <2>4 DEF IInv, DirectoryTypeOK
  <2>6. stage' \in [Process -> {"down", "find", "create", "snapshot", "clean", "load", "start", "up", "stop", "leave"}]
    BY <1>1 DEF IInv, DirectoryTypeOK
  <2> QED BY <1>1, <2>1, <2>3, <2>5, <2>6 DEF IInv, DirectoryTypeOK
<1>6. Staged'
  <2>1. ASSUME NEW q \in Process, stage'[q] \in {"start", "up"}
        PROVE  \A t \in Runs(q)' : mine'[q][t].id # 0
    <3>1. Runs(q)' = Runs(q) /\ Runs(q) \subseteq Service
      BY <1>1, DirectoryAssumption DEF Runs, IInv, DirectoryTypeOK
    <3>2. CASE q = p
      BY <1>2, <1>3, <1>4, <2>1, <3>1, <3>2
    <3>3. CASE q # p
      BY <1>3, <1>4, <2>1, <3>1, <3>3 DEF IInv, Staged
    <3> QED BY <3>2, <3>3
  <2>2. ASSUME NEW q \in Process, stage'[q] \in {"down", "find", "create", "snapshot", "clean"}
        PROVE  \A t \in Service : mine'[q][t].id = 0
    BY <1>3, <1>4, <2>2 DEF IInv, Staged
  <2>3. \A q \in Process :
           /\ stage'[q] \notin {"down", "find", "create"} => active'[q].id \in DOMAIN galaxies'
           /\ update'[q].place # "waiting" => stage'[q] \in {"start", "up", "stop", "leave"}
           /\ stage'[q] # "clean" => doomed'[q] = {}
    BY <1>1, <1>4 DEF IInv, Staged
  <2> QED BY <2>1, <2>2, <2>3 DEF Staged
<1>7. OwnRows'
  BY <1>1, <1>2, <1>3 DEF IInv, OwnRows, DirectoryTypeOK, Listed
<1>8. CleanUps'
  BY <1>1, <1>2, <1>3 DEF IInv, CleanUps, DirectoryTypeOK, Listed
<1>9. OnlineIsEarned'
  <2> SUFFICES ASSUME NEW q \in Process, stage'[q] \in {"start", "up"}, update'[q].place # "waiting",
                      update'[q].status = "ONLINE", NEW t \in Runs(q)'
               PROVE  mine'[q][t].status = "ONLINE" \/ ~Listed(q, t)'
    BY DEF OnlineIsEarned
  <2>1. Runs(q)' = Runs(q) /\ Runs(q) \subseteq Service
    BY <1>1, DirectoryAssumption DEF Runs, IInv, DirectoryTypeOK
  <2>2. q # p
    BY <1>1 DEF IInv, Staged
  <2>3. mine[q][t].status = "ONLINE" \/ ~Listed(q, t)
    BY <1>1, <1>4, <2>1, <2>2 DEF IInv, OnlineIsEarned
  <2>4. mine[q][t].id # nextId
    BY <1>2, <2>1 DEF IInv, OwnRows, DirectoryTypeOK
  <2> QED BY <1>2, <1>3, <2>1, <2>2, <2>3, <2>4 DEF Listed
<1> QED BY <1>5, <1>6, <1>7, <1>8, <1>9 DEF IInv

\* Entering a service's Startup changes no table (ServiceManager::Start).
LEMMA StartupStep ==
    ASSUME IInv, NEW p \in Process, NEW s \in Service, Startup(p, s)
    PROVE  IInv'
<1>1. DirectoryTypeOK'
  BY DEF Startup, IsNext, WithStatus, tables, main, IInv, DirectoryTypeOK, Staged, Status
<1>2. Staged'
  BY DEF Startup, IsNext, WithStatus, tables, main, IInv, Staged, DirectoryTypeOK, Runs
<1>3. OwnRows'
  BY DEF Startup, IsNext, WithStatus, tables, main, IInv, OwnRows, DirectoryTypeOK, Staged, Listed
<1>4. CleanUps'
  BY DEF Startup, IsNext, WithStatus, tables, main, IInv, CleanUps, DirectoryTypeOK, Staged, OwnRows, Listed
<1>5. OnlineIsEarned'
  BY DEF Startup, IsNext, WithStatus, tables, main, IInv, OnlineIsEarned, DirectoryTypeOK, Staged, OwnRows, Listed, Runs
<1> QED BY <1>1, <1>2, <1>3, <1>4, <1>5 DEF IInv

\* Saving a service changes its status, in memory and in its row if that is still there,
\* and nothing else (Datastore::saveService).
LEMMA SaveServiceKeeps ==
    ASSUME IInv, NEW p \in Process, NEW s \in Service, NEW st \in Status,
           mine' = [mine EXCEPT ![p][s].status = st],
           rows' = [i \in DOMAIN rows |->
                     IF i = mine[p][s].id THEN [rows[i] EXCEPT !.status = st] ELSE rows[i]],
           UNCHANGED <<galaxies, nextId, active, doomed, robbed, lost>>
    PROVE  /\ mine' \in [Process -> [Service -> [id : Nat, status : Status]]]
           /\ DOMAIN rows' = DOMAIN rows
           /\ \A i \in DOMAIN rows : rows'[i] \in [galaxy : DOMAIN galaxies, type : Service, status : Status]
           /\ mine'[p][s] = [id |-> mine[p][s].id, status |-> st]
           /\ \A q \in Process, t \in Service : mine'[q][t].id = mine[q][t].id
           /\ \A q \in Process, t \in Service : q # p \/ t # s => mine'[q][t] = mine[q][t]
           /\ OwnRows' /\ CleanUps'
<1>1. mine \in [Process -> [Service -> [id : Nat, status : Status]]]
  BY DEF IInv, DirectoryTypeOK
<1>2. /\ mine' = [mine EXCEPT ![p][s].status = st]
      /\ rows' = [i \in DOMAIN rows |->
                    IF i = mine[p][s].id THEN [rows[i] EXCEPT !.status = st] ELSE rows[i]]
  OBVIOUS
<1>3. [mine[p][s] EXCEPT !.status = st] = [id |-> mine[p][s].id, status |-> st]
  BY <1>1
<1>4. [id |-> mine[p][s].id, status |-> st] \in [id : Nat, status : Status]
  BY <1>1
<1>5. mine' \in [Process -> [Service -> [id : Nat, status : Status]]]
  BY <1>1, <1>2, <1>3, <1>4
<1>6. /\ mine'[p][s] = [id |-> mine[p][s].id, status |-> st]
      /\ \A q \in Process, t \in Service : mine'[q][t].id = mine[q][t].id
      /\ \A q \in Process, t \in Service : q # p \/ t # s => mine'[q][t] = mine[q][t]
  BY <1>1, <1>2, <1>3
<1>7. \A i \in DOMAIN rows : rows[i] \in [galaxy : DOMAIN galaxies, type : Service, status : Status]
  BY DEF IInv, DirectoryTypeOK
<1>8. \A i \in DOMAIN rows : [rows[i] EXCEPT !.status = st]
                                = [galaxy |-> rows[i].galaxy, type |-> rows[i].type, status |-> st]
  BY <1>7
<1>9. /\ DOMAIN rows' = DOMAIN rows
      /\ \A i \in DOMAIN rows : /\ rows'[i] \in [galaxy : DOMAIN galaxies, type : Service, status : Status]
                                /\ rows'[i].galaxy = rows[i].galaxy
                                /\ i # mine[p][s].id => rows'[i] = rows[i]
                                /\ i = mine[p][s].id => rows'[i].status = st
  BY <1>2, <1>7, <1>8
<1>10. OwnRows'
  <2>1. \A q \in Process, t \in Service :
           Listed(q, t) /\ (q # p \/ t # s) => mine[q][t].id # mine[p][s].id
    BY DEF IInv, OwnRows, DirectoryTypeOK, Listed
  <2>2. \A q \in Process, t \in Service : Listed(q, t)' => Listed(q, t)
    BY <1>6, <1>9 DEF Listed
  <2>3. \A q \in Process, t \in Service : Listed(q, t)' =>
           /\ rows'[mine'[q][t].id].status = mine'[q][t].status
           /\ rows'[mine'[q][t].id].galaxy = active'[q].id
    BY <1>6, <1>9, <2>1, <2>2 DEF IInv, OwnRows, Listed
  <2>4. \A q \in Process, t \in Service : mine'[q][t].id < nextId'
    BY <1>6 DEF IInv, OwnRows
  <2>5. \A q, r \in Process, t, u \in Service :
           mine'[q][t].id = mine'[r][u].id /\ mine'[q][t].id # 0 => q = r /\ t = u
    BY <1>6 DEF IInv, OwnRows
  <2> QED BY <2>3, <2>4, <2>5 DEF OwnRows
<1>11. CleanUps'
  <2>1. \A q, r \in Process, t \in Service : mine'[q][t].id \in doomed'[r] => robbed'[q]
    BY <1>6 DEF IInv, CleanUps
  <2>2. \A q \in Process, t \in Service : ~robbed'[q] /\ mine'[q][t].id # 0 => Listed(q, t)'
    BY <1>6, <1>9 DEF IInv, CleanUps, Listed
  <2>3. \A q \in Process : /\ doomed'[q] \subseteq 1 .. nextId' - 1
                           /\ lost'[q] \subseteq 1 .. nextId' - 1
                           /\ lost'[q] \cap DOMAIN rows' \subseteq doomed'[q]
    BY <1>9 DEF IInv, CleanUps
  <2> QED BY <2>1, <2>2, <2>3 DEF CleanUps
<1> QED BY <1>5, <1>6, <1>9, <1>10, <1>11

\* A service that has started is ONLINE in memory and in its row; a status counted
\* earlier stays earned (ServiceManager::Start).
LEMMA FinishStartupStep ==
    ASSUME IInv, NEW p \in Process, FinishStartup(p)
    PROVE  IInv'
<1>1. /\ stage[p] = "start" /\ starting[p] \in Service /\ SaveService(p, starting[p], "ONLINE")
      /\ starting' = [starting EXCEPT ![p] = None]
      /\ stage' = [stage EXCEPT ![p] = IF WithStatus(p, "LOADING") = {starting[p]} THEN "up" ELSE "start"]
      /\ UNCHANGED <<galaxies, nextId, update, active, doomed, fleet, starts, robbed, lost>>
  BY DEF FinishStartup, IInv, DirectoryTypeOK
<1>2. /\ mine' \in [Process -> [Service -> [id : Nat, status : Status]]]
      /\ DOMAIN rows' = DOMAIN rows
      /\ \A i \in DOMAIN rows : rows'[i] \in [galaxy : DOMAIN galaxies, type : Service, status : Status]
      /\ mine'[p][starting[p]].status = "ONLINE"
      /\ \A q \in Process, t \in Service : mine'[q][t].id = mine[q][t].id
      /\ \A q \in Process, t \in Service : q # p \/ t # starting[p] => mine'[q][t] = mine[q][t]
      /\ OwnRows' /\ CleanUps'
  <2>1. /\ "ONLINE" \in Status /\ UNCHANGED <<galaxies, nextId, active, doomed, robbed, lost>>
        /\ mine' = [mine EXCEPT ![p][starting[p]].status = "ONLINE"]
        /\ rows' = [i \in DOMAIN rows |->
                      IF i = mine[p][starting[p]].id THEN [rows[i] EXCEPT !.status = "ONLINE"] ELSE rows[i]]
    BY <1>1 DEF SaveService, Status
  <2>2. PICK s \in Service : s = starting[p]
    BY <1>1
  <2>3. /\ "ONLINE" \in Status /\ UNCHANGED <<galaxies, nextId, active, doomed, robbed, lost>>
        /\ mine' = [mine EXCEPT ![p][s].status = "ONLINE"]
        /\ rows' = [i \in DOMAIN rows |->
                      IF i = mine[p][s].id THEN [rows[i] EXCEPT !.status = "ONLINE"] ELSE rows[i]]
    BY <2>1, <2>2
  <2>4. /\ mine' \in [Process -> [Service -> [id : Nat, status : Status]]]
        /\ DOMAIN rows' = DOMAIN rows
        /\ \A i \in DOMAIN rows : rows'[i] \in [galaxy : DOMAIN galaxies, type : Service, status : Status]
        /\ mine'[p][s] = [id |-> mine[p][s].id, status |-> "ONLINE"]
        /\ \A q \in Process, t \in Service : mine'[q][t].id = mine[q][t].id
        /\ \A q \in Process, t \in Service : q # p \/ t # s => mine'[q][t] = mine[q][t]
        /\ OwnRows' /\ CleanUps'
    BY <2>3, SaveServiceKeeps
  <2>5. mine'[p][s].status = "ONLINE"
    BY <2>4
  <2> QED BY <2>2, <2>4, <2>5
<1>3. /\ stage' \in [Process -> {"down", "find", "create", "snapshot", "clean", "load", "start", "up", "stop", "leave"}]
      /\ stage'[p] \in {"start", "up"} /\ \A q \in Process : q # p => stage'[q] = stage[q]
      /\ starting' \in [Process -> Service \cup {None}]
  BY <1>1 DEF IInv, DirectoryTypeOK
<1>4. DirectoryTypeOK'
  BY <1>1, <1>2, <1>3 DEF IInv, DirectoryTypeOK
<1>5. \A q \in Process : Runs(q)' = Runs(q) /\ Runs(q) \subseteq Service
  BY <1>1, DirectoryAssumption DEF Runs, IInv, DirectoryTypeOK
<1>6. Staged'
  <2>1. ASSUME NEW q \in Process, stage'[q] \in {"start", "up"}, NEW t \in Runs(q)'
        PROVE  mine'[q][t].id # 0
    <3>1. t \in Runs(q) /\ t \in Service
      BY <1>5, <2>1
    <3>2. stage[q] \in {"start", "up"}
      BY <1>1, <1>3, <2>1
    <3>3. mine[q][t].id # 0
      BY <3>1, <3>2 DEF IInv, Staged
    <3> QED BY <1>2, <3>1, <3>3
  <2>2. ASSUME NEW q \in Process, stage'[q] \in {"down", "find", "create", "snapshot", "clean"}, NEW t \in Service
        PROVE  mine'[q][t].id = 0
    <3>1. stage[q] \in {"down", "find", "create", "snapshot", "clean"}
      BY <1>3, <2>2
    <3>2. mine[q][t].id = 0
      BY <3>1 DEF IInv, Staged
    <3> QED BY <1>2, <3>2
  <2>3. \A q \in Process :
           /\ stage'[q] \notin {"down", "find", "create"} => active'[q].id \in DOMAIN galaxies'
           /\ update'[q].place # "waiting" => stage'[q] \in {"start", "up", "stop", "leave"}
           /\ stage'[q] # "clean" => doomed'[q] = {}
    BY <1>1, <1>3 DEF IInv, Staged
  <2> QED BY <2>1, <2>2, <2>3 DEF Staged
<1>7. OnlineIsEarned'
  BY <1>1, <1>2, <1>3, <1>5 DEF IInv, OnlineIsEarned, Listed
<1> QED BY <1>2, <1>4, <1>6, <1>7 DEF IInv

\* Quitting changes only the stage (SwganhApp::Stop).
LEMMA QuitStep ==
    ASSUME IInv, NEW p \in Process, Quit(p)
    PROVE  IInv'
<1>1. DirectoryTypeOK'
  BY DEF Quit, tables, main, IInv, DirectoryTypeOK, Staged, Status
<1>2. Staged'
  BY DEF Quit, tables, main, IInv, Staged, DirectoryTypeOK, Runs
<1>3. OwnRows'
  BY DEF Quit, tables, main, IInv, OwnRows, DirectoryTypeOK, Staged, Listed
<1>4. CleanUps'
  BY DEF Quit, tables, main, IInv, CleanUps, DirectoryTypeOK, Staged, OwnRows, Listed
<1>5. OnlineIsEarned'
  BY DEF Quit, tables, main, IInv, OnlineIsEarned, DirectoryTypeOK, Staged, OwnRows, Listed, Runs
<1> QED BY <1>1, <1>2, <1>3, <1>4, <1>5 DEF IInv

\* A service that is stopped is OFFLINE (ServiceManager::Stop).
LEMMA StopServiceStep ==
    ASSUME IInv, NEW p \in Process, NEW s \in Service, StopService(p, s)
    PROVE  IInv'
<1>1. /\ stage[p] = "stop" /\ SaveService(p, s, "OFFLINE")
      /\ stage' = [stage EXCEPT ![p] = IF WithStatus(p, "ONLINE") = {s} THEN "leave" ELSE "stop"]
      /\ UNCHANGED <<galaxies, nextId, update, active, doomed, starting, fleet, starts, robbed, lost>>
  BY DEF StopService
<1>2. /\ mine' \in [Process -> [Service -> [id : Nat, status : Status]]]
      /\ DOMAIN rows' = DOMAIN rows
      /\ \A i \in DOMAIN rows : rows'[i] \in [galaxy : DOMAIN galaxies, type : Service, status : Status]
      /\ \A q \in Process, t \in Service : mine'[q][t].id = mine[q][t].id
      /\ \A q \in Process, t \in Service : q # p => mine'[q][t] = mine[q][t]
      /\ OwnRows' /\ CleanUps'
  <2>1. /\ "OFFLINE" \in Status /\ UNCHANGED <<galaxies, nextId, active, doomed, robbed, lost>>
        /\ mine' = [mine EXCEPT ![p][s].status = "OFFLINE"]
        /\ rows' = [i \in DOMAIN rows |->
                      IF i = mine[p][s].id THEN [rows[i] EXCEPT !.status = "OFFLINE"] ELSE rows[i]]
    BY <1>1 DEF SaveService, Status
  <2> QED BY <1>1, <2>1, SaveServiceKeeps
<1>3. /\ stage' \in [Process -> {"down", "find", "create", "snapshot", "clean", "load", "start", "up", "stop", "leave"}]
      /\ stage'[p] \in {"stop", "leave"} /\ \A q \in Process : q # p => stage'[q] = stage[q]
  BY <1>1 DEF IInv, DirectoryTypeOK
<1>4. DirectoryTypeOK'
  BY <1>1, <1>2, <1>3 DEF IInv, DirectoryTypeOK
<1>5. \A q \in Process : Runs(q)' = Runs(q) /\ Runs(q) \subseteq Service
  BY <1>1, DirectoryAssumption DEF Runs, IInv, DirectoryTypeOK
<1>6. Staged'
  <2>1. ASSUME NEW q \in Process, stage'[q] \in {"start", "up"}, NEW t \in Runs(q)'
        PROVE  mine'[q][t].id # 0
    <3>1. t \in Runs(q) /\ t \in Service
      BY <1>5, <2>1
    <3>2. stage[q] \in {"start", "up"}
      BY <1>1, <1>3, <2>1
    <3>3. mine[q][t].id # 0
      BY <3>1, <3>2 DEF IInv, Staged
    <3> QED BY <1>2, <3>1, <3>3
  <2>2. ASSUME NEW q \in Process, stage'[q] \in {"down", "find", "create", "snapshot", "clean"}, NEW t \in Service
        PROVE  mine'[q][t].id = 0
    <3>1. stage[q] \in {"down", "find", "create", "snapshot", "clean"}
      BY <1>3, <2>2
    <3>2. mine[q][t].id = 0
      BY <3>1 DEF IInv, Staged
    <3> QED BY <1>2, <3>2
  <2>3. \A q \in Process :
           /\ stage'[q] \notin {"down", "find", "create"} => active'[q].id \in DOMAIN galaxies'
           /\ update'[q].place # "waiting" => stage'[q] \in {"start", "up", "stop", "leave"}
           /\ stage'[q] # "clean" => doomed'[q] = {}
    BY <1>1, <1>3 DEF IInv, Staged
  <2> QED BY <2>1, <2>2, <2>3 DEF Staged
<1>7. OnlineIsEarned'
  <2>1. \A q \in Process : q # p => \A t \in Runs(q) : Listed(q, t)' => Listed(q, t)
    BY <1>2, <1>5 DEF Listed
  <2> QED BY <1>1, <1>2, <1>3, <1>5, <2>1 DEF IInv, OnlineIsEarned
<1> QED BY <1>2, <1>4, <1>6, <1>7 DEF IInv

\* The last row removed takes the process with it (~ServiceManager).
LEMMA ForgetServiceStep ==
    ASSUME IInv, NEW p \in Process, NEW s \in Service, ForgetService(p, s)
    PROVE  IInv'
<1> DEFINE id == mine[p][s].id
<1>1. /\ stage[p] = "leave" /\ s \in Service /\ id # 0
      /\ rows' = [i \in DOMAIN rows \ {id} |-> rows[i]]
      /\ UNCHANGED <<galaxies, nextId, fleet, starts>>
  BY DEF ForgetService, IsNext, Registered, Removed, Restrict
<1>2. /\ DOMAIN rows' = DOMAIN rows \ {id}
      /\ \A i \in DOMAIN rows' : rows'[i] = rows[i]
  BY <1>1
<1>3. \A q \in Process, t \in Service : mine[q][t].id = id => q = p /\ t = s
  BY <1>1 DEF IInv, OwnRows
<1>4. CASE Gone(p)
  <2>1. /\ \A t \in Service : mine'[p][t].id = 0
        /\ stage'[p] = "down" /\ doomed'[p] = {} /\ lost'[p] = {} /\ update'[p].place = "waiting"
        /\ \A q \in Process : q # p => /\ stage'[q] = stage[q] /\ active'[q] = active[q]
                                       /\ doomed'[q] = doomed[q] /\ mine'[q] = mine[q] /\ lost'[q] = lost[q]
                                       /\ robbed'[q] = robbed[q] /\ update'[q] = update[q]
    BY <1>4 DEF Gone, Unregistered, Waiting, IInv, DirectoryTypeOK
  <2>2. DirectoryTypeOK'
    BY <1>1, <1>2, <1>4 DEF Gone, Unregistered, NoGalaxy, Waiting, Status, IInv, DirectoryTypeOK
  <2>3. \A q \in Process : Runs(q)' = Runs(q) /\ Runs(q) \subseteq Service
    BY <1>1, DirectoryAssumption DEF Runs, IInv, DirectoryTypeOK
  <2>4. Staged'
    BY <1>1, <2>1, <2>3 DEF IInv, Staged
  <2>5. \A q \in Process, t \in Service : Listed(q, t)' => q # p /\ Listed(q, t)
    BY <1>2, <2>1, <2>2 DEF Listed, DirectoryTypeOK
  <2>6. OwnRows'
    <3>1. \A q \in Process, t \in Service : mine'[q][t].id < nextId'
      <4>1. nextId' = nextId /\ 0 < nextId
        BY <1>1 DEF IInv, DirectoryTypeOK
      <4>2. \A q \in Process, t \in Service : mine'[q][t].id = 0 \/ mine'[q][t].id = mine[q][t].id
        BY <2>1
      <4>3. \A q \in Process, t \in Service : mine[q][t].id < nextId
        BY DEF IInv, OwnRows
      <4> QED BY <4>1, <4>2, <4>3
    <3>2. \A q, r \in Process, t, u \in Service :
             mine'[q][t].id = mine'[r][u].id /\ mine'[q][t].id # 0 => q = r /\ t = u
      BY <2>1 DEF IInv, OwnRows
    <3>3. \A q \in Process, t \in Service : Listed(q, t)' =>
             /\ rows'[mine'[q][t].id].status = mine'[q][t].status
             /\ rows'[mine'[q][t].id].galaxy = active'[q].id
      BY <1>2, <2>1, <2>5 DEF IInv, OwnRows, Listed
    <3> QED BY <3>1, <3>2, <3>3 DEF OwnRows
  <2>7. CleanUps'
    <3>1. \A q \in Process : /\ doomed'[q] \subseteq 1 .. nextId' - 1
                             /\ lost'[q] \subseteq 1 .. nextId' - 1
                             /\ lost'[q] \cap DOMAIN rows' \subseteq doomed'[q]
      BY <1>1, <1>2, <2>1 DEF IInv, CleanUps
    <3>2. \A q, r \in Process, t \in Service : mine'[q][t].id \in doomed'[r] => robbed'[q]
      BY <2>1, <3>1 DEF IInv, CleanUps
    <3>3. \A q \in Process, t \in Service : ~robbed'[q] /\ mine'[q][t].id # 0 => Listed(q, t)'
      BY <1>2, <1>3, <2>1 DEF IInv, CleanUps, Listed
    <3> QED BY <3>1, <3>2, <3>3 DEF CleanUps
  <2>8. OnlineIsEarned'
    BY <2>1, <2>3, <2>5 DEF IInv, OnlineIsEarned
  <2> QED BY <2>2, <2>4, <2>6, <2>7, <2>8 DEF IInv
<1>5. CASE /\ mine' = [mine EXCEPT ![p][s].id = 0]
           /\ UNCHANGED <<stage, active, doomed, starting, robbed, lost, update>>
  <2>1. /\ mine' \in [Process -> [Service -> [id : Nat, status : Status]]]
        /\ mine'[p][s].id = 0
        /\ \A q \in Process, t \in Service : q # p \/ t # s => mine'[q][t] = mine[q][t]
    <3>1. mine \in [Process -> [Service -> [id : Nat, status : Status]]]
      BY DEF IInv, DirectoryTypeOK
    <3>2. [mine[p][s] EXCEPT !.id = 0] \in [id : Nat, status : Status]
      BY <3>1
    <3> QED BY <1>5, <3>1, <3>2
  <2>2. DirectoryTypeOK'
    BY <1>1, <1>2, <1>5, <2>1 DEF IInv, DirectoryTypeOK
  <2>3. \A q \in Process : Runs(q)' = Runs(q) /\ Runs(q) \subseteq Service
    BY <1>1, DirectoryAssumption DEF Runs, IInv, DirectoryTypeOK
  <2>4. Staged'
    <3>1. \A q \in Process : stage'[q] \in {"start", "up"} => \A t \in Runs(q)' : mine'[q][t].id # 0
      BY <1>1, <1>5, <2>1, <2>3 DEF IInv, Staged
    <3>2. \A q \in Process : stage'[q] \in {"down", "find", "create", "snapshot", "clean"} =>
              \A t \in Service : mine'[q][t].id = 0
      BY <1>1, <1>5, <2>1 DEF IInv, Staged
    <3> QED BY <1>1, <1>5, <3>1, <3>2 DEF IInv, Staged
  <2>5. \A q \in Process, t \in Service : Listed(q, t)' => Listed(q, t) /\ (q # p \/ t # s)
    BY <1>2, <2>1, <2>2 DEF Listed, DirectoryTypeOK
  <2>6. OwnRows'
    <3>1. \A q \in Process, t \in Service : mine'[q][t].id < nextId'
      <4>1. nextId' = nextId /\ 0 < nextId
        BY <1>1 DEF IInv, DirectoryTypeOK
      <4>2. \A q \in Process, t \in Service : mine'[q][t].id = 0 \/ mine'[q][t].id = mine[q][t].id
        BY <2>1
      <4>3. \A q \in Process, t \in Service : mine[q][t].id < nextId
        BY DEF IInv, OwnRows
      <4> QED BY <4>1, <4>2, <4>3
    <3>2. \A q, r \in Process, t, u \in Service :
             mine'[q][t].id = mine'[r][u].id /\ mine'[q][t].id # 0 => q = r /\ t = u
      <4>1. \A q \in Process, t \in Service :
               mine'[q][t].id # 0 => mine'[q][t].id = mine[q][t].id
        BY <2>1
      <4> QED BY <4>1 DEF IInv, OwnRows
    <3>3. \A q \in Process, t \in Service : Listed(q, t)' =>
             /\ rows'[mine'[q][t].id].status = mine'[q][t].status
             /\ rows'[mine'[q][t].id].galaxy = active'[q].id
      BY <1>2, <1>5, <2>1, <2>5 DEF IInv, OwnRows, Listed
    <3> QED BY <3>1, <3>2, <3>3 DEF OwnRows
  <2>7. CleanUps'
    <3>1. \A q \in Process : /\ doomed'[q] \subseteq 1 .. nextId' - 1
                             /\ lost'[q] \subseteq 1 .. nextId' - 1
                             /\ lost'[q] \cap DOMAIN rows' \subseteq doomed'[q]
      BY <1>1, <1>2, <1>5 DEF IInv, CleanUps
    <3>2. \A q, r \in Process, t \in Service : mine'[q][t].id \in doomed'[r] => robbed'[q]
      BY <1>5, <2>1, <3>1 DEF IInv, CleanUps
    <3>3. \A q \in Process, t \in Service : ~robbed'[q] /\ mine'[q][t].id # 0 => Listed(q, t)'
      BY <1>2, <1>3, <1>5, <2>1 DEF IInv, CleanUps, Listed
    <3> QED BY <3>1, <3>2, <3>3 DEF CleanUps
  <2>8. OnlineIsEarned'
    BY <1>1, <1>5, <2>1, <2>3, <2>5 DEF IInv, OnlineIsEarned
  <2> QED BY <2>2, <2>4, <2>6, <2>7, <2>8 DEF IInv
<1> QED BY <1>4, <1>5 DEF ForgetService

\* A process that is killed leaves rows that nobody owns.
LEMMA CrashStep ==
    ASSUME IInv, NEW p \in Process, Crash(p)
    PROVE  IInv'
<1>1. DirectoryTypeOK'
  BY DEF Crash, Gone, Unregistered, NoGalaxy, Waiting, tables, main, IInv, DirectoryTypeOK, Staged, Status
<1>2. Staged'
  BY DEF Crash, Gone, Unregistered, NoGalaxy, Waiting, tables, main, IInv, Staged, DirectoryTypeOK, Runs
<1>3. OwnRows'
  BY DEF Crash, Gone, Unregistered, NoGalaxy, Waiting, tables, main, IInv, OwnRows, DirectoryTypeOK, Staged, Listed
<1>4. CleanUps'
  BY DEF Crash, Gone, Unregistered, NoGalaxy, Waiting, tables, main, IInv, CleanUps, DirectoryTypeOK, Staged, OwnRows, Listed
<1>5. OnlineIsEarned'
  BY DEF Crash, Gone, Unregistered, NoGalaxy, Waiting, tables, main, IInv, OnlineIsEarned, DirectoryTypeOK, Staged, OwnRows, Listed, Runs
<1> QED BY <1>1, <1>2, <1>3, <1>4, <1>5 DEF IInv

\* A status counted from the galaxy's rows counts the process's own among them
\* (updateGalaxyStatus).
LEMMA CountServicesStep ==
    ASSUME IInv, NEW p \in Process, CountServices(p)
    PROVE  IInv'
<1>1. /\ stage[p] \in {"start", "up", "stop", "leave"} /\ UNCHANGED <<tables, main, active>>
      /\ \/ UNCHANGED update
         \/ update' = [update EXCEPT ![p] = [place |-> "counted", status |-> Summary(RowsOf(active[p].id))]]
  BY DEF CountServices, Armed
<1>2. Summary(RowsOf(active[p].id)) \in Status
  BY DEF Summary, Status
<1>3. /\ update' \in [Process -> [place : {"waiting", "counted", "set"}, status : Status]]
      /\ \A q \in Process : q # p => update'[q] = update[q]
      /\ update'[p] = update[p] \/ update'[p].status = Summary(RowsOf(active[p].id))
  <2>1. [place |-> "counted", status |-> Summary(RowsOf(active[p].id))]
            \in [place : {"waiting", "counted", "set"}, status : Status]
    BY <1>2
  <2>2. update \in [Process -> [place : {"waiting", "counted", "set"}, status : Status]]
    BY DEF IInv, DirectoryTypeOK
  <2> QED BY <1>1, <2>1, <2>2
<1>4. DirectoryTypeOK'
  BY <1>1, <1>3 DEF tables, main, IInv, DirectoryTypeOK
<1>5. Staged'
  BY <1>1, <1>3 DEF tables, main, IInv, Staged, Runs
<1>6. OwnRows' /\ CleanUps'
  BY <1>1 DEF tables, main, IInv, OwnRows, CleanUps, Listed
<1>7. Runs(p) \subseteq Service
  BY DirectoryAssumption DEF Runs, IInv, DirectoryTypeOK
<1>8. Summary(RowsOf(active[p].id)) = "ONLINE" =>
        \A s \in Runs(p) : mine[p][s].status = "ONLINE" \/ ~Listed(p, s)
  <2> SUFFICES ASSUME Summary(RowsOf(active[p].id)) = "ONLINE", NEW s \in Runs(p), Listed(p, s)
               PROVE  mine[p][s].status = "ONLINE"
    OBVIOUS
  <2>1. \A i \in RowsOf(active[p].id) : rows[i].status = "ONLINE"
    BY DEF Summary
  <2>2. mine[p][s].id \in RowsOf(active[p].id)
    BY <1>7 DEF RowsOf, IInv, OwnRows, Listed
  <2> QED BY <1>7, <2>1, <2>2 DEF IInv, OwnRows
<1>9. OnlineIsEarned'
  BY <1>1, <1>3, <1>8 DEF tables, main, IInv, OnlineIsEarned, Listed, Runs
<1> QED BY <1>4, <1>5, <1>6, <1>9 DEF IInv

\* Keeping the status in memory changes no row (updateGalaxyStatus).
LEMMA SetStatusStep ==
    ASSUME IInv, NEW p \in Process, SetStatus(p)
    PROVE  IInv'
<1>1. DirectoryTypeOK'
  <2>1. /\ UNCHANGED <<tables, main>> /\ update[p].place = "counted"
        /\ active' = [active EXCEPT ![p].status = update[p].status]
        /\ update' = [update EXCEPT ![p].place = "set"]
    BY DEF SetStatus
  <2>2. update \in [Process -> [place : {"waiting", "counted", "set"}, status : Status]]
    BY DEF IInv, DirectoryTypeOK
  <2>3. update' \in [Process -> [place : {"waiting", "counted", "set"}, status : Status]]
    BY <2>1, <2>2
  <2>4. active \in [Process -> [id : Nat, status : Status]]
    BY DEF IInv, DirectoryTypeOK
  <2>5. active' \in [Process -> [id : Nat, status : Status]]
    BY <2>1, <2>2, <2>4
  <2> QED BY <2>1, <2>3, <2>5 DEF tables, main, IInv, DirectoryTypeOK
<1>2. Staged'
  BY DEF SetStatus, tables, main, IInv, Staged, DirectoryTypeOK, Runs
<1>3. OwnRows'
  BY DEF SetStatus, tables, main, IInv, OwnRows, DirectoryTypeOK, Staged, Listed
<1>4. CleanUps'
  BY DEF SetStatus, tables, main, IInv, CleanUps, DirectoryTypeOK, Staged, OwnRows, Listed
<1>5. OnlineIsEarned'
  BY DEF SetStatus, tables, main, IInv, OnlineIsEarned, DirectoryTypeOK, Staged, OwnRows, Listed, Runs
<1> QED BY <1>1, <1>2, <1>3, <1>4, <1>5 DEF IInv

\* Saving the status changes one galaxy's row (saveGalaxyStatus).
LEMMA SaveStatusStep ==
    ASSUME IInv, NEW p \in Process, SaveStatus(p)
    PROVE  IInv'
<1>1. DirectoryTypeOK'
  <2> DEFINE Row == [name : GalaxyName, status : Status]
             g == active[p].id
  <2>1. /\ UNCHANGED <<rows, nextId, main, active>> /\ update[p].place = "set"
        /\ galaxies' = [galaxies EXCEPT ![g].status = update[p].status]
        /\ update' = [update EXCEPT ![p] = Waiting]
    BY DEF SaveStatus
  <2>2. g \in DOMAIN galaxies /\ update[p].status \in Status
    BY <2>1 DEF IInv, Staged, DirectoryTypeOK
  <2>3. galaxies \in Seq(Row) /\ galaxies[g] \in Row
    BY <2>2, GalaxyRows DEF IInv, DirectoryTypeOK
  <2>4. [galaxies[g] EXCEPT !.status = update[p].status] \in Row
    BY <2>2, <2>3
  <2> HIDE DEF Row
  <2>5. galaxies' \in Seq(Row) /\ DOMAIN galaxies' = DOMAIN galaxies
    BY <2>1, <2>2, <2>3, <2>4
  <2>6. update' \in [Process -> [place : {"waiting", "counted", "set"}, status : Status]]
    BY <2>1 DEF Waiting, Status, IInv, DirectoryTypeOK
  <2> QED BY <2>1, <2>5, <2>6 DEF Row, main, IInv, DirectoryTypeOK
<1>2. Staged'
  BY DEF SaveStatus, Waiting, tables, main, IInv, Staged, DirectoryTypeOK, Runs
<1>3. OwnRows'
  BY DEF SaveStatus, Waiting, tables, main, IInv, OwnRows, DirectoryTypeOK, Staged, Listed
<1>4. CleanUps'
  BY DEF SaveStatus, Waiting, tables, main, IInv, CleanUps, DirectoryTypeOK, Staged, OwnRows, Listed
<1>5. OnlineIsEarned'
  BY DEF SaveStatus, Waiting, tables, main, IInv, OnlineIsEarned, DirectoryTypeOK, Staged, OwnRows, Listed, Runs
<1> QED BY <1>1, <1>2, <1>3, <1>4, <1>5 DEF IInv

-----------------------------------------------------------------------------
(* The theorems *)

\* The tables as the script leaves them, before any process runs.
LEMMA InitEstablishes == Init => IInv
<1> SUFFICES ASSUME Init PROVE IInv
  OBVIOUS
<1>1. DirectoryTypeOK
  <2> DEFINE Row == [name : GalaxyName, status : Status]
  <2>1. galaxies = <<>> \/ \E n \in fleet.known : galaxies = <<[name |-> n, status |-> "ONLINE"]>>
    BY DEF Init
  <2>2. \A n \in fleet.known : [name |-> n, status |-> "ONLINE"] \in Row
    <3>1. fleet \in Fleets
      BY DEF Init
    <3>2. \A n \in fleet.known : n \in UNION {f.known : f \in Fleets}
      BY <3>1
    <3> QED BY <3>2 DEF GalaxyName, Status
  <2> HIDE DEF Row
  <2>3. galaxies \in Seq(Row)
    <3>1. CASE galaxies = <<>>
      BY <3>1
    <3>2. ASSUME NEW r \in Row, galaxies = <<r>>
          PROVE  galaxies \in Seq(Row)
      BY <3>2
    <3> QED BY <2>1, <2>2, <3>1, <3>2
  <2>4. rows = <<>> /\ nextId = 1 /\ DOMAIN rows = {}
    BY DEF Init
  <2>5. /\ DOMAIN rows \subseteq 1 .. nextId - 1 /\ nextId \in Nat \ {0}
        /\ \A i \in DOMAIN rows : rows[i] \in [galaxy : DOMAIN galaxies, type : Service, status : Status]
    BY <2>4
  <2>6. /\ fleet \in Fleets /\ starts \in 0 .. MaxStarts
        /\ stage \in [Process -> {"down", "find", "create", "snapshot", "clean", "load", "start", "up", "stop", "leave"}]
        /\ doomed \in [Process -> SUBSET Nat] /\ robbed \in [Process -> BOOLEAN] /\ lost \in [Process -> SUBSET Nat]
        /\ starting \in [Process -> Service \cup {None}]
    BY DirectoryAssumption DEF Init
  <2>7. /\ active \in [Process -> [id : Nat, status : Status]]
        /\ mine \in [Process -> [Service -> [id : Nat, status : Status]]]
        /\ update \in [Process -> [place : {"waiting", "counted", "set"}, status : Status]]
    BY DEF Init, Unregistered, NoGalaxy, Waiting, Status
  <2> QED BY <2>3, <2>5, <2>6, <2>7 DEF Row, DirectoryTypeOK
<1>2. Staged /\ OwnRows /\ CleanUps /\ OnlineIsEarned
  BY DEF Init, Staged, OwnRows, CleanUps, OnlineIsEarned, Listed, Unregistered, Waiting
<1> QED BY <1>1, <1>2 DEF IInv

\* Every step of every process keeps the invariant.
LEMMA StepPreserves == IInv /\ [Next]_directoryVars => IInv'
<1> SUFFICES ASSUME IInv, [Next]_directoryVars PROVE IInv'
  OBVIOUS
<1>1. CASE UNCHANGED directoryVars
  BY <1>1 DEF directoryVars, tables, main, IInv, DirectoryTypeOK, Staged, OwnRows, CleanUps, OnlineIsEarned, Listed, Runs
<1>2. ASSUME NEW p \in Process, Boot(p) PROVE IInv'
  BY <1>2, FindGalaxyStep, CreateGalaxyStep, SnapshotStep, RemoveLeftoverStep, AddServiceStep, StartupStep,
     FinishStartupStep DEF Boot
<1>3. ASSUME NEW p \in Process, Leave(p) PROVE IInv'
  BY <1>3, StopServiceStep, ForgetServiceStep DEF Leave
<1>4. ASSUME NEW p \in Process, Update(p) PROVE IInv'
  BY <1>4, CountServicesStep, SetStatusStep, SaveStatusStep DEF Update
<1> QED BY <1>1, <1>2, <1>3, <1>4, StartStep, QuitStep, CrashStep DEF Next

\* The variables keep their types.
THEOREM DirectoryTypeCorrect == Spec => []DirectoryTypeOK
<1>1. IInv => DirectoryTypeOK
  BY DEF IInv
<1> QED BY InitEstablishes, StepPreserves, <1>1, PTL DEF Spec

\* Whatever the processes are and whatever they run, the status a server is about to save is
\* ONLINE only if each of its own services has been started or is no longer listed
\* (updateGalaxyStatus against ServiceManager::Start).
THEOREM OnlineTheorem == Spec => []OnlineIsEarned
<1>1. IInv => OnlineIsEarned
  BY DEF IInv
<1> QED BY InitEstablishes, StepPreserves, <1>1, PTL DEF Spec

\* A running server's service is listed unless another server's start found it, and a clean-up
\* leaves no row of the processes that were gone (CleanupServices_, AddService).
THEOREM RowsTheorem == Spec => []RowsFollowProcesses
<1>1. IInv => RowsFollowProcesses
  <2> SUFFICES ASSUME IInv, NEW p \in Process
               PROVE  /\ ~robbed[p] => \A s \in Registered(p) : Listed(p, s)
                      /\ stage[p] \in {"load", "start", "up", "stop", "leave"} => lost[p] \cap DOMAIN rows = {}
    BY DEF RowsFollowProcesses
  <2>1. Runs(p) \subseteq Service
    BY DirectoryAssumption DEF Runs, IInv, DirectoryTypeOK
  <2>2. ~robbed[p] => \A s \in Registered(p) : Listed(p, s)
    BY <2>1 DEF IInv, CleanUps, Registered
  <2>3. stage[p] \in {"load", "start", "up", "stop", "leave"} => lost[p] \cap DOMAIN rows = {}
    BY DEF IInv, CleanUps, Staged
  <2> QED BY <2>2, <2>3
<1> QED BY InitEstablishes, StepPreserves, <1>1, PTL DEF Spec
=============================================================================
