---------------------- MODULE ObjectReplicationProofs ----------------------
(***************************************************************************)
(* For any clients, fields, views and threads of the pool: what a client   *)
(* is shown follows ReplicatedValue, once every event is handled each      *)
(* observer shows the object as it is, and the friends list too if it was  *)
(* given every change of it once.                                          *)
(***************************************************************************)
EXTENDS ObjectReplication, SequenceTheorems, WellFoundedInduction, TLAPS

-----------------------------------------------------------------------------
(* The invariant *)

\* An event, and what a thread is doing; whom either is for observes the object.
About == Fields \cup {"friends"}
Event == [about : About] \cup [about : {"baselines"}, for : observers]
ThreadState ==
    {Idle} \cup [at : {"dispatch", "build"}, about : About] \cup [at : {"clear", "create"}, for : observers]
    \cup [at : {"locking"}, event : Event] \cup [at : {"baselines"}, for : observers, built : 0 .. Len(ViewOrder)]
Entry == [view : Views, value : [Cells -> Nat], friends : Seq(Names), ops : SUBSET Nat]

TypeInv ==
    /\ value \in [Cells -> Nat] /\ changed \subseteq Cells
    /\ friends \in Seq(Names) /\ friendOps \in Nat
    /\ observers \subseteq Clients /\ lock \in Threads \cup {None}
    /\ cache \in Seq(Entry) /\ queue \in Seq(Event)
    /\ DOMAIN pc = Threads /\ \A t \in Threads : pc[t] \in ThreadState \/ At(t, "notify")
    /\ DOMAIN copy = Clients
    /\ \A c \in Clients : /\ DOMAIN copy[c] = DOMAIN NoCopy
                          /\ copy[c].has \subseteq Views /\ copy[c].value \in [Cells -> Nat]
                          /\ copy[c].has # {} => c \in observers

\* Only the thread with the dispatcher's lock is in a handler.
Exclusive == \A t \in Threads : pc[t].at \in {"build", "notify", "baselines"} <=> lock = t

\* No copy and no baseline is ahead of the object, and the delta or the baselines a handler
\* is about to send are not behind any copy.
IsLast(j) == j \in DOMAIN cache /\ \A k \in DOMAIN cache : cache[k].view = cache[j].view => k <= j
Built(t) == {ViewOrder[i] : i \in 1 .. pc[t].built}
Shows(x, v) == ViewOf[FieldOf[x]] = v

Ordered ==
    /\ \A x \in Cells : /\ \A c \in Clients : copy[c].value[x] <= value[x]
                        /\ \A j \in DOMAIN cache : cache[j].value[x] <= value[x]
    /\ \A t \in Threads : At(t, "notify") /\ pc[t].delta.about # "friends" =>
           \A x \in DOMAIN pc[t].delta.cells :
               /\ x \in Cells /\ FieldOf[x] = pc[t].delta.about
               /\ pc[t].delta.cells[x] \in Nat /\ pc[t].delta.cells[x] <= value[x]
               /\ \A c \in Clients : copy[c].value[x] <= pc[t].delta.cells[x]
    /\ \A t \in Threads, j \in DOMAIN cache : At(t, "baselines") /\ IsLast(j) /\ cache[j].view \in Built(t) =>
           \A x \in Cells : Shows(x, cache[j].view) =>
               \A c \in Clients : copy[c].value[x] <= cache[j].value[x]

\* What is not shown yet is on its way: the event of the write has not been handled, or
\* its delta is about to be sent.
Pending(f) ==
    \/ \E t \in Threads : pc[t].at \in {"dispatch", "build"} /\ pc[t].about = f
    \/ \E i \in DOMAIN queue : queue[i].about = f
    \/ \E t \in Threads : At(t, "locking") /\ pc[t].event.about = f
Notified(x) ==
    \E t \in Threads : /\ At(t, "notify") /\ pc[t].delta.about = FieldOf[x]
                       /\ x \in DOMAIN pc[t].delta.cells /\ pc[t].delta.cells[x] = value[x]

Fresh ==
    /\ \A x \in Cells : x \notin changed => value[x] = 0
    /\ \A c \in Clients, x \in Cells : ViewOf[FieldOf[x]] \in copy[c].has =>
           copy[c].value[x] = value[x] \/ Pending(FieldOf[x]) \/ Notified(x)
    /\ \A t \in Threads, j \in DOMAIN cache : At(t, "baselines") /\ IsLast(j) /\ cache[j].view \in Built(t) =>
           \A x \in Cells : Shows(x, cache[j].view) =>
               cache[j].value[x] = value[x] \/ Pending(FieldOf[x])

\* An observer that has not been robbed has every view, or a complete set is on its way.
Coming(c) ==
    \/ \E t \in Threads : pc[t].at \in {"clear", "create"} /\ pc[t].for = c
    \/ \E i \in DOMAIN queue : queue[i] = [about |-> "baselines", for |-> c]
    \/ \E t \in Threads : At(t, "locking") /\ pc[t].event = [about |-> "baselines", for |-> c]
    \/ \E t \in Threads : /\ At(t, "baselines") /\ pc[t].for = c
                          /\ \A v \in Built(t) : \E j \in DOMAIN cache : cache[j].view = v
Arrives == \A c \in observers : c \in robbed \/ copy[c].has = Views \/ Coming(c)

IInv == TypeInv /\ Exclusive /\ Ordered /\ Fresh /\ Arrives

-----------------------------------------------------------------------------
(* Threads *)

\* A thread that goes on changes its own state only.
LEMMA GoesOn ==
    ASSUME TypeInv, NEW t \in Threads, NEW s, Go(t, s)
    PROVE  DOMAIN pc' = Threads /\ pc'[t] = s /\ \A u \in Threads : u # t => pc'[u] = pc[u]
BY DEF TypeInv, Go

\* What a thread's state holds, by where the thread is.
LEMMA ThreadParts ==
    ASSUME TypeInv, NEW t \in Threads
    PROVE  /\ pc[t].at \in {"idle", "dispatch", "build", "clear", "create", "locking", "baselines", "notify"}
           /\ At(t, "idle") => pc[t] = Idle
           /\ pc[t].at \in {"dispatch", "build"} => pc[t] = [at |-> pc[t].at, about |-> pc[t].about] /\ pc[t].about \in About
           /\ pc[t].at \in {"clear", "create"} => pc[t] = [at |-> pc[t].at, for |-> pc[t].for] /\ pc[t].for \in observers
           /\ At(t, "locking") => pc[t] = [at |-> "locking", event |-> pc[t].event] /\ pc[t].event \in Event
           /\ At(t, "baselines") => /\ pc[t] = [at |-> "baselines", for |-> pc[t].for, built |-> pc[t].built]
                                    /\ pc[t].for \in observers /\ pc[t].built \in 0 .. Len(ViewOrder)
<1>1. pc[t] \in ThreadState \/ pc[t].at = "notify"
  BY DEF TypeInv, At
<1> QED BY <1>1 DEF ThreadState, At, Idle

\* The parts of an event.
LEMMA EventParts ==
    ASSUME NEW e \in Event
    PROVE  \/ e.about \in About /\ e = [about |-> e.about]
           \/ e = [about |-> "baselines", for |-> e.for] /\ e.for \in observers /\ e.about \notin About
BY ReplicationAssumption DEF Event, About

\* The values in the cache and in the copies are numbers.
LEMMA ValueParts ==
    ASSUME TypeInv
    PROVE  /\ \A j \in DOMAIN cache : cache[j].view \in Views /\ \A x \in Cells : cache[j].value[x] \in Nat
           /\ \A c \in Clients, x \in Cells : copy[c].value[x] \in Nat
           /\ \A x \in Cells : value[x] \in Nat
<1>1. \A j \in DOMAIN cache : cache[j] \in Entry
  <2> HIDE DEF Entry
  <2> QED BY DEF TypeInv
<1>2. \A j \in DOMAIN cache : cache[j].view \in Views /\ cache[j].value \in [Cells -> Nat]
  BY <1>1 DEF Entry
<1> QED BY <1>2 DEF TypeInv

-----------------------------------------------------------------------------
(* What most steps keep *)

\* A step that sends and builds nothing keeps the order of what is sent and shown: values
\* only grow, a copy may be thrown away, and so may the cache.
LEMMA OrderedKeeps ==
    ASSUME TypeInv, Ordered, cache' = cache \/ cache' = <<>>,
           \A x \in Cells : value'[x] \in Nat /\ value[x] <= value'[x],
           \A c \in Clients, x \in Cells : copy'[c].value[x] \in Nat /\ copy'[c].value[x] <= copy[c].value[x],
           \A u \in Threads : At(u, "notify")' => pc'[u] = pc[u],
           \A u \in Threads : At(u, "baselines")' => pc'[u] = pc[u] \/ pc'[u].built = 0
    PROVE  Ordered'
<1>1. \A x \in Cells : /\ \A c \in Clients : copy'[c].value[x] <= value'[x]
                       /\ \A j \in DOMAIN cache' : cache'[j].value[x] <= value'[x]
  BY ValueParts DEF Ordered
<1>2. ASSUME NEW u \in Threads, At(u, "notify")', pc'[u].delta.about # "friends", NEW x \in DOMAIN pc'[u].delta.cells
      PROVE  /\ x \in Cells /\ FieldOf[x] = pc'[u].delta.about
             /\ pc'[u].delta.cells[x] \in Nat /\ pc'[u].delta.cells[x] <= value'[x]
             /\ \A c \in Clients : copy'[c].value[x] <= pc'[u].delta.cells[x]
  <2>1. pc'[u] = pc[u] /\ At(u, "notify")
    BY <1>2 DEF At
  <2> QED BY <1>2, <2>1, ValueParts DEF Ordered
<1>3. ASSUME NEW u \in Threads, NEW j \in DOMAIN cache', At(u, "baselines")', IsLast(j)', cache'[j].view \in Built(u)',
             NEW x \in Cells, Shows(x, cache'[j].view), NEW c \in Clients
      PROVE  copy'[c].value[x] <= cache'[j].value[x]
  <2>1. cache' = cache /\ j \in DOMAIN cache
    BY <1>3
  <2>2. pc'[u] = pc[u] /\ At(u, "baselines")
    BY <1>3 DEF At, Built
  <2>3. IsLast(j) /\ cache[j].view \in Built(u) /\ Shows(x, cache[j].view)
    BY <1>3, <2>1, <2>2 DEF IsLast, Built
  <2> QED BY <2>1, <2>2, <2>3, ValueParts DEF Ordered
<1> QED BY <1>1, <1>2, <1>3 DEF Ordered, Shows

\* A step that sends and builds nothing keeps what is not shown on its way.
LEMMA FreshKeeps ==
    ASSUME TypeInv, Fresh, cache' = cache \/ cache' = <<>>, changed \subseteq changed',
           \A x \in Cells : value'[x] = value[x] \/ (x \in changed' /\ Pending(FieldOf[x])'),
           \A x \in Cells : Pending(FieldOf[x]) => Pending(FieldOf[x])',
           \A x \in Cells : Notified(x) => Notified(x)' \/ Pending(FieldOf[x])',
           \A c \in Clients, x \in Cells : ViewOf[FieldOf[x]] \in copy'[c].has =>
               ViewOf[FieldOf[x]] \in copy[c].has /\ copy'[c].value[x] = copy[c].value[x],
           \A u \in Threads : At(u, "baselines")' => pc'[u] = pc[u] \/ pc'[u].built = 0
    PROVE  Fresh'
<1>1. \A x \in Cells : x \notin changed' => value'[x] = 0
  BY DEF Fresh
<1>2. ASSUME NEW c \in Clients, NEW x \in Cells, ViewOf[FieldOf[x]] \in copy'[c].has
      PROVE  copy'[c].value[x] = value'[x] \/ Pending(FieldOf[x])' \/ Notified(x)'
  <2>1. copy[c].value[x] = value[x] \/ Pending(FieldOf[x]) \/ Notified(x)
    BY <1>2 DEF Fresh
  <2>2. CASE value'[x] = value[x]
    BY <1>2, <2>1, <2>2
  <2> QED BY <2>2
<1>3. ASSUME NEW u \in Threads, NEW j \in DOMAIN cache', At(u, "baselines")', IsLast(j)', cache'[j].view \in Built(u)',
             NEW x \in Cells, Shows(x, cache'[j].view)
      PROVE  cache'[j].value[x] = value'[x] \/ Pending(FieldOf[x])'
  <2>1. cache' = cache /\ j \in DOMAIN cache
    BY <1>3
  <2>2. pc'[u] = pc[u] /\ At(u, "baselines")
    BY <1>3 DEF At, Built
  <2>3. IsLast(j) /\ cache[j].view \in Built(u) /\ Shows(x, cache[j].view)
    BY <1>3, <2>1, <2>2 DEF IsLast, Built
  <2>4. cache[j].value[x] = value[x] \/ Pending(FieldOf[x])
    BY <2>1, <2>2, <2>3 DEF Fresh
  <2>5. CASE value'[x] = value[x]
    BY <2>1, <2>4, <2>5
  <2> QED BY <2>5
<1> QED BY <1>1, <1>2, <1>3 DEF Fresh, Shows

\* The same for a step that changes neither the object nor a copy.
LEMMA FreshSame ==
    ASSUME TypeInv, Fresh, UNCHANGED <<value, changed, copy>>, cache' = cache \/ cache' = <<>>,
           \A f \in About : Pending(f) => Pending(f)', \A x \in Cells : Notified(x) => Notified(x)',
           \A u \in Threads : At(u, "baselines")' => pc'[u] = pc[u] \/ pc'[u].built = 0
    PROVE  Fresh'
<1>1. changed \subseteq changed' /\ \A x \in Cells : value'[x] = value[x]
  OBVIOUS
<1>2. \A x \in Cells : value'[x] = value[x] \/ (x \in changed' /\ Pending(FieldOf[x])')
  BY <1>1
<1>3. \A x \in Cells : Pending(FieldOf[x]) => Pending(FieldOf[x])'
  BY ReplicationAssumption DEF About
<1>4. \A x \in Cells : Notified(x) => Notified(x)' \/ Pending(FieldOf[x])'
  OBVIOUS
<1>5. \A c \in Clients, x \in Cells : ViewOf[FieldOf[x]] \in copy'[c].has =>
          ViewOf[FieldOf[x]] \in copy[c].has /\ copy'[c].value[x] = copy[c].value[x]
  OBVIOUS
<1> QED BY <1>1, <1>2, <1>3, <1>4, <1>5, FreshKeeps

-----------------------------------------------------------------------------
(* Setters *)

\* A thread that begins something keeps what is on its way on its way.
LEMMA BeginKeeps ==
    ASSUME NEW t \in Threads, At(t, "idle"), UNCHANGED <<queue, cache>>,
           \A u \in Threads : u # t => pc'[u] = pc[u]
    PROVE  /\ \A f : Pending(f) => Pending(f)'
           /\ \A c \in Clients : Coming(c) => Coming(c)'
BY DEF Pending, Coming, At, Built

\* A write is pending until its delta is built.
LEMMA StoreStep ==
    ASSUME IInv, NEW t \in Threads, NEW y \in Cells, Store(t, y)
    PROVE  IInv'
<1>1. /\ At(t, "idle") /\ value' = [value EXCEPT ![y] = @ + 1] /\ changed' = changed \cup {y}
      /\ Go(t, [at |-> "dispatch", about |-> FieldOf[y]])
      /\ UNCHANGED <<friends, friendOps, observers, cache, queue, lock, copy, robbed>>
  BY DEF Store, sendVars
<1>2. DOMAIN pc' = Threads /\ pc'[t] = [at |-> "dispatch", about |-> FieldOf[y]] /\ \A u \in Threads : u # t => pc'[u] = pc[u]
  BY <1>1, GoesOn DEF IInv
<1>3. /\ value' \in [Cells -> Nat] /\ value'[y] = value[y] + 1 /\ \A x \in Cells : x # y => value'[x] = value[x]
      /\ \A x \in Cells : value'[x] \in Nat /\ value[x] <= value'[x]
  BY <1>1 DEF IInv, TypeInv
<1>4. TypeInv'
  <2>1. pc'[t] \in ThreadState'
    BY <1>2, ReplicationAssumption DEF ThreadState, About
  <2>2. \A u \in Threads : u # t => pc'[u] \in ThreadState' \/ pc'[u].at = "notify"
    BY <1>1, <1>2 DEF IInv, TypeInv, ThreadState, Event, At
  <2> QED BY <1>1, <1>2, <1>3, <2>1, <2>2 DEF IInv, TypeInv, Event, At
<1>5. Exclusive'
  BY <1>1, <1>2 DEF IInv, Exclusive, At
<1>6. \A u \in Threads : At(u, "notify")' \/ At(u, "baselines")' => pc'[u] = pc[u]
  BY <1>2 DEF At
<1>7. Ordered'
  BY <1>1, <1>3, <1>6, OrderedKeeps, ValueParts DEF IInv
<1>8. /\ Pending(FieldOf[y])'
      /\ \A f : Pending(f) => Pending(f)'
      /\ \A c \in Clients : Coming(c) => Coming(c)'
  BY <1>1, <1>2, BeginKeeps DEF Pending
<1>9. Fresh'
  <2>1. ASSUME NEW x \in Cells PROVE value'[x] = value[x] \/ (x \in changed' /\ Pending(FieldOf[x])')
    <3>1. CASE x = y
      BY <1>1, <1>8, <3>1
    <3>2. CASE x # y
      BY <1>3, <3>2
    <3> QED BY <3>1, <3>2
  <2>3. changed \subseteq changed'
    BY <1>1
  <2>2. ASSUME NEW x \in Cells, Notified(x) PROVE Notified(x)' \/ Pending(FieldOf[x])'
    <3>1. CASE x = y
      BY <1>8, <3>1
    <3>2. CASE x # y
      BY <1>1, <1>2, <1>3, <2>2, <3>2 DEF Notified, At
    <3> QED BY <3>1, <3>2
  <2> QED BY <1>1, <1>6, <1>8, <2>1, <2>2, <2>3, FreshKeeps DEF IInv
<1>10. Arrives'
  BY <1>1, <1>8 DEF IInv, TypeInv, Arrives
<1> QED BY <1>4, <1>5, <1>7, <1>9, <1>10 DEF IInv

\* The two operations on the list write no cell: their event is pending like any other.
LEMMA ListWriteKeeps ==
    ASSUME IInv, NEW t \in Threads, At(t, "idle"), Go(t, [at |-> "dispatch", about |-> "friends"]),
           friends' \in Seq(Names), friendOps' \in Nat,
           UNCHANGED <<value, changed, observers, cache, queue, lock, copy, robbed>>
    PROVE  IInv'
<1>1. DOMAIN pc' = Threads /\ pc'[t] = [at |-> "dispatch", about |-> "friends"] /\ \A u \in Threads : u # t => pc'[u] = pc[u]
  BY GoesOn DEF IInv
<1>2. TypeInv'
  <2>1. pc'[t] \in ThreadState'
    BY <1>1 DEF ThreadState, About
  <2>2. \A u \in Threads : u # t => pc'[u] \in ThreadState' \/ pc'[u].at = "notify"
    BY <1>1 DEF IInv, TypeInv, ThreadState, Event, At
  <2> QED BY <1>1, <2>1, <2>2 DEF IInv, TypeInv, Event, At
<1>3. Exclusive'
  BY <1>1 DEF IInv, Exclusive, At
<1>4. \A u \in Threads : At(u, "notify")' \/ At(u, "baselines")' => pc'[u] = pc[u]
  BY <1>1 DEF At
<1>5. Ordered'
  BY <1>4, OrderedKeeps, ValueParts DEF IInv
<1>6. /\ \A f : Pending(f) => Pending(f)'
      /\ \A c \in Clients : Coming(c) => Coming(c)'
  BY <1>1, BeginKeeps
<1>7. \A x \in Cells : Notified(x) => Notified(x)'
  BY <1>1 DEF Notified, At
<1>8. Fresh'
  BY <1>4, <1>6, <1>7, FreshSame DEF IInv
<1>9. Arrives'
  BY <1>6 DEF IInv, TypeInv, Arrives
<1> QED BY <1>2, <1>3, <1>5, <1>8, <1>9 DEF IInv

\* Adding a friend changes the list only (Player::AddFriend).
LEMMA AddFriendStep ==
    ASSUME IInv, NEW t \in Threads, NEW n \in Names, AddFriend(t, n)
    PROVE  IInv'
<1>1. friends \in Seq(Names) /\ friendOps \in Nat
  BY DEF IInv, TypeInv
<1>2. friends' \in Seq(Names) /\ friendOps' \in Nat
  BY <1>1 DEF AddFriend
<1> QED BY <1>2, ListWriteKeeps DEF AddFriend, sendVars

\* Removing one too, and it records the position (Player::RemoveFriend).
LEMMA RemoveFriendStep ==
    ASSUME IInv, NEW t \in Threads, NEW n \in Names, RemoveFriend(t, n)
    PROVE  IInv'
<1>1. friends \in Seq(Names) /\ friendOps \in Nat
  BY DEF IInv, TypeInv
<1>2. PICK i \in DOMAIN friends : friends' = RemoveAt(friends, i) /\ friendOps' = friendOps + 1
  BY DEF RemoveFriend
<1>3. friends' \in Seq(Names) /\ friendOps' \in Nat
  BY <1>1, <1>2 DEF RemoveAt
<1> QED BY <1>3, ListWriteKeeps DEF RemoveFriend, sendVars

\* The write's event is posted.
LEMMA DispatchStep ==
    ASSUME IInv, NEW t \in Threads, Dispatch(t)
    PROVE  IInv'
<1>1. /\ At(t, "dispatch") /\ queue' = Append(queue, [about |-> pc[t].about]) /\ Go(t, Idle)
      /\ UNCHANGED <<value, changed, friends, friendOps, observers, cache, lock, copy, robbed>>
  BY DEF Dispatch, serverVars
<1>2. DOMAIN pc' = Threads /\ pc'[t] = Idle /\ \A u \in Threads : u # t => pc'[u] = pc[u]
  BY <1>1, GoesOn DEF IInv
<1>3. pc[t].about \in About
  BY <1>1, ThreadParts DEF IInv, At
<1>4. /\ queue \in Seq(Event) /\ queue' \in Seq(Event) /\ DOMAIN queue \subseteq DOMAIN queue'
      /\ \A i \in DOMAIN queue : queue'[i] = queue[i]
      /\ \E i \in DOMAIN queue' : queue'[i].about = pc[t].about
  <2> DEFINE E == Event
  <2>1. queue \in Seq(E) /\ [about |-> pc[t].about] \in E
    BY <1>3 DEF IInv, TypeInv, Event
  <2> HIDE DEF E
  <2>2. /\ queue' \in Seq(E) /\ DOMAIN queue' = 1 .. Len(queue) + 1 /\ DOMAIN queue = 1 .. Len(queue) /\ Len(queue) \in Nat
        /\ \A i \in DOMAIN queue : queue'[i] = queue[i]
        /\ queue'[Len(queue) + 1] = [about |-> pc[t].about]
    BY <1>1, <2>1
  <2>3. queue'[Len(queue) + 1].about = pc[t].about
    BY <2>2
  <2> QED BY <2>1, <2>2, <2>3 DEF E
<1>5. TypeInv'
  BY <1>1, <1>2, <1>4 DEF IInv, TypeInv, ThreadState, Event, At
<1>6. Exclusive'
  BY <1>1, <1>2 DEF IInv, Exclusive, At, Idle
<1>7. \A u \in Threads : At(u, "notify")' \/ At(u, "baselines")' => pc'[u] = pc[u]
  BY <1>2 DEF At, Idle
<1>8. Ordered'
  BY <1>1, <1>7, OrderedKeeps, ValueParts DEF IInv
<1>9. \A f : Pending(f) => Pending(f)'
  BY <1>1, <1>2, <1>4 DEF Pending, At
<1>10. \A x \in Cells : Notified(x) => Notified(x)'
  BY <1>1, <1>2 DEF Notified, At
<1>11. Fresh'
  BY <1>1, <1>7, <1>9, <1>10, FreshSame DEF IInv
<1>12. \A c \in Clients : Coming(c) => Coming(c)'
  <2> SUFFICES ASSUME NEW c \in Clients, Coming(c) PROVE Coming(c)'
    OBVIOUS
  <2>1. \A u \in Threads : At(u, "dispatch") \/ pc'[u] = pc[u]
    BY <1>1, <1>2
  <2>2. CASE \E u \in Threads : pc[u].at \in {"clear", "create"} /\ pc[u].for = c
    BY <2>1, <2>2 DEF Coming, At
  <2>3. CASE \E i \in DOMAIN queue : queue[i] = [about |-> "baselines", for |-> c]
    BY <1>4, <2>3 DEF Coming
  <2>4. CASE \E u \in Threads : At(u, "locking") /\ pc[u].event = [about |-> "baselines", for |-> c]
    BY <2>1, <2>4 DEF Coming, At
  <2>5. CASE \E u \in Threads : /\ At(u, "baselines") /\ pc[u].for = c
                                /\ \A v \in Built(u) : \E j \in DOMAIN cache : cache[j].view = v
    BY <1>1, <2>1, <2>5 DEF Coming, At, Built
  <2> QED BY <2>2, <2>3, <2>4, <2>5 DEF Coming
<1>13. Arrives'
  BY <1>1, <1>12 DEF IInv, TypeInv, Arrives
<1> QED BY <1>5, <1>6, <1>8, <1>11, <1>13 DEF IInv

-----------------------------------------------------------------------------
(* A new observer *)

\* A new observer has no view yet, and its baselines are on their way (AddAwareObject).
LEMMA SubscribeStep ==
    ASSUME IInv, NEW t \in Threads, NEW d \in Clients, Subscribe(t, d)
    PROVE  IInv'
<1>1. /\ At(t, "idle") /\ observers' = observers \cup {d} /\ Go(t, [at |-> "clear", for |-> d])
      /\ UNCHANGED <<value, changed, friends, friendOps, cache, queue, lock, copy, robbed>>
  BY DEF Subscribe, serverVars
<1>2. DOMAIN pc' = Threads /\ pc'[t] = [at |-> "clear", for |-> d] /\ \A u \in Threads : u # t => pc'[u] = pc[u]
  BY <1>1, GoesOn DEF IInv
<1>3. TypeInv'
  <2>1. Event \subseteq Event'
    BY <1>1 DEF Event
  <2>2. ThreadState \subseteq ThreadState'
    BY <1>1, <2>1 DEF ThreadState
  <2>3. pc'[t] \in ThreadState'
    BY <1>1, <1>2 DEF ThreadState
  <2>4. \A u \in Threads : pc'[u] \in ThreadState' \/ pc'[u].at = "notify"
    BY <1>2, <2>2, <2>3 DEF IInv, TypeInv, At
  <2>5. queue' \in Seq(Event')
    <3> DEFINE E == Event
    <3>1. queue \in Seq(E) /\ queue' = queue /\ E \subseteq E'
      BY <1>1, <2>1 DEF IInv, TypeInv
    <3> HIDE DEF E
    <3>2. queue' \in Seq(E')
      BY <3>1
    <3> QED BY <3>2 DEF E
  <2> QED BY <1>1, <1>2, <2>4, <2>5 DEF IInv, TypeInv, At
<1>4. Exclusive'
  BY <1>1, <1>2 DEF IInv, Exclusive, At
<1>5. \A u \in Threads : At(u, "notify")' \/ At(u, "baselines")' => pc'[u] = pc[u]
  BY <1>2 DEF At
<1>6. Ordered'
  BY <1>1, <1>5, OrderedKeeps, ValueParts DEF IInv
<1>7. /\ \A f : Pending(f) => Pending(f)'
      /\ \A c \in Clients : Coming(c) => Coming(c)'
  BY <1>1, <1>2, BeginKeeps
<1>8. \A x \in Cells : Notified(x) => Notified(x)'
  BY <1>1, <1>2 DEF Notified, At
<1>9. Fresh'
  BY <1>1, <1>5, <1>7, <1>8, FreshSame DEF IInv
<1>10. Coming(d)'
  BY <1>2 DEF Coming
<1>11. Arrives'
  BY <1>1, <1>7, <1>10 DEF IInv, TypeInv, Arrives
<1> QED BY <1>3, <1>4, <1>6, <1>9, <1>11 DEF IInv

\* Clearing the cache robs those whose baselines are being built, and nobody else.
LEMMA ClearBaselinesStep ==
    ASSUME IInv, NEW t \in Threads, ClearBaselines(t)
    PROVE  IInv'
<1>1. /\ At(t, "clear") /\ cache' = <<>> /\ Go(t, [pc[t] EXCEPT !.at = "create"])
      /\ robbed' = robbed \cup {pc[u].for : u \in {u \in Threads : At(u, "baselines") /\ pc[u].built > 0}}
      /\ UNCHANGED <<value, changed, friends, friendOps, observers, queue, lock, copy>>
  BY DEF ClearBaselines, serverVars
<1>2. pc[t] = [at |-> "clear", for |-> pc[t].for] /\ pc[t].for \in observers
  BY <1>1, ThreadParts DEF IInv, At
<1>3. /\ DOMAIN pc' = Threads /\ pc'[t] = [at |-> "create", for |-> pc[t].for]
      /\ \A u \in Threads : u # t => pc'[u] = pc[u]
  BY <1>1, <1>2, GoesOn DEF IInv
<1>4. TypeInv'
  <2>1. pc'[t] \in ThreadState'
    BY <1>1, <1>2, <1>3 DEF ThreadState
  <2>2. \A u \in Threads : u # t => pc'[u] \in ThreadState' \/ pc'[u].at = "notify"
    BY <1>1, <1>3 DEF IInv, TypeInv, ThreadState, Event, At
  <2> QED BY <1>1, <1>3, <2>1, <2>2 DEF IInv, TypeInv, Event, At
<1>5. Exclusive'
  BY <1>1, <1>3 DEF IInv, Exclusive, At
<1>6. \A u \in Threads : At(u, "notify")' \/ At(u, "baselines")' => pc'[u] = pc[u]
  BY <1>3 DEF At
<1>7. Ordered'
  BY <1>1, <1>6, OrderedKeeps, ValueParts DEF IInv
<1>8. \A f : Pending(f) => Pending(f)'
  BY <1>1, <1>3 DEF Pending, At
<1>9. \A x \in Cells : Notified(x) => Notified(x)'
  BY <1>1, <1>3 DEF Notified, At
<1>10. Fresh'
  BY <1>1, <1>6, <1>8, <1>9, FreshSame DEF IInv
<1>11. ASSUME NEW c \in Clients, Coming(c), c \notin robbed' PROVE Coming(c)'
  <2>1. CASE \E u \in Threads : pc[u].at \in {"clear", "create"} /\ pc[u].for = c
    BY <1>3, <2>1 DEF Coming, At
  <2>2. CASE \E i \in DOMAIN queue : queue[i] = [about |-> "baselines", for |-> c]
    BY <1>1, <2>2 DEF Coming
  <2>3. CASE \E u \in Threads : At(u, "locking") /\ pc[u].event = [about |-> "baselines", for |-> c]
    BY <1>1, <1>3, <2>3 DEF Coming, At
  <2>4. ASSUME NEW u \in Threads, At(u, "baselines"), pc[u].for = c PROVE Coming(c)'
    <3>1. pc[u].built \in Nat
      <4>1. pc[u].built \in 0 .. Len(ViewOrder)
        BY <2>4, ThreadParts DEF IInv
      <4> QED BY <4>1
    <3>2. pc[u].built = 0
      BY <1>1, <1>11, <2>4, <3>1
    <3>3. pc'[u] = pc[u] /\ At(u, "baselines")'
      BY <1>1, <1>3, <2>4 DEF At
    <3>4. Built(u)' = {}
      BY <3>2, <3>3 DEF Built
    <3> QED BY <2>4, <3>3, <3>4 DEF Coming
  <2> QED BY <1>11, <2>1, <2>2, <2>3, <2>4 DEF Coming
<1>12. Arrives'
  BY <1>1, <1>11 DEF IInv, TypeInv, Arrives
<1> QED BY <1>4, <1>5, <1>7, <1>10, <1>12 DEF IInv

\* A copy that is made anew shows nothing, and its baselines are on their way.
LEMMA CreateOnClientStep ==
    ASSUME IInv, NEW t \in Threads, CreateOnClient(t)
    PROVE  IInv'
<1> DEFINE d == pc[t].for
<1>1. /\ At(t, "create") /\ copy' = [copy EXCEPT ![d] = NoCopy] /\ robbed' = robbed \ {d} /\ Go(t, Idle)
      /\ queue' = Append(queue, [about |-> "baselines", for |-> d])
      /\ UNCHANGED <<value, changed, friends, friendOps, observers, cache, lock>>
  BY DEF CreateOnClient, serverVars
<1>2. d \in observers /\ d \in Clients
  BY <1>1, ThreadParts DEF IInv, TypeInv, At
<1> HIDE DEF d
<1>3. DOMAIN pc' = Threads /\ pc'[t] = Idle /\ \A u \in Threads : u # t => pc'[u] = pc[u]
  BY <1>1, GoesOn DEF IInv
<1>4. /\ queue' \in Seq(Event) /\ DOMAIN queue \subseteq DOMAIN queue'
      /\ \A i \in DOMAIN queue : queue'[i] = queue[i]
      /\ \E i \in DOMAIN queue' : queue'[i] = [about |-> "baselines", for |-> d]
  <2> DEFINE E == Event
  <2>1. queue \in Seq(E) /\ [about |-> "baselines", for |-> d] \in E
    BY <1>2 DEF IInv, TypeInv, Event
  <2> HIDE DEF E
  <2>2. /\ queue' \in Seq(E) /\ DOMAIN queue' = 1 .. Len(queue) + 1 /\ DOMAIN queue = 1 .. Len(queue) /\ Len(queue) \in Nat
        /\ \A i \in DOMAIN queue : queue'[i] = queue[i]
        /\ queue'[Len(queue) + 1] = [about |-> "baselines", for |-> d]
    BY <1>1, <2>1
  <2> QED BY <2>1, <2>2 DEF E
<1>5. /\ DOMAIN copy' = Clients /\ copy'[d] = NoCopy /\ \A c \in Clients : c # d => copy'[c] = copy[c]
      /\ NoCopy.has = {} /\ NoCopy.value \in [Cells -> Nat] /\ \A x \in Cells : NoCopy.value[x] = 0
  BY <1>1, <1>2 DEF IInv, TypeInv, NoCopy
<1>6. TypeInv'
  <2>1. \A c \in Clients : /\ DOMAIN copy'[c] = DOMAIN NoCopy
                           /\ copy'[c].has \subseteq Views /\ copy'[c].value \in [Cells -> Nat]
                           /\ copy'[c].has # {} => c \in observers
    BY <1>2, <1>5 DEF IInv, TypeInv
  <2> QED BY <1>1, <1>3, <1>4, <1>5, <2>1 DEF IInv, TypeInv, ThreadState, Event, At
<1>7. Exclusive'
  BY <1>1, <1>3 DEF IInv, Exclusive, At, Idle
<1>8. \A u \in Threads : At(u, "notify")' \/ At(u, "baselines")' => pc'[u] = pc[u]
  BY <1>3 DEF At, Idle
<1>9. Ordered'
  <2>1. ASSUME NEW c \in Clients, NEW x \in Cells PROVE copy'[c].value[x] \in Nat /\ copy'[c].value[x] <= copy[c].value[x]
    BY <1>5, ValueParts DEF IInv
  <2>2. \A x \in Cells : value'[x] \in Nat /\ value[x] <= value'[x]
    BY <1>1, ValueParts DEF IInv
  <2> QED BY <1>1, <1>8, <2>1, <2>2, OrderedKeeps DEF IInv
<1>10. \A f : Pending(f) => Pending(f)'
  BY <1>1, <1>3, <1>4 DEF Pending, At
<1>11. \A x \in Cells : Notified(x) => Notified(x)'
  BY <1>1, <1>3 DEF Notified, At
<1>12. Fresh'
  <2>1. \A c \in Clients, x \in Cells : ViewOf[FieldOf[x]] \in copy'[c].has =>
          ViewOf[FieldOf[x]] \in copy[c].has /\ copy'[c].value[x] = copy[c].value[x]
    BY <1>5
  <2>2. changed \subseteq changed' /\ \A x \in Cells : value'[x] = value[x] \/ (x \in changed' /\ Pending(FieldOf[x])')
    BY <1>1
  <2>3. /\ \A x \in Cells : Pending(FieldOf[x]) => Pending(FieldOf[x])'
        /\ \A x \in Cells : Notified(x) => Notified(x)' \/ Pending(FieldOf[x])'
    BY <1>10, <1>11
  <2> QED BY <1>1, <1>8, <2>1, <2>2, <2>3, FreshKeeps DEF IInv
<1>13. ASSUME NEW c \in Clients PROVE c = d \/ Coming(c) => Coming(c)'
  <2>1. CASE c = d
    BY <1>4, <2>1 DEF Coming
  <2>2. CASE \E u \in Threads : pc[u].at \in {"clear", "create"} /\ pc[u].for = c
    <3>1. PICK u \in Threads : pc[u].at \in {"clear", "create"} /\ pc[u].for = c
      BY <2>2
    <3>2. CASE u = t
      BY <2>1, <3>1, <3>2 DEF d
    <3> QED BY <1>3, <3>1, <3>2 DEF Coming
  <2>3. CASE \E i \in DOMAIN queue : queue[i] = [about |-> "baselines", for |-> c]
    BY <1>4, <2>3 DEF Coming
  <2>4. CASE \E u \in Threads : At(u, "locking") /\ pc[u].event = [about |-> "baselines", for |-> c]
    BY <1>1, <1>3, <2>4 DEF Coming, At
  <2>5. CASE \E u \in Threads : /\ At(u, "baselines") /\ pc[u].for = c
                                /\ \A v \in Built(u) : \E j \in DOMAIN cache : cache[j].view = v
    BY <1>1, <1>3, <2>5 DEF Coming, At, Built
  <2> QED BY <2>1, <2>2, <2>3, <2>4, <2>5 DEF Coming
<1>14. Arrives'
  <2> SUFFICES ASSUME NEW c \in observers, c \notin robbed' PROVE copy'[c].has = Views \/ Coming(c)'
    BY <1>1 DEF Arrives
  <2>1. c \in Clients
    BY DEF IInv, TypeInv
  <2>2. CASE c = d
    BY <1>13, <2>1, <2>2
  <2>3. CASE c # d
    BY <1>1, <1>5, <1>13, <2>1, <2>3 DEF IInv, Arrives
  <2> QED BY <2>2, <2>3
<1> QED BY <1>6, <1>7, <1>9, <1>12, <1>14 DEF IInv

-----------------------------------------------------------------------------
(* Handlers *)

\* An event that is taken is still on its way.
LEMMA TakeEventStep ==
    ASSUME IInv, NEW t \in Threads, TakeEvent(t)
    PROVE  IInv'
<1>1. /\ At(t, "idle") /\ queue # <<>> /\ Go(t, [at |-> "locking", event |-> Head(queue)]) /\ queue' = Tail(queue)
      /\ UNCHANGED <<value, changed, friends, friendOps, observers, cache, lock, copy, robbed>>
  BY DEF TakeEvent, serverVars
<1>2. /\ DOMAIN pc' = Threads /\ pc'[t] = [at |-> "locking", event |-> Head(queue)]
      /\ \A u \in Threads : u # t => pc'[u] = pc[u]
  BY <1>1, GoesOn DEF IInv
<1>3. /\ Head(queue) \in Event /\ queue' \in Seq(Event)
      /\ \A i \in DOMAIN queue : queue[i] = Head(queue) \/ \E k \in DOMAIN queue' : queue'[k] = queue[i]
  <2> DEFINE E == Event
  <2>1. queue \in Seq(E)
    BY DEF IInv, TypeInv
  <2> HIDE DEF E
  <2>2. /\ Head(queue) \in E /\ queue' \in Seq(E) /\ Len(queue) \in Nat /\ DOMAIN queue = 1 .. Len(queue)
        /\ DOMAIN queue' = 1 .. Len(queue) - 1 /\ \A k \in DOMAIN queue' : queue'[k] = queue[k + 1]
        /\ Head(queue) = queue[1]
    BY <1>1, <2>1
  <2>3. ASSUME NEW i \in DOMAIN queue, i # 1 PROVE \E k \in DOMAIN queue' : queue'[k] = queue[i]
    <3>1. i - 1 \in DOMAIN queue' /\ queue'[i - 1] = queue[i]
      BY <2>2, <2>3
    <3> QED BY <3>1
  <2> QED BY <2>2, <2>3 DEF E
<1>4. TypeInv'
  <2>1. pc'[t] \in ThreadState'
    BY <1>1, <1>2, <1>3 DEF ThreadState, Event
  <2>2. \A u \in Threads : u # t => pc'[u] \in ThreadState' \/ pc'[u].at = "notify"
    BY <1>1, <1>2 DEF IInv, TypeInv, ThreadState, Event, At
  <2> QED BY <1>1, <1>2, <1>3, <2>1, <2>2 DEF IInv, TypeInv, Event, At
<1>5. Exclusive'
  BY <1>1, <1>2 DEF IInv, Exclusive, At
<1>6. \A u \in Threads : At(u, "notify")' \/ At(u, "baselines")' => pc'[u] = pc[u]
  BY <1>2 DEF At
<1>7. Ordered'
  BY <1>1, <1>6, OrderedKeeps, ValueParts DEF IInv
<1>8. ASSUME NEW f, Pending(f) PROVE Pending(f)'
  <2>1. CASE \E u \in Threads : pc[u].at \in {"dispatch", "build"} /\ pc[u].about = f
    BY <1>1, <1>2, <2>1 DEF Pending, At
  <2>2. CASE \E i \in DOMAIN queue : queue[i].about = f
    <3>1. pc'[t].at = "locking" /\ pc'[t].event = Head(queue)
      BY <1>2
    <3> QED BY <1>3, <2>2, <3>1 DEF Pending, At
  <2>3. CASE \E u \in Threads : At(u, "locking") /\ pc[u].event.about = f
    BY <1>1, <1>2, <2>3 DEF Pending, At
  <2> QED BY <1>8, <2>1, <2>2, <2>3 DEF Pending
<1>9. \A x \in Cells : Notified(x) => Notified(x)'
  BY <1>1, <1>2 DEF Notified, At
<1>10. Fresh'
  BY <1>1, <1>6, <1>8, <1>9, FreshSame DEF IInv
<1>11. ASSUME NEW c \in Clients, Coming(c) PROVE Coming(c)'
  <2>1. CASE \E u \in Threads : pc[u].at \in {"clear", "create"} /\ pc[u].for = c
    BY <1>1, <1>2, <2>1 DEF Coming, At
  <2>2. CASE \E i \in DOMAIN queue : queue[i] = [about |-> "baselines", for |-> c]
    <3>1. pc'[t].at = "locking" /\ pc'[t].event = Head(queue)
      BY <1>2
    <3> QED BY <1>3, <2>2, <3>1 DEF Coming, At
  <2>3. CASE \E u \in Threads : At(u, "locking") /\ pc[u].event = [about |-> "baselines", for |-> c]
    BY <1>1, <1>2, <2>3 DEF Coming, At
  <2>4. CASE \E u \in Threads : /\ At(u, "baselines") /\ pc[u].for = c
                                /\ \A v \in Built(u) : \E j \in DOMAIN cache : cache[j].view = v
    BY <1>1, <1>2, <2>4 DEF Coming, At, Built
  <2> QED BY <1>11, <2>1, <2>2, <2>3, <2>4 DEF Coming
<1>12. Arrives'
  BY <1>1, <1>11 DEF IInv, TypeInv, Arrives
<1> QED BY <1>4, <1>5, <1>7, <1>10, <1>12 DEF IInv

\* A handler begins when nobody else is in one.
LEMMA InvokeCallbacksStep ==
    ASSUME IInv, NEW t \in Threads, InvokeCallbacks(t)
    PROVE  IInv'
<1> DEFINE e == pc[t].event
<1>1. /\ At(t, "locking") /\ lock = None /\ lock' = t
      /\ Go(t, IF e.about = "baselines" THEN [at |-> "baselines", for |-> e.for, built |-> 0]
                                        ELSE [at |-> "build", about |-> e.about])
      /\ UNCHANGED <<value, changed, friends, friendOps, observers, cache, queue, copy, robbed>>
  BY DEF InvokeCallbacks, serverVars
<1>2. e \in Event
  BY <1>1, ThreadParts DEF IInv
<1> HIDE DEF e
<1>3. /\ DOMAIN pc' = Threads /\ \A u \in Threads : u # t => pc'[u] = pc[u]
      /\ pc'[t] = IF e.about = "baselines" THEN [at |-> "baselines", for |-> e.for, built |-> 0]
                                           ELSE [at |-> "build", about |-> e.about]
  BY <1>1, GoesOn DEF IInv
<1>4. \/ /\ e.about \in About /\ pc'[t] = [at |-> "build", about |-> e.about]
      \/ /\ e = [about |-> "baselines", for |-> e.for] /\ e.for \in observers /\ e.about \notin About
         /\ pc'[t] = [at |-> "baselines", for |-> e.for, built |-> 0]
  BY <1>2, <1>3, EventParts, ReplicationAssumption DEF About
<1>5. TypeInv'
  <2>1. 0 \in 0 .. Len(ViewOrder)
    BY ReplicationAssumption
  <2>2. pc'[t] \in ThreadState'
    BY <1>1, <1>4, <2>1 DEF ThreadState
  <2>3. \A u \in Threads : u # t => pc'[u] \in ThreadState' \/ pc'[u].at = "notify"
    BY <1>1, <1>3 DEF IInv, TypeInv, ThreadState, Event, At
  <2> QED BY <1>1, <1>3, <2>2, <2>3 DEF IInv, TypeInv, Event, At
<1>6. pc'[t].at \in {"build", "baselines"} /\ \A u \in Threads : u # t => pc[u].at \notin {"build", "notify", "baselines"}
  BY <1>1, <1>4, ReplicationAssumption DEF IInv, Exclusive
<1>7. Exclusive'
  BY <1>1, <1>3, <1>6 DEF Exclusive
<1>8. \A u \in Threads : /\ At(u, "notify")' => pc'[u] = pc[u]
                         /\ At(u, "baselines")' => pc'[u] = pc[u] \/ pc'[u].built = 0
  BY <1>3, <1>4 DEF At
<1>9. Ordered'
  BY <1>1, <1>8, OrderedKeeps, ValueParts DEF IInv
<1>10. ASSUME NEW f \in About, Pending(f) PROVE Pending(f)'
  <2>1. CASE \E u \in Threads : pc[u].at \in {"dispatch", "build"} /\ pc[u].about = f
    BY <1>1, <1>3, <2>1 DEF Pending, At
  <2>2. CASE \E i \in DOMAIN queue : queue[i].about = f
    BY <1>1, <2>2 DEF Pending
  <2>3. ASSUME NEW u \in Threads, At(u, "locking"), pc[u].event.about = f PROVE Pending(f)'
    <3>1. CASE u = t
      BY <1>4, <1>10, <2>3, <3>1 DEF Pending, e
    <3>2. CASE u # t
      BY <1>3, <2>3, <3>2 DEF Pending, At
    <3> QED BY <3>1, <3>2
  <2> QED BY <1>10, <2>1, <2>2, <2>3 DEF Pending
<1>11. \A x \in Cells : Notified(x) => Notified(x)'
  BY <1>1, <1>3 DEF Notified, At
<1>12. Fresh'
  BY <1>1, <1>8, <1>10, <1>11, FreshSame DEF IInv
<1>13. ASSUME NEW c \in Clients, Coming(c) PROVE Coming(c)'
  <2>1. CASE \E u \in Threads : pc[u].at \in {"clear", "create"} /\ pc[u].for = c
    BY <1>1, <1>3, <2>1 DEF Coming, At
  <2>2. CASE \E i \in DOMAIN queue : queue[i] = [about |-> "baselines", for |-> c]
    BY <1>1, <2>2 DEF Coming
  <2>3. ASSUME NEW u \in Threads, At(u, "locking"), pc[u].event = [about |-> "baselines", for |-> c] PROVE Coming(c)'
    <3>1. CASE u = t
      <4>1. e = [about |-> "baselines", for |-> c]
        BY <2>3, <3>1 DEF e
      <4>2. pc'[t] = [at |-> "baselines", for |-> c, built |-> 0]
        BY <1>3, <4>1
      <4>3. At(t, "baselines")' /\ pc'[t].for = c /\ Built(t)' = {}
        BY <4>2 DEF At, Built
      <4> QED BY <4>3 DEF Coming
    <3>2. CASE u # t
      BY <1>3, <2>3, <3>2 DEF Coming, At
    <3> QED BY <3>1, <3>2
  <2>4. CASE \E u \in Threads : /\ At(u, "baselines") /\ pc[u].for = c
                                /\ \A v \in Built(u) : \E j \in DOMAIN cache : cache[j].view = v
    BY <1>1, <1>3, <2>4 DEF Coming, At, Built
  <2> QED BY <1>13, <2>1, <2>2, <2>3, <2>4 DEF Coming
<1>14. Arrives'
  BY <1>1, <1>13 DEF IInv, TypeInv, Arrives
<1> QED BY <1>5, <1>7, <1>9, <1>12, <1>14 DEF IInv

\* What comes to a client comes from threads that are not in a handler, or build baselines.
LEMMA ComingKeeps ==
    ASSUME NEW t \in Threads, pc[t].at \in {"build", "notify"}, UNCHANGED <<queue, cache>>,
           \A u \in Threads : u # t => pc'[u] = pc[u]
    PROVE  \A c \in Clients : Coming(c) => Coming(c)'
BY DEF Coming, At, Built

\* A handler that finds no observer drops what nobody has seen.
LEMMA SkipDeltaStep ==
    ASSUME IInv, NEW t \in Threads, SkipDelta(t)
    PROVE  IInv'
<1>1. /\ At(t, "build") /\ observers = {} /\ lock' = None /\ Go(t, Idle)
      /\ UNCHANGED <<value, changed, friends, friendOps, observers, cache, queue, copy, robbed>>
  BY DEF SkipDelta, serverVars
<1>2. DOMAIN pc' = Threads /\ pc'[t] = Idle /\ \A u \in Threads : u # t => pc'[u] = pc[u]
  BY <1>1, GoesOn DEF IInv
<1>3. TypeInv'
  <2>1. pc'[t] \in ThreadState'
    BY <1>2 DEF ThreadState
  <2>2. \A u \in Threads : u # t => pc'[u] \in ThreadState' \/ pc'[u].at = "notify"
    BY <1>1, <1>2 DEF IInv, TypeInv, ThreadState, Event, At
  <2> QED BY <1>1, <1>2, <2>1, <2>2 DEF IInv, TypeInv, Event, At
<1>4. \A u \in Threads : pc'[u].at \notin {"build", "notify", "baselines"}
  BY <1>1, <1>2 DEF IInv, Exclusive, At, Idle
<1>5. Exclusive'
  BY <1>1, <1>4, ReplicationAssumption DEF Exclusive
<1>6. Ordered'
  <2>1. \A u \in Threads : ~At(u, "notify")' /\ ~At(u, "baselines")'
    BY <1>4 DEF At
  <2> QED BY <1>1, <2>1, OrderedKeeps, ValueParts DEF IInv
<1>7. Fresh'
  BY <1>1, <1>4 DEF IInv, TypeInv, Fresh, At
<1>8. Arrives'
  BY <1>1 DEF Arrives
<1> QED BY <1>3, <1>5, <1>6, <1>7, <1>8 DEF IInv

\* The delta has every cell of the field that was ever written, as it is now.
LEMMA BuildDeltaStep ==
    ASSUME IInv, NEW t \in Threads, BuildDelta(t)
    PROVE  IInv'
<1> DEFINE f == pc[t].about
           d == Delta(f)
<1>1. /\ At(t, "build") /\ Go(t, [at |-> "notify", delta |-> d])
      /\ UNCHANGED <<value, changed, friends, friendOps, observers, cache, queue, lock, copy, robbed>>
  BY DEF BuildDelta, serverVars, sendVars
<1>2. /\ d.about = f
      /\ f # "friends" => /\ DOMAIN d.cells = {x \in changed : FieldOf[x] = f}
                          /\ \A x \in DOMAIN d.cells : d.cells[x] = value[x]
  <2>1. CASE f = "friends"
    BY <2>1 DEF Delta
  <2>2. CASE f # "friends"
    BY <2>2 DEF Delta
  <2> QED BY <2>1, <2>2
<1> HIDE DEF d
<1>3. DOMAIN pc' = Threads /\ pc'[t] = [at |-> "notify", delta |-> d] /\ \A u \in Threads : u # t => pc'[u] = pc[u]
  BY <1>1, GoesOn DEF IInv
<1>4. TypeInv'
  <2>1. \A u \in Threads : u # t => pc'[u] \in ThreadState' \/ pc'[u].at = "notify"
    BY <1>1, <1>3 DEF IInv, TypeInv, ThreadState, Event, At
  <2> QED BY <1>1, <1>3, <2>1 DEF IInv, TypeInv, Event, At
<1>5. \A u \in Threads : u # t => pc'[u].at \notin {"build", "notify", "baselines"}
  BY <1>1, <1>3 DEF IInv, Exclusive, At
<1>6. Exclusive'
  BY <1>1, <1>3, <1>5 DEF IInv, Exclusive, At
<1>7. Ordered'
  <2>1. \A x \in Cells : /\ \A c \in Clients : copy'[c].value[x] <= value'[x]
                         /\ \A j \in DOMAIN cache' : cache'[j].value[x] <= value'[x]
    BY <1>1 DEF IInv, Ordered
  <2>2. ASSUME NEW u \in Threads, At(u, "notify")', pc'[u].delta.about # "friends", NEW x \in DOMAIN pc'[u].delta.cells
        PROVE  /\ x \in Cells /\ FieldOf[x] = pc'[u].delta.about
               /\ pc'[u].delta.cells[x] \in Nat /\ pc'[u].delta.cells[x] <= value'[x]
               /\ \A c \in Clients : copy'[c].value[x] <= pc'[u].delta.cells[x]
    <3>1. u = t /\ pc'[u].delta = d
      BY <1>3, <1>5, <2>2 DEF At
    <3>2. x \in changed /\ x \in Cells /\ FieldOf[x] = f /\ d.cells[x] = value[x]
      BY <1>2, <2>2, <3>1 DEF IInv, TypeInv
    <3>3. value[x] \in Nat
      BY <3>2, ValueParts DEF IInv
    <3> QED BY <1>1, <1>2, <2>1, <3>1, <3>2, <3>3
  <2>3. \A u \in Threads : ~At(u, "baselines")'
    BY <1>3, <1>5 DEF At
  <2> QED BY <2>1, <2>2, <2>3 DEF Ordered
<1>8. Fresh'
  <2>1. \A x \in Cells : x \notin changed' => value'[x] = 0
    BY <1>1 DEF IInv, Fresh
  <2>2. ASSUME NEW c \in Clients, NEW x \in Cells, ViewOf[FieldOf[x]] \in copy'[c].has
        PROVE  copy'[c].value[x] = value'[x] \/ Pending(FieldOf[x])' \/ Notified(x)'
    <3>1. copy[c].value[x] = value[x] \/ Pending(FieldOf[x]) \/ Notified(x)
      BY <1>1, <2>2 DEF IInv, Fresh
    <3>2. ~Notified(x)
      BY <1>1 DEF Notified, IInv, Exclusive, At
    <3>3. CASE Pending(FieldOf[x])
      <4>1. CASE FieldOf[x] = f
        <5>1. f # "friends"
          BY <4>1, ReplicationAssumption
        <5>2. CASE x \in changed
          <6>1. x \in DOMAIN d.cells /\ d.cells[x] = value[x] /\ d.about = FieldOf[x]
            BY <1>2, <4>1, <5>1, <5>2
          <6> QED BY <1>1, <1>3, <6>1 DEF Notified, At
        <5>3. CASE x \notin changed
          <6>1. value[x] = 0 /\ copy[c].value[x] <= value[x] /\ copy[c].value[x] \in Nat
            BY <5>3, ValueParts DEF IInv, Fresh, Ordered
          <6> QED BY <1>1, <6>1
        <5> QED BY <5>2, <5>3
      <4>2. CASE FieldOf[x] # f
        BY <1>1, <1>3, <3>3, <4>2 DEF Pending, At
      <4> QED BY <4>1, <4>2
    <3> QED BY <1>1, <3>1, <3>2, <3>3
  <2>3. \A u \in Threads : ~At(u, "baselines")'
    BY <1>3, <1>5 DEF At
  <2> QED BY <2>1, <2>2, <2>3 DEF Fresh
<1>9. Arrives'
  BY <1>1, <1>3, ComingKeeps DEF IInv, TypeInv, Arrives, At
<1> QED BY <1>4, <1>6, <1>7, <1>8, <1>9 DEF IInv

\* A delta changes the cells it has, of a client that has their view.
LEMMA ApplyDeltaParts ==
    ASSUME NEW old, NEW d, DOMAIN old = DOMAIN NoCopy, old.value \in [Cells -> Nat],
           d.about # "friends" =>
               \A x \in DOMAIN d.cells : x \in Cells /\ FieldOf[x] = d.about /\ d.cells[x] \in Nat
    PROVE  LET new == ApplyDelta(old, d)
           IN /\ DOMAIN new = DOMAIN NoCopy /\ new.has = old.has /\ new.value \in [Cells -> Nat]
              /\ \A x \in Cells :
                     new.value[x] = IF d.about # "friends" /\ x \in DOMAIN d.cells /\ ViewOf[FieldOf[x]] \in old.has
                                    THEN d.cells[x] ELSE old.value[x]
<1> DEFINE new == ApplyDelta(old, d)
<1>0. DOMAIN NoCopy = {"has", "value", "friends", "taken", "dropped", "twice"}
  BY DEF NoCopy
<1>1. CASE ViewOf[d.about] \notin old.has
  <2>1. new = old
    BY <1>1 DEF ApplyDelta
  <2> QED BY <1>1, <2>1
<1>2. CASE ViewOf[d.about] \in old.has /\ d.about = "friends"
  <2>1. DOMAIN new = DOMAIN old /\ new.has = old.has /\ new.value = old.value
    BY <1>0, <1>2 DEF ApplyDelta
  <2> QED BY <1>2, <2>1
<1>3. CASE ViewOf[d.about] \in old.has /\ d.about # "friends"
  <2>1. /\ DOMAIN new = DOMAIN old /\ new.has = old.has
        /\ new.value = [x \in Cells |-> IF x \in DOMAIN d.cells THEN d.cells[x] ELSE old.value[x]]
    BY <1>0, <1>3 DEF ApplyDelta
  <2> QED BY <1>3, <2>1
<1> QED BY <1>1, <1>2, <1>3

\* What a delta does to the copies.
LEMMA NotifyCopies ==
    ASSUME IInv, NEW t \in Threads, Notify(t)
    PROVE  LET d == pc[t].delta
           IN /\ d.about # "friends" => \A x \in DOMAIN d.cells :
                     /\ x \in Cells /\ FieldOf[x] = d.about /\ d.cells[x] \in Nat /\ d.cells[x] <= value[x]
                     /\ \A c \in Clients : copy[c].value[x] <= d.cells[x]
              /\ \A c \in Clients :
                     /\ DOMAIN copy'[c] = DOMAIN NoCopy /\ copy'[c].has = copy[c].has /\ copy'[c].value \in [Cells -> Nat]
                     /\ \A x \in Cells :
                            copy'[c].value[x] = IF c \in observers /\ d.about # "friends" /\ x \in DOMAIN d.cells
                                                   /\ ViewOf[FieldOf[x]] \in copy[c].has
                                                THEN d.cells[x] ELSE copy[c].value[x]
<1> DEFINE d == pc[t].delta
<1>1. At(t, "notify") /\ copy' = [c \in Clients |-> IF c \in observers THEN ApplyDelta(copy[c], d) ELSE copy[c]]
  BY DEF Notify
<1>2. d.about # "friends" => \A x \in DOMAIN d.cells :
          /\ x \in Cells /\ FieldOf[x] = d.about /\ d.cells[x] \in Nat /\ d.cells[x] <= value[x]
          /\ \A c \in Clients : copy[c].value[x] <= d.cells[x]
  BY <1>1 DEF IInv, Ordered
<1> HIDE DEF d
<1>3. ASSUME NEW c \in Clients
      PROVE  /\ DOMAIN copy'[c] = DOMAIN NoCopy /\ copy'[c].has = copy[c].has /\ copy'[c].value \in [Cells -> Nat]
             /\ \A x \in Cells :
                    copy'[c].value[x] = IF c \in observers /\ d.about # "friends" /\ x \in DOMAIN d.cells
                                           /\ ViewOf[FieldOf[x]] \in copy[c].has
                                        THEN d.cells[x] ELSE copy[c].value[x]
  <2>1. DOMAIN copy[c] = DOMAIN NoCopy /\ copy[c].value \in [Cells -> Nat]
    BY DEF IInv, TypeInv
  <2>2. CASE c \in observers
    <3>1. copy'[c] = ApplyDelta(copy[c], d)
      BY <1>1, <2>2
    <3> QED BY <1>2, <2>1, <2>2, <3>1, ApplyDeltaParts
  <2>3. CASE c \notin observers
    BY <1>1, <2>1, <2>3
  <2> QED BY <2>2, <2>3
<1> QED BY <1>2, <1>3 DEF d

\* The delta brings every observer with its view up to the moment it was built.
LEMMA NotifyStep ==
    ASSUME IInv, NEW t \in Threads, Notify(t)
    PROVE  IInv'
<1> DEFINE d == pc[t].delta
<1>1. /\ At(t, "notify") /\ lock' = None /\ Go(t, Idle)
      /\ copy' = [c \in Clients |-> IF c \in observers THEN ApplyDelta(copy[c], d) ELSE copy[c]]
      /\ UNCHANGED <<value, changed, friends, friendOps, observers, cache, queue, robbed>>
  BY DEF Notify, serverVars
<1>2. DOMAIN pc' = Threads /\ pc'[t] = Idle /\ \A u \in Threads : u # t => pc'[u] = pc[u]
  BY <1>1, GoesOn DEF IInv
<1>3. d.about # "friends" => \A x \in DOMAIN d.cells :
               /\ x \in Cells /\ FieldOf[x] = d.about /\ d.cells[x] \in Nat /\ d.cells[x] <= value[x]
               /\ \A c \in Clients : copy[c].value[x] <= d.cells[x]
  BY NotifyCopies
<1>4. \A c \in Clients :
          /\ DOMAIN copy'[c] = DOMAIN NoCopy /\ copy'[c].has = copy[c].has /\ copy'[c].value \in [Cells -> Nat]
          /\ \A x \in Cells :
                 copy'[c].value[x] = IF c \in observers /\ d.about # "friends" /\ x \in DOMAIN d.cells
                                        /\ ViewOf[FieldOf[x]] \in copy[c].has
                                     THEN d.cells[x] ELSE copy[c].value[x]
  BY NotifyCopies
<1> HIDE DEF d
<1>5. TypeInv'
  <2>1. pc'[t] \in ThreadState'
    BY <1>2 DEF ThreadState
  <2>2. \A u \in Threads : u # t => pc'[u] \in ThreadState' \/ pc'[u].at = "notify"
    BY <1>1, <1>2 DEF IInv, TypeInv, ThreadState, Event, At
  <2>3. \A c \in Clients : /\ DOMAIN copy'[c] = DOMAIN NoCopy
                           /\ copy'[c].has \subseteq Views /\ copy'[c].value \in [Cells -> Nat]
                           /\ copy'[c].has # {} => c \in observers
    BY <1>4 DEF IInv, TypeInv
  <2> QED BY <1>1, <1>2, <2>1, <2>2, <2>3 DEF IInv, TypeInv, Event, At
<1>6. \A u \in Threads : pc'[u].at \notin {"build", "notify", "baselines"}
  BY <1>1, <1>2 DEF IInv, Exclusive, At, Idle
<1>7. Exclusive'
  BY <1>1, <1>6, ReplicationAssumption DEF Exclusive
<1>8. Ordered'
  <2>1. \A x \in Cells : /\ \A c \in Clients : copy'[c].value[x] <= value'[x]
                         /\ \A j \in DOMAIN cache' : cache'[j].value[x] <= value'[x]
    BY <1>1, <1>3, <1>4 DEF IInv, Ordered
  <2> QED BY <1>6, <2>1 DEF Ordered, At
<1>9. Fresh'
  <2>1. \A x \in Cells : x \notin changed' => value'[x] = 0
    BY <1>1 DEF IInv, Fresh
  <2>2. ASSUME NEW c \in Clients, NEW x \in Cells, ViewOf[FieldOf[x]] \in copy'[c].has
        PROVE  copy'[c].value[x] = value'[x] \/ Pending(FieldOf[x])'
    <3>1. c \in observers /\ ViewOf[FieldOf[x]] \in copy[c].has
      BY <1>4, <2>2 DEF IInv, TypeInv
    <3>2. copy[c].value[x] = value[x] \/ Pending(FieldOf[x]) \/ Notified(x)
      BY <3>1 DEF IInv, Fresh
    <3>3. CASE copy[c].value[x] = value[x]
      <4>1. copy'[c].value[x] = value[x]
        BY <1>3, <1>4, <3>1, <3>3, ValueParts DEF IInv
      <4> QED BY <1>1, <4>1
    <3>4. CASE Pending(FieldOf[x])
      BY <1>1, <1>2, <3>4 DEF Pending, At
    <3>5. CASE Notified(x)
      <4>1. /\ d.about = FieldOf[x] /\ x \in DOMAIN d.cells /\ d.cells[x] = value[x]
        BY <1>1, <3>5 DEF Notified, IInv, Exclusive, At, d
      <4>2. d.about # "friends"
        BY <4>1, ReplicationAssumption
      <4> QED BY <1>1, <1>4, <3>1, <4>1, <4>2
    <3> QED BY <3>2, <3>3, <3>4, <3>5
  <2> QED BY <1>6, <2>1, <2>2 DEF Fresh, At
<1>10. Arrives'
  <2>1. \A c \in Clients : Coming(c) => Coming(c)'
    BY <1>1, <1>2, ComingKeeps DEF At
  <2> QED BY <1>1, <1>4, <2>1 DEF IInv, TypeInv, Arrives
<1> QED BY <1>5, <1>7, <1>8, <1>9, <1>10 DEF IInv

\* A baseline that has been built shows its view as it is now, and is the last of its view.
LEMMA BuildBaselineStep ==
    ASSUME IInv, NEW t \in Threads, BuildBaseline(t)
    PROVE  IInv'
<1> DEFINE v == ViewOrder[pc[t].built + 1]
           b == Baseline(v)
           n == Len(cache) + 1
<1>1. /\ At(t, "baselines") /\ pc[t].built < Len(ViewOrder) /\ cache' = Append(cache, b)
      /\ Go(t, [pc[t] EXCEPT !.built = @ + 1])
      /\ UNCHANGED <<value, changed, friends, friendOps, observers, queue, lock, copy, robbed>>
  BY DEF BuildBaseline, serverVars
<1>2. /\ pc[t] = [at |-> "baselines", for |-> pc[t].for, built |-> pc[t].built] /\ pc[t].for \in observers
      /\ pc[t].built \in Nat /\ Len(ViewOrder) \in Nat /\ pc[t].built + 1 \in 0 .. Len(ViewOrder)
  <2>1. /\ pc[t] = [at |-> "baselines", for |-> pc[t].for, built |-> pc[t].built] /\ pc[t].for \in observers
        /\ pc[t].built \in 0 .. Len(ViewOrder)
    BY <1>1, ThreadParts DEF IInv
  <2>2. Len(ViewOrder) \in Nat
    BY ReplicationAssumption
  <2> QED BY <1>1, <2>1, <2>2
<1>3. /\ DOMAIN pc' = Threads /\ pc'[t] = [at |-> "baselines", for |-> pc[t].for, built |-> pc[t].built + 1]
      /\ \A u \in Threads : u # t => pc'[u] = pc[u]
  <2>1. [pc[t] EXCEPT !.built = @ + 1] = [at |-> "baselines", for |-> pc[t].for, built |-> pc[t].built + 1]
    BY <1>2
  <2> QED BY <1>1, <2>1, GoesOn DEF IInv
<1>4. /\ b \in Entry /\ b.view = v /\ b.value = value
      /\ v \in Views
  <2>1. v \in Views
    BY <1>2, ReplicationAssumption
  <2> QED BY <2>1 DEF Baseline, Entry, IInv, TypeInv
<1>5. /\ cache' \in Seq(Entry) /\ DOMAIN cache = 1 .. Len(cache) /\ Len(cache) \in Nat /\ DOMAIN cache' = 1 .. n
      /\ \A j \in DOMAIN cache : cache'[j] = cache[j] /\ cache'[n] = b
      /\ n \in DOMAIN cache' /\ cache'[n] = b
  <2> DEFINE E == Entry
  <2>1. cache \in Seq(E) /\ b \in E
    BY <1>4 DEF IInv, TypeInv
  <2> HIDE DEF E, b
  <2>2. /\ cache' \in Seq(E) /\ DOMAIN cache = 1 .. Len(cache) /\ Len(cache) \in Nat /\ DOMAIN cache' = 1 .. n
        /\ \A j \in DOMAIN cache : cache'[j] = cache[j]
        /\ n \in DOMAIN cache' /\ cache'[n] = b
    BY <1>1, <2>1
  <2> QED BY <2>2 DEF E
<1> HIDE DEF b, v
<1>6. TypeInv'
  <2>1. pc'[t] \in ThreadState'
    BY <1>1, <1>2, <1>3 DEF ThreadState
  <2>2. \A u \in Threads : u # t => pc'[u] \in ThreadState' \/ pc'[u].at = "notify"
    BY <1>1, <1>3 DEF IInv, TypeInv, ThreadState, Event, At
  <2> QED BY <1>1, <1>3, <1>5, <2>1, <2>2 DEF IInv, TypeInv, Event, At
<1>7. \A u \in Threads : u # t => pc'[u].at \notin {"build", "notify", "baselines"}
  BY <1>1, <1>3 DEF IInv, Exclusive, At
<1>8. Exclusive'
  BY <1>1, <1>3, <1>7 DEF IInv, Exclusive, At
<1>9. Built(t)' = Built(t) \cup {v}
  <2>1. pc'[t].built = pc[t].built + 1 /\ pc[t].built \in Nat
    BY <1>2, <1>3
  <2>2. 1 .. pc[t].built + 1 = (1 .. pc[t].built) \cup {pc[t].built + 1}
    BY <2>1
  <2> QED BY <2>1, <2>2 DEF Built, v
<1>10. ASSUME NEW j \in DOMAIN cache', IsLast(j)', cache'[j].view \in Built(t)'
       PROVE  \/ cache'[j] = b
              \/ j \in DOMAIN cache /\ cache'[j] = cache[j] /\ IsLast(j) /\ cache[j].view \in Built(t)
  <2>1. CASE j = n
    BY <1>5, <2>1
  <2>2. CASE j # n
    <3>1. j \in DOMAIN cache /\ cache'[j] = cache[j] /\ j < n
      BY <1>5, <2>2
    <3>2. cache[j].view # v
      BY <1>4, <1>5, <1>10, <3>1 DEF IsLast
    <3>3. IsLast(j)
      BY <1>5, <1>10, <3>1 DEF IsLast
    <3> QED BY <1>9, <1>10, <3>1, <3>2, <3>3
  <2> QED BY <2>1, <2>2
<1>11. Ordered'
  <2>1. \A x \in Cells : /\ \A c \in Clients : copy'[c].value[x] <= value'[x]
                         /\ \A j \in DOMAIN cache' : cache'[j].value[x] <= value'[x]
    <3>1. \A j \in DOMAIN cache' : cache'[j] = b \/ (j \in DOMAIN cache /\ cache'[j] = cache[j])
      BY <1>5
    <3>2. \A x \in Cells : b.value[x] <= value[x]
      BY <1>4, ValueParts DEF IInv
    <3> QED BY <1>1, <3>1, <3>2 DEF IInv, Ordered
  <2>2. \A u \in Threads : ~At(u, "notify")'
    BY <1>3, <1>7 DEF At
  <2>3. ASSUME NEW u \in Threads, NEW j \in DOMAIN cache', At(u, "baselines")', IsLast(j)', cache'[j].view \in Built(u)',
               NEW x \in Cells, Shows(x, cache'[j].view), NEW c \in Clients
        PROVE  copy'[c].value[x] <= cache'[j].value[x]
    <3>1. u = t
      BY <1>7, <2>3 DEF At
    <3>2. CASE cache'[j] = b
      BY <1>1, <1>4, <3>2 DEF IInv, Ordered
    <3>3. CASE j \in DOMAIN cache /\ cache'[j] = cache[j] /\ IsLast(j) /\ cache[j].view \in Built(t)
      BY <1>1, <2>3, <3>3 DEF IInv, Ordered
    <3> QED BY <1>10, <2>3, <3>1, <3>2, <3>3
  <2> QED BY <2>1, <2>2, <2>3 DEF Ordered, Shows
<1>12. \A f : Pending(f) => Pending(f)'
  BY <1>1, <1>3 DEF Pending, At
<1>13. Fresh'
  <2>1. \A x \in Cells : x \notin changed' => value'[x] = 0
    BY <1>1 DEF IInv, Fresh
  <2>2. ASSUME NEW c \in Clients, NEW x \in Cells, ViewOf[FieldOf[x]] \in copy'[c].has
        PROVE  copy'[c].value[x] = value'[x] \/ Pending(FieldOf[x])'
    <3>1. copy[c].value[x] = value[x] \/ Pending(FieldOf[x]) \/ Notified(x)
      BY <1>1, <2>2 DEF IInv, Fresh
    <3>2. ~Notified(x)
      BY <1>1 DEF Notified, IInv, Exclusive, At
    <3> QED BY <1>1, <1>12, <3>1, <3>2
  <2>3. ASSUME NEW u \in Threads, NEW j \in DOMAIN cache', At(u, "baselines")', IsLast(j)', cache'[j].view \in Built(u)',
               NEW x \in Cells, Shows(x, cache'[j].view)
        PROVE  cache'[j].value[x] = value'[x] \/ Pending(FieldOf[x])'
    <3>1. u = t
      BY <1>7, <2>3 DEF At
    <3>2. CASE cache'[j] = b
      BY <1>1, <1>4, <3>2
    <3>3. CASE j \in DOMAIN cache /\ cache'[j] = cache[j] /\ IsLast(j) /\ cache[j].view \in Built(t)
      <4>1. cache[j].value[x] = value[x] \/ Pending(FieldOf[x])
        BY <1>1, <2>3, <3>3 DEF IInv, Fresh
      <4> QED BY <1>1, <1>12, <3>3, <4>1
    <3> QED BY <1>10, <2>3, <3>1, <3>2, <3>3
  <2> QED BY <2>1, <2>2, <2>3 DEF Fresh, Shows
<1>14. ASSUME NEW c \in Clients, Coming(c) PROVE Coming(c)'
  <2>1. CASE \E u \in Threads : pc[u].at \in {"clear", "create"} /\ pc[u].for = c
    BY <1>1, <1>3, <2>1 DEF Coming, At
  <2>2. CASE \E i \in DOMAIN queue : queue[i] = [about |-> "baselines", for |-> c]
    BY <1>1, <2>2 DEF Coming
  <2>3. CASE \E u \in Threads : At(u, "locking") /\ pc[u].event = [about |-> "baselines", for |-> c]
    BY <1>1, <1>3, <2>3 DEF Coming, At
  <2>4. ASSUME NEW u \in Threads, At(u, "baselines"), pc[u].for = c,
               \A w \in Built(u) : \E j \in DOMAIN cache : cache[j].view = w
        PROVE  Coming(c)'
    <3>1. u = t
      BY <1>1, <2>4 DEF IInv, Exclusive, At
    <3>2. \A w \in Built(t)' : \E j \in DOMAIN cache' : cache'[j].view = w
      <4> SUFFICES ASSUME NEW w \in Built(t)' PROVE \E j \in DOMAIN cache' : cache'[j].view = w
        OBVIOUS
      <4>1. CASE w = v
        BY <1>4, <1>5, <4>1
      <4>2. CASE w \in Built(t)
        BY <1>5, <2>4, <3>1, <4>2
      <4> QED BY <1>9, <4>1, <4>2
    <3>3. At(t, "baselines")' /\ pc'[t].for = c
      BY <1>3, <2>4, <3>1 DEF At
    <3> QED BY <3>2, <3>3 DEF Coming
  <2> QED BY <1>14, <2>1, <2>2, <2>3, <2>4 DEF Coming
<1>15. Arrives'
  BY <1>1, <1>14 DEF IInv, TypeInv, Arrives
<1> QED BY <1>6, <1>8, <1>11, <1>13, <1>15 DEF IInv

\* A set of positions has a largest.
LEMMA Largest ==
    ASSUME NEW n \in Nat, NEW I \in SUBSET (1 .. n), I # {}
    PROVE  \E m \in I : \A k \in I : m >= k
<1> DEFINE R == {p \in Nat \X Nat : p[1] < p[2]}
           T == {n - i : i \in I}
<1>1. IsWellFoundedOn(R, Nat)
  BY NatLessThanWellFounded DEF OpToRel
<1>2. T \subseteq Nat /\ T # {}
  <2>1. ASSUME NEW i \in I PROVE n - i \in Nat
    <3>1. i \in 1 .. n
      OBVIOUS
    <3> QED BY <3>1
  <2> QED BY <2>1
<1>3. \E m \in T : \A k \in T : <<k, m>> \notin R
  BY <1>1, <1>2, WFMin
<1>4. ASSUME NEW k \in Nat, NEW m \in Nat, <<k, m>> \notin R PROVE m <= k
  <2>1. CASE k < m
    <3>1. <<k, m>> \in Nat \X Nat /\ <<k, m>>[1] = k /\ <<k, m>>[2] = m
      OBVIOUS
    <3> QED BY <1>4, <2>1, <3>1
  <2>2. CASE ~(k < m)
    BY <2>2
  <2> QED BY <2>1, <2>2
<1>5. PICK m \in T : \A k \in T : m <= k
  BY <1>2, <1>3, <1>4
<1>6. PICK i \in I : m = n - i
  OBVIOUS
<1>7. ASSUME NEW k \in I PROVE i >= k
  <2>1. n - k \in T
    OBVIOUS
  <2>2. m <= n - k /\ i \in Nat /\ k \in Nat
    BY <1>5, <2>1
  <2> HIDE DEF T, R
  <2> QED BY <1>6, <2>2
<1> QED BY <1>7

\* A view in the cache has a last baseline.
LEMMA LastOfView ==
    ASSUME TypeInv, NEW v, \E k \in DOMAIN cache : cache[k].view = v
    PROVE  IsLast(LastOf(v)) /\ cache[LastOf(v)].view = v
<1> DEFINE I == {i \in 1 .. Len(cache) : cache[i].view = v}
           j == LastOf(v)
<1>1. Len(cache) \in Nat /\ DOMAIN cache = 1 .. Len(cache)
  <2> DEFINE E == Entry
  <2>1. cache \in Seq(E)
    BY DEF TypeInv
  <2> HIDE DEF E
  <2> QED BY <2>1
<1>2. I # {}
  BY <1>1
<1>3. j = Max(I)
  BY <1>2 DEF SelectLastInSeq, LastOf
<1> HIDE DEF j
<1>4. \E m \in I : \A i \in I : m >= i
  BY <1>1, <1>2, Largest
<1>5. j \in I /\ \A i \in I : j >= i
  BY <1>3, <1>4 DEF Max
<1> QED BY <1>1, <1>5 DEF IsLast, j

\* What the cache does to a copy.
LEMMA ReadParts ==
    ASSUME TypeInv, NEW old, DOMAIN old = DOMAIN NoCopy, old.value \in [Cells -> Nat]
    PROVE  LET new == ReadBaselines(old)
           IN /\ DOMAIN new = DOMAIN NoCopy /\ new.value \in [Cells -> Nat]
              /\ new.has = old.has \cup {cache[k].view : k \in DOMAIN cache}
              /\ \A x \in Cells :
                     \/ /\ ViewOf[FieldOf[x]] \notin {cache[k].view : k \in DOMAIN cache}
                        /\ new.value[x] = old.value[x]
                     \/ \E j \in DOMAIN cache : /\ IsLast(j) /\ Shows(x, cache[j].view)
                                                /\ new.value[x] = cache[j].value[x]
<1> DEFINE new == ReadBaselines(old)
           sent == {b.view : b \in ToSet(cache)}
           last(v) == cache[LastOf(v)]
           val == [x \in Cells |-> IF ViewOf[FieldOf[x]] \in sent THEN last(ViewOf[FieldOf[x]]).value[x] ELSE old.value[x]]
<1>1. sent = {cache[k].view : k \in DOMAIN cache}
  BY DEF ToSet
<1>2. DOMAIN new = DOMAIN old /\ new.has = old.has \cup sent /\ new.value = val
  <2> DEFINE w == [old EXCEPT !.has = @ \cup sent, !.value = val]
  <2>0. DOMAIN old = {"has", "value", "friends", "taken", "dropped", "twice"}
    BY DEF NoCopy
  <2>1. DOMAIN w = DOMAIN old /\ w.has = old.has \cup sent /\ w.value = val
    BY <2>0
  <2>2. new = IF ViewOf["friends"] \in sent
              THEN [w EXCEPT !.friends = last(ViewOf["friends"]).friends, !.dropped = {}, !.twice = FALSE,
                             !.taken = last(ViewOf["friends"]).ops]
              ELSE w
    BY DEF ReadBaselines
  <2> HIDE DEF w, val, sent, new, last
  <2> QED BY <2>0, <2>1, <2>2
<1> HIDE DEF new
<1>3. ASSUME NEW x \in Cells
      PROVE  \/ ViewOf[FieldOf[x]] \notin sent /\ val[x] = old.value[x]
             \/ \E j \in DOMAIN cache : IsLast(j) /\ Shows(x, cache[j].view) /\ val[x] = cache[j].value[x]
  <2>1. CASE ViewOf[FieldOf[x]] \notin sent
    BY <2>1
  <2>2. CASE ViewOf[FieldOf[x]] \in sent
    <3>1. PICK k \in DOMAIN cache : cache[k].view = ViewOf[FieldOf[x]]
      BY <1>1, <2>2
    <3> DEFINE j == LastOf(ViewOf[FieldOf[x]])
    <3>2. IsLast(j) /\ cache[j].view = ViewOf[FieldOf[x]]
      BY <3>1, LastOfView
    <3>3. val[x] = cache[j].value[x]
      BY <2>2
    <3> HIDE DEF j
    <3> QED BY <3>2, <3>3 DEF IsLast, Shows
  <2> QED BY <2>1, <2>2
<1>4. val \in [Cells -> Nat]
  <2>1. \A x \in Cells : val[x] \in Nat
    <3> HIDE DEF val
    <3> QED BY <1>3, ValueParts
  <2> QED BY <2>1
<1> HIDE DEF val, sent
<1> QED BY <1>1, <1>2, <1>3, <1>4 DEF new

\* What the baselines a handler sends do to the copies.
LEMMA SendCopies ==
    ASSUME IInv, NEW t \in Threads, SendBaselines(t)
    PROVE  /\ pc[t].for \in observers /\ DOMAIN copy' = Clients /\ Built(t) = Views
           /\ \A c \in Clients : c # pc[t].for => copy'[c] = copy[c]
           /\ LET old == copy[pc[t].for]
                  new == copy'[pc[t].for]
              IN /\ DOMAIN new = DOMAIN NoCopy /\ new.value \in [Cells -> Nat]
                 /\ new.has = old.has \cup {cache[k].view : k \in DOMAIN cache}
                 /\ \A x \in Cells :
                        \/ /\ ViewOf[FieldOf[x]] \notin {cache[k].view : k \in DOMAIN cache}
                           /\ new.value[x] = old.value[x]
                        \/ \E j \in DOMAIN cache :
                              /\ IsLast(j) /\ Shows(x, cache[j].view) /\ new.value[x] = cache[j].value[x]
                              /\ old.value[x] <= cache[j].value[x] /\ cache[j].value[x] <= value[x]
                              /\ cache[j].value[x] = value[x] \/ Pending(FieldOf[x])
<1> DEFINE d == pc[t].for
<1>1. At(t, "baselines") /\ pc[t].built = Len(ViewOrder) /\ copy' = [copy EXCEPT ![d] = ReadBaselines(@)]
  BY DEF SendBaselines
<1>2. d \in observers /\ d \in Clients
  BY <1>1, ThreadParts DEF IInv, TypeInv
<1>3. DOMAIN copy = Clients /\ DOMAIN copy[d] = DOMAIN NoCopy /\ copy[d].value \in [Cells -> Nat]
  BY <1>2 DEF IInv, TypeInv
<1>4. DOMAIN copy' = Clients /\ copy'[d] = ReadBaselines(copy[d]) /\ \A c \in Clients : c # d => copy'[c] = copy[c]
  BY <1>1, <1>2, <1>3
<1>5. Built(t) = Views
  BY <1>1, ReplicationAssumption DEF Built, Views
<1>6. ASSUME NEW j \in DOMAIN cache, IsLast(j), NEW x \in Cells, Shows(x, cache[j].view)
      PROVE  /\ copy[d].value[x] <= cache[j].value[x] /\ cache[j].value[x] <= value[x]
             /\ cache[j].value[x] = value[x] \/ Pending(FieldOf[x])
  <2>1. cache[j].view \in Built(t)
    BY <1>5, ValueParts DEF IInv
  <2>2. copy[d].value[x] <= cache[j].value[x]
    BY <1>1, <1>2, <1>6, <2>1 DEF IInv, Ordered
  <2>3. cache[j].value[x] <= value[x]
    BY DEF IInv, Ordered
  <2>4. cache[j].value[x] = value[x] \/ Pending(FieldOf[x])
    BY <1>1, <1>6, <2>1 DEF IInv, Fresh
  <2> QED BY <2>2, <2>3, <2>4
<1> HIDE DEF d
<1>7. /\ DOMAIN copy'[d] = DOMAIN NoCopy /\ copy'[d].value \in [Cells -> Nat]
      /\ copy'[d].has = copy[d].has \cup {cache[k].view : k \in DOMAIN cache}
      /\ \A x \in Cells :
             \/ /\ ViewOf[FieldOf[x]] \notin {cache[k].view : k \in DOMAIN cache}
                /\ copy'[d].value[x] = copy[d].value[x]
             \/ \E j \in DOMAIN cache : /\ IsLast(j) /\ Shows(x, cache[j].view)
                                        /\ copy'[d].value[x] = cache[j].value[x]
  BY <1>3, <1>4, ReadParts DEF IInv
<1>8. ASSUME NEW x \in Cells
      PROVE  \/ /\ ViewOf[FieldOf[x]] \notin {cache[k].view : k \in DOMAIN cache}
                /\ copy'[d].value[x] = copy[d].value[x]
             \/ \E j \in DOMAIN cache :
                   /\ IsLast(j) /\ Shows(x, cache[j].view) /\ copy'[d].value[x] = cache[j].value[x]
                   /\ copy[d].value[x] <= cache[j].value[x] /\ cache[j].value[x] <= value[x]
                   /\ cache[j].value[x] = value[x] \/ Pending(FieldOf[x])
  BY <1>6, <1>7
<1> QED BY <1>2, <1>4, <1>5, <1>7, <1>8 DEF d

\* The baselines show each view as it was built, under the lock the handler still has.
LEMMA SendBaselinesStep ==
    ASSUME IInv, NEW t \in Threads, SendBaselines(t)
    PROVE  IInv'
<1> DEFINE d == pc[t].for
           sent == {cache[k].view : k \in DOMAIN cache}
<1>1. /\ At(t, "baselines") /\ lock' = None /\ Go(t, Idle)
      /\ UNCHANGED <<value, changed, friends, friendOps, observers, cache, queue, robbed>>
  BY DEF SendBaselines, serverVars
<1>2. DOMAIN pc' = Threads /\ pc'[t] = Idle /\ \A u \in Threads : u # t => pc'[u] = pc[u]
  BY <1>1, GoesOn DEF IInv
<1>3. /\ d \in observers /\ DOMAIN copy' = Clients /\ Built(t) = Views /\ \A c \in Clients : c # d => copy'[c] = copy[c]
      /\ DOMAIN copy'[d] = DOMAIN NoCopy /\ copy'[d].value \in [Cells -> Nat] /\ copy'[d].has = copy[d].has \cup sent
  BY SendCopies
<1>4. \A x \in Cells :
          \/ ViewOf[FieldOf[x]] \notin sent /\ copy'[d].value[x] = copy[d].value[x]
          \/ \E j \in DOMAIN cache :
                 /\ copy'[d].value[x] = cache[j].value[x] /\ cache[j].value[x] <= value[x]
                 /\ cache[j].value[x] = value[x] \/ Pending(FieldOf[x])
  BY SendCopies
<1>5. sent \subseteq Views
  BY ValueParts DEF IInv
<1> HIDE DEF d, sent
<1>6. TypeInv'
  <2>1. pc'[t] \in ThreadState'
    BY <1>2 DEF ThreadState
  <2>2. \A u \in Threads : u # t => pc'[u] \in ThreadState' \/ pc'[u].at = "notify"
    BY <1>1, <1>2 DEF IInv, TypeInv, ThreadState, Event, At
  <2>3. \A c \in Clients : /\ DOMAIN copy'[c] = DOMAIN NoCopy
                           /\ copy'[c].has \subseteq Views /\ copy'[c].value \in [Cells -> Nat]
                           /\ copy'[c].has # {} => c \in observers
    BY <1>3, <1>5 DEF IInv, TypeInv
  <2> QED BY <1>1, <1>2, <1>3, <2>1, <2>2, <2>3 DEF IInv, TypeInv, Event, At
<1>7. \A u \in Threads : pc'[u].at \notin {"build", "notify", "baselines"}
  BY <1>1, <1>2 DEF IInv, Exclusive, At, Idle
<1>8. Exclusive'
  BY <1>1, <1>7, ReplicationAssumption DEF Exclusive
<1>9. Ordered'
  <2>1. \A x \in Cells : /\ \A c \in Clients : copy'[c].value[x] <= value'[x]
                         /\ \A j \in DOMAIN cache' : cache'[j].value[x] <= value'[x]
    BY <1>1, <1>3, <1>4 DEF IInv, TypeInv, Ordered
  <2> QED BY <1>7, <2>1 DEF Ordered, At
<1>10. \A f : Pending(f) => Pending(f)'
  BY <1>1, <1>2 DEF Pending, At
<1>11. Fresh'
  <2>1. \A x \in Cells : x \notin changed' => value'[x] = 0
    BY <1>1 DEF IInv, Fresh
  <2>2. ASSUME NEW c \in Clients, NEW x \in Cells, ViewOf[FieldOf[x]] \in copy'[c].has
        PROVE  copy'[c].value[x] = value'[x] \/ Pending(FieldOf[x])'
    <3>1. ViewOf[FieldOf[x]] \in copy[c].has => copy[c].value[x] = value[x] \/ Pending(FieldOf[x]) \/ Notified(x)
      BY DEF IInv, Fresh
    <3>2. ~Notified(x)
      BY <1>1 DEF Notified, IInv, Exclusive, At
    <3>3. copy'[c].value[x] = value[x] \/ Pending(FieldOf[x])
      <4>1. CASE c # d
        BY <1>3, <2>2, <3>1, <3>2, <4>1
      <4>2. CASE c = d /\ ViewOf[FieldOf[x]] \notin sent /\ copy'[d].value[x] = copy[d].value[x]
        BY <1>3, <2>2, <3>1, <3>2, <4>2
      <4>3. CASE c = d /\ \E j \in DOMAIN cache :
                     /\ copy'[d].value[x] = cache[j].value[x] /\ cache[j].value[x] <= value[x]
                     /\ cache[j].value[x] = value[x] \/ Pending(FieldOf[x])
        BY <4>3
      <4> QED BY <1>4, <4>1, <4>2, <4>3
    <3> QED BY <1>1, <1>10, <3>3
  <2> QED BY <1>7, <2>1, <2>2 DEF Fresh, At
<1>12. ASSUME NEW c \in Clients, Coming(c) PROVE Coming(c)' \/ (c = d /\ copy'[d].has = Views)
  <2>1. CASE \E u \in Threads : pc[u].at \in {"clear", "create"} /\ pc[u].for = c
    BY <1>1, <1>2, <2>1 DEF Coming, At
  <2>2. CASE \E i \in DOMAIN queue : queue[i] = [about |-> "baselines", for |-> c]
    BY <1>1, <2>2 DEF Coming
  <2>3. CASE \E u \in Threads : At(u, "locking") /\ pc[u].event = [about |-> "baselines", for |-> c]
    BY <1>1, <1>2, <2>3 DEF Coming, At
  <2>4. ASSUME NEW u \in Threads, At(u, "baselines"), pc[u].for = c,
               \A w \in Built(u) : \E j \in DOMAIN cache : cache[j].view = w
        PROVE  c = d /\ copy'[d].has = Views
    <3>1. u = t
      BY <1>1, <2>4 DEF IInv, Exclusive, At
    <3>2. Views \subseteq sent
      BY <1>3, <2>4, <3>1 DEF sent
    <3>3. copy[d].has \subseteq Views
      BY <1>3 DEF IInv, TypeInv
    <3> QED BY <1>3, <1>5, <2>4, <3>1, <3>2, <3>3 DEF d
  <2> QED BY <1>12, <2>1, <2>2, <2>3, <2>4 DEF Coming
<1>13. Arrives'
  <2> SUFFICES ASSUME NEW c \in observers, c \notin robbed PROVE copy'[c].has = Views \/ Coming(c)'
    BY <1>1 DEF Arrives
  <2>1. c \in Clients
    BY DEF IInv, TypeInv
  <2>2. copy[c].has = Views \/ Coming(c)
    BY DEF IInv, Arrives
  <2>3. CASE copy[c].has = Views
    BY <1>3, <1>5, <2>1, <2>3
  <2> QED BY <1>12, <2>1, <2>2, <2>3
<1> QED BY <1>6, <1>8, <1>9, <1>11, <1>13 DEF IInv

-----------------------------------------------------------------------------
(* The theorems *)

\* At first nothing is written, seen or under way.
LEMMA InitEstablishes == Init => IInv
<1> SUFFICES ASSUME Init PROVE IInv
  OBVIOUS
<1>1. /\ pc = [t \in Threads |-> Idle] /\ cache = <<>> /\ queue = <<>> /\ observers = {} /\ lock = None
      /\ value = [x \in Cells |-> 0] /\ copy = [c \in Clients |-> NoCopy]
  BY DEF Init
<1>2. NoCopy.has = {} /\ NoCopy.value \in [Cells -> Nat] /\ \A x \in Cells : NoCopy.value[x] = 0
  BY DEF NoCopy
<1>3. TypeInv
  <2>1. friends \in Seq(Names) /\ friendOps \in Nat /\ changed \subseteq Cells
    BY DEF Init
  <2>2. cache \in Seq(Entry) /\ queue \in Seq(Event)
    BY <1>1
  <2>3. \A t \in Threads : pc[t] \in ThreadState
    BY <1>1 DEF ThreadState
  <2> QED BY <1>1, <1>2, <2>1, <2>2, <2>3 DEF TypeInv
<1>4. \A t \in Threads : pc[t].at = "idle"
  BY <1>1 DEF Idle
<1>5. Exclusive
  BY <1>1, <1>4, ReplicationAssumption DEF Exclusive
<1>6. Ordered
  BY <1>1, <1>2, <1>4 DEF Ordered, At
<1>7. Fresh
  BY <1>1, <1>2, <1>4 DEF Fresh, At
<1>8. Arrives
  BY <1>1 DEF Arrives
<1> QED BY <1>3, <1>5, <1>6, <1>7, <1>8 DEF IInv

\* A step that changes nothing changes no part of the invariant.
LEMMA StutterStep == ASSUME IInv, UNCHANGED vars PROVE IInv'
<1>1. /\ UNCHANGED <<value, changed, friends, friendOps, observers, cache, queue, lock, pc, copy, robbed>>
  BY DEF vars, serverVars, sendVars
<1>2. TypeInv' /\ Exclusive'
  BY <1>1 DEF IInv, TypeInv, Exclusive, ThreadState, Event, At
<1>3. (\A f : Pending(f) => Pending(f)') /\ (\A c : Coming(c) => Coming(c)') /\ (\A x \in Cells : Notified(x) => Notified(x)')
  BY <1>1 DEF Pending, Coming, Notified, At, Built
<1>4. Ordered'
  BY <1>1, OrderedKeeps, ValueParts DEF IInv
<1>5. Fresh'
  BY <1>1, <1>3, FreshSame DEF IInv
<1>6. Arrives'
  BY <1>1, <1>3 DEF IInv, Arrives
<1> QED BY <1>2, <1>4, <1>5, <1>6 DEF IInv

\* Every step of every thread keeps the invariant.
LEMMA StepPreserves == IInv /\ [Next]_vars => IInv'
<1> SUFFICES ASSUME IInv, [Next]_vars PROVE IInv'
  OBVIOUS
<1>1. ASSUME NEW t \in Threads, Continue(t) PROVE IInv'
  BY <1>1, DispatchStep, ClearBaselinesStep, CreateOnClientStep, TakeEventStep, InvokeCallbacksStep, SkipDeltaStep,
     BuildDeltaStep, NotifyStep, BuildBaselineStep, SendBaselinesStep DEF Continue
<1>2. ASSUME NEW t \in Threads, NEW n \in Names, AddFriend(t, n) \/ RemoveFriend(t, n) PROVE IInv'
  BY <1>2, AddFriendStep, RemoveFriendStep
<1> QED BY <1>1, <1>2, StoreStep, SubscribeStep, StutterStep DEF Next

\* For any clients, fields, views and threads: once every event has been handled each
\* observer shows the object as it is, and has every view unless it was robbed
\* (Object::AddDeltasUpdate, EventDispatcher::InvokeCallbacks, ClearBaselines).
THEOREM SettledTheorem == Spec => []SettledViewsAgree
<1>1. IInv => SettledViewsAgree
  <2> SUFFICES ASSUME IInv, Quiet, NEW c \in observers
               PROVE  /\ c \notin robbed => copy[c].has = Views
                      /\ \A x \in Cells : ViewOf[FieldOf[x]] \in copy[c].has => copy[c].value[x] = value[x]
    BY DEF SettledViewsAgree
  <2>1. queue = <<>> /\ \A t \in Threads : pc[t].at = "idle"
    BY DEF Quiet, At
  <2>2. c \in Clients
    BY DEF IInv, TypeInv
  <2>3. ~Coming(c)
    BY <2>1 DEF Coming, At
  <2>4. \A x \in Cells : ~Pending(FieldOf[x]) /\ ~Notified(x)
    BY <2>1 DEF Pending, Notified, At
  <2> QED BY <2>2, <2>3, <2>4 DEF IInv, Arrives, Fresh
<1> QED BY InitEstablishes, StepPreserves, <1>1, PTL DEF Spec

\* What each client is shown, as ReplicatedValue sees it.
Seen == [c \in Clients |-> [x \in Cells |-> IF ViewOf[FieldOf[x]] \in copy[c].has THEN copy[c].value[x] + 1 ELSE 0]]

\* A step that takes no view away from a client and sets nothing back shows what the server has.
LEMMA ShowStep ==
    ASSUME TypeInv, TypeInv', UNCHANGED value,
           \A c \in Clients, x \in Cells : /\ copy[c].has \subseteq copy'[c].has
                                           /\ copy[c].value[x] <= copy'[c].value[x] /\ copy'[c].value[x] <= value[x]
    PROVE  Shown!Show
<1>1. ASSUME NEW c \in Clients, NEW x \in Cells PROVE Seen'[c][x] \in Seen[c][x] .. value[x] + 1
  <2>1. copy[c].value[x] \in Nat /\ copy'[c].value[x] \in Nat /\ value[x] \in Nat
    BY DEF TypeInv
  <2>2. /\ Seen[c][x] = IF ViewOf[FieldOf[x]] \in copy[c].has THEN copy[c].value[x] + 1 ELSE 0
        /\ Seen'[c][x] = IF ViewOf[FieldOf[x]] \in copy'[c].has THEN copy'[c].value[x] + 1 ELSE 0
    BY DEF Seen
  <2>3. copy[c].has \subseteq copy'[c].has /\ copy[c].value[x] <= copy'[c].value[x] /\ copy'[c].value[x] <= value[x]
    OBVIOUS
  <2> QED BY <2>1, <2>2, <2>3
<1> QED BY <1>1 DEF Seen, Shown!Show

\* Every step shows something, writes, creates the object anew on a client, or is none to
\* ReplicatedValue.
LEMMA StepShows == IInv /\ IInv' /\ [Next]_vars => [Shown!Next]_<<value, Seen>>
<1> SUFFICES ASSUME IInv, IInv', [Next]_vars PROVE [Shown!Next]_<<value, Seen>>
  OBVIOUS
<1>1. CASE UNCHANGED <<value, copy>>
  BY <1>1 DEF Seen
<1>2. ASSUME NEW t \in Threads, NEW y \in Cells, Store(t, y) PROVE Shown!Next
  <2>1. value' = [value EXCEPT ![y] = @ + 1] /\ UNCHANGED copy
    BY <1>2 DEF Store
  <2> QED BY <2>1 DEF Shown!Next, Shown!Write
<1>3. ASSUME NEW t \in Threads, CreateOnClient(t) PROVE Shown!Next
  <2>1. copy' = [copy EXCEPT ![pc[t].for] = NoCopy] /\ UNCHANGED value
    BY <1>3 DEF CreateOnClient, serverVars
  <2>2. pc[t].for \in Clients
    BY <1>3, ThreadParts DEF CreateOnClient, IInv, TypeInv, At
  <2>3. /\ copy'[pc[t].for].has = {}
        /\ \A c \in Clients : c # pc[t].for => copy'[c] = copy[c]
    BY <2>1, <2>2 DEF IInv, TypeInv, NoCopy
  <2>4. Seen' = [Seen EXCEPT ![pc[t].for] = [x \in Cells |-> 0]]
    BY <2>2, <2>3 DEF Seen
  <2>5. \E c \in Clients : Seen' = [Seen EXCEPT ![c] = [x \in Cells |-> 0]] /\ UNCHANGED value
    BY <2>1, <2>2, <2>4
  <2> QED BY <2>5 DEF Shown!Next, Shown!Forget, Seen
<1>4. ASSUME NEW t \in Threads, Notify(t) PROVE Shown!Next
  <2>1. ASSUME NEW c \in Clients, NEW x \in Cells
        PROVE  /\ copy[c].has \subseteq copy'[c].has
               /\ copy[c].value[x] <= copy'[c].value[x] /\ copy'[c].value[x] <= value[x]
    BY <1>4, NotifyCopies, ValueParts DEF IInv, Ordered
  <2>2. UNCHANGED value
    BY <1>4 DEF Notify, serverVars
  <2> QED BY <2>1, <2>2, ShowStep DEF IInv, Shown!Next
<1>5. ASSUME NEW t \in Threads, SendBaselines(t) PROVE Shown!Next
  <2>1. ASSUME NEW c \in Clients, NEW x \in Cells
        PROVE  /\ copy[c].has \subseteq copy'[c].has
               /\ copy[c].value[x] <= copy'[c].value[x] /\ copy'[c].value[x] <= value[x]
    <3>1. copy[c].value[x] \in Nat /\ copy[c].value[x] <= value[x]
      BY ValueParts DEF IInv, Ordered
    <3>2. CASE c # pc[t].for
      BY <1>5, <3>1, <3>2, SendCopies
    <3>3. CASE c = pc[t].for
      BY <1>5, <3>1, <3>3, SendCopies
    <3> QED BY <3>2, <3>3
  <2>2. UNCHANGED value
    BY <1>5 DEF SendBaselines, serverVars
  <2> QED BY <2>1, <2>2, ShowStep DEF IInv, Shown!Next
<1>6. ASSUME NEW t \in Threads, Continue(t) PROVE UNCHANGED <<value, copy>> \/ Shown!Next
  BY <1>3, <1>4, <1>5, <1>6 DEF Continue, Dispatch, ClearBaselines, TakeEvent, InvokeCallbacks, SkipDelta, BuildDelta,
     BuildBaseline, serverVars
<1>7. ASSUME NEW t \in Threads, NEW n \in Names, AddFriend(t, n) \/ RemoveFriend(t, n) PROVE UNCHANGED <<value, copy>>
  BY <1>7 DEF AddFriend, RemoveFriend
<1>8. ASSUME NEW t \in Threads, NEW c \in Clients, Subscribe(t, c) PROVE UNCHANGED <<value, copy>>
  BY <1>8 DEF Subscribe, serverVars
<1>9. CASE UNCHANGED vars
  BY <1>1, <1>9 DEF vars, serverVars
<1> QED BY <1>1, <1>2, <1>6, <1>7, <1>8, <1>9 DEF Next

\* For any clients, fields, views and threads a client is never shown a value the server has
\* not had, nor an older one than before: the dispatcher's lock keeps what is sent in order.
THEOREM ShownTheorem == Spec => NeverShowsOlder
<1>1. Init => Shown!Init
  BY DEF Init, NoCopy, Shown!Init
<1>2. IInv /\ IInv' /\ [Next]_vars => [Shown!Next]_<<value, [c \in Clients |-> [x \in Cells |->
          IF ViewOf[FieldOf[x]] \in copy[c].has THEN copy[c].value[x] + 1 ELSE 0]]>>
  BY StepShows DEF Seen
<1> QED BY InitEstablishes, StepPreserves, <1>1, <1>2, PTL DEF Spec, NeverShowsOlder, Shown!Spec

-----------------------------------------------------------------------------
(* The friends list: the invariant *)

\* What the list has recorded: at most one removal, the last there was, and every addition
\* since, each at the position it still has.
Entries == [index : Nat, op : Nat]
RemovedOp == IF pendingRemoved = <<>> THEN 0 ELSE pendingRemoved[1].op
Kept == Len(friends) - Len(pendingAdded)
Recorded ==
    /\ pendingAdded \in Seq(Entries) /\ pendingRemoved \in Seq(Entries)
    /\ Len(pendingRemoved) <= 1 /\ Kept \in Nat
    /\ friendOps = RemovedOp + Len(pendingAdded)
    /\ pendingRemoved = <<>> => Kept = 0
    /\ pendingRemoved # <<>> => RemovedOp >= 1 /\ pendingRemoved[1].index >= 1
    /\ \A i \in 1 .. Len(pendingAdded) : pendingAdded[i] = [index |-> Kept + i, op |-> RemovedOp + i]

\* A list that has taken in the operations taken, and no removal twice.  It was told of the
\* last removal with all that came before it or not at all; what it has when it knows the
\* operations up to some point is the list of that moment.
Prefix(m) == SubSeq(friends, 1, m)
Agrees(list, taken) ==
    /\ taken \subseteq 1 .. friendOps
    /\ RemovedOp = 0 => \E m \in 0 .. friendOps : taken = 1 .. m
    /\ RemovedOp # 0 /\ RemovedOp \notin taken => taken \subseteq 1 .. RemovedOp - 1
    /\ \A m \in RemovedOp .. friendOps : taken = 1 .. m => list = Prefix(Len(friends) - (friendOps - m))
    /\ RemovedOp # 0 /\ taken = 1 .. RemovedOp - 1 =>
           /\ pendingRemoved[1].index <= Len(list)
           /\ RemoveAt(list, pendingRemoved[1].index) = Prefix(Kept)

Consistent(cp) == ViewOf["friends"] \in cp.has /\ ~cp.twice => Agrees(cp.friends, cp.taken)

\* Every copy is consistent, will be when the delta under way reaches it, and would be with
\* any baseline of the cache.
Listed ==
    /\ Recorded
    /\ \A c \in Clients : Consistent(copy[c])
    /\ \A t \in Threads : At(t, "notify") => \A c \in Clients : Consistent(ApplyDelta(copy[c], pc[t].delta))
    /\ \A j \in DOMAIN cache : Agrees(cache[j].friends, cache[j].ops)

-----------------------------------------------------------------------------
(* Sequences *)

\* Induction over the naturals, as membership in a set.
LEMMA Induction ==
    ASSUME NEW T, 0 \in T, \A n \in Nat : n \in T => n + 1 \in T
    PROVE  \A n \in Nat : n \in T
<1> DEFINE S == {n \in Nat : n \notin T}
<1> SUFFICES ASSUME S # {} PROVE FALSE
  OBVIOUS
<1>1. PICK n \in S : \A m \in S : ~(<<m, n>> \in OpToRel(<, Nat))
  BY NatLessThanWellFounded, WFMin
<1>2. \A m \in S : ~(m < n)
  BY <1>1 DEF OpToRel
<1>3. n # 0 /\ n - 1 \in Nat /\ n - 1 \notin S
  BY <1>2
<1> QED BY <1>2, <1>3

\* f holds the list before and after each of the first n entries.
After(list, entries, f, n) ==
    f = [k \in 0 .. n |->
            IF k = 0 THEN list
            ELSE IF "name" \in DOMAIN entries[k] THEN Put(f[k - 1], entries[k]) ELSE Drop(f[k - 1], entries[k])]

LEMMA AfterExists ==
    ASSUME NEW list, NEW entries
    PROVE  \A n \in Nat : \E f : After(list, entries, f, n)
<1> DEFINE T == {n \in Nat : \E f : After(list, entries, f, n)}
           Change(l, k) == IF "name" \in DOMAIN entries[k] THEN Put(l, entries[k]) ELSE Drop(l, entries[k])
<1>1. 0 \in T
  <2>1. After(list, entries, [k \in 0 .. 0 |-> list], 0)
    BY DEF After
  <2> QED BY <2>1
<1>2. ASSUME NEW n \in Nat, n \in T PROVE n + 1 \in T
  <2>1. PICK f : After(list, entries, f, n)
    BY <1>2
  <2>2. f = [k \in 0 .. n |-> IF k = 0 THEN list ELSE Change(f[k - 1], k)]
    BY <2>1 DEF After
  <2> HIDE DEF Change
  <2> DEFINE g == [k \in 0 .. n + 1 |-> IF k <= n THEN f[k] ELSE Change(f[n], k)]
  <2>3. ASSUME NEW k \in 0 .. n + 1
        PROVE  g[k] = IF k = 0 THEN list ELSE Change(g[k - 1], k)
    <3>1. CASE k <= n
      <4>1. k \in 0 .. n /\ (k # 0 => k - 1 \in 0 .. n)
        BY <3>1
      <4>2. f[k] = IF k = 0 THEN list ELSE Change(f[k - 1], k)
        BY <2>2, <4>1
      <4> QED BY <4>1, <4>2
    <3>2. CASE k = n + 1
      BY <3>2
    <3> QED BY <3>1, <3>2
  <2>4. g = [k \in 0 .. n + 1 |-> IF k = 0 THEN list ELSE Change(g[k - 1], k)]
    BY <2>3
  <2>5. After(list, entries, g, n + 1)
    BY <2>4 DEF After, Change
  <2> QED BY <2>5
<1> HIDE DEF T
<1>3. \A n \in Nat : n \in T
  BY <1>1, <1>2, Induction
<1> QED BY <1>3 DEF T

\* The entries of a delta are applied one after the other.
LEMMA AppliedSteps ==
    ASSUME NEW list, NEW entries, Len(entries) \in Nat
    PROVE  \E f : /\ f[0] = list /\ Applied(list, entries) = f[Len(entries)]
                  /\ \A k \in 1 .. Len(entries) :
                        f[k] = IF "name" \in DOMAIN entries[k] THEN Put(f[k - 1], entries[k])
                                                               ELSE Drop(f[k - 1], entries[k])
<1> DEFINE n == Len(entries)
           f == CHOOSE f : After(list, entries, f, n)
<1>1. \E g : After(list, entries, g, n)
  BY AfterExists
<1>2. After(list, entries, f, n)
  BY <1>1
<1>3. Applied(list, entries) = f[n]
  BY DEF Applied, After
<1> HIDE DEF f
<1>4. f[0] = list /\ \A k \in 1 .. n : f[k] = IF "name" \in DOMAIN entries[k] THEN Put(f[k - 1], entries[k])
                                                                              ELSE Drop(f[k - 1], entries[k])
  BY <1>2 DEF After
<1> QED BY <1>3, <1>4

\* The first names of a list.
LEMMA PrefixParts ==
    ASSUME NEW S, NEW list \in Seq(S), NEW m \in 0 .. Len(list)
    PROVE  /\ SubSeq(list, 1, m) \in Seq(S) /\ Len(SubSeq(list, 1, m)) = m
           /\ \A i \in 1 .. m : SubSeq(list, 1, m)[i] = list[i]
<1>1. Len(list) \in Nat /\ DOMAIN list = 1 .. Len(list) /\ \A i \in 1 .. m : list[i] \in S
  BY LenProperties, ElementOfSeq
<1> QED BY <1>1, SubSeqProperties

\* A list with those names is that prefix.
LEMMA PrefixIs ==
    ASSUME NEW S, NEW list \in Seq(S), NEW m \in 0 .. Len(list), NEW l \in Seq(S), Len(l) = m,
           \A i \in 1 .. m : l[i] = list[i]
    PROVE  l = SubSeq(list, 1, m)
<1>1. \A i \in 1 .. m : l[i] = SubSeq(list, 1, m)[i]
  BY PrefixParts
<1> QED BY <1>1, PrefixParts, SeqEqual

\* Putting the name the list has at the next position, or at one it holds already, leaves
\* the first names of the list.
LEMMA PutPrefix ==
    ASSUME NEW S, NEW list \in Seq(S), NEW m \in 0 .. Len(list), NEW e,
           e.index \in 1 .. m + 1, e.index <= Len(list), e.name = list[e.index]
    PROVE  \E k \in 0 .. Len(list) : /\ Put(SubSeq(list, 1, m), e) = SubSeq(list, 1, k)
                                     /\ k >= m /\ k >= e.index
<1> DEFINE l == SubSeq(list, 1, m)
<1>1. Len(list) \in Nat /\ l \in Seq(S) /\ Len(l) = m /\ DOMAIN l = 1 .. m /\ \A i \in 1 .. m : l[i] = list[i]
  BY PrefixParts, LenProperties
<1>2. list[e.index] \in S
  BY <1>1, ElementOfSeq
<1> HIDE DEF l
<1>3. CASE e.index <= m
  <2>1. Put(l, e) = [l EXCEPT ![e.index] = list[e.index]]
    BY <1>1, <1>3 DEF Put
  <2>2. Put(l, e) = l
    BY <1>1, <1>3, <2>1
  <2> QED BY <1>3, <2>2 DEF l
<1>4. CASE e.index = m + 1
  <2>1. Put(l, e) = Append(l, list[m + 1])
    BY <1>1, <1>4 DEF Put
  <2>2. /\ Append(l, list[m + 1]) \in Seq(S) /\ Len(Append(l, list[m + 1])) = m + 1
        /\ \A i \in 1 .. m : Append(l, list[m + 1])[i] = l[i]
        /\ Append(l, list[m + 1])[m + 1] = list[m + 1]
    <3> DEFINE x == list[m + 1]
    <3>1. x \in S
      BY <1>2, <1>4
    <3> HIDE DEF x
    <3>2. /\ Append(l, x) \in Seq(S) /\ Len(Append(l, x)) = m + 1
          /\ \A i \in 1 .. m : Append(l, x)[i] = l[i]
          /\ Append(l, x)[m + 1] = x
      BY <1>1, <3>1, AppendProperties
    <3> QED BY <3>2 DEF x
  <2>3. m + 1 \in 0 .. Len(list)
    BY <1>1, <1>4
  <2>4. Append(l, list[m + 1]) = SubSeq(list, 1, m + 1)
    <3> DEFINE p == Append(l, list[m + 1])
    <3>1. \A i \in 1 .. m + 1 : p[i] = list[i]
      BY <1>1, <2>2
    <3>2. p \in Seq(S) /\ Len(p) = m + 1
      BY <2>2
    <3> HIDE DEF p
    <3>3. p = SubSeq(list, 1, m + 1)
      BY <2>3, <3>1, <3>2, PrefixIs
    <3> QED BY <3>3 DEF p
  <2>5. Put(l, e) = SubSeq(list, 1, m + 1) /\ m + 1 >= m /\ m + 1 >= e.index
    BY <1>1, <1>4, <2>1, <2>4
  <2> QED BY <2>3, <2>5 DEF l
<1>5. e.index <= m \/ e.index = m + 1
  OBVIOUS
<1> QED BY <1>3, <1>4, <1>5 DEF l

\* Putting in turn every name from position base + 1 on completes a list that has the first
\* base names at least.
Fills(list, base, b, f, at, e) ==
    /\ f[at] = SubSeq(list, 1, b)
    /\ \A k \in 1 .. Len(list) - base :
           /\ f[at + k] = Put(f[at + k - 1], e[k])
           /\ e[k].index = base + k /\ e[k].name = list[base + k]

LEMMA PutsComplete ==
    ASSUME NEW S, NEW list \in Seq(S), NEW base \in 0 .. Len(list), NEW f, NEW at \in Nat, NEW e,
           NEW b \in base .. Len(list), Fills(list, base, b, f, at, e)
    PROVE  f[at + (Len(list) - base)] = list
<1>0. Len(list) \in Nat
  BY LenProperties
<1> DEFINE T == {k \in Nat : k <= Len(list) - base =>
                    \E m \in base + k .. Len(list) : f[at + k] = SubSeq(list, 1, m)}
<1>1. 0 \in T
  <2>1. at + 0 = at /\ b \in base + 0 .. Len(list) /\ f[at] = SubSeq(list, 1, b)
    BY <1>0 DEF Fills
  <2> QED BY <2>1
<1>2. ASSUME NEW k \in Nat, k \in T PROVE k + 1 \in T
  <2> SUFFICES ASSUME k + 1 <= Len(list) - base
               PROVE  \E m \in base + (k + 1) .. Len(list) : f[at + (k + 1)] = SubSeq(list, 1, m)
    OBVIOUS
  <2>1. PICK m \in base + k .. Len(list) : f[at + k] = SubSeq(list, 1, m)
    BY <1>0, <1>2
  <2>2. k + 1 \in 1 .. Len(list) - base /\ at + (k + 1) - 1 = at + k
    BY <1>0
  <2>3. /\ f[at + (k + 1)] = Put(f[at + k], e[k + 1])
        /\ e[k + 1].index = base + (k + 1) /\ e[k + 1].name = list[base + (k + 1)]
    BY <2>2 DEF Fills
  <2> DEFINE x == e[k + 1]
  <2>4. m \in 0 .. Len(list) /\ x.index \in 1 .. m + 1 /\ x.index <= Len(list) /\ x.name = list[x.index]
    BY <1>0, <2>3
  <2> HIDE DEF x
  <2>5. PICK j \in 0 .. Len(list) : Put(SubSeq(list, 1, m), x) = SubSeq(list, 1, j) /\ j >= m /\ j >= x.index
    BY <2>4, PutPrefix
  <2>6. j \in base + (k + 1) .. Len(list) /\ f[at + (k + 1)] = SubSeq(list, 1, j)
    BY <1>0, <2>1, <2>3, <2>5 DEF x
  <2> QED BY <2>6
<1> HIDE DEF T
<1>3. \A k \in Nat : k \in T
  BY <1>1, <1>2, Induction
<1>4. Len(list) - base \in Nat /\ Len(list) - base \in T
  BY <1>0, <1>3
<1>5. PICK m \in base + (Len(list) - base) .. Len(list) : f[at + (Len(list) - base)] = SubSeq(list, 1, m)
  BY <1>0, <1>4 DEF T
<1>6. m = Len(list)
  BY <1>0, <1>5
<1>7. list = SubSeq(list, 1, Len(list))
  BY <1>0, PrefixIs
<1> QED BY <1>5, <1>6, <1>7

-----------------------------------------------------------------------------
(* The friends list: its operations *)

\* The numbers the record speaks of.
LEMMA RecordedParts ==
    ASSUME TypeInv, Recorded
    PROVE  /\ friends \in Seq(Names) /\ Len(friends) \in Nat /\ Len(pendingAdded) \in Nat /\ Kept \in Nat
           /\ Len(friends) = Kept + Len(pendingAdded)
           /\ RemovedOp \in Nat /\ friendOps \in Nat /\ friendOps = RemovedOp + Len(pendingAdded)
           /\ RemovedOp = 0 <=> pendingRemoved = <<>>
           /\ pendingRemoved # <<>> => /\ pendingRemoved = <<pendingRemoved[1]>> /\ pendingRemoved[1] \in Entries
                                       /\ RemovedOp = pendingRemoved[1].op
<1>1. friends \in Seq(Names) /\ friendOps \in Nat
  BY DEF TypeInv
<1>2. Len(friends) \in Nat
  BY <1>1, LenProperties
<1>3. pendingAdded \in Seq(Entries) /\ pendingRemoved \in Seq(Entries) /\ Len(pendingRemoved) <= 1 /\ Kept \in Nat
  BY DEF Recorded
<1> HIDE DEF Entries
<1>4. Len(pendingAdded) \in Nat /\ Len(pendingRemoved) \in Nat
  BY <1>3, LenProperties
<1>5. pendingRemoved # <<>> => pendingRemoved = <<pendingRemoved[1]>> /\ pendingRemoved[1] \in Entries
  <2> SUFFICES ASSUME pendingRemoved # <<>>
               PROVE  pendingRemoved = <<pendingRemoved[1]>> /\ pendingRemoved[1] \in Entries
    OBVIOUS
  <2>0. Len(pendingRemoved) \in Nat \ {0}
    BY <1>3, EmptySeq
  <2>1. Len(pendingRemoved) <= 1
    BY <1>3
  <2>4. Len(pendingRemoved) = 1
    <3> DEFINE n == Len(pendingRemoved)
    <3>1. n \in Nat \ {0} /\ n <= 1
      BY <2>0, <2>1
    <3> HIDE DEF n
    <3>2. n = 1
      BY <3>1
    <3> QED BY <3>2 DEF n
  <2>2. pendingRemoved[1] \in Entries
    BY <1>3, <2>4, ElementOfSeq
  <2>3. <<pendingRemoved[1]>> \in Seq(Entries) /\ Len(<<pendingRemoved[1]>>) = 1 /\ <<pendingRemoved[1]>>[1] = pendingRemoved[1]
    BY <2>2
  <2> QED BY <1>3, <2>2, <2>3, <2>4, SeqEqual
<1>6. pendingRemoved # <<>> => RemovedOp = pendingRemoved[1].op /\ pendingRemoved[1].op \in Nat
  BY <1>5 DEF RemovedOp, Entries
<1>7. pendingRemoved = <<>> => RemovedOp = 0
  BY DEF RemovedOp
<1>8. pendingRemoved # <<>> => RemovedOp >= 1
  BY DEF Recorded
<1>9. Len(friends) = Kept + Len(pendingAdded) /\ friendOps = RemovedOp + Len(pendingAdded)
  BY <1>2, <1>4 DEF Recorded, Kept
<1>10. RemovedOp \in Nat
  BY <1>6, <1>7
<1> QED BY <1>1, <1>2, <1>3, <1>4, <1>5, <1>6, <1>7, <1>8, <1>9, <1>10

\* What is true of the list stays true while nobody writes it.
LEMMA ListSame ==
    ASSUME Recorded, UNCHANGED <<friends, pendingAdded, pendingRemoved, friendOps>>
    PROVE  Recorded' /\ \A list, taken : Agrees(list, taken) => Agrees(list, taken)'
<1>1. RemovedOp' = RemovedOp /\ Kept' = Kept
  BY DEF RemovedOp, Kept
<1>2. Recorded'
  BY <1>1 DEF Recorded, Entries
<1>3. \A list, taken : Agrees(list, taken) => Agrees(list, taken)'
  BY <1>1 DEF Agrees, Prefix
<1> QED BY <1>2, <1>3

\* The first names of a list are those of the longer one.
LEMMA PrefixAppend ==
    ASSUME NEW S, NEW list \in Seq(S), NEW x \in S, NEW m \in 0 .. Len(list)
    PROVE  SubSeq(Append(list, x), 1, m) = SubSeq(list, 1, m)
<1> DEFINE longer == Append(list, x)
           p == SubSeq(longer, 1, m)
<1>1. Len(list) \in Nat
  BY LenProperties
<1>2. longer \in Seq(S) /\ Len(longer) = Len(list) + 1 /\ \A i \in 1 .. Len(list) : longer[i] = list[i]
  BY AppendProperties
<1> HIDE DEF longer
<1>3. m \in 0 .. Len(longer)
  BY <1>1, <1>2
<1>4. p \in Seq(S) /\ Len(p) = m /\ \A i \in 1 .. m : p[i] = longer[i]
  BY <1>2, <1>3, PrefixParts
<1>5. \A i \in 1 .. m : p[i] = list[i]
  BY <1>1, <1>2, <1>4
<1> HIDE DEF p
<1>6. p = SubSeq(list, 1, m)
  BY <1>4, <1>5, PrefixIs
<1> QED BY <1>6 DEF p, longer

\* An addition leaves what was true of the list that every client has (Player::AddFriend).
LEMMA AddFriendList ==
    ASSUME TypeInv, Recorded, NEW t \in Threads, NEW n \in Names, AddFriend(t, n)
    PROVE  Recorded' /\ \A list, taken : Agrees(list, taken) => Agrees(list, taken)'
<1>1. CASE n \in ToSet(friends)
  <2>1. UNCHANGED <<friends, pendingAdded, pendingRemoved, friendOps>>
    BY <1>1 DEF AddFriend
  <2> QED BY <2>1, ListSame
<1>2. CASE n \notin ToSet(friends)
  <2>1. /\ friends' = Append(friends, n) /\ friendOps' = friendOps + 1 /\ pendingRemoved' = pendingRemoved
        /\ pendingAdded' = Append(pendingAdded, [index |-> Len(friends'), op |-> friendOps'])
    BY <1>2 DEF AddFriend
  <2>2. /\ friends \in Seq(Names) /\ Len(friends) \in Nat /\ Len(pendingAdded) \in Nat /\ Kept \in Nat
        /\ Len(friends) = Kept + Len(pendingAdded)
        /\ RemovedOp \in Nat /\ friendOps \in Nat /\ friendOps = RemovedOp + Len(pendingAdded)
    BY RecordedParts
  <2>3. Len(friends') = Len(friends) + 1
    BY <2>1, <2>2, AppendProperties
  <2> DEFINE e == [index |-> Len(friends'), op |-> friendOps']
  <2>4. e \in Entries /\ e = [index |-> Len(friends) + 1, op |-> friendOps + 1]
    BY <2>1, <2>2, <2>3 DEF Entries
  <2>5. pendingAdded' = Append(pendingAdded, e) /\ pendingAdded \in Seq(Entries)
    BY <2>1 DEF Recorded
  <2> HIDE DEF e
  <2>6. /\ pendingAdded' \in Seq(Entries) /\ Len(pendingAdded') = Len(pendingAdded) + 1
        /\ pendingAdded'[Len(pendingAdded) + 1] = e
        /\ \A i \in 1 .. Len(pendingAdded) : pendingAdded'[i] = pendingAdded[i]
    BY <2>4, <2>5, AppendProperties
  <2>7. RemovedOp' = RemovedOp /\ Kept' = Kept
    BY <2>1, <2>2, <2>3, <2>6 DEF RemovedOp, Kept
  <2>8. \A i \in 1 .. Len(pendingAdded') : pendingAdded'[i] = [index |-> Kept + i, op |-> RemovedOp + i]
    <3> SUFFICES ASSUME NEW i \in 1 .. Len(pendingAdded')
                 PROVE  pendingAdded'[i] = [index |-> Kept + i, op |-> RemovedOp + i]
      OBVIOUS
    <3>1. CASE i = Len(pendingAdded) + 1
      BY <2>2, <2>4, <2>6, <3>1
    <3>2. CASE i \in 1 .. Len(pendingAdded)
      BY <2>6, <3>2 DEF Recorded
    <3> QED BY <2>2, <2>6, <3>1, <3>2
  <2>9. Recorded'
    <3>1. /\ pendingRemoved' \in Seq(Entries) /\ Len(pendingRemoved') <= 1 /\ Kept' \in Nat
          /\ pendingRemoved' = <<>> => Kept' = 0
          /\ pendingRemoved' # <<>> => RemovedOp' >= 1 /\ pendingRemoved'[1].index >= 1
      BY <2>1, <2>7 DEF Recorded
    <3>2. friendOps' = RemovedOp' + Len(pendingAdded')
      BY <2>1, <2>2, <2>6, <2>7
    <3> QED BY <2>6, <2>7, <2>8, <3>1, <3>2 DEF Recorded, Entries
  <2>10. ASSUME NEW list, NEW taken, Agrees(list, taken) PROVE Agrees(list, taken)'
    <3>0. taken \subseteq 1 .. friendOps
      BY <2>10 DEF Agrees
    <3>1. taken \subseteq 1 .. friendOps'
      BY <2>1, <2>2, <3>0
    <3>2. RemovedOp = 0 => \E m \in 0 .. friendOps' : taken = 1 .. m
      <4> SUFFICES ASSUME RemovedOp = 0 PROVE \E m \in 0 .. friendOps' : taken = 1 .. m
        OBVIOUS
      <4>1. PICK m \in 0 .. friendOps : taken = 1 .. m
        BY <2>10 DEF Agrees
      <4> QED BY <2>1, <2>2, <4>1
    <3>3. ASSUME NEW m \in RemovedOp .. friendOps', taken = 1 .. m
          PROVE  list = SubSeq(friends', 1, Len(friends') - (friendOps' - m))
      <4>1. m # friendOps + 1
        BY <2>2, <3>0, <3>3
      <4>2. m \in RemovedOp .. friendOps
        BY <2>1, <2>2, <4>1
      <4>3. list = SubSeq(friends, 1, Len(friends) - (friendOps - m))
        BY <2>10, <3>3, <4>2 DEF Agrees, Prefix
      <4>4. Len(friends) - (friendOps - m) \in 0 .. Len(friends)
        BY <2>2, <4>2
      <4>5. Len(friends') - (friendOps' - m) = Len(friends) - (friendOps - m)
        BY <2>1, <2>2, <2>3, <4>2
      <4> QED BY <2>1, <2>2, <4>3, <4>4, <4>5, PrefixAppend
    <3>4. SubSeq(friends', 1, Kept) = SubSeq(friends, 1, Kept)
      <4>1. Kept \in 0 .. Len(friends)
        BY <2>2
      <4> QED BY <2>1, <2>2, <4>1, PrefixAppend
    <3>5. RemovedOp # 0 /\ RemovedOp \notin taken => taken \subseteq 1 .. RemovedOp - 1
      BY <2>10 DEF Agrees
    <3>6. RemovedOp # 0 /\ taken = 1 .. RemovedOp - 1 =>
              /\ pendingRemoved[1].index <= Len(list)
              /\ RemoveAt(list, pendingRemoved[1].index) = SubSeq(friends', 1, Kept)
      BY <2>10, <3>4 DEF Agrees, Prefix
    <3> QED BY <2>1, <2>7, <3>1, <3>2, <3>3, <3>5, <3>6 DEF Agrees, Prefix
  <2> QED BY <2>9, <2>10
<1> QED BY <1>1, <1>2

\* Removing one name leaves one name less.
LEMMA RemoveAtParts ==
    ASSUME NEW S, NEW list \in Seq(S), NEW i \in 1 .. Len(list)
    PROVE  RemoveAt(list, i) \in Seq(S) /\ Len(RemoveAt(list, i)) = Len(list) - 1
<1> DEFINE low == SubSeq(list, 1, i - 1)
           high == SubSeq(list, i + 1, Len(list))
<1>1. Len(list) \in Nat /\ \A k \in 1 .. Len(list) : list[k] \in S
  BY LenProperties, ElementOfSeq
<1>2. low \in Seq(S) /\ Len(low) = i - 1
  BY <1>1, SubSeqProperties
<1>3. high \in Seq(S) /\ Len(high) = Len(list) - i
  BY <1>1, SubSeqProperties
<1>4. RemoveAt(list, i) = low \o high
  BY DEF RemoveAt
<1> HIDE DEF low, high
<1>5. low \o high \in Seq(S) /\ Len(low \o high) = Len(low) + Len(high)
  BY <1>2, <1>3, ConcatProperties
<1> QED BY <1>1, <1>2, <1>3, <1>4, <1>5

\* A removal: whoever knew the list as it was is one position away from the list as it is
\* (Player::RemoveFriend).
LEMMA RemoveFriendList ==
    ASSUME TypeInv, Recorded, NEW t \in Threads, NEW n \in Names, RemoveFriend(t, n)
    PROVE  Recorded' /\ \A list, taken : Agrees(list, taken) => Agrees(list, taken)'
<1>1. PICK i \in DOMAIN friends : /\ friends' = RemoveAt(friends, i)
                                  /\ pendingRemoved' = <<[index |-> i, op |-> friendOps + 1]>>
  BY DEF RemoveFriend
<1>2. pendingAdded' = <<>> /\ friendOps' = friendOps + 1
  BY DEF RemoveFriend
<1>3. /\ friends \in Seq(Names) /\ Len(friends) \in Nat /\ DOMAIN friends = 1 .. Len(friends)
      /\ RemovedOp \in Nat /\ friendOps \in Nat /\ RemovedOp <= friendOps
  BY RecordedParts, LenProperties
<1>4. friends' \in Seq(Names) /\ Len(friends') = Len(friends) - 1 /\ Len(friends') \in Nat
  <2>1. i \in 1 .. Len(friends)
    BY <1>3
  <2>2. RemoveAt(friends, i) \in Seq(Names) /\ Len(RemoveAt(friends, i)) = Len(friends) - 1
    BY <1>3, <2>1, RemoveAtParts
  <2> QED BY <1>1, <1>3, <2>1, <2>2
<1>5. /\ pendingRemoved' \in Seq(Entries) /\ pendingRemoved' # <<>> /\ Len(pendingRemoved') = 1
      /\ pendingRemoved'[1] = [index |-> i, op |-> friendOps + 1]
  BY <1>1, <1>3 DEF Entries
<1>6. RemovedOp' = friendOps + 1 /\ Kept' = Len(friends')
  BY <1>2, <1>4, <1>5 DEF RemovedOp, Kept
<1>7. Recorded'
  <2>1. pendingAdded' \in Seq(Entries) /\ Len(pendingAdded') = 0
    BY <1>2
  <2> QED BY <1>2, <1>3, <1>4, <1>5, <1>6, <2>1 DEF Recorded, Entries
<1>8. ASSUME NEW list, NEW taken, Agrees(list, taken) PROVE Agrees(list, taken)'
  <2>1. taken \subseteq 1 .. friendOps
    BY <1>8 DEF Agrees
  <2>2. taken \subseteq 1 .. friendOps' /\ taken \subseteq 1 .. RemovedOp' - 1 /\ RemovedOp' # 0
    BY <1>2, <1>3, <1>6, <2>1
  <2>3. ASSUME NEW m \in RemovedOp' .. friendOps' PROVE taken # 1 .. m
    BY <1>2, <1>3, <1>6, <2>1
  <2>4. ASSUME taken = 1 .. RemovedOp' - 1
        PROVE  i <= Len(list) /\ RemoveAt(list, i) = SubSeq(friends', 1, Kept')
    <3>1. taken = 1 .. friendOps /\ friendOps \in RemovedOp .. friendOps
      BY <1>3, <1>6, <2>4
    <3>2. list = SubSeq(friends, 1, Len(friends) - (friendOps - friendOps))
      BY <1>8, <3>1 DEF Agrees, Prefix
    <3>3. Len(friends) - (friendOps - friendOps) = Len(friends)
      BY <1>3
    <3>4. friends = SubSeq(friends, 1, Len(friends)) /\ friends' = SubSeq(friends', 1, Len(friends'))
      BY <1>3, <1>4, PrefixIs
    <3>5. list = friends
      BY <3>2, <3>3, <3>4
    <3> QED BY <1>1, <1>3, <1>6, <3>4, <3>5
  <2> QED BY <1>5, <2>2, <2>3, <2>4 DEF Agrees, Prefix
<1> QED BY <1>7, <1>8

\* The operations a delta of the list carries.
PendingOps == {e.op : e \in ToSet(pendingRemoved) \cup ToSet(pendingAdded)}

LEMMA PendingOpsAre ==
    ASSUME TypeInv, Recorded
    PROVE  LET d == Delta("friends")
           IN /\ PendingOps = (IF RemovedOp = 0 THEN {} ELSE {RemovedOp}) \cup RemovedOp + 1 .. friendOps
              /\ {e.op : e \in ToSet(d.removed) \cup ToSet(d.added)} = PendingOps
              /\ {e.op : e \in ToSet(d.removed)} = IF RemovedOp = 0 THEN {} ELSE {RemovedOp}
<1> DEFINE R == pendingRemoved
           A == pendingAdded
           a == Len(A)
           base == Kept
           d == Delta("friends")
<1>1. /\ friends \in Seq(Names) /\ Len(friends) \in Nat /\ a \in Nat /\ base \in Nat
      /\ Len(friends) = base + a
      /\ RemovedOp \in Nat /\ friendOps \in Nat /\ friendOps = RemovedOp + a
      /\ RemovedOp = 0 <=> R = <<>>
      /\ R # <<>> => R = <<R[1]>> /\ R[1] \in Entries /\ RemovedOp = R[1].op
  BY RecordedParts
<1>2. \A i \in 1 .. a : A[i] = [index |-> base + i, op |-> RemovedOp + i]
  BY DEF Recorded
<1>3. DOMAIN A = 1 .. a
  BY LenProperties DEF Recorded
<1>4. d.removed = R
  BY DEF Delta
<1>5. d.added = [i \in 1 .. a |-> [index |-> base + i, op |-> RemovedOp + i, name |-> friends[base + i]]]
  BY <1>2, <1>3 DEF Delta
<1> HIDE DEF d, a, base
<1>6. {e.op : e \in ToSet(R)} = IF RemovedOp = 0 THEN {} ELSE {RemovedOp}
  <2>1. ToSet(R) = IF R = <<>> THEN {} ELSE {R[1]}
    BY <1>1 DEF ToSet
  <2> QED BY <1>1, <2>1
<1>7. {RemovedOp + i : i \in 1 .. a} = RemovedOp + 1 .. friendOps
  <2>1. ASSUME NEW k \in RemovedOp + 1 .. friendOps PROVE k \in {RemovedOp + i : i \in 1 .. a}
    <3>1. k - RemovedOp \in 1 .. a /\ k = RemovedOp + (k - RemovedOp)
      BY <1>1
    <3> QED BY <3>1
  <2> QED BY <1>1, <2>1
<1>8. {e.op : e \in ToSet(A)} = {RemovedOp + i : i \in 1 .. a}
  <2>1. ASSUME NEW i \in 1 .. a PROVE A[i] \in ToSet(A) /\ A[i].op = RemovedOp + i
    BY <1>2, <1>3 DEF ToSet
  <2>2. ASSUME NEW e \in ToSet(A) PROVE \E i \in 1 .. a : e.op = RemovedOp + i
    BY <1>2, <1>3 DEF ToSet
  <2> QED BY <2>1, <2>2
<1>9. {e.op : e \in ToSet(d.added)} = {RemovedOp + i : i \in 1 .. a}
  <2>1. ASSUME NEW i \in 1 .. a PROVE d.added[i] \in ToSet(d.added) /\ d.added[i].op = RemovedOp + i
    BY <1>5 DEF ToSet
  <2>2. ASSUME NEW e \in ToSet(d.added) PROVE \E i \in 1 .. a : e.op = RemovedOp + i
    BY <1>5 DEF ToSet
  <2> QED BY <2>1, <2>2
<1>10. /\ PendingOps = {e.op : e \in ToSet(R)} \cup {e.op : e \in ToSet(A)}
       /\ {e.op : e \in ToSet(d.removed) \cup ToSet(d.added)} = {e.op : e \in ToSet(d.removed)} \cup {e.op : e \in ToSet(d.added)}
  BY DEF PendingOps
<1> HIDE DEF R, A
<1>11. /\ PendingOps = (IF RemovedOp = 0 THEN {} ELSE {RemovedOp}) \cup RemovedOp + 1 .. friendOps
       /\ {e.op : e \in ToSet(d.removed) \cup ToSet(d.added)} = PendingOps
       /\ {e.op : e \in ToSet(d.removed)} = IF RemovedOp = 0 THEN {} ELSE {RemovedOp}
  BY <1>4, <1>6, <1>7, <1>8, <1>9, <1>10
<1> QED BY <1>11 DEF d

\* The delta of the moment brings a list that agrees, and has not taken in its removal, up
\* to the list as it is.
LEMMA DeltaCompletes ==
    ASSUME TypeInv, Recorded, NEW list, NEW taken, Agrees(list, taken),
           RemovedOp # 0 => RemovedOp \notin taken,
           NEW m \in Nat, taken \cup PendingOps = 1 .. m
    PROVE  Applied(list, Delta("friends").removed \o Delta("friends").added) = friends /\ m = friendOps
<1> DEFINE R == pendingRemoved
           A == pendingAdded
           added == Delta("friends").added
           entries == R \o added
           a == Len(A)
           base == Kept
<1>1. /\ friends \in Seq(Names) /\ Len(friends) \in Nat /\ a \in Nat /\ base \in Nat
      /\ Len(friends) = base + a
      /\ RemovedOp \in Nat /\ friendOps \in Nat /\ friendOps = RemovedOp + a
      /\ RemovedOp = 0 <=> R = <<>>
      /\ R # <<>> => R = <<R[1]>> /\ R[1] \in Entries /\ RemovedOp = R[1].op
  BY RecordedParts
<1>2. \A i \in 1 .. a : A[i] = [index |-> base + i, op |-> RemovedOp + i]
  BY DEF Recorded
<1>3. DOMAIN A = 1 .. a
  BY LenProperties DEF Recorded
<1>4. Delta("friends").removed = R
  BY DEF Delta
<1>5. added = [i \in 1 .. a |-> [index |-> base + i, op |-> RemovedOp + i, name |-> friends[base + i]]]
  BY <1>2, <1>3 DEF Delta
<1>6. PendingOps = (IF R = <<>> THEN {} ELSE {RemovedOp}) \cup RemovedOp + 1 .. friendOps
  BY <1>1, PendingOpsAre
<1> HIDE DEF added
<1>7. /\ added \in Seq([index : Nat, op : Nat, name : Names]) /\ Len(added) = a
  <2>1. \A i \in 1 .. a : friends[base + i] \in Names
    <3> SUFFICES ASSUME NEW i \in 1 .. a PROVE friends[base + i] \in Names
      OBVIOUS
    <3>1. base + i \in 1 .. Len(friends)
      BY <1>1
    <3> QED BY <1>1, <3>1, ElementOfSeq
  <2>2. \A i \in 1 .. a : base + i \in Nat /\ RemovedOp + i \in Nat
    BY <1>1
  <2>3. added \in [1 .. a -> [index : Nat, op : Nat, name : Names]]
    BY <1>5, <2>1, <2>2
  <2> DEFINE X == [index : Nat, op : Nat, name : Names]
  <2> HIDE DEF X
  <2>4. added \in [1 .. a -> X]
    BY <2>3 DEF X
  <2>5. added \in Seq(X) /\ Len(added) = a
    BY <1>1, <2>4
  <2> QED BY <2>5 DEF X
<1>8. DOMAIN added = 1 .. a /\ \A i \in 1 .. a : /\ "name" \in DOMAIN added[i]
                                                 /\ added[i].index = base + i /\ added[i].name = friends[base + i]
  BY <1>5
<1> HIDE DEF a, base, R, A
\* The entries: the removal if there is one, and the additions.
<1>9. PICK f : /\ f[0] = list /\ Applied(list, entries) = f[Len(entries)]
               /\ \A k \in 1 .. Len(entries) :
                     f[k] = IF "name" \in DOMAIN entries[k] THEN Put(f[k - 1], entries[k])
                                                            ELSE Drop(f[k - 1], entries[k])
  <2> DEFINE X == [index : Nat, op : Nat, name : Names]
             Y == Entries \cup X
  <2>1. R \in Seq(Entries) /\ added \in Seq(X)
    BY <1>7 DEF Recorded, R
  <2> HIDE DEF X
  <2>2. R \in Seq(Y) /\ added \in Seq(Y)
    <3>1. Entries \subseteq Y /\ X \subseteq Y
      OBVIOUS
    <3> HIDE DEF Y
    <3> QED BY <2>1, <3>1
  <2> HIDE DEF Y
  <2>3. Len(entries) \in Nat
    BY <2>2, ConcatProperties, LenProperties
  <2> HIDE DEF entries
  <2> QED BY <2>3, AppliedSteps
<1> HIDE DEF entries
\* Without a removal it has the first names, with one it has them after it.
<1>10. CASE R = <<>>
  <2>1. entries = added /\ Len(entries) = a
    BY <1>7, <1>10 DEF entries
  <2>2. PICK k \in 0 .. friendOps : taken = 1 .. k
    BY <1>1, <1>10 DEF Agrees
  <2>3. base = 0 /\ friendOps = a /\ Len(friends) = a /\ RemovedOp = 0
    BY <1>1, <1>10 DEF Recorded, base, R
  <2>4. list = SubSeq(friends, 1, k)
    <3>1. list = Prefix(Len(friends) - (friendOps - k))
      BY <1>1, <2>2, <2>3 DEF Agrees
    <3>2. Len(friends) - (friendOps - k) = k
      BY <1>1, <2>3, <2>2
    <3> QED BY <3>1, <3>2 DEF Prefix
  <2>5. 1 .. k \cup 1 .. friendOps = 1 .. m
    BY <1>1, <1>6, <1>10, <2>2, <2>3 DEF R, A
  <2>6. m = friendOps
    <3>1. 1 .. friendOps = 1 .. m
      BY <1>1, <2>2, <2>5
    <3> QED BY <1>1, <3>1
  <2> DEFINE at == 0
  <2>7. \A j \in 1 .. Len(friends) - base :
            /\ f[at + j] = Put(f[at + j - 1], added[j])
            /\ added[j].index = base + j /\ added[j].name = friends[base + j]
    BY <1>1, <1>8, <1>9, <2>1, <2>3
  <2>8. k \in base .. Len(friends) /\ base \in 0 .. Len(friends) /\ f[at] = SubSeq(friends, 1, k)
    BY <1>1, <1>9, <2>2, <2>3, <2>4
  <2>9. at \in Nat /\ at + (Len(friends) - base) = Len(entries)
    BY <1>1, <2>1, <2>3
  <2> HIDE DEF at
  <2>10. f[at + (Len(friends) - base)] = friends
    <3>1. Fills(friends, base, k, f, at, added)
      BY <2>7, <2>8 DEF Fills
    <3> QED BY <1>1, <2>8, <2>9, <3>1, PutsComplete
  <2>11. Applied(list, entries) = friends
    BY <1>9, <2>9, <2>10
  <2> QED BY <1>4, <2>6, <2>11 DEF entries, added
<1>11. CASE R # <<>>
  <2> DEFINE r == R[1]
  <2>1. R = <<r>> /\ r \in Entries /\ RemovedOp = r.op /\ RemovedOp # 0
    BY <1>1, <1>11
  <2>2. RemovedOp \notin taken /\ taken \subseteq 1 .. RemovedOp - 1
    BY <2>1 DEF Agrees
  <2>3. taken \cup RemovedOp .. friendOps = 1 .. m
    <3>1. {RemovedOp} \cup RemovedOp + 1 .. friendOps = RemovedOp .. friendOps
      BY <1>1
    <3> QED BY <1>6, <1>11, <3>1 DEF R, A
  <2>4. m = friendOps /\ taken = 1 .. RemovedOp - 1
    <3>1. RemovedOp \in 1 .. friendOps /\ friendOps \in RemovedOp .. friendOps
      BY <1>1, <2>1
    <3>2. friendOps \in 1 .. m
      BY <2>3, <3>1
    <3>3. m \in taken \cup RemovedOp .. friendOps
      BY <1>1, <2>3, <3>2
    <3>4. m = friendOps
      BY <1>1, <2>2, <3>1, <3>2, <3>3
    <3>5. ASSUME NEW k \in 1 .. RemovedOp - 1 PROVE k \in taken
      <4>1. k \in 1 .. m /\ k \notin RemovedOp .. friendOps
        BY <1>1, <3>4
      <4> QED BY <2>3, <4>1
    <3> QED BY <2>2, <3>4, <3>5
  <2>5. r.index <= Len(list) /\ RemoveAt(list, r.index) = SubSeq(friends, 1, base)
    BY <2>1, <2>4 DEF Agrees, Prefix, base, R
  <2>6. /\ Len(entries) = a + 1 /\ entries[1] = r
        /\ \A j \in 1 .. a : entries[1 + j] = added[j]
    <3> DEFINE X == [index : Nat, op : Nat, name : Names]
               Y == Entries \cup X
    <3>1. added \in Seq(X) /\ Len(added) = a
      BY <1>7
    <3> HIDE DEF X
    <3>2. added \in Seq(Y) /\ <<r>> \in Seq(Y) /\ Len(<<r>>) = 1 /\ <<r>>[1] = r
      <4>1. X \subseteq Y /\ r \in Y
        BY <2>1
      <4> HIDE DEF Y, r
      <4> QED BY <3>1, <4>1
    <3>3. entries = <<r>> \o added
      BY <2>1 DEF entries
    <3> HIDE DEF Y, r
    <3>4. /\ Len(entries) = Len(<<r>>) + Len(added)
          /\ \A i \in 1 .. Len(<<r>>) + Len(added) :
                 entries[i] = IF i <= Len(<<r>>) THEN <<r>>[i] ELSE added[i - Len(<<r>>)]
      BY <3>2, <3>3, ConcatProperties
    <3>5. /\ Len(entries) = a + 1
          /\ \A i \in 1 .. a + 1 : entries[i] = IF i <= 1 THEN r ELSE added[i - 1]
      BY <1>1, <3>1, <3>2, <3>4
    <3>6. ASSUME NEW j \in 1 .. a PROVE entries[1 + j] = added[j]
      <4>1. 1 + j \in 1 .. a + 1 /\ ~(1 + j <= 1) /\ (1 + j) - 1 = j
        BY <1>1
      <4> QED BY <3>5, <4>1
    <3> QED BY <1>1, <3>5, <3>6
  <2> HIDE DEF r
  <2>7. f[1] = SubSeq(friends, 1, base)
    <3>1. "name" \notin DOMAIN r
      BY <2>1 DEF Entries
    <3>2. f[1] = Drop(f[0], r)
      <4>1. 1 \in 1 .. Len(entries) /\ 1 - 1 = 0
        BY <1>1, <2>6
      <4>2. f[1] = IF "name" \in DOMAIN entries[1] THEN Put(f[1 - 1], entries[1]) ELSE Drop(f[1 - 1], entries[1])
        BY <1>9, <4>1
      <4> QED BY <2>6, <3>1, <4>1, <4>2
    <3> QED BY <1>9, <2>5, <3>2 DEF Drop
  <2> DEFINE at == 1
  <2>8. \A j \in 1 .. Len(friends) - base :
            /\ f[at + j] = Put(f[at + j - 1], added[j])
            /\ added[j].index = base + j /\ added[j].name = friends[base + j]
    <3> SUFFICES ASSUME NEW j \in 1 .. Len(friends) - base
                 PROVE  /\ f[1 + j] = Put(f[1 + j - 1], added[j])
                        /\ added[j].index = base + j /\ added[j].name = friends[base + j]
      OBVIOUS
    <3>0. j \in 1 .. a
      BY <1>1
    <3> DEFINE k == 1 + j
    <3>1. k \in 1 .. Len(entries) /\ entries[k] = added[j]
      <4>1. 1 + j \in 1 .. a + 1
        BY <1>1, <3>0
      <4> QED BY <2>6, <3>0, <4>1
    <3> HIDE DEF k
    <3>2. f[k] = Put(f[k - 1], added[j])
      <4>1. "name" \in DOMAIN entries[k]
        BY <1>8, <3>0, <3>1
      <4>2. f[k] = IF "name" \in DOMAIN entries[k] THEN Put(f[k - 1], entries[k]) ELSE Drop(f[k - 1], entries[k])
        BY <1>9, <3>1
      <4> QED BY <3>1, <4>1, <4>2
    <3> QED BY <1>8, <3>0, <3>2 DEF k
  <2>9. /\ at \in Nat /\ at + (Len(friends) - base) = Len(entries)
        /\ base \in 0 .. Len(friends) /\ base \in base .. Len(friends) /\ f[at] = SubSeq(friends, 1, base)
    BY <1>1, <2>6, <2>7
  <2> HIDE DEF at
  <2>10. f[at + (Len(friends) - base)] = friends
    <3>1. Fills(friends, base, base, f, at, added)
      BY <2>8, <2>9 DEF Fills
    <3> QED BY <1>1, <2>9, <3>1, PutsComplete
  <2>11. Applied(list, entries) = friends
    BY <1>9, <2>9, <2>10
  <2> QED BY <1>4, <2>4, <2>11 DEF entries, added
<1> QED BY <1>10, <1>11

\* A copy is consistent after the delta of the moment, if it was before (Player::AddFriend,
\* RemoveFriend, PlayerMessageBuilder::BuildFriendsDelta).
LEMMA DeltaConsistent ==
    ASSUME TypeInv, Recorded, NEW cp, DOMAIN cp = DOMAIN NoCopy, Consistent(cp), NEW f \in About
    PROVE  Consistent(ApplyDelta(cp, Delta(f)))
<1> DEFINE new == ApplyDelta(cp, Delta(f))
<1>0. DOMAIN cp = {"has", "value", "friends", "taken", "dropped", "twice"}
  BY DEF NoCopy
<1>1. Delta(f).about = f
  BY DEF Delta
<1>2. CASE ViewOf[f] \notin cp.has
  BY <1>1, <1>2 DEF ApplyDelta
<1>3. CASE ViewOf[f] \in cp.has /\ f # "friends"
  <2>1. new.has = cp.has /\ new.friends = cp.friends /\ new.taken = cp.taken /\ new.twice = cp.twice
    BY <1>0, <1>1, <1>3 DEF ApplyDelta
  <2> QED BY <2>1 DEF Consistent
<1>4. CASE ViewOf[f] \in cp.has /\ f = "friends"
  <2> DEFINE d == Delta("friends")
  <2>1. /\ friends \in Seq(Names) /\ Len(friends) \in Nat /\ Len(pendingAdded) \in Nat
        /\ RemovedOp \in Nat /\ friendOps \in Nat /\ friendOps = RemovedOp + Len(pendingAdded)
        /\ RemovedOp = 0 <=> pendingRemoved = <<>>
        /\ pendingRemoved # <<>> => pendingRemoved = <<pendingRemoved[1]>> /\ RemovedOp = pendingRemoved[1].op
    BY RecordedParts
  <2>2. /\ PendingOps = (IF RemovedOp = 0 THEN {} ELSE {RemovedOp}) \cup RemovedOp + 1 .. friendOps
        /\ {e.op : e \in ToSet(d.removed) \cup ToSet(d.added)} = PendingOps
        /\ {e.op : e \in ToSet(d.removed)} = IF RemovedOp = 0 THEN {} ELSE {RemovedOp}
    BY PendingOpsAre
  <2>3. /\ new.has = cp.has
        /\ new.friends = Applied(cp.friends, d.removed \o d.added)
        /\ new.taken = cp.taken \cup {e.op : e \in ToSet(d.removed) \cup ToSet(d.added)}
        /\ new.twice = (cp.twice \/ \E e \in ToSet(d.removed) : e.op \in cp.taken)
    BY <1>0, <1>1, <1>4 DEF ApplyDelta
  <2> SUFFICES ASSUME ~new.twice PROVE Agrees(new.friends, new.taken)
    BY DEF Consistent
  <2>4. Agrees(cp.friends, cp.taken)
    BY <1>4, <2>3 DEF Consistent
  <2>5. RemovedOp # 0 => RemovedOp \notin cp.taken
    <3>1. \A e \in ToSet(d.removed) : e.op \notin cp.taken
      BY <2>3
    <3>2. RemovedOp # 0 => \E e \in ToSet(d.removed) : e.op = RemovedOp
      BY <2>2
    <3> QED BY <3>1, <3>2
  <2>6. new.taken = cp.taken \cup PendingOps
    BY <2>2, <2>3
  <2>7. ASSUME NEW m \in Nat, new.taken = 1 .. m PROVE new.friends = friends /\ m = friendOps
    <3>1. cp.taken \cup PendingOps = 1 .. m
      BY <2>6, <2>7
    <3>2. Applied(cp.friends, d.removed \o d.added) = friends /\ m = friendOps
      BY <2>4, <2>5, <3>1, DeltaCompletes
    <3> QED BY <2>3, <3>2
  <2>8. cp.taken \subseteq 1 .. friendOps /\ new.taken \subseteq 1 .. friendOps
    <3>1. cp.taken \subseteq 1 .. friendOps
      BY <2>4 DEF Agrees
    <3>2. PendingOps \subseteq 1 .. friendOps
      BY <2>1, <2>2
    <3> QED BY <2>6, <3>1, <3>2
  <2> HIDE DEF new, d
  <2>9. RemovedOp = 0 => new.taken = 1 .. friendOps
    BY <2>1, <2>2, <2>6, <2>8
  <2>10. RemovedOp # 0 => RemovedOp \in new.taken
    BY <2>2, <2>6
  <2>11. ASSUME NEW m \in RemovedOp .. friendOps, new.taken = 1 .. m
         PROVE  new.friends = Prefix(Len(friends) - (friendOps - m))
    <3>1. m \in Nat
      BY <2>1
    <3>2. new.friends = friends /\ m = friendOps
      BY <2>7, <2>11, <3>1
    <3>3. friends = SubSeq(friends, 1, Len(friends)) /\ Len(friends) - (friendOps - m) = Len(friends)
      BY <2>1, <3>2, PrefixIs
    <3> QED BY <3>2, <3>3 DEF Prefix
  <2>12. RemovedOp # 0 => new.taken # 1 .. RemovedOp - 1
    BY <2>1, <2>10
  <2> QED BY <2>1, <2>8, <2>9, <2>10, <2>11, <2>12 DEF Agrees
<1> QED BY <1>2, <1>3, <1>4

-----------------------------------------------------------------------------
(* The friends list: every step *)

\* A step that shows no client anything but a fresh object, and keeps what holds of the list.
LEMMA ListedKeeps ==
    ASSUME IInv, Listed, Recorded', \A list, taken : Agrees(list, taken) => Agrees(list, taken)',
           \A c \in Clients : copy'[c] = copy[c] \/ copy'[c] = NoCopy,
           cache' = cache \/ cache' = <<>>,
           \A u \in Threads : At(u, "notify")' => pc'[u] = pc[u]
    PROVE  Listed'
<1>1. \A cp : Consistent(cp) => Consistent(cp)'
  BY DEF Consistent
<1>2. Consistent(NoCopy)' /\ \A d : ApplyDelta(NoCopy, d) = NoCopy
  BY DEF Consistent, ApplyDelta, NoCopy
<1>3. \A c \in Clients : Consistent(copy[c])'
  BY <1>1, <1>2 DEF Listed
<1>4. ASSUME NEW u \in Threads, At(u, "notify")', NEW c \in Clients
      PROVE  Consistent(ApplyDelta(copy[c], pc[u].delta))'
  <2>1. pc'[u] = pc[u] /\ At(u, "notify")
    BY <1>4 DEF At
  <2>2. Consistent(ApplyDelta(copy[c], pc[u].delta))
    BY <2>1 DEF Listed
  <2>3. CASE copy'[c] = copy[c]
    <3>1. ApplyDelta(copy'[c], pc'[u].delta) = ApplyDelta(copy[c], pc[u].delta)
      BY <2>1, <2>3
    <3> QED BY <1>1, <2>2, <3>1
  <2>4. CASE copy'[c] = NoCopy
    <3>1. ApplyDelta(copy'[c], pc'[u].delta) = NoCopy
      BY <1>2, <2>4
    <3> QED BY <1>2, <3>1
  <2> QED BY <2>3, <2>4
<1>5. \A j \in DOMAIN cache' : Agrees(cache[j].friends, cache[j].ops)'
  BY DEF Listed
<1> QED BY <1>3, <1>4, <1>5 DEF Listed

\* The list's own operations (Player::AddFriend, RemoveFriend).
LEMMA ListWriteListed ==
    ASSUME IInv, Listed, NEW t \in Threads, NEW n \in Names, AddFriend(t, n) \/ RemoveFriend(t, n)
    PROVE  Listed'
<1>1. TypeInv /\ Recorded
  BY DEF IInv, Listed
<1>2. Recorded' /\ \A list, taken : Agrees(list, taken) => Agrees(list, taken)'
  BY <1>1, AddFriendList, RemoveFriendList
<1>3. UNCHANGED <<copy, cache>> /\ Go(t, [at |-> "dispatch", about |-> "friends"])
  BY DEF AddFriend, RemoveFriend, sendVars
<1>4. \A u \in Threads : At(u, "notify")' => pc'[u] = pc[u]
  <2>1. pc'[t] = [at |-> "dispatch", about |-> "friends"] /\ \A u \in Threads : u # t => pc'[u] = pc[u]
    BY <1>1, <1>3, GoesOn
  <2> QED BY <2>1 DEF At
<1> QED BY <1>2, <1>3, <1>4, ListedKeeps

\* The steps that neither write the list nor show it.
LEMMA OtherListed ==
    ASSUME IInv, Listed, NEW t \in Threads,
           \/ \E x \in Cells : Store(t, x)
           \/ \E c \in Clients : Subscribe(t, c)
           \/ Dispatch(t) \/ ClearBaselines(t) \/ CreateOnClient(t) \/ TakeEvent(t) \/ InvokeCallbacks(t) \/ SkipDelta(t)
    PROVE  Listed'
<1>1. UNCHANGED <<friends, pendingAdded, pendingRemoved, friendOps>>
  BY DEF Store, Subscribe, Dispatch, ClearBaselines, CreateOnClient, TakeEvent, InvokeCallbacks, SkipDelta, serverVars
<1>2. cache' = cache \/ cache' = <<>>
  BY DEF Store, Subscribe, Dispatch, ClearBaselines, CreateOnClient, TakeEvent, InvokeCallbacks, SkipDelta, sendVars
<1>3. \A c \in Clients : copy'[c] = copy[c] \/ copy'[c] = NoCopy
  <2>1. CASE CreateOnClient(t)
    BY <2>1 DEF CreateOnClient, IInv, TypeInv
  <2>2. CASE ~CreateOnClient(t)
    BY <2>2 DEF Store, Subscribe, Dispatch, ClearBaselines, TakeEvent, InvokeCallbacks, SkipDelta
  <2> QED BY <2>1, <2>2
<1>4. \E s : Go(t, s) /\ s.at # "notify"
  <2>1. CASE \E x \in Cells : Store(t, x)
    BY <2>1 DEF Store
  <2>2. CASE \E c \in Clients : Subscribe(t, c)
    BY <2>2 DEF Subscribe
  <2>3. CASE Dispatch(t) \/ CreateOnClient(t) \/ SkipDelta(t)
    BY <2>3 DEF Dispatch, CreateOnClient, SkipDelta, Idle
  <2>4. CASE ClearBaselines(t)
    <3>1. Go(t, [pc[t] EXCEPT !.at = "create"]) /\ At(t, "clear")
      BY <2>4 DEF ClearBaselines
    <3>2. [pc[t] EXCEPT !.at = "create"].at = "create"
      BY <3>1, ThreadParts DEF IInv, At
    <3> QED BY <3>1, <3>2
  <2>5. CASE TakeEvent(t)
    BY <2>5 DEF TakeEvent
  <2>6. CASE InvokeCallbacks(t)
    <3>1. CASE pc[t].event.about = "baselines"
      BY <2>6, <3>1 DEF InvokeCallbacks
    <3>2. CASE pc[t].event.about # "baselines"
      BY <2>6, <3>2 DEF InvokeCallbacks
    <3> QED BY <3>1, <3>2
  <2> QED BY <2>1, <2>2, <2>3, <2>4, <2>5, <2>6
<1>5. \A u \in Threads : At(u, "notify")' => pc'[u] = pc[u]
  <2>1. pc'[t].at # "notify" /\ \A u \in Threads : u # t => pc'[u] = pc[u]
    BY <1>4, GoesOn DEF IInv
  <2> QED BY <2>1 DEF At
<1>6. Recorded' /\ \A list, taken : Agrees(list, taken) => Agrees(list, taken)'
  BY <1>1, ListSame DEF Listed
<1> QED BY <1>2, <1>3, <1>5, <1>6, ListedKeeps

\* The delta is built of the list as it is (PlayerMessageBuilder::BuildFriendsDelta).
LEMMA BuildDeltaListed ==
    ASSUME IInv, Listed, NEW t \in Threads, BuildDelta(t)
    PROVE  Listed'
<1>1. /\ At(t, "build") /\ Go(t, [at |-> "notify", delta |-> Delta(pc[t].about)])
      /\ UNCHANGED <<friends, pendingAdded, pendingRemoved, friendOps, copy, cache>>
  BY DEF BuildDelta, serverVars, sendVars
<1>2. pc'[t] = [at |-> "notify", delta |-> Delta(pc[t].about)] /\ \A u \in Threads : u # t => pc'[u] = pc[u]
  BY <1>1, GoesOn DEF IInv
<1>3. pc[t].about \in About
  BY <1>1, ThreadParts DEF IInv, At
<1>4. Recorded' /\ \A list, taken : Agrees(list, taken) => Agrees(list, taken)'
  BY <1>1, ListSame DEF Listed
<1>5. \A cp : Consistent(cp) => Consistent(cp)'
  BY <1>4 DEF Consistent
<1>6. ASSUME NEW u \in Threads, At(u, "notify")', NEW c \in Clients
      PROVE  Consistent(ApplyDelta(copy[c], pc[u].delta))'
  <2>1. Consistent(ApplyDelta(copy[c], pc'[u].delta))
    <3>1. CASE u = t
      <4>1. pc'[u].delta = Delta(pc[t].about)
        BY <1>2, <3>1
      <4>2. TypeInv /\ Recorded /\ Consistent(copy[c]) /\ DOMAIN copy[c] = DOMAIN NoCopy
        BY DEF IInv, TypeInv, Listed
      <4> QED BY <1>3, <4>1, <4>2, DeltaConsistent
    <3>2. CASE u # t
      <4>1. pc'[u] = pc[u] /\ At(u, "notify")
        BY <1>2, <1>6, <3>2 DEF At
      <4> QED BY <4>1 DEF Listed
    <3> QED BY <3>1, <3>2
  <2> QED BY <1>1, <1>5, <2>1
<1>7. /\ \A c \in Clients : Consistent(copy[c])'
      /\ \A j \in DOMAIN cache' : Agrees(cache[j].friends, cache[j].ops)'
  BY <1>1, <1>4, <1>5 DEF Listed
<1> QED BY <1>4, <1>6, <1>7 DEF Listed

\* ... and reaches the observers as it was built (Object::AddDeltasUpdate, NotifyObservers).
LEMMA NotifyListed ==
    ASSUME IInv, Listed, NEW t \in Threads, Notify(t)
    PROVE  Listed'
<1>1. /\ At(t, "notify") /\ Go(t, Idle)
      /\ copy' = [c \in Clients |-> IF c \in observers THEN ApplyDelta(copy[c], pc[t].delta) ELSE copy[c]]
      /\ UNCHANGED <<friends, pendingAdded, pendingRemoved, friendOps, cache>>
  BY DEF Notify, serverVars
<1>2. pc'[t] = Idle /\ \A u \in Threads : u # t => pc'[u] = pc[u]
  BY <1>1, GoesOn DEF IInv
<1>3. \A u \in Threads : ~At(u, "notify")'
  BY <1>1, <1>2 DEF IInv, Exclusive, At, Idle
<1>4. Recorded' /\ \A list, taken : Agrees(list, taken) => Agrees(list, taken)'
  BY <1>1, ListSame DEF Listed
<1>5. \A cp : Consistent(cp) => Consistent(cp)'
  BY <1>4 DEF Consistent
<1>6. \A c \in Clients : Consistent(copy[c])'
  <2>1. \A c \in Clients : Consistent(copy'[c])
    BY <1>1 DEF Listed
  <2> QED BY <1>5, <2>1
<1>7. \A j \in DOMAIN cache' : Agrees(cache[j].friends, cache[j].ops)'
  BY <1>1, <1>4 DEF Listed
<1> QED BY <1>3, <1>4, <1>6, <1>7 DEF Listed

\* A baseline has the whole list (PlayerMessageBuilder::BuildBaseline9).
LEMMA BaselineAgrees ==
    ASSUME TypeInv, Recorded
    PROVE  Agrees(friends, 1 .. friendOps)
<1>1. /\ friends \in Seq(Names) /\ Len(friends) \in Nat
      /\ RemovedOp \in Nat /\ friendOps \in Nat /\ RemovedOp <= friendOps
  BY RecordedParts
<1>2. RemovedOp # 0 => RemovedOp \in 1 .. friendOps /\ 1 .. friendOps # 1 .. RemovedOp - 1
  BY <1>1
<1>3. ASSUME NEW m \in RemovedOp .. friendOps, 1 .. friendOps = 1 .. m
      PROVE  friends = Prefix(Len(friends) - (friendOps - m))
  <2>1. m = friendOps
    BY <1>1, <1>3
  <2>2. Len(friends) - (friendOps - m) = Len(friends)
    BY <1>1, <2>1
  <2> QED BY <1>1, <2>2, PrefixIs DEF Prefix
<1> QED BY <1>1, <1>2, <1>3 DEF Agrees

LEMMA BuildBaselineListed ==
    ASSUME IInv, Listed, NEW t \in Threads, BuildBaseline(t)
    PROVE  Listed'
<1> DEFINE v == ViewOrder[pc[t].built + 1]
           b == Baseline(v)
<1>1. /\ At(t, "baselines") /\ Go(t, [pc[t] EXCEPT !.built = @ + 1]) /\ cache' = Append(cache, b)
      /\ UNCHANGED <<friends, pendingAdded, pendingRemoved, friendOps, copy>>
  BY DEF BuildBaseline, serverVars
<1>2. b.friends = friends /\ b.ops = 1 .. friendOps
  BY DEF Baseline
<1> HIDE DEF b
<1>3. /\ \A u \in Threads : u # t => pc'[u] = pc[u]
      /\ pc'[t].at = "baselines"
  <2>1. pc'[t] = [pc[t] EXCEPT !.built = @ + 1] /\ \A u \in Threads : u # t => pc'[u] = pc[u]
    BY <1>1, GoesOn DEF IInv
  <2>2. pc[t] = [at |-> "baselines", for |-> pc[t].for, built |-> pc[t].built]
    BY <1>1, ThreadParts DEF IInv
  <2> QED BY <2>1, <2>2
<1>4. \A u \in Threads : At(u, "notify")' => pc'[u] = pc[u] /\ At(u, "notify")
  BY <1>3 DEF At
<1>5. Recorded' /\ \A list, taken : Agrees(list, taken) => Agrees(list, taken)'
  BY <1>1, ListSame DEF Listed
<1>6. \A cp : Consistent(cp) => Consistent(cp)'
  BY <1>5 DEF Consistent
<1>7. ASSUME NEW u \in Threads, At(u, "notify")', NEW c \in Clients
      PROVE  Consistent(ApplyDelta(copy[c], pc[u].delta))'
  BY <1>1, <1>4, <1>6, <1>7 DEF Listed
<1>8. ASSUME NEW j \in DOMAIN cache' PROVE Agrees(cache'[j].friends, cache'[j].ops)
  <2> DEFINE E == Entry
  <2>1. cache \in Seq(E)
    BY DEF IInv, TypeInv
  <2> HIDE DEF E
  <2>2. /\ DOMAIN cache = 1 .. Len(cache) /\ DOMAIN cache' = 1 .. Len(cache) + 1 /\ Len(cache) \in Nat
        /\ \A i \in 1 .. Len(cache) : cache'[i] = cache[i]
        /\ cache'[Len(cache) + 1] = b
    BY <1>1, <2>1
  <2>3. CASE j = Len(cache) + 1
    BY <1>2, <2>2, <2>3, BaselineAgrees DEF IInv, Listed
  <2>4. CASE j # Len(cache) + 1
    <3>1. j \in DOMAIN cache /\ cache'[j] = cache[j]
      BY <2>2, <2>4
    <3> QED BY <3>1 DEF Listed
  <2> QED BY <2>3, <2>4
<1>9. \A j \in DOMAIN cache' : Agrees(cache[j].friends, cache[j].ops)'
  BY <1>5, <1>8
<1>10. \A c \in Clients : Consistent(copy[c])'
  BY <1>1, <1>6 DEF Listed
<1> QED BY <1>5, <1>7, <1>9, <1>10 DEF Listed

\* What the baselines a handler sends do to a copy's list.
LEMMA ReadList ==
    ASSUME IInv, Listed, NEW cp, DOMAIN cp = DOMAIN NoCopy, Consistent(cp)
    PROVE  Consistent(ReadBaselines(cp))
<1> DEFINE new == ReadBaselines(cp)
           sent == {b.view : b \in ToSet(cache)}
           last(v) == cache[LastOf(v)]
           val == [x \in Cells |-> IF ViewOf[FieldOf[x]] \in sent THEN last(ViewOf[FieldOf[x]]).value[x] ELSE cp.value[x]]
           w == [cp EXCEPT !.has = @ \cup sent, !.value = val]
           fv == ViewOf["friends"]
<1>0. DOMAIN cp = {"has", "value", "friends", "taken", "dropped", "twice"}
  BY DEF NoCopy
<1>1. /\ DOMAIN w = DOMAIN cp /\ w.has = cp.has \cup sent
      /\ w.friends = cp.friends /\ w.taken = cp.taken /\ w.twice = cp.twice
  BY <1>0
<1>2. new = IF fv \in sent
            THEN [w EXCEPT !.friends = last(fv).friends, !.dropped = {}, !.twice = FALSE, !.taken = last(fv).ops]
            ELSE w
  BY DEF ReadBaselines
<1>3. sent = {cache[k].view : k \in DOMAIN cache}
  BY DEF ToSet
<1> HIDE DEF w, val, new, last, sent
<1>4. CASE fv \notin sent
  BY <1>1, <1>2, <1>4 DEF Consistent, new
<1>5. CASE fv \in sent
  <2>1. new.friends = last(fv).friends /\ new.taken = last(fv).ops
    BY <1>0, <1>1, <1>2, <1>5
  <2>2. LastOf(fv) \in DOMAIN cache
    BY <1>3, <1>5, LastOfView DEF IInv, IsLast
  <2>3. Agrees(last(fv).friends, last(fv).ops)
    BY <2>2 DEF Listed, last
  <2> QED BY <2>1, <2>3 DEF Consistent, new
<1> QED BY <1>4, <1>5

LEMMA SendBaselinesListed ==
    ASSUME IInv, Listed, NEW t \in Threads, SendBaselines(t)
    PROVE  Listed'
<1>1. /\ At(t, "baselines") /\ Go(t, Idle)
      /\ copy' = [copy EXCEPT ![pc[t].for] = ReadBaselines(@)]
      /\ UNCHANGED <<friends, pendingAdded, pendingRemoved, friendOps, cache>>
  BY DEF SendBaselines, serverVars
<1>2. pc'[t] = Idle /\ \A u \in Threads : u # t => pc'[u] = pc[u]
  BY <1>1, GoesOn DEF IInv
<1>3. \A u \in Threads : ~At(u, "notify")'
  BY <1>1, <1>2 DEF IInv, Exclusive, At, Idle
<1>4. Recorded' /\ \A list, taken : Agrees(list, taken) => Agrees(list, taken)'
  BY <1>1, ListSame DEF Listed
<1>5. \A cp : Consistent(cp) => Consistent(cp)'
  BY <1>4 DEF Consistent
<1>6. ASSUME NEW c \in Clients PROVE Consistent(copy'[c])
  <2>1. DOMAIN copy = Clients /\ DOMAIN copy[c] = DOMAIN NoCopy /\ Consistent(copy[c])
    BY DEF IInv, TypeInv, Listed
  <2>2. CASE c = pc[t].for
    <3>1. copy'[c] = ReadBaselines(copy[c])
      BY <1>1, <2>1, <2>2
    <3> QED BY <2>1, <3>1, ReadList
  <2>3. CASE c # pc[t].for
    BY <1>1, <2>1, <2>3
  <2> QED BY <2>2, <2>3
<1>7. \A c \in Clients : Consistent(copy[c])'
  BY <1>5, <1>6
<1>8. \A j \in DOMAIN cache' : Agrees(cache[j].friends, cache[j].ops)'
  BY <1>1, <1>4 DEF Listed
<1> QED BY <1>3, <1>4, <1>7, <1>8 DEF Listed

\* At first the list is empty and no client has it.
LEMMA InitListed == Init => Listed
<1> SUFFICES ASSUME Init PROVE Listed
  OBVIOUS
<1>1. /\ friends = <<>> /\ pendingAdded = <<>> /\ pendingRemoved = <<>> /\ friendOps = 0 /\ cache = <<>>
      /\ pc = [t \in Threads |-> Idle] /\ copy = [c \in Clients |-> NoCopy]
  BY DEF Init
<1>2. Recorded
  BY <1>1 DEF Recorded, Kept, RemovedOp
<1>3. \A c \in Clients : Consistent(copy[c])
  BY <1>1 DEF Consistent, NoCopy
<1>4. \A t \in Threads : ~At(t, "notify")
  BY <1>1 DEF At, Idle
<1>5. DOMAIN cache = {}
  BY <1>1
<1> QED BY <1>2, <1>3, <1>4, <1>5 DEF Listed

LEMMA StepListed == IInv /\ Listed /\ [Next]_vars => Listed'
<1> SUFFICES ASSUME IInv, Listed, [Next]_vars PROVE Listed'
  OBVIOUS
<1>1. ASSUME NEW t \in Threads, NEW n \in Names, AddFriend(t, n) \/ RemoveFriend(t, n) PROVE Listed'
  BY <1>1, ListWriteListed
<1>2. ASSUME NEW t \in Threads, (\E x \in Cells : Store(t, x)) \/ (\E c \in Clients : Subscribe(t, c)) PROVE Listed'
  BY <1>2, OtherListed
<1>3. ASSUME NEW t \in Threads, Continue(t) PROVE Listed'
  BY <1>3, OtherListed, BuildDeltaListed, NotifyListed, BuildBaselineListed, SendBaselinesListed DEF Continue
<1>4. CASE UNCHANGED vars
  <2>1. UNCHANGED <<friends, pendingAdded, pendingRemoved, friendOps, copy, cache, pc>>
    BY <1>4 DEF vars, serverVars, sendVars
  <2>2. Recorded' /\ \A list, taken : Agrees(list, taken) => Agrees(list, taken)'
    BY <2>1, ListSame DEF Listed
  <2> QED BY <2>1, <2>2, ListedKeeps
<1> QED BY <1>1, <1>2, <1>3, <1>4 DEF Next

\* For any number of friends, clients and threads: a client that was given each removal
\* once and every addition shows the list the server has (Player::AddFriend, RemoveFriend;
\* NetworkSortedVector::Serialize).
THEOREM FriendsTheorem == Spec => []FriendsAgreeOnceEach
<1>1. IInv /\ Listed => FriendsAgreeOnceEach
  <2> SUFFICES ASSUME IInv, Listed, NEW c \in observers, ViewOf["friends"] \in copy[c].has,
                      ~copy[c].twice, copy[c].taken = 1 .. friendOps
               PROVE  copy[c].friends = friends
    BY DEF FriendsAgreeOnceEach
  <2>1. c \in Clients /\ Agrees(copy[c].friends, copy[c].taken)
    BY DEF IInv, TypeInv, Listed, Consistent
  <2>2. /\ friends \in Seq(Names) /\ Len(friends) \in Nat
        /\ friendOps \in RemovedOp .. friendOps /\ friendOps \in Nat
    BY RecordedParts DEF IInv, Listed
  <2>3. copy[c].friends = Prefix(Len(friends) - (friendOps - friendOps))
    BY <2>1, <2>2 DEF Agrees
  <2>4. Len(friends) - (friendOps - friendOps) = Len(friends)
    BY <2>2
  <2> QED BY <2>2, <2>3, <2>4, PrefixIs DEF Prefix
<1>2. Init => IInv /\ Listed
  BY InitEstablishes, InitListed
<1>3. IInv /\ Listed /\ [Next]_vars => (IInv /\ Listed)'
  BY StepPreserves, StepListed
<1> QED BY <1>1, <1>2, <1>3, PTL DEF Spec
=============================================================================
