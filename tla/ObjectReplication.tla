-------------------------- MODULE ObjectReplication --------------------------
(***************************************************************************)
(* How the state of one object reaches the clients that are aware of it    *)
(* (swganh/object: object.cc, creature.cc, player.cc and their message     *)
(* builders; swganh/messages/containers; anh/event_dispatcher.cc).         *)
(*                                                                         *)
(* A setter stores the new value and dispatches an event; the event waits  *)
(* in the io_service for a thread of the pool; its handler, alone under    *)
(* the dispatcher's lock, builds a delta from the values of that moment    *)
(* and gives it to every observer.  A new observer is subscribed, the      *)
(* caches are cleared, the object is created on its client, and a          *)
(* baselines event is dispatched whose handler builds one baseline per     *)
(* view into the object's cache and sends all that the cache holds.        *)
(*                                                                         *)
(* A cell is a scalar field or one element of a stat array, its value the  *)
(* number of writes so far.  The friends list stands for the lists whose   *)
(* deltas name positions (NetworkSortedVector).  The getters return copies *)
(* of the containers, so what Serialize clears is the copy's record of     *)
(* changes: changed, pendingAdded and pendingRemoved here only grow until  *)
(* RemoveFriend clears its own.                                            *)
(***************************************************************************)
EXTENDS Naturals, Sequences, FiniteSets, SequencesExt

CONSTANTS
    Threads,     \* threads of the io_service pool
    Clients,     \* controllers that may observe the object
    Cells,       \* scalar fields and elements of stat arrays
    Fields,      \* what one event and one delta are about
    FieldOf,     \* [Cells -> Fields]
    ViewOrder,   \* the views of the object, in the order SendBaselines builds them
    ViewOf,      \* [Fields \cup {"friends"} -> the views]
    Names,       \* who can be a friend
    MaxCalls, MaxAware   \* bounds on the setters' calls and on AddAwareObject's

None == "none"
Views == {ViewOrder[i] : i \in DOMAIN ViewOrder}

ASSUME ReplicationAssumption ==
    /\ FieldOf \in [Cells -> Fields]
    /\ ViewOf \in [Fields \cup {"friends"} -> Views]
    /\ ViewOrder \in Seq(Views)
    /\ {"friends", "baselines"} \cap Fields = {}
    /\ None \notin Threads
    /\ MaxCalls \in Nat /\ MaxAware \in Nat

VARIABLES
    value,           \* [Cells -> Nat], the values stored
    changed,         \* cells recorded as changed in their containers
    friends,         \* the list's items_
    pendingAdded,    \* its items_added_, with the number of the operation
    pendingRemoved,  \* its items_removed_
    friendOps,       \* operations on the list so far
    observers,       \* observers_
    cache,           \* baselines_
    queue,           \* events posted to the io_service
    lock,            \* who holds event_handlers_mutex_
    pc,              \* what each thread is doing
    copy,            \* the object as each client has it
    calls,           \* setter calls so far
    aware,           \* number of AddAwareObject calls so far
    robbed           \* clients whose baselines were cleared while they were built

serverVars == <<value, changed, friends, pendingAdded, pendingRemoved, friendOps>>
sendVars == <<observers, cache, queue, lock>>
vars == <<serverVars, sendVars, pc, copy, calls, aware, robbed>>

Idle == [at |-> "idle"]
NoCopy == [has |-> {}, value |-> [x \in Cells |-> 0], friends |-> <<>>,
           taken |-> {}, dropped |-> {}, twice |-> FALSE]

Init ==
    /\ value = [x \in Cells |-> 0] /\ changed = {}
    /\ friends = <<>> /\ pendingAdded = <<>> /\ pendingRemoved = <<>> /\ friendOps = 0
    /\ observers = {} /\ cache = <<>> /\ queue = <<>> /\ lock = None
    /\ pc = [t \in Threads |-> Idle]
    /\ copy = [c \in Clients |-> NoCopy]
    /\ calls = 0 /\ aware = 0 /\ robbed = {}

At(t, place) == pc[t].at = place
Go(t, state) == pc' = [pc EXCEPT ![t] = state]

-----------------------------------------------------------------------------
(* Setters. *)

\* The mutant writes an array's element without recording it as changed.
Store_Unrecorded(t, x) ==
    /\ At(t, "idle") /\ calls < MaxCalls
    /\ calls' = calls + 1
    /\ value' = [value EXCEPT ![x] = @ + 1]
    /\ Go(t, [at |-> "dispatch", about |-> FieldOf[x]])
    /\ UNCHANGED <<changed, friends, pendingAdded, pendingRemoved, friendOps, sendVars, copy, aware, robbed>>

\* A setter stores a field, or Update()s an element of an array, under its mutex...
Store(t, x) ==
    /\ At(t, "idle") /\ calls < MaxCalls
    /\ calls' = calls + 1
    /\ value' = [value EXCEPT ![x] = @ + 1]
    /\ changed' = changed \cup {x}
    /\ Go(t, [at |-> "dispatch", about |-> FieldOf[x]])
    /\ UNCHANGED <<friends, pendingAdded, pendingRemoved, friendOps, sendVars, copy, aware, robbed>>

AddFriend(t, n) ==
    /\ At(t, "idle") /\ calls < MaxCalls
    /\ calls' = calls + 1
    /\ IF n \in ToSet(friends)
       THEN UNCHANGED <<friends, pendingAdded, friendOps>>
       ELSE /\ friends' = Append(friends, n)
            /\ friendOps' = friendOps + 1
            /\ pendingAdded' = Append(pendingAdded, [index |-> Len(friends'), op |-> friendOps'])
    /\ Go(t, [at |-> "dispatch", about |-> "friends"])
    /\ UNCHANGED <<value, changed, pendingRemoved, sendVars, copy, aware, robbed>>

\* The mutant records the position after the one it removes.
RemoveFriend_OffByOne(t, n) ==
    /\ At(t, "idle") /\ calls < MaxCalls
    /\ calls' = calls + 1
    /\ \E i \in DOMAIN friends :
        /\ friends[i] = n
        /\ friends' = RemoveAt(friends, i)
        /\ pendingRemoved' = <<[index |-> i + 1, op |-> friendOps + 1]>>
    /\ pendingAdded' = <<>>
    /\ friendOps' = friendOps + 1
    /\ Go(t, [at |-> "dispatch", about |-> "friends"])
    /\ UNCHANGED <<value, changed, sendVars, copy, aware, robbed>>

\* RemoveFriend clears the recorded changes, sent or not, before it records its own.
RemoveFriend(t, n) ==
    /\ At(t, "idle") /\ calls < MaxCalls
    /\ calls' = calls + 1
    /\ \E i \in DOMAIN friends :
        /\ friends[i] = n
        /\ friends' = RemoveAt(friends, i)
        /\ pendingRemoved' = <<[index |-> i, op |-> friendOps + 1]>>
    /\ pendingAdded' = <<>>
    /\ friendOps' = friendOps + 1
    /\ Go(t, [at |-> "dispatch", about |-> "friends"])
    /\ UNCHANGED <<value, changed, sendVars, copy, aware, robbed>>

\* ... and then Dispatch posts its event.
Dispatch(t) ==
    /\ At(t, "dispatch")
    /\ queue' = Append(queue, [about |-> pc[t].about])
    /\ Go(t, Idle)
    /\ UNCHANGED <<serverVars, observers, cache, lock, copy, aware, robbed, calls>>

-----------------------------------------------------------------------------
(* AddAwareObject: Subscribe, then MakeClean. *)

Subscribe(t, c) ==
    /\ At(t, "idle") /\ aware < MaxAware
    /\ aware' = aware + 1
    /\ observers' = observers \cup {c}
    /\ Go(t, [at |-> "clear", for |-> c])
    /\ UNCHANGED <<serverVars, cache, queue, lock, copy, robbed, calls>>

ClearBaselines(t) ==
    /\ At(t, "clear")
    /\ cache' = <<>>
    /\ robbed' = robbed \cup {pc[u].for : u \in {u \in Threads : At(u, "baselines") /\ pc[u].built > 0}}
    /\ Go(t, [pc[t] EXCEPT !.at = "create"])
    /\ UNCHANGED <<serverVars, observers, queue, lock, copy, aware, calls>>

\* SceneCreateObjectByCrc goes to the client at once, the baselines by an event.
CreateOnClient(t) ==
    LET c == pc[t].for IN
    /\ At(t, "create")
    /\ copy' = [copy EXCEPT ![c] = NoCopy]
    /\ robbed' = robbed \ {c}
    /\ queue' = Append(queue, [about |-> "baselines", for |-> c])
    /\ Go(t, Idle)
    /\ UNCHANGED <<serverVars, observers, cache, lock, aware, calls>>

-----------------------------------------------------------------------------
(* Handlers: a thread takes an event, waits for the lock and runs it. *)

TakeEvent(t) ==
    /\ At(t, "idle") /\ queue # <<>>
    /\ Go(t, [at |-> "locking", event |-> Head(queue)])
    /\ queue' = Tail(queue)
    /\ UNCHANGED <<serverVars, observers, cache, lock, copy, aware, robbed, calls>>

\* The mutant runs the handlers with the lock shared.
InvokeCallbacks_Shared(t) ==
    /\ At(t, "locking")
    /\ lock' = t
    /\ IF pc[t].event.about = "baselines"
       THEN Go(t, [at |-> "baselines", for |-> pc[t].event.for, built |-> 0])
       ELSE Go(t, [at |-> "build", about |-> pc[t].event.about])
    /\ UNCHANGED <<serverVars, observers, cache, queue, copy, aware, robbed, calls>>

InvokeCallbacks(t) ==
    /\ At(t, "locking") /\ lock = None
    /\ lock' = t
    /\ IF pc[t].event.about = "baselines"
       THEN Go(t, [at |-> "baselines", for |-> pc[t].event.for, built |-> 0])
       ELSE Go(t, [at |-> "build", about |-> pc[t].event.about])
    /\ UNCHANGED <<serverVars, observers, cache, queue, copy, aware, robbed, calls>>

\* A delta: of a scalar the value now, of an array every element ever changed,
\* of the list every removal and addition since the last ClearDeltas.
Delta(f) ==
    IF f = "friends"
    THEN [about |-> f, removed |-> pendingRemoved,
          added |-> [i \in DOMAIN pendingAdded |->
                        [index |-> pendingAdded[i].index, op |-> pendingAdded[i].op,
                         name |-> friends[pendingAdded[i].index]]]]
    ELSE [about |-> f, cells |-> [x \in {x \in changed : FieldOf[x] = f} |-> value[x]]]

\* The mutant leaves the handler with the lock held.
SkipDelta_KeepsLock(t) ==
    /\ At(t, "build") /\ observers = {}
    /\ Go(t, Idle)
    /\ UNCHANGED <<serverVars, observers, cache, queue, lock, copy, aware, robbed, calls>>

\* Nobody observes: the handler is over (it clears the record of a copy).
SkipDelta(t) ==
    /\ At(t, "build") /\ observers = {}
    /\ lock' = None
    /\ Go(t, Idle)
    /\ UNCHANGED <<serverVars, observers, cache, queue, copy, aware, robbed, calls>>

BuildDelta(t) ==
    /\ At(t, "build") /\ observers # {}
    /\ Go(t, [at |-> "notify", delta |-> Delta(pc[t].about)])
    /\ UNCHANGED <<serverVars, sendVars, copy, aware, robbed, calls>>

\* The client's side: a delta for a view it has no baseline of is nothing to it.
Put(list, entry) ==
    IF entry.index <= Len(list) THEN [list EXCEPT ![entry.index] = entry.name]
                                ELSE Append(list, entry.name)
Drop(list, entry) == IF entry.index <= Len(list) THEN RemoveAt(list, entry.index) ELSE list

\* The entries one after the other; a removal names no friend.
Applied(list, entries) ==
    LET after[k \in 0 .. Len(entries)] ==
            IF k = 0 THEN list
            ELSE IF "name" \in DOMAIN entries[k] THEN Put(after[k - 1], entries[k]) ELSE Drop(after[k - 1], entries[k])
    IN after[Len(entries)]

ApplyDelta(old, d) ==
    IF ViewOf[d.about] \notin old.has THEN old
    ELSE IF d.about = "friends"
    THEN [old EXCEPT
            !.friends = Applied(@, d.removed \o d.added),
            !.taken = @ \cup {e.op : e \in ToSet(d.removed) \cup ToSet(d.added)},
            !.dropped = @ \cup {e.op : e \in ToSet(d.removed)},
            !.twice = @ \/ \E e \in ToSet(d.removed) : e.op \in old.taken]
    ELSE [old EXCEPT !.value = [x \in Cells |-> IF x \in DOMAIN d.cells THEN d.cells[x] ELSE @[x]]]

\* AddDeltasUpdate: NotifyObservers, and the handler is over.
Notify(t) ==
    /\ At(t, "notify")
    /\ copy' = [c \in Clients |-> IF c \in observers THEN ApplyDelta(copy[c], pc[t].delta) ELSE copy[c]]
    /\ lock' = None
    /\ Go(t, Idle)
    /\ UNCHANGED <<serverVars, observers, cache, queue, aware, robbed, calls>>

\* BuildBaseline of the next view, AddBaselineToCache.
Baseline(v) == [view |-> v, value |-> value, friends |-> friends, ops |-> 1 .. friendOps]

BuildBaseline(t) ==
    /\ At(t, "baselines") /\ pc[t].built < Len(ViewOrder)
    /\ cache' = Append(cache, Baseline(ViewOrder[pc[t].built + 1]))
    /\ Go(t, [pc[t] EXCEPT !.built = @ + 1])
    /\ UNCHANGED <<serverVars, observers, queue, lock, copy, aware, robbed, calls>>

\* Of the baselines of one view the client keeps the last it is sent.
LastOf(v) == SelectLastInSeq(cache, LAMBDA b : b.view = v)

ReadBaselines(old) ==
    LET sent == {b.view : b \in ToSet(cache)}
        last(v) == cache[LastOf(v)]
        withValues == [old EXCEPT !.has = @ \cup sent,
            !.value = [x \in Cells |-> IF ViewOf[FieldOf[x]] \in sent THEN last(ViewOf[FieldOf[x]]).value[x] ELSE @[x]]]
    IN IF ViewOf["friends"] \in sent
       THEN [withValues EXCEPT !.friends = last(ViewOf["friends"]).friends, !.dropped = {}, !.twice = FALSE,
                               !.taken = last(ViewOf["friends"]).ops]
       ELSE withValues

\* Every baseline the cache holds goes to the one controller that asked.
SendBaselines(t) ==
    /\ At(t, "baselines") /\ pc[t].built = Len(ViewOrder)
    /\ copy' = [copy EXCEPT ![pc[t].for] = ReadBaselines(@)]
    /\ lock' = None
    /\ Go(t, Idle)
    /\ UNCHANGED <<serverVars, observers, cache, queue, aware, robbed, calls>>

-----------------------------------------------------------------------------

\* What a thread goes on with once it has begun.
Continue(t) ==
    \/ Dispatch(t) \/ ClearBaselines(t) \/ CreateOnClient(t)
    \/ TakeEvent(t) \/ InvokeCallbacks(t)
    \/ SkipDelta(t) \/ BuildDelta(t) \/ Notify(t)
    \/ BuildBaseline(t) \/ SendBaselines(t)

Next ==
    \E t \in Threads :
        \/ \E x \in Cells : Store(t, x)
        \/ \E n \in Names : AddFriend(t, n) \/ RemoveFriend(t, n)
        \/ \E c \in Clients : Subscribe(t, c)
        \/ Continue(t)

Spec == Init /\ [][Next]_vars

\* The pool's threads go on; nobody need write or become aware.
FairSpec == Spec /\ \A t \in Threads : WF_vars(Continue(t))

-----------------------------------------------------------------------------
(* Properties. *)

Versions == [Cells -> 0 .. MaxCalls]

\* The state's components keep their types; only one thread runs a handler.
ReplicationTypeOK ==
    /\ value \in Versions /\ changed \subseteq Cells
    /\ ToSet(friends) \subseteq Names /\ Cardinality(ToSet(friends)) = Len(friends)
    /\ friendOps \in 0 .. MaxCalls
    /\ \A e \in ToSet(pendingAdded) : e.index \in DOMAIN friends /\ e.op \in 1 .. friendOps
    /\ \A e \in ToSet(pendingRemoved) : e.op \in 1 .. friendOps
    /\ observers \subseteq Clients /\ robbed \subseteq Clients
    /\ calls \in 0 .. MaxCalls /\ aware \in 0 .. MaxAware
    /\ \A c \in Clients : copy[c].has \subseteq Views /\ copy[c].value \in Versions
    /\ {t \in Threads : pc[t].at \in {"build", "notify", "baselines"}} =
            IF lock = None THEN {} ELSE {lock}

\* Nothing is under way: every event dispatched has been handled.
Quiet == queue = <<>> /\ \A t \in Threads : At(t, "idle")

\* Once every event has been handled, each observer shows the value the server
\* has of every field whose view it received, and it received every view unless
\* another client's MakeClean cleared the object's baselines while a handler was
\* building this one's, which the dispatcher's lock does not prevent: no write is
\* lost, however setters, new observers and handlers were interleaved
\* (Object::AddDeltasUpdate, EventDispatcher::InvokeCallbacks, ClearBaselines).
SettledViewsAgree ==
    Quiet => \A c \in observers :
        /\ c \notin robbed => copy[c].has = Views
        /\ \A x \in Cells : ViewOf[FieldOf[x]] \in copy[c].has => copy[c].value[x] = value[x]

\* A client shows the server's list when each removal reached it exactly once
\* and no addition was cleared away before it was sent: those are the only ways
\* the positions in the deltas can be wrong (Player::AddFriend, RemoveFriend).
FriendsAgreeOnceEach ==
    Quiet => \A c \in observers :
        /\ ViewOf["friends"] \in copy[c].has
        /\ ~copy[c].twice
        /\ copy[c].taken = 1 .. friendOps
        => copy[c].friends = friends

\* "Clears all addition, subtractions and changes ... so they don't get left
\* behind for the next update" (network_sorted_vector.h): a delta does not carry
\* a removal that an earlier delta brought to the same client.  It does: what
\* Serialize clears belongs to a copy.
RemovalSentOnce ==
    [][\A t \in Threads, c \in observers :
        At(t, "build") /\ pc[t].about = "friends" =>
            \A e \in ToSet(pendingRemoved) : e.op \notin copy[c].dropped]_pc

\* What a client is shown follows the abstract ReplicatedValue: a value the
\* server has had, and never an older one than before.
Shown == INSTANCE ReplicatedValue WITH
    seen <- [c \in Clients |-> [x \in Cells |->
                IF ViewOf[FieldOf[x]] \in copy[c].has THEN copy[c].value[x] + 1 ELSE 0]]
NeverShowsOlder == Shown!Spec

\* Every write reaches every observer that holds its view or has been promised
\* it: the observer comes to show the server's value, unless it was robbed.
WritesArrive ==
    \A c \in Clients, x \in Cells :
        c \in observers ~> \/ c \in robbed
                           \/ copy[c].value[x] = value[x] /\ ViewOf[FieldOf[x]] \in copy[c].has
=============================================================================
