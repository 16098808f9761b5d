-------------------------- MODULE NetworkContainers --------------------------
(***************************************************************************)
(* A container that records its changes and sends them to a client:        *)
(* NetworkList, NetworkSortedVector, NetworkSortedList, NetworkMap and     *)
(* NetworkArray (swganh/messages/containers), one of them at a time.       *)
(*                                                                         *)
(* An item has a key, by which == compares it, and a value.  The container *)
(* and the client's copy are functions from positions, indexes or keys to  *)
(* items.  The client is not in the repository: it takes as many entries   *)
(* as the delta announces, in order, and passes over one that makes no     *)
(* sense.  update_counter_ is left out, and so is NetworkArray::Resize,    *)
(* which nothing calls.                                                    *)
(***************************************************************************)
EXTENDS Naturals, Sequences, SequencesExt

CONSTANTS
    KeyCount,       \* bound: keys
    ValueCount,     \* bound: values of one key
    MaxChanges      \* bound: changes between two deltas

ASSUME ContainerAssumption == KeyCount \in Nat /\ ValueCount \in Nat \ {0} /\ MaxChanges \in Nat

VARIABLES
    container,      \* which of the five it is
    items,          \* items_
    items_added, items_removed, items_changed, clear, reinstall,    \* what is recorded
    shown,          \* the client's copy
    wanted,         \* what the calls asked for: from keys to values
    changes,        \* the calls since the last delta
    orderly         \* no delta so far has had changes that it cannot tell

containerVars == <<container, items, items_added, items_removed, items_changed, clear, reinstall,
                   shown, wanted, changes, orderly>>
recordVars == <<items_added, items_removed, items_changed, clear, reinstall>>

Keys == 1 .. KeyCount
Values == 1 .. ValueCount
Item(k, v) == [key |-> k, value |-> v]
Default == Item(0, 0)
Empty == <<>>
Shifts(kind) == kind \in {"list", "vector"}

\* A function that has the item at i, too.
With(f, i, item) == [x \in DOMAIN f \cup {i} |-> IF x = i THEN item ELSE f[x]]

ContainerInit ==
    /\ container \in {"list", "vector", "sorted", "map", "array"}
    /\ items = IF container = "array" THEN [k \in Keys |-> Item(k, 1)] ELSE Empty
    /\ wanted = IF container = "array" THEN [k \in Keys |-> 1] ELSE Empty
    /\ shown = items
    /\ items_added = <<>> /\ items_removed = <<>> /\ items_changed = <<>>
    /\ clear = FALSE /\ reinstall = FALSE
    /\ changes = <<>> /\ orderly = TRUE

Change(what, key) ==
    /\ Len(changes) < MaxChanges
    /\ changes' = Append(changes, [what |-> what, key |-> key])
    /\ UNCHANGED <<container, shown, orderly>>

-----------------------------------------------------------------------------
(* The changes *)

Has(key) == IF container = "map" THEN key \in DOMAIN items
            ELSE \E i \in DOMAIN items : items[i].key = key

\* A sorted list counts its items for the next index, even if that is taken.  The mutant
\* of a vector records the size.
IndexFor(item) == IF container = "map" THEN item.key ELSE Cardinality(DOMAIN items) + 1
Recorded_Size(item) == IF container = "list" THEN item
    ELSE IF container = "vector" THEN IndexFor(item) + 1 ELSE IndexFor(item)
Recorded(item) == IF container = "list" THEN item ELSE IndexFor(item)

\* insert leaves what is there: the new item, at a taken index, is lost.
Add(item) ==
    LET taken == IndexFor(item) \in DOMAIN items IN
    /\ container # "array"
    /\ IF Has(item.key)
       THEN UNCHANGED <<items, items_added>> /\ Change("add", item.key)
       ELSE /\ items' = IF taken THEN items ELSE With(items, IndexFor(item), item)
            /\ items_added' = Append(items_added, Recorded(item))
            /\ Change(IF taken THEN "lose" ELSE "add", item.key)
    /\ wanted' = IF item.key \in DOMAIN wanted THEN wanted ELSE With(wanted, item.key, item.value)
    /\ UNCHANGED <<items_removed, items_changed, clear, reinstall>>

Without(kind, f, i) == IF Shifts(kind) THEN RemoveAt(f, i) ELSE Restrict(f, DOMAIN f \ {i})

RemoveItem(i) ==
    /\ container # "array" /\ i \in DOMAIN items
    /\ items' = Without(container, items, i)
    /\ items_removed' = Append(items_removed, IF container \in {"list", "map"} THEN items[i] ELSE i)
    /\ wanted' = Restrict(wanted, DOMAIN wanted \ {items[i].key})
    /\ Change("remove", items[i].key)
    /\ UNCHANGED <<items_added, items_changed, clear, reinstall>>

Update(i, value) ==
    /\ container # "list" /\ i \in DOMAIN items
    /\ items' = [items EXCEPT ![i].value = value]
    /\ items_changed' = Append(items_changed, i)
    /\ wanted' = With(wanted, items[i].key, value)
    /\ Change("update", items[i].key)
    /\ UNCHANGED <<items_added, items_removed, clear, reinstall>>

\* A vector is emptied by the delta.
Clear ==
    /\ container # "array"
    /\ items' = IF container = "vector" THEN items ELSE Empty
    /\ clear' = TRUE /\ wanted' = Empty
    /\ Change("clear", 0)
    /\ UNCHANGED <<items_added, items_removed, items_changed, reinstall>>

Reinstall ==
    /\ container \in {"vector", "map"}
    /\ reinstall' = TRUE
    /\ Change("reinstall", 0)
    /\ UNCHANGED <<items, items_added, items_removed, items_changed, clear, wanted>>

\* ResetDefenders clears, inserts without a record and reinstalls; ResetXp clears, adds
\* and reinstalls.  One new item stands for any.
Reset(item) ==
    /\ container \in {"vector", "map"}
    /\ IF container = "map"
       THEN items' = With(Empty, item.key, item) /\ items_added' = Append(items_added, item.key)
       ELSE /\ items' = IF Has(item.key) THEN items ELSE Append(items, item)
            /\ UNCHANGED items_added
    /\ clear' = TRUE /\ reinstall' = TRUE
    /\ wanted' = With(Empty, item.key, item.value)
    /\ Change("reset", item.key)
    /\ UNCHANGED <<items_removed, items_changed>>

-----------------------------------------------------------------------------
(* Serialize *)

\* operator[] of a map makes the entry it does not find; past a vector's end is whatever
\* is there.
At(i) == IF i \in DOMAIN items THEN items[i] ELSE Default

Entries(what, record) == [n \in DOMAIN record |->
    [what |-> what, index |-> record[n],
     item |-> IF container = "list" THEN record[n] ELSE At(record[n])]]
Removals == [n \in DOMAIN items_removed |->
    [what |-> "remove", index |-> items_removed[n], item |-> items_removed[n]]]

\* A reinstallation has all items with it.
Flags == (IF reinstall THEN <<[what |-> "reinstall", items |-> items]>> ELSE <<>>)
         \o (IF clear THEN <<[what |-> "clear"]>> ELSE <<>>)

Delta ==
    (IF container = "map" THEN Entries("add", items_added) \o Removals
     ELSE Removals \o Entries("add", items_added))
    \o Entries("update", items_changed) \o Flags

\* The number that comes first: a list's does not count its clearing.
Announced == IF container = "list" THEN Len(items_added) + Len(items_removed) ELSE Len(Delta)

PositionOf(f, item) == {i \in DOMAIN f : f[i] = item}

Removed(kind, copy, entry) ==
    LET at == CASE kind = "list" -> PositionOf(copy, entry.item)
                [] kind = "map" -> {entry.item.key}
                [] OTHER -> {entry.index}
        there == at \cap DOMAIN copy
    IN IF there = {} THEN copy ELSE Without(kind, copy, CHOOSE i \in there : TRUE)

Placed(kind, copy, entry) ==
    CASE kind = "list" -> Append(copy, entry.item)
      [] kind = "vector" /\ entry.index \notin 1 .. Len(copy) + 1 -> copy
      [] OTHER -> With(copy, entry.index, entry.item)

Applied(kind, copy, entry) ==
    CASE entry.what = "remove" -> Removed(kind, copy, entry)
      [] entry.what \in {"add", "update"} -> Placed(kind, copy, entry)
      [] entry.what = "reinstall" -> entry.items
      [] OTHER -> Empty

\* The copy after all entries, in their order.
Took(kind, copy, entries) ==
    LET after[n \in 0 .. Len(entries)] ==
            IF n = 0 THEN copy ELSE Applied(kind, after[n - 1], entries[n])
    IN after[Len(entries)]

\* The changes a delta can tell: one alone, but for a reset and for a list's clearing; or
\* several in the order in which it lists them, of which none makes use of a taken index
\* or, in a map, takes away what another added.
Rank(what) ==
    CASE what = "remove" -> IF container = "map" THEN 2 ELSE 1
      [] what = "add" -> IF container = "map" THEN 1 ELSE 2
      [] OTHER -> 3

Tellable ==
    \/ \E c \in {"clear", "reinstall"} :
        /\ Len(changes) = 1 /\ changes[1].what = c
        /\ ~(container = "list" /\ c = "clear")
    \/ /\ \A n \in DOMAIN changes : changes[n].what \in {"add", "remove", "update"}
       /\ \A n, o \in DOMAIN changes : n < o =>
            /\ Rank(changes[n].what) <= Rank(changes[o].what)
            /\ ~(container = "map" /\ changes[n] = [changes[o] EXCEPT !.what = "add"]
                 /\ changes[o].what = "remove")

SerializeDeltas ==
    /\ shown' = Took(container, shown, SubSeq(Delta, 1, Announced))
    /\ items' = CASE container = "vector" /\ clear -> Empty
                  [] container \in {"map", "sorted"} ->
                        [i \in DOMAIN items \cup ToSet(items_added) \cup ToSet(items_changed) |-> At(i)]
                  [] OTHER -> items
    /\ items_added' = <<>> /\ items_removed' = <<>> /\ items_changed' = <<>>
    /\ clear' = FALSE /\ reinstall' = FALSE
    /\ orderly' = (orderly /\ Tellable) /\ changes' = <<>>
    /\ UNCHANGED <<container, wanted>>

\* A client that sees the object anew is sent the items, and later what is recorded too.
SerializeBaselines ==
    /\ shown' = items
    /\ orderly' = (orderly /\ changes = <<>>)
    /\ UNCHANGED <<container, items, recordVars, wanted, changes>>

ContainerNext ==
    \/ \E k \in Keys, v \in Values : Add(Item(k, v)) \/ Reset(Item(k, v))
    \/ \E i \in 1 .. KeyCount : RemoveItem(i) \/ \E v \in Values : Update(i, v)
    \/ Clear \/ Reinstall
    \/ SerializeDeltas \/ SerializeBaselines

ContainerSpec == ContainerInit /\ [][ContainerNext]_containerVars

-----------------------------------------------------------------------------
(* Properties *)

\* After each delta the client shows exactly what the calls asked for, and the container
\* holds it, as long as the changes between two deltas are ones a delta can tell
\* (Serialize of each container, Add, Remove, Update).
CopyIsAsAsked ==
    changes = <<>> /\ orderly =>
        /\ shown = items
        /\ {<<items[i].key, items[i].value>> : i \in DOMAIN items}
               = {<<k, wanted[k]>> : k \in DOMAIN wanted}

\* What a sorted list was asked to add, it holds.  The code breaks it: after a removal
\* the next index may be taken (NetworkSortedList::Add).
AddedIsHeld == container = "sorted" => \A k \in DOMAIN wanted : Has(k)
=============================================================================
