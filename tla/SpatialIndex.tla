---------------------------- MODULE SpatialIndex ----------------------------
(* The quadtree that indexes a scene's objects by position (node.cc,         *)
(* quadtree_spatial_provider.cc) and the steps that change it: an object is  *)
(* loaded (LoadObjectById), its client moves it (HandleDataTransform), the   *)
(* simulation removes it (RemoveObject).  The tree is kept flat: a node is   *)
(* the sequence of quadrants that leads to it, tree.branch is the set of     *)
(* nodes whose state_ is BRANCH and tree.at[n] is the objects_ of node n.    *)
(*                                                                           *)
(* Every test is of the interior of a region, as boost's within is: a point  *)
(* on the line between two nodes belongs to neither, only to their parent.   *)
(* No lock guards the tree; the model runs one handler at a time.            *)
EXTENDS Integers, SequencesExt

CONSTANTS
    Object,     \* the objects that may be loaded, each once
    Place,      \* the positions <<x, z>> they may have, inside the root
    Side,       \* the root is the square 0 .. Side
    MaxLevel,   \* max_level_: a node of this level is never split
    Box         \* the boxes to query, as [x, z, side]

ASSUME SpatialAssumption ==
    /\ MaxLevel \in Nat \ {0}
    /\ Side > 0 /\ Side % 2 ^ MaxLevel = 0
    /\ \A p \in Place : p[1] \in 1 .. Side - 1 /\ p[2] \in 1 .. Side - 1

VARIABLES
    tree,       \* the nodes that were split, and the objects_ of every node
    position,   \* GetPosition of every object
    life        \* "stored", "managed" (in the object manager) or "removed"

spatialVars == <<tree, position, life>>

-----------------------------------------------------------------------------
(* Nodes and regions. *)

Root == <<>>

\* The order of leaf_nodes_.
Quadrants == <<"NW", "NE", "SW", "SE">>

Node == BoundedSeq(Range(Quadrants), MaxLevel)

\* The quarters of a region as Split makes them: north has the larger z.
Quarter(r, q) ==
    LET half == r.side \div 2 IN
    [x |-> IF q \in {"NE", "SE"} THEN r.x + half ELSE r.x,
     z |-> IF q \in {"NW", "NE"} THEN r.z + half ELSE r.z,
     side |-> half]
Region ==
    LET Of[n \in Node] == IF n = Root THEN [x |-> 0, z |-> 0, side |-> Side]
                          ELSE Quarter(Of[Front(n)], Last(n))
    IN  [n \in Node |-> Of[n]]
Children(n) == [i \in DOMAIN Quadrants |-> Append(n, Quadrants[i])]

\* boost::geometry::within for a point and a box: the interior.
Within(p, r) ==
    /\ r.x < p[1] /\ p[1] < r.x + r.side
    /\ r.z < p[2] /\ p[2] < r.z + r.side

\* The nodes that have the point inside; the root takes every point.
Around == [p \in Place |-> {n \in Node : n = Root \/ Within(p, Region[n])}]

\* within for two boxes, which some versions ask of the interiors, and intersects.
BoxWithin(r, s, strict) ==
    LET In(lo, hi, min, max) == IF strict THEN min < lo /\ hi < max
                                          ELSE min <= lo /\ hi <= max IN
    /\ In(r.x, r.x + r.side, s.x, s.x + s.side)
    /\ In(r.z, r.z + r.side, s.z, s.z + s.side)
Intersects(r, s) ==
    /\ r.x <= s.x + s.side /\ s.x <= r.x + r.side
    /\ r.z <= s.z + s.side /\ s.z <= r.z + r.side

-----------------------------------------------------------------------------
(* The operations of a node, on a tree t = [branch, at]. *)

\* The nodes a descent by the point p visits: it enters a branch's child that
\* has p inside.
Path(t, p) ==
    {n \in Around[p] : \A k \in 0 .. Len(n) - 1 : SubSeq(n, 1, k) \in t.branch}
Deepest(nodes) == CHOOSE n \in nodes : \A m \in nodes : Len(m) <= Len(n)

GetNodeWithinPoint(t, p) == Deepest(Path(t, p))

Erase(t, n, o) == [t EXCEPT !.at[n] = SelectSeq(@, LAMBDA other : other # o)]

\* The child of n that has the object's position inside, if there is one.
ChildFor(n, o) == {c \in Around[position[o]] : c # Root /\ Front(c) = n}

RECURSIVE InsertObject(_, _, _), Split(_, _)
\* A leaf that holds an object is split first; the object goes as deep as its
\* GetPosition has it, which is not yet the new one when UpdateObject calls.
InsertObject(t, n, o) ==
    LET u == IF t.at[n] # <<>> /\ Len(n) < MaxLevel /\ n \notin t.branch
             THEN Split(t, n) ELSE t
        inner == IF n \in u.branch THEN ChildFor(n, o) ELSE {}
    IN  IF inner = {} THEN [u EXCEPT !.at[n] = Append(@, o)]
        ELSE InsertObject(u, CHOOSE c \in inner : TRUE, o)
\* The node's objects that are inside a child move there.
Split(t, n) ==
    LET Down(u, o) == IF ChildFor(n, o) = {} THEN u
                      ELSE InsertObject(Erase(u, n, o), CHOOSE c \in ChildFor(n, o) : TRUE, o)
    IN  FoldLeft(Down, [t EXCEPT !.branch = @ \cup {n}], t.at[n])

\* The node of the descent by p that lists the object, as a set.
Holder(t, o, p) == {n \in Path(t, p) : o \in Range(t.at[n])}

RemoveObject(t, o) ==
    LET held == Holder(t, o, position[o]) IN
    IF held = {} THEN t ELSE Erase(t, CHOOSE n \in held : TRUE, o)

\* The object stays in its node while inside the region.  The mutant inserts it
\* in its new node and does not erase it from the old one.
UpdateObject_Keeps(t, n, o, new) ==
    IF Within(new, Region[n]) THEN t
    ELSE InsertObject(t, GetNodeWithinPoint(t, new), o)
UpdateObject(t, n, o, new) ==
    IF Within(new, Region[n]) THEN t
    ELSE InsertObject(Erase(t, n, o), GetNodeWithinPoint(t, new), o)

\* GetNodeWithinPoint_ answers shared_from_this, which throws in the root: it is
\* a member of the provider and no shared_ptr owns it.
Throws(t, n, new) == ~Within(new, Region[n]) /\ GetNodeWithinPoint(t, new) = Root

\* What is found in the four children, in their order.
Joined(Found(_)) == Found(1) \o Found(2) \o Found(3) \o Found(4)

RECURSIVE GetContainedObjects(_, _), Query(_, _, _, _)
GetContainedObjects(t, n) ==
    t.at[n] \o IF n \notin t.branch THEN <<>>
               ELSE Joined(LAMBDA i : GetContainedObjects(t, Children(n)[i]))

\* The children after one that has the whole box inside are not visited.  The
\* mutant stops at the first that the box meets.
Stops_AtFirstMet(c, box, strict) == Intersects(box, Region[c])
Stops(c, box, strict) ==
    ~BoxWithin(Region[c], box, strict) /\ BoxWithin(box, Region[c], strict)
Query(t, n, box, strict) ==
    LET child == Children(n)
        Visited(i) == \A j \in 1 .. i - 1 : ~Stops(child[j], box, strict)
        From(c) == CASE BoxWithin(Region[c], box, strict) -> GetContainedObjects(t, c)
                     [] Intersects(box, Region[c])        -> Query(t, c, box, strict)
                     [] OTHER                             -> <<>>
    IN  SelectSeq(t.at[n], LAMBDA o : Within(position[o], box))
        \o IF n \notin t.branch THEN <<>>
           ELSE Joined(LAMBDA i : IF Visited(i) THEN From(child[i]) ELSE <<>>)

-----------------------------------------------------------------------------
(* The steps. *)

\* The root is split when it is made.
Init ==
    /\ tree = [branch |-> {Root}, at |-> [n \in Node |-> <<>>]]
    /\ position \in [Object -> Place]
    /\ life = [o \in Object |-> "stored"]

LoadObjectById(o) ==
    /\ life[o] = "stored"
    /\ life' = [life EXCEPT ![o] = "managed"]
    /\ tree' = InsertObject(tree, Root, o)
    /\ UNCHANGED position

\* A client's movement whose counter is greater than the last one's; any other
\* changes nothing.  The exception leaves the index and the position alone.
\* The mutant sets the position before it tells the index.
HandleDataTransform_Early(o, p) ==
    LET held == Holder(tree, o, p) IN
    /\ life[o] = "managed"
    /\ \A n \in held : ~Throws(tree, n, p) /\ tree' = UpdateObject(tree, n, o, p)
    /\ held = {} => UNCHANGED tree
    /\ position' = [position EXCEPT ![o] = p]
    /\ UNCHANGED life
HandleDataTransform(o, p) ==
    LET held == Holder(tree, o, position[o]) IN
    /\ life[o] = "managed"
    /\ \A n \in held : ~Throws(tree, n, p) /\ tree' = UpdateObject(tree, n, o, p)
    /\ held = {} => UNCHANGED tree
    /\ position' = [position EXCEPT ![o] = p]
    /\ UNCHANGED life

\* SimulationService::RemoveObject, of the index and of the object manager.  The
\* object is not loaded again: its position is left as a stale entry's.
SimulationRemoveObject(o) ==
    /\ life[o] = "managed"
    /\ life' = [life EXCEPT ![o] = "removed"]
    /\ tree' = RemoveObject(tree, o)
    /\ UNCHANGED position

Next == \E o \in Object :
    \/ LoadObjectById(o) \/ SimulationRemoveObject(o)
    \/ \E p \in Place : HandleDataTransform(o, p)

Spec == Init /\ [][Next]_spatialVars

-----------------------------------------------------------------------------
(* Properties. *)

managed == {o \in Object : life[o] = "managed"}

Homes(o) == {n \in Node : o \in Range(tree.at[n])}

\* A node around the object's position lists it.
Findable(o) == \E n \in Around[position[o]] : o \in Range(tree.at[n])

\* Every loaded object is listed exactly once, whatever was split and moved, and a
\* leaf above the last level lists one at most.
ListedOnce ==
    /\ \A o \in Object : \A n, m \in Homes(o) : n = m
    /\ \A n \in Node : IsInjective(tree.at[n])
    /\ \A o \in managed : Homes(o) # {}
    /\ \A n \in Node \ tree.branch : Len(n) < MaxLevel => Len(tree.at[n]) <= 1

\* Every object is listed once, and a query answers every findable object inside the
\* box, once, and besides those only objects the index has lost: the shortcuts for a
\* node inside the box and for a box inside a node leave nothing out (InsertObject,
\* Split, UpdateObject, Query, GetContainedObjects).
QueryIsExact ==
    /\ ListedOnce
    /\ \A box \in Box, strict \in BOOLEAN :
          LET answer == Query(tree, Root, box, strict) IN
          /\ IsInjective(answer)
          /\ \A o \in managed : Findable(o) =>
                (o \in Range(answer) <=> Within(position[o], box))

\* The places on the lines that split a node: no node of the last level has
\* them inside.
OnSplitLine == {p \in Place : \A n \in Around[p] : Len(n) < MaxLevel}

\* The index loses an object only by a move onto a line that splits a node: no
\* other move, and no step of another object, makes one unreachable
\* (UpdateObject inserts by the position that is about to change).
LostOnlyOnSplitLines ==
    [][\A o \in managed :
          /\ o \in managed' /\ Findable(o)
          /\ position'[o] = position[o] \/ position'[o] \notin OnSplitLine
          => Findable(o)']_spatialVars
=============================================================================
