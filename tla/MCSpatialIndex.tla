--------------------------- MODULE MCSpatialIndex ---------------------------
(* Three objects on a square of side 8, split twice: odd coordinates are     *)
(* inside a node of the last level, 2 and 6 on the lines that split a        *)
(* quadrant, 4 on those that split the root.                                 *)
EXTENDS SpatialIndex, TLC

MCPlaces == {<<1, 1>>, <<3, 1>>, <<2, 1>>, <<4, 1>>, <<7, 5>>}
MCBoxes == {[x |-> 0, z |-> 0, side |-> 8], [x |-> 0, z |-> 0, side |-> 4],
            [x |-> 1, z |-> 0, side |-> 3],
            [x |-> 2, z |-> 0, side |-> 6]}
Symmetry == Permutations(Object)
=============================================================================
