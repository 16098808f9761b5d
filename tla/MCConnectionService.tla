-------------------------- MODULE MCConnectionService --------------------------
(* ConnectionService on small instances.                                     *)
EXTENDS ConnectionService

CONSTANTS c1, c2, c3, p1, p2

\* Two or three clients of one player, the last one of another player.
TwoPlayers == [s \in Session |-> IF s = c3 THEN p2 ELSE p1]
OnePlayer == [s \in Session |-> p1]
=============================================================================
