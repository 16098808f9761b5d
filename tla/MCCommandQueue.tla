---------------------------- MODULE MCCommandQueue ----------------------------
(* CommandQueue on small instances.                                          *)
EXTENDS CommandQueue

CONSTANTS slow, urgent, direct

\* The urgent request has the higher priority; the others share the lowest.
TwoPriorities == [c \in Request |-> IF c = urgent THEN 1 ELSE 0]
=============================================================================
