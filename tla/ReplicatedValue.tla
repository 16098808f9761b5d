--------------------------- MODULE ReplicatedValue ---------------------------
(***************************************************************************)
(* What a client is promised about the values of an object it is aware of: *)
(* it sees nothing of them, or for each one a value the server has had,    *)
(* and what it sees never goes back to an older one.  A value is the       *)
(* number of writes that made it; seen: 0 for nothing, n + 1 for value n.  *)
(***************************************************************************)
EXTENDS Naturals

CONSTANTS Clients, Cells

VARIABLES value, seen

Init ==
    /\ value = [x \in Cells |-> 0]
    /\ seen = [c \in Clients |-> [x \in Cells |-> 0]]

Write ==
    /\ \E x \in Cells : value' = [value EXCEPT ![x] = @ + 1]
    /\ UNCHANGED seen

Show ==
    /\ \A c \in Clients, x \in Cells : seen'[c][x] \in seen[c][x] .. value[x] + 1
    /\ UNCHANGED value

\* The object is created anew on the client.
Forget(c) ==
    /\ seen' = [seen EXCEPT ![c] = [x \in Cells |-> 0]]
    /\ UNCHANGED value

Next == Write \/ Show \/ \E c \in Clients : Forget(c)

Spec == Init /\ [][Next]_<<value, seen>>
=============================================================================
