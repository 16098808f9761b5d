--------------------------- MODULE MCConnectedWorld ---------------------------
(* Two questions about the clients that have no state in common: who plays    *)
(* whom, in ConnectionService, and who is shown what, in Scenes.              *)
EXTENDS MCConnectionService, Scenes, TLC

VARIABLE part    \* which of them a behaviour is about

MCContents == (10 :> {}) @@ (20 :> {21})
MCSceneOf == [o \in Character |-> "corellia"]

WorldInit == Init /\ ScenesInit /\ part \in {"sessions", "scenes"}

WorldNext ==
    /\ \/ part = "sessions" /\ Next /\ UNCHANGED scenesVars
       \/ part = "scenes" /\ ScenesNext /\ UNCHANGED serviceVars
    /\ UNCHANGED part

WorldSpec == WorldInit /\ [][WorldNext]_<<serviceVars, scenesVars, part>>

Symmetry == Permutations(Client)
=============================================================================
