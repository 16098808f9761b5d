--------------------------- MODULE MCCommandCreation ---------------------------
(* Two questions about a player's commands, which have no state in common:   *)
(* how they are created and run under their locks, in CommandCreation, and   *)
(* whether they may run, in CommandChecks.                                   *)
EXTENDS CommandCreation, CommandChecks

CONSTANTS r1, r2, r3, attack, stand, defaultattack

VARIABLE part    \* which of them a behaviour is about

\* Two requests for the combat command, one for another.
CombatRequests == [r \in Request |-> IF r = r3 THEN stand ELSE attack]

\* A special attack, and a command for anything in sight.
MCRow ==
    [q \in Asked |->
        IF q = "special"
        THEN [needs |-> TRUE, ranged |-> TRUE, group |-> TRUE, type |-> 2, queued |-> TRUE,
              target |-> "creature"]
        ELSE [needs |-> FALSE, ranged |-> TRUE, group |-> TRUE, type |-> 1, queued |-> FALSE,
              target |-> "tangible"]]

CommandsInit ==
    /\ Init /\ ChecksInit /\ part \in {"creation", "checks"}
    /\ part = "creation" => mask = [q \in Asked |-> {}]
CommandsNext ==
    /\ \/ part = "creation" /\ Next /\ UNCHANGED checksVars
       \/ part = "checks" /\ ChecksNext /\ UNCHANGED factoryVars
    /\ UNCHANGED part
CommandsSpec ==
    CommandsInit /\ [][CommandsNext]_<<factoryVars, checksVars, part>> /\ Fairness
=============================================================================
