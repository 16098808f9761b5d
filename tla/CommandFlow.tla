------------------------------ MODULE CommandFlow ------------------------------
(* What a command queue promises its controlled object: one command of the   *)
(* flow at a time, and the next one only after the previous one's time.      *)
CONSTANTS Flow, NoCommand

VARIABLES
    phase,      \* "free", "running" or "waiting" for the command's time
    current     \* the command of the flow, NoCommand when free

flowVars == <<phase, current>>

Init == phase = "free" /\ current = NoCommand

Start(c) ==
    /\ phase = "free"
    /\ phase' = "running" /\ current' = c

Wait ==
    /\ phase = "running"
    /\ phase' = "waiting" /\ UNCHANGED current

TimeIsUp ==
    /\ phase = "waiting"
    /\ phase' = "free" /\ current' = NoCommand

Next == Wait \/ TimeIsUp \/ \E c \in Flow : Start(c)

Spec == Init /\ [][Next]_flowVars
=============================================================================
