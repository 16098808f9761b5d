------------------------- MODULE MCObjectReplication -------------------------
(* Small instances: a posture (view 3) and the health stat (view 6),
   the friends list in view 6. *)
EXTENDS ObjectReplication

MCCells == {"posture", "health"}
MCFieldOf == [x \in MCCells |-> IF x = "posture" THEN "Posture" ELSE "StatCurrent"]
MCFields == {"Posture", "StatCurrent"}
MCViewOrder == <<3, 6>>
MCViewOf == [f \in MCFields \cup {"friends"} |-> IF f = "Posture" THEN 3 ELSE 6]
=============================================================================
