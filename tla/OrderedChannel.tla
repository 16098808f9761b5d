---------------------------- MODULE OrderedChannel ----------------------------
(* What the SOE data channel promises in one direction: the messages one end *)
(* offers reach the other end in the order they were offered, each at most   *)
(* once, with nothing skipped.                                               *)
EXTENDS Naturals, Sequences

CONSTANT Payload

VARIABLES
    offered,    \* messages one end handed to the channel
    received    \* messages the other end's application was given

channelVars == <<offered, received>>

Init == offered = <<>> /\ received = <<>>

Offer(m) ==
    /\ offered' = Append(offered, m)
    /\ UNCHANGED received

Deliver ==
    /\ Len(received) < Len(offered)
    /\ received' = Append(received, offered[Len(received) + 1])
    /\ UNCHANGED offered

Next == Deliver \/ \E m \in Payload : Offer(m)

Spec == Init /\ [][Next]_channelVars
=============================================================================
