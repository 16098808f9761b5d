----------------------------- MODULE MCSoeSession -----------------------------
(* SoeSession against an arbitrary remote end, on a small instance: sequence *)
(* numbers wrap at 3, so stale and wrapped numbers meet.  In one behaviour   *)
(* the remote end sends data, in another it acknowledges what is pushed to   *)
(* it: the two halves of a session share the strand and nothing else.        *)
EXTENDS SoeSession, TLC

CONSTANTS m1, m2, r1, r2    \* messages pushed to the remote end, and its own

Simple1(op, seq, body) == [op |-> op, seq |-> seq, body |-> body]
Sealed(p) == [packet |-> p, sealed |-> TRUE]
Plain(p)  == [packet |-> p, sealed |-> FALSE]

SessionOpen == Plain(Simple1("SessionRequest", 0, <<>>))

Numbered(op, body) == {Sealed(Simple1(op, s, body)) : s \in SeqNo}
Bundle == Sealed([op |-> "MultiPacket", seq |-> 0,
                  body |-> <<Simple1("ChildDataA", 1, <<r1>>), Simple1("Ping", 0, <<>>)>>])

\* Data and fragments of every number, a bundle, what closes the session and
\* what is refused or ignored.
DataSent ==
    {SessionOpen, Bundle, Plain(Simple1("SessionResponse", 0, <<>>)),
     Sealed(Simple1("GameMessage", 0, <<r2>>))}
    \cup {Sealed(Simple1(op, 0, <<>>)) : op \in {"Disconnect", "NetStats"}}
    \cup Numbered("ChildDataA", <<r1>>) \cup Numbered("DataFragA", <<r1>>)

\* Acknowledgements and out-of-order reports of every number.
AcksSent == {SessionOpen} \cup Numbered("AckA", <<>>) \cup Numbered("OutOfOrderA", <<>>)

MCInbound == DataSent \cup AcksSent

VARIABLE remote    \* what the remote end does, throughout

Arrived == {[packet |-> strand[i].packet, sealed |-> strand[i].sealed] :
                i \in {j \in DOMAIN strand : strand[j].run = "protocol"}}

RemoteInit ==
    /\ Init
    /\ \/ remote = "data" /\ receive_buffer_size = 1
       \/ remote = "acks"

RemoteNext ==
    /\ Next
    /\ IF remote = "data"
       THEN Arrived' \subseteq DataSent /\ pushed' = <<>> /\ receive_buffer_size' = 1
       ELSE /\ Arrived' \subseteq AcksSent /\ pushed' \in Seq({m1, m2})
            /\ connected' => receive_buffer_size' = 2
    /\ UNCHANGED remote

RemoteSpec == RemoteInit /\ [][RemoteNext]_<<sessionVars, remote>>

Symmetry == Permutations({m1, m2})
=============================================================================
