------------------------------ MODULE SoeChannel ------------------------------
(***************************************************************************)
(* SoeSession joined to the game client over UDP.  The client is outside   *)
(* the repository: it opens the session, numbers its data, repeats what is *)
(* not acknowledged, acknowledges what it receives in order and reports    *)
(* what it receives early.  The network may lose, repeat and reorder; with *)
(* InOrderUplink the client's datagrams are only lost, never repeated or   *)
(* reordered.                                                              *)
(***************************************************************************)
EXTENDS SoeSession, SequencesExt

CONSTANTS
    InOrderUplink,  \* the client-to-server path keeps the order
    ClientScript,   \* what the client sends, in order
    ServerScript,   \* what the game server pushes, in order
    MaxUplink       \* bound: control datagrams the client sends on an
                    \* ordered path

MaxData == Len(ClientScript)

Sealed(p) == [packet |-> p, sealed |-> TRUE]
Plain(p)  == [packet |-> p, sealed |-> FALSE]

\* The client's data, each message in a packet, and two such packets in one.
DataPacket(n) == [op |-> "ChildDataA", seq |-> n, body |-> <<ClientScript[n + 1]>>]
Bundle(n) == [op |-> "MultiPacket", seq |-> 0, body |-> <<DataPacket(n), DataPacket(n + 1)>>]

\* What the client may send.
ClientDatagrams ==
    {Plain(Ctl("SessionRequest", 0)), Sealed(Ctl("Disconnect", 0))}
    \cup {Sealed(Ctl("AckA", n)) : n \in SeqNo}
    \cup {Sealed(Ctl("OutOfOrderA", n)) : n \in SeqNo}
    \cup {Sealed(DataPacket(n)) : n \in 0 .. MaxData - 1}
    \cup {Sealed(Bundle(n)) : n \in 0 .. MaxData - 2}

ASSUME ChannelAssumption ==
    /\ InOrderUplink \in BOOLEAN /\ MaxUplink \in Nat
    /\ ClientScript \in Seq(Payload) /\ ServerScript \in Seq(Payload)
    /\ Len(ServerScript) <= MaxPush
    /\ ClientDatagrams \subseteq Inbound
    \* The client sends fewer packets than the key displaces a number by:
    \* no number, read undecoded, is one of the client's or the next after them.
    /\ MaxData < KeyShift /\ KeyShift + MaxData <= SeqModulus

VARIABLES
    clientState,    \* "closed", "requesting" or "open"
    offered,        \* the messages the client sent
    clientAcked,    \* the client's data below this number is acknowledged
    expected,       \* the server sequence number the client is waiting for
    received,       \* the bodies the client took, in order
    uplink,         \* client datagrams in the network
    spent           \* control datagrams sent on an ordered path

clientVars == <<clientState, offered, clientAcked, expected, received>>
channelVars == <<sessionVars, clientVars, uplink, spent>>

ChannelTypeOK ==
    /\ TypeOK
    /\ clientState \in {"closed", "requesting", "open"}
    /\ offered \in Seq(Payload)
    /\ clientAcked \in 0 .. Len(offered)
    /\ expected \in Nat /\ received \in Seq(Seq(Payload))
    /\ uplink \subseteq Datagram /\ spent \in Nat

ChannelInit ==
    /\ Init
    /\ clientState = "closed" /\ offered = <<>> /\ clientAcked = 0
    /\ expected = 0 /\ received = <<>> /\ uplink = {} /\ spent = 0

-----------------------------------------------------------------------------
(* The network. *)

ClientSends(d) ==
    \/ /\ ~InOrderUplink
       /\ uplink' = uplink \cup {d}
       /\ UNCHANGED <<sessionVars, spent>>
    \/ /\ InOrderUplink /\ spent < MaxUplink
       /\ spent' = spent + 1
       /\ \/ HandleProtocolMessage(d)
          \/ UNCHANGED sessionVars         \* lost
       /\ UNCHANGED uplink

\* A datagram in the network arrives, now or again later.
Arrive(d) ==
    /\ d \in uplink
    /\ HandleProtocolMessage(d)
    /\ UNCHANGED <<clientVars, uplink, spent>>

-----------------------------------------------------------------------------
(* The client. *)

RequestSession ==
    /\ clientState \in {"closed", "requesting"} /\ offered = <<>>
    /\ clientState' = "requesting"
    /\ ClientSends(Plain(Ctl("SessionRequest", 0)))
    /\ UNCHANGED <<offered, clientAcked, expected, received>>

SessionOpens ==
    /\ clientState = "requesting"
    /\ Plain(Ctl("SessionResponse", 0)) \in downlink
    /\ clientState' = "open"
    /\ UNCHANGED <<sessionVars, offered, clientAcked, expected, received,
                   uplink, spent>>

SendData ==
    /\ clientState = "open" /\ Len(offered) < MaxData
    /\ offered' = Append(offered, ClientScript[Len(offered) + 1])
    /\ ClientSends(Sealed(DataPacket(Len(offered))))
    /\ UNCHANGED <<clientState, clientAcked, expected, received>>

\* Repeating one unacknowledged packet, or bundling two.
ResendData(n) ==
    /\ clientState = "open" /\ n \in clientAcked .. Len(offered) - 1
    /\ ClientSends(Sealed(DataPacket(n)))
    /\ UNCHANGED clientVars

ResendBundle(n) ==
    /\ clientState = "open" /\ n \in clientAcked .. Len(offered) - 2
    /\ ClientSends(Sealed(Bundle(n)))
    /\ UNCHANGED clientVars

ReceiveAck(d) ==
    /\ clientState = "open" /\ d \in downlink /\ d.packet.op = "AckA"
    /\ \E n \in clientAcked .. Len(offered) - 1 :
          /\ d.packet.seq = n % SeqModulus
          /\ clientAcked' = n + 1
    /\ UNCHANGED <<sessionVars, clientState, offered, expected, received,
                   uplink, spent>>

\* Server data: taken and acknowledged when due, acknowledged as far as the
\* client got when old, reported when early.
ReceiveData(d) ==
    /\ clientState = "open" /\ d \in downlink /\ d.packet.op \in DataOps
    /\ \/ /\ d.packet.seq = expected % SeqModulus
          /\ expected' = expected + 1
          /\ received' = Append(received, d.packet.body)
          /\ ClientSends(Sealed(Ctl("AckA", d.packet.seq)))
       \/ /\ d.packet.seq < expected
          /\ ClientSends(Sealed(Ctl("AckA", (expected - 1) % SeqModulus)))
          /\ UNCHANGED <<expected, received>>
       \/ /\ d.packet.seq > expected
          /\ ClientSends(Sealed(Ctl("OutOfOrderA", d.packet.seq)))
          /\ UNCHANGED <<expected, received>>
    /\ UNCHANGED <<clientState, offered, clientAcked>>

Leave ==
    /\ clientState = "open"
    /\ clientState' = "closed"
    /\ ClientSends(Sealed(Ctl("Disconnect", 0)))
    /\ UNCHANGED <<offered, clientAcked, expected, received>>

DisconnectedByServer ==
    /\ clientState = "open"
    /\ Sealed(Ctl("Disconnect", 0)) \in downlink
    /\ clientState' = "closed"
    /\ UNCHANGED <<sessionVars, offered, clientAcked, expected, received,
                   uplink, spent>>

Client ==
    \/ RequestSession \/ SessionOpens
    \/ SendData
    \/ \E n \in 0 .. MaxData - 1 : ResendData(n) \/ ResendBundle(n)
    \/ \E d \in downlink : ReceiveAck(d) \/ ReceiveData(d)
    \/ Leave \/ DisconnectedByServer

Server ==
    /\ \/ Strand \/ ServiceTimer \/ Close
       \/ /\ Len(pushed) < Len(ServerScript)
          /\ SendTo(ServerScript[Len(pushed) + 1])
    /\ UNCHANGED <<clientVars, uplink, spent>>

ChannelNext == Client \/ Server \/ \E d \in uplink : Arrive(d)

ChannelSpec == ChannelInit /\ [][ChannelNext]_channelVars

\* The io_service's threads run what is posted on the strand and the timer;
\* StrandCap is a bound of the model, so being held up by it is not allowed to
\* last.  A client repeats what is not acknowledged and the network does not
\* lose one datagram for ever.
Fairness ==
    /\ WF_channelVars(Strand /\ Server)
    /\ WF_channelVars(Update /\ Server)
    /\ SF_channelVars(SendSequencedMessage /\ Server)
    /\ WF_channelVars(StoreSentMessage /\ Server)
    /\ \A n \in 0 .. MaxData - 1 : SF_channelVars(Arrive(Sealed(DataPacket(n))))

FairChannelSpec == ChannelSpec /\ Fairness

-----------------------------------------------------------------------------
(* Properties. *)

\* Client to server: whatever the network and the strand's queue do, the game
\* server is given the client's messages in order, each once, none skipped.
ToServer == INSTANCE OrderedChannel WITH received <- delivered
DeliversInOrder == ToServer!Spec

\* While the session is open, a packet the client has not taken can be resent
\* on its next out-of-order report: it is in sent_messages_ from the moment
\* Update stored it (SendSequencedMessage_, handleAckA_).
UnacknowledgedAreKept ==
    registered =>
        \A n \in expected + 1 .. StoredCount :
            \E i \in DOMAIN sent : sent[i] = sequenced[n]

Bodies(packets) == [i \in DOMAIN packets |-> packets[i].body]

\* Between SendTo and its sequence number no message is lost, doubled or
\* overtaken: the numbered packets, what Update is working on and the queue
\* make up what was pushed (SendTo, Update, SendSequencedMessage_).
QueueKeepsEveryMessage ==
    FlattenSeq(Bodies(sequenced) \o Bodies(updating)) \o outgoing = pushed

\* Nothing is lost on its way to the client: no message before it is numbered, and no
\* numbered packet before the client has it (handleAckA_, handleOutOfOrderA_).
NothingIsLost == QueueKeepsEveryMessage /\ UnacknowledgedAreKept

\* Server to client: the client's application has, in order, the messages the
\* game server pushed, whatever batches and fragments Update made of them.
ClientTakesInOrder == IsPrefix(FlattenSeq(received), pushed)

\* A client that keeps repeating its data gets it to the game server, unless
\* the session is closed: a refused, bundled or overtaken packet is never the
\* end of it (handleMultiPacket_, SequenceIsValid_).
ClientDataArrives ==
    \A n \in 1 .. MaxData :
        (Len(offered) >= n) ~> (Len(delivered) >= n \/ ~registered)

\* What the game server pushes is numbered and put on the wire, unless the
\* session leaves the service's map first (SendTo, Update).
PushedIsSent ==
    \A n \in 1 .. MaxPush :
        (Len(pushed) >= n)
            ~> (\/ ~registered
                \/ /\ outgoing = <<>> /\ updating = <<>>
                   /\ \A i \in DOMAIN sequenced : Sealed(sequenced[i]) \in downlink)
=============================================================================
