------------------------------ MODULE SoeSession ------------------------------
(***************************************************************************)
(* One server-side SOE session (anh/network/soe/session.cc): the handlers  *)
(* that run on its strand, the Update that the owning service's timer runs *)
(* on another thread, the application pushing messages, and Close.  The    *)
(* remote end is arbitrary: it may send any datagram of Inbound.           *)
(*                                                                         *)
(* An application message is a member of Payload, of one size unit.  A     *)
(* packet's body is the sequence of messages it carries; a MultiPacket's   *)
(* body is the sequence of packets it bundles.                             *)
(***************************************************************************)
EXTENDS Integers, Sequences

CONSTANTS
    Payload,        \* application messages
    Inbound,        \* the datagrams the remote end may send
    SeqModulus,         \* sequence numbers are uint16_t: 65536 in the code
    KeyShift,       \* how decoding without the key displaces a sequence number
    BufferSizes,    \* receive_buffer_size_, in messages per packet
    FragLen,        \* bytes one inbound fragment adds to the reassembly
    FragTotal,      \* total the reassembly reads (the opcode bytes: 0x0D00)
    LenMod,         \* the reassembly lengths are uint16_t: 65536 in the code
    MaxPush,        \* bound: messages the application sends
    MaxAccept,      \* bound: sequences accepted, messages delivered, then input stops
    StrandCap       \* bound: handlers queued before the outside world waits

SeqNo == 0 .. SeqModulus - 1

DataOps   == {"ChildDataA", "DataFragA"}
SimpleOps == DataOps \cup {"AckA", "OutOfOrderA", "Ping", "NetStats",
                           "Disconnect", "FatalError", "SessionRequest",
                           "SessionResponse", "GameMessage"}

Simple == [op : SimpleOps, seq : SeqNo, body : Seq(Payload)]
Data   == [op : DataOps, seq : SeqNo, body : Seq(Payload)]
Multi  == [op : {"MultiPacket"}, seq : {0}, body : Seq(Simple)]
Packet == Simple \cup Multi

\* A sealed datagram went through compression, encryption and the crc footer.
Datagram == [packet : Packet, sealed : BOOLEAN]

\* A handler posted on the strand: HandleProtocolMessageInternal,
\* HandleMessageInternal or SendSoePacketInternal, with its argument.
Handler == [run : {"protocol", "message", "send"},
            packet : Packet, sealed : BOOLEAN]

ASSUME ConstantsAssumption ==
    /\ Inbound \subseteq Datagram
    /\ SeqModulus \in Nat /\ SeqModulus > 1
    /\ KeyShift \in 1 .. SeqModulus - 1
    /\ BufferSizes \subseteq Nat \ {0}
    /\ FragLen \in Nat /\ FragTotal \in Nat \ {0}
    /\ LenMod \in Nat \ {0} /\ FragTotal < LenMod
    /\ MaxPush \in Nat /\ MaxAccept \in Nat /\ StrandCap \in Nat

VARIABLES
    connected,                  \* connected_
    registered,                 \* the owning service's session map holds it
    receive_buffer_size,        \* receive_buffer_size_, in messages
    strand,                     \* handlers posted on strand_, oldest first
    outgoing,                   \* outgoing_data_messages_
    updating,                   \* packets Update has built, not yet numbered
    storing,                    \* the packet posted but not yet push_back'ed
    sent,                       \* sent_messages_
    server_sequence,            \* server_sequence_
    next_client_sequence,       \* next_client_sequence_
    last_acknowledged_sequence, \* last_acknowledged_sequence_
    incoming_fragmented_total_len,
    incoming_fragmented_curr_len,
    downlink                    \* datagrams handed to server_->SendTo

\* History, read by the properties only.
VARIABLES
    pushed,     \* every message the application gave to SendTo
    sequenced,  \* every packet given a sequence number, in that order
    accepted,   \* how many inbound sequences were accepted
    delivered   \* the messages given to server_->HandleMessage

linkVars == <<connected, registered, receive_buffer_size>>
sendVars == <<outgoing, updating, storing, server_sequence, pushed, sequenced>>
recvVars == <<next_client_sequence, incoming_fragmented_total_len,
              incoming_fragmented_curr_len, accepted, delivered>>
ackVars  == <<sent, last_acknowledged_sequence>>
sessionVars == <<linkVars, sendVars, recvVars, ackVars, strand, downlink>>

TypeOK ==
    /\ connected \in BOOLEAN /\ registered \in BOOLEAN
    /\ receive_buffer_size \in BufferSizes
    /\ strand \in Seq(Handler)
    /\ outgoing \in Seq(Payload) /\ pushed \in Seq(Payload)
    /\ updating \in Seq([op : DataOps, body : Seq(Payload)])
    /\ storing \in Seq(Data) /\ Len(storing) <= 1
    /\ sent \in Seq(Data) /\ sequenced \in Seq(Data)
    /\ server_sequence \in SeqNo /\ next_client_sequence \in SeqNo
    /\ last_acknowledged_sequence \in SeqNo
    /\ incoming_fragmented_total_len \in {0, FragTotal}
    /\ incoming_fragmented_curr_len \in 0 .. LenMod - 1
    /\ accepted \in Nat /\ delivered \in Seq(Payload)
    /\ downlink \subseteq Datagram

Init ==
    /\ connected = FALSE /\ registered = TRUE
    /\ receive_buffer_size \in BufferSizes   \* uninitialised in the code
    /\ strand = <<>>
    /\ outgoing = <<>> /\ updating = <<>> /\ storing = <<>> /\ sent = <<>>
    /\ server_sequence = 0 /\ next_client_sequence = 0
    /\ last_acknowledged_sequence = 0
    /\ incoming_fragmented_total_len = 0 /\ incoming_fragmented_curr_len = 0
    /\ downlink = {}
    /\ pushed = <<>> /\ sequenced = <<>> /\ accepted = 0 /\ delivered = <<>>

-----------------------------------------------------------------------------
(* Packets and the strand. *)

\* Incrementing a uint16_t.  Mutants: wider than 16 bits; one too many; stuck.
After_NoWrap(seq) == seq + 1
After_Skip(seq) == (seq + 2) % SeqModulus
After_Stuck(seq) == seq
After(seq) == (seq + 1) % SeqModulus

Ctl(op, seq) == [op |-> op, seq |-> seq, body |-> <<>>]

Protocol(d) == [run |-> "protocol", packet |-> d.packet, sealed |-> d.sealed]
Message(p, sealed) == [run |-> "message", packet |-> p, sealed |-> sealed]
SendSoePacket(p)   == [run |-> "send", packet |-> p, sealed |-> FALSE]

\* The strand runs the handler at its head; the head has this kind.
Runs(run) == strand # <<>> /\ Head(strand).run = run

\* The handler at the head finishes, having posted the handlers of posts.
Finish(posts) == strand' = Tail(strand) \o posts

\* What a handler reads from a packet nobody decrypted: the opcode is in
\* clear, a sequence number is displaced, the rest is noise.
Undecoded(p) ==
    IF p.op = "MultiPacket" THEN [p EXCEPT !.body = <<>>]
    ELSE [p EXCEPT !.seq = (@ + KeyShift) % SeqModulus, !.body = <<>>]

HandlerPacket ==
    LET item == Head(strand)
    IN IF item.sealed THEN Undecoded(item.packet) ELSE item.packet

Handles(op) == Runs("message") /\ HandlerPacket.op = op

-----------------------------------------------------------------------------
(* HandleProtocolMessage: the socket hands a datagram to the strand.  The  *)
(* service routes datagrams here only while its map holds the session.     *)

HandleProtocolMessage(d) ==
    /\ registered
    /\ Len(strand) < StrandCap
    /\ accepted < MaxAccept /\ Len(delivered) < MaxAccept
    /\ strand' = Append(strand, Protocol(d))
    /\ UNCHANGED <<linkVars, sendVars, recvVars, ackVars, downlink>>

\* The filters run against the connected_ flag of this moment, and the
\* message goes to the back of the strand.  An unsealed datagram fails the
\* crc check of a connected session.
HandleProtocolMessageInternal ==
    /\ Runs("protocol")
    /\ LET item == Head(strand)
       IN IF connected
          THEN IF item.sealed THEN Finish(<<Message(item.packet, FALSE)>>)
                              ELSE Finish(<<>>)
          ELSE Finish(<<Message(item.packet, item.sealed)>>)
    /\ UNCHANGED <<linkVars, sendVars, recvVars, ackVars, downlink>>

SendSoePacketInternal ==
    /\ Runs("send")
    /\ downlink' = downlink
           \cup {[packet |-> Head(strand).packet, sealed |-> TRUE]}
    /\ Finish(<<>>)
    /\ UNCHANGED <<linkVars, sendVars, recvVars, ackVars>>

-----------------------------------------------------------------------------
(* The handlers HandleMessageInternal dispatches to. *)

handleSessionRequest ==
    /\ Handles("SessionRequest")
    /\ receive_buffer_size' \in BufferSizes  \* the packet's client_udp_buffer_size
    /\ downlink' = downlink
           \cup {[packet |-> Ctl("SessionResponse", 0), sealed |-> FALSE]}
    /\ connected' = TRUE
    /\ Finish(<<>>)
    /\ UNCHANGED <<registered, sendVars, recvVars, ackVars>>

\* Each bundled packet is posted to the back of the strand.
handleMultiPacket ==
    /\ Handles("MultiPacket")
    /\ LET parts == HandlerPacket.body
       IN Finish([i \in DOMAIN parts |-> Message(parts[i], FALSE)])
    /\ UNCHANGED <<linkVars, sendVars, recvVars, ackVars, downlink>>

\* Mutants: a window instead of the due number; already accepted numbers too.
SequenceIsValid_Ahead(seq) == next_client_sequence <= seq
SequenceIsValid_Behind(seq) == next_client_sequence >= seq
SequenceIsValid(seq) == next_client_sequence = seq

AcknowledgeSequence(seq) ==
    /\ next_client_sequence' = After(seq)
    /\ accepted' = accepted + 1

handleChildDataA ==
    /\ Handles("ChildDataA")
    /\ LET p == HandlerPacket
       IN IF SequenceIsValid(p.seq)
          THEN /\ AcknowledgeSequence(p.seq)
               /\ delivered' = delivered \o p.body
               /\ Finish(<<SendSoePacket(Ctl("AckA", p.seq))>>)
          ELSE /\ Finish(<<SendSoePacket(Ctl("OutOfOrderA", p.seq))>>)
               /\ UNCHANGED <<next_client_sequence, accepted, delivered>>
    /\ UNCHANGED <<incoming_fragmented_total_len, incoming_fragmented_curr_len,
                   linkVars, sendVars, ackVars, downlink>>

\* DataFragA keeps the packet from its first byte, so the total length is
\* read from the opcode (FragTotal) and the reassembled bytes parse as a
\* ChildDataA of sequence 0 whose body is not what the remote end sent.
handleDataFragA ==
    /\ Handles("DataFragA")
    /\ LET seq  == HandlerPacket.seq
           curr == (incoming_fragmented_curr_len + FragLen) % LenMod
           ack  == SendSoePacket(Ctl("AckA", seq))
       IN \/ /\ ~SequenceIsValid(seq)
             /\ Finish(<<SendSoePacket(Ctl("OutOfOrderA", seq))>>)
             /\ UNCHANGED recvVars
          \/ /\ SequenceIsValid(seq)
             /\ incoming_fragmented_total_len = 0
             /\ AcknowledgeSequence(seq)
             /\ incoming_fragmented_total_len' = FragTotal
             /\ incoming_fragmented_curr_len' = curr
             /\ Finish(<<ack>>)
             /\ UNCHANGED delivered
          \/ /\ SequenceIsValid(seq)
             /\ incoming_fragmented_total_len > 0 /\ curr # FragTotal
             /\ AcknowledgeSequence(seq)
             /\ incoming_fragmented_curr_len' = curr
             /\ Finish(<<ack>>)
             /\ UNCHANGED <<incoming_fragmented_total_len, delivered>>
          \/ /\ SequenceIsValid(seq)
             /\ incoming_fragmented_total_len > 0 /\ curr = FragTotal
             /\ incoming_fragmented_total_len' = 0
             /\ incoming_fragmented_curr_len' = 0
             /\ IF After(seq) = 0
                THEN \* sequence 0 happens to be due: noise is delivered
                     /\ next_client_sequence' = After(0)
                     /\ accepted' = accepted + 2
                     /\ \E noise \in Payload : delivered' = Append(delivered, noise)
                     /\ Finish(<<ack, SendSoePacket(Ctl("AckA", 0))>>)
                ELSE /\ AcknowledgeSequence(seq)
                     /\ Finish(<<ack, SendSoePacket(Ctl("OutOfOrderA", 0))>>)
                     /\ UNCHANGED delivered
    /\ UNCHANGED <<linkVars, sendVars, ackVars, downlink>>

\* erase(begin, it): what precedes the acknowledged packet goes, the packet
\* itself stays; when no stored packet has the number, everything goes.
Stored(seq) == {i \in DOMAIN sent : sent[i].seq = seq}

\* Mutants: only the named packet is erased; the named packet goes too.
EraseAcknowledged_OnlyIt(seq) ==
    sent' = SelectSeq(sent, LAMBDA p : p.seq # seq)
EraseAcknowledged_Inclusive(seq) ==
    \/ Stored(seq) = {} /\ sent' = <<>>
    \/ \E i \in Stored(seq) : sent' = SubSeq(sent, i + 1, Len(sent))
EraseAcknowledged(seq) ==
    \/ /\ Stored(seq) = {}
       /\ sent' = <<>>
    \/ \E i \in Stored(seq) :
          /\ \A j \in Stored(seq) : i <= j
          /\ sent' = SubSeq(sent, i, Len(sent))

handleAckA ==
    /\ Handles("AckA")
    /\ EraseAcknowledged(HandlerPacket.seq)
    /\ last_acknowledged_sequence' = HandlerPacket.seq
    /\ Finish(<<>>)
    /\ UNCHANGED <<linkVars, sendVars, recvVars, downlink>>

handleOutOfOrderA ==
    /\ Handles("OutOfOrderA")
    /\ Finish([i \in DOMAIN sent |-> SendSoePacket(sent[i])])
    /\ UNCHANGED <<linkVars, sendVars, recvVars, ackVars, downlink>>

handlePing ==
    /\ Handles("Ping")
    /\ Finish(<<SendSoePacket(Ctl("Ping", 0))>>)
    /\ UNCHANGED <<linkVars, sendVars, recvVars, ackVars, downlink>>

handleNetStatsClient ==
    /\ Handles("NetStats")
    /\ Finish(<<SendSoePacket(Ctl("NetStats", 0))>>)
    /\ UNCHANGED <<linkVars, sendVars, recvVars, ackVars, downlink>>

\* Close, on the strand: a second Close finds connected_ clear.
handleDisconnect ==
    /\ Handles("Disconnect") \/ Handles("FatalError")
    /\ IF connected
       THEN /\ connected' = FALSE
            /\ registered' = FALSE
            /\ Finish(<<SendSoePacket(Ctl("Disconnect", 0))>>)
       ELSE /\ Finish(<<>>)
            /\ UNCHANGED <<connected, registered>>
    /\ UNCHANGED <<receive_buffer_size, sendVars, recvVars, ackVars, downlink>>

\* An opcode HandleMessageInternal does not dispatch on is logged; a message
\* that does not begin with 0 is a game message outside the data channel and
\* goes to the server without a sequence check.
UnhandledOpcode ==
    /\ Handles("SessionResponse")
    /\ Finish(<<>>)
    /\ UNCHANGED <<linkVars, sendVars, recvVars, ackVars, downlink>>

GameMessage ==
    /\ Handles("GameMessage")
    /\ delivered' = delivered \o HandlerPacket.body
    /\ Finish(<<>>)
    /\ UNCHANGED <<next_client_sequence, accepted,
                   incoming_fragmented_total_len, incoming_fragmented_curr_len,
                   linkVars, sendVars, ackVars, downlink>>

-----------------------------------------------------------------------------
(* Other threads. *)

\* Close, called by the owning service on another thread.
Close ==
    /\ connected
    /\ connected' = FALSE
    /\ registered' = FALSE
    /\ strand' = Append(strand, SendSoePacket(Ctl("Disconnect", 0)))
    /\ UNCHANGED <<receive_buffer_size, sendVars, recvVars, ackVars, downlink>>

SendTo(m) ==
    /\ Len(pushed) < MaxPush
    /\ outgoing' = Append(outgoing, m)
    /\ pushed' = Append(pushed, m)
    /\ UNCHANGED <<updating, storing, server_sequence, sequenced,
                   linkVars, recvVars, ackVars, strand, downlink>>

\* PackDataChannelMessages and SplitDataChannelMessage: one packet when the
\* messages fit, else as many fragments as it takes.
\* The mutant of Chunk repeats the last message of the one before.
Chunk_Overlap(batch, i) ==
    SubSeq(batch, IF i = 1 THEN 1 ELSE (i - 1) * receive_buffer_size,
           IF i * receive_buffer_size < Len(batch)
           THEN i * receive_buffer_size ELSE Len(batch))
Chunk(batch, i) ==
    SubSeq(batch, (i - 1) * receive_buffer_size + 1,
           IF i * receive_buffer_size < Len(batch)
           THEN i * receive_buffer_size ELSE Len(batch))

Packets(batch) ==
    IF Len(batch) <= receive_buffer_size
    THEN <<[op |-> "ChildDataA", body |-> batch]>>
    ELSE [i \in 1 .. (Len(batch) + receive_buffer_size - 1) \div receive_buffer_size
            |-> [op |-> "DataFragA", body |-> Chunk(batch, i)]]

\* Update takes what the queue holds at that moment.
\* The mutant of HasWork waits for a second message.
HasWork_OffByOne == Len(outgoing) > 1
HasWork == outgoing # <<>>

Update ==
    /\ registered
    /\ updating = <<>> /\ storing = <<>> /\ HasWork
    /\ updating' = Packets(outgoing)
    /\ outgoing' = <<>>
    /\ UNCHANGED <<storing, server_sequence, pushed, sequenced,
                   linkVars, recvVars, ackVars, strand, downlink>>

\* SendSequencedMessage_ posts the packet first ...
SendSequencedMessage ==
    /\ updating # <<>> /\ storing = <<>>
    /\ Len(strand) < StrandCap
    /\ LET p == [op   |-> Head(updating).op,
                 seq  |-> server_sequence,
                 body |-> Head(updating).body]
       IN /\ strand' = Append(strand, SendSoePacket(p))
          /\ storing' = <<p>>
          /\ sequenced' = Append(sequenced, p)
    /\ server_sequence' = After(server_sequence)
    /\ updating' = Tail(updating)
    /\ UNCHANGED <<outgoing, pushed, linkVars, recvVars, ackVars, downlink>>

\* ... and stores it afterwards, while the strand may already be running.
\* The mutant stores what the send moved from.
StoreSentMessage_MovedFrom ==
    /\ storing # <<>>
    /\ sent' = Append(sent, [storing[1] EXCEPT !.body = <<>>])
    /\ storing' = <<>>
    /\ UNCHANGED <<outgoing, updating, server_sequence, pushed, sequenced,
                   last_acknowledged_sequence, linkVars, recvVars, strand, downlink>>
StoreSentMessage ==
    /\ storing # <<>>
    /\ sent' = sent \o storing
    /\ storing' = <<>>
    /\ UNCHANGED <<outgoing, updating, server_sequence, pushed, sequenced,
                   last_acknowledged_sequence, linkVars, recvVars, strand, downlink>>

-----------------------------------------------------------------------------
HandleMessageInternal ==
    \/ handleSessionRequest \/ handleMultiPacket
    \/ handleChildDataA \/ handleDataFragA
    \/ handleAckA \/ handleOutOfOrderA
    \/ handlePing \/ handleNetStatsClient
    \/ handleDisconnect \/ UnhandledOpcode \/ GameMessage

Strand == HandleProtocolMessageInternal \/ HandleMessageInternal
              \/ SendSoePacketInternal

ServiceTimer == Update \/ SendSequencedMessage \/ StoreSentMessage

Next ==
    \/ \E d \in Inbound : HandleProtocolMessage(d)
    \/ Strand
    \/ ServiceTimer
    \/ \E m \in Payload : SendTo(m)
    \/ Close

Spec == Init /\ [][Next]_sessionVars

-----------------------------------------------------------------------------
(* Properties. *)

\* The due sequence number is the number of accepted ones, and every
\* acknowledgement on its way out is of a sequence that was accepted: the
\* remote end never drops a packet this end still needs (AcknowledgeSequence_,
\* handleChildDataA_, handleDataFragA_).
WasAccepted(seq) == \E n \in 0 .. accepted - 1 : n % SeqModulus = seq

AckOnlyAccepted ==
    /\ next_client_sequence = accepted % SeqModulus
    /\ \A i \in DOMAIN strand :
          strand[i].run = "send" /\ strand[i].packet.op = "AckA"
              => WasAccepted(strand[i].packet.seq)
    /\ \A d \in downlink : d.packet.op = "AckA" => WasAccepted(d.packet.seq)

\* The packets kept for resending are a run of consecutively numbered ones
\* that ends with the latest: an acknowledgement, an out-of-order report and
\* the storing thread never leave a gap or a stale tail in sent_messages_.
StoredCount == Len(sequenced) - Len(storing)

SentIsLatestRun ==
    /\ Len(sent) <= StoredCount
    /\ \A i \in DOMAIN sent : sent[i] = sequenced[StoredCount - Len(sent) + i]
    /\ \A i \in DOMAIN storing : storing[i] = sequenced[StoredCount + i]

\* The nth packet Update builds gets number n - 1, and a data packet on its way
\* out, first copy or resent, is exactly the one its number was given to.
NumberedInOrder ==
    /\ \A n \in DOMAIN sequenced : sequenced[n].seq = (n - 1) % SeqModulus
    /\ server_sequence = Len(sequenced) % SeqModulus

IsSequenced(p) == \E n \in DOMAIN sequenced : sequenced[n] = p

OnlySequencedData ==
    /\ NumberedInOrder
    /\ \A i \in DOMAIN strand :
          strand[i].run = "send" /\ strand[i].packet.op \in DataOps
              => IsSequenced(strand[i].packet)
    /\ \A d \in downlink : d.packet.op \in DataOps => IsSequenced(d.packet)

\* What may be resent is the gapless latest part of what was numbered, and what
\* goes out is as it was numbered, also when a resend overlaps with Update
\* numbering new packets (SendSequencedMessage_, handleAckA_, handleOutOfOrderA_).
ResendsAreExact == SentIsLatestRun /\ OnlySequencedData
====
