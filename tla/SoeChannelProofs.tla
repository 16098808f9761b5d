--------------------------- MODULE SoeChannelProofs ---------------------------
(***************************************************************************)
(* For any scripts, sizes and losses: every step of the channel is one of  *)
(* the session, so what is shown first, of the session with any remote     *)
(* end, holds with this client; the way up is the ordered channel of       *)
(* OrderedChannel; and on the way down what is pushed is numbered, and     *)
(* taken, in order and whole.  The two theorems about taking hold until    *)
(* the 2^16 sequence numbers are used up, and the one about what can be    *)
(* resent on a path that keeps the order: TLC shows that it fails          *)
(* otherwise.                                                              *)
(***************************************************************************)
EXTENDS SoeChannel, SequenceTheorems, WellFoundedInduction, TLAPS

-----------------------------------------------------------------------------
(* The session, for any remote end and any sizes.                            *)

USE ConstantsAssumption

LEMMA ModType == \A n \in Nat : n % SeqModulus \in SeqNo
BY DEF SeqNo

LEMMA AfterType == \A s \in SeqNo : After(s) \in SeqNo
BY DEF After, SeqNo

LEMMA CtlType == \A op \in SimpleOps, s \in SeqNo : Ctl(op, s) \in Simple
BY EmptySeq DEF Ctl, Simple

\* Posting on the strand, and finishing the handler at its head, keep it a
\* sequence of handlers.
LEMMA FinishType ==
    ASSUME strand \in Seq(Handler), strand # <<>>,
           NEW posts \in Seq(Handler), Finish(posts)
    PROVE  strand' \in Seq(Handler)
BY HeadTailProperties, ConcatProperties DEF Finish

\* What a handler is given is a packet of the kind its opcode says.
LEMMA HandlerPacketType ==
    ASSUME TypeOK, Runs("message")
    PROVE  /\ HandlerPacket \in Packet
           /\ HandlerPacket.op \in SimpleOps => HandlerPacket \in Simple
           /\ HandlerPacket.op = "MultiPacket" => HandlerPacket.body \in Seq(Simple)
<1>1. Head(strand) \in Handler
  BY HeadTailProperties DEF TypeOK, Runs
<1>2. ASSUME NEW p \in Simple PROVE Undecoded(p) \in Simple
  <2>1. p.op # "MultiPacket" /\ p.seq + KeyShift \in Nat
    BY DEF Simple, SimpleOps, DataOps, SeqNo
  <2>2. (p.seq + KeyShift) % SeqModulus \in SeqNo
    BY <2>1, ModType
  <2>3. Undecoded(p) = [p EXCEPT !.seq = (p.seq + KeyShift) % SeqModulus, !.body = <<>>]
    BY <2>1 DEF Undecoded
  <2>4. <<>> \in Seq(Payload)
    BY EmptySeq
  <2>5. QED
    BY <2>2, <2>3, <2>4 DEF Simple
<1>3. \A p \in Multi : Undecoded(p) \in Multi
  BY EmptySeq DEF Undecoded, Multi
<1>4. HandlerPacket \in Packet
  BY <1>1, <1>2, <1>3 DEF HandlerPacket, Handler, Packet
<1>5. \A p \in Packet : /\ p.op \in SimpleOps => p \in Simple
                        /\ p.op = "MultiPacket" => p \in Multi
  BY DEF Packet, Simple, Multi, SimpleOps, DataOps
<1>6. QED
  BY <1>4, <1>5 DEF Multi

\* Handlers that only finish, posting packets.
LEMMA PostType ==
    /\ \A p \in Packet : SendSoePacket(p) \in Handler
    /\ \A p \in Packet, b \in BOOLEAN : Message(p, b) \in Handler
    /\ \A d \in Datagram : Protocol(d) \in Handler
BY DEF SendSoePacket, Message, Protocol, Handler, Datagram

LEMMA DataIsPacket == Data \subseteq Packet
BY DEF Data, Packet, Simple, SimpleOps

LEMMA CtlPost ==
    ASSUME NEW op \in SimpleOps, NEW s \in SeqNo
    PROVE  /\ SendSoePacket(Ctl(op, s)) \in Handler
           /\ <<SendSoePacket(Ctl(op, s))>> \in Seq(Handler)
<1>1. Ctl(op, s) \in Packet
  BY CtlType DEF Packet
<1>2. QED
  BY <1>1, PostType

LEMMA FunctionIsSeq ==
    ASSUME NEW S, NEW n \in Nat, NEW f \in [1 .. n -> S]
    PROVE  f \in Seq(S) /\ Len(f) = n
BY SeqDef

\* Update cuts a batch into packets of messages.
LEMMA PacketsType ==
    ASSUME NEW batch \in Seq(Payload), receive_buffer_size \in Nat \ {0}
    PROVE  Packets(batch) \in Seq([op : DataOps, body : Seq(Payload)])
<1> DEFINE n == (Len(batch) + receive_buffer_size - 1) \div receive_buffer_size
<1>1. CASE Len(batch) <= receive_buffer_size
  BY <1>1 DEF Packets, DataOps
<1>2. CASE ~(Len(batch) <= receive_buffer_size)
  <2>1. n \in Nat
    BY LenProperties
  <2>2. ASSUME NEW i \in 1 .. n PROVE Chunk(batch, i) \in Seq(Payload)
    <3> DEFINE lo == (i - 1) * receive_buffer_size + 1
               hi == IF i * receive_buffer_size < Len(batch)
                     THEN i * receive_buffer_size ELSE Len(batch)
    <3>1. lo \in Nat /\ lo >= 1
      BY <2>1
    <3>2. hi \in Nat /\ hi <= Len(batch)
      BY <2>1, LenProperties
    <3>3. SubSeq(batch, lo, hi) \in Seq(Payload)
      <4>1. CASE lo <= hi
        BY <3>1, <3>2, <4>1, SubSeqProperties
      <4>2. CASE hi < lo
        BY <3>1, <3>2, <4>2, SubSeqProperties, EmptySeq
      <4>3. QED
        BY <3>1, <3>2, <4>1, <4>2
    <3>4. QED
      BY <3>3 DEF Chunk
  <2>3. Packets(batch) = [i \in 1 .. n |-> [op |-> "DataFragA", body |-> Chunk(batch, i)]]
    BY <1>2 DEF Packets
  <2>4. Packets(batch) \in [1 .. n -> [op : DataOps, body : Seq(Payload)]]
    BY <2>2, <2>3 DEF DataOps
  <2>5. QED
    BY <2>1, <2>4, FunctionIsSeq
<1>3. QED
  BY <1>1, <1>2

-----------------------------------------------------------------------------
(* The type invariant, handler by handler. *)

LEMMA ProtocolStepType == TypeOK /\ HandleProtocolMessageInternal => TypeOK'
<1> SUFFICES ASSUME TypeOK, HandleProtocolMessageInternal PROVE TypeOK'
  OBVIOUS
<1>1. strand \in Seq(Handler) /\ strand # <<>> /\ Head(strand) \in Handler
  BY HeadTailProperties DEF TypeOK, HandleProtocolMessageInternal, Runs
<1>2. Head(strand).packet \in Packet /\ Head(strand).sealed \in BOOLEAN
  BY <1>1 DEF Handler
<1>3. PICK posts \in Seq(Handler) : Finish(posts)
  <2>1. \A b \in BOOLEAN : <<Message(Head(strand).packet, b)>> \in Seq(Handler)
    BY <1>2, PostType
  <2>2. <<>> \in Seq(Handler)
    BY EmptySeq
  <2>3. QED
    BY <1>2, <2>1, <2>2 DEF HandleProtocolMessageInternal
<1>4. strand' \in Seq(Handler)
  BY <1>1, <1>3, FinishType
<1>5. QED
  BY <1>4 DEF TypeOK, HandleProtocolMessageInternal, linkVars, sendVars,
              recvVars, ackVars

LEMMA SendStepType == TypeOK /\ SendSoePacketInternal => TypeOK'
<1> SUFFICES ASSUME TypeOK, SendSoePacketInternal PROVE TypeOK'
  OBVIOUS
<1>1. strand \in Seq(Handler) /\ strand # <<>> /\ Head(strand) \in Handler
  BY HeadTailProperties DEF TypeOK, SendSoePacketInternal, Runs
<1>2. strand' \in Seq(Handler)
  BY <1>1, EmptySeq, FinishType DEF SendSoePacketInternal
<1>3. downlink' \subseteq Datagram
  <2>1. Head(strand).packet \in Packet
    BY <1>1 DEF Handler
  <2>2. [packet |-> Head(strand).packet, sealed |-> TRUE] \in Datagram
    BY <2>1 DEF Datagram
  <2>3. QED
    BY <2>2 DEF TypeOK, SendSoePacketInternal
<1>4. QED
  BY <1>2, <1>3 DEF TypeOK, SendSoePacketInternal, linkVars, sendVars,
                    recvVars, ackVars

LEMMA MessageStepType == TypeOK /\ HandleMessageInternal => TypeOK'
<1> SUFFICES ASSUME TypeOK, HandleMessageInternal PROVE TypeOK'
  OBVIOUS
<1> USE DEF linkVars, sendVars, recvVars, ackVars
<1>1. Runs("message")
  BY DEF HandleMessageInternal, Handles, handleSessionRequest, handleMultiPacket,
         handleChildDataA, handleDataFragA, handleAckA, handleOutOfOrderA,
         handlePing, handleNetStatsClient, handleDisconnect, UnhandledOpcode,
         GameMessage
<1>2. strand \in Seq(Handler) /\ strand # <<>>
  BY <1>1 DEF TypeOK, Runs
<1>3. HandlerPacket.op \in SimpleOps =>
          /\ HandlerPacket \in Simple
          /\ HandlerPacket.seq \in SeqNo /\ HandlerPacket.body \in Seq(Payload)
  BY <1>1, HandlerPacketType DEF Simple
<1>4. <<>> \in Seq(Handler) /\ 0 \in SeqNo
  BY EmptySeq DEF SeqNo
<1>5. CASE handleSessionRequest
  <2>1. strand' \in Seq(Handler)
    BY <1>2, <1>4, <1>5, FinishType DEF handleSessionRequest
  <2>2. downlink' \subseteq Datagram
    <3>1. Ctl("SessionResponse", 0) \in Packet
      BY <1>4, CtlType DEF Packet, SimpleOps
    <3>2. [packet |-> Ctl("SessionResponse", 0), sealed |-> FALSE] \in Datagram
      BY <3>1 DEF Datagram
    <3>3. QED
      BY <1>5, <3>2 DEF TypeOK, handleSessionRequest
  <2>3. QED
    BY <1>5, <2>1, <2>2 DEF TypeOK, handleSessionRequest
<1>6. CASE handleMultiPacket
  <2> DEFINE parts == HandlerPacket.body
             posts == [i \in DOMAIN parts |-> Message(parts[i], FALSE)]
  <2>1. parts \in Seq(Simple)
    BY <1>1, <1>6, HandlerPacketType DEF handleMultiPacket, Handles
  <2>2. Len(parts) \in Nat /\ DOMAIN parts = 1 .. Len(parts)
    BY <2>1, LenProperties
  <2>3. posts \in [1 .. Len(parts) -> Handler]
    <3>1. \A i \in 1 .. Len(parts) : parts[i] \in Packet
      BY <2>1, <2>2, ElementOfSeq DEF Packet
    <3>2. QED
      BY <2>2, <3>1, PostType
  <2>4. posts \in Seq(Handler)
    BY <2>2, <2>3, FunctionIsSeq
  <2>5. strand' \in Seq(Handler)
    BY <1>2, <1>6, <2>4, FinishType DEF handleMultiPacket
  <2>6. QED
    BY <1>6, <2>5 DEF TypeOK, handleMultiPacket
<1>7. CASE handleChildDataA
  <2> DEFINE seq == HandlerPacket.seq
             body == HandlerPacket.body
  <2>1. seq \in SeqNo /\ body \in Seq(Payload)
    BY <1>3, <1>7 DEF handleChildDataA, Handles, SimpleOps, DataOps
  <2>2. After(seq) \in SeqNo
    BY <2>1, AfterType
  <2>3. delivered \o body \in Seq(Payload)
    BY <2>1, ConcatProperties DEF TypeOK
  <2>4. \A op \in {"AckA", "OutOfOrderA"} :
            <<SendSoePacket(Ctl(op, seq))>> \in Seq(Handler)
    BY <2>1, CtlPost DEF SimpleOps
  <2>5. CASE SequenceIsValid(seq)
    <3>1. /\ AcknowledgeSequence(seq) /\ delivered' = delivered \o body
          /\ Finish(<<SendSoePacket(Ctl("AckA", seq))>>)
      BY <1>7, <2>5 DEF handleChildDataA
    <3>2. strand' \in Seq(Handler)
      BY <1>2, <2>4, <3>1, FinishType
    <3>3. QED
      BY <1>7, <2>2, <2>3, <3>1, <3>2 DEF TypeOK, handleChildDataA, AcknowledgeSequence
  <2>6. CASE ~SequenceIsValid(seq)
    <3>1. /\ Finish(<<SendSoePacket(Ctl("OutOfOrderA", seq))>>)
          /\ UNCHANGED <<next_client_sequence, accepted, delivered>>
      BY <1>7, <2>6 DEF handleChildDataA
    <3>2. strand' \in Seq(Handler)
      BY <1>2, <2>4, <3>1, FinishType
    <3>3. QED
      BY <1>7, <3>1, <3>2 DEF TypeOK, handleChildDataA
  <2>7. QED
    BY <2>5, <2>6
<1>8. CASE handleDataFragA
  <2> DEFINE seq  == HandlerPacket.seq
             curr == (incoming_fragmented_curr_len + FragLen) % LenMod
             ack  == SendSoePacket(Ctl("AckA", seq))
  <2>1. seq \in SeqNo
    BY <1>3, <1>8 DEF handleDataFragA, Handles, SimpleOps, DataOps
  <2>2. After(seq) \in SeqNo /\ After(0) \in SeqNo
    BY <1>4, <2>1, AfterType
  <2>3. curr \in 0 .. LenMod - 1 /\ 0 \in 0 .. LenMod - 1
    BY DEF TypeOK
  <2>4. \A op \in {"AckA", "OutOfOrderA"}, s \in {0, seq} :
            SendSoePacket(Ctl(op, s)) \in Handler
    BY <1>4, <2>1, CtlPost DEF SimpleOps
  <2>5. \A noise \in Payload : Append(delivered, noise) \in Seq(Payload)
    BY DEF TypeOK
  <2>6. PICK posts \in Seq(Handler) : Finish(posts)
    <3>1. \A op \in {"AckA", "OutOfOrderA"}, s \in {0, seq} :
              /\ <<SendSoePacket(Ctl(op, s))>> \in Seq(Handler)
              /\ <<ack, SendSoePacket(Ctl(op, s))>> \in Seq(Handler)
      BY <2>4
    <3>2. QED
      BY <1>8, <3>1 DEF handleDataFragA
  <2>7. strand' \in Seq(Handler)
    BY <1>2, <2>6, FinishType
  <2>8. /\ next_client_sequence' \in SeqNo /\ accepted' \in Nat
        /\ incoming_fragmented_total_len' \in {0, FragTotal}
        /\ incoming_fragmented_curr_len' \in 0 .. LenMod - 1
        /\ delivered' \in Seq(Payload)
    <3>1. TypeOK
      OBVIOUS
    <3>2. CASE UNCHANGED <<next_client_sequence, incoming_fragmented_total_len,
                           incoming_fragmented_curr_len, accepted, delivered>>
      BY <3>1, <3>2 DEF TypeOK
    <3>3. CASE /\ AcknowledgeSequence(seq)
               /\ incoming_fragmented_total_len' \in {incoming_fragmented_total_len, FragTotal, 0}
               /\ incoming_fragmented_curr_len' \in {curr, 0}
               /\ UNCHANGED delivered
      BY <3>1, <3>3, <2>2, <2>3 DEF AcknowledgeSequence, TypeOK
    <3>4. CASE /\ next_client_sequence' = After(0)
               /\ accepted' = accepted + 2
               /\ incoming_fragmented_total_len' = 0
               /\ incoming_fragmented_curr_len' = 0
               /\ \E noise \in Payload : delivered' = Append(delivered, noise)
      BY <3>1, <3>4, <2>2, <2>3, <2>5 DEF TypeOK
    <3>5. QED
      BY <1>8, <3>2, <3>3, <3>4 DEF handleDataFragA
  <2>9. QED
    BY <1>8, <2>7, <2>8 DEF TypeOK, handleDataFragA
<1>9. CASE handleAckA
  <2>1. HandlerPacket.seq \in SeqNo
    BY <1>3, <1>9 DEF handleAckA, Handles, SimpleOps
  <2>2. sent' \in Seq(Data)
    <3>1. ASSUME NEW i \in DOMAIN sent
          PROVE  SubSeq(sent, i, Len(sent)) \in Seq(Data)
      BY LenProperties, ElementOfSeq, SubSeqProperties DEF TypeOK
    <3>2. QED
      BY <1>9, <3>1, EmptySeq DEF handleAckA, EraseAcknowledged, Stored
  <2>3. strand' \in Seq(Handler)
    BY <1>2, <1>4, <1>9, FinishType DEF handleAckA
  <2>4. QED
    BY <1>9, <2>1, <2>2, <2>3 DEF TypeOK, handleAckA
<1>10. CASE handleOutOfOrderA
  <2> DEFINE posts == [i \in DOMAIN sent |-> SendSoePacket(sent[i])]
  <2>1. Len(sent) \in Nat /\ DOMAIN sent = 1 .. Len(sent)
    BY LenProperties DEF TypeOK
  <2>2. posts \in [1 .. Len(sent) -> Handler]
    <3>1. \A i \in 1 .. Len(sent) : sent[i] \in Packet
      BY <2>1, ElementOfSeq, DataIsPacket DEF TypeOK
    <3>2. QED
      BY <2>1, <3>1, PostType
  <2>3. strand' \in Seq(Handler)
    BY <1>2, <1>10, <2>1, <2>2, FunctionIsSeq, FinishType DEF handleOutOfOrderA
  <2>4. QED
    BY <1>10, <2>3 DEF TypeOK, handleOutOfOrderA
<1>11. CASE handlePing \/ handleNetStatsClient
  <2>1. \A op \in {"Ping", "NetStats"} : <<SendSoePacket(Ctl(op, 0))>> \in Seq(Handler)
    BY <1>4, CtlPost DEF SimpleOps
  <2>2. strand' \in Seq(Handler)
    BY <1>2, <1>11, <2>1, FinishType DEF handlePing, handleNetStatsClient
  <2>3. QED
    BY <1>11, <2>2 DEF TypeOK, handlePing, handleNetStatsClient
<1>12. CASE handleDisconnect
  <2>1. <<SendSoePacket(Ctl("Disconnect", 0))>> \in Seq(Handler)
    BY <1>4, CtlPost DEF SimpleOps
  <2>2. strand' \in Seq(Handler)
    BY <1>2, <1>4, <1>12, <2>1, FinishType DEF handleDisconnect
  <2>3. QED
    BY <1>12, <2>2 DEF TypeOK, handleDisconnect
<1>13. CASE UnhandledOpcode
  BY <1>2, <1>4, <1>13, FinishType DEF TypeOK, UnhandledOpcode
<1>14. CASE GameMessage
  <2>1. HandlerPacket.body \in Seq(Payload)
    BY <1>3, <1>14 DEF GameMessage, Handles, SimpleOps
  <2>2. delivered' \in Seq(Payload)
    BY <1>14, <2>1, ConcatProperties DEF TypeOK, GameMessage
  <2>3. strand' \in Seq(Handler)
    BY <1>2, <1>4, <1>14, FinishType DEF GameMessage
  <2>4. QED
    BY <1>14, <2>2, <2>3 DEF TypeOK, GameMessage
<1>15. QED
  BY <1>5, <1>6, <1>7, <1>8, <1>9, <1>10, <1>11, <1>12, <1>13, <1>14
     DEF HandleMessageInternal

LEMMA OutsideStepType ==
    ASSUME TypeOK,
           \/ \E d \in Inbound : HandleProtocolMessage(d)
           \/ Close
           \/ \E m \in Payload : SendTo(m)
    PROVE  TypeOK'
<1> USE DEF linkVars, sendVars, recvVars, ackVars
<1>1. ASSUME NEW d \in Inbound, HandleProtocolMessage(d) PROVE TypeOK'
  <2>1. Protocol(d) \in Handler
    BY PostType
  <2>2. strand' \in Seq(Handler)
    BY <1>1, <2>1, AppendProperties DEF TypeOK, HandleProtocolMessage
  <2>3. QED
    BY <1>1, <2>2 DEF TypeOK, HandleProtocolMessage
<1>2. CASE Close
  <2>1. SendSoePacket(Ctl("Disconnect", 0)) \in Handler
    BY CtlPost DEF SimpleOps, SeqNo
  <2>2. strand' \in Seq(Handler)
    BY <1>2, <2>1, AppendProperties DEF TypeOK, Close
  <2>3. QED
    BY <1>2, <2>2 DEF TypeOK, Close
<1>3. ASSUME NEW m \in Payload, SendTo(m) PROVE TypeOK'
  BY <1>3, AppendProperties DEF TypeOK, SendTo
<1>4. QED
  BY <1>1, <1>2, <1>3

LEMMA TimerStepType == TypeOK /\ ServiceTimer => TypeOK'
<1> SUFFICES ASSUME TypeOK, ServiceTimer PROVE TypeOK'
  OBVIOUS
<1> USE DEF linkVars, sendVars, recvVars, ackVars
<1>1. CASE Update
  <2>1. receive_buffer_size \in Nat \ {0} /\ outgoing \in Seq(Payload)
    BY DEF TypeOK
  <2>2. updating' \in Seq([op : DataOps, body : Seq(Payload)])
    BY <1>1, <2>1, PacketsType DEF Update
  <2>3. QED
    BY <1>1, <2>2, EmptySeq DEF TypeOK, Update
<1>2. CASE SendSequencedMessage
  <2> DEFINE p == [op |-> Head(updating).op, seq |-> server_sequence,
                   body |-> Head(updating).body]
  <2>1. /\ Head(updating) \in [op : DataOps, body : Seq(Payload)]
        /\ Tail(updating) \in Seq([op : DataOps, body : Seq(Payload)])
    BY <1>2, HeadTailProperties DEF TypeOK, SendSequencedMessage
  <2>2. p \in Data
    BY <2>1 DEF Data, TypeOK
  <2>3. SendSoePacket(p) \in Handler
    BY <2>2, DataIsPacket, PostType
  <2>4. /\ strand' = Append(strand, SendSoePacket(p))
        /\ storing' = <<p>> /\ sequenced' = Append(sequenced, p)
    BY <1>2 DEF SendSequencedMessage
  <2>5. strand' \in Seq(Handler) /\ sequenced' \in Seq(Data)
    BY <2>2, <2>3, <2>4, AppendProperties DEF TypeOK
  <2>6. storing' \in Seq(Data) /\ Len(storing') = 1
    BY <2>2, <2>4
  <2>7. After(server_sequence) \in SeqNo
    BY AfterType DEF TypeOK
  <2>8. QED
    BY <1>2, <2>1, <2>5, <2>6, <2>7 DEF TypeOK, SendSequencedMessage
<1>3. CASE StoreSentMessage
  BY <1>3, ConcatProperties, EmptySeq DEF TypeOK, StoreSentMessage
<1>4. QED
  BY <1>1, <1>2, <1>3 DEF ServiceTimer

LEMMA InitType == Init => TypeOK
<1>1. 0 \in SeqNo /\ 0 \in 0 .. LenMod - 1
  BY DEF SeqNo
<1>2. /\ <<>> \in Seq(Handler) /\ <<>> \in Seq(Payload) /\ <<>> \in Seq(Data)
      /\ <<>> \in Seq([op : DataOps, body : Seq(Payload)])
      /\ Len(<<>>) <= 1
  OBVIOUS
<1>3. {} \subseteq Datagram /\ 0 \in Nat
  OBVIOUS
<1>4. QED
  BY <1>1, <1>2, <1>3 DEF Init, TypeOK

LEMMA TypeStep == TypeOK /\ [Next]_sessionVars => TypeOK'
<1> SUFFICES ASSUME TypeOK, [Next]_sessionVars PROVE TypeOK'
  OBVIOUS
<1>1. CASE UNCHANGED sessionVars
  BY <1>1 DEF TypeOK, sessionVars, linkVars, sendVars, recvVars, ackVars
<1>2. CASE Strand
  BY <1>2, ProtocolStepType, MessageStepType, SendStepType DEF Strand
<1>3. QED
  BY <1>1, <1>2, TimerStepType, OutsideStepType DEF Next

\* Every variable stays in its type, whatever the remote end sends.
THEOREM TypeCorrect == Spec => []TypeOK
BY InitType, TypeStep, PTL DEF Spec

-----------------------------------------------------------------------------
(* What one step can do to the sequence numbers and to the list of packets   *)
(* kept for resending.                                                       *)

LEMMA DivMod ==
    \A n \in Nat : /\ n = SeqModulus * (n \div SeqModulus) + (n % SeqModulus)
                   /\ n % SeqModulus \in SeqNo /\ n \div SeqModulus \in Nat
BY ConstantsAssumption, SMTT(30) DEF SeqNo

LEMMA RemainderIsUnique ==
    ASSUME NEW q1 \in Nat, NEW r1 \in SeqNo, NEW q2 \in Nat, NEW r2 \in SeqNo,
           SeqModulus * q1 + r1 = SeqModulus * q2 + r2
    PROVE  r1 = r2
<1>0. SeqModulus \in Nat /\ SeqModulus > 1 /\ r1 \in 0 .. SeqModulus - 1 /\ r2 \in 0 .. SeqModulus - 1
  BY ConstantsAssumption DEF SeqNo
<1>1. CASE q1 = q2
  BY <1>0, <1>1
<1>2. CASE q1 < q2
  <2>1. SeqModulus * (q2 - q1) >= SeqModulus
    BY <1>0, <1>2
  <2>2. SeqModulus * (q2 - q1) = SeqModulus * q2 - SeqModulus * q1
    BY <1>0, <1>2
  <2>3. QED
    BY <1>0, <2>1, <2>2
<1>3. CASE q1 > q2
  <2>1. SeqModulus * (q1 - q2) >= SeqModulus
    BY <1>0, <1>3
  <2>2. SeqModulus * (q1 - q2) = SeqModulus * q1 - SeqModulus * q2
    BY <1>0, <1>3
  <2>3. QED
    BY <1>0, <2>1, <2>2
<1>4. QED
  BY <1>1, <1>2, <1>3

\* The 16-bit increment follows the unbounded count.
LEMMA AfterMod == \A n \in Nat : After(n % SeqModulus) = (n + 1) % SeqModulus
<1> SUFFICES ASSUME NEW n \in Nat PROVE ((n % SeqModulus) + 1) % SeqModulus = (n + 1) % SeqModulus
  BY DEF After
<1> DEFINE q1 == n \div SeqModulus          r1 == n % SeqModulus
           q2 == (n + 1) \div SeqModulus    r2 == (n + 1) % SeqModulus
<1>1. n = SeqModulus * q1 + r1 /\ r1 \in SeqNo /\ q1 \in Nat
  BY DivMod
<1>2. n + 1 = SeqModulus * q2 + r2 /\ r2 \in SeqNo /\ q2 \in Nat
  <2>1. n + 1 \in Nat
    OBVIOUS
  <2>2. QED
    BY <2>1, DivMod
<1>3. 0 \in SeqNo /\ SeqNo = 0 .. SeqModulus - 1 /\ SeqModulus \in Nat /\ SeqModulus > 1
  BY ConstantsAssumption DEF SeqNo
<1> HIDE DEF q1, r1, q2, r2
<1>4. CASE r1 = SeqModulus - 1
  <2>1. SeqModulus * (q1 + 1) = SeqModulus * q1 + SeqModulus /\ q1 + 1 \in Nat
    BY <1>1, <1>3
  <2>2. SeqModulus * (q1 + 1) + 0 = SeqModulus * q2 + r2
    BY <1>1, <1>2, <1>3, <1>4, <2>1
  <2>3. r2 = 0
    BY <1>1, <1>2, <1>3, <2>1, <2>2, RemainderIsUnique
  <2>4. (r1 + 1) % SeqModulus = 0
    BY <1>3, <1>4
  <2>5. QED
    BY <2>3, <2>4 DEF r1, r2
<1>5. CASE r1 # SeqModulus - 1
  <2>1. r1 + 1 \in SeqNo
    BY <1>1, <1>3, <1>5
  <2>2. SeqModulus * q1 + (r1 + 1) = SeqModulus * q2 + r2
    BY <1>1, <1>2, <1>3
  <2>3. r2 = r1 + 1
    BY <1>1, <1>2, <2>1, <2>2, RemainderIsUnique
  <2>4. (r1 + 1) % SeqModulus = r1 + 1
    BY <1>3, <2>1
  <2>5. QED
    BY <2>3, <2>4 DEF r1, r2
<1>6. QED
  BY <1>4, <1>5

\* Accepting keeps the due number in step with the count.
LEMMA ReceiveStep ==
    ASSUME TypeOK, [Next]_sessionVars, next_client_sequence = accepted % SeqModulus
    PROVE  /\ accepted' \in Nat /\ accepted' >= accepted
           /\ next_client_sequence' = accepted' % SeqModulus
<1>0. accepted \in Nat
  BY DEF TypeOK
<1>1. CASE UNCHANGED <<next_client_sequence, accepted>>
  BY <1>0, <1>1
<1>2. ASSUME NEW seq, SequenceIsValid(seq), AcknowledgeSequence(seq)
      PROVE  /\ accepted' = accepted + 1
             /\ next_client_sequence' = accepted' % SeqModulus
  BY <1>0, <1>2, AfterMod DEF SequenceIsValid, AcknowledgeSequence
<1>3. CASE handleDataFragA
  <2> DEFINE seq == HandlerPacket.seq
  <2>1. CASE SequenceIsValid(seq) /\ AcknowledgeSequence(seq)
    BY <1>0, <1>2, <2>1
  <2>2. CASE /\ SequenceIsValid(seq) /\ After(seq) = 0
             /\ next_client_sequence' = After(0) /\ accepted' = accepted + 2
    <3>1. (accepted + 1) % SeqModulus = 0
      BY <1>0, <2>2, AfterMod DEF SequenceIsValid
    <3>2. accepted + 1 \in Nat /\ (accepted + 1) + 1 = accepted + 2
      BY <1>0
    <3>3. After((accepted + 1) % SeqModulus) = ((accepted + 1) + 1) % SeqModulus
      BY <3>2, AfterMod
    <3>4. QED
      BY <1>0, <2>2, <3>1, <3>2, <3>3
  <2>3. QED
    BY <1>1, <1>3, <2>1, <2>2 DEF handleDataFragA, recvVars
<1>4. CASE handleChildDataA
  BY <1>0, <1>1, <1>2, <1>4 DEF handleChildDataA
<1>5. CASE ~handleDataFragA /\ ~handleChildDataA
  <2>1. UNCHANGED <<next_client_sequence, accepted>>
    BY <1>5 DEF Next, Strand, ServiceTimer, HandleMessageInternal, sessionVars, recvVars,
         HandleProtocolMessage, HandleProtocolMessageInternal, SendSoePacketInternal,
         handleSessionRequest, handleMultiPacket, handleAckA, handleOutOfOrderA,
         handlePing, handleNetStatsClient, handleDisconnect, UnhandledOpcode,
         GameMessage, Close, SendTo, Update, SendSequencedMessage, StoreSentMessage
  <2>2. QED
    BY <1>1, <2>1
<1>6. QED
  BY <1>3, <1>4, <1>5

\* The packet SendSequencedMessage numbers.
Numbered == [op |-> Head(updating).op, seq |-> server_sequence,
             body |-> Head(updating).body]

LEMMA NumberedType ==
    ASSUME TypeOK, SendSequencedMessage
    PROVE  /\ Numbered \in Data /\ Numbered.seq = server_sequence
           /\ strand' = Append(strand, SendSoePacket(Numbered))
           /\ storing = <<>> /\ storing' = <<Numbered>> /\ sent' = sent
           /\ sequenced' = Append(sequenced, Numbered)
           /\ server_sequence' = After(server_sequence)
           /\ UNCHANGED <<accepted, next_client_sequence, downlink>>
<1>1. Head(updating) \in [op : DataOps, body : Seq(Payload)]
  BY HeadTailProperties DEF TypeOK, SendSequencedMessage
<1>2. Head(updating).op \in DataOps /\ Head(updating).body \in Seq(Payload)
  BY <1>1
<1>3. server_sequence \in SeqNo
  BY DEF TypeOK
<1>4. Numbered \in Data /\ Numbered.seq = server_sequence
  BY <1>2, <1>3 DEF Data, Numbered
<1>5. QED
  BY <1>4 DEF SendSequencedMessage, Numbered, ackVars, recvVars

\* Numbering appends one packet that carries the next number.
LEMMA NumberStep ==
    ASSUME TypeOK, NumberedInOrder, [Next]_sessionVars
    PROVE  /\ NumberedInOrder'
           /\ \A n \in DOMAIN sequenced :
                 n \in DOMAIN sequenced' /\ sequenced'[n] = sequenced[n]
<1>0. sequenced \in Seq(Data) /\ Len(sequenced) \in Nat /\ server_sequence \in SeqNo
  BY LenProperties DEF TypeOK
<1>1. CASE SendSequencedMessage
  <2> DEFINE p == Numbered
  <2>1. p \in Data /\ p.seq = server_sequence
    BY <1>1, NumberedType
  <2>2. sequenced' = Append(sequenced, p) /\ server_sequence' = After(server_sequence)
    BY <1>1, NumberedType
  <2> HIDE DEF p
  <2>3. /\ Len(sequenced') = Len(sequenced) + 1
        /\ \A n \in 1 .. Len(sequenced) : sequenced'[n] = sequenced[n]
        /\ sequenced'[Len(sequenced) + 1] = p
        /\ DOMAIN sequenced' = 1 .. Len(sequenced) + 1
        /\ DOMAIN sequenced = 1 .. Len(sequenced)
    BY <1>0, <2>1, <2>2, AppendProperties, LenProperties
  <2>4. server_sequence' = (Len(sequenced) + 1) % SeqModulus
    BY <1>0, <2>2, AfterMod DEF NumberedInOrder
  <2>5. ASSUME NEW n \in DOMAIN sequenced' PROVE sequenced'[n].seq = (n - 1) % SeqModulus
    <3>1. CASE n \in 1 .. Len(sequenced)
      BY <2>3, <3>1 DEF NumberedInOrder
    <3>2. CASE n = Len(sequenced) + 1
      BY <1>0, <2>1, <2>3, <3>2 DEF NumberedInOrder
    <3>3. QED
      BY <1>0, <2>3, <2>5, <3>1, <3>2
  <2>6. NumberedInOrder'
    BY <2>3, <2>4, <2>5 DEF NumberedInOrder
  <2>7. QED
    BY <1>0, <2>3, <2>6
<1>2. CASE ~SendSequencedMessage
  <2>1. UNCHANGED <<sequenced, server_sequence>>
    BY <1>2 DEF Next, Strand, ServiceTimer, HandleMessageInternal, sessionVars, sendVars,
         HandleProtocolMessage, HandleProtocolMessageInternal, SendSoePacketInternal,
         handleSessionRequest, handleMultiPacket, handleChildDataA, handleDataFragA,
         handleAckA, handleOutOfOrderA,
         handlePing, handleNetStatsClient, handleDisconnect, UnhandledOpcode,
         GameMessage, Close, SendTo, Update, StoreSentMessage
  <2>2. QED
    BY <2>1 DEF NumberedInOrder
<1>3. QED
  BY <1>1, <1>2

\* The stored packets stay a run that ends with the latest stored one.
LEMMA StoreStep ==
    ASSUME TypeOK, SentIsLatestRun, [Next]_sessionVars
    PROVE  SentIsLatestRun'
<1>0. /\ sent \in Seq(Data) /\ storing \in Seq(Data) /\ sequenced \in Seq(Data)
      /\ Len(sent) \in Nat /\ Len(storing) \in 0 .. 1 /\ Len(sequenced) \in Nat
      /\ DOMAIN sent = 1 .. Len(sent) /\ DOMAIN storing = 1 .. Len(storing)
  <2>1. /\ sent \in Seq(Data) /\ storing \in Seq(Data) /\ sequenced \in Seq(Data)
        /\ Len(storing) <= 1
    BY DEF TypeOK
  <2>2. Len(sent) \in Nat /\ Len(storing) \in Nat /\ Len(sequenced) \in Nat
    BY <2>1
  <2>3. DOMAIN sent = 1 .. Len(sent) /\ DOMAIN storing = 1 .. Len(storing)
    BY <2>1
  <2>4. QED
    BY <2>1, <2>2, <2>3
<1>1. CASE handleAckA
  <2> DEFINE seq == HandlerPacket.seq
  <2>1. UNCHANGED <<storing, sequenced>> /\ StoredCount' = StoredCount
    BY <1>1 DEF handleAckA, sendVars, StoredCount
  <2>2. CASE sent' = <<>>
    BY <1>0, <2>1, <2>2, EmptySeq DEF SentIsLatestRun, StoredCount
  <2>3. ASSUME NEW i \in Stored(seq), sent' = SubSeq(sent, i, Len(sent))
        PROVE  SentIsLatestRun'
    <3>1. i \in 1 .. Len(sent)
      BY <1>0 DEF Stored
    <3>2. /\ sent' \in Seq(Data) /\ Len(sent') = Len(sent) - i + 1
          /\ \A j \in 1 .. Len(sent) - i + 1 : sent'[j] = sent[i + j - 1]
      BY <1>0, <2>3, <3>1, SubSeqProperties, ElementOfSeq
    <3>3. DOMAIN sent' = 1 .. Len(sent) - i + 1
      BY <3>2, LenProperties
    <3>4. ASSUME NEW j \in DOMAIN sent'
          PROVE  sent'[j] = sequenced[StoredCount - Len(sent') + j]
      <4>0. j \in 1 .. Len(sent) - i + 1
        BY <3>3
      <4>1. i + j - 1 \in 1 .. Len(sent) /\ sent'[j] = sent[i + j - 1]
        <5>1. i + j - 1 \in 1 .. Len(sent)
          BY <1>0, <3>1, <4>0
        <5>2. QED
          BY <3>2, <4>0, <5>1
      <4>2. StoredCount \in Int /\ j \in Int /\ i \in Int
        BY <1>0, <3>1, <3>3 DEF StoredCount
      <4>3. StoredCount - Len(sent) + (i + j - 1) = StoredCount - Len(sent') + j
        BY <1>0, <3>2, <4>2
      <4>4. QED
        BY <1>0, <4>1, <4>3 DEF SentIsLatestRun
    <3>5. Len(sent') <= StoredCount
      BY <1>0, <3>1, <3>2 DEF SentIsLatestRun, StoredCount
    <3>6. QED
      BY <2>1, <3>4, <3>5 DEF SentIsLatestRun
  <2>4. QED
    BY <1>1, <2>2, <2>3 DEF handleAckA, EraseAcknowledged
<1>2. CASE SendSequencedMessage
  <2> DEFINE p == Numbered
  <2>1. p \in Data
    BY <1>2, NumberedType
  <2>2. /\ storing = <<>> /\ storing' = <<p>> /\ sent' = sent
        /\ sequenced' = Append(sequenced, p)
    BY <1>2, NumberedType
  <2> HIDE DEF p
  <2>3. /\ Len(sequenced') = Len(sequenced) + 1
        /\ \A n \in 1 .. Len(sequenced) : sequenced'[n] = sequenced[n]
        /\ sequenced'[Len(sequenced) + 1] = p
    BY <1>0, <2>1, <2>2, AppendProperties
  <2>4. Len(storing) = 0 /\ Len(storing') = 1 /\ DOMAIN storing' = {1} /\ storing'[1] = p
    BY <2>2
  <2>5. StoredCount' = StoredCount /\ StoredCount = Len(sequenced)
    BY <1>0, <2>3, <2>4 DEF StoredCount
  <2>6. QED
    BY <1>0, <2>2, <2>3, <2>4, <2>5 DEF SentIsLatestRun
<1>3. CASE StoreSentMessage
  <2>1. /\ sent' = sent \o storing /\ storing' = <<>> /\ sequenced' = sequenced
        /\ storing # <<>>
    BY <1>3 DEF StoreSentMessage
  <2>2. Len(storing) = 1 /\ Len(storing') = 0 /\ DOMAIN storing' = {}
    BY <1>0, <2>1, EmptySeq
  <2>3. /\ Len(sent') = Len(sent) + 1 /\ DOMAIN sent' = 1 .. Len(sent) + 1
        /\ \A i \in 1 .. Len(sent) : sent'[i] = sent[i]
        /\ sent'[Len(sent) + 1] = storing[1]
    <3> DEFINE S == Data
    <3>1. sent \in Seq(S) /\ storing \in Seq(S)
      BY <1>0
    <3> HIDE DEF S
    <3>2. /\ Len(sent \o storing) = Len(sent) + Len(storing)
          /\ sent \o storing \in Seq(S)
          /\ \A i \in 1 .. Len(sent) + Len(storing) : (sent \o storing)[i] =
                IF i <= Len(sent) THEN sent[i] ELSE storing[i - Len(sent)]
      BY <3>1, ConcatProperties
    <3>3. sent' \in Seq(S) /\ Len(sent') = Len(sent) + 1
      BY <1>0, <2>1, <2>2, <3>2
    <3>4. DOMAIN sent' = 1 .. Len(sent) + 1
      BY <3>3
    <3>5. \A i \in 1 .. Len(sent) : sent'[i] = sent[i]
      BY <1>0, <2>1, <2>2, <3>2
    <3>6. sent'[Len(sent) + 1] = storing[1]
      BY <1>0, <2>1, <2>2, <3>2
    <3>7. QED
      BY <3>3, <3>4, <3>5, <3>6
  <2>4. StoredCount' = StoredCount + 1 /\ StoredCount = Len(sequenced) - 1
    BY <1>0, <2>1, <2>2 DEF StoredCount
  <2>5. QED
    BY <1>0, <2>1, <2>2, <2>3, <2>4 DEF SentIsLatestRun
<1>4. CASE ~handleAckA /\ ~SendSequencedMessage /\ ~StoreSentMessage
  <2>1. UNCHANGED <<sent, storing, sequenced>>
    BY <1>4 DEF Next, Strand, ServiceTimer, HandleMessageInternal, sessionVars, sendVars,
         ackVars, HandleProtocolMessage, HandleProtocolMessageInternal,
         SendSoePacketInternal, handleSessionRequest, handleMultiPacket, handleChildDataA,
         handleDataFragA, handleOutOfOrderA, handlePing, handleNetStatsClient,
         handleDisconnect, UnhandledOpcode, GameMessage, Close, SendTo, Update
  <2>2. QED
    BY <2>1 DEF SentIsLatestRun, StoredCount
<1>5. QED
  BY <1>1, <1>2, <1>3, <1>4

\* Whatever the acknowledgements that come in, sent_messages_ is a gapless run
\* of the numbered packets that ends with the latest stored one.
THEOREM SentRunCorrect == Spec => []SentIsLatestRun
<1>1. Init => SentIsLatestRun
  BY EmptySeq DEF Init, SentIsLatestRun, StoredCount
<1>2. TypeOK /\ SentIsLatestRun /\ [Next]_sessionVars => SentIsLatestRun'
  BY StoreStep
<1>3. QED
  BY <1>1, <1>2, TypeCorrect, PTL DEF Spec

-----------------------------------------------------------------------------
(* Where what leaves the session comes from.                                 *)

\* A handler found on the strand after a step was there before it, or is not a
\* data packet or acknowledgement on its way out, or acknowledges a sequence the
\* step accepted, or resends a stored packet, or sends the one just numbered.
Posted(h) ==
    \/ h.run # "send"
    \/ h.packet.op \notin DataOps \cup {"AckA"}
    \/ h.packet.op = "AckA" /\ \E n \in accepted .. accepted' - 1 : h.packet.seq = n % SeqModulus
    \/ h.packet.op \in DataOps /\ \E k \in DOMAIN sent : h.packet = sent[k]
    \/ SendSequencedMessage /\ h.packet = Numbered

Waiting(h) == \E j \in DOMAIN strand : h = strand[j]

LEMMA FinishOrigin ==
    ASSUME strand \in Seq(Handler), strand # <<>>,
           NEW posts \in Seq(Handler), Finish(posts)
    PROVE  \A i \in DOMAIN strand' :
              Waiting(strand'[i]) \/ \E k \in DOMAIN posts : strand'[i] = posts[k]
<1> DEFINE rest == Tail(strand)
<1>1. /\ rest \in Seq(Handler) /\ Len(rest) = Len(strand) - 1 /\ Len(rest) \in Nat
      /\ Len(strand) \in Nat
      /\ \A i \in 1 .. Len(rest) : rest[i] = strand[i + 1]
  BY HeadTailProperties
<1>2. Len(posts) \in Nat /\ DOMAIN posts = 1 .. Len(posts) /\ DOMAIN strand = 1 .. Len(strand)
  BY LenProperties
<1>3. strand' = rest \o posts
  BY DEF Finish
<1> HIDE DEF rest
<1>4. /\ Len(strand') = Len(rest) + Len(posts) /\ strand' \in Seq(Handler)
      /\ \A i \in 1 .. Len(rest) + Len(posts) :
            strand'[i] = IF i <= Len(rest) THEN rest[i] ELSE posts[i - Len(rest)]
  BY <1>1, <1>3, ConcatProperties
<1>5. DOMAIN strand' = 1 .. Len(rest) + Len(posts)
  BY <1>4
<1>6. ASSUME NEW i \in DOMAIN strand'
      PROVE  Waiting(strand'[i]) \/ \E k \in DOMAIN posts : strand'[i] = posts[k]
  <2>1. CASE i \in 1 .. Len(rest)
    <3>1. strand'[i] = rest[i] /\ rest[i] = strand[i + 1] /\ i + 1 \in DOMAIN strand
      BY <1>1, <1>2, <1>4, <1>5, <2>1
    <3>2. QED
      BY <3>1 DEF Waiting
  <2>2. CASE i \notin 1 .. Len(rest)
    <3>1. i \in 1 .. Len(rest) + Len(posts) /\ ~(i <= Len(rest))
      BY <1>1, <1>2, <1>5, <2>2
    <3>2. i - Len(rest) \in DOMAIN posts
      BY <1>1, <1>2, <3>1
    <3>4. strand'[i] = posts[i - Len(rest)]
      BY <1>4, <3>1
    <3>3. QED
      BY <3>2, <3>4
  <2>3. QED
    BY <2>1, <2>2
<1>7. QED
  BY <1>6

LEMMA AppendOrigin ==
    ASSUME strand \in Seq(Handler), NEW h \in Handler, strand' = Append(strand, h)
    PROVE  \A i \in DOMAIN strand' : Waiting(strand'[i]) \/ strand'[i] = h
<1>1. /\ Len(strand) \in Nat /\ DOMAIN strand' = 1 .. Len(strand) + 1
      /\ DOMAIN strand = 1 .. Len(strand)
      /\ \A i \in 1 .. Len(strand) : strand'[i] = strand[i]
      /\ strand'[Len(strand) + 1] = h
  BY AppendProperties, LenProperties
<1>2. ASSUME NEW i \in DOMAIN strand' PROVE Waiting(strand'[i]) \/ strand'[i] = h
  <2>1. CASE i \in 1 .. Len(strand)
    BY <1>1, <2>1 DEF Waiting
  <2>2. CASE i = Len(strand) + 1
    BY <1>1, <2>2
  <2>3. QED
    BY <1>1, <2>1, <2>2
<1>3. QED
  BY <1>2

\* A handler for a control packet, and one that is not an outgoing packet.
LEMMA ControlPosted ==
    /\ \A op \in SimpleOps \ (DataOps \cup {"AckA"}), s \in SeqNo :
          Posted(SendSoePacket(Ctl(op, s)))
    /\ \A p \in Packet, b \in BOOLEAN : Posted(Message(p, b))
    /\ \A d \in Datagram : Posted(Protocol(d))
BY DEF Posted, SendSoePacket, Ctl, Message, Protocol

LEMMA IntervalFacts ==
    /\ \A a, b \in Nat : b = a + 1 \/ b = a + 2 => a \in a .. b - 1
    /\ \A a, b \in Nat : b >= a => 0 .. a - 1 \subseteq 0 .. b - 1
    /\ \A a, b \in Nat : a .. b - 1 \subseteq 0 .. b - 1
OBVIOUS

LEMMA AckPosted ==
    ASSUME NEW n \in accepted .. accepted' - 1, NEW s, s = n % SeqModulus
    PROVE  Posted(SendSoePacket(Ctl("AckA", s)))
BY DEF Posted, SendSoePacket, Ctl

LEMMA OriginStep ==
    ASSUME TypeOK, next_client_sequence = accepted % SeqModulus, [Next]_sessionVars
    PROVE  \A i \in DOMAIN strand' : Waiting(strand'[i]) \/ Posted(strand'[i])
<1> DEFINE Goal == \A i \in DOMAIN strand' : Waiting(strand'[i]) \/ Posted(strand'[i])
<1>0. strand \in Seq(Handler) /\ accepted \in Nat /\ 0 \in SeqNo
  BY DEF TypeOK, SeqNo
<1>1. CASE UNCHANGED strand
  BY <1>1 DEF Waiting
<1>2. ASSUME strand # <<>>, Finish(<<>>) PROVE Goal
  <2>1. <<>> \in Seq(Handler) /\ DOMAIN <<>> = {}
    BY EmptySeq
  <2>2. QED
    BY <1>0, <1>2, <2>1, FinishOrigin
<1>3. ASSUME strand # <<>>, NEW h \in Handler, Posted(h), Finish(<<h>>) PROVE Goal
  <2>1. <<h>> \in Seq(Handler) /\ \A k \in DOMAIN <<h>> : <<h>>[k] = h
    OBVIOUS
  <2>2. QED
    BY <1>0, <1>3, <2>1, FinishOrigin
<1>4. CASE HandleProtocolMessageInternal
  <2>1. strand # <<>> /\ Head(strand) \in Handler
    BY <1>0, <1>4, HeadTailProperties DEF HandleProtocolMessageInternal, Runs
  <2>2. Head(strand).packet \in Packet /\ Head(strand).sealed \in BOOLEAN
    BY <2>1 DEF Handler
  <2>3. \A b \in BOOLEAN : /\ Message(Head(strand).packet, b) \in Handler
                           /\ Posted(Message(Head(strand).packet, b))
    BY <2>2, PostType, ControlPosted
  <2>4. QED
    BY <1>2, <1>3, <1>4, <2>1, <2>2, <2>3 DEF HandleProtocolMessageInternal
<1>5. CASE SendSoePacketInternal
  BY <1>2, <1>5 DEF SendSoePacketInternal, Runs
<1>6. CASE HandleMessageInternal
  <2>1. Runs("message") /\ strand # <<>>
    BY <1>6 DEF HandleMessageInternal, Handles, handleSessionRequest, handleMultiPacket,
         handleChildDataA, handleDataFragA, handleAckA, handleOutOfOrderA,
         handlePing, handleNetStatsClient, handleDisconnect, UnhandledOpcode,
         GameMessage, Runs
  <2>2. HandlerPacket.op \in SimpleOps => HandlerPacket.seq \in SeqNo
    BY <2>1, HandlerPacketType DEF Simple
  <2>3. \A op \in {"Ping", "NetStats", "Disconnect", "OutOfOrderA"}, s \in SeqNo :
            /\ SendSoePacket(Ctl(op, s)) \in Handler
            /\ Posted(SendSoePacket(Ctl(op, s)))
    BY CtlPost, ControlPosted DEF SimpleOps, DataOps
  <2>4. ASSUME NEW s \in SeqNo, s = accepted % SeqModulus,
               accepted' \in {accepted + 1, accepted + 2}
        PROVE  /\ SendSoePacket(Ctl("AckA", s)) \in Handler
               /\ Posted(SendSoePacket(Ctl("AckA", s)))
    <3>0. accepted' = accepted + 1 \/ accepted' = accepted + 2
      BY <2>4
    <3>1. accepted \in accepted .. accepted' - 1
      <4>1. accepted' \in Nat
        BY <1>0, <3>0
      <4>2. QED
        BY <1>0, <3>0, <4>1, IntervalFacts
    <3>2. QED
      BY <2>4, <3>1, CtlPost, AckPosted DEF SimpleOps
  <2>5. CASE handleSessionRequest \/ handleAckA \/ UnhandledOpcode \/ GameMessage
    BY <1>2, <2>1, <2>5 DEF handleSessionRequest, handleAckA, UnhandledOpcode, GameMessage
  <2>6. CASE handlePing \/ handleNetStatsClient \/ handleDisconnect
    BY <1>0, <1>2, <1>3, <2>1, <2>3, <2>6 DEF handlePing, handleNetStatsClient, handleDisconnect
  <2>7. CASE handleMultiPacket
    <3> DEFINE parts == HandlerPacket.body
               posts == [i \in DOMAIN parts |-> Message(parts[i], FALSE)]
    <3>1. parts \in Seq(Simple)
      BY <2>1, <2>7, HandlerPacketType DEF handleMultiPacket, Handles
    <3>2. Len(parts) \in Nat /\ DOMAIN parts = 1 .. Len(parts)
      BY <3>1, LenProperties
    <3>3. \A i \in 1 .. Len(parts) : parts[i] \in Packet
      BY <3>1, <3>2, ElementOfSeq DEF Packet
    <3>4. \A i \in 1 .. Len(parts) : posts[i] \in Handler /\ Posted(posts[i])
      BY <3>2, <3>3, PostType, ControlPosted
    <3>5. posts \in [1 .. Len(parts) -> Handler]
      BY <3>2, <3>4
    <3>6. posts \in Seq(Handler) /\ DOMAIN posts = 1 .. Len(parts)
      BY <3>2, <3>5, FunctionIsSeq
    <3>7. Finish(posts)
      BY <2>7 DEF handleMultiPacket
    <3> HIDE DEF posts
    <3>8. QED
      BY <1>0, <2>1, <3>4, <3>6, <3>7, FinishOrigin
  <2>8. CASE handleOutOfOrderA
    <3> DEFINE posts == [i \in DOMAIN sent |-> SendSoePacket(sent[i])]
    <3>1. Len(sent) \in Nat /\ DOMAIN sent = 1 .. Len(sent) /\ sent \in Seq(Data)
      BY LenProperties DEF TypeOK
    <3>2. \A i \in 1 .. Len(sent) : sent[i] \in Data /\ sent[i] \in Packet
      BY <3>1, ElementOfSeq, DataIsPacket
    <3>3. \A i \in 1 .. Len(sent) : posts[i] \in Handler /\ Posted(posts[i])
      BY <3>1, <3>2, PostType DEF Posted, SendSoePacket, Data
    <3>4. posts \in [1 .. Len(sent) -> Handler]
      BY <3>1, <3>3
    <3>5. posts \in Seq(Handler) /\ DOMAIN posts = 1 .. Len(sent)
      BY <3>1, <3>4, FunctionIsSeq
    <3>6. Finish(posts)
      BY <2>8 DEF handleOutOfOrderA
    <3> HIDE DEF posts
    <3>7. QED
      BY <1>0, <2>1, <3>3, <3>5, <3>6, FinishOrigin
  <2>9. CASE handleChildDataA
    <3> DEFINE seq == HandlerPacket.seq
    <3>1. seq \in SeqNo
      BY <2>2, <2>9 DEF handleChildDataA, Handles, SimpleOps, DataOps
    <3>2. CASE SequenceIsValid(seq)
      <4>1. accepted' = accepted + 1 /\ Finish(<<SendSoePacket(Ctl("AckA", seq))>>)
        BY <2>9, <3>2 DEF handleChildDataA, AcknowledgeSequence
      <4>2. seq = accepted % SeqModulus /\ accepted' \in {accepted + 1, accepted + 2}
        BY <1>0, <3>2, <4>1 DEF SequenceIsValid
      <4>3. QED
        BY <1>3, <2>1, <2>4, <3>1, <4>1, <4>2
    <3>3. CASE ~SequenceIsValid(seq)
      BY <1>3, <2>1, <2>3, <2>9, <3>1, <3>3 DEF handleChildDataA
    <3>4. QED
      BY <3>2, <3>3
  <2>10. CASE handleDataFragA
    <3> DEFINE seq == HandlerPacket.seq
               ack == SendSoePacket(Ctl("AckA", seq))
    <3>1. seq \in SeqNo
      BY <2>2, <2>10 DEF handleDataFragA, Handles, SimpleOps, DataOps
    <3>2. CASE ~SequenceIsValid(seq) /\ Finish(<<SendSoePacket(Ctl("OutOfOrderA", seq))>>)
      BY <1>3, <2>1, <2>3, <3>1, <3>2
    <3>3. ASSUME SequenceIsValid(seq), accepted' \in {accepted + 1, accepted + 2}
          PROVE  ack \in Handler /\ Posted(ack)
      <4>1. seq = accepted % SeqModulus
        BY <1>0, <3>3 DEF SequenceIsValid
      <4>2. QED
        BY <2>4, <3>1, <3>3, <4>1
    <3>4. CASE SequenceIsValid(seq) /\ AcknowledgeSequence(seq) /\ Finish(<<ack>>)
      BY <1>3, <2>1, <3>3, <3>4 DEF AcknowledgeSequence
    <3>5. ASSUME SequenceIsValid(seq), NEW h \in Handler, Posted(h), Finish(<<ack, h>>),
                 accepted' \in {accepted + 1, accepted + 2}
          PROVE  Goal
      <4>1. ack \in Handler /\ Posted(ack)
        BY <3>3, <3>5
      <4> HIDE DEF ack
      <4>2. <<ack, h>> \in Seq(Handler) /\ \A k \in DOMAIN <<ack, h>> : <<ack, h>>[k] \in {ack, h}
        BY <4>1
      <4>3. \A k \in DOMAIN <<ack, h>> : Posted(<<ack, h>>[k])
        BY <3>5, <4>1, <4>2
      <4>4. QED
        BY <1>0, <2>1, <3>5, <4>2, <4>3, FinishOrigin
    <3>6. CASE /\ SequenceIsValid(seq) /\ AcknowledgeSequence(seq)
               /\ Finish(<<ack, SendSoePacket(Ctl("OutOfOrderA", 0))>>)
      BY <1>0, <2>3, <3>5, <3>6 DEF AcknowledgeSequence
    <3>7. CASE /\ SequenceIsValid(seq) /\ After(seq) = 0 /\ accepted' = accepted + 2
               /\ Finish(<<ack, SendSoePacket(Ctl("AckA", 0))>>)
      <4>1. (accepted + 1) % SeqModulus = 0
        BY <1>0, <3>7, AfterMod DEF SequenceIsValid
      <4>2. accepted + 1 \in accepted .. accepted' - 1
        BY <1>0, <3>7
      <4>3. Posted(SendSoePacket(Ctl("AckA", 0))) /\ SendSoePacket(Ctl("AckA", 0)) \in Handler
        BY <1>0, <4>1, <4>2, AckPosted, CtlPost DEF SimpleOps
      <4>4. QED
        BY <3>5, <3>7, <4>3
    <3>8. QED
      BY <2>10, <3>2, <3>4, <3>6, <3>7 DEF handleDataFragA
  <2>11. QED
    BY <1>6, <2>5, <2>6, <2>7, <2>8, <2>9, <2>10 DEF HandleMessageInternal
<1>7. ASSUME NEW d \in Inbound, HandleProtocolMessage(d) PROVE Goal
  <2>1. Protocol(d) \in Handler /\ Posted(Protocol(d))
    BY PostType, ControlPosted
  <2>2. QED
    BY <1>0, <1>7, <2>1, AppendOrigin DEF HandleProtocolMessage
<1>8. CASE Close
  <2>1. /\ SendSoePacket(Ctl("Disconnect", 0)) \in Handler
        /\ Posted(SendSoePacket(Ctl("Disconnect", 0)))
    BY <1>0, CtlPost, ControlPosted DEF SimpleOps, DataOps
  <2>2. QED
    BY <1>0, <1>8, <2>1, AppendOrigin DEF Close
<1>9. CASE SendSequencedMessage
  <2>1. Numbered \in Packet /\ strand' = Append(strand, SendSoePacket(Numbered))
    BY <1>9, NumberedType, DataIsPacket
  <2>2. SendSoePacket(Numbered) \in Handler /\ Posted(SendSoePacket(Numbered))
    BY <1>9, <2>1, PostType DEF Posted, SendSoePacket
  <2>3. QED
    BY <1>0, <2>1, <2>2, AppendOrigin
<1>10. CASE \/ Update \/ StoreSentMessage \/ (\E m \in Payload : SendTo(m))
            \/ UNCHANGED sessionVars
  BY <1>1, <1>10 DEF Update, StoreSentMessage, SendTo, sessionVars
<1>11. QED
  BY <1>4, <1>5, <1>6, <1>7, <1>8, <1>9, <1>10 DEF Next, Strand, ServiceTimer

\* What is handed to the socket was a handler at the head of the strand, or is
\* the SessionResponse.
LEMMA DownlinkStep ==
    ASSUME TypeOK, [Next]_sessionVars
    PROVE  \A d \in downlink' :
              \/ d \in downlink
              \/ d.packet.op = "SessionResponse"
              \/ \E j \in DOMAIN strand : strand[j].run = "send" /\ d.packet = strand[j].packet
<1>1. CASE handleSessionRequest
  BY <1>1 DEF handleSessionRequest, Ctl
<1>2. CASE SendSoePacketInternal
  <2>1. /\ strand \in Seq(Handler) /\ strand # <<>> /\ Head(strand).run = "send"
        /\ downlink' = downlink \cup {[packet |-> Head(strand).packet, sealed |-> TRUE]}
    BY <1>2 DEF TypeOK, SendSoePacketInternal, Runs
  <2>2. Head(strand) = strand[1] /\ 1 \in DOMAIN strand
    BY <2>1, HeadTailProperties, LenProperties
  <2>3. QED
    BY <2>1, <2>2
<1>3. CASE ~handleSessionRequest /\ ~SendSoePacketInternal
  <2>1. UNCHANGED downlink
    BY <1>3 DEF Next, Strand, ServiceTimer, HandleMessageInternal, sessionVars,
         HandleProtocolMessage, HandleProtocolMessageInternal, handleMultiPacket,
         handleChildDataA, handleDataFragA, handleAckA, handleOutOfOrderA,
         handlePing, handleNetStatsClient, handleDisconnect, UnhandledOpcode,
         GameMessage, Close, SendTo, Update, SendSequencedMessage, StoreSentMessage
  <2>2. QED
    BY <2>1
<1>4. QED
  BY <1>1, <1>2, <1>3

-----------------------------------------------------------------------------
(* What is acknowledged was accepted; what is sent was numbered.             *)

\* Whatever the remote end sends, every acknowledgement on its way out is of a
\* sequence the session accepted (AcknowledgeSequence_, session.cc).
THEOREM AcksCorrect == Spec => []AckOnlyAccepted
<1>1. Init => AckOnlyAccepted
  <2> SUFFICES ASSUME Init PROVE AckOnlyAccepted
    OBVIOUS
  <2>1. 0 = 0 % SeqModulus
    OBVIOUS
  <2>2. QED
    BY <2>1 DEF Init, AckOnlyAccepted
<1>2. TypeOK /\ AckOnlyAccepted /\ [Next]_sessionVars => AckOnlyAccepted'
  <2> SUFFICES ASSUME TypeOK, AckOnlyAccepted, [Next]_sessionVars PROVE AckOnlyAccepted'
    OBVIOUS
  <2>1. /\ accepted \in Nat /\ accepted' \in Nat /\ accepted' >= accepted
        /\ next_client_sequence = accepted % SeqModulus
        /\ next_client_sequence' = accepted' % SeqModulus
    BY ReceiveStep DEF AckOnlyAccepted, TypeOK
  <2> DEFINE Acked(s) == \E n \in 0 .. accepted' - 1 : n % SeqModulus = s
  <2>2. \A s : WasAccepted(s) => Acked(s)
    <3>1. 0 .. accepted - 1 \subseteq 0 .. accepted' - 1
      BY <2>1, IntervalFacts
    <3>2. QED
      BY <3>1 DEF WasAccepted
  <2>3. ASSUME NEW i \in DOMAIN strand', strand'[i].run = "send",
               strand'[i].packet.op = "AckA"
        PROVE  Acked(strand'[i].packet.seq)
    <3>1. CASE Waiting(strand'[i])
      BY <2>2, <2>3, <3>1 DEF Waiting, AckOnlyAccepted
    <3>2. CASE Posted(strand'[i])
      <4>1. CASE \E n \in accepted .. accepted' - 1 : strand'[i].packet.seq = n % SeqModulus
        <5>1. accepted .. accepted' - 1 \subseteq 0 .. accepted' - 1
          BY <2>1, IntervalFacts
        <5>2. QED
          BY <4>1, <5>1
      <4>2. "AckA" \notin DataOps
        BY DEF DataOps
      <4>3. CASE SendSequencedMessage /\ strand'[i].packet = Numbered
        BY <2>3, <4>2, <4>3, NumberedType DEF Data
      <4>4. QED
        BY <2>3, <3>2, <4>1, <4>2, <4>3 DEF Posted
    <3>3. QED
      BY <2>1, <2>3, <3>1, <3>2, OriginStep
  <2>4. ASSUME NEW d \in downlink', d.packet.op = "AckA"
        PROVE  Acked(d.packet.seq)
    <3>1. CASE d \in downlink
      BY <2>2, <2>4, <3>1 DEF AckOnlyAccepted
    <3>2. CASE \E j \in DOMAIN strand : strand[j].run = "send" /\ d.packet = strand[j].packet
      BY <2>2, <2>4, <3>2 DEF AckOnlyAccepted
    <3>3. QED
      BY <2>4, <3>1, <3>2, DownlinkStep
  <2>5. QED
    BY <2>1, <2>3, <2>4 DEF AckOnlyAccepted, WasAccepted
<1>3. QED
  BY <1>1, <1>2, TypeCorrect, PTL DEF Spec

\* The nth packet gets number n - 1 modulo 2^16, and a data packet on its way out,
\* first copy or resent, is exactly the packet its number was given to.
THEOREM SequencedDataCorrect == Spec => []OnlySequencedData
<1>1. Init => OnlySequencedData
  <2> SUFFICES ASSUME Init PROVE OnlySequencedData
    OBVIOUS
  <2>1. 0 = 0 % SeqModulus /\ Len(<<>>) = 0 /\ DOMAIN <<>> = {}
    OBVIOUS
  <2>2. QED
    BY <2>1 DEF Init, OnlySequencedData, NumberedInOrder
<1>2. /\ TypeOK /\ SentIsLatestRun /\ OnlySequencedData /\ [Next]_sessionVars
      /\ next_client_sequence = accepted % SeqModulus
      => OnlySequencedData'
  <2> SUFFICES ASSUME TypeOK, SentIsLatestRun, OnlySequencedData, [Next]_sessionVars,
                      next_client_sequence = accepted % SeqModulus
               PROVE  OnlySequencedData'
    OBVIOUS
  <2>1. /\ NumberedInOrder'
        /\ \A n \in DOMAIN sequenced :
              n \in DOMAIN sequenced' /\ sequenced'[n] = sequenced[n]
    BY NumberStep DEF OnlySequencedData
  <2> DEFINE InSequence(p) == \E n \in DOMAIN sequenced' : sequenced'[n] = p
  <2>2. \A p : IsSequenced(p) => InSequence(p)
    BY <2>1 DEF IsSequenced
  <2>3. ASSUME NEW k \in DOMAIN sent PROVE IsSequenced(sent[k])
    <3>1. /\ Len(sent) \in Nat /\ Len(storing) \in Nat /\ Len(sequenced) \in Nat
          /\ DOMAIN sent = 1 .. Len(sent) /\ DOMAIN sequenced = 1 .. Len(sequenced)
      BY LenProperties DEF TypeOK
    <3>2. StoredCount \in Int /\ StoredCount <= Len(sequenced) /\ Len(sent) <= StoredCount
      BY <3>1 DEF SentIsLatestRun, StoredCount
    <3>3. StoredCount - Len(sent) + k \in DOMAIN sequenced
      BY <3>1, <3>2
    <3>4. QED
      BY <3>3 DEF SentIsLatestRun, IsSequenced
  <2>4. ASSUME SendSequencedMessage PROVE InSequence(Numbered)
    <3>1. /\ sequenced \in Seq(Data) /\ Numbered \in Data
          /\ sequenced' = Append(sequenced, Numbered)
      BY <2>4, NumberedType DEF TypeOK
    <3>2. QED
      BY <3>1, AppendProperties, LenProperties
  <2>5. ASSUME NEW i \in DOMAIN strand', strand'[i].run = "send",
               strand'[i].packet.op \in DataOps
        PROVE  InSequence(strand'[i].packet)
    <3>1. CASE Waiting(strand'[i])
      BY <2>2, <2>5, <3>1 DEF Waiting, OnlySequencedData
    <3>2. CASE Posted(strand'[i])
      <4>1. strand'[i].packet.op # "AckA"
        BY <2>5 DEF DataOps
      <4>2. QED
        BY <2>2, <2>3, <2>4, <2>5, <3>2, <4>1 DEF Posted
    <3>3. QED
      BY <3>1, <3>2, OriginStep
  <2>6. ASSUME NEW d \in downlink', d.packet.op \in DataOps
        PROVE  InSequence(d.packet)
    <3>1. CASE d \in downlink
      BY <2>2, <2>6, <3>1 DEF OnlySequencedData
    <3>2. CASE \E j \in DOMAIN strand : strand[j].run = "send" /\ d.packet = strand[j].packet
      BY <2>2, <2>6, <3>2 DEF OnlySequencedData
    <3>3. d.packet.op # "SessionResponse"
      BY <2>6 DEF DataOps
    <3>4. QED
      BY <3>1, <3>2, <3>3, DownlinkStep
  <2>7. QED
    BY <2>1, <2>5, <2>6 DEF OnlySequencedData, IsSequenced
<1>3. AckOnlyAccepted => next_client_sequence = accepted % SeqModulus
  BY DEF AckOnlyAccepted
<1>4. QED
  BY <1>1, <1>2, <1>3, TypeCorrect, SentRunCorrect, AcksCorrect, PTL DEF Spec

\* Whatever the remote end acknowledges or reports, sent_messages_ is the gapless
\* latest part of what was numbered and every copy that goes out is exact
\* (SendSequencedMessage_, handleAckA_, handleOutOfOrderA_).
THEOREM ResendsCorrect == Spec => []ResendsAreExact
<1>1. SentIsLatestRun /\ OnlySequencedData => ResendsAreExact
  BY DEF ResendsAreExact
<1>2. QED
  BY <1>1, SentRunCorrect, SequencedDataCorrect, PTL

-----------------------------------------------------------------------------
(* The channel: its server end is the session, so what is proved of the      *)
(* session holds in it.                                                      *)

HIDE ConstantsAssumption

ChannelInv ==
    /\ ChannelTypeOK
    /\ Len(offered) <= MaxData
    /\ \A i \in 1 .. Len(offered) : offered[i] = ClientScript[i]
    /\ uplink \subseteq ClientDatagrams

LEMMA DatagramFacts ==
    /\ ClientDatagrams \subseteq Inbound /\ ClientDatagrams \subseteq Datagram
    /\ MaxData \in Nat /\ MaxData < KeyShift /\ KeyShift + MaxData <= SeqModulus
    /\ ClientScript \in Seq(Payload) /\ ServerScript \in Seq(Payload)
    /\ \A i \in 1 .. MaxData : ClientScript[i] \in Payload
<1>1. ClientDatagrams \subseteq Inbound /\ Inbound \subseteq Datagram
  BY ChannelAssumption, ConstantsAssumption
<1>2. ClientScript \in Seq(Payload) /\ ServerScript \in Seq(Payload)
  BY ChannelAssumption
<1>3. MaxData \in Nat /\ \A i \in 1 .. MaxData : ClientScript[i] \in Payload
  BY <1>2, LenProperties, ElementOfSeq DEF MaxData
<1>4. MaxData < KeyShift /\ KeyShift + MaxData <= SeqModulus
  BY ChannelAssumption
<1> QED BY <1>1, <1>2, <1>3, <1>4

LEMMA ClientKinds ==
    /\ \A s \in SeqNo : /\ Sealed(Ctl("AckA", s)) \in ClientDatagrams
                        /\ Sealed(Ctl("OutOfOrderA", s)) \in ClientDatagrams
    /\ \A n \in 0 .. MaxData - 1 : Sealed(DataPacket(n)) \in ClientDatagrams
    /\ \A n \in 0 .. MaxData - 2 : Sealed(Bundle(n)) \in ClientDatagrams
    /\ Plain(Ctl("SessionRequest", 0)) \in ClientDatagrams
    /\ Sealed(Ctl("Disconnect", 0)) \in ClientDatagrams
BY DEF ClientDatagrams

LEMMA SmallMod == \A n \in Nat : n < SeqModulus => n % SeqModulus = n
BY ConstantsAssumption

LEMMA SendsStep ==
    ASSUME NEW d \in ClientDatagrams, ClientSends(d), ChannelTypeOK
    PROVE  /\ HandleProtocolMessage(d) \/ UNCHANGED sessionVars
           /\ [Next]_sessionVars /\ TypeOK'
           /\ uplink' \subseteq uplink \cup {d} /\ spent' \in Nat
<1>1. d \in Inbound
  BY DatagramFacts
<1>2. spent \in Nat
  BY DEF ChannelTypeOK
<1>3. HandleProtocolMessage(d) \/ UNCHANGED sessionVars
  BY DEF ClientSends
<1>4. [Next]_sessionVars
  BY <1>1, <1>3 DEF Next
<1> QED BY <1>2, <1>3, <1>4, TypeStep DEF ClientSends, ChannelTypeOK

\* What a step of the client leaves as it was, and how it moves its own state.
ClientMoves ==
    /\ clientState' \in {"closed", "requesting", "open"}
    /\ offered' \in Seq(Payload) /\ Len(offered') <= MaxData
    /\ \A i \in 1 .. Len(offered') : offered'[i] = ClientScript[i]
    /\ clientAcked' \in 0 .. Len(offered')
    /\ expected' \in Nat /\ received' \in Seq(Seq(Payload))

\* A step of the client sends at most one of its datagrams; it takes at most the next
\* packet and offers at most the next message of its script.
LEMMA ClientStep ==
    ASSUME ChannelInv, Client
    PROVE  /\ \/ UNCHANGED <<sessionVars, uplink, spent>>
              \/ \E d \in ClientDatagrams : ClientSends(d)
           /\ ClientMoves
<1> DEFINE Sends == \E d \in ClientDatagrams : ClientSends(d)
<1>0. /\ clientState \in {"closed", "requesting", "open"}
      /\ offered \in Seq(Payload) /\ Len(offered) \in Nat /\ Len(offered) <= MaxData
      /\ \A i \in 1 .. Len(offered) : offered[i] = ClientScript[i]
      /\ clientAcked \in 0 .. Len(offered)
      /\ expected \in Nat /\ received \in Seq(Seq(Payload))
      /\ MaxData \in Nat /\ MaxData < SeqModulus
  <2>1. MaxData \in Nat /\ MaxData < SeqModulus
    BY DatagramFacts, ConstantsAssumption
  <2> QED BY <2>1, LenProperties DEF ChannelInv, ChannelTypeOK
<1>2. CASE RequestSession
  <2>1. Sends
    BY <1>2, ClientKinds DEF RequestSession
  <2>2. ClientMoves
    BY <1>0, <1>2 DEF RequestSession, ClientMoves
  <2> QED BY <2>1, <2>2
<1>3. CASE SessionOpens \/ DisconnectedByServer
  <2>1. ClientMoves
    BY <1>0, <1>3 DEF SessionOpens, DisconnectedByServer, ClientMoves
  <2> QED BY <1>3, <2>1 DEF SessionOpens, DisconnectedByServer
<1>4. CASE SendData
  <2>1. ClientSends(Sealed(DataPacket(Len(offered)))) /\ Len(offered) \in 0 .. MaxData - 1
    BY <1>0, <1>4 DEF SendData
  <2>2. /\ offered' \in Seq(Payload) /\ Len(offered') = Len(offered) + 1
        /\ \A i \in 1 .. Len(offered) : offered'[i] = offered[i]
        /\ offered'[Len(offered) + 1] = ClientScript[Len(offered) + 1]
    <3>1. ClientScript[Len(offered) + 1] \in Payload
      BY <1>0, <2>1, DatagramFacts
    <3>2. offered' = Append(offered, ClientScript[Len(offered) + 1])
      BY <1>4 DEF SendData
    <3> QED BY <1>0, <3>1, <3>2, AppendProperties
  <2>3. \A i \in 1 .. Len(offered') : offered'[i] = ClientScript[i]
    <3>1. \A i \in 1 .. Len(offered) + 1 : i \in 1 .. Len(offered) \/ i = Len(offered) + 1
      BY <1>0
    <3> QED BY <1>0, <2>2, <3>1
  <2>4. UNCHANGED <<clientState, clientAcked, expected, received>>
    BY <1>4 DEF SendData
  <2>5. clientAcked' \in 0 .. Len(offered') /\ Len(offered') <= MaxData
    BY <1>0, <2>1, <2>2, <2>4
  <2>6. ClientMoves
    BY <1>0, <2>2, <2>3, <2>4, <2>5 DEF ClientMoves
  <2> QED BY <2>1, <2>6, ClientKinds
<1>5. ASSUME NEW n \in 0 .. MaxData - 1, ResendData(n) \/ ResendBundle(n)
      PROVE  Sends /\ ClientMoves
  <2>1. UNCHANGED clientVars
    BY <1>5 DEF ResendData, ResendBundle
  <2>2. ClientMoves
    BY <1>0, <2>1 DEF clientVars, ClientMoves
  <2>3. CASE ResendData(n)
    BY <2>2, <2>3, ClientKinds DEF ResendData
  <2>4. CASE ResendBundle(n)
    <3>1. n \in 0 .. MaxData - 2
      BY <1>0, <2>4 DEF ResendBundle
    <3> QED BY <2>2, <2>4, <3>1, ClientKinds DEF ResendBundle
  <2> QED BY <1>5, <2>3, <2>4
<1>6. ASSUME NEW d \in downlink, ReceiveAck(d)
      PROVE  UNCHANGED <<sessionVars, uplink, spent>> /\ ClientMoves
  <2>1. PICK n \in clientAcked .. Len(offered) - 1 : clientAcked' = n + 1
    BY <1>6 DEF ReceiveAck
  <2>2. clientAcked' \in 0 .. Len(offered)
    BY <1>0, <2>1
  <2>3. UNCHANGED <<sessionVars, clientState, offered, expected, received, uplink, spent>>
    BY <1>6 DEF ReceiveAck
  <2> QED BY <1>0, <2>2, <2>3 DEF ClientMoves
<1>7. ASSUME NEW d \in downlink, ReceiveData(d)
      PROVE  Sends /\ ClientMoves
  <2>1. /\ d.packet.op \in DataOps /\ d \in Datagram
        /\ UNCHANGED <<clientState, offered, clientAcked>>
    BY <1>7 DEF ReceiveData, ChannelInv, ChannelTypeOK, TypeOK
  <2>2. d.packet \in Data /\ d.packet.seq \in SeqNo /\ d.packet.body \in Seq(Payload)
    <3>1. d.packet \in Packet
      BY <2>1 DEF Datagram
    <3>2. d.packet \in Data
      BY <2>1, <3>1 DEF Packet, Simple, Multi, Data, DataOps
    <3> QED BY <3>2 DEF Data
  <2>3. expected' \in Nat
    BY <1>0, <1>7 DEF ReceiveData
  <2>4. received' \in Seq(Seq(Payload))
    <3>1. received' = received \/ received' = Append(received, d.packet.body)
      BY <1>7 DEF ReceiveData
    <3> DEFINE S == Seq(Payload)
    <3>2. received \in Seq(S) /\ d.packet.body \in S
      BY <1>0, <2>2
    <3> HIDE DEF S
    <3>3. received' \in Seq(S)
      BY <3>1, <3>2, AppendProperties
    <3> QED BY <3>3 DEF S
  <2>5. ClientMoves
    BY <1>0, <2>1, <2>3, <2>4 DEF ClientMoves
  <2>6. CASE ClientSends(Sealed(Ctl("AckA", d.packet.seq)))
             \/ ClientSends(Sealed(Ctl("OutOfOrderA", d.packet.seq)))
    BY <2>2, <2>5, <2>6, ClientKinds
  <2>7. CASE d.packet.seq < expected /\ ClientSends(Sealed(Ctl("AckA", (expected - 1) % SeqModulus)))
    <3>1. expected - 1 \in Nat
      BY <1>0, <2>2, <2>7 DEF SeqNo
    <3>2. (expected - 1) % SeqModulus \in SeqNo
      BY <3>1, ModType
    <3> QED BY <2>5, <2>7, <3>2, ClientKinds
  <2> QED BY <1>7, <2>6, <2>7 DEF ReceiveData
<1>8. CASE Leave
  <2>1. ClientMoves
    BY <1>0, <1>8 DEF Leave, ClientMoves
  <2> QED BY <1>8, <2>1, ClientKinds DEF Leave
<1> QED BY <1>2, <1>3, <1>4, <1>5, <1>6, <1>7, <1>8 DEF Client

LEMMA ServerChoices ==
    ASSUME ChannelInv, Server
    PROVE  /\ Strand \/ ServiceTimer \/ Close \/ \E m \in Payload : SendTo(m)
           /\ UNCHANGED <<clientVars, uplink, spent>>
<1>1. ASSUME Len(pushed) < Len(ServerScript), SendTo(ServerScript[Len(pushed) + 1])
      PROVE  \E m \in Payload : SendTo(m)
  <2>1. Len(pushed) \in Nat /\ Len(ServerScript) \in Nat
    BY DatagramFacts, LenProperties DEF ChannelInv, ChannelTypeOK, TypeOK
  <2>2. Len(pushed) + 1 \in 1 .. Len(ServerScript)
    BY <1>1, <2>1
  <2> QED BY <1>1, <2>2, DatagramFacts, ElementOfSeq
<1> QED BY <1>1 DEF Server

LEMMA ServerStep ==
    ASSUME ChannelInv, Server
    PROVE  Next /\ UNCHANGED <<clientVars, uplink, spent>>
BY ServerChoices DEF Next

\* Every step of the channel is one of the session, or leaves it as it is.
LEMMA ChannelStep ==
    ASSUME ChannelInv, [ChannelNext]_channelVars
    PROVE  [Next]_sessionVars /\ ChannelInv'
<1>0. TypeOK /\ uplink \subseteq ClientDatagrams /\ uplink \subseteq Datagram /\ spent \in Nat
  BY DEF ChannelInv, ChannelTypeOK
<1>1. CASE Client
  <2>1. ClientMoves
    BY <1>1, ClientStep
  <2>2. /\ [Next]_sessionVars /\ TypeOK' /\ spent' \in Nat
        /\ uplink' \subseteq ClientDatagrams /\ uplink' \subseteq Datagram
    <3>1. CASE UNCHANGED <<sessionVars, uplink, spent>>
      BY <1>0, <3>1, TypeStep
    <3>2. CASE \E d \in ClientDatagrams : ClientSends(d)
      BY <1>0, <3>2, SendsStep, DatagramFacts DEF ChannelInv
    <3> QED BY <1>1, <3>1, <3>2, ClientStep
  <2> QED BY <2>1, <2>2 DEF ChannelInv, ChannelTypeOK, ClientMoves
<1>2. CASE Server
  <2>1. Next /\ UNCHANGED <<clientVars, uplink, spent>>
    BY <1>2, ServerStep
  <2>2. TypeOK'
    BY <1>0, <2>1, TypeStep
  <2> QED BY <2>1, <2>2 DEF ChannelInv, ChannelTypeOK, clientVars
<1>3. ASSUME NEW d \in uplink, Arrive(d) PROVE [Next]_sessionVars /\ ChannelInv'
  <2>1. d \in Inbound
    BY <1>0, DatagramFacts
  <2>2. Next /\ UNCHANGED <<clientVars, uplink, spent>>
    BY <1>3, <2>1 DEF Arrive, Next
  <2>3. TypeOK'
    BY <1>0, <2>2, TypeStep
  <2> QED BY <2>2, <2>3 DEF ChannelInv, ChannelTypeOK, clientVars
<1>4. CASE UNCHANGED channelVars
  <2>1. UNCHANGED <<sessionVars, clientVars, uplink, spent>>
    BY <1>4 DEF channelVars
  <2>2. TypeOK'
    BY <1>0, <2>1, TypeStep
  <2> QED BY <2>1, <2>2 DEF ChannelInv, ChannelTypeOK, clientVars
<1> QED BY <1>1, <1>2, <1>3, <1>4 DEF ChannelNext

LEMMA ChannelInitial == ChannelInit => Init /\ ChannelInv
<1> SUFFICES ASSUME ChannelInit PROVE Init /\ ChannelInv
  OBVIOUS
<1>1. Init /\ TypeOK
  BY InitType DEF ChannelInit
<1>2. /\ offered = <<>> /\ clientState = "closed" /\ clientAcked = 0 /\ expected = 0
      /\ received = <<>> /\ uplink = {} /\ spent = 0
  BY DEF ChannelInit
<1>3. <<>> \in Seq(Payload) /\ <<>> \in Seq(Seq(Payload)) /\ Len(<<>>) = 0
  OBVIOUS
<1>4. clientAcked \in 0 .. Len(offered) /\ Len(offered) <= MaxData
  BY <1>2, <1>3, DatagramFacts
<1>5. \A i \in 1 .. Len(offered) : offered[i] = ClientScript[i]
  BY <1>2, <1>3
<1> QED BY <1>1, <1>2, <1>3, <1>4, <1>5 DEF ChannelInv, ChannelTypeOK

\* The client, the network and the server's other threads together drive the session
\* only in ways it is specified for: what it promises any remote end holds for this one
\* (HandleProtocolMessage, SendTo, Update, Close).
THEOREM ChannelIsASession == ChannelSpec => Spec
<1>1. ChannelInv /\ [ChannelNext]_channelVars => [Next]_sessionVars /\ ChannelInv'
  BY ChannelStep
<1> QED BY <1>1, ChannelInitial, PTL DEF ChannelSpec, Spec

LEMMA ChannelInvCorrect == ChannelSpec => []ChannelInv
<1>1. ChannelInv /\ [ChannelNext]_channelVars => ChannelInv'
  BY ChannelStep
<1> QED BY <1>1, ChannelInitial, PTL DEF ChannelSpec

-----------------------------------------------------------------------------
(* Client to server: the data channel is the ordered channel.                *)

ControlOps == {"AckA", "OutOfOrderA", "Disconnect", "SessionRequest"}

\* A packet of a client that has sent the first n messages of its script.
FromClient(p, n) ==
    \/ p.op \in ControlOps
    \/ \E k \in 0 .. n - 1 : p = DataPacket(k)
    \/ \E k \in 0 .. n - 2 : p = Bundle(k)

\* Everything queued that came in is the client's.
QueuedFromClient(n) ==
    \A i \in DOMAIN strand : strand[i].run # "send" => FromClient(strand[i].packet, n)

\* The game server was given the first n messages, and the next is due.
GivenInOrder(n) ==
    /\ Len(delivered) <= n /\ next_client_sequence = Len(delivered)
    /\ \A i \in 1 .. Len(delivered) : delivered[i] = ClientScript[i]

UplinkInv ==
    /\ QueuedFromClient(Len(offered)) /\ GivenInOrder(Len(offered))
    /\ \A d \in uplink : FromClient(d.packet, Len(offered))

LEMMA FromClientMonotone ==
    ASSUME NEW n \in Nat, NEW m \in Nat, n <= m, NEW p, FromClient(p, n)
    PROVE  FromClient(p, m)
<1>1. 0 .. n - 1 \subseteq 0 .. m - 1 /\ 0 .. n - 2 \subseteq 0 .. m - 2
  OBVIOUS
<1> QED BY <1>1 DEF FromClient

\* The kinds of packet the client sends, and what a bundle of its holds.
LEMMA ClientPacketKinds ==
    ASSUME NEW n \in Nat, NEW p, FromClient(p, n)
    PROVE  /\ p.op \in ControlOps \cup {"ChildDataA", "MultiPacket"}
           /\ p.op = "ChildDataA" => \E k \in 0 .. n - 1 : p = DataPacket(k)
           /\ p.op = "MultiPacket" => \A i \in DOMAIN p.body : FromClient(p.body[i], n)
<1>1. CASE p.op \in ControlOps
  BY <1>1 DEF ControlOps
<1>2. ASSUME NEW k \in 0 .. n - 1, p = DataPacket(k) PROVE p.op = "ChildDataA"
  BY <1>2 DEF DataPacket
<1>3. ASSUME NEW k \in 0 .. n - 2, p = Bundle(k)
      PROVE  p.op = "MultiPacket" /\ \A i \in DOMAIN p.body : FromClient(p.body[i], n)
  <2>1. p.op = "MultiPacket" /\ p.body = <<DataPacket(k), DataPacket(k + 1)>>
    BY <1>3 DEF Bundle
  <2>2. k \in 0 .. n - 1 /\ k + 1 \in 0 .. n - 1
    OBVIOUS
  <2>3. FromClient(DataPacket(k), n) /\ FromClient(DataPacket(k + 1), n)
    BY <2>2 DEF FromClient
  <2>4. DOMAIN p.body = 1 .. 2 /\ p.body[1] = DataPacket(k) /\ p.body[2] = DataPacket(k + 1)
    BY <2>1
  <2>5. \A i \in 1 .. 2 : i = 1 \/ i = 2
    OBVIOUS
  <2> QED BY <2>1, <2>3, <2>4, <2>5
<1> QED BY <1>1, <1>2, <1>3 DEF FromClient

\* The strand's own steps post nothing that came in but what they read from it.
LEMMA StrandKeepsClients ==
    ASSUME TypeOK, NEW n \in Nat, QueuedFromClient(n),
           \/ Strand \/ ServiceTimer \/ Close \/ (\E m \in Payload : SendTo(m))
           \/ UNCHANGED sessionVars
    PROVE  QueuedFromClient(n)'
<1> DEFINE Fine(h) == h.run # "send" => FromClient(h.packet, n)
<1>0. strand \in Seq(Handler) /\ \A h : Waiting(h) => Fine(h)
  BY DEF TypeOK, QueuedFromClient, Waiting
<1>1. ASSUME UNCHANGED strand PROVE QueuedFromClient(n)'
  BY <1>1 DEF QueuedFromClient
<1>2. ASSUME strand # <<>>, NEW posts \in Seq(Handler), Finish(posts),
             \A k \in DOMAIN posts : Fine(posts[k])
      PROVE  QueuedFromClient(n)'
  <2>1. \A i \in DOMAIN strand' : Fine(strand'[i])
    BY <1>0, <1>2, FinishOrigin
  <2> QED BY <2>1 DEF QueuedFromClient
<1>3. ASSUME strand # <<>>, Finish(<<>>) PROVE QueuedFromClient(n)'
  <2>1. <<>> \in Seq(Handler) /\ DOMAIN <<>> = {}
    BY EmptySeq
  <2> QED BY <1>2, <1>3, <2>1
<1>4. ASSUME strand # <<>>, NEW h \in Handler, Finish(<<h>>), Fine(h) PROVE QueuedFromClient(n)'
  <2>1. <<h>> \in Seq(Handler) /\ \A k \in DOMAIN <<h>> : <<h>>[k] = h
    OBVIOUS
  <2>2. \A k \in DOMAIN <<h>> : Fine(<<h>>[k])
    BY <1>4, <2>1
  <2> QED BY <1>2, <1>4, <2>1, <2>2
<1>5. ASSUME strand # <<>>
      PROVE  /\ Head(strand) \in Handler /\ Fine(Head(strand))
             /\ Head(strand).packet \in Packet /\ Head(strand).sealed \in BOOLEAN
  <2>1. Head(strand) \in Handler /\ Head(strand) = strand[1] /\ 1 \in DOMAIN strand
    BY <1>0, <1>5, HeadTailProperties, LenProperties
  <2> QED BY <2>1 DEF QueuedFromClient, Handler
<1>6. \A p \in Packet : SendSoePacket(p) \in Handler /\ SendSoePacket(p).run = "send"
  <2>1. \A p \in Packet : SendSoePacket(p) \in Handler
    BY PostType
  <2>2. \A p \in Packet : SendSoePacket(p).run = "send"
    BY DEF SendSoePacket
  <2> QED BY <2>1, <2>2
<1>7. ASSUME NEW p \in Packet, strand' = Append(strand, SendSoePacket(p)) PROVE QueuedFromClient(n)'
  <2>1. \A i \in DOMAIN strand' : Fine(strand'[i])
    BY <1>0, <1>6, <1>7, AppendOrigin
  <2> QED BY <2>1 DEF QueuedFromClient
<1>8. CASE HandleProtocolMessageInternal
  <2>1. strand # <<>> /\ Head(strand).run = "protocol"
    BY <1>8 DEF HandleProtocolMessageInternal, Runs
  <2>2. \A b \in BOOLEAN : /\ Message(Head(strand).packet, b) \in Handler
                           /\ Fine(Message(Head(strand).packet, b))
    BY <1>5, <2>1, PostType DEF Message
  <2> QED BY <1>3, <1>4, <1>5, <1>8, <2>1, <2>2 DEF HandleProtocolMessageInternal
<1>9. CASE SendSoePacketInternal
  BY <1>3, <1>9 DEF SendSoePacketInternal, Runs
<1>10. CASE HandleMessageInternal
  <2>1. Runs("message") /\ strand # <<>> /\ Head(strand).run = "message"
    BY <1>10 DEF HandleMessageInternal, Handles, handleSessionRequest, handleMultiPacket,
         handleChildDataA, handleDataFragA, handleAckA, handleOutOfOrderA,
         handlePing, handleNetStatsClient, handleDisconnect, UnhandledOpcode,
         GameMessage, Runs
  <2>2. FromClient(Head(strand).packet, n) /\ HandlerPacket.op = Head(strand).packet.op
    BY <1>5, <2>1 DEF HandlerPacket, Undecoded, Handler, Packet, Simple, Multi
  <2>3. HandlerPacket.op \in ControlOps \cup {"ChildDataA", "MultiPacket"}
    BY <2>2, ClientPacketKinds
  <2>4. HandlerPacket.op \in SimpleOps => HandlerPacket.seq \in SeqNo
    BY <2>1, HandlerPacketType DEF Simple
  <2>5. \A op \in {"AckA", "Disconnect", "OutOfOrderA"}, s \in SeqNo :
            Ctl(op, s) \in Packet
    BY CtlType DEF SimpleOps, Packet
  <2>6. CASE handleSessionRequest \/ handleAckA
    BY <1>3, <2>1, <2>6 DEF handleSessionRequest, handleAckA
  <2>7. CASE handleDisconnect
    <3>1. Ctl("Disconnect", 0) \in Packet
      BY <2>5, ConstantsAssumption DEF SeqNo
    <3> QED BY <1>3, <1>4, <1>6, <2>1, <2>7, <3>1 DEF handleDisconnect
  <2>8. CASE handleChildDataA
    <3>1. HandlerPacket.seq \in SeqNo
      BY <2>4, <2>8 DEF handleChildDataA, Handles, SimpleOps, DataOps
    <3>2. Ctl("AckA", HandlerPacket.seq) \in Packet /\ Ctl("OutOfOrderA", HandlerPacket.seq) \in Packet
      BY <2>5, <3>1
    <3>3. \E p \in Packet : Finish(<<SendSoePacket(p)>>)
      BY <2>8, <3>2 DEF handleChildDataA
    <3> QED BY <1>4, <1>6, <2>1, <3>3
  <2>9. CASE handleMultiPacket
    <3> DEFINE parts == HandlerPacket.body
               posts == [i \in DOMAIN parts |-> Message(parts[i], FALSE)]
    <3>1. parts \in Seq(Simple)
      BY <2>1, <2>9, HandlerPacketType DEF handleMultiPacket, Handles
    <3>2. Len(parts) \in Nat /\ DOMAIN parts = 1 .. Len(parts)
      BY <3>1, LenProperties
    <3>3. \A i \in 1 .. Len(parts) : parts[i] \in Packet
      BY <3>1, <3>2, ElementOfSeq DEF Packet
    <3>4. \A i \in DOMAIN parts : FromClient(parts[i], n)
      <4>1. Head(strand).packet.op = "MultiPacket"
        BY <2>2, <2>9 DEF handleMultiPacket, Handles
      <4>2. parts = <<>> \/ parts = Head(strand).packet.body
        BY <1>5, <2>1, <4>1 DEF HandlerPacket, Undecoded, Packet, Simple, Multi, SimpleOps, DataOps
      <4>3. \A i \in DOMAIN Head(strand).packet.body : FromClient(Head(strand).packet.body[i], n)
        BY <2>2, <4>1, ClientPacketKinds
      <4> QED BY <4>2, <4>3
    <3>5. posts \in [1 .. Len(parts) -> Handler]
      BY <3>2, <3>3, PostType
    <3>6. \A i \in 1 .. Len(parts) : Fine(posts[i])
      BY <3>2, <3>4 DEF Message
    <3>7. posts \in Seq(Handler) /\ DOMAIN posts = 1 .. Len(parts)
      BY <3>2, <3>5, FunctionIsSeq
    <3>8. Finish(posts)
      BY <2>9 DEF handleMultiPacket
    <3> HIDE DEF posts
    <3> QED BY <1>2, <2>1, <3>6, <3>7, <3>8
  <2>10. CASE handleOutOfOrderA
    <3> DEFINE posts == [i \in DOMAIN sent |-> SendSoePacket(sent[i])]
    <3>1. Len(sent) \in Nat /\ DOMAIN sent = 1 .. Len(sent) /\ sent \in Seq(Data)
      BY LenProperties DEF TypeOK
    <3>2. \A i \in 1 .. Len(sent) : sent[i] \in Packet
      BY <3>1, ElementOfSeq, DataIsPacket
    <3>3. posts \in [1 .. Len(sent) -> Handler] /\ \A i \in 1 .. Len(sent) : Fine(posts[i])
      BY <1>6, <3>1, <3>2
    <3>4. posts \in Seq(Handler) /\ DOMAIN posts = 1 .. Len(sent)
      BY <3>1, <3>3, FunctionIsSeq
    <3>5. Finish(posts)
      BY <2>10 DEF handleOutOfOrderA
    <3> HIDE DEF posts
    <3> QED BY <1>2, <2>1, <3>3, <3>4, <3>5
  <2> QED
    BY <1>10, <2>3, <2>6, <2>7, <2>8, <2>9, <2>10 DEF HandleMessageInternal, Handles,
       ControlOps, handleDataFragA, handlePing, handleNetStatsClient, UnhandledOpcode, GameMessage
<1>11. CASE Close
  <2>1. Ctl("Disconnect", 0) \in Packet
    BY CtlType, ConstantsAssumption DEF SimpleOps, Packet, SeqNo
  <2> QED BY <1>7, <1>11, <2>1 DEF Close
<1>12. CASE SendSequencedMessage
  <2>1. Numbered \in Packet /\ strand' = Append(strand, SendSoePacket(Numbered))
    BY <1>12, NumberedType, DataIsPacket
  <2> QED BY <1>7, <2>1
<1>13. CASE \/ Update \/ StoreSentMessage \/ (\E m \in Payload : SendTo(m))
            \/ UNCHANGED sessionVars
  BY <1>1, <1>13 DEF Update, StoreSentMessage, SendTo, sessionVars
<1> QED BY <1>8, <1>9, <1>10, <1>11, <1>12, <1>13 DEF Strand, ServiceTimer

\* The strand gives the game server the next message of the client, or none: no packet read
\* without the key, repeated or overtaken carries the number that is due.
LEMMA StrandGivesNext ==
    ASSUME TypeOK, NEW n \in 0 .. MaxData, QueuedFromClient(n), GivenInOrder(n),
           \/ Strand \/ ServiceTimer \/ Close \/ (\E m \in Payload : SendTo(m))
           \/ UNCHANGED sessionVars
    PROVE  /\ GivenInOrder(n)'
           /\ \/ UNCHANGED delivered
              \/ /\ Len(delivered) < n
                 /\ delivered' = Append(delivered, ClientScript[Len(delivered) + 1])
<1> DEFINE Goal == /\ GivenInOrder(n)'
                   /\ \/ UNCHANGED delivered
                      \/ /\ Len(delivered) < n
                         /\ delivered' = Append(delivered, ClientScript[Len(delivered) + 1])
<1>0. /\ delivered \in Seq(Payload) /\ Len(delivered) \in Nat /\ Len(delivered) <= n
      /\ next_client_sequence = Len(delivered) /\ n \in Nat
      /\ \A i \in 1 .. Len(delivered) : delivered[i] = ClientScript[i]
      /\ MaxData \in Nat /\ KeyShift \in Nat /\ SeqModulus \in Nat
      /\ MaxData < KeyShift /\ KeyShift + MaxData <= SeqModulus
  BY LenProperties, DatagramFacts, ConstantsAssumption DEF TypeOK, GivenInOrder
<1>1. ASSUME UNCHANGED <<delivered, next_client_sequence>> PROVE Goal
  BY <1>1 DEF GivenInOrder
<1>2. CASE HandleMessageInternal
  <2>1. Runs("message") /\ strand # <<>> /\ Head(strand).run = "message"
    BY <1>2 DEF HandleMessageInternal, Handles, handleSessionRequest, handleMultiPacket,
         handleChildDataA, handleDataFragA, handleAckA, handleOutOfOrderA,
         handlePing, handleNetStatsClient, handleDisconnect, UnhandledOpcode,
         GameMessage, Runs
  <2>2. Head(strand) \in Handler /\ Head(strand) = strand[1] /\ 1 \in DOMAIN strand
    BY <2>1, HeadTailProperties, LenProperties DEF TypeOK
  <2>3. FromClient(Head(strand).packet, n)
    BY <2>1, <2>2 DEF QueuedFromClient
  <2>4. HandlerPacket.op = Head(strand).packet.op
    BY <2>2 DEF HandlerPacket, Undecoded, Handler, Packet, Simple, Multi
  <2>5. HandlerPacket.op \in ControlOps \cup {"ChildDataA", "MultiPacket"}
    BY <1>0, <2>3, <2>4, ClientPacketKinds
  <2>6. CASE handleChildDataA
    <3>1. HandlerPacket.op = "ChildDataA"
      BY <2>6 DEF handleChildDataA, Handles
    <3>2. PICK k \in 0 .. n - 1 : Head(strand).packet = DataPacket(k)
      BY <1>0, <2>3, <2>4, <3>1, ClientPacketKinds
    <3>3. DataPacket(k).seq = k /\ DataPacket(k).op = "ChildDataA"
          /\ DataPacket(k).body = <<ClientScript[k + 1]>>
      BY DEF DataPacket
    <3>4. CASE Head(strand).sealed
      <4>1. HandlerPacket.seq = (k + KeyShift) % SeqModulus
        BY <2>2, <3>2, <3>3, <3>4 DEF HandlerPacket, Undecoded, DataPacket
      <4>2. (k + KeyShift) % SeqModulus = k + KeyShift
        BY <1>0
      <4>3. HandlerPacket.seq # next_client_sequence
        BY <1>0, <4>1, <4>2
      <4> QED BY <1>1, <2>6, <4>3 DEF handleChildDataA, SequenceIsValid
    <3>5. CASE ~Head(strand).sealed
      <4>1. HandlerPacket = DataPacket(k)
        BY <3>2, <3>5 DEF HandlerPacket
      <4>2. CASE k # next_client_sequence
        BY <1>1, <2>6, <3>3, <4>1, <4>2 DEF handleChildDataA, SequenceIsValid
      <4>3. CASE k = next_client_sequence
        <5>1. next_client_sequence' = After(k) /\ delivered' = delivered \o <<ClientScript[k + 1]>>
          BY <2>6, <3>3, <4>1, <4>3 DEF handleChildDataA, SequenceIsValid, AcknowledgeSequence
        <5>2. After(k) = k + 1
          <6>1. k + 1 \in Nat /\ k + 1 < SeqModulus
            BY <1>0
          <6> QED BY <6>1, SmallMod DEF After
        <5>3. k = Len(delivered) /\ ClientScript[k + 1] \in Payload
          BY <1>0, <4>3, DatagramFacts
        <5>4. delivered' = Append(delivered, ClientScript[Len(delivered) + 1])
          BY <1>0, <5>1, <5>3
        <5>5. /\ Len(delivered') = Len(delivered) + 1
              /\ \A i \in 1 .. Len(delivered) : delivered'[i] = delivered[i]
              /\ delivered'[Len(delivered) + 1] = ClientScript[Len(delivered) + 1]
          BY <1>0, <5>3, <5>4, AppendProperties
        <5>6. \A i \in 1 .. Len(delivered) + 1 : i \in 1 .. Len(delivered) \/ i = Len(delivered) + 1
          BY <1>0
        <5>7. \A i \in 1 .. Len(delivered') : delivered'[i] = ClientScript[i]
          BY <1>0, <5>5, <5>6
        <5>8. Len(delivered') <= n /\ next_client_sequence' = Len(delivered')
          BY <1>0, <5>1, <5>2, <5>3, <5>5
        <5> QED BY <1>0, <5>3, <5>4, <5>7, <5>8 DEF GivenInOrder
      <4> QED BY <4>2, <4>3
    <3> QED BY <3>4, <3>5
  <2>7. CASE ~handleChildDataA
    <3>1. UNCHANGED <<delivered, next_client_sequence>>
      BY <1>2, <2>5, <2>7 DEF HandleMessageInternal, Handles, ControlOps, handleDataFragA,
         GameMessage, handleSessionRequest, handleMultiPacket, handleAckA, handleOutOfOrderA,
         handlePing, handleNetStatsClient, handleDisconnect, UnhandledOpcode, recvVars
    <3> QED BY <1>1, <3>1
  <2> QED BY <2>6, <2>7
<1>3. CASE ~HandleMessageInternal
  <2>1. UNCHANGED <<delivered, next_client_sequence>>
    BY <1>3 DEF Strand, ServiceTimer, sessionVars, recvVars, HandleProtocolMessageInternal,
         SendSoePacketInternal, Close, SendTo, Update, SendSequencedMessage, StoreSentMessage
  <2> QED BY <1>1, <2>1
<1> QED BY <1>2, <1>3

\* A datagram from the network only joins the queue.
LEMMA ArrivalStep ==
    ASSUME TypeOK, NEW n \in Nat, QueuedFromClient(n), GivenInOrder(n),
           NEW d \in Inbound, HandleProtocolMessage(d), FromClient(d.packet, n)
    PROVE  QueuedFromClient(n)' /\ GivenInOrder(n)' /\ UNCHANGED delivered
<1> DEFINE Fine(h) == h.run # "send" => FromClient(h.packet, n)
<1>1. Protocol(d) \in Handler
  BY PostType, ConstantsAssumption
<1>2. strand' = Append(strand, Protocol(d)) /\ Fine(Protocol(d))
  BY DEF HandleProtocolMessage, Protocol
<1>3. strand \in Seq(Handler) /\ \A h : Waiting(h) => Fine(h)
  BY DEF TypeOK, QueuedFromClient, Waiting
<1>4. \A i \in DOMAIN strand' : Fine(strand'[i])
  BY <1>1, <1>2, <1>3, AppendOrigin
<1>5. UNCHANGED <<delivered, next_client_sequence>>
  BY DEF HandleProtocolMessage, recvVars
<1> QED BY <1>4, <1>5 DEF QueuedFromClient, GivenInOrder

LEMMA ControlFromClient ==
    \A n \in Nat, s \in SeqNo :
        /\ \A op \in ControlOps : FromClient(Ctl(op, s), n)
        /\ \A k \in 0 .. n - 1 : FromClient(DataPacket(k), n)
        /\ \A k \in 0 .. n - 2 : FromClient(Bundle(k), n)
BY DEF FromClient, Ctl

\* Whatever the client sends is of its script, as far as it has got in it.
LEMMA SendsFromClient ==
    ASSUME ChannelInv, Client
    PROVE  /\ Len(offered) \in Nat /\ Len(offered') \in Nat /\ Len(offered) <= Len(offered')
           /\ Len(offered') <= MaxData
           /\ \/ UNCHANGED offered
              \/ \E m \in Payload : offered' = Append(offered, m)
           /\ \/ UNCHANGED <<sessionVars, uplink>>
              \/ \E d \in ClientDatagrams :
                    ClientSends(d) /\ FromClient(d.packet, Len(offered'))
<1> DEFINE Sends(p) == \E d \in ClientDatagrams : ClientSends(d) /\ d.packet = p
<1>0. /\ offered \in Seq(Payload) /\ Len(offered) \in Nat /\ Len(offered) <= MaxData
      /\ 0 \in SeqNo /\ clientAcked \in Nat
  <2>1. 0 \in SeqNo
    BY ConstantsAssumption DEF SeqNo
  <2> QED BY <2>1, LenProperties DEF ChannelInv, ChannelTypeOK
<1>1. \A p : Sealed(p).packet = p /\ Plain(p).packet = p
  BY DEF Sealed, Plain
<1>2. CASE SendData
  <2>1. /\ Len(offered) < MaxData /\ offered' = Append(offered, ClientScript[Len(offered) + 1])
        /\ ClientSends(Sealed(DataPacket(Len(offered))))
    BY <1>2 DEF SendData
  <2>2. Len(offered) \in 0 .. MaxData - 1 /\ ClientScript[Len(offered) + 1] \in Payload
    BY <1>0, <2>1, DatagramFacts
  <2>3. Len(offered') = Len(offered) + 1
    BY <1>0, <2>1, <2>2, AppendProperties
  <2>4. FromClient(DataPacket(Len(offered)), Len(offered'))
    BY <1>0, <2>3, ControlFromClient
  <2>5. Len(offered') <= MaxData
    BY <1>0, <2>1, <2>3, DatagramFacts
  <2> QED BY <1>0, <1>1, <2>1, <2>2, <2>3, <2>4, <2>5, ClientKinds
<1>3. ASSUME UNCHANGED offered
      PROVE  /\ \A op \in ControlOps, s \in SeqNo : FromClient(Ctl(op, s), Len(offered'))
             /\ \A k \in 0 .. Len(offered) - 1 : FromClient(DataPacket(k), Len(offered'))
             /\ \A k \in 0 .. Len(offered) - 2 : FromClient(Bundle(k), Len(offered'))
  BY <1>0, <1>3, ControlFromClient
<1>4. CASE RequestSession
  <2>1. UNCHANGED offered /\ ClientSends(Plain(Ctl("SessionRequest", 0)))
    BY <1>4 DEF RequestSession
  <2> QED BY <1>0, <1>1, <1>3, <2>1, ClientKinds DEF ControlOps
<1>5. CASE Leave
  <2>1. UNCHANGED offered /\ ClientSends(Sealed(Ctl("Disconnect", 0)))
    BY <1>5 DEF Leave
  <2> QED BY <1>0, <1>1, <1>3, <2>1, ClientKinds DEF ControlOps
<1>6. ASSUME NEW n \in 0 .. MaxData - 1, ResendData(n)
      PROVE  /\ UNCHANGED offered
             /\ \E d \in ClientDatagrams :
                    ClientSends(d) /\ FromClient(d.packet, Len(offered'))
  <2>1. UNCHANGED offered /\ ClientSends(Sealed(DataPacket(n))) /\ n \in 0 .. Len(offered) - 1
    BY <1>0, <1>6 DEF ResendData, clientVars
  <2> QED BY <1>1, <1>3, <2>1, ClientKinds
<1>7. ASSUME NEW n \in 0 .. MaxData - 1, ResendBundle(n)
      PROVE  /\ UNCHANGED offered
             /\ \E d \in ClientDatagrams :
                    ClientSends(d) /\ FromClient(d.packet, Len(offered'))
  <2>1. UNCHANGED offered /\ ClientSends(Sealed(Bundle(n))) /\ n \in 0 .. Len(offered) - 2
    BY <1>0, <1>7 DEF ResendBundle, clientVars
  <2>2. n \in 0 .. MaxData - 2
    BY <1>0, <2>1, DatagramFacts
  <2> QED BY <1>1, <1>3, <2>1, <2>2, ClientKinds
<1>8. ASSUME NEW d \in downlink, ReceiveData(d)
      PROVE  /\ UNCHANGED offered
             /\ \E e \in ClientDatagrams :
                    ClientSends(e) /\ FromClient(e.packet, Len(offered'))
  <2>1. d.packet.op \in DataOps /\ d \in Datagram /\ expected \in Nat
    BY <1>8 DEF ReceiveData, ChannelInv, ChannelTypeOK, TypeOK
  <2>2. d.packet.seq \in SeqNo
    <3>1. d.packet \in Packet
      BY <2>1 DEF Datagram
    <3> QED BY <2>1, <3>1 DEF Packet, Simple, Multi, DataOps
  <2>3. UNCHANGED offered
    BY <1>8 DEF ReceiveData
  <2>4. ASSUME NEW s \in SeqNo, ClientSends(Sealed(Ctl("AckA", s)))
                                    \/ ClientSends(Sealed(Ctl("OutOfOrderA", s)))
        PROVE  \E e \in ClientDatagrams :
                  ClientSends(e) /\ FromClient(e.packet, Len(offered'))
    BY <1>1, <1>3, <2>3, <2>4, ClientKinds DEF ControlOps
  <2>5. ASSUME d.packet.seq < expected PROVE (expected - 1) % SeqModulus \in SeqNo
    <3>1. expected - 1 \in Nat
      BY <2>1, <2>2, <2>5 DEF SeqNo
    <3> QED BY <3>1, ModType
  <2> QED BY <1>8, <2>2, <2>3, <2>4, <2>5 DEF ReceiveData
<1>9. CASE \/ SessionOpens \/ DisconnectedByServer \/ (\E d \in downlink : ReceiveAck(d))
  <2>1. UNCHANGED <<offered, sessionVars, uplink>>
    BY <1>9 DEF SessionOpens, DisconnectedByServer, ReceiveAck
  <2> QED BY <1>0, <2>1
<1>10. UNCHANGED offered => /\ Len(offered) \in Nat /\ Len(offered') \in Nat
                            /\ Len(offered) <= Len(offered') /\ Len(offered') <= MaxData
  BY <1>0
<1> QED BY <1>2, <1>4, <1>5, <1>6, <1>7, <1>8, <1>9, <1>10 DEF Client

LEMMA UplinkStep ==
    ASSUME ChannelInv, UplinkInv, [ChannelNext]_channelVars
    PROVE  UplinkInv' /\ [ToServer!Next]_<<offered, delivered>>
<1>9. Len(offered) \in Nat
  BY LenProperties DEF ChannelInv, ChannelTypeOK
<1> PICK n \in Nat : n = Len(offered)
  BY <1>9
<1>0. /\ TypeOK /\ n = Len(offered) /\ n \in 0 .. MaxData /\ QueuedFromClient(n) /\ GivenInOrder(n)
      /\ offered \in Seq(Payload) /\ \A i \in 1 .. n : offered[i] = ClientScript[i]
      /\ \A d \in uplink : FromClient(d.packet, n) /\ d \in Inbound
  BY DatagramFacts, LenProperties DEF ChannelInv, ChannelTypeOK, UplinkInv
<1>1. ASSUME Len(delivered) < n,
             delivered' = Append(delivered, ClientScript[Len(delivered) + 1])
      PROVE  delivered' = Append(delivered, offered[Len(delivered) + 1])
  <2>1. Len(delivered) \in Nat
    BY <1>0, LenProperties DEF TypeOK
  <2> QED BY <1>0, <1>1, <2>1
<1>2. CASE Server \/ UNCHANGED channelVars
  <2>1. UNCHANGED <<clientVars, uplink>>
        /\ (Strand \/ ServiceTimer \/ Close \/ (\E p \in Payload : SendTo(p)) \/ UNCHANGED sessionVars)
    <3>1. CASE Server
      BY <1>0, <3>1, ServerChoices
    <3> QED BY <1>2, <3>1 DEF channelVars
  <2>2. /\ QueuedFromClient(n)' /\ GivenInOrder(n)'
        /\ \/ UNCHANGED delivered
           \/ /\ Len(delivered) < n
              /\ delivered' = Append(delivered, offered[Len(delivered) + 1])
    <3>1. QueuedFromClient(n)'
      BY <1>0, <2>1, StrandKeepsClients
    <3>2. /\ GivenInOrder(n)'
          /\ \/ UNCHANGED delivered
             \/ /\ Len(delivered) < n
                /\ delivered' = Append(delivered, ClientScript[Len(delivered) + 1])
      BY <1>0, <2>1, StrandGivesNext
    <3> QED BY <1>1, <3>1, <3>2
  <2>3. UNCHANGED <<offered, uplink>>
    BY <2>1 DEF clientVars
  <2> QED BY <1>0, <2>2, <2>3 DEF UplinkInv, ToServer!Next, ToServer!Deliver
<1>3. ASSUME NEW d \in uplink, Arrive(d) PROVE UplinkInv' /\ [ToServer!Next]_<<offered, delivered>>
  <2>1. HandleProtocolMessage(d) /\ UNCHANGED <<offered, uplink>>
    BY <1>3 DEF Arrive, clientVars
  <2>2. QueuedFromClient(n)' /\ GivenInOrder(n)' /\ UNCHANGED delivered
    BY <1>0, <2>1, ArrivalStep
  <2> QED BY <1>0, <2>1, <2>2 DEF UplinkInv
<1>4. CASE Client
  <2>9. Len(offered') \in Nat
    BY <1>4, SendsFromClient
  <2> PICK m \in Nat : m = Len(offered')
    BY <2>9
  <2>1. /\ n <= m
        /\ UNCHANGED offered \/ \E p \in Payload : offered' = Append(offered, p)
    BY <1>4, SendsFromClient
  <2>2. QueuedFromClient(m) /\ GivenInOrder(m) /\ \A d \in uplink : FromClient(d.packet, m)
    <3>1. Len(delivered) \in Nat
      BY <1>0, LenProperties DEF TypeOK
    <3>2. GivenInOrder(m)
      BY <1>0, <2>1, <3>1 DEF GivenInOrder
    <3> QED BY <1>0, <2>1, <3>2, FromClientMonotone DEF QueuedFromClient
  <2>3. CASE UNCHANGED <<sessionVars, uplink>>
    <3>1. UNCHANGED <<strand, delivered, next_client_sequence>>
      BY <2>3 DEF sessionVars, recvVars
    <3>2. QueuedFromClient(m)' /\ GivenInOrder(m)'
      BY <2>2, <3>1 DEF QueuedFromClient, GivenInOrder
    <3> QED BY <2>1, <2>2, <2>3, <3>1, <3>2 DEF UplinkInv, ToServer!Next, ToServer!Offer
  <2>4. ASSUME NEW d \in ClientDatagrams, ClientSends(d), FromClient(d.packet, m)
        PROVE  UplinkInv' /\ [ToServer!Next]_<<offered, delivered>>
    <3>1. QueuedFromClient(m)' /\ GivenInOrder(m)' /\ UNCHANGED delivered
      <4>1. CASE UNCHANGED sessionVars
        <5>1. UNCHANGED <<strand, delivered, next_client_sequence>>
          BY <4>1 DEF sessionVars, recvVars
        <5> QED BY <2>2, <5>1 DEF QueuedFromClient, GivenInOrder
      <4>2. CASE HandleProtocolMessage(d)
        <5>1. d \in Inbound
          BY DatagramFacts
        <5> QED BY <1>0, <2>1, <2>2, <2>4, <4>2, <5>1, ArrivalStep
      <4> QED BY <2>4, <4>1, <4>2 DEF ClientSends
    <3>2. \A e \in uplink' : FromClient(e.packet, m)
      BY <2>2, <2>4 DEF ClientSends
    <3> QED BY <2>1, <3>1, <3>2 DEF UplinkInv, ToServer!Next, ToServer!Offer
  <2> QED BY <1>4, <2>3, <2>4, SendsFromClient
<1> QED BY <1>2, <1>3, <1>4 DEF ChannelNext

\* Whatever the network and the strand's queue do to the client's datagrams, the game
\* server is given its messages in order, each once, none skipped (SequenceIsValid_,
\* handleChildDataA_, handleMultiPacket_): the channel implements OrderedChannel.
THEOREM DeliveryCorrect == ChannelSpec => DeliversInOrder
<1>1. ChannelInit => ChannelInv /\ UplinkInv /\ ToServer!Init
  <2> SUFFICES ASSUME ChannelInit PROVE UplinkInv /\ ToServer!Init
    BY ChannelInitial
  <2>1. /\ strand = <<>> /\ delivered = <<>> /\ offered = <<>> /\ uplink = {}
        /\ next_client_sequence = 0
    BY DEF ChannelInit, Init
  <2>2. Len(<<>>) = 0 /\ DOMAIN <<>> = {} /\ 1 .. 0 = {}
    OBVIOUS
  <2> QED BY <2>1, <2>2 DEF UplinkInv, QueuedFromClient, GivenInOrder, ToServer!Init
<1>2. ChannelInv /\ UplinkInv /\ [ChannelNext]_channelVars
          => ChannelInv' /\ UplinkInv' /\ [ToServer!Next]_<<offered, delivered>>
  BY ChannelStep, UplinkStep
<1> QED BY <1>1, <1>2, PTL DEF ChannelSpec, DeliversInOrder, ToServer!Spec, ToServer!channelVars

-----------------------------------------------------------------------------
(* Sequences of messages laid end to end.                                    *)

\* Induction over the naturals, as membership in a set.
LEMMA Induction ==
    ASSUME NEW T, 0 \in T, \A n \in Nat : n \in T => n + 1 \in T
    PROVE  \A n \in Nat : n \in T
<1> DEFINE S == {n \in Nat : n \notin T}
<1> SUFFICES ASSUME S # {} PROVE FALSE
  OBVIOUS
<1>1. PICK n \in S : \A m \in S : ~(<<m, n>> \in OpToRel(<, Nat))
  BY NatLessThanWellFounded, WFMin
<1>2. \A m \in S : ~(m < n)
  BY <1>1 DEF OpToRel
<1>3. n # 0 /\ n - 1 \in Nat /\ n - 1 \notin S
  BY <1>2
<1> QED BY <1>2, <1>3

\* f lists the concatenations of the first 1, 2, ... n sequences of seqs.
IsFlattening(seqs, f, n) ==
    f = [i \in 1 .. n |-> IF i = 1 THEN seqs[i] ELSE f[i - 1] \o seqs[i]]

LEMMA FlatteningExists ==
    ASSUME NEW seqs
    PROVE  \A n \in Nat : \E f : IsFlattening(seqs, f, n)
<1> DEFINE T == {n \in Nat : \E f : IsFlattening(seqs, f, n)}
<1>1. 0 \in T
  <2>1. IsFlattening(seqs, [i \in 1 .. 0 |-> 0], 0)
    BY DEF IsFlattening
  <2> QED BY <2>1
<1>2. ASSUME NEW n \in Nat, n \in T PROVE n + 1 \in T
  <2>1. PICK f : IsFlattening(seqs, f, n)
    BY <1>2
  <2> DEFINE g == [i \in 1 .. n + 1 |-> IF i <= n THEN f[i]
                                        ELSE IF i = 1 THEN seqs[i] ELSE f[n] \o seqs[i]]
  <2>2. ASSUME NEW i \in 1 .. n + 1
        PROVE  g[i] = IF i = 1 THEN seqs[i] ELSE g[i - 1] \o seqs[i]
    <3>1. CASE i <= n
      <4>1. i \in 1 .. n /\ (i # 1 => i - 1 \in 1 .. n)
        BY <3>1
      <4>2. f[i] = IF i = 1 THEN seqs[i] ELSE f[i - 1] \o seqs[i]
        BY <2>1, <4>1 DEF IsFlattening
      <4> QED BY <4>1, <4>2
    <3>2. CASE i = n + 1
      BY <3>2
    <3> QED BY <3>1, <3>2
  <2>3. IsFlattening(seqs, g, n + 1)
    BY <2>2 DEF IsFlattening
  <2> QED BY <2>3
<1> HIDE DEF T
<1>3. \A n \in Nat : n \in T
  BY <1>1, <1>2, Induction
<1> QED BY <1>3 DEF T

LEMMA FlatteningEntries ==
    ASSUME NEW seqs, NEW n \in Nat, NEW f, IsFlattening(seqs, f, n)
    PROVE  /\ n >= 1 => f[1] = seqs[1]
           /\ \A k \in 1 .. n - 1 : f[k + 1] = f[k] \o seqs[k + 1]
<1>1. \A i \in 1 .. n : f[i] = IF i = 1 THEN seqs[i] ELSE f[i - 1] \o seqs[i]
  BY DEF IsFlattening
<1>2. ASSUME NEW k \in 1 .. n - 1 PROVE f[k + 1] = f[k] \o seqs[k + 1]
  <2>1. k + 1 \in 1 .. n /\ k + 1 # 1 /\ (k + 1) - 1 = k
    OBVIOUS
  <2>2. f[k + 1] = f[(k + 1) - 1] \o seqs[k + 1]
    BY <1>1, <2>1
  <2> QED BY <2>1, <2>2
<1>3. ASSUME n >= 1 PROVE f[1] = seqs[1]
  BY <1>1, <1>3
<1> QED BY <1>2, <1>3

\* FlattenSeq reads the last entry of the flattening.
LEMMA FlattenIsLast ==
    ASSUME NEW S, NEW seqs \in Seq(S)
    PROVE  \E f : /\ IsFlattening(seqs, f, Len(seqs))
                  /\ FlattenSeq(seqs) = IF Len(seqs) = 0 THEN seqs ELSE f[Len(seqs)]
<1> DEFINE R(g) == g = [i \in 1 .. Len(seqs) |-> IF i = 1 THEN seqs[i]
                                                 ELSE g[i - 1] \o seqs[i]]
           f == CHOOSE g : R(g)
<1>1. \E g : R(g)
  <2>1. Len(seqs) \in Nat
    BY LenProperties
  <2>2. \E g : IsFlattening(seqs, g, Len(seqs))
    BY <2>1, FlatteningExists
  <2> QED BY <2>2 DEF IsFlattening
<1>2. R(f)
  <2> HIDE DEF R
  <2> QED BY <1>1
<1>3. FlattenSeq(seqs) = IF Len(seqs) = 0 THEN seqs ELSE f[Len(seqs)]
  BY DEF FlattenSeq
<1> HIDE DEF f
<1> QED BY <1>2, <1>3 DEF IsFlattening

\* Two flattenings agree as far as their sequences do, and hold sequences.
LEMMA FlatteningsAgree ==
    ASSUME NEW S, NEW s, NEW t, NEW n \in Nat, NEW m \in Nat, n <= m,
           NEW f, IsFlattening(s, f, n), NEW g, IsFlattening(t, g, m),
           \A i \in 1 .. n : s[i] = t[i] /\ s[i] \in Seq(S)
    PROVE  \A i \in 1 .. n : f[i] = g[i] /\ f[i] \in Seq(S)
<1> DEFINE T == {k \in Nat : k \in 1 .. n => f[k] = g[k] /\ f[k] \in Seq(S)}
<1>0. /\ n >= 1 => f[1] = s[1] /\ g[1] = t[1]
      /\ \A k \in 1 .. n - 1 : f[k + 1] = f[k] \o s[k + 1] /\ g[k + 1] = g[k] \o t[k + 1]
  <2>1. /\ n >= 1 => f[1] = s[1]
        /\ \A k \in 1 .. n - 1 : f[k + 1] = f[k] \o s[k + 1]
    BY FlatteningEntries
  <2>2. /\ m >= 1 => g[1] = t[1]
        /\ \A k \in 1 .. m - 1 : g[k + 1] = g[k] \o t[k + 1]
    BY FlatteningEntries
  <2>3. \A k \in 1 .. n - 1 : k \in 1 .. m - 1
    OBVIOUS
  <2>4. n >= 1 => m >= 1
    OBVIOUS
  <2>5. \A k \in 1 .. n - 1 : g[k + 1] = g[k] \o t[k + 1]
    BY <2>2, <2>3
  <2> QED BY <2>1, <2>2, <2>4, <2>5
<1>1. 0 \in T
  OBVIOUS
<1>2. ASSUME NEW k \in Nat, k \in T PROVE k + 1 \in T
  <2> SUFFICES ASSUME k + 1 \in 1 .. n PROVE f[k + 1] = g[k + 1] /\ f[k + 1] \in Seq(S)
    OBVIOUS
  <2>1. s[k + 1] = t[k + 1] /\ s[k + 1] \in Seq(S)
    OBVIOUS
  <2>2. CASE k = 0
    BY <1>0, <2>1, <2>2
  <2>3. CASE k # 0
    <3>1. k \in 1 .. n /\ k \in 1 .. n - 1
      BY <2>3
    <3>2. f[k] = g[k] /\ f[k] \in Seq(S)
      BY <1>2, <3>1
    <3>3. f[k + 1] = f[k] \o s[k + 1] /\ g[k + 1] = f[k] \o s[k + 1]
      BY <1>0, <2>1, <3>1, <3>2
    <3>4. f[k] \o s[k + 1] \in Seq(S)
      BY <2>1, <3>2, ConcatProperties
    <3> QED BY <3>3, <3>4
  <2> QED BY <2>2, <2>3
<1> HIDE DEF T
<1>3. \A k \in Nat : k \in T
  BY <1>1, <1>2, Induction
<1> QED BY <1>3 DEF T

LEMMA FlattenType ==
    ASSUME NEW S, NEW seqs \in Seq(Seq(S))
    PROVE  FlattenSeq(seqs) \in Seq(S)
<1> DEFINE Q == Seq(S)
<1>1. seqs \in Seq(Q)
  OBVIOUS
<1>2. Len(seqs) \in Nat /\ DOMAIN seqs = 1 .. Len(seqs) /\ \A i \in 1 .. Len(seqs) : seqs[i] \in Q
  <2> HIDE DEF Q
  <2> QED BY <1>1, LenProperties, ElementOfSeq
<1>3. PICK f : /\ IsFlattening(seqs, f, Len(seqs))
               /\ FlattenSeq(seqs) = IF Len(seqs) = 0 THEN seqs ELSE f[Len(seqs)]
  BY <1>1, FlattenIsLast
<1>4. \A i \in 1 .. Len(seqs) : f[i] \in Seq(S)
  <2> DEFINE n == Len(seqs)
  <2>1. n \in Nat /\ n <= n /\ IsFlattening(seqs, f, n) /\ \A i \in 1 .. n : seqs[i] \in Seq(S)
    BY <1>2, <1>3
  <2> HIDE DEF n
  <2>2. \A i \in 1 .. n : f[i] \in Seq(S)
    BY <2>1, FlatteningsAgree
  <2> QED BY <2>2 DEF n
<1>5. CASE Len(seqs) = 0
  BY <1>1, <1>3, <1>5, EmptySeq
<1>6. CASE Len(seqs) # 0
  BY <1>2, <1>3, <1>4, <1>6
<1> QED BY <1>5, <1>6

LEMMA FlattenEmpty == FlattenSeq(<<>>) = <<>>
BY DEF FlattenSeq

LEMMA FlattenAppend ==
    ASSUME NEW S, NEW seqs \in Seq(Seq(S)), NEW s \in Seq(S)
    PROVE  FlattenSeq(Append(seqs, s)) = FlattenSeq(seqs) \o s
<1> DEFINE Q == Seq(S)
           t == Append(seqs, s)
           n == Len(seqs)
<1>1. seqs \in Seq(Q) /\ s \in Q
  OBVIOUS
<1>2. /\ n \in Nat /\ \A i \in 1 .. n : seqs[i] \in Q
      /\ t \in Seq(Q) /\ Len(t) = n + 1 /\ \A i \in 1 .. n : t[i] = seqs[i]
      /\ t[n + 1] = s
  <2> HIDE DEF Q
  <2> QED BY <1>1, LenProperties, ElementOfSeq, AppendProperties
<1> HIDE DEF t
<1>3. PICK f : /\ IsFlattening(seqs, f, n)
               /\ FlattenSeq(seqs) = IF n = 0 THEN seqs ELSE f[n]
  BY <1>1, FlattenIsLast
<1>4. PICK g : /\ IsFlattening(t, g, n + 1)
               /\ FlattenSeq(t) = IF n + 1 = 0 THEN t ELSE g[n + 1]
  <2>1. PICK h : /\ IsFlattening(t, h, Len(t))
                 /\ FlattenSeq(t) = IF Len(t) = 0 THEN t ELSE h[Len(t)]
    BY <1>2, FlattenIsLast
  <2> QED BY <1>2, <2>1
<1>5. \A i \in 1 .. n : f[i] = g[i]
  <2>1. n + 1 \in Nat /\ n <= n + 1 /\ \A i \in 1 .. n : seqs[i] = t[i] /\ seqs[i] \in Seq(S)
    BY <1>2
  <2>2. n \in Nat /\ IsFlattening(seqs, f, n) /\ IsFlattening(t, g, n + 1)
    BY <1>2, <1>3, <1>4
  <2> HIDE DEF n
  <2> DEFINE m == n + 1
  <2>3. m \in Nat /\ n <= m /\ IsFlattening(t, g, m)
    BY <2>1, <2>2
  <2> HIDE DEF m
  <2>4. \A i \in 1 .. n : seqs[i] = t[i] /\ seqs[i] \in Seq(S)
    BY <2>1
  <2>5. IsFlattening(seqs, f, n) /\ n \in Nat
    BY <2>2
  <2>6. \A i \in 1 .. n : f[i] = g[i] /\ f[i] \in Seq(S)
    BY <2>3, <2>4, <2>5, FlatteningsAgree, Zenon
  <2> QED BY <2>6
<1>6. FlattenSeq(t) = g[n + 1]
  BY <1>2, <1>4
<1>9. /\ n + 1 >= 1 => g[1] = t[1]
      /\ \A k \in 1 .. (n + 1) - 1 : g[k + 1] = g[k] \o t[k + 1]
  <2>1. n + 1 \in Nat
    BY <1>2
  <2> HIDE DEF n
  <2> QED BY <1>4, <2>1, FlatteningEntries
<1>7. CASE n = 0
  <2>1. FlattenSeq(t) = s
    BY <1>2, <1>6, <1>7, <1>9
  <2>2. FlattenSeq(seqs) = <<>>
    BY <1>1, <1>3, <1>7, EmptySeq
  <2> QED BY <2>1, <2>2, ConcatEmptySeq DEF t
<1>8. CASE n # 0
  <2>1. n \in 1 .. n /\ n \in 1 .. (n + 1) - 1
    BY <1>2, <1>8
  <2>2. FlattenSeq(t) = g[n] \o s
    BY <1>2, <1>6, <1>9, <2>1
  <2> QED BY <1>3, <1>5, <1>8, <2>1, <2>2 DEF t
<1> QED BY <1>7, <1>8

LEMMA Associative ==
    \A S : \A a, b, c \in Seq(S) : (a \o b) \o c = a \o (b \o c)
BY ConcatAssociative

LEMMA FlattenConcat ==
    ASSUME NEW S, NEW s \in Seq(Seq(S))
    PROVE  \A t \in Seq(Seq(S)) : FlattenSeq(s \o t) = FlattenSeq(s) \o FlattenSeq(t)
<1> DEFINE Q == Seq(S)
           Holds(t) == FlattenSeq(s \o t) = FlattenSeq(s) \o FlattenSeq(t)
           T == {n \in Nat : \A t \in Seq(Q) : Len(t) = n => Holds(t)}
<1>0. s \in Seq(Q) /\ FlattenSeq(s) \in Seq(S)
  BY FlattenType
<1>9. \A a, b, c \in Seq(S) : (a \o b) \o c = a \o (b \o c)
  BY Associative
<1>1. 0 \in T
  <2> SUFFICES ASSUME NEW t \in Seq(Q), Len(t) = 0 PROVE Holds(t)
    OBVIOUS
  <2>1. t = <<>> /\ s \o t = s
    <3> HIDE DEF Q
    <3> QED BY <1>0, EmptySeq, ConcatEmptySeq
  <2> QED BY <1>0, <2>1, FlattenEmpty, ConcatEmptySeq
<1>2. ASSUME NEW n \in Nat, n \in T PROVE n + 1 \in T
  <2> SUFFICES ASSUME NEW t \in Seq(Q), Len(t) = n + 1 PROVE Holds(t)
    OBVIOUS
  <2>1. PICK u \in Seq(Q), x \in Q : t = Append(u, x)
    <3>1. t # <<>>
      BY EmptySeq
    <3> HIDE DEF Q
    <3> QED BY <3>1, SequenceEmptyOrAppend
  <2>2. Len(u) = n /\ s \o u \in Seq(Q) /\ s \o t = Append(s \o u, x)
    <3> HIDE DEF Q
    <3>1. Len(u) \in Nat /\ Len(t) = Len(u) + 1
      BY <2>1, AppendProperties, LenProperties
    <3>2. s \o u \in Seq(Q) /\ t = u \o <<x>> /\ <<x>> \in Seq(Q)
      BY <1>0, <2>1, ConcatProperties, AppendIsConcat
    <3>3. s \o t = (s \o u) \o <<x>>
      BY <1>0, <3>2, ConcatAssociative
    <3> QED BY <3>1, <3>2, <3>3, AppendIsConcat
  <2>3. Holds(u)
    BY <1>2, <2>2
  <2>4. FlattenSeq(u) \in Seq(S) /\ x \in Seq(S)
    BY <2>1, FlattenType
  <2>5. FlattenSeq(s \o t) = FlattenSeq(s \o u) \o x
    BY <2>2, <2>4, FlattenAppend
  <2>6. FlattenSeq(t) = FlattenSeq(u) \o x
    BY <2>1, <2>4, FlattenAppend
  <2>7. (FlattenSeq(s) \o FlattenSeq(u)) \o x = FlattenSeq(s) \o (FlattenSeq(u) \o x)
    <3>2. \A a \in Seq(S) : (FlattenSeq(s) \o FlattenSeq(u)) \o a = FlattenSeq(s) \o (FlattenSeq(u) \o a)
      BY <1>0, <1>9, <2>4, Zenon
    <3> QED BY <2>4, <3>2, Zenon
  <2>8. FlattenSeq(s \o u) = FlattenSeq(s) \o FlattenSeq(u)
    BY <2>3
  <2>9. FlattenSeq(s \o t) = FlattenSeq(s) \o FlattenSeq(t)
    BY <2>5, <2>6, <2>7, <2>8, Zenon
  <2> QED BY <2>9
<1> HIDE DEF T
<1>3. \A n \in Nat : n \in T
  BY <1>1, <1>2, Induction
<1>4. ASSUME NEW t \in Seq(Q) PROVE Holds(t)
  <2>1. Len(t) \in Nat
    <3> HIDE DEF Q
    <3> QED BY LenProperties
  <2> QED BY <1>3, <2>1 DEF T
<1> QED BY <1>4

LEMMA FlattenOne ==
    ASSUME NEW S, NEW s \in Seq(S)
    PROVE  FlattenSeq(<<s>>) = s
<1>1. <<s>> = Append(<<>>, s) /\ <<>> \in Seq(Seq(S))
  OBVIOUS
<1>2. FlattenSeq(Append(<<>>, s)) = FlattenSeq(<<>>) \o s
  BY <1>1, FlattenAppend
<1>3. <<>> \o s = s
  BY ConcatEmptySeq
<1> QED BY <1>1, <1>2, <1>3, FlattenEmpty

-----------------------------------------------------------------------------
(* What Update makes of a batch.                                             *)

LEMMA Division ==
    ASSUME NEW b \in Nat \ {0}, NEW n \in Nat
    PROVE  /\ n \div b \in Nat
           /\ n = b * (n \div b) + (n % b) /\ n % b \in 0 .. b - 1
BY SMTT(30)

\* As many chunks as it takes cover the batch, and the one before last does not.
LEMMA ChunkCount ==
    ASSUME NEW b \in Nat \ {0}, NEW l \in Nat \ {0}
    PROVE  /\ (l + b - 1) \div b \in Nat
           /\ ((l + b - 1) \div b) * b >= l
           /\ \A k \in Nat : k < (l + b - 1) \div b => k * b \in Nat /\ k * b < l
<1> DEFINE x == l + b - 1
           n == x \div b
<1>1. n \in Nat /\ x = b * n + (x % b) /\ x % b \in 0 .. b - 1
  <2>1. x \in Nat
    OBVIOUS
  <2> QED BY <2>1, Division
<1> HIDE DEF n
<1>2. b * n = n * b
  BY <1>1
<1>3. n * b >= l
  BY <1>1, <1>2
<1>4. ASSUME NEW k \in Nat, k < n PROVE k * b \in Nat /\ k * b < l
  <2>1. n - k - 1 \in Nat
    BY <1>1, <1>4
  <2>2. b * (n - k - 1) >= 0 /\ b * (n - k - 1) = b * n - b * k - b
    BY <1>1, <2>1
  <2>3. k * b = b * k /\ b * k \in Nat /\ b * n \in Nat
    BY <1>1
  <2> QED BY <1>1, <2>2, <2>3
<1> QED BY <1>1, <1>3, <1>4 DEF n

LEMMA BodiesOf ==
    ASSUME NEW P, \A p \in P : p.body \in Seq(Payload), NEW q \in Seq(P)
    PROVE  /\ Bodies(q) \in Seq(Seq(Payload)) /\ Len(Bodies(q)) = Len(q)
           /\ \A i \in 1 .. Len(q) : Bodies(q)[i] = q[i].body
<1>1. Len(q) \in Nat /\ DOMAIN q = 1 .. Len(q) /\ \A i \in 1 .. Len(q) : q[i] \in P
  BY LenProperties, ElementOfSeq
<1>2. Bodies(q) \in [1 .. Len(q) -> Seq(Payload)]
  BY <1>1 DEF Bodies
<1>3. \A i \in 1 .. Len(q) : Bodies(q)[i] = q[i].body
  BY <1>1 DEF Bodies
<1> QED BY <1>1, <1>2, <1>3, FunctionIsSeq

\* The packets Update makes carry the batch, cut where a packet is full.
LEMMA PacketsCarryBatch ==
    ASSUME NEW batch \in Seq(Payload), batch # <<>>, receive_buffer_size \in Nat \ {0}
    PROVE  FlattenSeq(Bodies(Packets(batch))) = batch
<1> DEFINE b == receive_buffer_size
           l == Len(batch)
           n == (l + b - 1) \div b
           Chunks(k) == [i \in 1 .. k |-> Chunk(batch, i)]
           Upto(k) == IF k * b < l THEN k * b ELSE l
           T == {k \in Nat : k <= n => FlattenSeq(Chunks(k)) = SubSeq(batch, 1, Upto(k))}
<1>0. l \in Nat \ {0} /\ b \in Nat \ {0}
  BY EmptySeq
<1>1. /\ n \in Nat /\ n * b >= l
      /\ \A k \in Nat : k < n => k * b \in Nat /\ k * b < l
  BY <1>0, ChunkCount
<1>2. CASE l <= b
  <2>1. Packets(batch) = <<[op |-> "ChildDataA", body |-> batch]>>
    BY <1>2 DEF Packets
  <2>2. Bodies(Packets(batch)) = <<batch>>
    BY <2>1 DEF Bodies
  <2> QED BY <2>2, FlattenOne
<1>3. CASE ~(l <= b)
  <2>1. Packets(batch) = [i \in 1 .. n |-> [op |-> "DataFragA", body |-> Chunk(batch, i)]]
    BY <1>3 DEF Packets
  <2>2. Bodies(Packets(batch)) = Chunks(n)
    BY <2>1 DEF Bodies
  <2>3. ASSUME NEW k \in Nat
        PROVE  /\ k * b \in Nat /\ (k + 1) * b \in Nat /\ (k + 1) * b = k * b + b
               /\ Upto(k) \in 0 .. l /\ Upto(k + 1) \in Upto(k) .. l
    BY <1>0
  <2>4. ASSUME NEW k \in Nat
        PROVE  Chunk(batch, k + 1) = SubSeq(batch, k * b + 1, Upto(k + 1))
    <3>1. (k + 1) - 1 = k
      OBVIOUS
    <3> QED BY <3>1 DEF Chunk
  <2>5. ASSUME NEW k \in Nat PROVE Chunks(k) \in Seq(Seq(Payload)) /\ Len(Chunks(k)) = k
    <3>1. ASSUME NEW i \in 1 .. k PROVE Chunk(batch, i) \in Seq(Payload)
      <4>1. PICK j \in Nat : i = j + 1
        <5>1. i - 1 \in Nat /\ i = (i - 1) + 1
          OBVIOUS
        <5> QED BY <5>1
      <4>2. /\ Chunk(batch, i) = SubSeq(batch, j * b + 1, Upto(i))
            /\ Upto(i) \in 0 .. l /\ j * b \in Nat
        <5>1. Upto(j) \in 0 .. l /\ Upto(j + 1) \in Upto(j) .. l /\ j * b \in Nat
          BY <2>3
        <5>2. Chunk(batch, j + 1) = SubSeq(batch, j * b + 1, Upto(j + 1))
          BY <2>4
        <5> HIDE DEF b, Upto
        <5> QED BY <1>0, <4>1, <5>1, <5>2
      <4>3. \A m \in j * b + 1 .. Upto(i) : batch[m] \in Payload
        <5>1. Upto(i) \in 0 .. l /\ j * b \in Nat /\ l \in Nat
          BY <1>0, <4>2
        <5> HIDE DEF Upto, b
        <5>2. \A m \in j * b + 1 .. Upto(i) : m \in 1 .. l
          BY <5>1
        <5> QED BY <5>2, ElementOfSeq
      <4> HIDE DEF b, Upto
      <4> QED BY <1>0, <4>2, <4>3, SubSeqProperties
    <3>2. Chunks(k) \in [1 .. k -> Seq(Payload)]
      BY <3>1
    <3> QED BY <3>2, FunctionIsSeq
  <2>6. 0 \in T
    <3>1. Chunks(0) = <<>> /\ Upto(0) = 0
      BY <1>0
    <3>2. SubSeq(batch, 1, 0) = <<>>
      BY SubSeqEmpty
    <3> QED BY <3>1, <3>2, FlattenEmpty
  <2>7. ASSUME NEW k \in Nat, k \in T PROVE k + 1 \in T
    <3> SUFFICES ASSUME k + 1 <= n
                 PROVE  FlattenSeq(Chunks(k + 1)) = SubSeq(batch, 1, Upto(k + 1))
      OBVIOUS
    <3>1. FlattenSeq(Chunks(k)) = SubSeq(batch, 1, Upto(k))
      BY <1>1, <2>7
    <3>2. k * b \in Nat /\ k * b < l /\ Upto(k) = k * b
      <4>1. k < n
        BY <1>1
      <4>2. k * b \in Nat /\ k * b < l
        BY <1>1, <4>1
      <4> QED BY <4>2
    <3>3. Chunk(batch, k + 1) \in Seq(Payload)
      <4>1. Chunks(k + 1)[k + 1] = Chunk(batch, k + 1) /\ k + 1 \in 1 .. k + 1
        OBVIOUS
      <4>2. Chunks(k + 1) \in Seq(Seq(Payload)) /\ Len(Chunks(k + 1)) = k + 1
        BY <2>5
      <4> HIDE DEF Chunks
      <4> QED BY <4>1, <4>2, ElementOfSeq
    <3>4. Chunks(k + 1) = Append(Chunks(k), Chunk(batch, k + 1))
      <4> DEFINE Q == Seq(Payload)
                 c == Chunk(batch, k + 1)
                 s == Chunks(k)
                 t == Chunks(k + 1)
      <4>1. s \in Seq(Q) /\ t \in Seq(Q) /\ Len(s) = k /\ Len(t) = k + 1 /\ c \in Q
        BY <2>5, <3>3
      <4>2. \A i \in 1 .. k : t[i] = s[i]
        OBVIOUS
      <4>3. t[k + 1] = c
        OBVIOUS
      <4> HIDE DEF Q, c, s, t
      <4>4. /\ Append(s, c) \in Seq(Q) /\ Len(Append(s, c)) = k + 1
            /\ \A i \in 1 .. k : Append(s, c)[i] = s[i]
            /\ Append(s, c)[k + 1] = c
        BY <4>1, AppendProperties
      <4>5. \A i \in 1 .. k + 1 : t[i] = Append(s, c)[i]
        <5>1. \A i \in 1 .. k + 1 : i \in 1 .. k \/ i = k + 1
          OBVIOUS
        <5> QED BY <4>2, <4>3, <4>4, <5>1
      <4>6. t = Append(s, c)
        BY <4>1, <4>4, <4>5, SeqEqual
      <4> QED BY <4>6 DEF s, t, c
    <3>5. FlattenSeq(Chunks(k + 1)) = SubSeq(batch, 1, k * b) \o SubSeq(batch, k * b + 1, Upto(k + 1))
      <4>1. Chunks(k) \in Seq(Seq(Payload))
        BY <2>5
      <4>2. FlattenSeq(Append(Chunks(k), Chunk(batch, k + 1)))
              = FlattenSeq(Chunks(k)) \o Chunk(batch, k + 1)
        <5> HIDE DEF Chunks
        <5> QED BY <3>3, <4>1, FlattenAppend
      <4> QED BY <2>4, <3>1, <3>2, <3>4, <4>2
    <3>6. Upto(k + 1) \in k * b .. l
      BY <2>3, <3>2
    <3>7. \A x \in 0 .. l : \A y \in x .. l :
              SubSeq(batch, 1, x) \o SubSeq(batch, x + 1, y) = SubSeq(batch, 1, y)
      <4> SUFFICES ASSUME NEW x \in 0 .. l, NEW y \in x .. l
                   PROVE  SubSeq(batch, 1, x) \o SubSeq(batch, x + 1, y) = SubSeq(batch, 1, y)
        OBVIOUS
      <4>1. 1 \in 1 .. Len(batch) + 1 /\ x \in 1 - 1 .. Len(batch) /\ y \in x .. Len(batch)
        BY <1>0
      <4> QED BY <4>1, ConcatAdjacentSubSeq
    <3>8. k * b \in 0 .. l
      BY <1>0, <3>2
    <3> HIDE DEF Upto, Chunks
    <3> QED BY <3>5, <3>6, <3>7, <3>8
  <2> HIDE DEF T
  <2>8. \A k \in Nat : k \in T
    BY <2>6, <2>7, Induction
  <2>9. FlattenSeq(Chunks(n)) = SubSeq(batch, 1, Upto(n))
    BY <1>1, <2>8 DEF T
  <2>10. Upto(n) = l
    BY <1>0, <1>1
  <2> QED BY <2>2, <2>9, <2>10, SubSeqFull
<1> QED BY <1>2, <1>3

-----------------------------------------------------------------------------
(* Between SendTo and the sequence number nothing is lost.                   *)

Built == [op : DataOps, body : Seq(Payload)]

LEMMA ShiftHead ==
    ASSUME NEW S, NEW x \in Seq(S), NEW y \in Seq(S), y # <<>>
    PROVE  Append(x, Head(y)) \o Tail(y) = x \o y
<1>1. /\ Head(y) \in S /\ Tail(y) \in Seq(S) /\ Len(Tail(y)) = Len(y) - 1
      /\ \A i \in 1 .. Len(Tail(y)) : Tail(y)[i] = y[i + 1]
      /\ Head(y) = y[1]
      /\ Len(x) \in Nat /\ Len(y) \in Nat \ {0}
  BY HeadTailProperties, LenProperties, EmptySeq
<1> DEFINE a == Append(x, Head(y))
           b == Tail(y)
           l == a \o b
           r == x \o y
<1>2. /\ a \in Seq(S) /\ Len(a) = Len(x) + 1 /\ \A i \in 1 .. Len(x) : a[i] = x[i]
      /\ a[Len(x) + 1] = y[1]
  BY <1>1, AppendProperties
<1>3. b \in Seq(S) /\ Len(b) = Len(y) - 1 /\ \A i \in 1 .. Len(y) - 1 : b[i] = y[i + 1]
  BY <1>1
<1> HIDE DEF a, b
<1>4. /\ l \in Seq(S) /\ Len(l) = Len(x) + Len(y)
      /\ \A i \in 1 .. Len(x) + Len(y) : l[i] = IF i <= Len(x) + 1 THEN a[i] ELSE b[i - (Len(x) + 1)]
  <2>1. Len(a) + Len(b) = Len(x) + Len(y)
    BY <1>1, <1>2, <1>3
  <2>2. /\ l \in Seq(S) /\ Len(l) = Len(a) + Len(b)
        /\ \A i \in 1 .. Len(a) + Len(b) : l[i] = IF i <= Len(a) THEN a[i] ELSE b[i - Len(a)]
    BY <1>2, <1>3, ConcatProperties
  <2> HIDE DEF l
  <2> QED BY <1>2, <2>1, <2>2
<1>5. /\ r \in Seq(S) /\ Len(r) = Len(x) + Len(y)
      /\ \A i \in 1 .. Len(x) + Len(y) : r[i] = IF i <= Len(x) THEN x[i] ELSE y[i - Len(x)]
  BY ConcatProperties
<1> HIDE DEF l, r
<1>6. ASSUME NEW i \in 1 .. Len(x) + Len(y) PROVE l[i] = r[i]
  <2>1. CASE i <= Len(x)
    <3>1. i <= Len(x) + 1 /\ i \in 1 .. Len(x)
      BY <1>1, <2>1
    <3>2. l[i] = a[i] /\ r[i] = x[i]
      BY <1>4, <1>5, <2>1, <3>1
    <3> QED BY <1>2, <3>1, <3>2
  <2>2. CASE i = Len(x) + 1
    <3>1. i - Len(x) = 1 /\ ~(i <= Len(x))
      BY <1>1, <2>2
    <3>2. l[i] = y[1] /\ r[i] = y[i - Len(x)]
      BY <1>2, <1>4, <1>5, <2>2, <3>1
    <3> QED BY <3>1, <3>2
  <2>3. CASE i > Len(x) + 1
    <3>1. /\ i - (Len(x) + 1) \in 1 .. Len(y) - 1
          /\ (i - (Len(x) + 1)) + 1 = i - Len(x)
          /\ ~(i <= Len(x)) /\ ~(i <= Len(x) + 1)
      BY <1>1, <2>3
    <3>2. l[i] = b[i - (Len(x) + 1)] /\ r[i] = y[i - Len(x)]
      BY <1>4, <1>5, <3>1
    <3>3. b[i - (Len(x) + 1)] = y[(i - (Len(x) + 1)) + 1]
      BY <1>3, <3>1
    <3> QED BY <3>1, <3>2, <3>3
  <2> QED BY <1>1, <2>1, <2>2, <2>3
<1>7. l = r
  BY <1>4, <1>5, <1>6, SeqEqual
<1> QED BY <1>7 DEF l, r, a, b

LEMMA QueueStep ==
    ASSUME TypeOK, QueueKeepsEveryMessage, [Next]_sessionVars
    PROVE  QueueKeepsEveryMessage'
<1> DEFINE Q == Seq(Payload)
           x == Bodies(sequenced)
           y == Bodies(updating)
<1>0. /\ sequenced \in Seq(Data) /\ updating \in Seq(Built)
      /\ outgoing \in Seq(Payload) /\ pushed \in Seq(Payload)
      /\ receive_buffer_size \in Nat \ {0}
  <2>1. receive_buffer_size \in Nat \ {0}
    BY ConstantsAssumption DEF TypeOK
  <2> QED BY <2>1 DEF TypeOK, Built
<1>1. (\A p \in Data : p.body \in Seq(Payload)) /\ \A p \in Built : p.body \in Seq(Payload)
  BY DEF Data, Built
<1>2. x \in Seq(Q) /\ y \in Seq(Q) /\ Len(y) = Len(updating)
      /\ \A i \in 1 .. Len(updating) : y[i] = updating[i].body
  BY <1>0, <1>1, BodiesOf
<1>3. x \o y \in Seq(Q) /\ FlattenSeq(x \o y) \in Seq(Payload)
  <2>1. x \o y \in Seq(Q)
    <3> HIDE DEF Q, x, y
    <3> QED BY <1>2, ConcatProperties
  <2> QED BY <2>1, FlattenType
<1>4. FlattenSeq(x \o y) \o outgoing = pushed
  BY DEF QueueKeepsEveryMessage
<1>5. CASE UNCHANGED <<sequenced, updating, outgoing, pushed>>
  BY <1>5 DEF QueueKeepsEveryMessage, Bodies
<1>6. ASSUME NEW m \in Payload, SendTo(m) PROVE QueueKeepsEveryMessage'
  <2>1. /\ UNCHANGED <<sequenced, updating>>
        /\ outgoing' = Append(outgoing, m) /\ pushed' = Append(pushed, m)
    BY <1>6 DEF SendTo
  <2>2. outgoing' = outgoing \o <<m>> /\ pushed' = pushed \o <<m>> /\ <<m>> \in Seq(Payload)
    BY <1>0, <2>1, AppendIsConcat
  <2>3. (FlattenSeq(x \o y) \o outgoing) \o <<m>> = FlattenSeq(x \o y) \o (outgoing \o <<m>>)
    <3>1. \A a, b, c \in Seq(Payload) : (a \o b) \o c = a \o (b \o c)
      BY Associative
    <3> HIDE DEF x, y
    <3> QED BY <1>0, <1>3, <2>2, <3>1, Zenon
  <2>4. FlattenSeq(x \o y) \o outgoing' = pushed'
    BY <1>4, <2>2, <2>3
  <2>5. Bodies(sequenced)' = x /\ Bodies(updating)' = y
    BY <2>1 DEF Bodies
  <2> HIDE DEF x, y
  <2> QED BY <2>4, <2>5 DEF QueueKeepsEveryMessage
<1>7. CASE Update
  <2>1. /\ updating = <<>> /\ outgoing # <<>> /\ UNCHANGED <<sequenced, pushed>>
        /\ updating' = Packets(outgoing) /\ outgoing' = <<>>
    BY <1>7 DEF Update, HasWork
  <2> DEFINE z == Bodies(Packets(outgoing))
  <2>2. Packets(outgoing) \in Seq(Built) /\ z \in Seq(Q)
    <3>1. Packets(outgoing) \in Seq(Built)
      BY <1>0, PacketsType DEF Built
    <3> QED BY <1>1, <3>1, BodiesOf
  <2>3. FlattenSeq(z) = outgoing
    BY <1>0, <2>1, PacketsCarryBatch
  <2>4. y = <<>>
    BY <2>1 DEF Bodies
  <2>5. x \o y = x
    <3> HIDE DEF Q, x, y
    <3> QED BY <1>2, <2>4, ConcatEmptySeq
  <2>6. FlattenSeq(x) \in Seq(Payload) /\ FlattenSeq(x) \o outgoing = pushed
    BY <1>3, <1>4, <2>5
  <2>7. FlattenSeq(x \o z) = FlattenSeq(x) \o FlattenSeq(z)
    <3> HIDE DEF x, z
    <3> QED BY <1>2, <2>2, FlattenConcat
  <2>8. FlattenSeq(x \o z) \o <<>> = pushed
    <3>1. FlattenSeq(x \o z) = pushed
      BY <2>3, <2>6, <2>7
    <3> QED BY <1>0, <3>1, ConcatEmptySeq
  <2>9. Bodies(sequenced)' = x /\ Bodies(updating)' = z
    BY <2>1 DEF Bodies
  <2> HIDE DEF x, z
  <2> QED BY <2>1, <2>8, <2>9 DEF QueueKeepsEveryMessage
<1>8. CASE SendSequencedMessage
  <2>1. /\ updating # <<>> /\ updating' = Tail(updating) /\ UNCHANGED <<outgoing, pushed>>
        /\ sequenced' = Append(sequenced, Numbered) /\ Numbered \in Data
        /\ Numbered.body = Head(updating).body
    BY <1>8, NumberedType DEF SendSequencedMessage, Numbered
  <2>2. /\ Tail(updating) \in Seq(Built) /\ Len(Tail(updating)) = Len(updating) - 1
        /\ \A i \in 1 .. Len(updating) - 1 : Tail(updating)[i] = updating[i + 1]
        /\ Head(updating) = updating[1] /\ Len(updating) \in Nat \ {0}
    BY <1>0, <2>1, HeadTailProperties, EmptySeq
  <2>3. Bodies(Append(sequenced, Numbered)) = Append(x, Numbered.body)
    <3>1. /\ Append(sequenced, Numbered) \in Seq(Data)
          /\ Len(Append(sequenced, Numbered)) = Len(sequenced) + 1
          /\ \A i \in 1 .. Len(sequenced) : Append(sequenced, Numbered)[i] = sequenced[i]
          /\ Append(sequenced, Numbered)[Len(sequenced) + 1] = Numbered
          /\ Len(sequenced) \in Nat
      BY <1>0, <2>1, AppendProperties, LenProperties
    <3> DEFINE l == Bodies(Append(sequenced, Numbered))
    <3>2. /\ l \in Seq(Q) /\ Len(l) = Len(sequenced) + 1
          /\ \A i \in 1 .. Len(sequenced) + 1 : l[i] = Append(sequenced, Numbered)[i].body
      BY <1>1, <3>1, BodiesOf
    <3>3. /\ x \in Seq(Q) /\ Len(x) = Len(sequenced) /\ Numbered.body \in Q
          /\ \A i \in 1 .. Len(sequenced) : x[i] = sequenced[i].body
      BY <1>0, <1>1, <2>1, BodiesOf
    <3> HIDE DEF l, x, Q
    <3>4. /\ Append(x, Numbered.body) \in Seq(Q)
          /\ Len(Append(x, Numbered.body)) = Len(sequenced) + 1
          /\ \A i \in 1 .. Len(sequenced) : Append(x, Numbered.body)[i] = x[i]
          /\ Append(x, Numbered.body)[Len(sequenced) + 1] = Numbered.body
      BY <3>3, AppendProperties
    <3>5. \A i \in 1 .. Len(sequenced) + 1 : l[i] = Append(x, Numbered.body)[i]
      <4>1. \A i \in 1 .. Len(sequenced) + 1 : i \in 1 .. Len(sequenced) \/ i = Len(sequenced) + 1
        BY <3>1
      <4> QED BY <3>1, <3>2, <3>3, <3>4, <4>1
    <3>6. l = Append(x, Numbered.body)
      BY <3>2, <3>4, <3>5, SeqEqual
    <3> QED BY <3>6 DEF l
  <2>4. Bodies(Tail(updating)) = Tail(y) /\ Head(y) = Numbered.body /\ y # <<>>
    <3> DEFINE t == Bodies(Tail(updating))
    <3>1. t \in Seq(Q) /\ Len(t) = Len(updating) - 1
          /\ \A i \in 1 .. Len(updating) - 1 : t[i] = Tail(updating)[i].body
      BY <1>1, <2>2, BodiesOf
    <3> HIDE DEF t, y, Q
    <3>2. y # <<>> /\ Head(y) = y[1]
      BY <1>2, <2>2
    <3>3. /\ Tail(y) \in Seq(Q) /\ Len(Tail(y)) = Len(updating) - 1
          /\ \A i \in 1 .. Len(updating) - 1 : Tail(y)[i] = y[i + 1]
      BY <1>2, <3>2, HeadTailProperties
    <3>4. ASSUME NEW i \in 1 .. Len(updating) - 1 PROVE t[i] = Tail(y)[i]
      <4>1. i + 1 \in 1 .. Len(updating)
        BY <2>2
      <4> QED BY <1>2, <2>2, <3>1, <3>3, <4>1
    <3>5. t = Tail(y)
      BY <3>1, <3>3, <3>4, SeqEqual
    <3>6. Head(y) = Numbered.body
      BY <1>2, <2>1, <2>2, <3>2
    <3> QED BY <3>2, <3>5, <3>6 DEF t
  <2>5. Append(x, Numbered.body) \o Tail(y) = x \o y
    <3> HIDE DEF x, y, Q
    <3> QED BY <1>2, <2>4, ShiftHead
  <2>6. Bodies(sequenced)' \o Bodies(updating)' = x \o y
    <3>1. Bodies(sequenced)' = Append(x, Numbered.body) /\ Bodies(updating)' = Tail(y)
      BY <2>1, <2>3, <2>4 DEF Bodies
    <3> QED BY <2>5, <3>1
  <2>7. QueueKeepsEveryMessage' <=> FlattenSeq(Bodies(sequenced)' \o Bodies(updating)') \o outgoing' = pushed'
    BY DEF QueueKeepsEveryMessage
  <2> HIDE DEF x, y
  <2> QED BY <1>4, <2>1, <2>6, <2>7
<1>9. CASE ~(\/ SendSequencedMessage \/ Update \/ \E m \in Payload : SendTo(m))
  <2>1. UNCHANGED <<sequenced, updating, outgoing, pushed>>
    BY <1>9 DEF Next, Strand, ServiceTimer, HandleMessageInternal, sessionVars, sendVars,
         HandleProtocolMessage, HandleProtocolMessageInternal, SendSoePacketInternal,
         handleSessionRequest, handleMultiPacket, handleChildDataA, handleDataFragA,
         handleAckA, handleOutOfOrderA, handlePing, handleNetStatsClient, handleDisconnect,
         UnhandledOpcode, GameMessage, Close, StoreSentMessage
  <2> QED BY <1>5, <2>1
<1> QED BY <1>6, <1>7, <1>8, <1>9

\* Whatever Update makes of a batch, and whatever arrives between, no message the game
\* server pushed is lost, doubled or overtaken before it is numbered (SendTo, Update,
\* PackDataChannelMessages, SplitDataChannelMessage, SendSequencedMessage_).
THEOREM QueueCorrect == Spec => []QueueKeepsEveryMessage
<1>1. Init => QueueKeepsEveryMessage
  <2> SUFFICES ASSUME Init PROVE QueueKeepsEveryMessage
    OBVIOUS
  <2>1. sequenced = <<>> /\ updating = <<>> /\ outgoing = <<>> /\ pushed = <<>>
    BY DEF Init
  <2>2. Bodies(<<>>) = <<>>
    BY DEF Bodies
  <2>3. <<>> \o <<>> = <<>>
    OBVIOUS
  <2> QED BY <2>1, <2>2, <2>3, FlattenEmpty DEF QueueKeepsEveryMessage
<1>2. TypeOK /\ QueueKeepsEveryMessage /\ [Next]_sessionVars => QueueKeepsEveryMessage'
  BY QueueStep
<1> QED BY <1>1, <1>2, TypeCorrect, PTL DEF Spec

-----------------------------------------------------------------------------
(* Server to client: what the client takes is what was pushed.               *)

\* The client has taken the bodies of the first packets that were numbered.
TookInv ==
    /\ Len(received) = expected /\ expected <= Len(sequenced)
    /\ \A i \in 1 .. expected : received[i] = sequenced[i].body

LEMMA SequencedGrows ==
    ASSUME TypeOK, NumberedInOrder, [Next]_sessionVars
    PROVE  /\ Len(sequenced) \in Nat /\ Len(sequenced') \in Nat
           /\ Len(sequenced) <= Len(sequenced')
           /\ \A i \in 1 .. Len(sequenced) : sequenced'[i] = sequenced[i]
<1>1. /\ sequenced \in Seq(Data) /\ sequenced' \in Seq(Data)
      /\ \A n \in DOMAIN sequenced : n \in DOMAIN sequenced' /\ sequenced'[n] = sequenced[n]
  BY NumberStep, TypeStep DEF TypeOK
<1>2. /\ Len(sequenced) \in Nat /\ Len(sequenced') \in Nat
      /\ DOMAIN sequenced = 1 .. Len(sequenced) /\ DOMAIN sequenced' = 1 .. Len(sequenced')
  BY <1>1, LenProperties
<1>3. Len(sequenced) <= Len(sequenced')
  <2>1. CASE Len(sequenced) = 0
    BY <1>2, <2>1
  <2>2. CASE Len(sequenced) # 0
    <3>1. Len(sequenced) \in DOMAIN sequenced
      BY <1>2, <2>2
    <3> QED BY <1>1, <1>2, <3>1
  <2> QED BY <2>1, <2>2
<1> QED BY <1>1, <1>2, <1>3

\* While fewer packets are numbered than there are numbers, the number of a data packet on
\* its way out says which it is.
LEMMA NumberTells ==
    ASSUME TypeOK, OnlySequencedData, Len(sequenced) < SeqModulus,
           NEW d \in downlink, d.packet.op \in DataOps
    PROVE  /\ d.packet.seq + 1 \in 1 .. Len(sequenced)
           /\ d.packet = sequenced[d.packet.seq + 1]
<1>1. PICK n \in DOMAIN sequenced : d.packet = sequenced[n]
  BY DEF OnlySequencedData, IsSequenced
<1>2. Len(sequenced) \in Nat /\ n \in 1 .. Len(sequenced)
  BY LenProperties DEF TypeOK
<1>3. d.packet.seq = (n - 1) % SeqModulus
  BY <1>1 DEF OnlySequencedData, NumberedInOrder
<1>4. n - 1 \in Nat /\ n - 1 < SeqModulus
  BY <1>2, ConstantsAssumption
<1>5. d.packet.seq = n - 1
  BY <1>3, <1>4, SmallMod
<1> QED BY <1>1, <1>2, <1>5

LEMMA TookStep ==
    ASSUME ChannelInv, OnlySequencedData, [ChannelNext]_channelVars,
           Len(sequenced) < SeqModulus => TookInv, Len(sequenced') < SeqModulus
    PROVE  TookInv'
<1>0. /\ Len(sequenced) \in Nat /\ Len(sequenced') \in Nat
      /\ Len(sequenced) <= Len(sequenced')
      /\ \A i \in 1 .. Len(sequenced) : sequenced'[i] = sequenced[i]
  BY ChannelStep, SequencedGrows DEF ChannelInv, ChannelTypeOK, OnlySequencedData
<1>1. /\ Len(sequenced) < SeqModulus /\ TookInv
      /\ expected \in Nat /\ received \in Seq(Seq(Payload))
  <2>1. Len(sequenced) < SeqModulus
    BY <1>0, ConstantsAssumption
  <2> QED BY <2>1 DEF ChannelInv, ChannelTypeOK
<1>2. CASE UNCHANGED <<expected, received>>
  <2>1. /\ Len(received) = expected /\ expected <= Len(sequenced)
        /\ \A i \in 1 .. expected : received[i] = sequenced[i].body
        /\ expected' = expected /\ received' = received
    BY <1>1, <1>2 DEF TookInv
  <2>2. \A i \in 1 .. expected : i \in 1 .. Len(sequenced)
    BY <1>0, <1>1, <2>1
  <2>3. \A i \in 1 .. expected : received[i] = sequenced'[i].body
    BY <1>0, <2>1, <2>2
  <2>4. Len(received') = expected' /\ expected' <= Len(sequenced')
    BY <1>0, <1>1, <2>1
  <2> QED BY <2>1, <2>3, <2>4 DEF TookInv
<1>3. ASSUME NEW d \in downlink, d.packet.op \in DataOps, d.packet.seq = expected % SeqModulus,
             expected' = expected + 1, received' = Append(received, d.packet.body)
      PROVE  TookInv'
  <2>1. expected < SeqModulus /\ expected % SeqModulus = expected
    <3>1. expected < SeqModulus
      BY <1>0, <1>1, ConstantsAssumption DEF TookInv
    <3> QED BY <1>1, <3>1, SmallMod
  <2>2. /\ expected + 1 \in 1 .. Len(sequenced)
        /\ d.packet = sequenced[expected + 1]
    BY <1>1, <1>3, <2>1, NumberTells DEF ChannelInv, ChannelTypeOK
  <2>3. d.packet.body \in Seq(Payload)
    <3>1. sequenced[expected + 1] \in Data
      BY <2>2, ElementOfSeq DEF ChannelInv, ChannelTypeOK, TypeOK
    <3> QED BY <2>2, <3>1 DEF Data
  <2>4. /\ Len(received') = expected + 1
        /\ \A i \in 1 .. expected : received'[i] = received[i]
        /\ received'[expected + 1] = d.packet.body
    <3> DEFINE Q == Seq(Payload)
    <3>1. received \in Seq(Q) /\ d.packet.body \in Q /\ Len(received) = expected
      BY <1>1, <2>3 DEF TookInv
    <3> HIDE DEF Q
    <3> QED BY <1>3, <3>1, AppendProperties
  <2>5. \A i \in 1 .. expected + 1 : i \in 1 .. expected \/ i = expected + 1
    BY <1>1
  <2>6. \A i \in 1 .. expected + 1 : received'[i] = sequenced[i].body
    BY <1>1, <2>2, <2>4, <2>5 DEF TookInv
  <2>7. \A i \in 1 .. expected + 1 : sequenced'[i] = sequenced[i]
    BY <1>0, <2>2
  <2> QED BY <1>0, <1>3, <2>2, <2>4, <2>6, <2>7 DEF TookInv
<1>4. ASSUME NEW d \in downlink, ReceiveData(d) PROVE TookInv'
  BY <1>2, <1>3, <1>4 DEF ReceiveData
<1>5. CASE ~\E d \in downlink : ReceiveData(d)
  <2>1. UNCHANGED <<expected, received>>
    BY <1>5 DEF ChannelNext, Client, Server, Arrive, RequestSession, SessionOpens, SendData,
         ResendData, ResendBundle, ReceiveAck, Leave, DisconnectedByServer, channelVars,
         clientVars
  <2> QED BY <1>2, <2>1
<1> QED BY <1>4, <1>5

LEMMA PrefixOfConcat ==
    ASSUME NEW S, NEW a \in Seq(S), NEW b \in Seq(S)
    PROVE  IsPrefix(a, a \o b)
<1>1. Len(a) \in Nat /\ Len(b) \in Nat /\ Len(a \o b) = Len(a) + Len(b)
  BY LenProperties, ConcatProperties
<1>2. SubSeq(a, 1, Len(a)) = SubSeq(a \o b, 1, Len(a))
  <2>1. CASE Len(a) = 0
    BY <2>1, SubSeqEmpty
  <2>2. CASE Len(a) # 0
    <3>1. 1 \in 1 .. Len(a) /\ Len(a) \in 1 .. Len(a)
      BY <1>1, <2>2
    <3> QED BY <3>1, SubSeqOfConcat1
  <2> QED BY <2>1, <2>2
<1> QED BY <1>1, <1>2 DEF IsPrefix

LEMMA TakenIsPrefix ==
    ASSUME ChannelInv, TookInv, QueueKeepsEveryMessage
    PROVE  ClientTakesInOrder
<1> DEFINE Q == Seq(Payload)
           x == Bodies(sequenced)
           y == Bodies(updating)
           z == x \o y
           rest == SubSeq(z, expected + 1, Len(z))
<1>0. /\ sequenced \in Seq(Data) /\ updating \in Seq(Built) /\ outgoing \in Seq(Payload)
      /\ received \in Seq(Q) /\ expected \in Nat
      /\ Len(received) = expected /\ expected <= Len(sequenced)
      /\ Len(sequenced) \in Nat
  BY LenProperties DEF ChannelInv, ChannelTypeOK, TypeOK, Built, TookInv
<1>1. (\A p \in Data : p.body \in Seq(Payload)) /\ \A p \in Built : p.body \in Seq(Payload)
  BY DEF Data, Built
<1>2. /\ x \in Seq(Q) /\ Len(x) = Len(sequenced)
      /\ \A i \in 1 .. Len(sequenced) : x[i] = sequenced[i].body
      /\ y \in Seq(Q) /\ Len(y) \in Nat
  BY <1>0, <1>1, BodiesOf, LenProperties
<1> HIDE DEF x, y
<1>3. /\ z \in Seq(Q) /\ Len(z) = Len(x) + Len(y)
      /\ \A i \in 1 .. Len(x) : z[i] = x[i]
  <2> HIDE DEF Q
  <2>1. /\ z \in Seq(Q) /\ Len(z) = Len(x) + Len(y)
        /\ \A i \in 1 .. Len(x) + Len(y) : z[i] = IF i <= Len(x) THEN x[i] ELSE y[i - Len(x)]
    BY <1>2, ConcatProperties
  <2> HIDE DEF z
  <2> QED BY <1>0, <1>2, <2>1
<1> HIDE DEF z
<1>4. expected \in 0 .. Len(z) /\ Len(z) \in Nat
  BY <1>0, <1>2, <1>3
<1>5. received = SubSeq(z, 1, expected)
  <2> HIDE DEF Q
  <2>1. \A i \in 1 .. expected : z[i] \in Q /\ z[i] = received[i]
    <3>1. \A i \in 1 .. expected : i \in 1 .. Len(x) /\ i \in 1 .. Len(z)
      BY <1>0, <1>2, <1>4
    <3> QED BY <1>0, <1>2, <1>3, <3>1, ElementOfSeq DEF TookInv
  <2> DEFINE s == SubSeq(z, 1, expected)
  <2>2. /\ s \in Seq(Q) /\ Len(s) = IF 1 <= expected THEN expected - 1 + 1 ELSE 0
        /\ \A i \in 1 .. expected - 1 + 1 : s[i] = z[1 + i - 1]
    BY <1>0, <2>1, SubSeqProperties
  <2> HIDE DEF s
  <2>3. Len(s) = expected /\ \A i \in 1 .. expected : s[i] = z[i]
    BY <1>0, <2>2
  <2>4. received = s
    BY <1>0, <2>1, <2>2, <2>3, SeqEqual
  <2> QED BY <2>4 DEF s
<1>6. received \o rest = z /\ rest \in Seq(Q)
  <2> HIDE DEF Q
  <2>1. 1 \in 1 .. Len(z) + 1 /\ expected \in 1 - 1 .. Len(z) /\ Len(z) \in expected .. Len(z)
    BY <1>4
  <2>2. SubSeq(z, 1, expected) \o SubSeq(z, expected + 1, Len(z)) = SubSeq(z, 1, Len(z))
    BY <1>3, <2>1, ConcatAdjacentSubSeq
  <2>3. SubSeq(z, 1, Len(z)) = z
    BY <1>3, SubSeqFull
  <2>4. rest \in Seq(Q)
    <3>1. \A i \in expected + 1 .. Len(z) : z[i] \in Q
      BY <1>3, <1>4, ElementOfSeq
    <3> QED BY <1>4, <3>1, SubSeqProperties
  <2> QED BY <1>5, <2>2, <2>3, <2>4
<1> HIDE DEF rest
<1>7. FlattenSeq(z) = FlattenSeq(received) \o FlattenSeq(rest)
  BY <1>0, <1>6, FlattenConcat
<1>8. FlattenSeq(received) \in Seq(Payload) /\ FlattenSeq(rest) \in Seq(Payload)
  BY <1>0, <1>6, FlattenType
<1>9. FlattenSeq(z) \o outgoing = pushed
  BY DEF QueueKeepsEveryMessage, x, y, z
<1>10. \A a, b, c \in Seq(Payload) : (a \o b) \o c = a \o (b \o c)
  BY Associative
<1> DEFINE f == FlattenSeq(received)
           g == FlattenSeq(rest)
<1>11. pushed = f \o (g \o outgoing)
  <2>1. f \in Seq(Payload) /\ g \in Seq(Payload) /\ pushed = (f \o g) \o outgoing
    BY <1>7, <1>8, <1>9
  <2> HIDE DEF f, g, Q
  <2> QED BY <1>0, <1>10, <2>1, Zenon
<1>12. f \in Seq(Payload) /\ g \o outgoing \in Seq(Payload)
  <2>1. f \in Seq(Payload) /\ g \in Seq(Payload)
    BY <1>8
  <2> HIDE DEF f, g, Q
  <2> QED BY <1>0, <2>1, ConcatProperties
<1>13. IsPrefix(f, pushed)
  <2> HIDE DEF f, g, Q
  <2> QED BY <1>11, <1>12, PrefixOfConcat
<1> QED BY <1>13 DEF ClientTakesInOrder

\* Until the sequence numbers run out, the client's application has, in order, the messages
\* the game server pushed, whatever the network and the batches did to them (Update,
\* SendSequencedMessage_, handleOutOfOrderA_).
THEOREM TakenCorrect == ChannelSpec => [](Len(sequenced) < SeqModulus => ClientTakesInOrder)
<1> DEFINE Took == Len(sequenced) < SeqModulus => TookInv
<1>1. ChannelInit => Took
  <2> SUFFICES ASSUME ChannelInit PROVE TookInv
    OBVIOUS
  <2>1. received = <<>> /\ sequenced = <<>> /\ expected = 0 /\ Len(<<>>) = 0
    BY DEF ChannelInit, Init
  <2> QED BY <2>1 DEF TookInv
<1>2. /\ ChannelInv /\ OnlySequencedData /\ Took /\ [ChannelNext]_channelVars
      => Took'
  BY TookStep
<1>3. ChannelInv /\ QueueKeepsEveryMessage /\ Took
          => (Len(sequenced) < SeqModulus => ClientTakesInOrder)
  BY TakenIsPrefix
<1> QED BY <1>1, <1>2, <1>3, ChannelInvCorrect, ChannelIsASession, SequencedDataCorrect,
           QueueCorrect, PTL DEF ChannelSpec

-----------------------------------------------------------------------------
(* Server to client: what the client has not taken can be resent.            *)

\* An acknowledgement of the client's that is not handled yet.
IsAck(h) == h.run # "send" /\ h.packet.op = "AckA"

\* Of two that came in, the one at i is handled before the one at j: a datagram is
\* queued a second time once it is decoded.
Before(queue, i, j) ==
    \/ queue[i].run = "message" /\ queue[j].run = "protocol"
    \/ queue[i].run = queue[j].run /\ i < j

AcksBetween(queue, low, high) ==
    \A i \in DOMAIN queue : IsAck(queue[i]) =>
        /\ low <= queue[i].packet.seq /\ queue[i].packet.seq < high
        /\ queue[i].run = "message" => ~queue[i].sealed

AcksInOrder(queue) ==
    \A i, j \in DOMAIN queue :
        IsAck(queue[i]) /\ IsAck(queue[j]) /\ Before(queue, i, j)
            => queue[i].packet.seq <= queue[j].packet.seq

\* How many packets are stored no more.
Forgotten == StoredCount - Len(sent)

\* On an ordered path no acknowledgement is older than the ones handled before it, so
\* none of them finds its packet gone; none comes in before the session is connected.
KeptInv ==
    registered =>
        /\ Forgotten = 0 \/ Forgotten < expected
        /\ AcksBetween(strand, Forgotten, expected) /\ AcksInOrder(strand)
        /\ ~connected => /\ clientState # "open"
                         /\ Plain(Ctl("SessionResponse", 0)) \notin downlink
                         /\ \A i \in DOMAIN strand : ~IsAck(strand[i])

LEMMA AckNumber ==
    ASSUME NEW h \in Handler, IsAck(h)
    PROVE  h.packet.seq \in Nat /\ h.run \in {"protocol", "message"} /\ h.packet \in Simple
<1>1. h.packet \in Packet /\ h.packet.op = "AckA" /\ h.run \in {"protocol", "message"}
  BY DEF Handler, IsAck
<1>2. h.packet \in Simple
  BY <1>1 DEF Packet, Multi
<1> QED BY <1>1, <1>2 DEF Simple, SeqNo

LEMMA FinishEntries ==
    ASSUME strand \in Seq(Handler), strand # <<>>, NEW posts \in Seq(Handler), Finish(posts)
    PROVE  \E m \in Nat :
              /\ DOMAIN strand = 1 .. m + 1 /\ Head(strand) = strand[1]
              /\ DOMAIN posts = 1 .. Len(posts) /\ Len(posts) \in Nat
              /\ DOMAIN strand' = 1 .. m + Len(posts)
              /\ \A i \in 1 .. m : strand'[i] = strand[i + 1]
              /\ \A i \in m + 1 .. m + Len(posts) : strand'[i] = posts[i - m]
<1> DEFINE rest == Tail(strand)
<1>1. /\ rest \in Seq(Handler) /\ Len(rest) = Len(strand) - 1 /\ Len(rest) \in Nat
      /\ Len(strand) \in Nat /\ Head(strand) = strand[1]
      /\ \A i \in 1 .. Len(rest) : rest[i] = strand[i + 1]
  BY HeadTailProperties
<1>2. Len(posts) \in Nat /\ DOMAIN posts = 1 .. Len(posts) /\ DOMAIN strand = 1 .. Len(strand)
  BY LenProperties
<1>3. strand' = rest \o posts
  BY DEF Finish
<1> HIDE DEF rest
<1>4. /\ Len(strand') = Len(rest) + Len(posts) /\ strand' \in Seq(Handler)
      /\ \A i \in 1 .. Len(rest) + Len(posts) :
            strand'[i] = IF i <= Len(rest) THEN rest[i] ELSE posts[i - Len(rest)]
  BY <1>1, <1>3, ConcatProperties
<1> PICK m \in Nat : m = Len(rest)
  BY <1>1
<1>5. DOMAIN strand' = 1 .. m + Len(posts) /\ DOMAIN strand = 1 .. m + 1
  BY <1>1, <1>2, <1>4
<1>6. ASSUME NEW i \in 1 .. m PROVE strand'[i] = strand[i + 1]
  <2>1. i \in 1 .. m + Len(posts) /\ i <= m /\ i \in 1 .. Len(rest)
    BY <1>2
  <2>2. strand'[i] = rest[i] /\ rest[i] = strand[i + 1]
    BY <1>1, <1>4, <2>1
  <2> QED BY <2>2
<1>7. ASSUME NEW i \in m + 1 .. m + Len(posts) PROVE strand'[i] = posts[i - m]
  <2>1. i \in 1 .. m + Len(posts) /\ ~(i <= m)
    BY <1>2
  <2> QED BY <1>4, <2>1
<1>8. Head(strand) = strand[1]
  BY <1>1
<1> QED BY <1>2, <1>5, <1>6, <1>7, <1>8

\* The head finishes and posts no acknowledgement; if it was one itself, the others are
\* not below it.
LEMMA AcksFinish ==
    ASSUME strand \in Seq(Handler), strand # <<>>, NEW posts \in Seq(Handler), Finish(posts),
           \A k \in DOMAIN posts : ~IsAck(posts[k]),
           NEW b \in Int, NEW e \in Int, NEW c \in Int,
           AcksBetween(strand, b, e), AcksInOrder(strand),
           \/ c = b
           \/ /\ IsAck(Head(strand)) /\ Head(strand).run = "message"
              /\ c <= Head(strand).packet.seq
    PROVE  AcksBetween(strand', c, e) /\ AcksInOrder(strand')
<1>1. PICK m \in Nat :
        /\ DOMAIN strand = 1 .. m + 1 /\ Head(strand) = strand[1]
        /\ DOMAIN posts = 1 .. Len(posts) /\ Len(posts) \in Nat
        /\ DOMAIN strand' = 1 .. m + Len(posts)
        /\ \A i \in 1 .. m : strand'[i] = strand[i + 1]
        /\ \A i \in m + 1 .. m + Len(posts) : strand'[i] = posts[i - m]
  BY FinishEntries
<1>2. \A i \in DOMAIN strand : strand[i] \in Handler
  BY ElementOfSeq, LenProperties
<1>3. ASSUME NEW i \in DOMAIN strand', IsAck(strand'[i])
      PROVE  /\ i \in 1 .. m /\ i + 1 \in DOMAIN strand /\ strand'[i] = strand[i + 1]
             /\ IsAck(strand[i + 1])
  <2>1. CASE i \in 1 .. m
    BY <1>1, <1>3, <2>1
  <2>2. CASE i \in m + 1 .. m + Len(posts)
    <3>1. strand'[i] = posts[i - m] /\ i - m \in DOMAIN posts
      BY <1>1, <2>2
    <3> QED BY <1>3, <3>1
  <2> QED BY <1>1, <2>1, <2>2
<1>4. ASSUME NEW i \in DOMAIN strand', IsAck(strand'[i]) PROVE c <= strand'[i].packet.seq
  <2>0. strand'[i] = strand[i + 1] /\ i + 1 \in DOMAIN strand /\ IsAck(strand[i + 1]) /\ i \in 1 .. m
    BY <1>3, <1>4
  <2>1. CASE c = b
    BY <2>0, <2>1 DEF AcksBetween
  <2>2. CASE /\ IsAck(Head(strand)) /\ Head(strand).run = "message"
             /\ c <= Head(strand).packet.seq
    <3>1. 1 \in DOMAIN strand /\ 1 < i + 1
      BY <1>1, <2>0
    <3>2. Before(strand, 1, i + 1)
      <4>1. strand[i + 1].run \in {"protocol", "message"}
        BY <1>2, <2>0, AckNumber
      <4> QED BY <1>1, <2>2, <3>1, <4>1 DEF Before
    <3>3. strand[1].packet.seq <= strand[i + 1].packet.seq
      BY <1>1, <2>0, <2>2, <3>1, <3>2 DEF AcksInOrder
    <3>4. strand[1].packet.seq \in Nat /\ strand[i + 1].packet.seq \in Nat
      BY <1>1, <1>2, <2>0, <2>2, <3>1, AckNumber
    <3> PICK x \in Nat, y \in Nat : x = strand[1].packet.seq /\ y = strand[i + 1].packet.seq
      BY <3>4
    <3>5. c <= x /\ x <= y
      BY <1>1, <2>2, <3>3
    <3>6. c <= y
      BY <3>5
    <3> QED BY <2>0, <3>6
  <2> QED BY <2>1, <2>2
<1>5. AcksBetween(strand', c, e)
  BY <1>3, <1>4 DEF AcksBetween
<1>6. ASSUME NEW i \in DOMAIN strand', NEW j \in DOMAIN strand',
             IsAck(strand'[i]), IsAck(strand'[j]), Before(strand', i, j)
      PROVE  strand'[i].packet.seq <= strand'[j].packet.seq
  <2>1. /\ i + 1 \in DOMAIN strand /\ strand'[i] = strand[i + 1] /\ IsAck(strand[i + 1])
        /\ j + 1 \in DOMAIN strand /\ strand'[j] = strand[j + 1] /\ IsAck(strand[j + 1])
        /\ i \in 1 .. m /\ j \in 1 .. m
    BY <1>3, <1>6
  <2>2. Before(strand, i + 1, j + 1)
    <3>1. i < j => i + 1 < j + 1
      BY <2>1
    <3> QED BY <1>6, <2>1, <3>1 DEF Before
  <2> QED BY <2>1, <2>2 DEF AcksInOrder
<1> QED BY <1>5, <1>6 DEF AcksInOrder

\* A decoded datagram goes to the back of the queue, behind every other decoded one and
\* before every one that is not.
LEMMA AcksRepost ==
    ASSUME strand \in Seq(Handler), strand # <<>>, Head(strand).run = "protocol",
           NEW s \in BOOLEAN, Finish(<<Message(Head(strand).packet, s)>>),
           IsAck(Head(strand)) => ~s,
           NEW b \in Int, NEW e \in Int, AcksBetween(strand, b, e), AcksInOrder(strand)
    PROVE  AcksBetween(strand', b, e) /\ AcksInOrder(strand')
<1> DEFINE h == Message(Head(strand).packet, s)
           posts == <<h>>
<1>0. h \in Handler /\ posts \in Seq(Handler) /\ Len(posts) = 1 /\ posts[1] = h
  <2>1. Head(strand) \in Handler
    BY HeadTailProperties
  <2>2. h \in Handler
    BY <2>1, PostType DEF Handler
  <2> QED BY <2>2
<1>1. PICK m \in Nat :
        /\ DOMAIN strand = 1 .. m + 1 /\ Head(strand) = strand[1]
        /\ DOMAIN strand' = 1 .. m + 1
        /\ \A i \in 1 .. m : strand'[i] = strand[i + 1]
        /\ strand'[m + 1] = h
  <2> HIDE DEF posts, h
  <2>1. Finish(posts)
    BY DEF posts, h
  <2>2. PICK m \in Nat :
        /\ DOMAIN strand = 1 .. m + 1 /\ Head(strand) = strand[1]
        /\ DOMAIN posts = 1 .. Len(posts) /\ Len(posts) \in Nat
        /\ DOMAIN strand' = 1 .. m + Len(posts)
        /\ \A i \in 1 .. m : strand'[i] = strand[i + 1]
        /\ \A i \in m + 1 .. m + Len(posts) : strand'[i] = posts[i - m]
    BY <1>0, <2>1, FinishEntries
  <2>3. strand'[m + 1] = h
    BY <1>0, <2>2
  <2> QED BY <1>0, <2>2, <2>3
<1>2. h.run = "message" /\ h.packet = strand[1].packet /\ h.sealed = s /\ strand[1].run = "protocol"
  BY <1>1 DEF Message
<1>3. IsAck(h) <=> IsAck(strand[1])
  BY <1>2 DEF IsAck
<1> HIDE DEF h, posts
<1>4. \A i \in 1 .. m + 1 : i \in 1 .. m \/ i = m + 1
  OBVIOUS
<1>5. \A i \in 1 .. m : i + 1 \in DOMAIN strand /\ 1 < i + 1
  BY <1>1
<1>6. AcksBetween(strand', b, e)
  <2>1. ASSUME NEW i \in 1 .. m, IsAck(strand'[i])
        PROVE  /\ b <= strand'[i].packet.seq /\ strand'[i].packet.seq < e
               /\ strand'[i].run = "message" => ~strand'[i].sealed
    BY <1>1, <1>5, <2>1 DEF AcksBetween
  <2>2. ASSUME IsAck(h)
        PROVE  b <= h.packet.seq /\ h.packet.seq < e /\ ~h.sealed
    <3>1. 1 \in DOMAIN strand
      BY <1>1
    <3> QED BY <1>1, <1>2, <1>3, <2>2, <3>1 DEF AcksBetween
  <2> QED BY <1>1, <1>4, <2>1, <2>2 DEF AcksBetween
<1>7. ASSUME NEW i \in DOMAIN strand', NEW j \in DOMAIN strand',
             IsAck(strand'[i]), IsAck(strand'[j]), Before(strand', i, j)
      PROVE  strand'[i].packet.seq <= strand'[j].packet.seq
  <2>0. 1 \in DOMAIN strand
    BY <1>1
  <2>1. CASE i \in 1 .. m /\ j \in 1 .. m
    <3>1. strand'[i] = strand[i + 1] /\ strand'[j] = strand[j + 1] /\ (i < j => i + 1 < j + 1)
      BY <1>1, <2>1
    <3>2. Before(strand, i + 1, j + 1)
      BY <1>7, <3>1 DEF Before
    <3> QED BY <1>5, <1>7, <2>1, <3>1, <3>2 DEF AcksInOrder
  <2>2. CASE i = m + 1 /\ j \in 1 .. m
    <3>1. strand'[j] = strand[j + 1] /\ j + 1 \in DOMAIN strand /\ 1 < j + 1 /\ ~(i < j)
      BY <1>1, <1>5, <2>2
    <3>2. strand'[j].run = "protocol"
      BY <1>7, <3>1 DEF Before
    <3>3. Before(strand, 1, j + 1)
      BY <1>2, <3>1, <3>2 DEF Before
    <3>4. strand[1].packet.seq <= strand[j + 1].packet.seq
      BY <1>1, <1>3, <1>7, <2>0, <2>2, <3>1, <3>3 DEF AcksInOrder
    <3> QED BY <1>1, <1>2, <2>2, <3>1, <3>4
  <2>3. CASE i \in 1 .. m /\ j = m + 1
    <3>1. strand'[i] = strand[i + 1] /\ i + 1 \in DOMAIN strand
      BY <1>1, <1>5, <2>3
    <3>2. strand[i + 1].run = "message"
      BY <1>1, <1>2, <1>7, <2>3, <3>1 DEF Before
    <3>3. Before(strand, i + 1, 1)
      BY <1>2, <3>2 DEF Before
    <3>4. strand[i + 1].packet.seq <= strand[1].packet.seq
      BY <1>1, <1>3, <1>7, <2>0, <2>3, <3>1, <3>3 DEF AcksInOrder
    <3> QED BY <1>1, <1>2, <2>3, <3>1, <3>4
  <2>4. CASE i = m + 1 /\ j = m + 1
    <3>1. strand'[i] = h /\ strand'[j] = h
      BY <1>1, <2>4
    <3>2. h.packet.seq \in Nat
      BY <1>0, <1>7, <3>1, AckNumber
    <3> QED BY <3>1, <3>2
  <2> QED BY <1>1, <1>4, <2>1, <2>2, <2>3, <2>4
<1> QED BY <1>6, <1>7 DEF AcksInOrder

\* The client acknowledges as far as it got, so later ones are not below earlier ones.
LEMMA AcksAppend ==
    ASSUME strand \in Seq(Handler), NEW h \in Handler, strand' = Append(strand, h),
           NEW b \in Int, NEW e \in Int, NEW f \in Int, e <= f,
           AcksBetween(strand, b, e), AcksInOrder(strand),
           IsAck(h) => /\ h.run = "protocol" /\ b <= h.packet.seq
                       /\ e - 1 <= h.packet.seq /\ h.packet.seq < f
    PROVE  AcksBetween(strand', b, f) /\ AcksInOrder(strand')
<1>0. /\ Len(strand) \in Nat /\ DOMAIN strand' = 1 .. Len(strand) + 1
      /\ DOMAIN strand = 1 .. Len(strand)
      /\ \A i \in 1 .. Len(strand) : strand'[i] = strand[i]
      /\ strand'[Len(strand) + 1] = h
  BY AppendProperties, LenProperties
<1> PICK m \in Nat : m = Len(strand)
  BY <1>0
<1>1. /\ DOMAIN strand' = 1 .. m + 1 /\ DOMAIN strand = 1 .. m
      /\ \A i \in 1 .. m : strand'[i] = strand[i]
      /\ strand'[m + 1] = h
      /\ \A i \in 1 .. m + 1 : i \in 1 .. m \/ i = m + 1
  BY <1>0
<1>2. ASSUME NEW i \in 1 .. m, IsAck(strand[i])
      PROVE  /\ b <= strand[i].packet.seq /\ strand[i].packet.seq < e
             /\ strand[i].run = "message" => ~strand[i].sealed
             /\ strand[i].packet.seq \in Nat
  <2>1. strand[i] \in Handler
    BY <1>0, ElementOfSeq
  <2> QED BY <1>1, <1>2, <2>1, AckNumber DEF AcksBetween
<1>3. ASSUME NEW i \in DOMAIN strand', IsAck(strand'[i])
      PROVE  /\ b <= strand'[i].packet.seq /\ strand'[i].packet.seq < f
             /\ strand'[i].run = "message" => ~strand'[i].sealed
  <2>1. CASE i \in 1 .. m
    BY <1>1, <1>2, <1>3, <2>1
  <2>2. CASE i = m + 1
    BY <1>1, <1>3, <2>2
  <2> QED BY <1>1, <2>1, <2>2
<1>4. ASSUME NEW i \in DOMAIN strand', NEW j \in DOMAIN strand',
             IsAck(strand'[i]), IsAck(strand'[j]), Before(strand', i, j)
      PROVE  strand'[i].packet.seq <= strand'[j].packet.seq
  <2>1. CASE i \in 1 .. m /\ j \in 1 .. m
    <3>1. strand'[i] = strand[i] /\ strand'[j] = strand[j]
      BY <1>1, <2>1
    <3>2. Before(strand, i, j)
      BY <1>4, <3>1 DEF Before
    <3> QED BY <1>1, <1>4, <2>1, <3>1, <3>2 DEF AcksInOrder
  <2>2. CASE i = m + 1
    <3>1. ~(i < j) /\ strand'[i] = h
      BY <1>1, <2>2
    <3> QED BY <1>4, <3>1 DEF Before
  <2>3. CASE i \in 1 .. m /\ j = m + 1
    <3>1. strand'[i] = strand[i] /\ strand'[j] = h /\ IsAck(strand[i]) /\ IsAck(h)
      BY <1>1, <1>4, <2>3
    <3>2. h.packet.seq \in Nat
      BY <3>1, AckNumber
    <3>3. strand[i].packet.seq \in Nat /\ strand[i].packet.seq < e
      BY <1>2, <2>3, <3>1
    <3> QED BY <3>1, <3>2, <3>3
  <2> QED BY <1>1, <2>1, <2>2, <2>3
<1> QED BY <1>3, <1>4 DEF AcksBetween, AcksInOrder

LEMMA BundlesHoldData ==
    ASSUME NEW n \in Nat, NEW p, FromClient(p, n), p.op = "MultiPacket"
    PROVE  \A i \in DOMAIN p.body : p.body[i].op = "ChildDataA"
<1>1. ASSUME NEW k \in 0 .. n - 1, p = DataPacket(k) PROVE FALSE
  BY <1>1 DEF DataPacket
<1>2. PICK k \in 0 .. n - 2 : p = Bundle(k)
  BY <1>1 DEF FromClient, ControlOps
<1>3. p.body = <<DataPacket(k), DataPacket(k + 1)>>
  BY <1>2 DEF Bundle
<1>4. DOMAIN p.body = 1 .. 2 /\ p.body[1] = DataPacket(k) /\ p.body[2] = DataPacket(k + 1)
  BY <1>3
<1>5. \A i \in 1 .. 2 : i = 1 \/ i = 2
  OBVIOUS
<1>6. DataPacket(k).op = "ChildDataA" /\ DataPacket(k + 1).op = "ChildDataA"
  BY DEF DataPacket
<1> QED BY <1>4, <1>5, <1>6

\* No step of the server adds an acknowledgement of the client's; the one that decodes
\* it queues it again.
LEMMA QueueMoves ==
    ASSUME TypeOK, NEW n \in Nat, QueuedFromClient(n),
           \/ Strand \/ ServiceTimer \/ Close \/ (\E m \in Payload : SendTo(m))
           \/ UNCHANGED sessionVars
    PROVE  \/ UNCHANGED strand
           \/ \E h \in Handler : h.run = "send" /\ strand' = Append(strand, h)
           \/ /\ strand # <<>>
              /\ \/ handleAckA
                 \/ \E posts \in Seq(Handler) :
                        Finish(posts) /\ \A k \in DOMAIN posts : ~IsAck(posts[k])
                 \/ /\ HandleProtocolMessageInternal /\ Head(strand).run = "protocol"
                    /\ \E s \in BOOLEAN :
                          /\ s => ~connected
                          /\ Finish(<<Message(Head(strand).packet, s)>>)
<1> DEFINE Posts(posts) == /\ posts \in Seq(Handler) /\ Finish(posts)
                           /\ \A k \in DOMAIN posts : ~IsAck(posts[k])
           Goal == \E posts \in Seq(Handler) :
                        Finish(posts) /\ \A k \in DOMAIN posts : ~IsAck(posts[k])
<1>0. strand \in Seq(Handler)
  BY DEF TypeOK
<1>1. ASSUME Finish(<<>>) PROVE Goal
  <2>1. <<>> \in Seq(Handler) /\ DOMAIN <<>> = {}
    BY EmptySeq
  <2> QED BY <1>1, <2>1
<1>2. ASSUME NEW p \in Packet, Finish(<<SendSoePacket(p)>>) PROVE Goal
  <2> PICK h \in Handler : h = SendSoePacket(p)
    BY PostType
  <2>1. <<h>> \in Seq(Handler) /\ \A k \in DOMAIN <<h>> : <<h>>[k] = h
    OBVIOUS
  <2>2. ~IsAck(h)
    BY DEF IsAck, SendSoePacket
  <2>3. Finish(<<h>>)
    BY <1>2
  <2> QED BY <2>1, <2>2, <2>3
<1>3. ASSUME strand # <<>>
      PROVE  /\ Head(strand) \in Handler
             /\ Head(strand).packet \in Packet /\ Head(strand).sealed \in BOOLEAN
             /\ Head(strand).run # "send" => FromClient(Head(strand).packet, n)
  <2>1. Head(strand) \in Handler /\ Head(strand) = strand[1] /\ 1 \in DOMAIN strand
    BY <1>0, <1>3, HeadTailProperties, LenProperties
  <2> QED BY <2>1 DEF QueuedFromClient, Handler
<1>4. CASE HandleProtocolMessageInternal
  <2>1. strand # <<>> /\ Head(strand).run = "protocol"
    BY <1>4 DEF HandleProtocolMessageInternal, Runs
  <2>2. \/ Finish(<<>>)
        \/ connected /\ Finish(<<Message(Head(strand).packet, FALSE)>>)
        \/ ~connected /\ Finish(<<Message(Head(strand).packet, Head(strand).sealed)>>)
    BY <1>4 DEF HandleProtocolMessageInternal
  <2>3. CASE Finish(<<>>)
    BY <1>1, <2>1, <2>3
  <2>4. CASE connected /\ Finish(<<Message(Head(strand).packet, FALSE)>>)
    BY <1>4, <2>1, <2>4
  <2>5. CASE ~connected /\ Finish(<<Message(Head(strand).packet, Head(strand).sealed)>>)
    <3>1. Head(strand).sealed \in BOOLEAN
      BY <1>3, <2>1
    <3> QED BY <1>4, <2>1, <2>5, <3>1
  <2> QED BY <2>2, <2>3, <2>4, <2>5
<1>5. CASE SendSoePacketInternal
  BY <1>1, <1>5 DEF SendSoePacketInternal, Runs
<1>6. CASE HandleMessageInternal
  <2>1. Runs("message") /\ strand # <<>> /\ Head(strand).run = "message"
    BY <1>6 DEF HandleMessageInternal, Handles, handleSessionRequest, handleMultiPacket,
         handleChildDataA, handleDataFragA, handleAckA, handleOutOfOrderA,
         handlePing, handleNetStatsClient, handleDisconnect, UnhandledOpcode,
         GameMessage, Runs
  <2>2. FromClient(Head(strand).packet, n) /\ HandlerPacket.op = Head(strand).packet.op
    BY <1>3, <2>1 DEF HandlerPacket, Undecoded, Handler, Packet, Simple, Multi
  <2>3. HandlerPacket.op \in ControlOps \cup {"ChildDataA", "MultiPacket"}
    BY <2>2, ClientPacketKinds
  <2>4. HandlerPacket.op \in SimpleOps => HandlerPacket.seq \in SeqNo
    BY <2>1, HandlerPacketType DEF Simple
  <2>5. \A op \in {"AckA", "Disconnect", "OutOfOrderA"}, s \in SeqNo :
            Ctl(op, s) \in Packet
    BY CtlType DEF SimpleOps, Packet
  <2>6. CASE handleSessionRequest
    BY <1>1, <2>1, <2>6 DEF handleSessionRequest
  <2>7. CASE handleDisconnect
    <3>1. Ctl("Disconnect", 0) \in Packet
      BY <2>5, ConstantsAssumption DEF SeqNo
    <3>2. Goal
      BY <1>1, <1>2, <2>7, <3>1 DEF handleDisconnect
    <3> QED BY <2>1, <3>2
  <2>8. CASE handleChildDataA
    <3>1. HandlerPacket.seq \in SeqNo
      BY <2>4, <2>8 DEF handleChildDataA, Handles, SimpleOps, DataOps
    <3>2. Ctl("AckA", HandlerPacket.seq) \in Packet /\ Ctl("OutOfOrderA", HandlerPacket.seq) \in Packet
      BY <2>5, <3>1
    <3>3. \E p \in Packet : Finish(<<SendSoePacket(p)>>)
      BY <2>8, <3>2 DEF handleChildDataA
    <3> QED BY <1>2, <2>1, <3>3
  <2>9. CASE handleMultiPacket
    <3> DEFINE parts == HandlerPacket.body
               posts == [i \in DOMAIN parts |-> Message(parts[i], FALSE)]
    <3>1. parts \in Seq(Simple)
      BY <2>1, <2>9, HandlerPacketType DEF handleMultiPacket, Handles
    <3>2. Len(parts) \in Nat /\ DOMAIN parts = 1 .. Len(parts)
      BY <3>1, LenProperties
    <3>3. \A i \in 1 .. Len(parts) : parts[i] \in Packet
      BY <3>1, <3>2, ElementOfSeq DEF Packet
    <3>4. \A i \in DOMAIN parts : parts[i].op = "ChildDataA"
      <4>1. Head(strand).packet.op = "MultiPacket"
        BY <2>2, <2>9 DEF handleMultiPacket, Handles
      <4>2. parts = <<>> \/ parts = Head(strand).packet.body
        BY <1>3, <2>1, <4>1 DEF HandlerPacket, Undecoded, Packet, Simple, Multi, SimpleOps, DataOps
      <4>3. \A i \in DOMAIN Head(strand).packet.body :
                Head(strand).packet.body[i].op = "ChildDataA"
        BY <2>2, <4>1, BundlesHoldData
      <4> QED BY <4>2, <4>3
    <3>5. posts \in [1 .. Len(parts) -> Handler]
      BY <3>2, <3>3, PostType
    <3>6. \A i \in 1 .. Len(parts) : ~IsAck(posts[i])
      BY <3>2, <3>4 DEF Message, IsAck
    <3>7. posts \in Seq(Handler) /\ DOMAIN posts = 1 .. Len(parts)
      BY <3>2, <3>5, FunctionIsSeq
    <3>8. Finish(posts)
      BY <2>9 DEF handleMultiPacket
    <3> HIDE DEF posts
    <3> QED BY <2>1, <3>6, <3>7, <3>8
  <2>10. CASE handleOutOfOrderA
    <3> DEFINE posts == [i \in DOMAIN sent |-> SendSoePacket(sent[i])]
    <3>1. Len(sent) \in Nat /\ DOMAIN sent = 1 .. Len(sent) /\ sent \in Seq(Data)
      BY LenProperties DEF TypeOK
    <3>2. \A i \in 1 .. Len(sent) : sent[i] \in Packet
      BY <3>1, ElementOfSeq, DataIsPacket
    <3>3. posts \in [1 .. Len(sent) -> Handler] /\ \A i \in 1 .. Len(sent) : posts[i].run = "send"
      BY <3>1, <3>2, PostType DEF SendSoePacket
    <3>4. posts \in Seq(Handler) /\ DOMAIN posts = 1 .. Len(sent)
      BY <3>1, <3>3, FunctionIsSeq
    <3>5. Finish(posts)
      BY <2>10 DEF handleOutOfOrderA
    <3> HIDE DEF posts
    <3> QED BY <2>1, <3>3, <3>4, <3>5 DEF IsAck
  <2>11. CASE handleAckA
    BY <2>1, <2>11
  <2> QED
    BY <1>6, <2>3, <2>6, <2>7, <2>8, <2>9, <2>10, <2>11 DEF HandleMessageInternal, Handles,
       ControlOps, handleDataFragA, handlePing, handleNetStatsClient, UnhandledOpcode, GameMessage
<1>7. CASE Close
  <2>1. SendSoePacket(Ctl("Disconnect", 0)) \in Handler
    BY CtlType, PostType, ConstantsAssumption DEF SimpleOps, Packet, SeqNo
  <2>2. SendSoePacket(Ctl("Disconnect", 0)).run = "send"
    BY DEF SendSoePacket
  <2> QED BY <1>7, <2>1, <2>2 DEF Close
<1>8. CASE SendSequencedMessage
  <2>1. Numbered \in Packet /\ strand' = Append(strand, SendSoePacket(Numbered))
    BY <1>8, NumberedType, DataIsPacket
  <2>2. SendSoePacket(Numbered) \in Handler /\ SendSoePacket(Numbered).run = "send"
    BY <2>1, PostType DEF SendSoePacket
  <2> QED BY <2>1, <2>2
<1>9. CASE \/ Update \/ StoreSentMessage \/ (\E m \in Payload : SendTo(m))
           \/ UNCHANGED sessionVars
  BY <1>9 DEF Update, StoreSentMessage, SendTo, sessionVars
<1> QED BY <1>4, <1>5, <1>6, <1>7, <1>8, <1>9 DEF Strand, ServiceTimer

\* A session that was disconnected is never connected again under the same entry of the
\* service's map, and only a connected one has answered a session request.
LEMMA LinkStep ==
    ASSUME [Next]_sessionVars
    PROVE  /\ registered' => registered
           /\ registered' /\ connected => connected'
           /\ ~connected' /\ Plain(Ctl("SessionResponse", 0)) \in downlink'
                => Plain(Ctl("SessionResponse", 0)) \in downlink
<1>1. CASE handleSessionRequest
  BY <1>1 DEF handleSessionRequest
<1>2. CASE handleDisconnect \/ Close
  BY <1>2 DEF handleDisconnect, Close
<1>3. CASE SendSoePacketInternal
  <2>1. UNCHANGED <<connected, registered>>
    BY <1>3 DEF SendSoePacketInternal, linkVars
  <2>2. \A p : Plain(Ctl("SessionResponse", 0)) # [packet |-> p, sealed |-> TRUE]
    BY DEF Plain
  <2> QED BY <1>3, <2>1, <2>2 DEF SendSoePacketInternal
<1>4. CASE ~(handleSessionRequest \/ handleDisconnect \/ Close \/ SendSoePacketInternal)
  <2>1. UNCHANGED <<connected, registered, downlink>>
    BY <1>4 DEF Next, Strand, ServiceTimer, HandleMessageInternal, sessionVars, linkVars,
         HandleProtocolMessage, HandleProtocolMessageInternal,
         handleMultiPacket, handleChildDataA, handleDataFragA, handleAckA,
         handleOutOfOrderA, handlePing, handleNetStatsClient, UnhandledOpcode,
         GameMessage, SendTo, Update, SendSequencedMessage, StoreSentMessage
  <2> QED BY <2>1
<1> QED BY <1>1, <1>2, <1>3, <1>4

\* An acknowledgement of a packet that is stored, or is about to be, forgets what precedes
\* it, and no more.
LEMMA AckErases ==
    ASSUME TypeOK, SentIsLatestRun, NumberedInOrder, Len(sequenced) < SeqModulus,
           NEW seq \in Nat, seq = HandlerPacket.seq, Forgotten <= seq, handleAckA
    PROVE  Forgotten' \in Nat /\ Forgotten' <= seq
<1>0. /\ sent \in Seq(Data) /\ Len(sent) \in Nat /\ Len(sequenced) \in Nat
      /\ StoredCount \in Nat /\ StoredCount <= Len(sequenced) /\ Len(sent) <= StoredCount
      /\ DOMAIN sent = 1 .. Len(sent)
  <2>1. /\ sent \in Seq(Data) /\ Len(sent) \in Nat /\ Len(sequenced) \in Nat
        /\ Len(storing) \in Nat /\ DOMAIN sent = 1 .. Len(sent)
    BY LenProperties DEF TypeOK
  <2>2. Len(sent) <= StoredCount /\ StoredCount = Len(sequenced) - Len(storing)
    BY DEF SentIsLatestRun, StoredCount
  <2> QED BY <2>1, <2>2
<1> PICK c \in Nat, m \in Nat : c = StoredCount /\ m = Len(sent)
  BY <1>0
<1>1. StoredCount' = c /\ Forgotten = c - m /\ m <= c
  BY <1>0 DEF handleAckA, sendVars, StoredCount, Forgotten
<1>2. ASSUME NEW i \in 1 .. m PROVE sent[i].seq = c - m + i - 1
  <2>1. sent[i] = sequenced[c - m + i]
    BY <1>0 DEF SentIsLatestRun
  <2>2. c - m + i \in 1 .. Len(sequenced)
    BY <1>0
  <2>3. sequenced[c - m + i].seq = (c - m + i - 1) % SeqModulus
    <3> PICK k \in 1 .. Len(sequenced) : k = c - m + i
      BY <2>2
    <3>1. k \in DOMAIN sequenced
      BY LenProperties DEF TypeOK
    <3>2. sequenced[k].seq = (k - 1) % SeqModulus
      BY <3>1 DEF NumberedInOrder
    <3> QED BY <3>2
  <2>4. c - m + i - 1 \in Nat /\ c - m + i - 1 < SeqModulus
    BY <1>0, <2>2, ConstantsAssumption
  <2> QED BY <2>1, <2>3, <2>4, SmallMod
<1>3. CASE Stored(seq) = {} /\ sent' = <<>>
  <2>1. c <= seq
    <3>1. SUFFICES ASSUME seq < c PROVE FALSE
      OBVIOUS
    <3>2. seq - (c - m) + 1 \in 1 .. m
      BY <1>1, <3>1
    <3>3. sent[seq - (c - m) + 1].seq = seq
      BY <1>2, <3>2
    <3> QED BY <1>0, <1>3, <3>2, <3>3 DEF Stored
  <2>2. Forgotten' = c
    BY <1>1, <1>3 DEF Forgotten
  <2> QED BY <2>1, <2>2
<1>4. ASSUME NEW i \in Stored(seq), sent' = SubSeq(sent, i, Len(sent))
      PROVE  Forgotten' \in Nat /\ Forgotten' <= seq
  <2>1. i \in 1 .. m /\ sent[i].seq = seq
    BY <1>0 DEF Stored
  <2>2. Len(sent') = m - i + 1
    BY <1>0, <1>4, <2>1, SubSeqProperties, ElementOfSeq
  <2>3. Forgotten' = c - (m - i + 1)
    BY <1>1, <2>2 DEF Forgotten
  <2> QED BY <1>2, <2>1, <2>3
<1> QED BY <1>3, <1>4 DEF handleAckA, EraseAcknowledged

LEMMA ForgottenStays ==
    ASSUME TypeOK, [Next]_sessionVars, ~handleAckA
    PROVE  Forgotten' = Forgotten
<1>0. /\ sent \in Seq(Data) /\ storing \in Seq(Data) /\ sequenced \in Seq(Data)
      /\ Len(sent) \in Nat /\ Len(storing) \in Nat /\ Len(sequenced) \in Nat
      /\ Len(storing) <= 1
  BY LenProperties DEF TypeOK
<1>1. CASE SendSequencedMessage
  <2>1. /\ storing = <<>> /\ storing' = <<Numbered>> /\ sent' = sent /\ Numbered \in Data
        /\ sequenced' = Append(sequenced, Numbered)
    BY <1>1, NumberedType
  <2>2. Len(sequenced') = Len(sequenced) + 1 /\ Len(storing) = 0 /\ Len(storing') = 1
    BY <1>0, <2>1, AppendProperties
  <2> QED BY <1>0, <2>1, <2>2 DEF Forgotten, StoredCount
<1>2. CASE StoreSentMessage
  <2>1. sent' = sent \o storing /\ storing' = <<>> /\ sequenced' = sequenced /\ storing # <<>>
    BY <1>2 DEF StoreSentMessage
  <2>2. Len(sent') = Len(sent) + Len(storing) /\ Len(storing') = 0
    BY <1>0, <2>1, ConcatProperties
  <2> QED BY <1>0, <2>1, <2>2 DEF Forgotten, StoredCount
<1>3. CASE ~SendSequencedMessage /\ ~StoreSentMessage
  <2>1. UNCHANGED <<sent, storing, sequenced>>
    BY <1>3 DEF Next, Strand, ServiceTimer, HandleMessageInternal, sessionVars, sendVars,
         ackVars, HandleProtocolMessage, HandleProtocolMessageInternal,
         SendSoePacketInternal, handleSessionRequest, handleMultiPacket, handleChildDataA,
         handleDataFragA, handleOutOfOrderA, handlePing, handleNetStatsClient,
         handleDisconnect, UnhandledOpcode, GameMessage, Close, SendTo, Update
  <2> QED BY <2>1 DEF Forgotten, StoredCount
<1> QED BY <1>1, <1>2, <1>3

\* What a step of the client on an ordered path adds to the queue: an acknowledgement is of
\* the packet before the one it waits for now.
LEMMA ClientQueues ==
    ASSUME ChannelInv, InOrderUplink, Client, TookInv, Len(sequenced) < SeqModulus
    PROVE  /\ UNCHANGED <<uplink, linkVars, sendVars, ackVars, downlink>>
           /\ expected <= expected'
           /\ clientState' = "open" => \/ clientState = "open"
                                       \/ Plain(Ctl("SessionResponse", 0)) \in downlink
           /\ \/ UNCHANGED strand
              \/ \E d \in ClientDatagrams :
                    /\ strand' = Append(strand, Protocol(d))
                    /\ d.packet.op = "AckA" =>
                          clientState = "open" /\ expected' > 0 /\ d.packet.seq = expected' - 1
<1>0. /\ expected \in Nat /\ Len(sequenced) \in Nat /\ expected <= Len(sequenced)
      /\ expected < SeqModulus /\ MaxData \in Nat
  <2>1. expected \in Nat /\ Len(sequenced) \in Nat /\ expected <= Len(sequenced)
    BY LenProperties DEF ChannelInv, ChannelTypeOK, TypeOK, TookInv
  <2> QED BY <2>1, ConstantsAssumption, DatagramFacts
<1>1. ASSUME NEW d \in ClientDatagrams, ClientSends(d)
      PROVE  /\ UNCHANGED <<uplink, linkVars, sendVars, ackVars, downlink>>
             /\ UNCHANGED strand \/ strand' = Append(strand, Protocol(d))
  BY <1>1 DEF ClientSends, HandleProtocolMessage, sessionVars
<1>2. /\ Plain(Ctl("SessionRequest", 0)).packet.op # "AckA"
      /\ Sealed(Ctl("Disconnect", 0)).packet.op # "AckA"
      /\ \A s : Sealed(Ctl("OutOfOrderA", s)).packet.op # "AckA"
      /\ \A s : Sealed(DataPacket(s)).packet.op # "AckA" /\ Sealed(Bundle(s)).packet.op # "AckA"
      /\ \A s : Sealed(Ctl("AckA", s)).packet.seq = s
  BY DEF Sealed, Plain, Ctl, DataPacket, Bundle
<1>3. CASE RequestSession
  BY <1>0, <1>1, <1>2, <1>3, ClientKinds DEF RequestSession
<1>4. CASE SessionOpens \/ DisconnectedByServer \/ \E d \in downlink : ReceiveAck(d)
  BY <1>0, <1>4 DEF SessionOpens, DisconnectedByServer, ReceiveAck, sessionVars
<1>5. CASE SendData
  <2>1. Len(offered) \in 0 .. MaxData - 1
    BY <1>0, <1>5, LenProperties DEF SendData, ChannelInv, ChannelTypeOK
  <2> QED BY <1>0, <1>1, <1>2, <1>5, <2>1, ClientKinds DEF SendData
<1>6. ASSUME NEW n \in 0 .. MaxData - 1, ResendData(n) \/ ResendBundle(n)
      PROVE  \E d \in ClientDatagrams : ClientSends(d) /\ d.packet.op # "AckA"
  <2>1. CASE ResendData(n)
    BY <1>2, <2>1, ClientKinds DEF ResendData
  <2>2. CASE ResendBundle(n)
    <3>1. n \in 0 .. MaxData - 2
      <4>1. n <= Len(offered) - 2 /\ Len(offered) \in Nat /\ Len(offered) <= MaxData
        BY <2>2, LenProperties DEF ResendBundle, ChannelInv, ChannelTypeOK
      <4> QED BY <1>0, <4>1
    <3> QED BY <1>2, <2>2, <3>1, ClientKinds DEF ResendBundle
  <2> QED BY <1>6, <2>1, <2>2
<1>7. CASE \E n \in 0 .. MaxData - 1 : ResendData(n) \/ ResendBundle(n)
  <2>1. UNCHANGED clientVars
    BY <1>7 DEF ResendData, ResendBundle
  <2> QED BY <1>0, <1>1, <1>6, <1>7, <2>1 DEF clientVars
<1>8. ASSUME NEW d \in downlink, ReceiveData(d)
      PROVE  /\ expected <= expected' /\ clientState = "open" /\ clientState' = "open"
             /\ \E e \in ClientDatagrams :
                    /\ ClientSends(e)
                    /\ e.packet.op = "AckA" => expected' > 0 /\ e.packet.seq = expected' - 1
  <2>0. d.packet.seq \in SeqNo /\ clientState = "open" /\ clientState' = "open"
    <3>1. d \in Datagram /\ d.packet.op \in DataOps /\ clientState = "open" /\ clientState' = "open"
      BY <1>8 DEF ReceiveData, ChannelInv, ChannelTypeOK, TypeOK
    <3>2. d.packet \in Packet
      BY <3>1 DEF Datagram
    <3> QED BY <3>1, <3>2 DEF Packet, Simple, Multi, DataOps
  <2>1. CASE /\ d.packet.seq = expected % SeqModulus /\ expected' = expected + 1
             /\ ClientSends(Sealed(Ctl("AckA", d.packet.seq)))
    <3>1. d.packet.seq = expected' - 1 /\ expected' > 0 /\ expected <= expected'
      BY <1>0, <2>1, SmallMod
    <3> QED BY <1>2, <2>0, <2>1, <3>1, ClientKinds
  <2>2. CASE /\ d.packet.seq < expected /\ UNCHANGED expected
             /\ ClientSends(Sealed(Ctl("AckA", (expected - 1) % SeqModulus)))
    <3>1. expected - 1 \in Nat /\ expected - 1 < SeqModulus /\ expected > 0
      BY <1>0, <2>0, <2>2, ConstantsAssumption DEF SeqNo
    <3>2. (expected - 1) % SeqModulus = expected' - 1 /\ expected' > 0
      BY <2>2, <3>1, SmallMod
    <3>3. (expected - 1) % SeqModulus \in SeqNo
      BY <3>1, ModType
    <3> QED BY <1>0, <1>2, <2>0, <2>2, <3>2, <3>3, ClientKinds
  <2>3. CASE UNCHANGED expected /\ ClientSends(Sealed(Ctl("OutOfOrderA", d.packet.seq)))
    BY <1>0, <1>2, <2>0, <2>3, ClientKinds
  <2> QED BY <1>8, <2>1, <2>2, <2>3 DEF ReceiveData
<1>9. CASE \E d \in downlink : ReceiveData(d)
  BY <1>1, <1>8, <1>9
<1>10. CASE Leave
  BY <1>0, <1>1, <1>2, <1>10, ClientKinds DEF Leave
<1> QED BY <1>3, <1>4, <1>5, <1>7, <1>9, <1>10 DEF Client

LEMMA AckShortens ==
    ASSUME strand \in Seq(Handler), handleAckA
    PROVE  Len(strand') < Len(strand) /\ Len(strand) \in Nat
<1>1. strand # <<>> /\ strand' = Tail(strand) \o <<>>
  BY DEF handleAckA, Handles, Runs, Finish
<1>2. /\ Len(strand) \in Nat /\ Tail(strand) \in Seq(Handler)
      /\ Len(Tail(strand)) = Len(strand) - 1
  BY <1>1, HeadTailProperties
<1>3. strand' = Tail(strand)
  BY <1>1, <1>2
<1> QED BY <1>2, <1>3

LEMMA KeptStep ==
    ASSUME ChannelInv, UplinkInv, InOrderUplink, uplink = {}, SentIsLatestRun, OnlySequencedData,
           TookInv, KeptInv, Len(sequenced) < SeqModulus, [ChannelNext]_channelVars
    PROVE  KeptInv'
<1> SUFFICES ASSUME registered' PROVE KeptInv'
  BY DEF KeptInv
<1>0. /\ TypeOK /\ NumberedInOrder /\ [Next]_sessionVars
      /\ strand \in Seq(Handler) /\ expected \in Nat /\ Forgotten \in Nat
      /\ Len(offered) \in Nat /\ expected' \in Nat
  <2>1. Len(sent) \in Nat /\ Len(sequenced) \in Nat /\ Len(storing) \in Nat /\ Len(offered) \in Nat
    BY LenProperties DEF ChannelInv, ChannelTypeOK, TypeOK
  <2>2. Forgotten \in Nat
    BY <2>1 DEF Forgotten, StoredCount, SentIsLatestRun
  <2>3. [Next]_sessionVars /\ ChannelInv'
    BY ChannelStep
  <2> QED BY <2>1, <2>2, <2>3 DEF ChannelInv, ChannelTypeOK, OnlySequencedData, TypeOK
<1>1. /\ registered
      /\ connected => connected'
      /\ ~connected' /\ Plain(Ctl("SessionResponse", 0)) \in downlink'
            => Plain(Ctl("SessionResponse", 0)) \in downlink
  BY <1>0, LinkStep
<1>2. /\ Forgotten = 0 \/ Forgotten < expected
      /\ AcksBetween(strand, Forgotten, expected) /\ AcksInOrder(strand)
      /\ ~connected => /\ clientState # "open"
                       /\ Plain(Ctl("SessionResponse", 0)) \notin downlink
                       /\ \A i \in DOMAIN strand : ~IsAck(strand[i])
  BY <1>1 DEF KeptInv
<1> HIDE DEF KeptInv
<1>3. CASE Server \/ UNCHANGED channelVars
  <2>1. /\ UNCHANGED clientVars
        /\ Strand \/ ServiceTimer \/ Close \/ (\E p \in Payload : SendTo(p)) \/ UNCHANGED sessionVars
    BY <1>3, ServerChoices DEF channelVars
  <2>2. UNCHANGED <<clientState, expected>>
    BY <2>1 DEF clientVars
  <2>3. QueuedFromClient(Len(offered))
    BY DEF UplinkInv
  <2>4. ASSUME Forgotten' \in Nat, Forgotten' = 0 \/ Forgotten' < expected,
               AcksBetween(strand', Forgotten', expected), AcksInOrder(strand'),
               ~connected => \A i \in DOMAIN strand' : ~IsAck(strand'[i])
        PROVE  KeptInv'
    BY <1>1, <1>2, <2>2, <2>4 DEF KeptInv
  <2>5. CASE UNCHANGED strand
    <3>1. ~handleAckA
      BY <1>0, <2>5, AckShortens
    <3>2. Forgotten' = Forgotten
      BY <1>0, <3>1, ForgottenStays
    <3> QED BY <1>0, <1>2, <2>4, <2>5, <3>2
  <2>6. ASSUME NEW h \in Handler, h.run = "send", strand' = Append(strand, h) PROVE KeptInv'
    <3>1. ~handleAckA
      <4>1. Len(strand') = Len(strand) + 1 /\ Len(strand) \in Nat
        BY <1>0, <2>6, AppendProperties
      <4> QED BY <1>0, <4>1, AckShortens
    <3>2. Forgotten' = Forgotten /\ ~IsAck(h)
      BY <1>0, <2>6, <3>1, ForgottenStays DEF IsAck
    <3>3. AcksBetween(strand', Forgotten, expected) /\ AcksInOrder(strand')
      BY <1>0, <1>2, <2>6, <3>2, AcksAppend
    <3>4. ASSUME ~connected, NEW i \in DOMAIN strand' PROVE ~IsAck(strand'[i])
      BY <1>0, <1>2, <2>6, <3>2, <3>4, AppendOrigin DEF Waiting
    <3> QED BY <1>0, <1>2, <2>4, <3>2, <3>3, <3>4
  <2>7. ASSUME strand # <<>>, handleAckA PROVE KeptInv'
    <3>1. /\ Head(strand) = strand[1] /\ 1 \in DOMAIN strand /\ Head(strand) \in Handler
          /\ Head(strand).run = "message" /\ Finish(<<>>)
          /\ <<>> \in Seq(Handler) /\ DOMAIN <<>> = {}
      BY <1>0, <2>7, HeadTailProperties, LenProperties DEF handleAckA, Handles, Runs
    <3>2. IsAck(Head(strand))
      BY <2>7, <3>1 DEF handleAckA, Handles, IsAck, HandlerPacket, Undecoded, Handler, Packet,
         Simple, Multi
    <3>3. /\ Forgotten <= Head(strand).packet.seq /\ Head(strand).packet.seq < expected
          /\ ~Head(strand).sealed /\ Head(strand).packet.seq \in Nat
      BY <1>2, <3>1, <3>2, AckNumber DEF AcksBetween
    <3>4. HandlerPacket.seq = Head(strand).packet.seq
      BY <3>3 DEF HandlerPacket
    <3> PICK seq \in Nat : seq = Head(strand).packet.seq
      BY <3>3
    <3>5. Forgotten' \in Nat /\ Forgotten' <= seq
      BY <1>0, <2>7, <3>3, <3>4, AckErases
    <3> PICK low \in Nat : low = Forgotten'
      BY <3>5
    <3>6. AcksBetween(strand', low, expected) /\ AcksInOrder(strand')
      <4> PICK b \in Int, e \in Int : b = Forgotten /\ e = expected
        BY <1>0
      <4>1. /\ strand \in Seq(Handler) /\ strand # <<>> /\ Finish(<<>>) /\ low \in Int
            /\ AcksBetween(strand, b, e) /\ AcksInOrder(strand)
            /\ IsAck(Head(strand)) /\ Head(strand).run = "message"
            /\ low <= Head(strand).packet.seq
        BY <1>0, <1>2, <2>7, <3>1, <3>2, <3>5
      <4>2. <<>> \in Seq(Handler) /\ \A k \in DOMAIN <<>> : ~IsAck(<<>>[k])
        BY <3>1
      <4>3. AcksBetween(strand', low, e) /\ AcksInOrder(strand')
        BY <4>1, <4>2, AcksFinish
      <4> QED BY <4>3
    <3>7. connected
      BY <1>2, <3>1, <3>2
    <3> QED BY <1>0, <2>4, <3>3, <3>5, <3>6, <3>7
  <2>8. ASSUME strand # <<>>, ~handleAckA, NEW posts \in Seq(Handler), Finish(posts),
               \A k \in DOMAIN posts : ~IsAck(posts[k])
        PROVE  KeptInv'
    <3>1. Forgotten' = Forgotten
      BY <1>0, <2>8, ForgottenStays
    <3>2. AcksBetween(strand', Forgotten, expected) /\ AcksInOrder(strand')
      BY <1>0, <1>2, <2>8, AcksFinish
    <3>3. ASSUME ~connected, NEW i \in DOMAIN strand' PROVE ~IsAck(strand'[i])
      BY <1>0, <1>2, <2>8, <3>3, FinishOrigin DEF Waiting
    <3> QED BY <1>0, <1>2, <2>4, <3>1, <3>2, <3>3
  <2>9. ASSUME strand # <<>>, HandleProtocolMessageInternal, Head(strand).run = "protocol",
               NEW s \in BOOLEAN, s => ~connected, Finish(<<Message(Head(strand).packet, s)>>)
        PROVE  KeptInv'
    <3>1. /\ Head(strand) = strand[1] /\ 1 \in DOMAIN strand /\ Head(strand) \in Handler
          /\ Head(strand).packet \in Packet
      <4>1. Head(strand) = strand[1] /\ 1 \in DOMAIN strand /\ Head(strand) \in Handler
        BY <1>0, <2>9, HeadTailProperties, LenProperties
      <4> QED BY <4>1 DEF Handler
    <3>2. IsAck(Head(strand)) => connected
      BY <1>2, <3>1
    <3>3. ~handleAckA
      BY <2>9 DEF handleAckA, Handles, Runs
    <3>4. Forgotten' = Forgotten
      BY <1>0, <3>3, ForgottenStays
    <3>5. AcksBetween(strand', Forgotten, expected) /\ AcksInOrder(strand')
      BY <1>0, <1>2, <2>9, <3>2, AcksRepost
    <3>6. ASSUME ~connected, NEW i \in DOMAIN strand' PROVE ~IsAck(strand'[i])
      <4> PICK h \in Handler : h = Message(Head(strand).packet, s)
        BY <3>1, PostType
      <4>1. <<h>> \in Seq(Handler) /\ Finish(<<h>>) /\ \A k \in DOMAIN <<h>> : <<h>>[k] = h
        BY <2>9
      <4>2. ~IsAck(h)
        BY <3>2, <3>6, <2>9 DEF IsAck, Message
      <4>3. Waiting(strand'[i]) \/ \E k \in DOMAIN <<h>> : strand'[i] = <<h>>[k]
        BY <1>0, <2>9, <4>1, FinishOrigin
      <4> QED BY <1>2, <3>6, <4>1, <4>2, <4>3 DEF Waiting
    <3> QED BY <1>0, <1>2, <2>4, <3>4, <3>5, <3>6
  <2>10. \/ UNCHANGED strand
         \/ \E h \in Handler : h.run = "send" /\ strand' = Append(strand, h)
         \/ /\ strand # <<>>
            /\ \/ handleAckA
               \/ \E posts \in Seq(Handler) :
                      Finish(posts) /\ \A k \in DOMAIN posts : ~IsAck(posts[k])
               \/ /\ HandleProtocolMessageInternal /\ Head(strand).run = "protocol"
                  /\ \E s \in BOOLEAN :
                        /\ s => ~connected
                        /\ Finish(<<Message(Head(strand).packet, s)>>)
    BY <1>0, <2>1, <2>3, QueueMoves
  <2> QED BY <2>5, <2>6, <2>7, <2>8, <2>9, <2>10
<1>4. CASE Client
  <2>1. /\ UNCHANGED <<linkVars, sendVars, ackVars, downlink>> /\ expected <= expected'
        /\ clientState' = "open" => \/ clientState = "open"
                                    \/ Plain(Ctl("SessionResponse", 0)) \in downlink
    BY <1>4, ClientQueues
  <2>2. Forgotten' = Forgotten /\ connected' = connected /\ downlink' = downlink
    BY <2>1 DEF Forgotten, StoredCount, linkVars, sendVars, ackVars
  <2>3. Forgotten' = 0 \/ Forgotten' < expected'
    BY <1>0, <1>2, <2>1, <2>2
  <2>4. ~connected' => /\ clientState' # "open"
                       /\ Plain(Ctl("SessionResponse", 0)) \notin downlink'
    BY <1>2, <2>1, <2>2
  <2>5. CASE UNCHANGED strand
    <3>1. AcksBetween(strand', Forgotten, expected') /\ AcksInOrder(strand')
      <4>1. ASSUME NEW i \in DOMAIN strand, IsAck(strand[i])
            PROVE  strand[i].packet.seq < expected'
        <5>1. strand[i].packet.seq \in Nat
          BY <1>0, <4>1, AckNumber, ElementOfSeq, LenProperties
        <5> QED BY <1>0, <1>2, <2>1, <4>1, <5>1 DEF AcksBetween
      <4> QED BY <1>2, <2>5, <4>1 DEF AcksBetween
    <3> QED BY <1>2, <2>2, <2>3, <2>4, <2>5, <3>1 DEF KeptInv
  <2>6. ASSUME NEW d \in ClientDatagrams, strand' = Append(strand, Protocol(d)),
               d.packet.op = "AckA" =>
                   clientState = "open" /\ expected' > 0 /\ d.packet.seq = expected' - 1
        PROVE  KeptInv'
    <3> PICK h \in Handler : h = Protocol(d)
      BY DatagramFacts, PostType
    <3>1. h.run = "protocol" /\ h.packet = d.packet
      BY DEF Protocol
    <3>2. IsAck(h) => /\ clientState = "open" /\ h.run = "protocol" /\ Forgotten <= h.packet.seq
                      /\ expected - 1 <= h.packet.seq /\ h.packet.seq < expected'
      BY <1>0, <1>2, <2>1, <2>6, <3>1 DEF IsAck
    <3>3. AcksBetween(strand', Forgotten, expected') /\ AcksInOrder(strand')
      BY <1>0, <1>2, <2>1, <2>6, <3>2, AcksAppend
    <3>4. ASSUME ~connected, NEW i \in DOMAIN strand' PROVE ~IsAck(strand'[i])
      BY <1>0, <1>2, <2>6, <3>2, <3>4, AppendOrigin DEF Waiting
    <3> QED BY <2>2, <2>3, <2>4, <3>3, <3>4 DEF KeptInv
  <2> QED BY <1>4, <2>5, <2>6, ClientQueues
<1>5. ASSUME NEW d \in uplink, Arrive(d) PROVE FALSE
  OBVIOUS
<1> QED BY <1>3, <1>4, <1>5 DEF ChannelNext

LEMMA KeptIsEnough ==
    ASSUME TypeOK, SentIsLatestRun, TookInv, KeptInv
    PROVE  UnacknowledgedAreKept
<1> SUFFICES ASSUME registered, NEW n \in expected + 1 .. StoredCount
             PROVE  \E i \in DOMAIN sent : sent[i] = sequenced[n]
  BY DEF UnacknowledgedAreKept
<1>1. /\ Len(sent) \in Nat /\ DOMAIN sent = 1 .. Len(sent) /\ StoredCount \in Int
      /\ Len(sent) <= StoredCount /\ expected \in Nat
  <2>1. Len(sent) \in Nat /\ Len(sequenced) \in Nat /\ Len(storing) \in Nat
        /\ DOMAIN sent = 1 .. Len(sent) /\ Len(received) \in Nat
    BY LenProperties DEF TypeOK, TookInv
  <2> QED BY <2>1 DEF StoredCount, SentIsLatestRun, TookInv
<1>2. StoredCount - Len(sent) <= expected
  <2>1. Forgotten = 0 \/ Forgotten < expected
    BY DEF KeptInv
  <2>2. Forgotten = StoredCount - Len(sent)
    BY DEF Forgotten
  <2> PICK f \in Int : f = Forgotten
    BY <1>1, <2>2
  <2>3. f = 0 \/ f < expected
    BY <2>1
  <2>4. f <= expected
    BY <1>1, <2>3
  <2> QED BY <2>2, <2>4
<1>3. n - (StoredCount - Len(sent)) \in DOMAIN sent
  BY <1>1, <1>2
<1>4. sent[n - (StoredCount - Len(sent))]
        = sequenced[StoredCount - Len(sent) + (n - (StoredCount - Len(sent)))]
  BY <1>3 DEF SentIsLatestRun
<1>5. StoredCount - Len(sent) + (n - (StoredCount - Len(sent))) = n
  BY <1>1
<1> QED BY <1>3, <1>4, <1>5

\* When the client's datagrams are at most lost, never repeated nor overtaken, and until the
\* sequence numbers run out, everything the client has not taken is in the queue or can be
\* resent: no acknowledgement forgets more than it acknowledges (SendTo, Update,
\* SendSequencedMessage_, handleAckA_).
THEOREM KeptCorrect ==
    InOrderUplink /\ ChannelSpec => [](Len(sequenced) < SeqModulus => NothingIsLost)
<1> DEFINE Took == Len(sequenced) < SeqModulus => TookInv
           Ordered == InOrderUplink /\ uplink = {}
           Kept == Len(sequenced) < SeqModulus => KeptInv
<1>1. InOrderUplink /\ ChannelInit => ChannelInv /\ UplinkInv /\ Ordered /\ Took /\ Kept
  <2> SUFFICES ASSUME ChannelInit PROVE UplinkInv /\ uplink = {} /\ TookInv /\ KeptInv
    BY ChannelInitial
  <2>1. /\ strand = <<>> /\ delivered = <<>> /\ offered = <<>> /\ uplink = {}
        /\ next_client_sequence = 0 /\ clientState = "closed" /\ downlink = {}
        /\ received = <<>> /\ sequenced = <<>> /\ expected = 0 /\ sent = <<>> /\ storing = <<>>
    BY DEF ChannelInit, Init
  <2>2. Len(<<>>) = 0 /\ DOMAIN <<>> = {} /\ 1 .. 0 = {}
    OBVIOUS
  <2>3. Len(sequenced) = 0 /\ Len(storing) = 0 /\ Len(sent) = 0
    BY <2>1, <2>2
  <2>4. Forgotten = 0
    BY <2>3 DEF Forgotten, StoredCount
  <2>5. UplinkInv
    BY <2>1, <2>2 DEF UplinkInv, QueuedFromClient, GivenInOrder
  <2>6. TookInv
    BY <2>1, <2>2 DEF TookInv
  <2>7. KeptInv
    BY <2>1, <2>2, <2>4 DEF KeptInv, AcksBetween, AcksInOrder
  <2> QED BY <2>1, <2>5, <2>6, <2>7
<1>2. Ordered /\ [ChannelNext]_channelVars => Ordered'
  BY DEF ChannelNext, Client, Server, Arrive, ClientSends, RequestSession, SessionOpens,
     SendData, ResendData, ResendBundle, ReceiveAck, ReceiveData, Leave,
     DisconnectedByServer, channelVars
<1>3. ChannelInv /\ UplinkInv /\ [ChannelNext]_channelVars => UplinkInv'
  BY UplinkStep
<1>4. ChannelInv /\ OnlySequencedData /\ Took /\ [ChannelNext]_channelVars => Took'
  BY TookStep
<1>5. /\ ChannelInv /\ UplinkInv /\ Ordered /\ SentIsLatestRun
      /\ OnlySequencedData /\ Took /\ Kept /\ [ChannelNext]_channelVars
      => Kept'
  <2> SUFFICES ASSUME ChannelInv, UplinkInv, InOrderUplink, uplink = {}, SentIsLatestRun,
                      OnlySequencedData, Took, Kept, [ChannelNext]_channelVars,
                      Len(sequenced') < SeqModulus
               PROVE  KeptInv'
    OBVIOUS
  <2>1. Len(sequenced) \in Nat /\ Len(sequenced') \in Nat /\ Len(sequenced) <= Len(sequenced')
    BY ChannelStep, SequencedGrows DEF ChannelInv, ChannelTypeOK, OnlySequencedData
  <2>2. Len(sequenced) < SeqModulus
    BY <2>1, ConstantsAssumption
  <2> QED BY <2>2, KeptStep
<1>6. ChannelInv /\ SentIsLatestRun /\ QueueKeepsEveryMessage /\ Took /\ Kept
          => (Len(sequenced) < SeqModulus => NothingIsLost)
  BY KeptIsEnough DEF NothingIsLost, ChannelInv, ChannelTypeOK
<1> HIDE DEF Took, Ordered, Kept
<1> QED BY <1>1, <1>2, <1>3, <1>4, <1>5, <1>6, ChannelInvCorrect, ChannelIsASession,
           SentRunCorrect, SequencedDataCorrect, QueueCorrect, PTL DEF ChannelSpec
=============================================================================
