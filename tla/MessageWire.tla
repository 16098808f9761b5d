----------------------------- MODULE MessageWire -----------------------------
(***************************************************************************)
(* A message on its way: written into a byte buffer member by member,      *)
(* handed to the handler of its opcode, read there (anh/byte_buffer.cc,    *)
(* BaseSwgMessage, BaseSwgServer::HandleMessage, ObjControllerMessage).    *)
(*                                                                         *)
(* A byte is the k-th of a member's, or a plain number: of a length, a     *)
(* size or a constant.  A number put together from a member's bytes is     *)
(* taken to be larger than any buffer.  The header, two bytes of opcount   *)
(* and the opcode, is left out.                                            *)
(***************************************************************************)
EXTENDS MessageLayouts, SequencesExt, TLC

CONSTANT MaxSize    \* bounds the lengths of texts and of lists

ASSUME WireAssumption == MaxSize \in Nat

VARIABLES
    phase,       \* where the message is
    message,     \* its layout
    texts,       \* the length of its texts and bodies
    lists,       \* the length of its lists
    todo,        \* items still to be written, or to be read
    buffer,      \* data_
    original,    \* the members as they were written
    handler,     \* the layout it is read by
    position,    \* read_position_
    size,        \* the size read last
    copy         \* the members as they were read

wireVars == <<phase, message, texts, lists, todo, buffer, original, handler, position, size, copy>>

Nothing == <<>>
Over == {"new", "handled", "dropped", "overrun"}

Init ==
    /\ phase = "new" /\ message = HeartBeat /\ handler = HeartBeat
    /\ texts = 0 /\ lists = 0 /\ todo = <<>> /\ buffer = <<>> /\ position = 0 /\ size = 0
    /\ original = Nothing /\ copy = Nothing

-----------------------------------------------------------------------------
(* Items: their bytes, the elements they stand for *)

Plain(n) == [of |-> <<>>, at |-> n]
Number(n, width) == [k \in 1 .. width |-> Plain(IF k = 1 THEN n ELSE 0)]
HasValue(item) == item.kind \in {"number", "text", "body"}
Constant(item) == Last(item.of) = "-"

Prefix(item) ==
    CASE item.kind = "text" -> Number(texts, item.width)
      [] item.kind = "list" -> Number(lists, item.width)
      [] item.kind = "size" -> Number(texts + item.extra, item.width)
      [] OTHER -> <<>>

ValueWidth(item, n) ==
    CASE item.kind = "number" -> item.width
      [] item.kind = "text" -> n * item.character
      [] item.kind = "body" -> n
      [] OTHER -> 0

Value(item) ==
    [k \in 1 .. ValueWidth(item, texts) |->
        IF Constant(item) THEN Plain(0) ELSE [of |-> item.of, at |-> k]]

InOrder(item, bytes) ==
    IF item.kind = "number" /\ item.order = "big" THEN Reverse(bytes) ELSE bytes

Keep(members, item, value) ==
    IF HasValue(item) /\ ~Constant(item) THEN item.of :> value @@ members ELSE members

\* The n elements of a list have its name and their place before their own.
Elements(list, n) ==
    FlattenSeq([i \in 1 .. n |-> [j \in DOMAIN list.elements |->
        [list.elements[j] EXCEPT !.of = list.of \o <<i>> \o @]]])

Unfold(item, n) ==
    CASE item.kind = "list" -> Elements(item, n)
      [] item.kind = "some" /\ n > 0 -> item.elements
      [] OTHER -> <<>>

-----------------------------------------------------------------------------
(* Serialize *)

Serialize(m, t, l) ==
    /\ phase \in Over
    /\ phase' = "writing" /\ message' = m /\ handler' = m /\ texts' = t /\ lists' = l
    /\ todo' = m.written /\ buffer' = <<>> /\ position' = 0 /\ size' = 0
    /\ original' = Nothing /\ copy' = Nothing

Write ==
    /\ phase = "writing" /\ todo # <<>>
    /\ LET item == Head(todo)
           value == IF HasValue(item) THEN Value(item) ELSE <<>>
       IN /\ buffer' = buffer \o Prefix(item) \o InOrder(item, value)
          /\ original' = Keep(original, item, value)
          /\ todo' = Unfold(item, IF item.kind = "list" THEN lists ELSE texts) \o Tail(todo)
    /\ UNCHANGED <<phase, message, texts, lists, handler, position, size, copy>>

-----------------------------------------------------------------------------
(* HandleMessage and Deserialize *)

\* One handler is registered for an opcode, and one for a controller's type; of the
\* messages that share it, it may read any.  A session's packets are told apart by
\* theirs in the same way (Session::HandleMessageInternal).
HandleMessage ==
    /\ phase = "writing" /\ todo = <<>>
    /\ \E h \in Layouts :
        /\ h.opcode = message.opcode /\ h.type = message.type
        /\ handler' = h /\ todo' = h.read
    /\ phase' = "reading"
    /\ UNCHANGED <<message, texts, lists, buffer, original, position, size, copy>>

\* The bytes ahead, from the i-th to the j-th; a number made of them.
Ahead(i, j) == SubSeq(buffer, position + i, position + j)
Left == Len(buffer) - position
Huge == 2 ^ 20
NumberAhead(width) ==
    IF \E k \in 1 .. width : Ahead(k, k)[1].of # <<>> \/ (k > 1 /\ Ahead(k, k)[1].at # 0)
    THEN Huge ELSE Ahead(1, 1)[1].at

PrefixWidth(item) == IF item.kind \in {"text", "list", "size"} THEN item.width ELSE 0

\* The length, the number of elements or the size that says how much there is to read.
Length(item) ==
    CASE PrefixWidth(item) > 0 -> NumberAhead(PrefixWidth(item))
      [] item.kind = "body" -> size
      [] OTHER -> 0

\* Every read but a body's throws past the end; of a list each element takes a byte.
Fits(item) ==
    /\ PrefixWidth(item) <= Left
    /\ PrefixWidth(item) + ValueWidth(item, Length(item)) <= Left
    /\ item.kind = "list" => Length(item) <= Left

Read ==
    /\ phase = "reading" /\ todo # <<>> /\ Fits(Head(todo))
    /\ LET item == Head(todo)
           end == PrefixWidth(item) + ValueWidth(item, Length(item))
       IN /\ position' = position + end
          /\ copy' = Keep(copy, item, InOrder(item, Ahead(PrefixWidth(item) + 1, end)))
          /\ size' = IF item.kind # "size" THEN size
                     ELSE IF Length(item) < item.extra THEN Huge ELSE Length(item) - item.extra
          /\ todo' = Unfold(item, Length(item)) \o Tail(todo)
    /\ UNCHANGED <<phase, message, texts, lists, buffer, original, handler>>

\* HandleMessage catches what a read throws; a body is copied from wherever it is.
ReadPastEnd ==
    /\ phase = "reading" /\ todo # <<>> /\ ~Fits(Head(todo))
    /\ phase' = IF Head(todo).kind = "body" THEN "overrun" ELSE "dropped"
    /\ UNCHANGED <<message, texts, lists, todo, buffer, original, handler, position, size, copy>>

Handled ==
    /\ phase = "reading" /\ todo = <<>>
    /\ phase' = "handled"
    /\ UNCHANGED <<message, texts, lists, todo, buffer, original, handler, position, size, copy>>

-----------------------------------------------------------------------------

Next ==
    \/ \E m \in Layouts, t, l \in 0 .. MaxSize : Serialize(m, t, l)
    \/ Write \/ HandleMessage \/ Read \/ ReadPastEnd \/ Handled

Spec == Init /\ [][Next]_wireVars

-----------------------------------------------------------------------------
(* Properties *)

\* What the code is known to get wrong.  Two share their opcode with another message;
\* a size() is written with eight bytes and read with four; a member or a constant is
\* written that is not read, or with another width or byte order; a body is read by a
\* size that is not where it was written; a text is left out, or read as a wider one.
Mangled == {
    AcceptAuctionResponseMessage, BidAuctionResponseMessage,
    CreateAuctionResponseMessage, ItemSoldMessage,
    GetMapLocationsResponseMessage, SurveyMessage, PlayerMatchResults, StartingLocation,
    LoginClusterStatus, CombatActionMessage, EntertainerFlourish,
    UpdateTransformMessage, UpdateTransformWithParentMessage,
    BaselinesMessage, DeltasMessage, LoginClientToken, SessionResponse,
    ChatSystemMessage, ClientCreateCharacter}

\* Every other message arrives as what it is, with each member as it was written, for
\* texts and lists of any length, none too: OnSerialize and OnDeserialize, written
\* apart, name the same members with the same widths in the same order, and no opcode
\* stands for two of them.
SurvivesTheWire ==
    message \notin Mangled =>
        /\ phase \notin {"dropped", "overrun"}
        /\ phase = "handled" => handler = message /\ copy = original
=============================================================================
