------------------------------ MODULE OutOfBand ------------------------------
(***************************************************************************)
(* What the server says to a player: system messages with the attachment   *)
(* of prose packages the client makes its text from (messages/out_of_band) *)
(* and fly texts (ObjectController).                                       *)
(*                                                                         *)
(* A text is its length.  A prose package has a text to show, base, and    *)
(* three things to put into it: TU, TT and TO, each an object, a text of   *)
(* the client's files or a text of the server's.  The client reads an      *)
(* attachment as one wide text, so its size must be told in characters.    *)
(***************************************************************************)
EXTENDS Naturals, Sequences

CONSTANTS
    MaxText,        \* bounds the lengths of texts
    MaxPackages,    \* bounds the packages of an attachment
    Bases, Stfs,    \* texts of the client's files, a file and a label each
    Filled,         \* what the constructor of everything is given to put in
    Types,          \* the values of ProseType a caller names
    Shade           \* components of a colour

Insert == {"TU", "TT", "TO"}

ASSUME ProseAssumption ==
    /\ MaxText \in Nat /\ MaxPackages \in Nat
    /\ Bases \cup Stfs \subseteq Nat \X Nat
    /\ Filled \subseteq [Insert -> [id : Nat, file : Nat, label : Nat, text : Nat]]
    /\ Types \subseteq {"TU", "TT", "TO", "DI", "DF"}
    /\ Shade \subseteq 0 .. 255

VARIABLES
    package,    \* the attachment: its packages, the size of its data, its count and length
    called,     \* the packages its callers asked for
    spoken,     \* the texts of the system message just sent, <<>> for none
    flown       \* the fly text just sent: what was asked and what was sent, <<>> for none

proseVars == <<package, called, spoken, flown>>

-----------------------------------------------------------------------------
(* Packages *)

Nobody == [id |-> 0, file |-> 0, label |-> 0, text |-> 0]
WithObject(id) == [Nobody EXCEPT !.id = id]
Stf(file, label) == [Nobody EXCEPT !.file = file, !.label = label]
Custom(text) == [Nobody EXCEPT !.text = text]

Prose(base, into, display) == [base |-> base, into |-> into, display |-> display]

\* A ProsePackage of its own leaves its display flag as the memory was.
ProsePackage(base) == {Prose(base, [i \in Insert |-> Nobody], d) : d \in BOOLEAN}

Total(f) == f["TU"] + f["TT"] + f["TO"]
NarrowCharacters(p) == p.base[1] + p.base[2] + Total([i \in Insert |-> p.into[i].file + p.into[i].label])
WideCharacters(p) == Total([i \in Insert |-> p.into[i].text])

\* The bytes of a package: 13 with the base, 20 with each insert, 9 after them, and
\* one to fill the last character when the narrow texts leave it half.  The mutant
\* leaves it half.
PackageSize_Unpadded(p) == 13 + 3 * 20 + 9 + NarrowCharacters(p) + 2 * WideCharacters(p)

PackageSize(p) == 13 + 3 * 20 + 9 + NarrowCharacters(p) + (NarrowCharacters(p) % 2) + 2 * WideCharacters(p)

-----------------------------------------------------------------------------
(* The attachment *)

Characters(size) == (size - 4) \div 2
Bare == [packages |-> <<>>, size |-> 6, count |-> 0, length |-> 2]

AddProse(a, p) ==
    LET size == a.size + PackageSize(p) IN
    [packages |-> Append(a.packages, p), size |-> size, count |-> a.count + 1, length |-> Characters(size)]

Take(asked, given) ==
    /\ called' = Append(called, asked)
    /\ package' = AddProse(package, given)
    /\ spoken' = <<>> /\ flown' = <<>>

\* The overloads of AddProsePackage, and of the constructor, which calls them.
AddProsePackage(base, into, d) == Take(Prose(base, into, d), Prose(base, into, d))

AddObjects(base, ids, d) == AddProsePackage(base, [i \in Insert |-> WithObject(ids[i])], d)
AddStfs(base, stfs, d) == AddProsePackage(base, [i \in Insert |-> Stf(stfs[i][1], stfs[i][2])], d)
AddTexts(base, texts, d) == AddProsePackage(base, [i \in Insert |-> Custom(texts[i])], d)

\* The constructor of everything passes what it is given for TU three times over.
ConstructFull(base, into, d) ==
    /\ package = Bare
    /\ Take(Prose(base, into, d), Prose(base, [i \in Insert |-> into["TU"]], d))

Only(type, what) == [i \in Insert |-> IF i = type THEN what ELSE Nobody]
ForType(type) == IF type \in Insert THEN type ELSE "TT"

ConstructObject(base, type, id, d) ==
    /\ package = Bare
    /\ Take(Prose(base, Only(type, WithObject(id)), d), Prose(base, Only(ForType(type), WithObject(id)), d))

ConstructText(base, type, text, d) ==
    /\ package = Bare
    /\ Take(Prose(base, Only(type, Custom(text)), d), Prose(base, Only(type, Custom(text)), d))

AddBare(base) == \E p \in ProsePackage(base) : Take(p, p)

-----------------------------------------------------------------------------
(* System messages and fly texts *)

\* A text on the wire: the characters it says it has and those that follow.
Said(n) == [length |-> n, follow |-> n]
Attached(a) == [length |-> a.length, follow |-> Characters(a.size)]

\* ChatSystemMessage writes its text only when it has one, and an empty text before
\* the attachment; an attachment always has a length.
SystemTexts(text, a) ==
    (IF text > 0 THEN <<Said(text), Said(0)>> ELSE <<>>) \o <<Said(0), Attached(a)>>

SendSystemMessage(text) ==
    /\ text = 0 => package # Bare
    /\ spoken' = SystemTexts(text, IF text > 0 THEN Bare ELSE package)
    /\ package' = Bare /\ called' = <<>> /\ flown' = <<>>

Colour == {"RED", "GREEN", "BLUE", "WHITE", "MIX"}
Component == <<"RED", "GREEN", "BLUE">>

\* A component that no case assigns is what the memory held.
SendFlyText(colour, mix, display) ==
    /\ \E memory \in [1 .. 3 -> Shade] :
        flown' = [colour |-> colour, mix |-> mix, display |-> display,
                  sent |-> [i \in 1 .. 3 |->
                      CASE colour = "MIX" -> mix[i]
                        [] colour = "WHITE" \/ colour = Component[i] -> 255
                        [] OTHER -> memory[i]],
                  history |-> IF display THEN 0 ELSE 1]
    /\ package' = Bare /\ called' = <<>> /\ spoken' = <<>>

-----------------------------------------------------------------------------
(* Behaviours *)

ProseInit == package = Bare /\ called = <<>> /\ spoken = <<>> /\ flown = <<>>

AddAny(base, d) ==
    \/ \E ids \in [Insert -> {0, 1}] : AddObjects(base, ids, d)
    \/ \E stfs \in [Insert -> Stfs] : AddStfs(base, stfs, d)
    \/ \E texts \in [Insert -> 0 .. MaxText] : AddTexts(base, texts, d)
    \/ \E into \in Filled : ConstructFull(base, into, d)
    \/ \E type \in Types : ConstructObject(base, type, 1, d)
    \/ \E type \in Types, text \in 0 .. MaxText : ConstructText(base, type, text, d)

ProseNext ==
    \/ /\ package.count < MaxPackages
       /\ \E base \in Bases :
            AddBare(base) \/ \E d \in BOOLEAN : AddAny(base, d)
    \/ \E text \in 0 .. MaxText : SendSystemMessage(text)
    \/ \E colour \in Colour, mix \in [1 .. 3 -> Shade], d \in BOOLEAN : SendFlyText(colour, mix, d)

ProseSpec == ProseInit /\ [][ProseNext]_proseVars

\* No caller gives the constructor of everything different things to put in, nor the
\* others a type of number: the first would be put in three times over, the second as TT.
AskedAsWritten ==
    /\ \A into \in Filled : \A i \in Insert : into[i] = into["TU"]
    /\ Types \subseteq Insert

-----------------------------------------------------------------------------
(* Properties *)

(***************************************************************************)
(* What a player is told is whole and goes where its caller put it: each   *)
(* package stands in the attachment with every insert at its target, the   *)
(* length the client reads covers the data exactly, whatever the texts add *)
(* up to, the two wide texts of a system message are as long as they say,  *)
(* and a fly text has its colour wherever its case decides it              *)
(* (AddProsePackage with its padding, SetLength_, ChatSystemMessage and    *)
(* the switches over ProseType and FlyTextColor).                          *)
(***************************************************************************)
ProseIsWhole ==
    /\ package.packages = called /\ package.count = Len(called)
    /\ called # <<>> => 4 + 2 * package.length = package.size
    /\ spoken # <<>> => \A i \in 1 .. 2 : spoken[i].length = spoken[i].follow
    /\ flown # <<>> /\ flown.colour = "MIX" => flown.sent = flown.mix
    /\ flown # <<>> => \A i \in 1 .. 3 : flown.colour \in {"WHITE", Component[i]} => flown.sent[i] = 255
=============================================================================
