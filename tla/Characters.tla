----------------------------- MODULE Characters -----------------------------
(***************************************************************************)
(* Accounts and their characters: LoginService::HandleLoginClientId_ with  *)
(* the registration of an unknown user, CharacterService, and the          *)
(* providers behind them, which call procedures of two databases over      *)
(* pooled connections.                                                     *)
(*                                                                         *)
(* sp_CharacterCreate opens a transaction and nobody rolls it back when it *)
(* fails: it stays open on a connection that goes back to the pool.  Who   *)
(* is given that connection reads what there was then, and what he writes  *)
(* is kept or lost with the transaction.  The procedures are modelled by   *)
(* their text, the database as repeatable reads with row locks.            *)
(*                                                                         *)
(* A name is a pair, its surname "" if there is none; an id stands for the *)
(* ids of all objects made with a character.  Left out: random names, the  *)
(* number of characters an account may have, which nothing enforces, and a *)
(* connection that breaks.                                                 *)
(***************************************************************************)
EXTENDS Naturals, Sequences, FiniteSets, Functions

CONSTANTS
    AccountClient, User,
    CharacterName,  \* pairs of a first name and a surname
    Refusal,        \* why the lists of names or the syntax refuse a name, "" if they do not
    Connection,     \* database connections; their number bounds the requests at once
    NoOne,
    MaxCharacters,  \* bounds the characters made
    MaxCrashes      \* bounds the crashes

\* What IsNameAllowed and the syntax may answer.
Refusals == {"", "syntax", "profane", "reserved", "fictionally_reserved",
             "racially_inappropriate", "developer"}

ASSUME CharactersAssumption ==
    /\ NoOne \notin User /\ MaxCharacters \in Nat /\ MaxCrashes \in Nat
    /\ Connection # {}
    /\ Refusal \in [CharacterName -> Refusals]
    /\ \A n \in CharacterName : n = <<n[1], n[2]>>

VARIABLES
    registered,     \* account: the users with a row
    players,        \* player_account: the users with a row
    rows,           \* object: id -> name, owner, deleted, as committed
    transaction,    \* of each connection
    pool,           \* the idle connections, in the order they are given out
    handler,        \* what the handler of each client is at, and for what
    created,        \* the characters whose creators were told so
    answer,         \* why the creation just asked for was declined, "created", or ""
    gone,           \* whom the server told that which character is deleted, and how
    crashes

accountVars == <<registered, players>>
databaseVars == <<rows, transaction, pool>>
characterVars == <<accountVars, databaseVars, handler, created, answer, gone, crashes>>

-----------------------------------------------------------------------------
(* Connections and transactions *)

Closed == [open |-> FALSE, read |-> FALSE, seen |-> <<>>, own |-> <<>>, players |-> {}, locks |-> {}]

Held == {handler[c].conn : c \in AccountClient}
Fresh == {d \in Connection : d \notin Held /\ \A i \in DOMAIN pool : pool[i] # d}

\* getConnection: the one that has waited longest, or a new one when there is none.
getConnection(d) == IF pool = <<>> THEN d \in Fresh ELSE d = Head(pool)
Rest == IF pool = <<>> THEN <<>> ELSE Tail(pool)
recycleConnection(d) == pool' = Append(Rest, d)

\* The rows a transaction wrote on top of others.
Over(own, others) ==
    [i \in DOMAIN own \cup DOMAIN others |-> IF i \in DOMAIN own THEN own[i] ELSE others[i]]
Row(id, row) == [i \in {id} |-> row]

\* What a statement reads: the rows, or in a transaction those its first read saw and
\* its own.
View(d) ==
    LET t == transaction[d] IN
    IF t.open THEN Over(t.own, IF t.read THEN t.seen ELSE rows) ELSE rows
AfterRead(d) ==
    LET t == transaction[d] IN IF t.open /\ ~t.read THEN [t EXCEPT !.read = TRUE, !.seen = rows] ELSE t

\* The connection that was made to try the settings when the server started.
registerStorageType == <<CHOOSE d \in Connection : TRUE>>

LockedByAnother(d) == UNION {transaction[e].locks : e \in Connection \ {d}}

-----------------------------------------------------------------------------
(* Logging in *)

Rest0 == [at |-> "rest", account |-> NoOne, user |-> NoOne, name |-> <<>>, conn |-> NoOne,
          checked |-> {}, list |-> {}]
Become(c, h) == handler' = [handler EXCEPT ![c] = h]

Refuse(c) == Become(c, [handler[c] EXCEPT !.at = "rest", !.user = NoOne])

\* The password is right or not; a client that has an account already is only asked
\* whether it is the same.
Authenticate(c, u, right) == IF handler[c].account # NoOne THEN handler[c].account = u ELSE right

\* The session's key and the clusters, then the characters that are not deleted.
GetCharactersForAccount(u, d) == {i \in DOMAIN View(d) : View(d)[i].owner = u /\ ~View(d)[i].deleted}
Admit(c, u) ==
    \E d \in Connection :
        /\ getConnection(d)
        /\ Become(c, [handler[c] EXCEPT !.at = "rest", !.account = u, !.user = NoOne,
                                        !.list = GetCharactersForAccount(u, d)])
        /\ transaction' = [transaction EXCEPT ![d] = AfterRead(d)]
        /\ recycleConnection(d)

AdmitOrRefuse(c, u, right) ==
    \/ Authenticate(c, u, right) /\ Admit(c, u)
    \/ ~Authenticate(c, u, right) /\ Refuse(c) /\ UNCHANGED <<transaction, pool>>

HandleLoginClientId(c, u, right) ==
    /\ handler[c].at = "rest"
    /\ IF u \in registered THEN AdmitOrRefuse(c, u, right)
       ELSE /\ Become(c, [handler[c] EXCEPT !.at = "register", !.user = u])
            /\ UNCHANGED <<transaction, pool>>
    /\ UNCHANGED <<accountVars, rows, created, gone, crashes>>

\* sp_CreateAccount: a user is registered once.
CreateAccount(c) ==
    /\ handler[c].at = "register"
    /\ IF handler[c].user \in registered THEN Refuse(c) /\ UNCHANGED registered
       ELSE /\ registered' = registered \cup {handler[c].user}
            /\ Become(c, [handler[c] EXCEPT !.at = "player"])
    /\ UNCHANGED <<players, databaseVars, created, gone, crashes>>

\* In the other database, where it may fail, or stay in an open transaction.
CreatePlayerAccount(c) ==
    /\ handler[c].at = "player"
    /\ \/ Refuse(c) /\ UNCHANGED <<players, transaction, pool>>
       \/ \E d \in Connection :
            /\ getConnection(d) /\ recycleConnection(d)
            /\ IF transaction[d].open
               THEN /\ transaction' = [transaction EXCEPT ![d].players = @ \cup {handler[c].user}]
                    /\ UNCHANGED players
               ELSE players' = players \cup {handler[c].user} /\ UNCHANGED transaction
            /\ Become(c, [handler[c] EXCEPT !.at = "authenticate"])
    /\ UNCHANGED <<registered, rows, created, gone, crashes>>

AuthenticateRegistered(c) ==
    /\ handler[c].at = "authenticate"
    /\ AdmitOrRefuse(c, handler[c].user, TRUE)
    /\ UNCHANGED <<accountVars, rows, created, gone, crashes>>

-----------------------------------------------------------------------------
(* Creating a character *)

\* Only whole names are compared: a surname hides a first name in use.
NameInUse(name, view) == \E i \in DOMAIN view : view[i].name = <<name[1], "">>

\* The reasons by their codes.  A name in use has code 3, but leaves the procedure
\* before its result is set, and so is answered with code 0.
ErrorCodes == <<"developer", "empty", "fictionally_reserved", "in_use", "internal_error",
    "no_name_generator", "no_template", "not_authorized_for_species",
    "not_creature_template", "not_authorized_for_species", "number", "profane",
    "racially_inappropriate", "reserved", "retry", "syntax", "too_fast",
    "cant_create_avatar">>
setCharacterCreateErrorCode(code) == IF code < 18 THEN ErrorCodes[code + 1] ELSE "internal_error"

Decline(c, reason) ==
    /\ Become(c, [handler[c] EXCEPT !.at = "rest", !.name = <<>>, !.conn = NoOne, !.checked = {}])
    /\ answer' = reason

\* HandleClientCreateCharacter_ as far as sf_CharacterNameInUseCheck, which is outside
\* the transaction.
CheckName(c, name) ==
    /\ handler[c].at = "rest" /\ handler[c].account # NoOne
    /\ IF Refusal[name] # "" THEN Decline(c, Refusal[name]) /\ UNCHANGED <<transaction, pool>>
       ELSE \E d \in Connection :
            /\ getConnection(d)
            /\ transaction' = [transaction EXCEPT ![d] = AfterRead(d)]
            /\ IF NameInUse(name, View(d))
               THEN Decline(c, setCharacterCreateErrorCode(0)) /\ recycleConnection(d)
               ELSE /\ answer' = ""
                    /\ Become(c, [handler[c] EXCEPT !.at = "create", !.name = name, !.conn = d,
                                                    !.checked = DOMAIN View(d)])
                    /\ pool' = Rest
    /\ UNCHANGED <<accountVars, rows, created, gone, crashes>>

Pending == UNION {DOMAIN transaction[d].own : d \in Connection}
NewId(committed) == Cardinality(DOMAIN committed \cup Pending) + 1
LastLocked(d) == Cardinality(DOMAIN rows \cup Pending) \in LockedByAnother(d)
LastOf(committed) == IF committed = <<>> THEN {} ELSE {Cardinality(DOMAIN committed)}

\* START TRANSACTION commits what the connection left open.
Committed(d) == Over(transaction[d].own, rows)
CommittedPlayers(d) == players \cup transaction[d].players
GiveBack(d) == pool' = Append(pool, d)

\* All went well: COMMIT.
Insert(c, d) ==
    LET id == NewId(Committed(d)) IN
    /\ handler[c].account \in CommittedPlayers(d)
    /\ rows' = Over(Row(id, [name |-> handler[c].name, owner |-> handler[c].account, deleted |-> FALSE]),
                    Committed(d))
    /\ transaction' = [transaction EXCEPT ![d] = Closed]
    /\ created' = created \cup {[id |-> id, account |-> handler[c].account, name |-> handler[c].name,
                                 unseen |-> DOMAIN Committed(d) \ handler[c].checked]}
    /\ Decline(c, "created")

\* Without a row in player_account the last insert fails; the object is in the
\* transaction that is left open.
FailAtTheEnd(c, d) ==
    LET id == NewId(Committed(d)) IN
    /\ handler[c].account \notin CommittedPlayers(d)
    /\ rows' = Committed(d)
    /\ transaction' = [transaction EXCEPT ![d] =
            [open |-> TRUE, read |-> TRUE, seen |-> Committed(d), players |-> {}, locks |-> LastOf(Committed(d)) \cup {id},
             own |-> Row(id, [name |-> handler[c].name, owner |-> NoOne, deleted |-> FALSE])]]
    /\ Decline(c, setCharacterCreateErrorCode(4)) /\ UNCHANGED created

\* SELECT MAX(id) ... FOR UPDATE waits for the last row until it gives up.
GiveUp(c, d) ==
    /\ rows' = Committed(d)
    /\ transaction' = [transaction EXCEPT ![d] = [Closed EXCEPT !.open = TRUE]]
    /\ Decline(c, setCharacterCreateErrorCode(4)) /\ UNCHANGED created

CharacterCreate(c) ==
    LET d == handler[c].conn IN
    /\ handler[c].at = "create" /\ Cardinality(DOMAIN rows \cup Pending) < MaxCharacters
    /\ IF LastLocked(d) THEN GiveUp(c, d)
       ELSE Insert(c, d) \/ FailAtTheEnd(c, d)
    /\ players' = CommittedPlayers(d)
    /\ GiveBack(d)
    /\ UNCHANGED <<registered, gone, crashes>>

-----------------------------------------------------------------------------
(* Deleting a character *)

\* The owner as this connection reads it; the mutant asks for an account only.
MayDelete_Anyone(u, id, view) == id \in DOMAIN view /\ view[id].owner # NoOne
MayDelete(u, id, view) == id \in DOMAIN view /\ view[id].owner = u

Latest(d, id) == IF id \in DOMAIN transaction[d].own THEN transaction[d].own[id] ELSE rows[id]
Deleted(row) == [row EXCEPT !.deleted = TRUE]

\* sp_CharacterDelete: the update, which is in the transaction if one is open.
UpdateDeleted(d, id) ==
    IF transaction[d].open
    THEN /\ transaction' = [transaction EXCEPT ![d] = [AfterRead(d) EXCEPT
                !.own = Over(Row(id, Deleted(Latest(d, id))), @), !.locks = @ \cup {id}]]
         /\ UNCHANGED rows
    ELSE rows' = [rows EXCEPT ![id] = Deleted(@)] /\ UNCHANGED transaction

Reply(c, id, d, success) ==
    gone' = IF success
            THEN gone \cup {[account |-> handler[c].account, id |-> id, open |-> transaction[d].open]}
            ELSE gone

\* Whoever asks is told that it is deleted if it is.
DeleteCharacter(c, id, d) ==
    IF ~MayDelete(handler[c].account, id, View(d))
    THEN /\ transaction' = [transaction EXCEPT ![d] = AfterRead(d)] /\ UNCHANGED rows
         /\ Reply(c, id, d, id \in DOMAIN View(d) /\ View(d)[id].deleted)
    ELSE IF id \in LockedByAnother(d)
    THEN /\ transaction' = [transaction EXCEPT ![d] = AfterRead(d)] /\ UNCHANGED rows
         /\ Reply(c, id, d, FALSE)
    ELSE UpdateDeleted(d, id) /\ Reply(c, id, d, TRUE)

HandleDeleteCharacterMessage(c, id) ==
    /\ handler[c].at = "rest" /\ handler[c].account # NoOne
    /\ \E d \in Connection :
        getConnection(d) /\ DeleteCharacter(c, id, d) /\ recycleConnection(d)
    /\ UNCHANGED <<accountVars, handler, created, crashes>>

-----------------------------------------------------------------------------
(* The rest of the server, and behaviours *)

\* Others take a connection, read, and give it back.
UseElsewhere ==
    /\ \E d \in Connection :
        /\ getConnection(d) /\ recycleConnection(d)
        /\ transaction' = [transaction EXCEPT ![d] = AfterRead(d)]
    /\ UNCHANGED <<accountVars, rows, handler, created, gone, crashes>>

\* The server stops, as it also does when a caller finds the pool not empty and then
\* empty and uses no connection.
Crash ==
    /\ crashes < MaxCrashes
    /\ crashes' = crashes + 1
    /\ transaction' = [d \in Connection |-> Closed] /\ pool' = registerStorageType
    /\ handler' = [c \in AccountClient |-> Rest0]
    /\ UNCHANGED <<accountVars, rows, created, gone>>

LogOut(c) ==
    /\ handler[c].at = "rest" /\ handler[c] # Rest0
    /\ handler' = [handler EXCEPT ![c] = Rest0]
    /\ UNCHANGED <<accountVars, databaseVars, created, gone, crashes>>

CharactersInit ==
    /\ registered = {} /\ players = {} /\ rows = <<>>
    /\ transaction = [d \in Connection |-> Closed] /\ pool = registerStorageType
    /\ handler = [c \in AccountClient |-> Rest0]
    /\ created = {} /\ answer = "" /\ gone = {} /\ crashes = 0

Creating(c) ==
    \/ \E name \in CharacterName : CheckName(c, name)
    \/ CharacterCreate(c)

Otherwise(c) ==
    \/ \E u \in User, right \in BOOLEAN : HandleLoginClientId(c, u, right)
    \/ CreateAccount(c) \/ CreatePlayerAccount(c) \/ AuthenticateRegistered(c)
    \/ \E id \in DOMAIN rows : HandleDeleteCharacterMessage(c, id)
    \/ LogOut(c)

CharactersNext ==
    \/ \E c \in AccountClient : Creating(c)
    \/ (\E c \in AccountClient : Otherwise(c)) /\ answer' = ""
    \/ UseElsewhere /\ answer' = ""
    \/ Crash /\ answer' = ""

CharactersSpec == CharactersInit /\ [][CharactersNext]_characterVars

-----------------------------------------------------------------------------
(* Properties *)

\* A character once said to be made is there, with the name and for the account that
\* asked, whatever became of other requests and of the server.
CreatedIsThere ==
    \A x \in created : x.id \in DOMAIN rows /\ rows[x.id].owner = x.account /\ rows[x.id].name = x.name

\* Every other row is left of a creation that failed, and belongs to nobody.
OthersAreOwnedByNoOne ==
    \A i \in DOMAIN rows : (\A x \in created : x.id # i) => rows[i].owner = NoOne

\* Only for its owner is a character deleted; and it is, once its owner was told so
\* on a connection without an open transaction.
DeletedForItsOwner ==
    \A i \in DOMAIN rows :
        /\ rows[i].deleted => \E g \in gone : g.id = i /\ g.account = rows[i].owner
        /\ (\E g \in gone : g.id = i /\ g.account = rows[i].owner /\ ~g.open) => rows[i].deleted

\* Of two with one single name, the later one's check could not see the earlier.
NamesTwiceUnseen ==
    \A x, y \in created : x.id < y.id /\ x.name = y.name /\ x.name[2] = "" => x.id \in y.unseen

\* A list shows characters of its account.
ListsAreOwn ==
    \A c \in AccountClient : \A i \in handler[c].list : i \in DOMAIN rows /\ rows[i].owner = handler[c].account

\* A creation that failed in the database has left its transaction open.
InternalErrorLeavesOpen ==
    answer = "internal_error" => \E d \in Connection : transaction[d].open

(***************************************************************************)
(* Characters are kept for whom they were made: what a client was told was *)
(* created or deleted is so, for its account only, through failed          *)
(* creations whose transactions stay open, races of one name and crashes   *)
(* (CreateCharacter, DeleteCharacter and the connections they share).      *)
(***************************************************************************)
CharactersAreKept ==
    /\ CreatedIsThere /\ OthersAreOwnedByNoOne /\ DeletedForItsOwner
    /\ NamesTwiceUnseen /\ ListsAreOwn /\ InternalErrorLeavesOpen
=============================================================================
