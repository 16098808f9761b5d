------------------------------ MODULE MCStorage ------------------------------
(* Two questions about what the database keeps, which have no state in        *)
(* common: the fields of an object, in ObjectFields, and the accounts and     *)
(* their characters, in Characters.                                           *)
EXTENDS ObjectFields, Characters

VARIABLE part    \* which of them a behaviour is about

\* A first name, the same with a surname, and one on the lists.
MCName == {<<"Ann", "">>, <<"Ann", "Lee">>, <<"Bad", "">>}
MCRefusal == [n \in CharacterName |-> IF n[1] = "Bad" THEN "profane" ELSE ""]

StorageInit ==
    /\ Init /\ CharactersInit /\ part \in {"fields", "characters"}
    /\ part = "characters" => class = "Intangible"

StorageNext ==
    /\ \/ part = "fields" /\ Next /\ UNCHANGED characterVars
       \/ part = "characters" /\ CharactersNext /\ UNCHANGED vars
    /\ UNCHANGED part

StorageSpec == StorageInit /\ [][StorageNext]_<<vars, characterVars, part>>

Symmetry == Permutations(AccountClient) \cup Permutations(User)
=============================================================================
