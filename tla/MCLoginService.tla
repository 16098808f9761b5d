--------------------------- MODULE MCLoginService ---------------------------
(* A login server and a connection server of one galaxy that is in the table, *)
(* or one server that runs everything and creates its galaxy, with a client.  *)
EXTENDS LoginService

MCName == [a |-> "Bria", b |-> "Bria"]
MCFleets == {[runs |-> [a |-> {"login", "galaxy"}, b |-> {"connection", "galaxy"}], known |-> {"Bria"}],
             [runs |-> [a |-> {}, b |-> Service], known |-> {}]}
MCHome == [c |-> "b"]
=============================================================================
