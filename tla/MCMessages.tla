------------------------------ MODULE MCMessages ------------------------------
(* Every message with texts and lists of up to two, one container with up to  *)
(* three changes between deltas, or what is said to a player in up to two     *)
(* packages: questions about what is sent that have no state in common.       *)
EXTENDS MessageWire, NetworkContainers, OutOfBand

VARIABLE part    \* which of them a behaviour is about

MessagesInit ==
    /\ Init /\ ContainerInit /\ ProseInit
    /\ part \in {"container", "message", "prose"}
    /\ part = "container" \/ container = "list"

MessagesNext ==
    /\ \/ part = "message" /\ Next /\ UNCHANGED <<containerVars, proseVars>>
       \/ part = "container" /\ ContainerNext /\ UNCHANGED <<wireVars, proseVars>>
       \/ part = "prose" /\ ProseNext /\ UNCHANGED <<wireVars, containerVars>>
    /\ UNCHANGED part

messagesVars == <<wireVars, containerVars, proseVars, part>>
MessagesSpec == MessagesInit /\ [][MessagesNext]_messagesVars

\* Nothing is claimed of a container once it has sent a delta that cannot tell its
\* changes, and changes that no delta can tell stay so with any that follow.
StillOrderly == orderly /\ Tellable

\* A file and a label of one character or two; nothing in the code gives the
\* constructor of everything something to put in, or names a type of number.
MCBases == {<<1, 1>>, <<2, 1>>}
MCStfs == {<<0, 0>>, <<1, 2>>}
MCFilled == {[i \in Insert |-> Nobody]}
=============================================================================
