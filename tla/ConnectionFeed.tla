--------------------------- MODULE ConnectionFeed ---------------------------
(***************************************************************************)
(* What the playback engine relies on of Reachability, and all RadioPlayer *)
(* models of it: a connection that may change at any time, a notification  *)
(* that is on its way after every change, and the engine's own record,     *)
(* which is written from the connection of that moment.                    *)
(***************************************************************************)
CONSTANT Connections    \* what Reachability.connection may answer, "none" among it

VARIABLES
    ready,         \* FRadioPlayer's initialiser has run
    connection,    \* what Reachability.connection answers now
    isConnected,   \* FRadioPlayer's record of it
    told           \* a notification is queued

vars == <<ready, connection, isConnected, told>>

Init ==
    /\ ready = FALSE
    /\ connection = "none"
    /\ isConnected = FALSE
    /\ told = FALSE

\* The flags change: the notification is sent with it.
Change ==
    /\ connection' \in Connections
    /\ told' = TRUE
    /\ UNCHANGED <<ready, isConnected>>

\* The initialiser ends with its own look at the connection, which may be the
\* first one there is.
Start ==
    /\ ~ready
    /\ ready' = TRUE
    /\ \/ UNCHANGED <<connection, told>>
       \/ connection' \in Connections /\ told' = TRUE
    /\ isConnected' = (connection' # "none")

\* A notification runs, perhaps not the last one.
Notify ==
    /\ ready /\ told
    /\ isConnected' = (connection # "none")
    /\ told' \in BOOLEAN
    /\ UNCHANGED <<ready, connection>>

Next == Change \/ Start \/ Notify

Spec == Init /\ [][Next]_vars
=============================================================================
