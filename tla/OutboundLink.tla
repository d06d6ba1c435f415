---------------------------- MODULE OutboundLink ----------------------------
(***************************************************************************)
(* What the protocol server promises about its single outbound link        *)
(* (ConnectTo, Disconnect and the automatic reconnection of                *)
(* protocol/pkg/protocolserver), with every goroutine and lock left out.   *)
(*                                                                         *)
(* A session begins with a successful ConnectTo and ends for good when     *)
(* Disconnect or another ConnectTo replaces it.  While a session is        *)
(* running its link may drop and be restored.  A link never exists outside *)
(* a session, and a retired session never comes back.                      *)
(***************************************************************************)
CONSTANTS Conn, Gen, NoConn, NoGen

VARIABLES
    session,   \* the running session, or NoGen
    link,      \* the connection that SendCmd uses, or NoConn
    retired    \* the sessions that have ended

vars == <<session, link, retired>>

Ended == retired \cup ({session} \ {NoGen})

Init ==
    /\ session = NoGen
    /\ link = NoConn
    /\ retired = {}

\* A successful ConnectTo: a new session, already linked, ends the old one.
Connect(g, c) ==
    /\ g \notin Ended
    /\ session' = g
    /\ link' = c
    /\ retired' = Ended

\* Disconnect ends the running session, if there is one.
Disconnect ==
    /\ session' = NoGen
    /\ link' = NoConn
    /\ retired' = Ended

\* The connection of the running session is lost.
Drop ==
    /\ link # NoConn
    /\ link' = NoConn
    /\ UNCHANGED <<session, retired>>

\* The running session reconnects.
Restore(c) ==
    /\ session # NoGen
    /\ link = NoConn
    /\ link' = c
    /\ UNCHANGED <<session, retired>>

Next ==
    \/ \E g \in Gen, c \in Conn : Connect(g, c)
    \/ Disconnect
    \/ Drop
    \/ \E c \in Conn : Restore(c)

Spec == Init /\ [][Next]_vars

=============================================================================
