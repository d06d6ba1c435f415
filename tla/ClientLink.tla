----------------------------- MODULE ClientLink -----------------------------
(***************************************************************************)
(* The connection table of one protocol server (protocolserver/server.go): *)
(* ConnectTo, Disconnect, the reconnection loop that every successful      *)
(* ConnectTo starts, the accepted connections, and the receive goroutine   *)
(* of each connection.  One action is one critical section of             *)
(* connectionsMu or one step that another goroutine can observe.           *)
(*                                                                         *)
(* A member of Gen is one call of ConnectTo that got as far as creating    *)
(* its context: the context, its cancel function and the goroutine that    *)
(* serveClientConnection runs share that identity.  The messages a         *)
(* connection carries are the subject of CommandExchange; here a           *)
(* connection is only open, lost or closed.                                *)
(*                                                                         *)
(* The few definitions that no action uses, each just before the           *)
(* definition it resembles, are defects that PROJECT.json substitutes to   *)
(* show that a property would notice them.                                 *)
(***************************************************************************)
EXTENDS FiniteSets

CONSTANTS
    Caller,     \* goroutines of the application that call ConnectTo, Disconnect
    Conn,       \* identities for TCP connections: bounds how many there ever are
    Gen,        \* identities for contexts: bounds the successful ConnectTo calls
    NoConn,     \* nil *connection
    NoGen,      \* nil context.CancelFunc
    Inbound     \* the owner of an accepted connection

ASSUME NilAssumption ==
    /\ NoConn \notin Conn
    /\ NoGen \notin Gen
    /\ Inbound \notin Gen \cup {NoGen}

VARIABLES
    connections,    \* Server.connections: the IDs registered
    clientConn,     \* Server.clientConn
    clientCancel,   \* Server.clientCancel, as the context it cancels
    cancelled,      \* the contexts whose cancel function has run
    link,           \* the TCP state of each connection
    owner,          \* who a connection was made for (history)
    serve,          \* the goroutine in serveConnection(c)
    loop,           \* the goroutine in serveClientConnection of a context
    peer,           \* its variable peer
    call,           \* the ConnectTo or Disconnect call in progress of a caller
    reachable       \* whether the remote server answers a dial

tableVars == <<connections, clientConn, clientCancel, cancelled>>
vars == <<connections, clientConn, clientCancel, cancelled, link, owner, serve,
          loop, peer, call, reachable>>

Idle == [pc |-> "idle", ctx |-> NoGen, previous |-> NoConn]

Init ==
    /\ connections = {}
    /\ clientConn = NoConn
    /\ clientCancel = NoGen
    /\ cancelled = {}
    /\ link = [c \in Conn |-> "fresh"]
    /\ owner = [c \in Conn |-> NoGen]
    /\ serve = [c \in Conn |-> "none"]
    /\ loop = [g \in Gen |-> "unborn"]
    /\ peer = [g \in Gen |-> NoConn]
    /\ call = [k \in Caller |-> Idle]
    /\ reachable = TRUE

-----------------------------------------------------------------------------
(* Helpers shared by the handlers.                                         *)

\* connection.close(): closeOnce makes it idempotent; NoConn is the nil check
\* of the callers.
Close(c) == link' = [d \in Conn |-> IF d = c THEN "closed" ELSE link[d]]

\* net.Dial returned a new connection, for context g.
Dialed(g, c) ==
    /\ link[c] = "fresh"
    /\ link' = [link EXCEPT ![c] = "open"]
    /\ owner' = [owner EXCEPT ![c] = g]
    /\ peer' = [peer EXCEPT ![g] = c]

\* ctx.Err() != nil
Done(g) == g \in cancelled

\* What ConnectTo and Disconnect cancel: clientCancel unless it is nil.
UncheckedCancel == {clientCancel}
NothingCancelled == {}
ContextToCancel == {clientCancel} \ {NoGen}

-----------------------------------------------------------------------------
(* ConnectTo, in the goroutine of caller k.                                *)

\* The dial succeeded and a context was made, before the lock is taken.  (A
\* failed dial returns the error and changes nothing.)
ConnectDial(k, g, c) ==
    /\ call[k].pc = "idle"
    /\ reachable
    /\ loop[g] = "unborn"
    /\ Dialed(g, c)
    /\ loop' = [loop EXCEPT ![g] = "made"]
    /\ call' = [call EXCEPT ![k] = [pc |-> "install", ctx |-> g, previous |-> NoConn]]
    /\ UNCHANGED <<tableVars, serve, reachable>>

\* What ConnectTo deletes from the table: the peer it replaces.
ConnectRemovesNone == {}
ConnectRemoves == {clientConn}

\* The critical section: cancel the previous context, take the previous peer
\* out of the table and put the new one in.
ConnectInstall(k) ==
    LET g == call[k].ctx
    IN  /\ call[k].pc = "install"
        /\ cancelled' = cancelled \cup ContextToCancel
        /\ connections' = (connections \ ConnectRemoves) \cup {peer[g]}
        /\ clientConn' = peer[g]
        /\ clientCancel' = g
        /\ loop' = [loop EXCEPT ![g] = "spawn"]
        /\ call' = [call EXCEPT ![k] =
                        [pc |-> "replace", ctx |-> g, previous |-> clientConn]]
        /\ UNCHANGED <<link, owner, serve, peer, reachable>>

\* previous.close(), after the lock is released.
ConnectClosePrevious(k) ==
    /\ call[k].pc = "replace"
    /\ Close(call[k].previous)
    /\ call' = [call EXCEPT ![k] =
                    [pc |-> "spawn", ctx |-> call[k].ctx, previous |-> NoConn]]
    /\ UNCHANGED <<tableVars, owner, serve, loop, peer, reachable>>

\* go serveClientConnection(ctx, addr, peer); return nil
ConnectSpawn(k) ==
    LET g == call[k].ctx
    IN  /\ call[k].pc = "spawn"
        /\ loop' = [loop EXCEPT ![g] = "serve"]
        /\ serve' = [serve EXCEPT ![peer[g]] = "read"]
        /\ call' = [call EXCEPT ![k] = Idle]
        /\ UNCHANGED <<tableVars, link, owner, peer, reachable>>

-----------------------------------------------------------------------------
(* Disconnect, in the goroutine of caller k.                               *)

\* What Disconnect deletes from the table: only the outbound peer.
DisconnectRemovesAll == connections
DisconnectRemoves == {clientConn}

DisconnectTake(k) ==
    /\ call[k].pc = "idle"
    /\ cancelled' = cancelled \cup ContextToCancel
    /\ clientCancel' = NoGen
    /\ clientConn' = NoConn
    /\ connections' = connections \ DisconnectRemoves
    /\ call' = [call EXCEPT ![k] =
                    [pc |-> "disconnect", ctx |-> NoGen, previous |-> clientConn]]
    /\ UNCHANGED <<link, owner, serve, loop, peer, reachable>>

DisconnectClose(k) ==
    /\ call[k].pc = "disconnect"
    /\ Close(call[k].previous)
    /\ call' = [call EXCEPT ![k] = Idle]
    /\ UNCHANGED <<tableVars, owner, serve, loop, peer, reachable>>

-----------------------------------------------------------------------------
(* serveClientConnection and reconnect, in the goroutine of context g.     *)

\* serveConnection(peer) returned: stop if the context was cancelled.
LoopAfterServe(g) ==
    /\ loop[g] = "serve"
    /\ serve[peer[g]] = "done"
    /\ loop' = [loop EXCEPT ![g] = IF Done(g) THEN "done" ELSE "delay"]
    /\ UNCHANGED <<tableVars, link, owner, serve, peer, call, reachable>>

\* The select of reconnect.  Either branch may run when both are ready; the
\* length of the delay (1 s doubling to 30 s) is abstracted.
DelayCancelled(g) ==
    /\ loop[g] = "delay"
    /\ Done(g)
    /\ loop' = [loop EXCEPT ![g] = "done"]
    /\ UNCHANGED <<tableVars, link, owner, serve, peer, call, reachable>>

DelayElapsed(g) ==
    /\ loop[g] = "delay"
    /\ loop' = [loop EXCEPT ![g] = "dial"]
    /\ UNCHANGED <<tableVars, link, owner, serve, peer, call, reachable>>

RedialGivesUp(g) ==
    /\ loop[g] = "dial"
    /\ ~reachable \/ Done(g)
    /\ loop' = [loop EXCEPT ![g] = "done"]
    /\ UNCHANGED <<tableVars, link, owner, serve, peer, call, reachable>>

\* DialContext failed: the server is away, or the context was cancelled.
RedialFails(g) ==
    /\ loop[g] = "dial"
    /\ ~reachable \/ Done(g)
    /\ loop' = [loop EXCEPT ![g] = IF Done(g) THEN "done" ELSE "delay"]
    /\ UNCHANGED <<tableVars, link, owner, serve, peer, call, reachable>>

\* DialContext succeeded, possibly in a race with a cancellation.
RedialSucceeds(g, c) ==
    /\ loop[g] = "dial"
    /\ reachable
    /\ Dialed(g, c)
    /\ loop' = [loop EXCEPT ![g] = "install"]
    /\ UNCHANGED <<tableVars, serve, call, reachable>>

\* "A replaced retry loop must never overwrite the new outbound peer": the
\* context is checked again under the lock.
MayInstallAlways(g) == TRUE
MayInstall(g) == ~Done(g)

Install(g) ==
    /\ loop[g] = "install"
    /\ MayInstall(g)
    /\ clientConn' = peer[g]
    /\ connections' = connections \cup {peer[g]}
    /\ loop' = [loop EXCEPT ![g] = "serve"]
    /\ serve' = [serve EXCEPT ![peer[g]] = "read"]
    /\ UNCHANGED <<clientCancel, cancelled, link, owner, peer, call, reachable>>

InstallRefusedLeaks(g) ==
    /\ loop[g] = "install"
    /\ ~MayInstall(g)
    /\ loop' = [loop EXCEPT ![g] = "done"]
    /\ UNCHANGED <<tableVars, link, owner, serve, peer, call, reachable>>

InstallRefused(g) ==
    /\ loop[g] = "install"
    /\ ~MayInstall(g)
    /\ Close(peer[g])
    /\ loop' = [loop EXCEPT ![g] = "done"]
    /\ UNCHANGED <<tableVars, owner, serve, peer, call, reachable>>

-----------------------------------------------------------------------------
(* Accepted connections, and serveConnection for every connection.         *)

\* handleConnection: register an accepted connection and start serving it.
HandleConnection(c) ==
    /\ link[c] = "fresh"
    /\ link' = [link EXCEPT ![c] = "open"]
    /\ owner' = [owner EXCEPT ![c] = Inbound]
    /\ connections' = connections \cup {c}
    /\ serve' = [serve EXCEPT ![c] = "read"]
    /\ UNCHANGED <<clientConn, clientCancel, cancelled, loop, peer, call, reachable>>

\* handleMessage returned true and the deferred function closed the peer:
\* because the read failed ...
ServeStops(c) ==
    /\ serve[c] = "read"
    /\ link[c] # "open"
    /\ Close(c)
    /\ serve' = [serve EXCEPT ![c] = "unregister"]
    /\ UNCHANGED <<tableVars, owner, loop, peer, call, reachable>>

\* ... or because the peer sent a frame of an invalid length, or an answer
\* could not be written.
ServeRejects(c) ==
    /\ serve[c] = "read"
    /\ link[c] = "open"
    /\ Close(c)
    /\ serve' = [serve EXCEPT ![c] = "unregister"]
    /\ UNCHANGED <<tableVars, owner, loop, peer, call, reachable>>

\* The slot is given up only by the connection that holds it.
SlotAfter(c) == IF clientConn = c THEN NoConn ELSE clientConn

UnregisterForgets(c) ==
    /\ serve[c] = "unregister"
    /\ clientConn' = SlotAfter(c)
    /\ serve' = [serve EXCEPT ![c] = "done"]
    /\ UNCHANGED <<connections, clientCancel, cancelled, link, owner, loop, peer,
                   call, reachable>>

\* The critical section of the deferred function of serveConnection.
Unregister(c) ==
    /\ serve[c] = "unregister"
    /\ connections' = connections \ {c}
    /\ clientConn' = SlotAfter(c)
    /\ serve' = [serve EXCEPT ![c] = "done"]
    /\ UNCHANGED <<clientCancel, cancelled, link, owner, loop, peer, call, reachable>>

-----------------------------------------------------------------------------
(* The environment: the network and the remote server.                     *)

\* The TCP connection breaks; the reader finds out later.
Lose(c) ==
    /\ link[c] = "open"
    /\ link' = [link EXCEPT ![c] = "lost"]
    /\ UNCHANGED <<tableVars, owner, serve, loop, peer, call, reachable>>

ServerComesOrGoes ==
    /\ reachable' = ~reachable
    /\ UNCHANGED <<tableVars, link, owner, serve, loop, peer, call>>

-----------------------------------------------------------------------------
CallStep(k) ==
    \/ ConnectInstall(k)
    \/ ConnectClosePrevious(k)
    \/ ConnectSpawn(k)
    \/ DisconnectClose(k)

LoopStep(g) ==
    \/ LoopAfterServe(g)
    \/ DelayCancelled(g)
    \/ DelayElapsed(g)
    \/ RedialFails(g)
    \/ \E c \in Conn : RedialSucceeds(g, c)
    \/ Install(g)
    \/ InstallRefused(g)

ServeStep(c) == ServeStops(c) \/ Unregister(c)

Next ==
    \/ \E k \in Caller, g \in Gen, c \in Conn : ConnectDial(k, g, c)
    \/ \E k \in Caller : DisconnectTake(k) \/ CallStep(k)
    \/ \E g \in Gen : LoopStep(g)
    \/ \E c \in Conn : ServeStep(c) \/ ServeRejects(c) \/ HandleConnection(c) \/ Lose(c)
    \/ ServerComesOrGoes

Spec == Init /\ [][Next]_vars

\* Every goroutine of the program keeps running; nothing obliges the callers to
\* call, the network to lose anything or the remote server to be there.
Fairness ==
    /\ \A k \in Caller : WF_vars(CallStep(k))
    /\ \A g \in Gen : WF_vars(LoopStep(g))
    /\ \A c \in Conn : WF_vars(ServeStep(c))

FairSpec == Spec /\ Fairness

-----------------------------------------------------------------------------
(* Properties.                                                             *)

CallType ==
    [pc : {"idle", "install", "replace", "spawn", "disconnect"},
     ctx : Gen \cup {NoGen}, previous : Conn \cup {NoConn}]

\* Type invariant of the server's fields and of its goroutines' locals
\* (Server, connection and the variables of reconnect).
TypeOK ==
    /\ connections \subseteq Conn
    /\ clientConn \in Conn \cup {NoConn}
    /\ clientCancel \in Gen \cup {NoGen}
    /\ cancelled \subseteq Gen
    /\ link \in [Conn -> {"fresh", "open", "lost", "closed"}]
    /\ owner \in [Conn -> Gen \cup {NoGen, Inbound}]
    /\ serve \in [Conn -> {"none", "read", "unregister", "done"}]
    /\ loop \in [Gen -> {"unborn", "made", "spawn", "serve", "delay", "dial",
                         "install", "done"}]
    /\ peer \in [Gen -> Conn \cup {NoConn}]
    /\ call \in [Caller -> CallType]
    /\ reachable \in BOOLEAN

\* The contexts that have been in clientCancel.
Started == {g \in Gen : loop[g] \notin {"unborn", "made"}}

\* The connection SendCmd takes from clientConn is registered and belongs to the
\* session whose cancel function the server holds: a retry loop that Disconnect
\* or another ConnectTo replaced never overwrites the slot (comment of reconnect).
SlotOwned ==
    clientConn # NoConn =>
        /\ clientConn \in connections
        /\ owner[clientConn] = clientCancel
        /\ clientCancel \notin cancelled

\* At most one reconnection loop can still reconnect, and it is the one whose
\* cancel function the server holds; Disconnect and ConnectTo can stop it.
OneLiveLoop == Started \ cancelled = {clientCancel} \ {NoGen}

\* The table never holds an outbound connection besides the one in the slot, so
\* that SendCmdTo cannot reach a replaced server.
OneOutbound == \A c \in connections : owner[c] = Inbound \/ c = clientConn

\* The goroutines that still have to install or close connection c.
Committed(c) ==
    \/ \E k \in Caller : call[k].previous = c
    \/ \E g \in Gen : peer[g] = c /\ loop[g] \in {"made", "install"}

\* No outbound socket is forgotten: one that is not closed is in the slot, or a
\* goroutine is on its way to install it or to close it.
NoForgottenSocket ==
    \A c \in Conn :
        owner[c] \in Gen /\ link[c] \in {"open", "lost"} =>
            c = clientConn \/ Committed(c)

\* "Accepted connections are unaffected" (comment of Disconnect): an accepted
\* connection leaves the table only by its own receive goroutine.
AcceptedUnaffected ==
    [][\A c \in Conn :
         owner[c] = Inbound /\ c \in connections /\ c \notin connections' =>
             serve[c] = "unregister"]_vars

\* Every retired session comes to rest: its loop ends and no socket it dialed
\* stays open, however dial, timer, install and cancellation interleave.
SessionAtRest(g) ==
    /\ loop[g] = "done"
    /\ \A c \in Conn : owner[c] = g => link[c] = "closed" /\ c \notin connections

RetiredComesToRest == \A g \in Gen : g \in cancelled ~> []SessionAtRest(g)

\* A connection that broke or was closed does not stay in the table.
LostIsUnregistered ==
    \A c \in Conn : link[c] \in {"lost", "closed"} ~> c \notin connections

\* Once the server stays reachable and as long as identities remain, a session
\* that is not replaced has a connection again and again (reconnect retries for
\* ever).
Reconnects ==
    <>[]reachable =>
        \A g \in Gen :
            []<>(\/ clientCancel # g
                 \/ clientConn # NoConn
                 \/ \A c \in Conn : link[c] # "fresh")

\* The promise of the outbound link, with the slot and the cancel function as
\* its abstract state.
Outbound == INSTANCE OutboundLink WITH
    session <- clientCancel, link <- clientConn, retired <- cancelled

\* The connection table implements the abstract outbound link.
ImplementsOutboundLink == Outbound!Spec

=============================================================================
