------------------------------- MODULE Gateway ------------------------------
(***************************************************************************)
(* The public side of one service (server/internal/gateway): a server for  *)
(* each of its ports accepts TCP connections or HTTP requests, and every   *)
(* one gets a goroutine that picks an endpoint of that port                *)
(* (cluster/model.go).  A TCP connection is forwarded in both directions   *)
(* until one of them ends; a request is answered.  The goroutines of all   *)
(* ports share the round-robin counter of the service without a lock.      *)
(*                                                                         *)
(* The few definitions that no action uses, each before the definition it  *)
(* resembles, are defects that PROJECT.json substitutes to show that a     *)
(* property would notice them.                                             *)
(***************************************************************************)
EXTENDS Naturals, FiniteSets

CONSTANTS
    Port,           \* the container ports that Service.Ports makes public
    NoPort,         \* none of them
    Services,       \* the services that may be configured: Type, LoadBalanceStrategy and
                    \* how many Endpoints each port has, 0 if the map has no such port
    MaxRequest,     \* bounds the connections or requests that are accepted, ...
    MaxConn,        \* ... those of them that are accepted by a TCP service, ...
    MaxServed,      \* ... those that are served at a time, ...
    MaxForwarded    \* ... and those that are forwarded at a time

ASSUME GatewayAssumption ==
    /\ NoPort \notin Port
    /\ \A s \in Services : s.endpoints \in [Port -> Nat]
    /\ {MaxRequest, MaxConn, MaxServed, MaxForwarded} \subseteq Nat \ {0}

VARIABLES
    service,        \* the service
    listener,       \* the public server of each port
    counter,        \* Service.roundRobinCounter
    pc,             \* the goroutine of each accepted connection
    port,           \* the port it was accepted on, until it has picked
    seen,           \* the counter value it read and has not incremented yet
    endpoint,       \* the index of the endpoint it picked and has not dialed yet
    socket,         \* the sockets conn and eConn of each connection
    copier,         \* the io.Copy goroutine that reads from each of the two
    done,           \* how many values are in its channel done
    reply,          \* the status a request was answered with
    base,           \* the counter when the picks under way began to overlap (history)
    group           \* how many picks have overlapped since (history)

history == <<base, group>>
picked == <<counter, port, seen, endpoint, history>>
forwarding == <<socket, copier, done>>
vars == <<service, listener, pc, picked, forwarding, reply>>

Client == 1 .. MaxRequest
Side == {"conn", "eConn"}
Other(s) == IF s = "conn" THEN "eConn" ELSE "conn"
tcp == service.type = "tcp"

Init ==
    /\ service \in Services
    /\ listener = [p \in Port |-> "none"]
    /\ counter = 0
    /\ pc = [c \in Client |-> "none"]
    /\ port = [c \in Client |-> NoPort]
    /\ seen = [c \in Client |-> 0]
    /\ endpoint = [c \in Client |-> 0]
    /\ socket = [c \in Client |-> [s \in Side |-> "none"]]
    /\ copier = [c \in Client |-> [s \in Side |-> "none"]]
    /\ done = [c \in Client |-> 0]
    /\ reply = [c \in Client |-> 0]
    /\ base = 0
    /\ group = 0

GoTo(c, l) == pc' = [pc EXCEPT ![c] = l]

-----------------------------------------------------------------------------
(* The public servers.                                                     *)

\* StartPublicServers, startTcpServer, startHttpServer: a goroutine for each port; a
\* service of another type is an error and gets no server.
Starts ==
    /\ \A p \in Port : listener[p] = "none"
    /\ listener' = [p \in Port |->
                       IF service.type \in {"tcp", "http"} THEN "starting" ELSE "failed"]
    /\ UNCHANGED <<service, pc, picked, forwarding, reply>>

\* A host port that is in use leaves the port without a server.
Listens(p) ==
    /\ listener[p] = "starting"
    /\ \E l \in {"open", "failed"} : listener' = [listener EXCEPT ![p] = l]
    /\ UNCHANGED <<service, pc, picked, forwarding, reply>>

\* "Could not accept connection", or ListenAndServe returns: nothing is accepted on this
\* port from now on.
AcceptFails(p) ==
    /\ listener[p] = "open"
    /\ listener' = [listener EXCEPT ![p] = "failed"]
    /\ UNCHANGED <<service, pc, picked, forwarding, reply>>

Copying(c) == \E s \in Side : copier[c][s] \notin {"none", "gone"}
Served == {c \in Client : pc[c] \notin {"none", "ended", "refused"} \/ Copying(c)}

\* The next one, in the order in which they are accepted.
MayAccept(c) ==
    /\ pc[c] = "none"
    /\ \A x \in Client : x < c => pc[x] # "none"
    /\ tcp => c <= MaxConn
    /\ Cardinality(Served) < MaxServed

Accept(c, p) ==
    /\ listener[p] = "open"
    /\ MayAccept(c)
    /\ socket' = [socket EXCEPT ![c]["conn"] = IF tcp THEN "open" ELSE @]
    /\ port' = [port EXCEPT ![c] = p]
    /\ GoTo(c, "pick")
    /\ UNCHANGED <<service, listener, counter, seen, endpoint, history, copier, done, reply>>

-----------------------------------------------------------------------------
(* PickEndpoint.                                                           *)

Endpoints(p) == service.endpoints[p]

PickRandom(c) ==
    /\ pc[c] = "pick"
    /\ Endpoints(port[c]) > 0 /\ service.strategy = "random"
    /\ \E i \in 0 .. Endpoints(port[c]) - 1 : endpoint' = [endpoint EXCEPT ![c] = i]
    /\ GoTo(c, "dial")
    /\ UNCHANGED <<service, listener, counter, port, seen, history, forwarding, reply>>

\* Round robin reads the counter for the index, and increments it afterwards with
\* another unsynchronised read and write.
RoundRobinIndexPast(n, p) == (n % Endpoints(p)) + 1
RoundRobinIndex(n, p) == n % Endpoints(p)

\* The goroutines between reading the index and having stored the counter.
Picking == {c \in Client : pc[c] \in {"load", "store"}}

PickRoundRobin(c) ==
    /\ pc[c] = "pick"
    /\ Endpoints(port[c]) > 0 /\ service.strategy = "round_robin"
    /\ endpoint' = [endpoint EXCEPT ![c] = RoundRobinIndex(counter, port[c])]
    /\ base' = IF Picking = {} THEN counter ELSE base
    /\ group' = IF Picking = {} THEN 1 ELSE group + 1
    /\ GoTo(c, "load")
    /\ UNCHANGED <<service, listener, counter, port, seen, forwarding, reply>>

LoadCounter(c) ==
    /\ pc[c] = "load"
    /\ seen' = [seen EXCEPT ![c] = counter]
    /\ GoTo(c, "store")
    /\ UNCHANGED <<service, listener, counter, port, endpoint, history, forwarding, reply>>

IncrementedInRange(n, p) == (n + 1) % Endpoints(p)
Incremented(n, p) == n + 1

StoreCounter(c) ==
    /\ pc[c] = "store"
    /\ counter' = Incremented(seen[c], port[c])
    /\ seen' = [seen EXCEPT ![c] = 0]
    /\ GoTo(c, "dial")
    /\ UNCHANGED <<service, listener, port, endpoint, history, forwarding, reply>>

\* Unknown port or strategy: PickEndpoint returns nil, and the connection is closed or
\* the request answered with StatusServiceUnavailable.
PickNone(c) ==
    /\ pc[c] = "pick"
    /\ Endpoints(port[c]) = 0 \/ service.strategy \notin {"random", "round_robin"}
    /\ IF tcp
       THEN socket' = [socket EXCEPT ![c]["conn"] = "closed"] /\ UNCHANGED reply
       ELSE reply' = [reply EXCEPT ![c] = 503] /\ UNCHANGED socket
    /\ port' = [port EXCEPT ![c] = NoPort]
    /\ GoTo(c, "refused")
    /\ UNCHANGED <<service, listener, counter, seen, endpoint, history, copier, done>>

-----------------------------------------------------------------------------
(* forwardHttpReq.                                                         *)

\* The endpoint that was picked is used.
Uses(c) ==
    /\ pc[c] = "dial"
    /\ endpoint' = [endpoint EXCEPT ![c] = 0]
    /\ port' = [port EXCEPT ![c] = NoPort]
    /\ UNCHANGED <<service, listener, counter, seen, history>>

\* http.DefaultClient.Do is given the request that the server received, and refuses any
\* request whose RequestURI is set, as it is in every received one: what the handler
\* does with a response is never reached.
ForwardRequest(c) ==
    /\ Uses(c)
    /\ ~tcp
    /\ reply' = [reply EXCEPT ![c] = 500]
    /\ GoTo(c, "ended")
    /\ UNCHANGED forwarding

-----------------------------------------------------------------------------
(* forwardTcpConn.                                                         *)

\* The endpoint does not answer: the client is closed; no other endpoint is tried.
DialFailsOpen(c) ==
    /\ Uses(c)
    /\ tcp
    /\ GoTo(c, "ended")
    /\ UNCHANGED <<forwarding, reply>>

DialFails(c) ==
    /\ Uses(c)
    /\ tcp
    /\ socket' = [socket EXCEPT ![c]["conn"] = "closed"]
    /\ GoTo(c, "ended")
    /\ UNCHANGED <<copier, done, reply>>

DialSucceeds(c) ==
    /\ Uses(c)
    /\ tcp
    /\ Cardinality({x \in Client : pc[x] = "forward" \/ Copying(x)}) < MaxForwarded
    /\ socket' = [socket EXCEPT ![c]["eConn"] = "open"]
    /\ copier' = [copier EXCEPT ![c] = [s \in Side |-> "reading"]]
    /\ GoTo(c, "forward")
    /\ UNCHANGED <<done, reply>>

\* io.Copy returns: from Read, when its source ended or broke or was closed; from Write,
\* when its destination broke or was closed.  A copier in Write does not notice what
\* becomes of its source, one in Read not what becomes of its destination, and neither
\* has a deadline.
CopyEnds(c, s) ==
    /\ \/ copier[c][s] = "reading" /\ socket[c][s] \in {"ended", "reset", "closed"}
       \/ copier[c][s] = "writing" /\ socket[c][Other(s)] \in {"reset", "closed"}
    /\ copier' = [copier EXCEPT ![c][s] = "signal"]
    /\ UNCHANGED <<service, listener, pc, picked, socket, done, reply>>

\* done <- struct{}{}: the channel has room for both copiers, although only one
\* value is ever received.
HasRoomForNone(c) == pc[c] = "forward" /\ done[c] = 0
HasRoom(c) == done[c] < 2

Signal(c, s) ==
    /\ copier[c][s] = "signal"
    /\ HasRoom(c)
    /\ done' = [done EXCEPT ![c] = @ + 1]
    /\ copier' = [copier EXCEPT ![c][s] = "gone"]
    /\ UNCHANGED <<service, listener, pc, picked, socket, reply>>

\* One direction is done: the deferred functions close both connections.
CloseBoth(c) ==
    /\ pc[c] = "forward"
    /\ done[c] > 0
    /\ done' = [done EXCEPT ![c] = @ - 1]
    /\ socket' = [socket EXCEPT ![c] = [s \in Side |-> "closed"]]
    /\ GoTo(c, "ended")
    /\ UNCHANGED <<service, listener, picked, copier, reply>>

-----------------------------------------------------------------------------
(* The environment: the client and the endpoint, at the other end of conn  *)
(* and of eConn.                                                           *)

\* A peer sends: the copier that reads from it goes on to write to the other one, ...
Arrives(c, s) ==
    /\ socket[c][s] = "open"
    /\ copier[c][s] = "reading"
    /\ copier' = [copier EXCEPT ![c][s] = "writing"]
    /\ UNCHANGED <<service, listener, pc, picked, socket, done, reply>>

\* ... which reads, now or never: the write returns, and the copier reads again.
Drains(c, s) ==
    /\ socket[c][Other(s)] \in {"open", "ended"}
    /\ copier[c][s] = "writing"
    /\ copier' = [copier EXCEPT ![c][s] = "reading"]
    /\ UNCHANGED <<service, listener, pc, picked, socket, done, reply>>

\* A peer ends its side, or the connection to it breaks.
PeerEnds(c, s) ==
    /\ \/ socket[c][s] = "open" /\ socket' = [socket EXCEPT ![c][s] = "ended"]
       \/ socket[c][s] \in {"open", "ended"} /\ socket' = [socket EXCEPT ![c][s] = "reset"]
    /\ UNCHANGED <<service, listener, pc, picked, copier, done, reply>>

-----------------------------------------------------------------------------
Pick(c) ==
    \/ PickRandom(c)
    \/ PickRoundRobin(c)
    \/ LoadCounter(c)
    \/ StoreCounter(c)
    \/ PickNone(c)

Forward(c) ==
    \/ ForwardRequest(c)
    \/ DialFails(c)
    \/ DialSucceeds(c)
    \/ CloseBoth(c)

Copy(c, s) == CopyEnds(c, s) \/ Signal(c, s)

Peer(c, s) == Arrives(c, s) \/ Drains(c, s) \/ PeerEnds(c, s)

\* Every connection was served to its end: the gateway waits for others, if it can.
Quiet ==
    /\ \A p \in Port : listener[p] \in {"open", "failed"}
    /\ Served = {}
    /\ (\E p \in Port : listener[p] = "open") => \A c \in Client : ~MayAccept(c)
    /\ UNCHANGED vars

Next ==
    \/ Starts
    \/ \E p \in Port : Listens(p) \/ AcceptFails(p)
    \/ \E c \in Client :
           \/ \E p \in Port : Accept(c, p)
           \/ Pick(c) \/ Forward(c)
           \/ \E s \in Side : Copy(c, s) \/ Peer(c, s)
    \/ Quiet

Spec == Init /\ [][Next]_vars

\* The goroutines of the gateway run; no peer is obliged to read, to send or to end.
FairSpec ==
    /\ Spec
    /\ \A c \in Client : WF_vars(Pick(c)) /\ WF_vars(Forward(c))
    /\ \A c \in Client, s \in Side : WF_vars(Copy(c, s))

-----------------------------------------------------------------------------
(* Properties.                                                             *)

\* Type invariant; the index of a picked endpoint is one of the port's endpoints, also
\* after picks on a port that has more.
TypeOK ==
    /\ service \in Services
    /\ listener \in [Port -> {"none", "starting", "open", "failed"}]
    /\ counter \in 0 .. MaxRequest
    /\ pc \in [Client -> {"none", "pick", "load", "store", "dial", "forward", "ended",
                          "refused"}]
    /\ port \in [Client -> Port \cup {NoPort}]
    /\ seen \in [Client -> 0 .. MaxRequest]
    /\ endpoint \in [Client -> Nat]
    /\ socket \in [Client -> [Side -> {"none", "open", "ended", "reset", "closed"}]]
    /\ copier \in [Client -> [Side -> {"none", "reading", "writing", "signal", "gone"}]]
    /\ done \in [Client -> 0 .. 2]
    /\ reply \in [Client -> {0, 500, 503}]
    /\ base \in Nat /\ group \in Nat
    /\ \A c \in Client :
           /\ pc[c] \in {"pick", "load", "store", "dial"} => port[c] \in Port
           /\ pc[c] \in {"load", "store", "dial"} => endpoint[c] < Endpoints(port[c])

\* "Ensure both connections get closed": when the goroutine of a connection ends, both
\* sockets are closed, also if no endpoint was found or it could not be dialed; and a
\* request does not end without an answer.
EndedIsClosed ==
    \A c \in Client :
        pc[c] \in {"ended", "refused"} =>
            IF tcp
            THEN socket[c]["conn"] = "closed" /\ socket[c]["eConn"] \in {"none", "closed"}
            ELSE reply[c] # 0

\* Forwarding leaks no goroutine: once a side ends or breaks, the two copiers and the
\* goroutine that waits for them all end, however the ends interleave, unless a peer that
\* does not read holds a copier in its Write for ever (forwarding.go sets no deadline).
NothingLeaks ==
    \A c \in Client :
        pc[c] = "forward" /\ (\E s \in Side : socket[c][s] # "open") ~>
            \/ pc[c] = "ended" /\ \A s \in Side : copier[c][s] = "gone"
            \/ [](copier[c]["conn"] = "writing")
            \/ [](copier[c]["eConn"] = "writing")

\* Picks that overlap, on whatever ports, may take one endpoint twice, lose increments and
\* even set the counter back (PickEndpoint takes no lock), but when the last of them is done,
\* the counter has moved on, and by no more than there were picks: losses neither freeze it
\* nor set it back for good, and a pick that overlaps no other, after whatever losses, moves
\* it on by exactly one (UsesRoundRobinOrder in model_test.go).
PicksMoveOn ==
    [][Picking # {} /\ Picking' = {} => counter' \in base + 1 .. base + group]_vars

=============================================================================
