---------------------------- MODULE Gateway_proofs --------------------------
(***************************************************************************)
(* Proofs about Gateway, for any number of connections and of ports, and   *)
(* any services with any number of endpoints.                              *)
(***************************************************************************)
EXTENDS Gateway, FiniteSetTheorems, TLAPS

-----------------------------------------------------------------------------
(* The inductive invariant.                                                *)

\* How many copiers of c have put their value into the channel.
Signalled(c) ==
    (IF copier[c]["conn"] = "gone" THEN 1 ELSE 0)
        + (IF copier[c]["eConn"] = "gone" THEN 1 ELSE 0)

NoCopier(c) == done[c] = 0 /\ \A s \in Side : copier[c][s] = "none"

\* A socket that the gateway has not closed; its peer may have.
Kept == {"open", "ended", "reset"}

\* Before forwarding: the client's socket, if the service is a TCP one, is not closed, and
\* nothing else exists yet.
Early(c) ==
    /\ socket[c]["eConn"] = "none"
    /\ NoCopier(c)
    /\ IF pc[c] # "none" /\ tcp THEN socket[c]["conn"] \in Kept
       ELSE socket[c]["conn"] = "none"

\* While it is forwarded, the channel holds what was signalled; nobody but the goroutine
\* of the connection closes a socket.
Forwarded(c) ==
    /\ tcp
    /\ \A s \in Side : socket[c][s] \in Kept /\ copier[c][s] # "none"
    /\ done[c] = Signalled(c)

\* Afterwards one value was received, if there was a forwarding.
Over(c) ==
    \/ NoCopier(c) /\ socket[c]["eConn"] = "none"
    \/ /\ socket[c]["eConn"] = "closed"
       /\ \A s \in Side : copier[c][s] # "none"
       /\ done[c] + 1 = Signalled(c)

Positions ==
    \A c \in Client :
        /\ pc[c] \in {"none", "pick", "load", "store", "dial"} => Early(c)
        /\ pc[c] = "forward" => Forwarded(c)
        /\ pc[c] \in {"ended", "refused"} => Over(c)

\* The connections that have an endpoint and have left PickEndpoint: no count exceeds
\* their number, however many increments were lost.
Stored == {c \in Client : pc[c] \in {"dial", "forward", "ended"}}

CountedPicks ==
    /\ counter <= Cardinality(Stored)
    /\ \A c \in Client : seen[c] <= Cardinality(Stored)

\* While picks overlap, the counter, and what was read of it, is as far from where they
\* began as the number of those that have stored it allows.
InGroup(stored) ==
    /\ group = stored + Cardinality(Picking)
    /\ counter \in base .. base + stored
    /\ \A c \in Client : pc[c] = "store" => seen[c] \in base .. base + stored

GroupCounted == Picking # {} => \E stored \in Nat : InGroup(stored)

IInv == TypeOK /\ Positions /\ EndedIsClosed /\ CountedPicks /\ GroupCounted

-----------------------------------------------------------------------------
(* Arithmetic and sets.                                                    *)

LEMMA ClientFinite == IsFiniteSet(Client) /\ Cardinality(Client) = MaxRequest
  BY FS_Interval, GatewayAssumption DEF Client

LEMMA EndpointsOfPort ==
  ASSUME TypeOK, NEW p \in Port
  PROVE  Endpoints(p) \in Nat
  BY GatewayAssumption DEF TypeOK, Endpoints

\* Connections only join Stored.
LEMMA StoredGrows ==
  ASSUME Stored \subseteq Stored'
  PROVE  /\ Cardinality(Stored) \in Nat /\ Cardinality(Stored') \in Nat
         /\ Cardinality(Stored) <= Cardinality(Stored')
         /\ Cardinality(Stored') <= MaxRequest
<1>1. Stored' \subseteq Client
  BY DEF Stored
<1>2. IsFiniteSet(Stored')
  BY <1>1, FS_Subset, ClientFinite
<1>. QED BY <1>1, <1>2, FS_Subset, FS_CardinalityType, ClientFinite

LEMMA StoredCount == Cardinality(Stored) \in Nat /\ MaxRequest \in Nat
<1>1. Stored \subseteq Client
  BY DEF Stored
<1>. QED BY <1>1, FS_Subset, FS_CardinalityType, ClientFinite, GatewayAssumption

LEMMA PickingCount == IsFiniteSet(Picking) /\ Cardinality(Picking) \in Nat
<1>1. Picking \subseteq Client
  BY DEF Picking
<1>. QED BY <1>1, FS_Subset, FS_CardinalityType, ClientFinite

-----------------------------------------------------------------------------
(* Every action keeps the invariant.                                       *)

\* What an action that does not pick by round robin keeps of the counter.
LEMMA PicksKept ==
  ASSUME IInv, UNCHANGED <<counter, seen, history>>,
         \A c \in Client :
             \/ pc'[c] = pc[c]
             \/ /\ {pc[c], pc'[c]} \cap {"load", "store"} = {}
                /\ pc[c] \in {"dial", "forward", "ended"} =>
                       pc'[c] \in {"dial", "forward", "ended"}
  PROVE  /\ CountedPicks' /\ GroupCounted'
         /\ Picking' = Picking
<1>1. Stored \subseteq Stored'
  BY DEF Stored
<1>2. CountedPicks'
  <2>1. counter \in Nat /\ \A c \in Client : seen[c] \in Nat
    BY DEF IInv, TypeOK
  <2>. QED BY <1>1, <2>1, StoredGrows DEF IInv, CountedPicks
<1>3. Picking' = Picking
  BY DEF Picking
<1>4. \A stored \in Nat : InGroup(stored) => InGroup(stored)'
  BY <1>3 DEF InGroup, history
<1>5. GroupCounted'
  BY <1>3, <1>4 DEF IInv, GroupCounted
<1>. QED BY <1>2, <1>3, <1>5

\* What an action that leaves the goroutines where they are keeps.
LEMMA PicksKeptInPlace ==
  ASSUME IInv, UNCHANGED <<counter, seen, history, pc>>
  PROVE  /\ CountedPicks' /\ GroupCounted'
         /\ Picking' = Picking
  BY PicksKept

LEMMA ServerKeeps ==
  ASSUME IInv, Starts \/ \E p \in Port : Listens(p) \/ AcceptFails(p)
  PROVE  IInv' /\ Picking' = Picking
<1>1. /\ listener' \in [Port -> {"none", "starting", "open", "failed"}]
      /\ UNCHANGED <<service, pc, picked, forwarding, reply>>
  BY DEF IInv, TypeOK, Starts, Listens, AcceptFails
<1>2. TypeOK'
  BY <1>1 DEF IInv, TypeOK, Endpoints, picked, history, forwarding
<1>3. Positions' /\ EndedIsClosed'
  BY <1>1 DEF IInv, Positions, EndedIsClosed, Early, Forwarded, Over, NoCopier,
      Signalled, tcp, forwarding
<1>4. CountedPicks' /\ GroupCounted' /\ Picking' = Picking
  BY <1>1, PicksKeptInPlace DEF picked
<1>. QED BY <1>2, <1>3, <1>4 DEF IInv

LEMMA AcceptKeeps ==
  ASSUME IInv, NEW c \in Client, NEW p \in Port, Accept(c, p)
  PROVE  IInv' /\ Picking' = Picking
<1>1. pc[c] = "none"
  BY DEF Accept, MayAccept
<1>2. TypeOK'
  BY DEF IInv, TypeOK, Accept, GoTo, Endpoints, history, Side
<1>3. Positions' /\ EndedIsClosed'
  BY <1>1 DEF IInv, TypeOK, Positions, EndedIsClosed, Early, Forwarded, Over, NoCopier,
      Signalled, Kept, Accept, GoTo, tcp, Side
<1>4. CountedPicks' /\ GroupCounted' /\ Picking' = Picking
  BY <1>1, PicksKept DEF IInv, TypeOK, Accept, GoTo
<1>. QED BY <1>2, <1>3, <1>4 DEF IInv

LEMMA PickRandomKeeps ==
  ASSUME IInv, NEW c \in Client, PickRandom(c)
  PROVE  IInv' /\ Picking' = Picking
<1>1. PICK i \in 0 .. Endpoints(port[c]) - 1 : endpoint' = [endpoint EXCEPT ![c] = i]
  BY DEF PickRandom
<1>2. port[c] \in Port /\ Endpoints(port[c]) \in Nat
  BY EndpointsOfPort DEF IInv, TypeOK, PickRandom
<1>3. TypeOK'
  BY <1>1, <1>2 DEF IInv, TypeOK, PickRandom, GoTo, Endpoints, history, forwarding
<1>4. Positions' /\ EndedIsClosed'
  BY DEF IInv, TypeOK, Positions, EndedIsClosed, Early, Forwarded, Over, NoCopier,
    Signalled, PickRandom, GoTo, tcp, forwarding
<1>5. CountedPicks' /\ GroupCounted' /\ Picking' = Picking
  BY PicksKept DEF IInv, TypeOK, PickRandom, GoTo
<1>. QED BY <1>3, <1>4, <1>5 DEF IInv

\* A pick joins those under way, or begins a group of its own.
LEMMA PickRoundRobinKeeps ==
  ASSUME IInv, NEW c \in Client, PickRoundRobin(c)
  PROVE  IInv' /\ Picking' # {}
<1>1. /\ pc[c] = "pick" /\ pc' = [pc EXCEPT ![c] = "load"]
      /\ UNCHANGED <<service, listener, counter, port, seen, forwarding, reply>>
  BY DEF PickRoundRobin, GoTo
<1>2. /\ port[c] \in Port /\ Endpoints(port[c]) \in Nat \ {0}
      /\ counter \in Nat /\ base \in Nat /\ group \in Nat
  BY EndpointsOfPort, StoredCount DEF IInv, TypeOK, PickRoundRobin
<1>3. /\ counter % Endpoints(port[c]) \in 0 .. Endpoints(port[c]) - 1
      /\ endpoint' = [endpoint EXCEPT ![c] = counter % Endpoints(port[c])]
  BY <1>2 DEF PickRoundRobin, RoundRobinIndex
<1>4. TypeOK'
  <2>1. base' \in Nat /\ group' \in Nat
    BY <1>2 DEF PickRoundRobin
  <2>2. /\ endpoint' \in [Client -> Nat]
        /\ pc' \in [Client -> {"none", "pick", "load", "store", "dial", "forward",
                               "ended", "refused"}]
    BY <1>1, <1>2, <1>3 DEF IInv, TypeOK
  <2>3. \A x \in Client :
            /\ pc'[x] \in {"pick", "load", "store", "dial"} => port'[x] \in Port
            /\ pc'[x] \in {"load", "store", "dial"} =>
                   endpoint'[x] < Endpoints(port'[x])
    BY <1>1, <1>2, <1>3 DEF IInv, TypeOK
  <2>. QED BY <1>1, <2>1, <2>2, <2>3 DEF IInv, TypeOK, Endpoints, forwarding
<1>5. Positions' /\ EndedIsClosed'
  BY <1>1 DEF IInv, TypeOK, Positions, EndedIsClosed, Early, Forwarded, Over, NoCopier,
    Signalled, tcp, forwarding
<1>6. Stored' = Stored /\ Picking' = Picking \cup {c} /\ c \notin Picking
  BY <1>1 DEF IInv, TypeOK, Stored, Picking
<1>7. CountedPicks'
  BY <1>1, <1>6 DEF IInv, CountedPicks
<1>8. Cardinality(Picking') = Cardinality(Picking) + 1
  BY <1>6, PickingCount, FS_AddElement
<1>9. \A x \in Client : pc'[x] = "store" => x \in Picking /\ pc[x] = "store"
  BY <1>1 DEF IInv, TypeOK, Picking
<1>10. GroupCounted'
  <2>1. CASE Picking = {}
    <3>1. base' = counter /\ group' = 1
      BY <2>1 DEF PickRoundRobin
    <3>2. Cardinality(Picking') = 1
      BY <1>8, <2>1, FS_EmptySet
    <3>3. InGroup(0)'
      BY <1>1, <1>2, <1>9, <2>1, <3>1, <3>2 DEF InGroup
    <3>. QED BY <3>3 DEF GroupCounted
  <2>2. CASE Picking # {}
    <3>1. PICK stored \in Nat : InGroup(stored)
      BY <2>2 DEF IInv, GroupCounted
    <3>2. base' = base /\ group' = group + 1
      BY <2>2 DEF PickRoundRobin
    <3>3. InGroup(stored)'
      <4>1. group' = stored + Cardinality(Picking')
        BY <1>8, <3>1, <3>2, PickingCount DEF InGroup
      <4>. QED BY <1>1, <1>9, <3>1, <3>2, <4>1 DEF InGroup
    <3>. QED BY <3>3 DEF GroupCounted
  <2>. QED BY <2>1, <2>2
<1>. QED BY <1>4, <1>5, <1>6, <1>7, <1>10 DEF IInv

LEMMA LoadCounterKeeps ==
  ASSUME IInv, NEW c \in Client, LoadCounter(c)
  PROVE  IInv' /\ Picking' = Picking
<1>1. TypeOK'
  BY DEF IInv, TypeOK, LoadCounter, GoTo, Endpoints, history, forwarding
<1>2. Positions' /\ EndedIsClosed'
  BY DEF IInv, TypeOK, Positions, EndedIsClosed, Early, Forwarded, Over, NoCopier,
      Signalled, LoadCounter, GoTo, tcp, forwarding
<1>3. Stored' = Stored /\ Picking' = Picking /\ c \in Picking
  BY DEF IInv, TypeOK, Stored, Picking, LoadCounter, GoTo
<1>4. CountedPicks'
  BY <1>3 DEF IInv, TypeOK, CountedPicks, LoadCounter
<1>5. GroupCounted'
  <2>1. PICK stored \in Nat : InGroup(stored)
    BY <1>3 DEF IInv, GroupCounted
  <2>2. InGroup(stored)'
    BY <1>3, <2>1 DEF IInv, TypeOK, InGroup, LoadCounter, GoTo, history
  <2>. QED BY <2>2 DEF GroupCounted
<1>. QED BY <1>1, <1>2, <1>3, <1>4, <1>5 DEF IInv

\* A store puts the counter one past a value of the group: lost increments leave it behind
\* the number of picks, never ahead, and the last one of the group leaves it ahead of base.
LEMMA StoreCounterKeeps ==
  ASSUME IInv, NEW c \in Client, StoreCounter(c)
  PROVE  /\ IInv'
         /\ Picking' = {} => counter' \in base + 1 .. base + group
<1>1. /\ Stored' = Stored \cup {c} /\ c \notin Stored
      /\ Picking' = Picking \ {c} /\ c \in Picking
  BY DEF IInv, TypeOK, Stored, Picking, StoreCounter, GoTo
<1>2. Cardinality(Stored') = Cardinality(Stored) + 1
  <2>1. IsFiniteSet(Stored)
    BY FS_Subset, ClientFinite DEF Stored
  <2>. QED BY <1>1, <2>1, FS_AddElement
<1>3. /\ counter' = seen[c] + 1
      /\ seen' = [seen EXCEPT ![c] = 0]
      /\ counter \in Nat /\ seen \in [Client -> Nat]
      /\ base \in Nat /\ group \in Nat
      /\ UNCHANGED <<base, group>>
  BY DEF IInv, TypeOK, StoreCounter, Incremented, history
<1>4. CountedPicks'
  BY <1>2, <1>3, StoredCount DEF IInv, CountedPicks
<1>5. TypeOK'
  <2>1. counter' <= Cardinality(Stored) + 1
    BY <1>3, StoredCount DEF IInv, CountedPicks
  <2>2. Cardinality(Stored') <= MaxRequest
    BY <1>1, StoredGrows
  <2>3. counter' \in 0 .. MaxRequest
    BY <1>2, <1>3, <2>1, <2>2, StoredCount
  <2>. QED BY <2>3, StoredCount DEF IInv, TypeOK, StoreCounter, GoTo, Endpoints, history,
      forwarding
<1>6. Positions' /\ EndedIsClosed'
  BY DEF IInv, TypeOK, Positions, EndedIsClosed, Early, Forwarded, Over, NoCopier,
      Signalled, StoreCounter, GoTo, tcp, forwarding
<1>7. PICK stored \in Nat : InGroup(stored)
  BY <1>1 DEF IInv, GroupCounted
<1>8. /\ Cardinality(Picking) \in Nat
      /\ Cardinality(Picking') = Cardinality(Picking) - 1
  BY <1>1, PickingCount, FS_RemoveElement
<1>9. seen[c] \in base .. base + stored
  BY <1>7 DEF InGroup, StoreCounter
<1>10. InGroup(stored + 1)'
  <2>1. group' = (stored + 1) + Cardinality(Picking')
    BY <1>3, <1>7, <1>8 DEF InGroup
  <2>2. counter' \in base' .. base' + (stored + 1)
    BY <1>3, <1>9
  <2>3. ASSUME NEW x \in Client, pc'[x] = "store"
        PROVE  seen'[x] \in base' .. base' + (stored + 1)
    <3>1. x # c /\ pc[x] = "store"
      BY <2>3 DEF IInv, TypeOK, StoreCounter, GoTo
    <3>. QED BY <1>3, <1>7, <3>1 DEF InGroup
  <2>. QED BY <2>1, <2>2, <2>3 DEF InGroup
<1>11. ASSUME Picking' = {} PROVE counter' \in base + 1 .. base + group
  <2>1. Cardinality(Picking') = 0
    BY <1>11, FS_EmptySet
  <2>2. group = stored + 1
    BY <1>7, <1>8, <2>1 DEF InGroup
  <2>. QED BY <1>3, <1>9, <2>2
<1>12. GroupCounted'
  <2>1. stored + 1 \in Nat
    OBVIOUS
  <2>. QED BY <1>10, <2>1 DEF GroupCounted
<1>. QED BY <1>4, <1>5, <1>6, <1>11, <1>12 DEF IInv

LEMMA PickNoneKeeps ==
  ASSUME IInv, NEW c \in Client, PickNone(c)
  PROVE  IInv' /\ Picking' = Picking
<1>1. TypeOK'
  <2>1. pc' \in [Client -> {"none", "pick", "load", "store", "dial", "forward", "ended",
                            "refused"}]
    BY DEF IInv, TypeOK, PickNone, GoTo
  <2>2. /\ socket' \in [Client -> [Side -> {"none", "open", "ended", "reset", "closed"}]]
        /\ reply' \in [Client -> {0, 500, 503}]
    <3>1. CASE tcp
      <4>1. socket' = [socket EXCEPT ![c]["conn"] = "closed"] /\ reply' = reply
        BY <3>1 DEF PickNone
      <4>. QED BY <4>1 DEF IInv, TypeOK, Side
    <3>2. CASE ~tcp
      BY <3>2 DEF IInv, TypeOK, PickNone
    <3>. QED BY <3>1, <3>2
  <2>3. port' \in [Client -> Port \cup {NoPort}]
    BY DEF IInv, TypeOK, PickNone
  <2>4. \A x \in Client : pc'[x] \in {"pick", "load", "store", "dial"} =>
            pc[x] = pc'[x] /\ port[x] = port'[x]
    BY DEF IInv, TypeOK, PickNone, GoTo
  <2>. QED BY <2>1, <2>2, <2>3, <2>4
    DEF IInv, TypeOK, PickNone, Endpoints, history
<1>2. Positions' /\ EndedIsClosed'
  BY DEF IInv, TypeOK, Positions, EndedIsClosed, Early, Forwarded, Over, NoCopier,
      Signalled, PickNone, GoTo, tcp, Side
<1>3. CountedPicks' /\ GroupCounted' /\ Picking' = Picking
  BY PicksKept DEF IInv, TypeOK, PickNone, GoTo
<1>. QED BY <1>1, <1>2, <1>3 DEF IInv

\* The endpoint that was picked is used once.
LEMMA UsesKeeps ==
  ASSUME IInv, NEW c \in Client, Uses(c), GoTo(c, "ended") \/ GoTo(c, "forward")
  PROVE  /\ pc' \in [Client -> {"none", "pick", "load", "store", "dial", "forward", "ended",
                                "refused"}]
         /\ endpoint' \in [Client -> Nat]
         /\ port' \in [Client -> Port \cup {NoPort}]
         /\ \A x \in Client :
                /\ pc'[x] \in {"pick", "load", "store", "dial"} => port'[x] \in Port
                /\ pc'[x] \in {"load", "store", "dial"} =>
                       endpoint'[x] < Endpoints(port'[x])
         /\ CountedPicks' /\ GroupCounted' /\ Picking' = Picking
<1>1. CountedPicks' /\ GroupCounted' /\ Picking' = Picking
  BY PicksKept DEF IInv, TypeOK, Uses, GoTo
<1>2. /\ pc' \in [Client -> {"none", "pick", "load", "store", "dial", "forward", "ended",
                             "refused"}]
      /\ \A x \in Client : x # c =>
             pc'[x] = pc[x] /\ port'[x] = port[x] /\ endpoint'[x] = endpoint[x]
      /\ pc'[c] \in {"ended", "forward"}
      /\ endpoint' \in [Client -> Nat] /\ port' \in [Client -> Port \cup {NoPort}]
  BY DEF IInv, TypeOK, Uses, GoTo
<1>3. \A p : Endpoints(p)' = Endpoints(p)
  BY DEF Uses, Endpoints
<1>. QED BY <1>1, <1>2, <1>3 DEF IInv, TypeOK, Endpoints, Uses

LEMMA NotDialedKeeps ==
  ASSUME IInv, NEW c \in Client, ForwardRequest(c) \/ DialFails(c)
  PROVE  IInv' /\ Picking' = Picking
<1>1. Uses(c) /\ GoTo(c, "ended")
  BY DEF ForwardRequest, DialFails
<1>2. TypeOK'
  <2>1. /\ socket' \in [Client -> [Side -> {"none", "open", "ended", "reset", "closed"}]]
        /\ reply' \in [Client -> {0, 500, 503}]
        /\ UNCHANGED <<service, listener, counter, seen, history, copier, done>>
    <3>1. CASE ForwardRequest(c)
      BY <3>1 DEF IInv, TypeOK, ForwardRequest, Uses, forwarding
    <3>2. CASE DialFails(c)
      BY <3>2 DEF IInv, TypeOK, DialFails, Uses, Side
    <3>. QED BY <3>1, <3>2
  <2>. QED BY <1>1, <2>1, UsesKeeps DEF IInv, TypeOK, Endpoints, history
<1>3. Positions' /\ EndedIsClosed'
  <2>1. CASE ForwardRequest(c)
    BY <2>1 DEF IInv, TypeOK, Positions, EndedIsClosed, Early, Forwarded, Over, NoCopier,
      Signalled, ForwardRequest, Uses, GoTo, tcp, forwarding
  <2>2. CASE DialFails(c)
    BY <2>2 DEF IInv, TypeOK, Positions, EndedIsClosed, Early, Forwarded, Over, NoCopier,
      Signalled, DialFails, Uses, GoTo, tcp, Side
  <2>. QED BY <2>1, <2>2
<1>. QED BY <1>1, <1>2, <1>3, UsesKeeps DEF IInv

LEMMA DialSucceedsKeeps ==
  ASSUME IInv, NEW c \in Client, DialSucceeds(c)
  PROVE  IInv' /\ Picking' = Picking
<1>1. Uses(c) /\ GoTo(c, "forward") /\ pc[c] = "dial"
  BY DEF DialSucceeds, Uses
<1>2. /\ copier' = [copier EXCEPT ![c] = [s \in Side |-> "reading"]]
      /\ socket' = [socket EXCEPT ![c]["eConn"] = "open"]
      /\ tcp
      /\ UNCHANGED <<service, listener, done, reply, counter, seen, history>>
  BY DEF DialSucceeds, Uses
<1>3. /\ copier' \in [Client -> [Side -> {"none", "reading", "writing", "signal", "gone"}]]
      /\ socket' \in [Client -> [Side -> {"none", "open", "ended", "reset", "closed"}]]
  BY <1>2 DEF IInv, TypeOK, Side
<1>4. TypeOK'
  BY <1>1, <1>2, <1>3, UsesKeeps DEF IInv, TypeOK, Endpoints, history
<1>5. Positions'
  <2> SUFFICES ASSUME NEW x \in Client
               PROVE  /\ pc'[x] \in {"none", "pick", "load", "store", "dial"} => Early(x)'
                      /\ pc'[x] = "forward" => Forwarded(x)'
                      /\ pc'[x] \in {"ended", "refused"} => Over(x)'
    BY DEF Positions
  <2>1. CASE x = c
    <3>1. Forwarded(c)'
      BY <1>1, <1>2 DEF IInv, TypeOK, Positions, Early, NoCopier, Forwarded, Signalled,
        Kept, Side, tcp
    <3>2. pc'[c] = "forward"
      BY <1>1 DEF IInv, TypeOK, GoTo
    <3>. QED BY <2>1, <3>1, <3>2
  <2>2. CASE x # c
    BY <1>1, <1>2, <2>2 DEF IInv, TypeOK, Positions, Early, Forwarded, Over, NoCopier,
      Signalled, GoTo, tcp
  <2>. QED BY <2>1, <2>2
<1>6. EndedIsClosed'
  BY <1>1, <1>2 DEF IInv, TypeOK, EndedIsClosed, GoTo, tcp
<1>. QED BY <1>1, <1>4, <1>5, <1>6, UsesKeeps DEF IInv

\* A copier that goes on reading, writing or to its signal signals nothing yet.
LEMMA CopierMovesKeeps ==
  ASSUME IInv, NEW c \in Client, NEW s \in Side,
         NEW l \in {"reading", "writing", "signal"},
         copier[c][s] \in {"reading", "writing"},
         copier' = [copier EXCEPT ![c][s] = l],
         UNCHANGED <<service, listener, pc, picked, socket, done, reply>>
  PROVE  IInv' /\ Picking' = Picking
<1>1. TypeOK'
  BY DEF IInv, TypeOK, Endpoints, picked, history
<1>2. /\ \A x \in Client, t \in Side : (copier'[x][t] = "gone") <=> (copier[x][t] = "gone")
      /\ \A x \in Client, t \in Side : (copier'[x][t] = "none") <=> (copier[x][t] = "none")
  BY DEF IInv, TypeOK
<1>3. \A x \in Client : Signalled(x)' = Signalled(x) /\ (NoCopier(x)' <=> NoCopier(x))
  BY <1>2 DEF Signalled, NoCopier, Side
<1>4. Positions' /\ EndedIsClosed'
  BY <1>2, <1>3 DEF IInv, Positions, EndedIsClosed, Early, Forwarded, Over, tcp
<1>5. CountedPicks' /\ GroupCounted' /\ Picking' = Picking
  BY PicksKeptInPlace DEF picked
<1>. QED BY <1>1, <1>4, <1>5 DEF IInv

LEMMA SignalKeeps ==
  ASSUME IInv, NEW c \in Client, NEW s \in Side, Signal(c, s)
  PROVE  IInv' /\ Picking' = Picking
<1>1. /\ copier[c][s] = "signal"
      /\ done'[c] = done[c] + 1 /\ done[c] \in Nat /\ done[c] < 2
      /\ copier'[c] = [copier[c] EXCEPT ![s] = "gone"]
      /\ \A x \in Client : x # c => copier'[x] = copier[x] /\ done'[x] = done[x]
      /\ UNCHANGED <<service, listener, pc, picked, socket, reply>>
  <2>1. /\ copier[c][s] = "signal" /\ done[c] < 2
        /\ done' = [done EXCEPT ![c] = @ + 1]
        /\ copier' = [copier EXCEPT ![c][s] = "gone"]
        /\ UNCHANGED <<service, listener, pc, picked, socket, reply>>
    BY DEF Signal, HasRoom
  <2>2. /\ done \in [Client -> 0 .. 2]
        /\ copier \in [Client -> [Side -> {"none", "reading", "writing", "signal", "gone"}]]
    BY DEF IInv, TypeOK
  <2>. QED BY <2>1, <2>2
<1>2. TypeOK'
  <2>1. done' \in [Client -> 0 .. 2]
    <3>1. done \in [Client -> 0 .. 2] /\ done' = [done EXCEPT ![c] = @ + 1]
      BY DEF IInv, TypeOK, Signal
    <3>. QED BY <1>1, <3>1
  <2>. QED BY <2>1 DEF IInv, TypeOK, Signal, Endpoints, picked, history
<1>3. Signalled(c)' = Signalled(c) + 1 /\ Signalled(c) \in Nat
  <2>1. copier[c] \in [Side -> {"none", "reading", "writing", "signal", "gone"}]
    BY DEF IInv, TypeOK
  <2>. QED BY <1>1, <2>1 DEF Signalled, Side
<1>4. \A t \in Side : copier'[c][t] # "none"
  <2>1. \A t \in Side : copier[c][t] # "none"
    <3>1. ~NoCopier(c)
      BY <1>1 DEF NoCopier
    <3>2. Early(c) \/ Forwarded(c) \/ Over(c)
      BY DEF IInv, TypeOK, Positions
    <3>. QED BY <3>1, <3>2 DEF Early, Forwarded, Over
  <2>2. copier[c] \in [Side -> {"none", "reading", "writing", "signal", "gone"}]
    BY DEF IInv, TypeOK
  <2>. QED BY <1>1, <2>1, <2>2
<1>5. \A x \in Client : x # c =>
          Signalled(x)' = Signalled(x) /\ (NoCopier(x)' <=> NoCopier(x))
  BY <1>1 DEF Signalled, NoCopier
<1>6. ~Early(c) /\ (Forwarded(c) => Forwarded(c)') /\ (Over(c) => Over(c)')
  BY <1>1, <1>3, <1>4 DEF Early, Forwarded, Over, NoCopier, tcp
<1>7. \A x \in Client : x # c =>
          /\ Early(x) => Early(x)'
          /\ Forwarded(x) => Forwarded(x)'
          /\ Over(x) => Over(x)'
  BY <1>1, <1>5 DEF Early, Forwarded, Over, tcp
<1>8. Positions' /\ EndedIsClosed'
  BY <1>1, <1>6, <1>7 DEF IInv, Positions, EndedIsClosed, tcp
<1>9. CountedPicks' /\ GroupCounted' /\ Picking' = Picking
  BY <1>1, PicksKeptInPlace DEF picked
<1>. QED BY <1>2, <1>8, <1>9 DEF IInv

LEMMA CopyKeeps ==
  ASSUME IInv, NEW c \in Client, NEW s \in Side,
         Copy(c, s) \/ Arrives(c, s) \/ Drains(c, s)
  PROVE  IInv' /\ Picking' = Picking
<1>1. CASE CopyEnds(c, s)
  BY <1>1, CopierMovesKeeps DEF CopyEnds
<1>2. CASE Arrives(c, s)
  BY <1>2, CopierMovesKeeps DEF Arrives
<1>3. CASE Drains(c, s)
  BY <1>3, CopierMovesKeeps DEF Drains
<1>. QED BY <1>1, <1>2, <1>3, SignalKeeps DEF Copy

LEMMA CloseBothKeeps ==
  ASSUME IInv, NEW c \in Client, CloseBoth(c)
  PROVE  IInv' /\ Picking' = Picking
<1>1. TypeOK'
  BY DEF IInv, TypeOK, CloseBoth, GoTo, Endpoints, picked, history
<1>2. /\ pc[c] = "forward" /\ done[c] > 0
      /\ done' = [done EXCEPT ![c] = @ - 1]
      /\ socket' = [socket EXCEPT ![c] = [s \in Side |-> "closed"]]
      /\ GoTo(c, "ended")
      /\ UNCHANGED <<service, copier, reply>>
  BY DEF CloseBoth
<1>3. Positions'
  <2> SUFFICES ASSUME NEW x \in Client
               PROVE  /\ pc'[x] \in {"none", "pick", "load", "store", "dial"} => Early(x)'
                      /\ pc'[x] = "forward" => Forwarded(x)'
                      /\ pc'[x] \in {"ended", "refused"} => Over(x)'
    BY DEF Positions
  <2>1. CASE x = c
    <3>1. Over(c)'
      BY <1>2 DEF IInv, TypeOK, Positions, Forwarded, Over, Signalled, Side
    <3>2. pc'[c] = "ended"
      BY <1>2 DEF IInv, TypeOK, GoTo
    <3>. QED BY <2>1, <3>1, <3>2
  <2>2. CASE x # c
    BY <1>2, <2>2 DEF IInv, TypeOK, Positions, Early, Forwarded, Over, NoCopier,
        Signalled, GoTo, tcp
  <2>. QED BY <2>1, <2>2
<1>4. EndedIsClosed'
  BY <1>2 DEF IInv, TypeOK, Positions, Forwarded, EndedIsClosed, GoTo, tcp, Side
<1>5. CountedPicks' /\ GroupCounted' /\ Picking' = Picking
  BY PicksKept DEF IInv, TypeOK, CloseBoth, GoTo, picked
<1>. QED BY <1>1, <1>3, <1>4, <1>5 DEF IInv

LEMMA PeerEndsKeeps ==
  ASSUME IInv, NEW c \in Client, NEW s \in Side, PeerEnds(c, s)
  PROVE  IInv' /\ Picking' = Picking
<1>1. PICK l \in {"ended", "reset"} : socket' = [socket EXCEPT ![c][s] = l]
  BY DEF PeerEnds
<1>2. /\ socket[c][s] \in {"open", "ended"}
      /\ UNCHANGED <<service, listener, pc, picked, copier, done, reply>>
  BY DEF PeerEnds
<1>3. TypeOK'
  BY <1>1, <1>2 DEF IInv, TypeOK, Endpoints, picked, history
<1>4. /\ socket'[c][s] \in Kept /\ socket[c][s] \in Kept
      /\ \A x \in Client, t \in Side : x # c \/ t # s => socket'[x][t] = socket[x][t]
  BY <1>1, <1>2 DEF IInv, TypeOK, Kept
<1>5. Positions' /\ EndedIsClosed'
  BY <1>2, <1>4 DEF IInv, Positions, EndedIsClosed, Early, Forwarded, Over,
      NoCopier, Signalled, Kept, tcp, Side
<1>6. CountedPicks' /\ GroupCounted' /\ Picking' = Picking
  BY <1>2, PicksKeptInPlace DEF picked
<1>. QED BY <1>3, <1>5, <1>6 DEF IInv

LEMMA InitEstablishes == Init => IInv
<1> SUFFICES ASSUME Init PROVE IInv
  OBVIOUS
<1>1. TypeOK
  <2>1. 0 \in 0 .. MaxRequest
    BY StoredCount
  <2>2. /\ copier \in [Client -> [Side -> {"none", "reading", "writing", "signal", "gone"}]]
        /\ socket \in [Client -> [Side -> {"none", "open", "ended", "reset", "closed"}]]
    BY DEF Init
  <2>3. /\ endpoint \in [Client -> Nat] /\ base \in Nat /\ group \in Nat
        /\ seen \in [Client -> 0 .. MaxRequest]
        /\ counter \in 0 .. MaxRequest
    BY <2>1 DEF Init
  <2>4. /\ \A c \in Client : pc[c] = "none"
        /\ pc \in [Client -> {"none", "pick", "load", "store", "dial", "forward", "ended",
                             "refused"}]
    BY DEF Init
  <2>5. /\ port \in [Client -> Port \cup {NoPort}]
        /\ done \in [Client -> 0 .. 2]
        /\ reply \in [Client -> {0, 500, 503}]
    BY DEF Init
  <2>6. /\ service \in Services
        /\ listener \in [Port -> {"none", "starting", "open", "failed"}]
    BY DEF Init
  <2>. QED BY <2>2, <2>3, <2>4, <2>5, <2>6 DEF TypeOK
<1>2. Positions /\ EndedIsClosed
  BY DEF Init, Positions, Early, NoCopier, EndedIsClosed, Side
<1>3. CountedPicks /\ GroupCounted
  <2>1. Picking = {}
    BY DEF Init, Picking
  <2>. QED BY <2>1, StoredCount DEF Init, CountedPicks, GroupCounted
<1>. QED BY <1>1, <1>2, <1>3 DEF IInv

LEMMA VarsKept ==
  ASSUME IInv, UNCHANGED vars
  PROVE  IInv' /\ Picking' = Picking
<1>1. UNCHANGED <<service, listener, pc, picked, forwarding, reply>>
  BY DEF vars
<1>2. TypeOK' /\ Positions' /\ EndedIsClosed'
  BY <1>1 DEF IInv, TypeOK, Positions, EndedIsClosed, Early, Forwarded, Over, NoCopier,
      Signalled, Endpoints, tcp, picked, history, forwarding
<1>3. CountedPicks' /\ GroupCounted' /\ Picking' = Picking
  BY <1>1, PicksKeptInPlace DEF picked
<1>. QED BY <1>2, <1>3 DEF IInv

\* No step but the last store of a group of picks ends it.
LEMMA NextKeeps ==
  ASSUME IInv, Next
  PROVE  /\ IInv'
         /\ Picking # {} /\ Picking' = {} => counter' \in base + 1 .. base + group
<1>1. CASE Quiet
  <2>1. UNCHANGED vars
    BY <1>1 DEF Quiet
  <2>. QED BY <2>1, VarsKept
<1>2. ASSUME NEW c \in Client, Pick(c)
      PROVE  /\ IInv'
             /\ Picking # {} /\ Picking' = {} => counter' \in base + 1 .. base + group
  BY <1>2, PickRandomKeeps, PickRoundRobinKeeps, LoadCounterKeeps, StoreCounterKeeps,
    PickNoneKeeps DEF Pick
<1>3. ASSUME NEW c \in Client, Forward(c) PROVE IInv' /\ Picking' = Picking
  BY <1>3, NotDialedKeeps, DialSucceedsKeeps, CloseBothKeeps DEF Forward
<1>4. ASSUME NEW c \in Client, NEW s \in Side, Copy(c, s) \/ Peer(c, s)
      PROVE  IInv' /\ Picking' = Picking
  BY <1>4, CopyKeeps, PeerEndsKeeps DEF Peer
<1>. QED BY <1>1, <1>2, <1>3, <1>4, ServerKeeps, AcceptKeeps DEF Next

-----------------------------------------------------------------------------
(* Theorems.                                                               *)

\* The invariant holds in every reachable state of the service's public side.
THEOREM InvariantHolds == Spec => []IInv
<1>1. IInv /\ [Next]_vars => IInv'
  BY NextKeeps, VarsKept
<1>. QED BY <1>1, InitEstablishes, PTL DEF Spec

\* Type correctness: whatever increments are lost, the counter stays within the number of
\* connections and every index that is picked is one of an endpoint of the connection's
\* port, however many endpoints the other ports have.  (PickEndpoint, model.go: the index
\* is the counter modulo the number of endpoints)
THEOREM TypeCorrect == Spec => []TypeOK
  BY InvariantHolds, PTL DEF IInv

\* A goroutine that ends leaves no open socket and no request without an answer.
\* (forwarding.go: "Ensure both connections get closed")
THEOREM NoSocketLeaks == Spec => []EndedIsClosed
  BY InvariantHolds, PTL DEF IInv

\* A copier never waits to put its value into the channel: the capacity of two is enough
\* for both, also after the connection's goroutine, which takes one value, is gone.
\* (forwardTcpConn: done := make(chan struct{}, 2))
CopiersNeverWait ==
    \A c \in Client, s \in Side : copier[c][s] = "signal" => HasRoom(c)

THEOREM SignalsHaveRoom == Spec => []CopiersNeverWait
<1>1. IInv => CopiersNeverWait
  BY DEF IInv, TypeOK, Positions, Early, Forwarded, Over, NoCopier, Signalled,
      Side, CopiersNeverWait, HasRoom
<1>. QED BY <1>1, InvariantHolds, PTL

\* However picks overlap, on whatever ports, and whatever increments they lose: once none is
\* under way, the counter has moved on by one at least and at most by their number.
\* (PickEndpoint, model.go: the counter is read and incremented without a lock)
THEOREM PicksMoveTheCounterOn == Spec => PicksMoveOn
<1> DEFINE P == Picking # {} /\ Picking' = {} => counter' \in base + 1 .. base + group
<1>1. IInv /\ [Next]_vars => [P]_vars
  BY NextKeeps
<1>. QED BY <1>1, InvariantHolds, PTL DEF Spec, PicksMoveOn

=============================================================================
