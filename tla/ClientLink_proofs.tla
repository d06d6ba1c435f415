-------------------------- MODULE ClientLink_proofs -------------------------
(***************************************************************************)
(* Proofs about ClientLink, for any number of callers, connections and     *)
(* contexts.                                                               *)
(***************************************************************************)
EXTENDS ClientLink, TLAPS

-----------------------------------------------------------------------------
(* The inductive invariant.                                                *)

\* A connection nobody dialed or accepted is in no table and has no goroutine.
FreshUnused ==
    \A c \in Conn : link[c] = "fresh" =>
        owner[c] = NoGen /\ serve[c] = "none" /\ c \notin connections

\* serveConnection closes its peer before it takes it out of the table.
ClosedFirst ==
    \A c \in Conn : serve[c] \in {"unregister", "done"} => link[c] = "closed"

\* The variable peer of a loop holds a connection dialed for its own context.
PeerOwned ==
    \A g \in Gen :
        /\ loop[g] # "unborn" => peer[g] # NoConn
        /\ peer[g] # NoConn => owner[peer[g]] = g /\ link[peer[g]] # "fresh"
        /\ loop[g] = "made" => serve[peer[g]] = "none"

\* A ConnectTo in progress owns its context, and no other call shares it.
CallOwnsContext ==
    \A k \in Caller :
        /\ call[k].pc = "install" => call[k].ctx \in Gen /\ loop[call[k].ctx] = "made"
        /\ call[k].pc \in {"replace", "spawn"} =>
               call[k].ctx \in Gen /\ loop[call[k].ctx] = "spawn"
        /\ \A j \in Caller \ {k} :
               {call[j].pc, call[k].pc} \subseteq {"install", "replace", "spawn"} =>
                   call[j].ctx # call[k].ctx

\* Only the calls that are about to close a replaced peer hold one.
PreviousHeld ==
    \A k \in Caller :
        call[k].pc \in {"idle", "install", "spawn"} => call[k].previous = NoConn

\* Only contexts that were in clientCancel have been cancelled.
CancelledStarted == \A g \in cancelled : loop[g] \notin {"unborn", "made"}

\* The context in clientCancel is the only one that runs.
CurrentContext ==
    /\ clientCancel # NoGen =>
           clientCancel \notin cancelled /\ loop[clientCancel] \notin {"unborn", "made"}
    /\ \A g \in Gen :
           loop[g] \notin {"unborn", "made"} /\ g \notin cancelled => g = clientCancel

\* The connection in the slot is the one the current loop serves.
SlotServed ==
    clientConn # NoConn =>
        /\ clientCancel # NoGen
        /\ clientConn \in connections
        /\ peer[clientCancel] = clientConn
        /\ loop[clientCancel] \in {"spawn", "serve"}
        /\ serve[clientConn] # "done"

IInv ==
    /\ TypeOK
    /\ FreshUnused
    /\ ClosedFirst
    /\ PeerOwned
    /\ CallOwnsContext
    /\ PreviousHeld
    /\ CancelledStarted
    /\ CurrentContext
    /\ SlotServed
    /\ OneOutbound
    /\ NoForgottenSocket

-----------------------------------------------------------------------------
(* Every action keeps the invariant: one lemma per action, one step per    *)
(* part of the invariant that the action can disturb.                      *)

\* The new connection and the new context are in nobody's hands yet.
LEMMA ConnectDialKeeps ==
  ASSUME IInv, NEW k \in Caller, NEW g \in Gen, NEW c \in Conn, ConnectDial(k, g, c)
  PROVE  IInv'
<1>1. TypeOK'
  BY DEF IInv, TypeOK, ConnectDial, CallType, Dialed, tableVars
<1>2. FreshUnused'
  BY DEF IInv, TypeOK, FreshUnused, ConnectDial, CallType, Dialed, tableVars
<1>3. ClosedFirst'
  BY DEF IInv, ClosedFirst, ConnectDial, Dialed, tableVars
<1>4. PeerOwned'
  BY NilAssumption DEF IInv, TypeOK, FreshUnused, PeerOwned, ConnectDial,
      CallType, Dialed, tableVars
<1>5. CallOwnsContext'
  BY DEF IInv, TypeOK, CallOwnsContext, ConnectDial, CallType, Dialed,
      tableVars
<1>6. PreviousHeld'
  BY DEF IInv, PreviousHeld, ConnectDial, Dialed, tableVars
<1>7. CancelledStarted'
  BY DEF IInv, CancelledStarted, ConnectDial, Dialed, tableVars
<1>8. CurrentContext'
  BY DEF IInv, CurrentContext, ConnectDial, Dialed, tableVars
<1>9. SlotServed'
  BY DEF IInv, SlotServed, ConnectDial, Dialed, tableVars
<1>10. OneOutbound'
  BY DEF IInv, FreshUnused, OneOutbound, ConnectDial, Dialed, tableVars
<1>11. NoForgottenSocket'
  BY DEF IInv, TypeOK, PreviousHeld, NoForgottenSocket, ConnectDial, Committed,
      CallType, Dialed, tableVars
<1>. QED BY <1>1, <1>2, <1>3, <1>4, <1>5, <1>6, <1>7, <1>8, <1>9, <1>10, <1>11 DEF IInv

\* The context of the call becomes the current one: the old one is cancelled,
\* and the old peer is in the hands of the call that will close it.
LEMMA ConnectInstallKeeps ==
  ASSUME IInv, NEW k \in Caller, ConnectInstall(k)
  PROVE  IInv'
<1>1. TypeOK'
  BY DEF IInv, TypeOK, PeerOwned, CallOwnsContext, ConnectInstall, CallType,
      ContextToCancel, ConnectRemoves
<1>2. FreshUnused'
  BY NilAssumption DEF IInv, FreshUnused, PeerOwned, CallOwnsContext,
      ConnectInstall, ContextToCancel, ConnectRemoves
<1>3. PeerOwned'
  BY DEF IInv, PeerOwned, CallOwnsContext, ConnectInstall, ContextToCancel,
      ConnectRemoves
<1>4. CallOwnsContext'
  BY DEF IInv, TypeOK, CallOwnsContext, ConnectInstall, CallType,
      ContextToCancel, ConnectRemoves
<1>5. PreviousHeld'
  BY DEF IInv, PreviousHeld, ConnectInstall, ContextToCancel, ConnectRemoves
<1>6. CancelledStarted'
  BY DEF IInv, CancelledStarted, CurrentContext, ConnectInstall,
      ContextToCancel, ConnectRemoves
<1>7. CurrentContext'
  BY NilAssumption DEF IInv, TypeOK, CallOwnsContext, CancelledStarted,
      CurrentContext, ConnectInstall, CallType, ContextToCancel, ConnectRemoves
<1>8. SlotServed'
  BY NilAssumption DEF IInv, TypeOK, PeerOwned, CallOwnsContext, SlotServed,
      ConnectInstall, CallType, ContextToCancel, ConnectRemoves
<1>9. OneOutbound'
  BY DEF IInv, OneOutbound, ConnectInstall, ContextToCancel, ConnectRemoves
<1>10. NoForgottenSocket'
  BY NilAssumption DEF IInv, TypeOK, PreviousHeld, NoForgottenSocket,
      ConnectInstall, Committed, CallType, ContextToCancel, ConnectRemoves
<1>11. ClosedFirst'
  BY DEF IInv, ClosedFirst, ConnectInstall, tableVars
<1>. QED BY <1>1, <1>2, <1>3, <1>4, <1>5, <1>6, <1>7, <1>8, <1>9, <1>10, <1>11 DEF IInv

\* Closing the replaced peer changes only its link.
LEMMA ConnectClosePreviousKeeps ==
  ASSUME IInv, NEW k \in Caller, ConnectClosePrevious(k)
  PROVE  IInv'
<1>1. TypeOK'
  BY DEF IInv, TypeOK, ConnectClosePrevious, CallType, Close, tableVars
<1>2. FreshUnused'
  BY DEF IInv, FreshUnused, ConnectClosePrevious, Close, tableVars
<1>3. ClosedFirst'
  BY DEF IInv, ClosedFirst, ConnectClosePrevious, Close, tableVars
<1>4. PeerOwned'
  BY DEF IInv, TypeOK, PeerOwned, ConnectClosePrevious, CallType, Close,
      tableVars
<1>5. CallOwnsContext'
  BY DEF IInv, CallOwnsContext, ConnectClosePrevious, Close, tableVars
<1>6. PreviousHeld'
  BY DEF IInv, PreviousHeld, ConnectClosePrevious, Close, tableVars
<1>7. NoForgottenSocket'
  BY DEF IInv, NoForgottenSocket, ConnectClosePrevious, Committed, Close,
      tableVars
<1>8. CancelledStarted' /\ CurrentContext' /\ SlotServed' /\ OneOutbound'
  BY DEF IInv, CancelledStarted, CurrentContext, SlotServed, OneOutbound,
      ConnectClosePrevious, tableVars
<1>. QED BY <1>1, <1>2, <1>3, <1>4, <1>5, <1>6, <1>7, <1>8 DEF IInv

\* The loop of the new context starts to serve its peer.
LEMMA ConnectSpawnKeeps ==
  ASSUME IInv, NEW k \in Caller, ConnectSpawn(k)
  PROVE  IInv'
<1>1. TypeOK'
  BY DEF IInv, TypeOK, ConnectSpawn, CallType, Idle, tableVars
<1>2. FreshUnused'
  BY DEF IInv, FreshUnused, PeerOwned, CallOwnsContext, ConnectSpawn, Idle,
      tableVars
<1>3. ClosedFirst'
  BY DEF IInv, ClosedFirst, ConnectSpawn, Idle, tableVars
<1>4. PeerOwned'
  BY DEF IInv, PeerOwned, CallOwnsContext, ConnectSpawn, Idle, tableVars
<1>5. CallOwnsContext'
  BY DEF IInv, TypeOK, CallOwnsContext, ConnectSpawn, CallType, Idle, tableVars
<1>6. PreviousHeld'
  BY DEF IInv, PreviousHeld, ConnectSpawn, Idle, tableVars
<1>7. CancelledStarted'
  BY DEF IInv, CancelledStarted, ConnectSpawn, Idle, tableVars
<1>8. CurrentContext'
  BY DEF IInv, CallOwnsContext, CurrentContext, ConnectSpawn, Idle, tableVars
<1>9. SlotServed'
  BY DEF IInv, SlotServed, ConnectSpawn, Idle, tableVars
<1>10. NoForgottenSocket'
  BY DEF IInv, CallOwnsContext, PreviousHeld, NoForgottenSocket, ConnectSpawn,
      Committed, Idle, tableVars
<1>11. OneOutbound'
  BY DEF IInv, OneOutbound, ConnectSpawn, tableVars
<1>. QED BY <1>1, <1>2, <1>3, <1>4, <1>5, <1>6, <1>7, <1>8, <1>9, <1>10, <1>11 DEF IInv

\* No context is current any more, and the call holds the old peer.
LEMMA DisconnectTakeKeeps ==
  ASSUME IInv, NEW k \in Caller, DisconnectTake(k)
  PROVE  IInv'
<1>1. TypeOK'
  BY DEF IInv, TypeOK, DisconnectTake, CallType, ContextToCancel,
      DisconnectRemoves
<1>2. FreshUnused'
  BY DEF IInv, FreshUnused, DisconnectTake, ContextToCancel, DisconnectRemoves
<1>3. CallOwnsContext'
  BY DEF IInv, CallOwnsContext, DisconnectTake, ContextToCancel,
      DisconnectRemoves
<1>4. PreviousHeld'
  BY DEF IInv, PreviousHeld, DisconnectTake, ContextToCancel, DisconnectRemoves
<1>5. CancelledStarted'
  BY DEF IInv, CancelledStarted, CurrentContext, DisconnectTake,
      ContextToCancel, DisconnectRemoves
<1>6. CurrentContext'
  BY DEF IInv, CurrentContext, DisconnectTake, ContextToCancel,
      DisconnectRemoves
<1>7. SlotServed'
  BY DEF IInv, SlotServed, DisconnectTake, ContextToCancel, DisconnectRemoves
<1>8. OneOutbound'
  BY DEF IInv, OneOutbound, DisconnectTake, ContextToCancel, DisconnectRemoves
<1>9. NoForgottenSocket'
  BY NilAssumption DEF IInv, TypeOK, PreviousHeld, NoForgottenSocket,
      DisconnectTake, Committed, CallType, ContextToCancel, DisconnectRemoves
<1>10. ClosedFirst' /\ PeerOwned'
  BY DEF IInv, ClosedFirst, PeerOwned, DisconnectTake, tableVars
<1>. QED BY <1>1, <1>2, <1>3, <1>4, <1>5, <1>6, <1>7, <1>8, <1>9, <1>10 DEF IInv

\* Closing the peer taken by Disconnect changes only its link.
LEMMA DisconnectCloseKeeps ==
  ASSUME IInv, NEW k \in Caller, DisconnectClose(k)
  PROVE  IInv'
<1>1. TypeOK'
  BY DEF IInv, TypeOK, DisconnectClose, CallType, Close, Idle, tableVars
<1>2. FreshUnused'
  BY DEF IInv, FreshUnused, DisconnectClose, Close, Idle, tableVars
<1>3. ClosedFirst'
  BY DEF IInv, ClosedFirst, DisconnectClose, Close, Idle, tableVars
<1>4. PeerOwned'
  BY DEF IInv, TypeOK, PeerOwned, DisconnectClose, CallType, Close, Idle,
      tableVars
<1>5. CallOwnsContext'
  BY DEF IInv, CallOwnsContext, DisconnectClose, Close, Idle, tableVars
<1>6. PreviousHeld'
  BY DEF IInv, PreviousHeld, DisconnectClose, Close, Idle, tableVars
<1>7. NoForgottenSocket'
  BY DEF IInv, NoForgottenSocket, DisconnectClose, Committed, Close, Idle,
      tableVars
<1>8. CancelledStarted' /\ CurrentContext' /\ SlotServed' /\ OneOutbound'
  BY DEF IInv, CancelledStarted, CurrentContext, SlotServed, OneOutbound,
      DisconnectClose, tableVars
<1>. QED BY <1>1, <1>2, <1>3, <1>4, <1>5, <1>6, <1>7, <1>8 DEF IInv

\* A loop whose connection is done does not hold the slot.
LEMMA LoopAfterServeKeeps ==
  ASSUME IInv, NEW g \in Gen, LoopAfterServe(g)
  PROVE  IInv'
<1>1. TypeOK'
  BY DEF IInv, TypeOK, LoopAfterServe, CallType, Done, tableVars
<1>2. PeerOwned'
  BY DEF IInv, PeerOwned, LoopAfterServe, Done, tableVars
<1>3. CallOwnsContext'
  BY DEF IInv, CallOwnsContext, LoopAfterServe, Done, tableVars
<1>4. CancelledStarted'
  BY DEF IInv, CancelledStarted, LoopAfterServe, Done, tableVars
<1>5. CurrentContext'
  BY DEF IInv, CurrentContext, LoopAfterServe, Done, tableVars
<1>6. SlotServed'
  BY DEF IInv, SlotServed, LoopAfterServe, Done, tableVars
<1>7. NoForgottenSocket'
  BY DEF IInv, NoForgottenSocket, LoopAfterServe, Committed, Done, tableVars
<1>8. FreshUnused' /\ ClosedFirst' /\ PreviousHeld' /\ OneOutbound'
  BY DEF IInv, FreshUnused, ClosedFirst, PreviousHeld, OneOutbound,
      LoopAfterServe, tableVars
<1>. QED BY <1>1, <1>2, <1>3, <1>4, <1>5, <1>6, <1>7, <1>8 DEF IInv

\* A cancelled loop ends.
LEMMA DelayCancelledKeeps ==
  ASSUME IInv, NEW g \in Gen, DelayCancelled(g)
  PROVE  IInv'
<1>1. TypeOK'
  BY DEF IInv, TypeOK, DelayCancelled, CallType, Done, tableVars
<1>2. PeerOwned'
  BY DEF IInv, PeerOwned, DelayCancelled, Done, tableVars
<1>3. CallOwnsContext'
  BY DEF IInv, CallOwnsContext, DelayCancelled, Done, tableVars
<1>4. CancelledStarted'
  BY DEF IInv, CancelledStarted, DelayCancelled, Done, tableVars
<1>5. CurrentContext'
  BY DEF IInv, CurrentContext, DelayCancelled, Done, tableVars
<1>6. SlotServed'
  BY DEF IInv, SlotServed, DelayCancelled, Done, tableVars
<1>7. NoForgottenSocket'
  BY DEF IInv, NoForgottenSocket, DelayCancelled, Committed, Done, tableVars
<1>8. FreshUnused' /\ ClosedFirst' /\ PreviousHeld' /\ OneOutbound'
  BY DEF IInv, FreshUnused, ClosedFirst, PreviousHeld, OneOutbound,
      DelayCancelled, tableVars
<1>. QED BY <1>1, <1>2, <1>3, <1>4, <1>5, <1>6, <1>7, <1>8 DEF IInv

\* A loop that waits and one that dials hold no connection.
LEMMA DelayElapsedKeeps ==
  ASSUME IInv, NEW g \in Gen, DelayElapsed(g)
  PROVE  IInv'
<1>1. TypeOK'
  BY DEF IInv, TypeOK, DelayElapsed, CallType, tableVars
<1>2. PeerOwned'
  BY DEF IInv, PeerOwned, DelayElapsed, tableVars
<1>3. CallOwnsContext'
  BY DEF IInv, CallOwnsContext, DelayElapsed, tableVars
<1>4. CancelledStarted'
  BY DEF IInv, CancelledStarted, DelayElapsed, tableVars
<1>5. CurrentContext'
  BY DEF IInv, CurrentContext, DelayElapsed, tableVars
<1>6. SlotServed'
  BY DEF IInv, SlotServed, DelayElapsed, tableVars
<1>7. NoForgottenSocket'
  BY DEF IInv, NoForgottenSocket, DelayElapsed, Committed, tableVars
<1>8. FreshUnused' /\ ClosedFirst' /\ PreviousHeld' /\ OneOutbound'
  BY DEF IInv, FreshUnused, ClosedFirst, PreviousHeld, OneOutbound,
      DelayElapsed, tableVars
<1>. QED BY <1>1, <1>2, <1>3, <1>4, <1>5, <1>6, <1>7, <1>8 DEF IInv

\* A failed dial leaves the table alone.
LEMMA RedialFailsKeeps ==
  ASSUME IInv, NEW g \in Gen, RedialFails(g)
  PROVE  IInv'
<1>1. TypeOK'
  BY DEF IInv, TypeOK, RedialFails, CallType, Done, tableVars
<1>2. PeerOwned'
  BY DEF IInv, PeerOwned, RedialFails, Done, tableVars
<1>3. CallOwnsContext'
  BY DEF IInv, CallOwnsContext, RedialFails, Done, tableVars
<1>4. CancelledStarted'
  BY DEF IInv, CancelledStarted, RedialFails, Done, tableVars
<1>5. CurrentContext'
  BY DEF IInv, CurrentContext, RedialFails, Done, tableVars
<1>6. SlotServed'
  BY DEF IInv, SlotServed, RedialFails, Done, tableVars
<1>7. NoForgottenSocket'
  BY DEF IInv, NoForgottenSocket, RedialFails, Committed, Done, tableVars
<1>8. FreshUnused' /\ ClosedFirst' /\ PreviousHeld' /\ OneOutbound'
  BY DEF IInv, FreshUnused, ClosedFirst, PreviousHeld, OneOutbound,
      RedialFails, tableVars
<1>. QED BY <1>1, <1>2, <1>3, <1>4, <1>5, <1>6, <1>7, <1>8 DEF IInv

\* The new connection belongs to the loop that will install it.
LEMMA RedialSucceedsKeeps ==
  ASSUME IInv, NEW g \in Gen, NEW c \in Conn, RedialSucceeds(g, c)
  PROVE  IInv'
<1>1. TypeOK'
  BY DEF IInv, TypeOK, RedialSucceeds, CallType, Dialed, tableVars
<1>2. FreshUnused'
  BY DEF IInv, TypeOK, FreshUnused, RedialSucceeds, CallType, Dialed, tableVars
<1>3. ClosedFirst'
  BY DEF IInv, ClosedFirst, RedialSucceeds, Dialed, tableVars
<1>4. PeerOwned'
  BY NilAssumption DEF IInv, TypeOK, PeerOwned, RedialSucceeds, CallType,
      Dialed, tableVars
<1>5. CallOwnsContext'
  BY DEF IInv, CallOwnsContext, RedialSucceeds, Dialed, tableVars
<1>6. CancelledStarted'
  BY DEF IInv, CancelledStarted, RedialSucceeds, Dialed, tableVars
<1>7. CurrentContext'
  BY DEF IInv, CurrentContext, RedialSucceeds, Dialed, tableVars
<1>8. SlotServed'
  BY DEF IInv, SlotServed, RedialSucceeds, Dialed, tableVars
<1>9. OneOutbound'
  BY DEF IInv, FreshUnused, OneOutbound, RedialSucceeds, Dialed, tableVars
<1>10. NoForgottenSocket'
  BY DEF IInv, TypeOK, NoForgottenSocket, RedialSucceeds, Committed, CallType,
      Dialed, tableVars
<1>11. PreviousHeld'
  BY DEF IInv, PreviousHeld, RedialSucceeds, tableVars
<1>. QED BY <1>1, <1>2, <1>3, <1>4, <1>5, <1>6, <1>7, <1>8, <1>9, <1>10, <1>11 DEF IInv

\* Only the current context installs, and then the slot is empty: the check
\* of the context under the lock is what makes this step safe.
LEMMA InstallKeeps ==
  ASSUME IInv, NEW g \in Gen, Install(g)
  PROVE  IInv'
<1>1. TypeOK'
  BY DEF IInv, TypeOK, PeerOwned, Install, CallType, MayInstall, Done
<1>2. FreshUnused'
  BY DEF IInv, FreshUnused, PeerOwned, Install, MayInstall, Done
<1>3. ClosedFirst'
  BY DEF IInv, ClosedFirst, Install, MayInstall, Done
<1>4. PeerOwned'
  BY DEF IInv, PeerOwned, Install, MayInstall, Done
<1>5. CallOwnsContext'
  BY DEF IInv, CallOwnsContext, Install, MayInstall, Done
<1>6. CancelledStarted'
  BY DEF IInv, CancelledStarted, Install, MayInstall, Done
<1>7. CurrentContext'
  BY DEF IInv, CurrentContext, Install, MayInstall, Done
<1>8. SlotServed'
  BY NilAssumption DEF IInv, TypeOK, CurrentContext, SlotServed, Install,
      CallType, MayInstall, Done
<1>9. OneOutbound'
  BY NilAssumption DEF IInv, TypeOK, CurrentContext, SlotServed, OneOutbound,
      Install, CallType, MayInstall, Done
<1>10. NoForgottenSocket'
  BY NilAssumption DEF IInv, CurrentContext, SlotServed, NoForgottenSocket,
      Install, Committed, MayInstall, Done
<1>11. PreviousHeld'
  BY DEF IInv, PreviousHeld, Install, tableVars
<1>. QED BY <1>1, <1>2, <1>3, <1>4, <1>5, <1>6, <1>7, <1>8, <1>9, <1>10, <1>11 DEF IInv

\* A cancelled loop closes what it dialed.
LEMMA InstallRefusedKeeps ==
  ASSUME IInv, NEW g \in Gen, InstallRefused(g)
  PROVE  IInv'
<1>1. TypeOK'
  BY DEF IInv, TypeOK, InstallRefused, CallType, MayInstall, Close, tableVars,
      Done
<1>2. FreshUnused'
  BY DEF IInv, FreshUnused, InstallRefused, MayInstall, Close, tableVars, Done
<1>3. ClosedFirst'
  BY DEF IInv, ClosedFirst, InstallRefused, MayInstall, Close, tableVars, Done
<1>4. PeerOwned'
  BY DEF IInv, TypeOK, PeerOwned, InstallRefused, CallType, MayInstall, Close,
      tableVars, Done
<1>5. CallOwnsContext'
  BY DEF IInv, CallOwnsContext, InstallRefused, MayInstall, Close, tableVars,
      Done
<1>6. CancelledStarted'
  BY DEF IInv, CancelledStarted, InstallRefused, MayInstall, Close, tableVars,
      Done
<1>7. CurrentContext'
  BY DEF IInv, CurrentContext, InstallRefused, MayInstall, Close, tableVars,
      Done
<1>8. SlotServed'
  BY DEF IInv, SlotServed, InstallRefused, MayInstall, Close, tableVars, Done
<1>9. NoForgottenSocket'
  BY DEF IInv, NoForgottenSocket, InstallRefused, Committed, MayInstall, Close,
      tableVars, Done
<1>10. PreviousHeld' /\ OneOutbound'
  BY DEF IInv, PreviousHeld, OneOutbound, InstallRefused, tableVars
<1>. QED BY <1>1, <1>2, <1>3, <1>4, <1>5, <1>6, <1>7, <1>8, <1>9, <1>10 DEF IInv

\* An accepted connection is nobody's outbound connection.
LEMMA HandleConnectionKeeps ==
  ASSUME IInv, NEW c \in Conn, HandleConnection(c)
  PROVE  IInv'
<1>1. TypeOK'
  BY DEF IInv, TypeOK, HandleConnection, CallType
<1>2. FreshUnused'
  BY DEF IInv, TypeOK, FreshUnused, HandleConnection, CallType
<1>3. ClosedFirst'
  BY DEF IInv, ClosedFirst, HandleConnection
<1>4. PeerOwned'
  BY DEF IInv, PeerOwned, HandleConnection
<1>5. SlotServed'
  BY DEF IInv, SlotServed, HandleConnection
<1>6. OneOutbound'
  BY DEF IInv, TypeOK, OneOutbound, HandleConnection, CallType
<1>7. NoForgottenSocket'
  BY NilAssumption DEF IInv, TypeOK, NoForgottenSocket, HandleConnection,
      Committed, CallType
<1>8. /\ CallOwnsContext'
      /\ PreviousHeld'
      /\ CancelledStarted'
      /\ CurrentContext'
  BY DEF IInv, CallOwnsContext, PreviousHeld, CancelledStarted, CurrentContext,
      HandleConnection, tableVars
<1>. QED BY <1>1, <1>2, <1>3, <1>4, <1>5, <1>6, <1>7, <1>8 DEF IInv

\* The receive goroutine closes its peer first ...
LEMMA ServeStopsKeeps ==
  ASSUME IInv, NEW c \in Conn, ServeStops(c)
  PROVE  IInv'
<1>1. TypeOK'
  BY DEF IInv, TypeOK, ServeStops, CallType, Close, tableVars
<1>2. FreshUnused'
  BY DEF IInv, FreshUnused, ServeStops, Close, tableVars
<1>3. ClosedFirst'
  BY DEF IInv, ClosedFirst, ServeStops, Close, tableVars
<1>4. PeerOwned'
  BY DEF IInv, TypeOK, PeerOwned, ServeStops, CallType, Close, tableVars
<1>5. SlotServed'
  BY DEF IInv, SlotServed, ServeStops, Close, tableVars
<1>6. NoForgottenSocket'
  BY DEF IInv, NoForgottenSocket, ServeStops, Committed, Close, tableVars
<1>7. /\ CallOwnsContext'
      /\ PreviousHeld'
      /\ CancelledStarted'
      /\ CurrentContext'
      /\ OneOutbound'
  BY DEF IInv, CallOwnsContext, PreviousHeld, CancelledStarted, CurrentContext,
      OneOutbound, ServeStops, tableVars
<1>. QED BY <1>1, <1>2, <1>3, <1>4, <1>5, <1>6, <1>7 DEF IInv

\* ... also when it gives up an open connection ...
LEMMA ServeRejectsKeeps ==
  ASSUME IInv, NEW c \in Conn, ServeRejects(c)
  PROVE  IInv'
<1>1. TypeOK'
  BY DEF IInv, TypeOK, ServeRejects, CallType, Close, tableVars
<1>2. FreshUnused'
  BY DEF IInv, FreshUnused, ServeRejects, Close, tableVars
<1>3. ClosedFirst'
  BY DEF IInv, ClosedFirst, ServeRejects, Close, tableVars
<1>4. PeerOwned'
  BY DEF IInv, TypeOK, PeerOwned, ServeRejects, CallType, Close, tableVars
<1>5. SlotServed'
  BY DEF IInv, SlotServed, ServeRejects, Close, tableVars
<1>6. NoForgottenSocket'
  BY DEF IInv, NoForgottenSocket, ServeRejects, Committed, Close, tableVars
<1>7. /\ CallOwnsContext'
      /\ PreviousHeld'
      /\ CancelledStarted'
      /\ CurrentContext'
      /\ OneOutbound'
  BY DEF IInv, CallOwnsContext, PreviousHeld, CancelledStarted, CurrentContext,
      OneOutbound, ServeRejects, tableVars
<1>. QED BY <1>1, <1>2, <1>3, <1>4, <1>5, <1>6, <1>7 DEF IInv

\* ... and then gives up the slot if that peer holds it.
LEMMA UnregisterKeeps ==
  ASSUME IInv, NEW c \in Conn, Unregister(c)
  PROVE  IInv'
<1>1. TypeOK'
  BY DEF IInv, TypeOK, Unregister, CallType, SlotAfter
<1>2. FreshUnused'
  BY DEF IInv, FreshUnused, Unregister, SlotAfter
<1>3. ClosedFirst'
  BY DEF IInv, ClosedFirst, Unregister, SlotAfter
<1>4. PeerOwned'
  BY DEF IInv, PeerOwned, Unregister, SlotAfter
<1>5. SlotServed'
  BY DEF IInv, SlotServed, Unregister, SlotAfter
<1>6. OneOutbound'
  BY DEF IInv, OneOutbound, Unregister, SlotAfter
<1>7. NoForgottenSocket'
  BY DEF IInv, ClosedFirst, NoForgottenSocket, Unregister, Committed, SlotAfter
<1>8. /\ CallOwnsContext'
      /\ PreviousHeld'
      /\ CancelledStarted'
      /\ CurrentContext'
  BY DEF IInv, CallOwnsContext, PreviousHeld, CancelledStarted, CurrentContext,
      Unregister, tableVars
<1>. QED BY <1>1, <1>2, <1>3, <1>4, <1>5, <1>6, <1>7, <1>8 DEF IInv

\* A lost connection stays where it is until its reader notices.
LEMMA LoseKeeps ==
  ASSUME IInv, NEW c \in Conn, Lose(c)
  PROVE  IInv'
<1>1. TypeOK'
  BY DEF IInv, TypeOK, Lose, CallType, tableVars
<1>2. FreshUnused'
  BY DEF IInv, FreshUnused, Lose, tableVars
<1>3. ClosedFirst'
  BY DEF IInv, ClosedFirst, Lose, tableVars
<1>4. PeerOwned'
  BY DEF IInv, PeerOwned, Lose, tableVars
<1>5. NoForgottenSocket'
  BY DEF IInv, NoForgottenSocket, Lose, Committed, tableVars
<1>6. /\ CallOwnsContext'
      /\ PreviousHeld'
      /\ CancelledStarted'
      /\ CurrentContext'
      /\ SlotServed'
      /\ OneOutbound'
  BY DEF IInv, CallOwnsContext, PreviousHeld, CancelledStarted, CurrentContext,
      SlotServed, OneOutbound, Lose, tableVars
<1>. QED BY <1>1, <1>2, <1>3, <1>4, <1>5, <1>6 DEF IInv

-----------------------------------------------------------------------------
(* The theorems.                                                           *)

\* A server that was just made (New) satisfies the invariant.
LEMMA InitEstablishes == Init => IInv
<1>. SUFFICES ASSUME Init PROVE IInv
  OBVIOUS
<1>1. TypeOK
  BY DEF Init, TypeOK, CallType, Idle
<1>2. FreshUnused /\ ClosedFirst /\ PeerOwned /\ CancelledStarted /\ SlotServed
  BY DEF Init, FreshUnused, ClosedFirst, PeerOwned, CancelledStarted, SlotServed
<1>3. CallOwnsContext /\ PreviousHeld
  BY DEF Init, CallOwnsContext, PreviousHeld, Idle
<1>4. CurrentContext /\ OneOutbound
  BY DEF Init, CurrentContext, OneOutbound
<1>5. NoForgottenSocket
  BY NilAssumption DEF Init, NoForgottenSocket
<1>. QED BY <1>1, <1>2, <1>3, <1>4, <1>5 DEF IInv

\* Every step of every goroutine, and of the network, keeps the invariant.
LEMMA NextKeeps == IInv /\ [Next]_vars => IInv'
<1>. SUFFICES ASSUME IInv, [Next]_vars PROVE IInv'
  OBVIOUS
<1>1. CASE \E k \in Caller, g \in Gen, c \in Conn : ConnectDial(k, g, c)
  BY <1>1, ConnectDialKeeps
<1>2. ASSUME NEW k \in Caller, DisconnectTake(k) \/ CallStep(k) PROVE IInv'
  BY <1>2, DisconnectTakeKeeps, ConnectInstallKeeps, ConnectClosePreviousKeeps,
     ConnectSpawnKeeps, DisconnectCloseKeeps DEF CallStep
<1>3. ASSUME NEW g \in Gen, LoopStep(g) PROVE IInv'
  BY <1>3, LoopAfterServeKeeps, DelayCancelledKeeps, DelayElapsedKeeps,
     RedialFailsKeeps, RedialSucceedsKeeps, InstallKeeps, InstallRefusedKeeps
     DEF LoopStep
<1>4. ASSUME NEW c \in Conn,
             ServeStep(c) \/ ServeRejects(c) \/ HandleConnection(c) \/ Lose(c)
      PROVE  IInv'
  BY <1>4, ServeStopsKeeps, UnregisterKeeps, ServeRejectsKeeps,
     HandleConnectionKeeps, LoseKeeps DEF ServeStep
<1>5. ASSUME vars' = vars \/ ServerComesOrGoes PROVE IInv'
  <2>1. UNCHANGED <<tableVars, link, owner, serve, loop, peer, call>>
    BY <1>5 DEF ServerComesOrGoes, vars, tableVars
  <2>2. TypeOK'
    BY <1>5, <2>1 DEF IInv, TypeOK, CallType, vars, tableVars, ServerComesOrGoes
  <2>3. FreshUnused' /\ ClosedFirst' /\ PeerOwned' /\ CallOwnsContext' /\ PreviousHeld'
    BY <2>1 DEF IInv, FreshUnused, ClosedFirst, PeerOwned, CallOwnsContext,
                PreviousHeld, tableVars
  <2>4. CancelledStarted' /\ CurrentContext' /\ SlotServed' /\ OneOutbound'
    BY <2>1 DEF IInv, CancelledStarted, CurrentContext, SlotServed, OneOutbound,
                tableVars
  <2>5. NoForgottenSocket'
    BY <2>1 DEF IInv, NoForgottenSocket, Committed, tableVars
  <2>. QED BY <2>2, <2>3, <2>4, <2>5 DEF IInv
<1>. QED BY <1>1, <1>2, <1>3, <1>4, <1>5 DEF Next

\* The inductive invariant of the connection table holds in every reachable state.
THEOREM InvariantHolds == Spec => []IInv
BY InitEstablishes, NextKeeps, PTL DEF Spec

\* The fields of Server and the locals of its goroutines keep their types.
THEOREM TypeCorrect == Spec => []TypeOK
<1>1. IInv => TypeOK
  BY DEF IInv
<1>. QED BY <1>1, InvariantHolds, PTL

\* The comment of reconnect, "A replaced retry loop must never overwrite the new
\* outbound peer", for any number of ConnectTo and Disconnect calls: what SendCmd
\* finds in the slot is registered and belongs to the current, live context.
THEOREM SlotIsOwned == Spec => []SlotOwned
<1>1. IInv => SlotOwned
  BY NilAssumption DEF IInv, TypeOK, SlotServed, PeerOwned, CurrentContext, SlotOwned
<1>. QED BY <1>1, InvariantHolds, PTL

\* Of all the loops that ConnectTo ever started only the one whose cancel
\* function the server holds can still run uncancelled, so that Disconnect and
\* ConnectTo always reach it.
THEOREM LiveLoopIsCurrent == Spec => []OneLiveLoop
<1>1. IInv => OneLiveLoop
  BY NilAssumption
     DEF IInv, TypeOK, CancelledStarted, CurrentContext, OneLiveLoop, Started
<1>. QED BY <1>1, InvariantHolds, PTL

\* The connection table holds no outbound connection besides the one in the slot.
THEOREM TableHoldsOneOutbound == Spec => []OneOutbound
<1>1. IInv => OneOutbound
  BY DEF IInv
<1>. QED BY <1>1, InvariantHolds, PTL

\* No outbound socket is dropped without being closed.
THEOREM SocketsAreAccountedFor == Spec => []NoForgottenSocket
<1>1. IInv => NoForgottenSocket
  BY DEF IInv
<1>. QED BY <1>1, InvariantHolds, PTL

\* "Accepted connections are unaffected" by ConnectTo, Disconnect and the retry
\* loops: only its own receive goroutine takes one out of the table.
THEOREM AcceptedAreUnaffected == Spec => AcceptedUnaffected
<1> DEFINE Stays ==
      \A c \in Conn :
          owner[c] = Inbound /\ c \in connections /\ c \notin connections' =>
              serve[c] = "unregister"
<1>1. IInv /\ [Next]_vars => [Stays]_vars
  <2>. SUFFICES ASSUME IInv, Next, NEW c \in Conn,
                       owner[c] = Inbound, c \in connections, c \notin connections'
                PROVE  serve[c] = "unregister"
    BY DEF vars
  <2>1. c # clientConn
    BY NilAssumption DEF IInv, TypeOK, SlotServed, PeerOwned
  <2>2. ~ \E k \in Caller : ConnectInstall(k) \/ DisconnectTake(k)
    BY <2>1 DEF ConnectInstall, DisconnectTake, ConnectRemoves, DisconnectRemoves
  <2>3. PICK d \in Conn : Unregister(d)
    BY <2>2 DEF Next, CallStep, LoopStep, ServeStep, ConnectDial,
       ConnectClosePrevious, ConnectSpawn, DisconnectClose, LoopAfterServe,
       DelayCancelled, DelayElapsed, RedialFails, RedialSucceeds, Install,
       InstallRefused, HandleConnection, ServeStops, ServeRejects, Lose,
       ServerComesOrGoes, tableVars
  <2>. QED BY <2>3 DEF Unregister
<1>2. Spec => [][Stays]_vars
  BY <1>1, InvariantHolds, PTL DEF Spec
<1>. QED BY <1>2 DEF AcceptedUnaffected

-----------------------------------------------------------------------------
(* Refinement.                                                             *)

\* A server that was just made has no session.
LEMMA InitRefines == Init => Outbound!Init
BY DEF Init, Outbound!Init

\* ConnectInstall is Connect, DisconnectTake is Disconnect, Install is Restore,
\* Unregister is Drop when it empties the slot, and nothing else shows.
LEMMA NextRefines == IInv /\ [Next]_vars => [Outbound!Next]_(Outbound!vars)
<1>. SUFFICES ASSUME IInv, [Next]_vars PROVE [Outbound!Next]_(Outbound!vars)
  OBVIOUS
<1>1. ASSUME NEW k \in Caller, ConnectInstall(k) PROVE Outbound!Next
  <2>. DEFINE g == call[k].ctx
  <2>1. g \in Gen /\ loop[g] = "made" /\ peer[g] \in Conn
    BY <1>1 DEF IInv, TypeOK, CallOwnsContext, PeerOwned, ConnectInstall
  <2>2. g \notin cancelled /\ g # clientCancel
    BY <2>1, NilAssumption DEF IInv, CancelledStarted, CurrentContext
  <2>3. Outbound!Connect(g, peer[g])
    BY <1>1, <2>2 DEF Outbound!Connect, Outbound!Ended, ConnectInstall, ContextToCancel
  <2>. QED BY <2>1, <2>3 DEF Outbound!Next
<1>2. ASSUME NEW k \in Caller, DisconnectTake(k) PROVE Outbound!Next
  BY <1>2 DEF DisconnectTake, ContextToCancel, Outbound!Next, Outbound!Disconnect,
              Outbound!Ended
<1>3. ASSUME NEW g \in Gen, Install(g) PROVE Outbound!Next
  <2>1. peer[g] \in Conn
    BY <1>3 DEF IInv, TypeOK, PeerOwned, Install
  <2>2. clientCancel = g /\ clientConn = NoConn
    BY <1>3 DEF IInv, CurrentContext, SlotServed, Install, MayInstall, Done
  <2>3. Outbound!Restore(peer[g])
    BY <1>3, <2>2, NilAssumption DEF Install, Outbound!Restore
  <2>. QED BY <2>1, <2>3 DEF Outbound!Next
<1>4. ASSUME NEW c \in Conn, Unregister(c)
      PROVE  Outbound!Next \/ UNCHANGED Outbound!vars
  <2>1. CASE clientConn = c
    BY <1>4, <2>1, NilAssumption
       DEF Unregister, SlotAfter, Outbound!Next, Outbound!Drop
  <2>2. CASE clientConn # c
    BY <1>4, <2>2 DEF Unregister, SlotAfter, Outbound!vars
  <2>. QED BY <2>1, <2>2
<1>5. CASE UNCHANGED <<clientConn, clientCancel, cancelled>>
  BY <1>5 DEF Outbound!vars
<1>6. \/ UNCHANGED <<clientConn, clientCancel, cancelled>>
      \/ \E k \in Caller : ConnectInstall(k) \/ DisconnectTake(k)
      \/ \E g \in Gen : Install(g)
      \/ \E c \in Conn : Unregister(c)
  BY DEF Next, CallStep, LoopStep, ServeStep, ConnectDial, ConnectClosePrevious,
     ConnectSpawn, DisconnectClose, LoopAfterServe, DelayCancelled, DelayElapsed,
     RedialFails, RedialSucceeds, InstallRefused, HandleConnection, ServeStops,
     ServeRejects, Lose, ServerComesOrGoes, tableVars, vars
<1>. QED BY <1>1, <1>2, <1>3, <1>4, <1>5, <1>6

\* The connection table, its locks and its goroutines implement the outbound link:
\* one session at a time, a link only inside a session, and no session that
\* returns after it was replaced.
THEOREM Refinement == Spec => ImplementsOutboundLink
<1>1. Spec => Outbound!Spec
  BY InitRefines, NextRefines, InvariantHolds, PTL DEF Spec, Outbound!Spec
<1>. QED BY <1>1 DEF ImplementsOutboundLink

=============================================================================
