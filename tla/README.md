# A verification development for SCO

SCO is a small container orchestrator: a server that keeps a list of tasks per
node and forwards public ports to the nodes, agents that run the tasks in
Docker, and a binary protocol over TCP between them. This directory holds TLA+
modules translated from the Go source, the TLC configurations that check them on
small instances, and TLAPS proofs of what matters most for every instance.

`PROJECT.json` lists the components, the runs, the lines of source each definition
models (`map`), the hazards of the code and the properties aimed at them, what
was found, and the theorems.

## 1. Inventory

| Component | Source | State | Operations | What is hard |
|---|---|---|---|---|
| Connection table, outbound link | `protocolserver/server.go`, `connection.go` | `connections`, `clientConn`, `clientCancel` under `connectionsMu`; a context and a goroutine per `ConnectTo` | `ConnectTo`, `Disconnect`, `reconnect`, `handleConnection`, `serveConnection` | dials and `close()` outside the lock; a replaced retry loop that is about to install its connection |
| Command exchange | same | `requestIDCounter`, `pendingCmds` and a response channel per call | `sendCmd`, `handleMessage`, `handleCommand`, `handleResponse`, `close` | time-outs against late responses, `close()` against registration, handlers that send commands back, ID wrap |
| `writeFrame` | `connection.go`, `protocol.go` | `writeLock`, the socket's write deadline, the AfterFunc callback | `writeFrame`, `WriteFrame`, `close` | the deadline is shared by all writers; partial frames; blocked peers |
| Agent session | `agent.go`, `commands.go` | the token, `a.tasks` | `NewAgent`, the ping loop, `GetTasks` | the connection is replaced under it and starts unauthenticated |
| Server handlers | `server/cmd/app/main.go` | custom data of each connection | the four handlers | authentication belongs to a connection |
| Command store | `protocolcommandstore/store.go` | handlers and middlewares under an RWMutex | `Execute`, `RegisterHandler`, `RegisterMiddleware` | the read lock is held while a handler runs, which may wait for the peer; a waiting writer holds back new readers |
| Reconciliation, Docker runtime | `reconcile.go`, `docker.go`, `runtime.go` | `a.tasks`; the daemon's containers and images | `reconcile`, `reconcileTask`, the `DockerRuntime` methods | every call may fail, or work and report a failure; everything changes between two calls; restarts |
| Gateway, load balancing | `gateway.go`, `forwarding.go`, `cluster/model.go` | a public server per port of a service, `roundRobinCounter`, which these share, a goroutine per connection or request, two copiers per connection | `StartPublicServers`, `PickEndpoint`, `forwardTcpConn`, `forwardHttpReq` | the counter is shared without a lock; which direction ends first; copiers without a deadline that wait in a read or in a write |
| Codec, object pools | `protocol/protocol.go`, `object_pool.go` | pooled buffers and structs | encode, decode, get, put | lengths; slices that alias a recycled buffer |
| Stores, placement | `clusterstore`, `nodestore`, `node.go`, `reconciler.go` | maps and slices | add, update, remove, `CanPlaceTask` | nothing yet: only the demo fills them |
| Configuration, CLI, containerd runtime | | | | no state, or unused |

How they interact: an agent calls `ConnectTo` once; its ping loop and its
reconcile loop send commands over the link with `SendCmd`; the server's receive
goroutine hands each command, in a copy of its payload, to a goroutine that runs the
registered handler through `Execute` and writes the response in pooled buffers; the receive
goroutine of the agent hands the response to the waiting call through a channel. Either end may send commands (`SendCmdTo`).
Reconciliation uses the task list it gets that way and the Docker daemon. The
gateway is independent of all this: it reads the cluster store once, when it starts.

What makes each part correct:

* table: the slot holds a connection of the current session only; no socket and
  no loop is lost; accepted connections are left alone; the link comes back;
* exchange: a call returns its own response or an error, always returns, and
  leaves nothing behind; nobody waits on everybody;
* dispatch: a handler sees the bytes that were sent to it, an answer carries its own
  bytes, and registrations and commands all finish;
* `writeFrame`: the peer receives whole frames; a call's result is the truth; one
  call's deadline never hits another;
* session: no list over a connection without the token, whoever asks; authentication is
  never inherited; the agent recovers;
* reconciliation: tasks that are as they should be are never taken down; a task that
  was always listed is never swept, also when the list cannot be had; a task is
  stopped only if it can be started again; the node converges;
* gateway: sockets are closed, requests answered and goroutines end unless a peer that
  does not read holds one; lost increments never stop the round robin.

## 2. Modules

| Module | Models | Composition |
|---|---|---|
| `OutboundLink` | what `ConnectTo`, `Disconnect` and reconnection promise, without locks and goroutines | abstract specification |
| `ClientLink` | the connection table, one action per critical section of `connectionsMu` or step others can observe | implements `OutboundLink` by `INSTANCE ... WITH session <- clientCancel, link <- clientConn, retired <- cancelled` |
| `ClientLink_proofs` | the proofs about it | extends `ClientLink`, `TLAPS` |
| `RemoteCall` | what `SendCmd` promises, without frames, IDs and goroutines | abstract specification |
| `CommandExchange` | both ends of one connection, all calls and handlers | implements `RemoteCall`; takes whole frames from `WriteFrame` |
| `CommandExchange_proofs` | the proofs about it | extends `CommandExchange`, the library's theorems on finite sets and well-founded relations, `TLAPS` |
| `Codec` | the wire format: encoders and decoders on bytes | operators |
| `Codec_proofs` | the proofs about it | extends `Codec`, the library's theorems on sequences, `TLAPS` |
| `Pools` | the pools of byte buffers, and slices of them | operators and variables for `Dispatch` |
| `CommandStore` | handlers and middlewares under the RWMutex | actions and variables for `Dispatch` |
| `Dispatch` | the receiving side of a connection, from the bytes of a frame to the bytes of its answer | extends `Codec`, `Pools` and `CommandStore` |
| `Dispatch_proofs` | the proofs about it | extends `Dispatch`, `Codec_proofs`, the library's theorems on finite sets |
| `WriteFrame` | `connection.writeFrame` | |
| `WriteFrame_proofs` | the proofs about it | extends `WriteFrame`, `TLAPS` |
| `AuthSession` | agent, other programs and server handlers | takes a link that drops and returns from `ClientLink`, one answer at most per command from `CommandExchange` |
| `AuthSession_proofs` | the proofs about it | extends `AuthSession`, `TLAPS` |
| `Reconcile` | the reconcile loop, Docker runtime and daemon | takes the task list as a value from `AuthSession` |
| `Reconcile_proofs` | the proofs about it | extends `Reconcile`, `TLAPS` |
| `Cores` | `MaxCPU` as NanoCPUs and back, in float32 arithmetic | operators for `Reconcile` |
| `Gateway` | the public servers of one service, one for each port, TCP or HTTP | |
| `Gateway_proofs` | the proofs about it | extends `Gateway`, the library's theorems on finite sets, `TLAPS` |
| `MC_CommandExchange`, `MC_Dispatch`, `MC_Reconcile`, `MC_Gateway` | constants and symmetry for TLC; the other modules are run as they are | |

How state and actions correspond to the code:

* **ClientLink.** A member of `Gen` is a successful dial of `ConnectTo` with its
  context; `clientCancel` is represented by the context it cancels. `loop[g]` is
  where the goroutine `serveClientConnection` of that context is, `peer[g]` its
  local variable, `call[k]` a `ConnectTo` or `Disconnect` in progress (with
  `previous`, the peer it is going to close after the unlock), `serve[c]` the
  goroutine in `serveConnection(c)`. `link[c]` is the socket: `lost` means broken
  and not yet noticed. `owner[c]` is history. The length of the back-off is
  abstracted; the two ready arms of the `select` are separate actions. A cancelled
  dial may still succeed (`RedialSucceeds` has no guard on the context).
* **CommandExchange.** A member of `Call` is an execution of `sendCmd`; `back[c]` is
  the command that the handler of `c` sends to its peer before it answers. The
  state `closing` lies between the cancel and the `clear` of `close()`. `delivering`
  is the receive goroutine between the unlock of `pendingCmdsMu` and the channel
  send. `IDSpace` stands for 2^32; the search for a free ID is `NextID`. A call maps to
  `RemoteCall` by where it is: `cleanup` has already returned, `run` is `running`.
* **Dispatch.** Goroutine 0 is the receive goroutine (`reader`), goroutine k the
  `handleCommand` of the k-th frame (`worker[k]`), `answer[g]` is `writeResponse` in
  either. A buffer is an identity and a slice a part of it, so that a slice sees what
  others write there; `Handed` is `bytes.Clone`. The handlers (`echo`, `fail` and
  `callback`, which sends a command back) stand for registered ones; a middleware adds
  a byte, so that their order shows. Texts of error responses are one byte. A frame
  is read and written in one step (its interruption is in `WriteFrame`).
  The pools belong to the process; one connection is modelled, so the goroutines that
  compete for buffers are its own receive goroutine and command goroutines.
  `sync.Pool` may also forget what it holds: `Get` then makes a new buffer, as it does
  here whenever a pool is empty. `CommandStore` is Go's RWMutex: `Announce` is the
  start of `Lock`, from which on `RLock` queues. An action that needs a decoded frame
  binds it with `\E x \in {...}`, which TLC evaluates once.
* **WriteFrame.** A member of `Writer` is a call. `due` and `ended` are two timers,
  because the socket's and the context's deadline are two timers. `callback[w]` is
  the goroutine of `context.AfterFunc`. `stream` is what the peer receives. A write may
  also fail because the peer reset the connection (`broken`).
* **AuthSession.** `step[g]` is the command each goroutine of the agent sends next and
  `request[x]` the one that a client waits for, or had answered last. A member of `Guest`
  is another program on a connection of its own, which sends any command in any order, with
  the right token, with another or with none: the agent alone never asks for the list
  before it is authenticated. `authenticated` is the custom data of the server's
  connections, `presented` (history) the connections on which the right token was sent and
  handled. A command that times out may or may not have been handled.
  `FirstReconcile` is the rest of `NewAgent`, which fails if the containers cannot be
  listed, while the ping loop already runs.
* **Reconcile.** One action per call to the daemon; `Reports` lets a call take effect
  and report a failure, `CallFails` lets it fail without effect, `CallRefused` is the
  daemon's own refusal, and `AfterError` is where the code continues. `always` (history) are
  the tasks that were on the server's list whenever there was one; the agent's own list
  is kept when `GetTasks` fails.
  `TaskConfig` is reduced to an image, a command and `MaxCPU`: the command is the one
  field that `CompareTo` treats in a way of its own when it is empty, `MaxCPU` the one
  that the daemon stores in another unit. `Cores` counts `MaxCPU` in quarters of a core
  and rounds as float32 does. Daemon and registry are external, modelled from their use.
* **Gateway.** `listener[p]` is the public server of port `p`, `pc[c]` the goroutine of an
  accepted connection or a request, `copier[c][s]` the `io.Copy` that reads from socket `s`
  and writes to the other one. `service` is one of `Services`, with its type, its strategy and
  the number of endpoints of each port; one service is modelled because services share
  nothing. A copier that is `reading` notices what becomes of its source, one that is
  `writing` what becomes of its destination. `forwardHttpReq` gives the received request to
  `http.DefaultClient.Do`, which refuses a request with `RequestURI` set, as every
  received one has; so `ForwardRequest` always answers 500, and what the handler does with
  a response is unreachable. The increment of the counter, which all ports share, is a read
  and a write, because nothing synchronises it. `base` and `group` (history) are the counter
  when the picks under way began to overlap and how many have since.

In every module a few definitions that no action uses stand before the ones they
resemble (`MayInstallAlways` before `MayInstall`). They are plausible defects;
`PROJECT.json` ("mutants") pairs each property with one that breaks it.

## 3. Runs

State counts are those of TLC with the configurations in this directory.

| Run | Instance | States | Shows |
|---|---|---|---|
| `ClientLink` | 2 callers, 3 connections, 2 contexts | 191,272 | the table's invariants, `AcceptedUnaffected`, refinement of `OutboundLink`; retired sessions end, lost connections are unregistered, sessions reconnect |
| `CommandExchange` | 3 calls (one sent by a handler), time-outs, closings, 3 IDs | 385,726 | refinement of `RemoteCall`, no leaked entry, no call cut off from its answer; every call returns |
| `CommandExchange_wrap` | 3 calls, 2 IDs, time-outs | 699,989 | the wrap of the counter onto IDs in use |
| `Dispatch` | 2 of 9 frames, responses, 3 registrations, buffers of 20 bytes of which those over 21 are not pooled | 289,021 | payloads and answers survive the recycling of buffers; handlers are stable while a command runs; everybody finishes |
| `WriteFrame` | 3 writers, 2 pieces per frame | 412,320 | whole frames, truthful results, nobody else's time-out; cancellation and `close()` release everybody |
| `AuthSession` | 3 connections of the agent, one of another program, 2 time-outs | 193,740 | who is served and who is marked; recovery |
| `Reconcile` | 2 names, 2 images, one of each disturbance | 247,269 | what is never taken down or swept; convergence |
| `Gateway` | 2 ports with 0 to 3 endpoints; 4 requests or 2 TCP connections; every type and strategy | 262,576 | closed sockets, answered requests, goroutines that end, a counter that moves on |
| `Reconcile_orphan`, `Reconcile_foreign`, `Reconcile_command`, `Reconcile_cpu` | | | counterexamples, section 7 |

Why the bounds are enough. *ClientLink*: a race needs a retry loop and the call
that replaces it; two contexts and three connections leave room for both and for
a reconnection or an accepted connection, and the proofs cover every other size.
*CommandExchange*: the hazards involve two entries of one
direction and one command in the other; `IDSpace` is as large as the calls of a
direction need, so that no ID is used twice, except in `_wrap`, where it is smaller on
purpose and where `ImplementsRemoteCall` is not claimed (a late response to a reused ID does
reach the wrong call: the protocol relies on 2^32 being large). Time-outs may happen
and need not: `EveryCallReturns` counts on no timer of the caller, and excepts only
the answer that the other end gave up on after its own time-out. *WriteFrame*: a
holder, a waiter and one to come after. *AuthSession*: two reconnections, so that a
recovery may itself be interrupted; connections do not see each other's custom data, so
one other program is enough. *Reconcile*: one change of the list, push per
image, exit, failure and restart, at any step and in any order; its `MaxCPU` values
survive the way to the daemon (one of them rounded), the one of `Reconcile_cpu` does
not. *Gateway*: two ports with different numbers of endpoints share the counter. Of four
requests up to three are served at a time (`MaxServed`), so that three picks may overlap, or
two overlap and others follow alone after the increment that was lost (the proof has no such
bound). TCP connections share nothing but the counter: two are enough (`MaxConn`), one
forwarded at a time (`MaxForwarded`), while the picks of others go on.
*Dispatch*: two frames, because a payload can be damaged by the next frame only; the
nine are a short and a long command to echo, one whose handler sends a command back, one
that is registered late, and five that do not decode (a frame without a byte, a message
without a payload or of no type, a command and a response that are cut short).
`NewCap` and `MaxPooled` are small so that a
buffer that is reused, one that is replaced and one that is dropped all occur.

`CHECK_DEADLOCK` stays on everywhere; where the system may really come to its end,
an action that changes nothing (`Finished`, `Exited`, `Quiet`) says when.

## 4. Fairness

Weak fairness is assumed of the program's goroutines only: a goroutine whose next
statement can be executed executes it. Separate actors get separate conditions.
Nothing is assumed of the callers (they need not call), of the network (it need
not lose anything), of the remote server, of a peer that should read, of any
timer (except the back-off delay of `reconnect`, which elapses, and the
five-second and one-second periods of the agent's loops, and, in `Dispatch`, the thirty
seconds of a command that a handler sent back), or of failures.
In `Dispatch` a call that is in `Lock` goes on once it can, and a goroutine in `RLock`
with it; that `EverybodyFinishes` then holds is due to the thirty seconds alone when the
peer itself waits for a command that the waiting registration holds back.
In `Gateway` no peer is obliged to read, to send or to end: a copier in `Write` has no
deadline, and `NothingLeaks` excepts the connections where a peer that does not read holds
one there for ever (section 7). `Reconnects` has the reachability of the server as its
premise. `AuthSession`
assumes that the link is restored while connections remain, which is what
`Reconnects` says. `Reconcile` assumes that the loop runs for ever; failures are
bounded by `MaxFaults`.

## 5. What is proved

Each proof module but `Codec_proofs` has one inductive invariant `IInv` (first checked with
TLC on the instance of the component's run), one lemma per action, or per group of actions
that disturb the same parts, with one step per part of the invariant, `InitEstablishes`, a
lemma for `Next`, and the temporal step. `tlapm <module>.tla` checks one. Every safety
invariant and every action property that a passing run checks is a theorem, and so are both
refinements; three theorems have a hypothesis (`FewCalls`, `CoresReturn`), which is
explained where they are listed.

**`ClientLink_proofs`**, for any number of callers, connections and contexts, from the one
assumption `NilAssumption` (the nil values are not connections or contexts; an accepted
connection's owner is not a context):

* `TypeCorrect`, `SlotIsOwned`, `LiveLoopIsCurrent`, `TableHoldsOneOutbound`,
  `SocketsAreAccountedFor`: the invariants of the run `ClientLink`;
* `AcceptedAreUnaffected`: its action property;
* `Refinement`: `ClientLink` implements `OutboundLink`.

None of these properties is inductive alone. `SlotOwned`, say, is
preserved by `Install` because the context is checked under the lock, but only if the
connection that is installed was dialed for that context (`PeerOwned`) and a context
that is not cancelled is the one in `clientCancel` (`CurrentContext`). That in turn
is preserved by `ConnectInstall` because a context enters `clientCancel` exactly once,
so the call that brings it is the only one that holds it (`CallOwnsContext`) and it
was not cancelled before (`CancelledStarted`). `NoForgottenSocket` needs to know that
a connection that leaves the slot is closed or held as some call's `previous`
(`ClosedFirst`, `SlotServed`, `PreviousHeld`), and all of them that a fresh identity
is used nowhere (`FreshUnused`). In the refinement,
`ConnectInstall` maps to `Connect`, `DisconnectTake` to `Disconnect`, `Unregister` of the
connection in the slot to `Drop`, `Install` to `Restore`, and every other action to a
stutter.

**`CommandExchange_proofs`**, from `ExchangeAssumption` (there are two ends; a call is
nested in one handler at most, at the other end; identities of calls are not error
values), in two stages.

1. For any number of calls and request IDs, the counter wrapping as often as it likes:
   `TypeCorrect`, `NothingLeaks`, `ReaderGoesOn`, `IDsInUseAreKept`. A channel is
   empty when its response is delivered because a call is in `pendingCmds` only
   before that (`PendingOrDelivered`), is there once (`NoLeakedEntry` fixes its end and its
   ID), and only the reader of its own end ever holds it (`DeliveredAtHome`). That the
   search of `sendCmd` ends on a free ID (`NextIDIsFree`) needs that going up from the
   counter modulo the number of IDs meets every ID (`EveryIDIsMet`) and that the IDs met
   have a first free one (`LeastMember`).
2. While neither end makes as many calls as there are IDs (`FewCalls`, a hypothesis of
   these theorems): `WaitersCanBeAnswered`, and `Refinement`: the exchange implements
   `RemoteCall`. `FewCalls` is necessary: once an ID is given twice, a late response to
   its first command is taken for the response to the second. It makes the counter
   the number of registered calls, so that IDs identify calls (`IDsCounted`); then
   every frame (`CommandFrames`, `ResponseFrames`), handler (`Handled`), delivery and
   channel (`OwnResponse`) carries the ID of the call it belongs to. That a command is on
   the wire once, before it is handled, is what makes it handled at most once.
   `SendCmd` maps to `Make` (`Fail` on a closed connection), the ends of the wait to `Respond`
   or `Fail`, `ReadCommand` to `Handle`, `Execute` to `Finish`, the rest to a stutter.

**`WriteFrame_proofs`**, for any number of writers and of pieces per frame:
`TypeCorrect`, `OneWriter`, `WholeFrames`, `TimeoutsAreOwn`, `ResultsAreTrue`. The core is that a
deadline on the socket was set by the holder of the lock or by that call's callback
(`DeadlineOwn`), and that no callback outlives the call that armed it (`CallbackOwn`):
`writeFrame` stops its callback, or waits for it, before it resets the deadline and
releases the lock. Frames stay whole because the last piece on the stream belongs to the
frame that is being written, if that has a piece yet (`LatestPiece`), or ends a frame, or
was the last before the socket was closed (`PartialFrameCloses`).

**`AuthSession_proofs`**, for any number of connections, time-outs and other programs:
`TypeCorrect`, `OnlyWithToken`, and the action property `MarkedByOwnToken`. A list is
answered on a marked connection, and the token was presented on every marked one
(`MarksPresented`), whether its `TokenAuth` was answered or had timed out before it was
handled; a command is on a connection that was made, or on the program's own
(`SentOnMade`). That the ping loop ends with the process needs that only a goroutine at a
command of its loop waits for an answer (`OnlySendersWait`).

**`Codec_proofs`**, about the operators alone, from `CodecAssumption` (the limit on frames
is a positive number): `FrameRoundTrip`, `MessageRoundTrip`, `CommandRoundTrip` and
`ResponseRoundTrip` say that what is encoded is what is decoded, for all contents
whose length fits the field that tells it; `MessageRoundTrip` needs a payload, because
`DecodeMessageInto` refuses an empty one. `DecodersStayInside` says that whatever bytes arrive,
the payload that a decoder returns is a slice of its input behind the header. The
proofs rest on what four bytes hold (`Uint32Read`) and on where the parts of a
concatenation are (`Fields`).

**`Dispatch_proofs`**, for any number of frames, buffers and registrations and any traffic,
from the assumptions of `Pools` and `CommandStore` (types of the constants),
`DispatchAssumption` (there are buffers for all who may use one at a time, and the bytes and
request IDs of the instance fit 32 bits) and `TrafficAssumption` (a frame that is read
is as long as it announces, and the peer does not answer a request ID in use on its own
accord): `TypeCorrect`, `HandedStaysIntact`, `AnswersStayIntact`, and the action property
`HandlersStay`.

* A buffer has one user, or is in one pool (`OneUser`). `Get` makes a new one when the pool
  is empty; that there is one left to make follows from counting the users (`FewBuffers`).
* Nobody but its user writes into a buffer, so that the receive buffer holds the last
  frame, or the response of the peer to a handler (`ReceivedIntact`), until it is handed on as a
  copy; and an answer's buffer holds the encoded response until it is written
  (`EncodedIntact`). With the round trips of `Codec_proofs` the bytes in it decode to that
  response again, which is `AnswersIntact`.
* The read lock is held or asked for by the goroutines in `Execute`, and those that only ask
  have not looked up a handler yet (`LocksOK`). So whoever waits inside a handler holds it,
  and `HandlersStay` follows: nothing is registered until that handler has returned.

**`Reconcile_proofs`**, for any tasks, images, configurations and bounds on what goes wrong,
from `ReconcileAssumption` (the types of the constants) and `InitialAssumption` (what an
earlier run of the agent left is as its labels say): `TypeCorrect`, and the action
properties `ListedSurvives`, `StartableBeforeStop` and `UnchangedStaysUp`. What was always
listed is on every list the agent works from (`AlwaysKnown`), and the first loop works only
from a list that was had; this gives `ListedSurvives`. In the first loop only
what is not listed is left to stop (`LoopsAreApart`), in the second the image of the task was
pulled before anything else (`Pulled`), and a failed pull leaves that task alone; this gives
`StartableBeforeStop`. For `UnchangedStaysUp`, the decision of `reconcileTask` must still be
right when it is carried out, several calls later: the container is still there and still
differs from the list (`StopIsDue`), because labels tell what a container was made from
(`LabelsTell`) and containers of the agent change only in their state. A container that is
as the list says differs from it for one reason only, that its CPU limit came back changed; hence
the hypothesis `CoresReturn` of `UnchangedStaysUp`. It is true of the run's values and false of
those of `Reconcile_cpu`, which is finding 4 below.

**`Gateway_proofs`**, for any number of connections and ports and any services, from
`GatewayAssumption` (the types of the constants): `TypeCorrect`, `NoSocketLeaks`,
`SignalsHaveRoom` and the action property `PicksMoveTheCounterOn`. Where a
goroutine stands settles which of its sockets are open, which copiers run and how
many of their signals are left (`Positions`); one of the two signals of a connection is taken
before it ends, so the channel of two never makes a copier wait. The counter never
exceeds the picks that were stored (`CountedPicks`). While picks overlap, the counter and
every value read of it lie between `base` and `base` plus the number of picks that were stored
(`InGroup`), and the last one to be stored is one above what it read.

## 6. What is only model-checked

All liveness properties: fairness and ENABLED are beyond the prover. Of `Cores`, the
values: rounding to float32 takes powers of two of a computed exponent, which is out of reach of
the SMT solver, so what a `MaxCPU` becomes is evaluated by TLC, and the proofs have
`CoresReturn` as a hypothesis where it matters.

## 7. Where the code and what is said of it disagree

Each has a run that TLC finds violated; `PROJECT.json` ("findings") quotes the lines.

1. `Reconcile_orphan`: `ListTasks` lists running containers only, so a task that
   exited before it was delisted is never removed, and neither is one whose removal
   failed after it was stopped.
2. `Reconcile_foreign`: `reconcileTask` stops and removes a container that has the
   name of a task and does not carry the label.
3. `Reconcile_command`: a task whose command is removed from its configuration keeps
   the old command instead of the image's default.
4. `Reconcile_cpu`: `MaxCPU` is multiplied by 1e9 as a float32 for the daemon and divided
   on the way back. 2.25, 2.75, 3.25, 3.75 and 4.5 cores, among others, come back as a
   neighbouring float32, and such a task is stopped and started again on every pass.

Seen, without a run of their own: the README's strategy `round-robin` is `round_robin` in
the code (`cluster/model.go:43`), and a service with the documented name refuses
everybody (`PickNone`); picks that overlap race on `roundRobinCounter` and take the same
endpoint, or lose an increment (`PicksMoveOn` says what is left); the ports of a service
share that counter and have endpoint lists of their own (`cluster/model.go:26`), so picks on
one port make another skip or repeat endpoints; a copier that is blocked in `Write` to a
peer that does not read never learns that its source ended, and stays, with the other
copier, the goroutine that waits for them and both sockets, until that peer reads or breaks
(`forwarding.go:26`: without its exception TLC finds `NothingLeaks` violated);
`ConnCtx.LastActivity` "tracks the last time a message was
received" and is never updated (`protocolcommandstore/model.go:20`); the comment of
`EncodeCommandInto` names fields the format does not have; `forwardHttpReq` never
forwards anything (above, `forwarding.go:51`); `CompareTo` does not notice an
environment variable that was removed (`runtime.go:94`); a service of an unknown type
keeps those after it from being started (`gateway.go:33`).

## 8. Not modelled

The stores (only the command line demo fills them, before anything reads them), `CanPlaceTask`
(one comparison that nothing calls) and ICMP ping (network I/O), the placement reconciler (a stub
whose body is commented out), configuration, logging, the CLI demo, the containerd
runtime (never selected), the construction of the Docker client. The pools of structs
(`Message`, `Command`, `Response`): every struct is zeroed when it is put back, and none is
used after that. Environment, ports, volumes and memory of a `TaskConfig`. Contents of
forwarded TCP streams. Frames that do not decode are part of `Dispatch` and not of
`CommandExchange`, where both ends are this program.

## 9. Plan

Stages 1 to 7 exist.

1. `OutboundLink`, `ClientLink` with proofs and refinement: the link everything uses.
2. `CommandExchange` with its abstract `RemoteCall`, `WriteFrame`: what goes over it.
3. `AuthSession`, `Reconcile` with `Cores`: what the agent does with it.
4. `Gateway`, TCP and HTTP.
5. `Codec`, `Pools`, `CommandStore` and their composition `Dispatch`.
6. Proofs about `CommandExchange` (with the refinement), `WriteFrame` and `AuthSession`.
7. Proofs about `Gateway`, `Codec`, `Reconcile` and `Dispatch` (with `Pools` and
   `CommandStore`).
8. The stores, once the placement reconciler uses them.
