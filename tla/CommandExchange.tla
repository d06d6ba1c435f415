-------------------------- MODULE CommandExchange ---------------------------
(***************************************************************************)
(* Commands and responses over one connection between two protocol         *)
(* servers (protocolserver/server.go and connection.go): sendCmd in any    *)
(* number of goroutines on both ends, one receive goroutine per end, one   *)
(* goroutine per command handled, time-outs, and close() racing all of     *)
(* them.                                                                   *)
(*                                                                         *)
(* A member of Call is one execution of sendCmd; its command, its response *)
(* channel and the goroutine that handles it at the other end share its    *)
(* identity.  A handler may send one command back to its peer and wait for *)
(* the response before it answers (back).  Frames are whole here: how      *)
(* writeFrame keeps them whole is the subject of WriteFrame.               *)
(*                                                                         *)
(* The few definitions that no action uses, each before the definition it  *)
(* resembles, are defects that PROJECT.json substitutes to show that a     *)
(* property would notice them.                                             *)
(***************************************************************************)
EXTENDS Naturals, Sequences

CONSTANTS
    Peer,       \* the two ends of the connection
    Call,       \* executions of sendCmd: bounds how many there are
    NoCall,     \* nil
    at,         \* at[c]: the end where c is called
    back,       \* back[c]: the call the handler of c makes, or NoCall
    IDSpace,    \* how many request IDs there are (2^32 in the code)
    Timeouts,   \* whether a deadline of 30 s or a caller's context may expire
    Closes      \* whether an end may be closed by something outside the exchange

ASSUME ExchangeAssumption ==
    /\ \E p, q \in Peer : p # q /\ Peer = {p, q}
    /\ NoCall \notin Call
    /\ Call \cap {"closed", "timeout"} = {}
    /\ at \in [Call -> Peer]
    /\ back \in [Call -> Call \cup {NoCall}]
    /\ \A c \in Call : back[c] # NoCall => at[back[c]] # at[c]
    /\ \A c, d \in Call : back[c] # NoCall /\ back[c] = back[d] => c = d
    /\ IDSpace \in Nat \ {0}
    /\ Timeouts \in BOOLEAN
    /\ Closes \in BOOLEAN

VARIABLES
    state,      \* "open", "closing" (context cancelled, socket closed), "closed"
    wire,       \* the frames on their way to each end
    counter,    \* connection.requestIDCounter
    pending,    \* connection.pendingCmds
    call,       \* the progress and the request ID of each sendCmd
    resp,       \* its channel respChan, of capacity 1
    result,     \* what it returned: the call its response answers, or an error
    delivering, \* the channel the receive goroutine is about to send on
    handler     \* the goroutine in handleCommand for each call

vars == <<state, wire, counter, pending, call, resp, result, delivering, handler>>

ID == 0 .. IDSpace - 1
Other(p) == CHOOSE q \in Peer : q # p
Errors == {"closed", "timeout"}
NoMail == [to |-> NoCall, answers |-> NoCall]

Init ==
    /\ state = [p \in Peer |-> "open"]
    /\ wire = [p \in Peer |-> <<>>]
    /\ counter = [p \in Peer |-> 0]
    /\ pending = [p \in Peer |-> [i \in ID |-> NoCall]]
    /\ call = [c \in Call |-> [pc |-> "idle", id |-> 0]]
    /\ resp = [c \in Call |-> NoCall]
    /\ result = [c \in Call |-> "none"]
    /\ delivering = [p \in Peer |-> NoMail]
    /\ handler = [c \in Call |-> [pc |-> "none", id |-> 0]]

-----------------------------------------------------------------------------
(* Helpers.                                                                *)

\* conn.Ctx.Err() != nil
Closed(p) == state[p] # "open"

\* A handler's own call is made by the handler; every other call by the program.
Nested == {back[c] : c \in Call} \ {NoCall}
Called(c) ==
    IF c \in Nested
    THEN \E d \in Call : back[d] = c /\ handler[d].pc = "run"
    ELSE TRUE

\* A written frame reaches the other end unless that end has closed its socket.
Send(q, frame) ==
    wire' = IF Closed(q) THEN wire ELSE [wire EXCEPT ![q] = Append(@, frame)]

GoTo(c, pc) == call' = [call EXCEPT ![c].pc = pc]
Return(c, r) == GoTo(c, "cleanup") /\ result' = [result EXCEPT ![c] = r]

\* The first steps of close(): closeOnce, cancel the context, close the socket.
StartClosing(p) == state' = [state EXCEPT ![p] = IF @ = "open" THEN "closing" ELSE @]

-----------------------------------------------------------------------------
(* sendCmd, in the goroutine of call c.                                    *)

\* The checks before anything is registered.  A connection that is closed may also be out
\* of the table or the slot already (ErrConnectionNotFound, ErrClientNotConnected): all
\* three errors are "closed" here.  A context that is done on entry is left to the later
\* steps, any of which may find it so (Expire).
SendCmd(c) ==
    LET p == at[c]
    IN  /\ call[c].pc = "idle"
        /\ Called(c)
        /\ IF Closed(p)
           THEN /\ GoTo(c, "returned")
                /\ result' = [result EXCEPT ![c] = "closed"]
           ELSE GoTo(c, "register") /\ UNCHANGED result
        /\ UNCHANGED <<state, wire, counter, pending, resp, delivering, handler>>

\* The ID given to the next command: the counter is advanced, with the wrap of
\* an unsigned integer, until the ID is not in use.
NextIDStuck(p) == counter[p]
NextIDUnchecked(p) == (counter[p] + 1) % IDSpace
NextID(p) ==
    LET id(n) == (counter[p] + n) % IDSpace
        free(n) == pending[p][id(n)] = NoCall
    IN  id(CHOOSE n \in 1 .. IDSpace : free(n) /\ \A m \in 1 .. n - 1 : ~free(m))

Register(c) ==
    LET p == at[c]
        id == NextID(p)
    IN  /\ call[c].pc = "register"
        /\ \E i \in ID : pending[p][i] = NoCall
        /\ counter' = [counter EXCEPT ![p] = id]
        /\ pending' = [pending EXCEPT ![p][id] = c]
        /\ call' = [call EXCEPT ![c] = [pc |-> "write", id |-> id]]
        /\ UNCHANGED <<state, wire, resp, result, delivering, handler>>

\* writeFrame succeeded.
WriteCommand(c) ==
    LET p == at[c]
    IN  /\ call[c].pc = "write"
        /\ ~Closed(p)
        /\ Send(Other(p), [type |-> "command", id |-> call[c].id, call |-> c])
        /\ GoTo(c, "wait")
        /\ UNCHANGED <<state, counter, pending, resp, result, delivering, handler>>

\* writeFrame failed: the connection was closed ...
WriteRefused(c) ==
    /\ call[c].pc = "write"
    /\ Closed(at[c])
    /\ Return(c, "closed")
    /\ UNCHANGED <<state, wire, counter, pending, resp, delivering, handler>>

\* ... or the context expired, while waiting for the write lock or in the middle
\* of the frame, in which case the connection is closed.
WriteTimesOut(c) ==
    /\ Timeouts
    /\ call[c].pc = "write"
    /\ UNCHANGED state \/ StartClosing(at[c])
    /\ Return(c, "timeout")
    /\ UNCHANGED <<wire, counter, pending, resp, delivering, handler>>

\* The three arms of the select; any one that is ready may be taken.
ReceiveResponse(c) ==
    /\ call[c].pc = "wait"
    /\ resp[c] # NoCall
    /\ Return(c, resp[c])
    /\ UNCHANGED <<state, wire, counter, pending, resp, delivering, handler>>

WaitTimesOut(c) ==
    /\ Timeouts
    /\ call[c].pc = "wait"
    /\ Return(c, "timeout")
    /\ UNCHANGED <<state, wire, counter, pending, resp, delivering, handler>>

WaitEndsOnClose(c) ==
    /\ call[c].pc = "wait"
    /\ Closed(at[c])
    /\ Return(c, "closed")
    /\ UNCHANGED <<state, wire, counter, pending, resp, delivering, handler>>

\* The deferred delete of the pending entry, by request ID.
CleanupForgets(c) ==
    /\ call[c].pc = "cleanup"
    /\ GoTo(c, "returned")
    /\ UNCHANGED <<state, wire, counter, pending, resp, result, delivering, handler>>

CleanupLatest(c) ==
    /\ call[c].pc = "cleanup"
    /\ pending' = [pending EXCEPT ![at[c]][counter[at[c]]] = NoCall]
    /\ GoTo(c, "returned")
    /\ UNCHANGED <<state, wire, counter, resp, result, delivering, handler>>

Cleanup(c) ==
    /\ call[c].pc = "cleanup"
    /\ pending' = [pending EXCEPT ![at[c]][call[c].id] = NoCall]
    /\ GoTo(c, "returned")
    /\ UNCHANGED <<state, wire, counter, resp, result, delivering, handler>>

-----------------------------------------------------------------------------
(* The receive goroutine of end p: serveConnection and handleMessage.      *)

\* Commands are handled in goroutines of their own, so that the receive loop can
\* read the response a handler is waiting for.
ReaderFreeInline(p) ==
    /\ delivering[p] = NoMail
    /\ \A c \in Call : at[c] # p => handler[c].pc \notin {"run", "answer"}
ReaderFree(p) == delivering[p] = NoMail

\* What the receive loop can read: nothing once the socket is closed.
Readable(p, type) ==
    /\ ~Closed(p)
    /\ ReaderFree(p)
    /\ wire[p] # <<>>
    /\ Head(wire[p]).type = type

ReadCommand(p) ==
    LET frame == Head(wire[p])
    IN  /\ Readable(p, "command")
        /\ wire' = [wire EXCEPT ![p] = Tail(@)]
        /\ handler' = [handler EXCEPT ![frame.call] = [pc |-> "run", id |-> frame.id]]
        /\ UNCHANGED <<state, counter, pending, call, resp, result, delivering>>

\* handleResponse under the lock: take the channel out of pendingCmds, or ignore
\* a response whose ID is unknown.
PendingAfterKept(p, id) == pending
PendingAfter(p, id) == [pending EXCEPT ![p][id] = NoCall]

ReadResponse(p) ==
    LET frame == Head(wire[p])
        to == pending[p][frame.id]
    IN  /\ Readable(p, "response")
        /\ wire' = [wire EXCEPT ![p] = Tail(@)]
        /\ pending' = PendingAfter(p, frame.id)
        /\ delivering' =
               IF to = NoCall THEN delivering
               ELSE [delivering EXCEPT ![p] = [to |-> to, answers |-> frame.call]]
        /\ UNCHANGED <<state, counter, call, resp, result, handler>>

\* respChan <- resp, after the lock is released.
Deliver(p) ==
    LET mail == delivering[p]
    IN  /\ mail # NoMail
        /\ resp[mail.to] = NoCall
        /\ resp' = [resp EXCEPT ![mail.to] = mail.answers]
        /\ delivering' = [delivering EXCEPT ![p] = NoMail]
        /\ UNCHANGED <<state, wire, counter, pending, call, result, handler>>

\* End of file: the other end closed its socket and its frames are consumed.
ReadEOF(p) ==
    /\ ~Closed(p)
    /\ Closed(Other(p))
    /\ ReaderFree(p)
    /\ wire[p] = <<>>
    /\ StartClosing(p)
    /\ UNCHANGED <<wire, counter, pending, call, resp, result, delivering, handler>>

-----------------------------------------------------------------------------
(* handleCommand, in the goroutine that handles call c at the other end.   *)

\* The registered handler finished, its own command (if any) having returned.
Execute(c) ==
    /\ handler[c].pc = "run"
    /\ back[c] # NoCall => call[back[c]].pc = "returned"
    /\ handler' = [handler EXCEPT ![c].pc = "answer"]
    /\ UNCHANGED <<state, wire, counter, pending, call, resp, result, delivering>>

\* resp.ReqID = cmd.ReqID; writeResponse.
AnswerIDNext(c) == handler[c].id + 1
AnswerID(c) == handler[c].id

WriteAnswer(c) ==
    LET p == at[c]
    IN  /\ handler[c].pc = "answer"
        /\ ~Closed(Other(p))
        /\ Send(p, [type |-> "response", id |-> AnswerID(c), call |-> c])
        /\ handler' = [handler EXCEPT ![c].pc = "done"]
        /\ UNCHANGED <<state, counter, pending, call, resp, result, delivering>>

\* The answer could not be written; handleCommand ignores that.  A time-out before
\* the first byte leaves the connection open, and the answer is lost.
AnswerLost(c) ==
    LET q == Other(at[c])
    IN  /\ handler[c].pc = "answer"
        /\ \/ /\ Closed(q) \/ Timeouts
              /\ StartClosing(q)
              /\ handler' = [handler EXCEPT ![c].pc = "done"]
           \/ /\ Timeouts
              /\ UNCHANGED state
              /\ handler' = [handler EXCEPT ![c].pc = "lost"]
        /\ UNCHANGED <<wire, counter, pending, call, resp, result, delivering>>

-----------------------------------------------------------------------------
(* close().                                                                *)

\* Disconnect, a new ConnectTo or a broken connection.
Close(p) ==
    /\ Closes
    /\ state[p] = "open"
    /\ StartClosing(p)
    /\ UNCHANGED <<wire, counter, pending, call, resp, result, delivering, handler>>

\* The last step of close(): clear the pending commands.
ClearPending(p) ==
    /\ state[p] = "closing"
    /\ state' = [state EXCEPT ![p] = "closed"]
    /\ pending' = [pending EXCEPT ![p] = [i \in ID |-> NoCall]]
    /\ wire' = [wire EXCEPT ![p] = <<>>]
    /\ UNCHANGED <<counter, call, resp, result, delivering, handler>>

-----------------------------------------------------------------------------
CallStep(c) ==
    \/ Register(c)
    \/ WriteCommand(c)
    \/ WriteRefused(c)
    \/ ReceiveResponse(c)
    \/ WaitEndsOnClose(c)
    \/ Cleanup(c)

Expire(c) == WriteTimesOut(c) \/ WaitTimesOut(c)

ReaderStep(p) == ReadCommand(p) \/ ReadResponse(p) \/ Deliver(p) \/ ReadEOF(p)

HandlerStep(c) == Execute(c) \/ WriteAnswer(c) \/ AnswerLost(c)

\* No goroutine has work left: nothing more need happen.
Finished ==
    /\ \A c \in Call : /\ call[c].pc \in {"idle", "returned"}
                        /\ handler[c].pc \in {"none", "done", "lost"}
    /\ UNCHANGED vars

Next ==
    \/ \E c \in Call : SendCmd(c) \/ CallStep(c) \/ Expire(c) \/ HandlerStep(c)
    \/ \E p \in Peer : ReaderStep(p) \/ Close(p) \/ ClearPending(p)
    \/ Finished

Spec == Init /\ [][Next]_vars

\* The goroutines keep running.  A nested call is part of its handler; nothing
\* obliges the program to make the other calls or to close anything, and no
\* timer is counted on.
Fairness ==
    /\ \A c \in Call : WF_vars(CallStep(c)) /\ WF_vars(HandlerStep(c))
    /\ \A c \in Nested : WF_vars(SendCmd(c))
    /\ \A p \in Peer : WF_vars(ReaderStep(p)) /\ WF_vars(ClearPending(p))

FairSpec == Spec /\ Fairness

-----------------------------------------------------------------------------
(* Properties.                                                             *)

Frame == [type : {"command", "response"}, id : ID, call : Call]

\* Type invariant of both connection structs and of the goroutines' locals.
TypeOK ==
    /\ state \in [Peer -> {"open", "closing", "closed"}]
    /\ wire \in [Peer -> Seq(Frame)]
    /\ counter \in [Peer -> ID]
    /\ pending \in [Peer -> [ID -> Call \cup {NoCall}]]
    /\ call \in [Call -> [pc : {"idle", "register", "write", "wait", "cleanup", "returned"},
                          id : ID]]
    /\ resp \in [Call -> Call \cup {NoCall}]
    /\ result \in [Call -> Call \cup Errors \cup {"none"}]
    /\ delivering \in [Peer -> [to : Call \cup {NoCall}, answers : Call \cup {NoCall}]]
    /\ handler \in [Call -> [pc : {"none", "run", "answer", "done", "lost"}, id : ID]]

\* The calls as their callers see them: what RemoteCall says of each.
PhaseOf(pc) ==
    CASE pc = "idle" -> "idle"
      [] pc \in {"cleanup", "returned"} -> "returned"
      [] OTHER -> "called"
HandlingOf(pc) ==
    CASE pc = "none" -> "none"
      [] pc = "run" -> "running"
      [] OTHER -> "finished"
OutcomeOf(r) == IF r \in Errors THEN "error" ELSE r

Remote == INSTANCE RemoteCall WITH
    phase <- [c \in Call |-> PhaseOf(call[c].pc)],
    handling <- [c \in Call |-> HandlingOf(handler[c].pc)],
    outcome <- [c \in Call |-> OutcomeOf(result[c])]

\* sendCmd returns the response to its own command and to no other, whatever the order of
\* answers, time-outs and closings (request IDs of connection.go), commands are handled at
\* most once, and a handler answers only after the command it sent back has returned.
\* Holds while no direction uses an ID twice.
ImplementsRemoteCall == Remote!Spec

\* pendingCmds never keeps an entry for a call that returned, even one that was
\* registered after close() cleared the map.
NoLeakedEntry ==
    \A p \in Peer, i \in ID :
        LET c == pending[p][i]
        IN  c # NoCall =>
                /\ at[c] = p
                /\ call[c].id = i
                /\ call[c].pc \in {"write", "wait", "cleanup"}

\* On an open connection a call that still waits can still be answered: its entry
\* is there, or its response is on its way through the receive goroutine, or it
\* is in the channel.  Holds while no direction uses an ID twice.
StillAnswerable ==
    \A c \in Call :
        call[c].pc \in {"write", "wait"} /\ ~Closed(at[c]) =>
            \/ pending[at[c]][call[c].id] = c
            \/ delivering[at[c]].to = c
            \/ resp[c] # NoCall

\* The receive goroutine never blocks on a response channel: the channel it is
\* about to send on is empty (respChan has capacity 1 in sendCmd).
ReaderNeverBlocks ==
    \A p \in Peer : delivering[p] # NoMail => resp[delivering[p].to] = NoCall

\* A request ID in use is never given to a second command, also when the counter
\* wraps around (the loop in sendCmd).
NeverOverwritten ==
    [][\A p \in Peer, i \in ID :
         pending[p][i] # NoCall => pending'[p][i] \in {pending[p][i], NoCall}]_vars

\* The other end gave up on writing the answer to c, or to the command that the
\* handler of c sends back: only a time-out ends c.
Abandoned(c) ==
    \/ handler[c].pc = "lost"
    \/ back[c] # NoCall /\ handler[back[c]].pc = "lost"

\* Every call returns without its own time-out being counted on, whatever is closed
\* and whatever else times out, also when handlers send commands back (comment in
\* handleMessage); unless the other end gave up on writing the answer.
EveryCallReturns ==
    \A c \in Call : call[c].pc # "idle" ~> call[c].pc = "returned" \/ Abandoned(c)

=============================================================================
