----------------------------- MODULE WriteFrame -----------------------------
(***************************************************************************)
(* connection.writeFrame (protocolserver/connection.go): goroutines that   *)
(* write frames to one connection share a write lock, a write deadline of  *)
(* the socket, and the callback with which a cancelled context interrupts  *)
(* a blocked write.                                                        *)
(*                                                                         *)
(* A member of Writer is one call of writeFrame, with a frame and a        *)
(* context of its own; both callers (sendCmd, writeResponse) give it a     *)
(* context with a deadline.  The socket takes a frame in Chunks pieces,    *)
(* which is what short writes and a peer that stops reading come to.       *)
(*                                                                         *)
(* The few definitions that no action uses, each before the definition it  *)
(* resembles, are defects that PROJECT.json substitutes to show that a     *)
(* property would notice them.                                             *)
(***************************************************************************)
EXTENDS Naturals, Sequences

CONSTANTS
    Writer,     \* calls of writeFrame
    NoWriter,   \* the write lock is free
    Chunks      \* pieces in which the socket accepts a frame

ASSUME WriterAssumption ==
    /\ NoWriter \notin Writer
    /\ Writer \cap {"none", "past"} = {}
    /\ Chunks \in Nat \ {0}

VARIABLES
    pc,         \* where each call of writeFrame is
    lock,       \* the holder of writeLock
    closed,     \* close() has run
    due,        \* the calls whose deadline has passed
    ended,      \* the calls whose context is done: expired or cancelled
    deadline,   \* the socket's write deadline: none, a call's own, or in the past
    callback,   \* the AfterFunc of each call
    sent,       \* the pieces of its frame that each call has written
    stream,     \* what the peer receives: <<writer, piece>> in order
    result      \* what each call returns

vars == <<pc, lock, closed, due, ended, deadline, callback, sent, stream, result>>

Init ==
    /\ pc = [w \in Writer |-> "idle"]
    /\ lock = NoWriter
    /\ closed = FALSE
    /\ due = {}
    /\ ended = {}
    /\ deadline = "none"
    /\ callback = [w \in Writer |-> "none"]
    /\ sent = [w \in Writer |-> 0]
    /\ stream = <<>>
    /\ result = [w \in Writer |-> "none"]

-----------------------------------------------------------------------------
GoTo(w, l) == pc' = [pc EXCEPT ![w] = l]
Result(w, r) == result' = [result EXCEPT ![w] = r]

\* Writes fail once the deadline of the socket has passed.
DeadlinePassed == deadline = "past" \/ deadline \in due

\* The call is made.
Call(w) ==
    /\ pc[w] = "idle"
    /\ GoTo(w, "acquire")
    /\ UNCHANGED <<lock, closed, due, ended, deadline, callback, sent, stream, result>>

\* The three arms of the first select; any one that is ready may be taken.
AcquireUnlocked(w) ==
    /\ pc[w] = "acquire"
    /\ lock' = w
    /\ GoTo(w, "check")
    /\ UNCHANGED <<closed, due, ended, deadline, callback, sent, stream, result>>

Acquire(w) ==
    /\ pc[w] = "acquire"
    /\ lock = NoWriter
    /\ lock' = w
    /\ GoTo(w, "check")
    /\ UNCHANGED <<closed, due, ended, deadline, callback, sent, stream, result>>

AcquireAbandoned(w) ==
    /\ pc[w] = "acquire"
    /\ \/ w \in ended /\ Result(w, "timeout")
       \/ closed /\ Result(w, "closed")
    /\ GoTo(w, "done")
    /\ UNCHANGED <<lock, closed, due, ended, deadline, callback, sent, stream>>

\* Both contexts are checked again under the lock.
Check(w) ==
    /\ pc[w] = "check"
    /\ IF w \in ended THEN Result(w, "timeout") /\ GoTo(w, "release")
       ELSE IF closed THEN Result(w, "closed") /\ GoTo(w, "release")
       ELSE UNCHANGED result /\ GoTo(w, "deadline")
    /\ UNCHANGED <<lock, closed, due, ended, deadline, callback, sent, stream>>

\* SetWriteDeadline fails on a closed socket only.
SetDeadline(w) ==
    /\ pc[w] = "deadline"
    /\ IF closed
       THEN Result(w, "closed") /\ GoTo(w, "release") /\ UNCHANGED deadline
       ELSE deadline' = w /\ GoTo(w, "arm") /\ UNCHANGED result
    /\ UNCHANGED <<lock, closed, due, ended, callback, sent, stream>>

\* context.AfterFunc: the callback starts at once if the context is done.
ArmNothing(w) ==
    /\ pc[w] = "arm"
    /\ callback' = [callback EXCEPT ![w] = "stopped"]
    /\ GoTo(w, "write")
    /\ UNCHANGED <<lock, closed, due, ended, deadline, sent, stream, result>>

Arm(w) ==
    /\ pc[w] = "arm"
    /\ callback' = [callback EXCEPT ![w] = IF w \in ended THEN "started" ELSE "armed"]
    /\ GoTo(w, "write")
    /\ UNCHANGED <<lock, closed, due, ended, deadline, sent, stream, result>>

\* WriteFrame: the socket takes another piece ...
WriteChunkOverrun(w) ==
    /\ pc[w] = "write"
    /\ sent[w] <= Chunks
    /\ ~closed /\ ~DeadlinePassed
    /\ sent' = [sent EXCEPT ![w] = @ + 1]
    /\ stream' = Append(stream, <<w, sent[w] + 1>>)
    /\ UNCHANGED <<pc, lock, closed, due, ended, deadline, callback, result>>

WriteChunk(w) ==
    /\ pc[w] = "write"
    /\ sent[w] < Chunks
    /\ ~closed /\ ~DeadlinePassed
    /\ sent' = [sent EXCEPT ![w] = @ + 1]
    /\ stream' = Append(stream, <<w, sent[w] + 1>>)
    /\ UNCHANGED <<pc, lock, closed, due, ended, deadline, callback, result>>

\* ... or the frame is complete ...
WriteDoneShort(w) ==
    /\ pc[w] = "write"
    /\ sent[w] > 0
    /\ Result(w, "ok")
    /\ GoTo(w, "stop")
    /\ UNCHANGED <<lock, closed, due, ended, deadline, callback, sent, stream>>

WriteDone(w) ==
    /\ pc[w] = "write"
    /\ sent[w] = Chunks
    /\ Result(w, "ok")
    /\ GoTo(w, "stop")
    /\ UNCHANGED <<lock, closed, due, ended, deadline, callback, sent, stream>>

\* ... or the write is interrupted by the deadline or by close(), or it fails at any
\* moment because the peer reset the connection.
WriteFails(w, why) ==
    /\ pc[w] = "write"
    /\ sent[w] < Chunks
    /\ \/ why = "timeout" /\ DeadlinePassed
       \/ why = "closed" /\ closed
       \/ why = "broken" /\ ~closed
    /\ Result(w, why)
    /\ GoTo(w, "stop")
    /\ UNCHANGED <<lock, closed, due, ended, deadline, callback, sent, stream>>

\* "Wait for the callback before resetting the deadline so it cannot affect the
\* next writer": stop() reports whether it prevented the callback.
StopWithoutWaiting(w) ==
    /\ pc[w] = "stop"
    /\ callback' = [callback EXCEPT ![w] = IF @ = "armed" THEN "stopped" ELSE @]
    /\ GoTo(w, "reset")
    /\ UNCHANGED <<lock, closed, due, ended, deadline, sent, stream, result>>

Stop(w) ==
    /\ pc[w] = "stop"
    /\ callback[w] # "started" /\ callback[w] # "set"
    /\ callback' = [callback EXCEPT ![w] = IF @ = "armed" THEN "stopped" ELSE @]
    /\ GoTo(w, "reset")
    /\ UNCHANGED <<lock, closed, due, ended, deadline, sent, stream, result>>

\* The deadline is reset; after a failed write the connection is closed, because
\* a partial frame makes the stream unusable.
ClosedAfterNothing(w) == closed
ClosedAfter(w) == closed \/ result[w] # "ok"

Reset(w) ==
    /\ pc[w] = "reset"
    /\ deadline' = "none"
    /\ closed' = ClosedAfter(w)
    /\ GoTo(w, "release")
    /\ UNCHANGED <<lock, due, ended, callback, sent, stream, result>>

\* The deferred release of the write lock.
Release(w) ==
    /\ pc[w] = "release"
    /\ lock' = NoWriter
    /\ GoTo(w, "done")
    /\ UNCHANGED <<closed, due, ended, deadline, callback, sent, stream, result>>

-----------------------------------------------------------------------------
(* The callback of a call, in a goroutine of its own.                      *)

CallbackSets(w) ==
    /\ callback[w] = "started"
    /\ deadline' = "past"
    /\ callback' = [callback EXCEPT ![w] = "set"]
    /\ UNCHANGED <<pc, lock, closed, due, ended, sent, stream, result>>

\* close(interrupted)
CallbackEnds(w) ==
    /\ callback[w] = "set"
    /\ callback' = [callback EXCEPT ![w] = "finished"]
    /\ UNCHANGED <<pc, lock, closed, due, ended, deadline, sent, stream, result>>

-----------------------------------------------------------------------------
(* The environment: time, the callers, and close() by another goroutine.   *)

\* The deadline of the context passes.  The socket's timer and the context's
\* are two timers: the socket may notice first.
TimePasses(w) ==
    /\ w \notin due
    /\ due' = due \cup {w}
    /\ UNCHANGED <<pc, lock, closed, ended, deadline, callback, sent, stream, result>>

\* The context is done, by its timer or by its caller, and starts the callback.
ContextEnds(w) ==
    /\ w \notin ended
    /\ ended' = ended \cup {w}
    /\ callback' = [callback EXCEPT ![w] = IF @ = "armed" THEN "started" ELSE @]
    /\ UNCHANGED <<pc, lock, closed, due, deadline, sent, stream, result>>

Close ==
    /\ ~closed
    /\ closed' = TRUE
    /\ UNCHANGED <<pc, lock, due, ended, deadline, callback, sent, stream, result>>

-----------------------------------------------------------------------------
\* The steps that a call takes without the help of its peer.
Step(w) ==
    \/ Acquire(w)
    \/ AcquireAbandoned(w)
    \/ Check(w)
    \/ SetDeadline(w)
    \/ Arm(w)
    \/ WriteDone(w)
    \/ \E why \in {"timeout", "closed"} : WriteFails(w, why)
    \/ Stop(w)
    \/ Reset(w)
    \/ Release(w)

CallbackStep(w) == CallbackSets(w) \/ CallbackEnds(w)

\* Every call returned and every timer has fired: nothing more can happen.
Finished ==
    /\ closed
    /\ \A w \in Writer : pc[w] = "done" /\ w \in due /\ w \in ended
    /\ UNCHANGED vars

Next ==
    \/ \E w \in Writer :
           \/ Call(w) \/ Step(w) \/ WriteChunk(w) \/ WriteFails(w, "broken")
           \/ CallbackStep(w) \/ TimePasses(w) \/ ContextEnds(w)
    \/ Close
    \/ Finished

Spec == Init /\ [][Next]_vars

\* The goroutines keep running; the peer need not read (WriteChunk) or reset the
\* connection, and nothing obliges a context to end or the connection to be closed.
Fairness == \A w \in Writer : WF_vars(Step(w)) /\ WF_vars(CallbackStep(w))

FairSpec == Spec /\ Fairness

-----------------------------------------------------------------------------
(* Properties.                                                             *)

\* Type invariant of the connection and of the calls of writeFrame.
TypeOK ==
    /\ pc \in [Writer -> {"idle", "acquire", "check", "deadline", "arm", "write",
                          "stop", "reset", "release", "done"}]
    /\ lock \in Writer \cup {NoWriter}
    /\ closed \in BOOLEAN
    /\ due \subseteq Writer
    /\ ended \subseteq Writer
    /\ deadline \in Writer \cup {"none", "past"}
    /\ callback \in [Writer -> {"none", "armed", "started", "set", "finished", "stopped"}]
    /\ sent \in [Writer -> 0 .. Chunks]
    /\ stream \in Seq(Writer \X (1 .. Chunks))
    /\ result \in [Writer -> {"none", "ok", "timeout", "closed", "broken"}]

\* A frame is followed by nothing but its own next piece, or, when it is complete,
\* by the first piece of another.
NotInterleaved ==
    \A i \in 1 .. Len(stream) - 1 :
        LET w == stream[i][1]
            n == stream[i][2]
        IN  IF n < Chunks THEN stream[i + 1] = <<w, n + 1>>
            ELSE stream[i + 1][2] = 1

\* Nobody gets the lock on an open connection after a frame was cut off.
PartialFrameCloses ==
    \A w \in Writer :
        sent[w] \in 1 .. Chunks - 1 /\ ~closed =>
            lock = w /\ pc[w] \in {"write", "stop", "reset"}

\* "commands and responses can be sent concurrently without interleaving their
\* bytes" and "a partial frame makes the stream unusable" (writeFrame): the peer
\* receives whole frames one after another, and a frame that is cut off is the last.
FramesAreWhole == NotInterleaved /\ PartialFrameCloses

\* The callback of one call cannot affect the next writer: a call fails with a
\* time-out only if its own deadline passed or its own context is done.
OwnTimeoutOnly ==
    \A w \in Writer : result[w] = "timeout" => w \in due \cup ended

\* A call whose frame the peer received completely reports no error, and one that
\* reports success was received completely.
ResultIsTruthful ==
    \A w \in Writer :
        pc[w] \in {"release", "done"} => (result[w] = "ok" <=> sent[w] = Chunks)

\* "Cancellation must also interrupt a blocked write", and close() must: a call
\* whose context is done, or whose connection is closed, returns and gives up the
\* lock, even if the peer reads nothing and others wait.
BlockedCallsReturn ==
    \A w \in Writer :
        (closed \/ w \in ended) /\ pc[w] # "idle" ~> pc[w] = "done" /\ lock # w

=============================================================================
