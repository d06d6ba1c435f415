------------------------------- MODULE Dispatch -----------------------------
(***************************************************************************)
(* The receiving side of one connection, from the bytes of a frame to the  *)
(* bytes of its answer (protocolserver/server.go): the receive goroutine   *)
(* in handleMessage, one goroutine per command in handleCommand, and       *)
(* writeResponse in either.  It composes the wire format (Codec), the      *)
(* pooled buffers (Pools) and the command store (CommandStore).            *)
(*                                                                         *)
(* Goroutine 0 is the receive goroutine; goroutine k handles the k-th      *)
(* frame, if that is a command.  A registered handler either echoes its    *)
(* payload, fails, or sends a command back to its peer and waits for the   *)
(* response.  A frame is written as a whole (WriteFrame).  The peer may    *)
(* send any of the frames of Traffic, close, stop reading, or not respond. *)
(*                                                                         *)
(* The few definitions that no action uses, each before the definition it  *)
(* resembles, are defects that PROJECT.json substitutes to show that a     *)
(* property would notice them.                                             *)
(***************************************************************************)
EXTENDS Codec, Pools, CommandStore, FiniteSets, SequencesExt

CONSTANTS
    Traffic,    \* the frames, as bytes, that the peer may send of its own accord
    MaxFrames   \* bounds how many frames are received

Reader == 0
Worker == 1 .. MaxFrames

ASSUME DispatchAssumption ==
    /\ MaxFrames \in Nat \ {0}
    /\ Goroutine = Worker
    /\ Handler = {"echo", "fail", "callback"}
    /\ IsFiniteSet(Registrar)
    /\ \A r \in Registrar :
           "middleware" \in DOMAIN registers[r] => registers[r].middleware \in Byte
    \* one buffer for the reader, two for every goroutine that writes
    /\ 0 \notin Buffer /\ IsFiniteSet(Buffer)
    /\ Cardinality(Buffer) >= 2 * MaxFrames + 3
    \* no request ID is used twice, and no answer outgrows its length field
    /\ MaxFrames + MaxFrameSize + Cardinality(Registrar) + 18 \in UInt32

\* The message in a frame of the peer, and the payload of that message.
MessageOf(f) == SubSeq(f, 5, Len(f))
PayloadOf(f) == LET m == DecodeMessage(MessageOf(f))
                IN  SubSeq(MessageOf(f), m.from, m.to)

\* A frame is as long as it says, if it is read.  And a response that the peer sends of
\* its own accord has a request ID that the server did not use.
ASSUME TrafficAssumption ==
    \A f \in Traffic :
        /\ f \in Seq(Byte) /\ Len(f) >= 4
        /\ FrameLengthValid(Uint32(f, 1)) => Len(f) = 4 + Uint32(f, 1)
        /\ LET m == DecodeMessage(MessageOf(f))
               resp == DecodeResponse(PayloadOf(f))
           IN  /\ m.err = NoError
               /\ m.Type = MessageTypeResponse
               /\ resp.err = NoError
               => resp.ReqID \notin Worker

VARIABLES
    open,     \* is the connection open?
    sent,     \* the frames received so far, without responses (history)
    responded,\* the commands that the peer responded to
    reader,   \* the receive goroutine: [pc, slice, last]
    worker,   \* the goroutines in handleCommand: [pc, payload, cmd, reply]
    answer    \* writeResponse in each goroutine: [pc, resp, payloadBuf, msgBuf]

poolVars == <<memory, requestPool, responsePool>>
vars == <<open, sent, responded, reader, worker, answer, poolVars, storeVars>>

NoSlice == Slice(0, 1, 0)

\* A payload that was handed to another goroutine: bytes.Clone of a slice.
HandedAlias(s) == [slice |-> s, own |-> <<>>]
Handed(s) == [slice |-> NoSlice, own |-> Bytes(s)]
Seen(p) == IF p.slice = NoSlice THEN p.own ELSE Bytes(p.slice)

Nothing == [slice |-> NoSlice, own |-> <<>>]
Reading == [pc |-> "read", slice |-> NoSlice, last |-> FALSE]
NotStarted == [pc |-> "none", payload |-> Nothing, reply |-> Nothing,
               cmd |-> [ReqID |-> 0, ID |-> 0, Payload |-> <<>>]]
NoAnswer == [pc |-> "none", resp |-> [ReqID |-> 0, Code |-> 0, Payload |-> <<>>],
             payloadBuf |-> NoSlice, msgBuf |-> NoSlice]

Init ==
    /\ PoolsInit
    /\ StoreInit
    /\ open = TRUE
    /\ sent = <<>>
    /\ responded = {}
    /\ reader = Reading
    /\ worker = [k \in Worker |-> NotStarted]
    /\ answer = [g \in {Reader} \cup Worker |-> NoAnswer]

\* The response buffers of g, and the buffers that some goroutine refers to.
BuffersOf(g) == {answer[g].payloadBuf.buf, answer[g].msgBuf.buf} \ {0}
Held == {reader.slice.buf} \cup UNION {BuffersOf(g) : g \in DOMAIN answer}

-----------------------------------------------------------------------------
(* writeResponse, in goroutine g.                                          *)

\* What g does next is write resp.
StartAnswer(g, resp) ==
    answer' = [answer EXCEPT ![g].pc = "encode", ![g].resp = resp]

\* What is left in the pool while the buffers bs are used.
RemainsPutEarly(bs) == responsePool \cup bs
Remains(bs) == responsePool \ bs

\* EncodeResponseInto, and EncodeMessageInto around it, each in a pooled buffer.
Encode(g) ==
    /\ answer[g].pc = "encode"
    /\ \E payload \in {EncodeResponse(answer[g].resp)} :
       \E data \in {EncodeMessage(MessageTypeResponse, payload)} :
       \E p \in Obtained(responsePool, Held) :
       \E m \in Obtained(responsePool \ {p}, Held \cup {p}) :
           /\ memory' = [memory EXCEPT ![p] = Filled(Array(responsePool, p), payload),
                                       ![m] = Filled(Array(responsePool, m), data)]
           /\ responsePool' = Remains({p, m})
           /\ answer' = [answer EXCEPT ![g].pc = "write",
                                       ![g].payloadBuf = Slice(p, 1, Len(payload)),
                                       ![g].msgBuf = Slice(m, 1, Len(data))]
    /\ UNCHANGED <<open, sent, responded, reader, worker, requestPool, storeVars>>

\* writeFrame and the deferred PutResponseBufferToPool: the frame is written, or it is not.
WriteFrame(g, written) ==
    /\ answer[g].pc = "write"
    /\ written => open
    /\ responsePool' = responsePool \cup Pooled(BuffersOf(g))
    /\ answer' = [answer EXCEPT ![g] = NoAnswer]

-----------------------------------------------------------------------------
(* handleMessage, in the receive goroutine.  The pools belong to the       *)
(* process, and the receive goroutines of other connections use them too;  *)
(* this is the one of the modelled connection.  Its buffer is obtained     *)
(* when the frame arrives, not before it waits: no goroutine of this       *)
(* connection could obtain the buffer between the two.                     *)

\* The response of the peer to the command that the handler of frame k sends back.
ReplyPayload(k) == <<(100 + k) % 256>>
ReplyFrame(k) ==
    EncodeFrame(EncodeMessage(MessageTypeResponse,
        EncodeResponse([ReqID |-> k, Code |-> StatusCodeOK, Payload |-> ReplyPayload(k)])))

\* The peer responds once, and only to a command it was sent; it may be too late.
CalledBack(k) ==
    /\ worker[k].pc \in {"calling", "respond"}
    /\ worker[k].cmd.ID \in ID
    /\ commands[worker[k].cmd.ID] = "callback"

InvalidMessage == [ReqID |-> 0, Code |-> StatusInvalidMessage, Payload |-> <<1>>]

\* ReadFrameInto succeeds, or refuses the length: that is answered and ends the loop.
ReadFrame(f) ==
    LET array(b) == Array(requestPool, b)
    IN  /\ reader.pc = "read"
        /\ open
        /\ \E b \in Obtained(requestPool, Held) : \E n \in {Uint32(f, 1)} :
               /\ requestPool' = requestPool \ {b}
               /\ \/ /\ FrameLengthValid(n)
                     /\ memory' = [memory EXCEPT
                            ![b] = Filled(array(b), SubSeq(f, 5, Len(f)))]
                     /\ reader' = [pc |-> "decode", slice |-> Slice(b, 1, n), last |-> FALSE]
                     /\ UNCHANGED answer
                  \/ /\ ~FrameLengthValid(n)
                     /\ memory' = [memory EXCEPT ![b] = array(b)]
                     /\ reader' = [pc |-> "answer", slice |-> Slice(b, 1, 0), last |-> TRUE]
                     /\ StartAnswer(Reader, InvalidMessage)
        /\ UNCHANGED <<open, worker, responsePool, storeVars>>

Incoming ==
    (IF Len(sent) < MaxFrames THEN Traffic ELSE {})
        \cup {ReplyFrame(k) : k \in {j \in Worker \ responded : CalledBack(j)}}

ReadFromPeer ==
    \E f \in Incoming :
        /\ ReadFrame(f)
        /\ \/ /\ f \in Traffic
              /\ sent' = Append(sent, f)
              /\ UNCHANGED responded
           \/ /\ f \notin Traffic
              /\ responded' = responded \cup {k \in Worker : f = ReplyFrame(k)}
              /\ UNCHANGED sent

\* ReadFrameInto fails (the connection was closed at either end), and serveConnection
\* closes it.
ReadEnds ==
    /\ reader.pc = "read"
    /\ reader' = [reader EXCEPT !.pc = "ended"]
    /\ open' = FALSE
    /\ UNCHANGED <<sent, responded, worker, answer, poolVars, storeVars>>

\* handleMessage returns: the deferred PutRequestBufferToPool.
PutFrame == requestPool' = requestPool \cup Pooled({reader.slice.buf})

\* The channel of a pending command, taken out of pendingCmds with its entry.
Deliver(reqID, payload) ==
    worker' = IF reqID \in Worker /\ worker[reqID].pc = "calling"
              THEN [worker EXCEPT ![reqID].pc = "replied", ![reqID].reply = Handed(payload)]
              ELSE worker

\* handleMessage returns without an answer.
Return ==
    /\ PutFrame
    /\ memory' = Dropped({reader.slice.buf})
    /\ reader' = Reading
    /\ UNCHANGED answer

\* writeResponse is next.
Refuse ==
    /\ StartAnswer(Reader, InvalidMessage)
    /\ reader' = [reader EXCEPT !.pc = "answer"]
    /\ UNCHANGED <<worker, memory, requestPool>>

HandleResponse(payload) ==
    \E resp \in {DecodeResponse(Bytes(payload))} :
        \/ resp.err # NoError /\ Refuse
        \/ /\ resp.err = NoError
           /\ Deliver(resp.ReqID, Part(payload, resp.from, resp.to))
           /\ Return

\* DecodeMessageInto and the switch on the type.
HandleMessage ==
    /\ reader.pc = "decode"
    /\ \E m \in {DecodeMessage(Bytes(reader.slice))} :
           \/ m.err # NoError /\ Refuse
           \/ /\ m.err = NoError
              /\ m.Type \notin {MessageTypeCommand, MessageTypeResponse}
              /\ Refuse
           \/ /\ m.err = NoError
              /\ m.Type = MessageTypeCommand
              /\ worker' = [worker EXCEPT
                     ![Len(sent)].pc = "decode",
                     ![Len(sent)].payload = Handed(Part(reader.slice, m.from, m.to))]
              /\ Return
           \/ /\ m.err = NoError
              /\ m.Type = MessageTypeResponse
              /\ HandleResponse(Part(reader.slice, m.from, m.to))
    /\ UNCHANGED <<open, sent, responded, responsePool, storeVars>>

\* The reader's own writeResponse returns, and handleMessage does; an invalid length and
\* a failed write end the loop, and serveConnection closes the connection.
ReaderAnswered ==
    \E written \in BOOLEAN :
        LET ends == reader.last \/ ~written
        IN  /\ reader.pc = "answer"
            /\ WriteFrame(Reader, written)
            /\ open' = IF ends THEN FALSE ELSE open
            /\ PutFrame
            /\ memory' = Dropped({reader.slice.buf} \cup BuffersOf(Reader))
            /\ reader' = [Reading EXCEPT !.pc = IF ends THEN "ended" ELSE "read"]
            /\ UNCHANGED <<sent, responded, worker, storeVars>>

ReaderStep == HandleMessage \/ ReaderAnswered

-----------------------------------------------------------------------------
(* handleCommand, in the goroutine of frame k.                             *)

\* DecodeCommandInto, and RLock at the start of Execute.
StartCommand(k) ==
    /\ worker[k].pc = "decode"
    /\ \E payload \in {Seen(worker[k].payload)} : \E d \in {DecodeCommand(payload)} :
           \/ /\ d.err # NoError
              /\ StartAnswer(k, InvalidMessage)
              /\ worker' = [worker EXCEPT ![k].pc = "respond"]
              /\ UNCHANGED storeVars
           \/ /\ d.err = NoError
              /\ RLock(k)
              /\ worker' = [worker EXCEPT
                     ![k].pc = "execute",
                     ![k].cmd = [ReqID |-> d.ReqID, ID |-> d.ID,
                                 Payload |-> SubSeq(payload, d.from, d.to)]]
              /\ UNCHANGED answer
    /\ UNCHANGED <<open, sent, responded, reader, poolVars>>

\* The deferred RUnlock: also when the handler fails.
UnlockedOnSuccess(k, code) == IF code = StatusCodeOK THEN RUnlock(k) ELSE UNCHANGED storeVars
Unlocked(k, code) == RUnlock(k)

\* Execute returns; the response gets the request ID of the command.
Returns(k, code, payload) ==
    /\ Unlocked(k, code)
    /\ StartAnswer(k, [ReqID |-> worker[k].cmd.ReqID, Code |-> code, Payload |-> payload])
    /\ worker' = [worker EXCEPT ![k].pc = "respond"]

\* The handler runs, and waits, under the read lock.
LockedForLookup(k) == RUnlock(k)
Locked(k) == UNCHANGED storeVars

\* The handler's payload on its way through the middlewares, each of which adds a byte:
\* the one that was registered first is the outermost.
Through(payload) == payload \o Reverse(middlewares)

Execute(k) ==
    LET cmd == worker[k].cmd
        handler == IF cmd.ID \in ID THEN commands[cmd.ID] ELSE NoHandler
    IN  /\ worker[k].pc = "execute"
        /\ k \in readers
        /\ \/ /\ handler = NoHandler
              /\ Returns(k, StatusCommandNotFound, <<2>>)
           \/ /\ handler = "echo"
              /\ Returns(k, StatusCodeOK, Through(cmd.Payload))
           \/ /\ handler = "fail"
              /\ Returns(k, StatusInternalError, <<3>>)
           \/ /\ handler = "callback"
              /\ IF open
                 THEN /\ worker' = [worker EXCEPT ![k].pc = "calling"]
                      /\ Locked(k)
                      /\ UNCHANGED answer
                 ELSE Returns(k, StatusInternalError, <<3>>)
        /\ UNCHANGED <<open, sent, responded, reader, poolVars>>

\* The handler has called sendCmd and waits, holding the read lock: for the response,
\* for the end of the connection, or for the end of the 30 seconds, which deletes the
\* entry of pendingCmds.
Replied(k) ==
    /\ worker[k].pc = "replied"
    /\ Returns(k, StatusCodeOK, Through(Seen(worker[k].reply)))
    /\ UNCHANGED <<open, sent, responded, reader, poolVars>>

ConnectionClosed(k) ==
    /\ worker[k].pc = "calling"
    /\ ~open
    /\ Returns(k, StatusInternalError, <<3>>)
    /\ UNCHANGED <<open, sent, responded, reader, poolVars>>

TimesOut(k) ==
    /\ worker[k].pc = "calling"
    /\ Returns(k, StatusInternalError, <<3>>)
    /\ UNCHANGED <<open, sent, responded, reader, poolVars>>

\* writeResponse and handleCommand return.  A frame that was not written left the
\* connection closed, unless the time-out came before its first byte.
Respond(k) ==
    /\ worker[k].pc = "respond"
    /\ \E written \in BOOLEAN :
           /\ WriteFrame(k, written)
           /\ open' \in IF written THEN {open} ELSE {open, FALSE}
    /\ memory' = Dropped(BuffersOf(k))
    /\ worker' = [worker EXCEPT ![k] = [NotStarted EXCEPT !.pc = "done"]]
    /\ UNCHANGED <<sent, responded, reader, requestPool, storeVars>>

\* A command goes on by itself, except that TimesOut needs the timer.
WorkerStep(k) ==
    \/ StartCommand(k) \/ Execute(k) \/ Replied(k) \/ ConnectionClosed(k)
    \/ TimesOut(k) \/ Encode(k) \/ Respond(k)

-----------------------------------------------------------------------------
Register(r) ==
    /\ Registration(r)
    /\ UNCHANGED <<open, sent, responded, reader, worker, answer, poolVars>>

\* Everything was received and answered.
Finished ==
    /\ reader.pc = "ended"
    /\ \A k \in Worker : worker[k].pc \in {"none", "done"}
    /\ UNCHANGED vars

Next ==
    \/ ReaderStep \/ Encode(Reader)
    \/ ReadFromPeer \/ ReadEnds
    \/ \E k \in Worker : WorkerStep(k)
    \/ \E r \in Registrar : Register(r)
    \/ Finished

Spec == Init /\ [][Next]_vars

\* The goroutines run, the 30 seconds of a command pass, and a call that is in Lock goes
\* on.  The peer need not send, respond or read, and the connection need not close.
FairSpec ==
    /\ Spec
    /\ WF_vars(ReaderStep \/ Encode(Reader))
    /\ \A k \in Worker : WF_vars(WorkerStep(k))
    /\ \A r \in Registrar : WF_vars(writer = r /\ Register(r))

-----------------------------------------------------------------------------
(* Properties.                                                             *)

\* Type invariant of the goroutines' variables, the pools and the store: a buffer has one
\* user, and the read lock is held by the goroutines in Execute and by no other.
TypeOK ==
    /\ StoreTypeOK
    /\ open \in BOOLEAN
    /\ Len(sent) <= MaxFrames
    /\ reader.pc \in {"read", "decode", "answer", "ended"}
    /\ \A k \in Worker : worker[k].pc \in
           {"none", "decode", "execute", "calling", "replied", "respond", "done"}
    /\ \A g \in {Reader} \cup Worker : answer[g].pc \in {"none", "encode", "write"}
    /\ requestPool \cup responsePool \subseteq Buffer \ Held
    /\ requestPool \cap responsePool = {}
    /\ readers \cup queued =
           {k \in Worker : worker[k].pc \in {"execute", "calling", "replied"}}

\* What a goroutine was handed stays what the peer sent for it, while the receive loop
\* fills the same buffer with later frames (handleMessage: "give the handler its own
\* payload buffer"; handleResponse: "The receive buffer returns to the pool").
HandedIntact ==
    \A k \in Worker :
        /\ worker[k].pc \in {"decode", "execute", "calling", "replied"} =>
               Seen(worker[k].payload) = PayloadOf(sent[k])
        /\ worker[k].pc = "replied" => Seen(worker[k].reply) = ReplyPayload(k)

\* The bytes a goroutine is about to write decode to its own response, whatever the
\* others have in their buffers and whatever was in its buffers before.
AnswersIntact ==
    \A g \in {Reader} \cup Worker :
        answer[g].pc = "write" =>
            LET data == Bytes(answer[g].msgBuf)
                m == DecodeMessage(data)
                p == SubSeq(data, m.from, m.to)
                r == DecodeResponse(p)
            IN  /\ m.err = NoError /\ r.err = NoError
                /\ m.Type = MessageTypeResponse
                /\ m.to = Len(data) /\ r.to = Len(p)
                /\ answer[g].resp = [ReqID |-> r.ReqID, Code |-> r.Code,
                                     Payload |-> SubSeq(p, r.from, r.to)]

\* A handler runs to its end under the handlers and the middlewares that Execute looked up
\* for it, also while it waits for its peer: once RegisterHandler or RegisterMiddleware
\* has returned, no command is under way that does not know of it, nor ends with other
\* middlewares than it began with.  (store.go, Execute: the lock is held until it returns)
HandlersStable ==
    [][(\E k \in Worker : worker[k].pc \in {"calling", "replied"}) =>
           UNCHANGED <<commands, middlewares>>]_vars

\* Every command that was received comes to an answer or to a connection that failed,
\* and every registration returns, although a handler may wait, with the read lock,
\* for a peer that waits for a command that a registration holds back.
EverybodyFinishes ==
    <>[](writer = NoOne /\ \A k \in Worker : worker[k].pc \in {"none", "done"})

=============================================================================
