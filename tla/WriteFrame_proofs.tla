-------------------------- MODULE WriteFrame_proofs -------------------------
(***************************************************************************)
(* Proofs about WriteFrame, for any number of writers and any number of    *)
(* pieces per frame.                                                       *)
(***************************************************************************)
EXTENDS WriteFrame, TLAPS

-----------------------------------------------------------------------------
(* The inductive invariant.                                                *)

Early == {"idle", "acquire", "check", "deadline", "arm"}
Holding == {"check", "deadline", "arm", "write", "stop", "reset", "release"}

\* A call that is between Acquire and Release is the holder of the write lock.
LockHeld == \A w \in Writer : lock = w <=> pc[w] \in Holding

\* Before it writes, a call has sent nothing and has no callback.
EarlyCall ==
    \A w \in Writer : pc[w] \in Early => sent[w] = 0 /\ callback[w] = "none"

\* A callback that can still do something belongs to a call that writes or waits for
\* it, and it was started by the end of the context of that call.
CallbackOwn ==
    \A w \in Writer :
        /\ callback[w] \in {"armed", "started", "set"} => pc[w] \in {"write", "stop"}
        /\ callback[w] \in {"started", "set"} => w \in ended

\* The deadline of the socket was set by the holder of the lock, or by its callback.
DeadlineOwn ==
    deadline # "none" =>
        \E w \in Writer :
            /\ lock = w
            /\ pc[w] \in {"arm", "write", "stop", "reset"}
            /\ deadline = w \/ (deadline = "past" /\ w \in ended)

\* A call knows its result once it has stopped writing, and it is the truth.
ResultKnown ==
    \A w \in Writer :
        /\ result[w] = "none" <=> pc[w] \in Early \cup {"write"}
        /\ result[w] # "none" => (result[w] = "ok" <=> sent[w] = Chunks)

\* The last piece of the stream is the latest of its frame, and of the frame that is
\* being written if that has a piece yet.
LatestPiece ==
    /\ \A w \in Writer :
           pc[w] = "write" /\ sent[w] > 0 =>
               stream # <<>> /\ stream[Len(stream)] = <<w, sent[w]>>
    /\ \A w \in Writer, n \in 1 .. Chunks :
           stream # <<>> /\ stream[Len(stream)] = <<w, n>> => sent[w] = n

IInv ==
    /\ TypeOK
    /\ LockHeld
    /\ EarlyCall
    /\ CallbackOwn
    /\ DeadlineOwn
    /\ ResultKnown
    /\ OwnTimeoutOnly
    /\ PartialFrameCloses
    /\ LatestPiece
    /\ NotInterleaved

-----------------------------------------------------------------------------
(* Every action keeps the invariant: one lemma per action, one step per    *)
(* part of the invariant that the action can disturb.                      *)

\* The call waits for the lock.
LEMMA CallKeeps ==
  ASSUME IInv, NEW w \in Writer, Call(w)
  PROVE  IInv'
<1>1. TypeOK'
  BY DEF IInv, TypeOK, Call, GoTo
<1>2. LockHeld'
  BY DEF IInv, LockHeld, TypeOK, Holding, Call, GoTo
<1>3. EarlyCall'
  BY DEF IInv, EarlyCall, Early, TypeOK, Call, GoTo
<1>4. CallbackOwn'
  BY DEF IInv, CallbackOwn, TypeOK, Call, GoTo
<1>5. DeadlineOwn'
  BY DEF IInv, DeadlineOwn, TypeOK, Call, GoTo
<1>6. ResultKnown'
  BY DEF IInv, ResultKnown, Early, TypeOK, Call, GoTo
<1>7. PartialFrameCloses'
  BY DEF IInv, PartialFrameCloses, TypeOK, Call, GoTo
<1>8. LatestPiece'
  BY DEF IInv, LatestPiece, TypeOK, Call, GoTo
<1>9. OwnTimeoutOnly' /\ NotInterleaved'
  BY DEF IInv, OwnTimeoutOnly, NotInterleaved, Call
<1>. QED BY <1>1, <1>2, <1>3, <1>4, <1>5, <1>6, <1>7, <1>8, <1>9 DEF IInv

\* The lock was free, so nobody else is writing.
LEMMA AcquireKeeps ==
  ASSUME IInv, NEW w \in Writer, Acquire(w)
  PROVE  IInv'
<1>1. TypeOK'
  BY DEF IInv, TypeOK, Acquire, GoTo
<1>2. LockHeld'
  BY WriterAssumption DEF IInv, LockHeld, TypeOK, Holding, Acquire, GoTo
<1>3. EarlyCall'
  BY DEF IInv, EarlyCall, Early, TypeOK, Acquire, GoTo
<1>4. CallbackOwn'
  BY DEF IInv, CallbackOwn, TypeOK, Acquire, GoTo
<1>5. DeadlineOwn'
  BY WriterAssumption DEF IInv, DeadlineOwn, TypeOK, Acquire
<1>6. ResultKnown'
  BY DEF IInv, ResultKnown, Early, TypeOK, Acquire, GoTo
<1>7. PartialFrameCloses'
  BY WriterAssumption DEF IInv, PartialFrameCloses, TypeOK, Acquire, GoTo
<1>8. LatestPiece'
  BY DEF IInv, LatestPiece, TypeOK, Acquire, GoTo
<1>9. OwnTimeoutOnly' /\ NotInterleaved'
  BY DEF IInv, OwnTimeoutOnly, NotInterleaved, Acquire
<1>. QED BY <1>1, <1>2, <1>3, <1>4, <1>5, <1>6, <1>7, <1>8, <1>9 DEF IInv

\* A call that gives up has written nothing.
LEMMA AcquireAbandonedKeeps ==
  ASSUME IInv, NEW w \in Writer, AcquireAbandoned(w)
  PROVE  IInv'
<1>1. TypeOK'
  BY DEF IInv, TypeOK, AcquireAbandoned, GoTo, Result
<1>2. LockHeld'
  BY DEF IInv, LockHeld, TypeOK, Holding, AcquireAbandoned, GoTo
<1>3. EarlyCall'
  BY DEF IInv, EarlyCall, Early, TypeOK, AcquireAbandoned, GoTo
<1>4. CallbackOwn'
  BY DEF IInv, CallbackOwn, TypeOK, AcquireAbandoned, GoTo
<1>5. DeadlineOwn'
  BY DEF IInv, DeadlineOwn, TypeOK, AcquireAbandoned, GoTo
<1>6. ResultKnown'
  BY WriterAssumption DEF IInv, ResultKnown, Early, EarlyCall, TypeOK,
      AcquireAbandoned, GoTo, Result
<1>7. OwnTimeoutOnly'
  BY DEF IInv, OwnTimeoutOnly, TypeOK, AcquireAbandoned, Result
<1>8. PartialFrameCloses'
  BY DEF IInv, PartialFrameCloses, TypeOK, AcquireAbandoned, GoTo, Result
<1>9. LatestPiece'
  BY DEF IInv, LatestPiece, TypeOK, AcquireAbandoned, GoTo
<1>10. NotInterleaved'
  BY DEF IInv, NotInterleaved, AcquireAbandoned
<1>. QED BY <1>1, <1>2, <1>3, <1>4, <1>5, <1>6, <1>7, <1>8, <1>9, <1>10 DEF IInv

\* Nothing was written yet.
LEMMA CheckKeeps ==
  ASSUME IInv, NEW w \in Writer, Check(w)
  PROVE  IInv'
<1>1. TypeOK'
  BY DEF IInv, TypeOK, Check, GoTo, Result
<1>2. LockHeld'
  BY DEF IInv, LockHeld, TypeOK, Holding, Check, GoTo
<1>3. EarlyCall'
  BY DEF IInv, EarlyCall, Early, TypeOK, Check, GoTo
<1>4. CallbackOwn'
  BY DEF IInv, CallbackOwn, TypeOK, Check, GoTo
<1>5. DeadlineOwn'
  BY DEF IInv, DeadlineOwn, TypeOK, LockHeld, Holding, Check
<1>6. ResultKnown'
  <2>1. result[w] = "none" /\ sent[w] = 0 /\ 0 # Chunks
    BY WriterAssumption DEF IInv, ResultKnown, Early, EarlyCall, Check
  <2>2. /\ result'[w] \in {"none", "timeout", "closed"}
        /\ result'[w] = "none" => pc'[w] = "deadline"
        /\ result'[w] # "none" => pc'[w] = "release"
    BY <2>1 DEF IInv, TypeOK, Check, GoTo, Result
  <2>3. \A v \in Writer \ {w} : result'[v] = result[v] /\ pc'[v] = pc[v]
    BY DEF IInv, TypeOK, Check, GoTo, Result
  <2>. QED BY <2>1, <2>2, <2>3 DEF IInv, ResultKnown, Early, Check
<1>7. OwnTimeoutOnly'
  BY DEF IInv, OwnTimeoutOnly, TypeOK, Check, Result
<1>8. PartialFrameCloses'
  BY DEF IInv, PartialFrameCloses, TypeOK, LockHeld, Holding, Check, GoTo, Result
<1>9. LatestPiece'
  BY DEF IInv, LatestPiece, TypeOK, Check, GoTo
<1>10. NotInterleaved'
  BY DEF IInv, NotInterleaved, Check
<1>. QED BY <1>1, <1>2, <1>3, <1>4, <1>5, <1>6, <1>7, <1>8, <1>9, <1>10 DEF IInv

\* The deadline of the socket is that of the holder.
LEMMA SetDeadlineKeeps ==
  ASSUME IInv, NEW w \in Writer, SetDeadline(w)
  PROVE  IInv'
<1>1. TypeOK'
  BY DEF IInv, TypeOK, SetDeadline, GoTo, Result
<1>2. LockHeld'
  BY DEF IInv, LockHeld, TypeOK, Holding, SetDeadline, GoTo
<1>3. EarlyCall'
  BY DEF IInv, EarlyCall, Early, TypeOK, SetDeadline, GoTo
<1>4. CallbackOwn'
  BY DEF IInv, CallbackOwn, TypeOK, SetDeadline, GoTo
<1>5. DeadlineOwn'
  BY DEF IInv, DeadlineOwn, TypeOK, LockHeld, Holding, SetDeadline, GoTo
<1>6. ResultKnown'
  BY WriterAssumption DEF IInv, ResultKnown, Early, EarlyCall, TypeOK,
      SetDeadline, GoTo, Result
<1>7. OwnTimeoutOnly'
  BY DEF IInv, OwnTimeoutOnly, TypeOK, SetDeadline, Result
<1>8. PartialFrameCloses'
  BY DEF IInv, PartialFrameCloses, TypeOK, LockHeld, Holding, SetDeadline, GoTo,
      Result
<1>9. LatestPiece'
  BY DEF IInv, LatestPiece, TypeOK, SetDeadline, GoTo
<1>10. NotInterleaved'
  BY DEF IInv, NotInterleaved, SetDeadline
<1>. QED BY <1>1, <1>2, <1>3, <1>4, <1>5, <1>6, <1>7, <1>8, <1>9, <1>10 DEF IInv

\* The callback belongs to the holder.
LEMMA ArmKeeps ==
  ASSUME IInv, NEW w \in Writer, Arm(w)
  PROVE  IInv'
<1>1. TypeOK'
  BY DEF IInv, TypeOK, Arm, GoTo
<1>2. LockHeld'
  BY DEF IInv, LockHeld, TypeOK, Holding, Arm, GoTo
<1>3. EarlyCall'
  BY DEF IInv, EarlyCall, Early, TypeOK, Arm, GoTo
<1>4. CallbackOwn'
  BY DEF IInv, CallbackOwn, TypeOK, Arm, GoTo
<1>5. DeadlineOwn'
  BY DEF IInv, DeadlineOwn, TypeOK, Arm, GoTo
<1>6. ResultKnown'
  BY DEF IInv, ResultKnown, Early, TypeOK, Arm, GoTo
<1>7. PartialFrameCloses'
  BY DEF IInv, PartialFrameCloses, TypeOK, Arm, GoTo
<1>8. LatestPiece'
  BY DEF IInv, LatestPiece, TypeOK, EarlyCall, Early, Arm, GoTo
<1>9. OwnTimeoutOnly' /\ NotInterleaved'
  BY DEF IInv, OwnTimeoutOnly, NotInterleaved, Arm
<1>. QED BY <1>1, <1>2, <1>3, <1>4, <1>5, <1>6, <1>7, <1>8, <1>9 DEF IInv

\* The next piece is of the frame that the last piece was of, unless that was complete.
LEMMA WriteChunkKeeps ==
  ASSUME IInv, NEW w \in Writer, WriteChunk(w)
  PROVE  IInv'
<1>1. TypeOK'
  BY WriterAssumption DEF IInv, TypeOK, WriteChunk
<1>2. EarlyCall'
  BY DEF IInv, EarlyCall, Early, TypeOK, WriteChunk
<1>3. ResultKnown'
  BY DEF IInv, ResultKnown, TypeOK, WriteChunk
<1>4. PartialFrameCloses'
  BY DEF IInv, PartialFrameCloses, TypeOK, LockHeld, Holding, WriteChunk
<1>5. /\ Len(stream') = Len(stream) + 1
     /\ stream'[Len(stream) + 1] = <<w, sent[w] + 1>>
     /\ \A i \in 1 .. Len(stream) : stream'[i] = stream[i]
  BY DEF IInv, TypeOK, WriteChunk
<1>6. LatestPiece'
  BY DEF IInv, TypeOK, LatestPiece, LockHeld, Holding, WriteChunk
<1>7. NotInterleaved'
  <2> SUFFICES ASSUME NEW i \in 1 .. Len(stream)
               PROVE  IF stream'[i][2] < Chunks
                      THEN stream'[i + 1] = <<stream'[i][1], stream'[i][2] + 1>>
                      ELSE stream'[i + 1][2] = 1
    BY <1>5 DEF IInv, TypeOK, NotInterleaved
  <2>1. CASE i < Len(stream)
    <3>1. i \in 1 .. Len(stream) - 1 /\ i + 1 \in 1 .. Len(stream)
      BY <2>1 DEF IInv, TypeOK
    <3>2. stream'[i] = stream[i] /\ stream'[i + 1] = stream[i + 1]
      BY <1>5, <3>1
    <3>3. IF stream[i][2] < Chunks
          THEN stream[i + 1] = <<stream[i][1], stream[i][2] + 1>>
          ELSE stream[i + 1][2] = 1
      BY <3>1 DEF IInv, NotInterleaved
    <3>. QED BY <3>2, <3>3
  <2>2. CASE i = Len(stream)
    <3>1. PICK v \in Writer, n \in 1 .. Chunks : stream[i] = <<v, n>>
      BY DEF IInv, TypeOK
    <3>2. sent[v] = n
      BY <2>2, <3>1 DEF IInv, LatestPiece, TypeOK
    <3>3. stream'[i] = <<v, n>> /\ stream'[i + 1] = <<w, sent[w] + 1>>
      BY <1>5, <2>2, <3>1
    <3>4. CASE n < Chunks
      <4>1. lock = v
        BY <3>2, <3>4, WriterAssumption DEF IInv, PartialFrameCloses, WriteChunk
      <4>2. v = w
        BY <4>1 DEF IInv, LockHeld, Holding, WriteChunk
      <4>. QED BY <3>2, <3>3, <3>4, <4>2
    <3>5. CASE n = Chunks
      <4>1. v # w
        BY <3>2, <3>5 DEF WriteChunk
      <4>2. sent[w] = 0
        BY <2>2, <3>1, <4>1 DEF IInv, TypeOK, LatestPiece, WriteChunk
      <4>. QED BY <3>3, <3>5, <4>2
    <3>. QED BY <3>4, <3>5, WriterAssumption
  <2>. QED BY <2>1, <2>2 DEF IInv, TypeOK
<1>8. LockHeld' /\ CallbackOwn' /\ DeadlineOwn' /\ OwnTimeoutOnly'
  BY DEF IInv, LockHeld, CallbackOwn, DeadlineOwn, OwnTimeoutOnly, WriteChunk
<1>. QED BY <1>1, <1>2, <1>3, <1>4, <1>6, <1>7, <1>8 DEF IInv

\* The frame is complete.
LEMMA WriteDoneKeeps ==
  ASSUME IInv, NEW w \in Writer, WriteDone(w)
  PROVE  IInv'
<1>1. TypeOK'
  BY DEF IInv, TypeOK, WriteDone, GoTo, Result
<1>2. LockHeld'
  BY DEF IInv, LockHeld, TypeOK, Holding, WriteDone, GoTo
<1>3. EarlyCall'
  BY DEF IInv, EarlyCall, Early, TypeOK, WriteDone, GoTo
<1>4. CallbackOwn'
  BY DEF IInv, CallbackOwn, TypeOK, WriteDone, GoTo
<1>5. DeadlineOwn'
  BY DEF IInv, DeadlineOwn, TypeOK, WriteDone, GoTo
<1>6. ResultKnown'
  BY DEF IInv, ResultKnown, Early, TypeOK, WriteDone, GoTo, Result
<1>7. OwnTimeoutOnly'
  BY DEF IInv, OwnTimeoutOnly, TypeOK, WriteDone, Result
<1>8. PartialFrameCloses'
  BY DEF IInv, PartialFrameCloses, TypeOK, WriteDone, GoTo, Result
<1>9. LatestPiece'
  BY DEF IInv, LatestPiece, TypeOK, WriteDone, GoTo
<1>10. NotInterleaved'
  BY DEF IInv, NotInterleaved, WriteDone
<1>. QED BY <1>1, <1>2, <1>3, <1>4, <1>5, <1>6, <1>7, <1>8, <1>9, <1>10 DEF IInv

\* The deadline that passed is the own one, or the own callback set it.
LEMMA WriteFailsKeeps ==
  ASSUME IInv, NEW w \in Writer,
         NEW why \in {"timeout", "closed", "broken"}, WriteFails(w, why)
  PROVE  IInv'
<1>1. TypeOK'
  BY DEF IInv, TypeOK, WriteFails, GoTo, Result
<1>2. LockHeld'
  BY DEF IInv, LockHeld, TypeOK, Holding, WriteFails, GoTo
<1>3. EarlyCall'
  BY DEF IInv, EarlyCall, Early, TypeOK, WriteFails, GoTo
<1>4. CallbackOwn'
  BY DEF IInv, CallbackOwn, TypeOK, WriteFails, GoTo
<1>5. DeadlineOwn'
  BY DEF IInv, DeadlineOwn, TypeOK, WriteFails, GoTo
<1>6. ResultKnown'
  BY DEF IInv, ResultKnown, Early, TypeOK, WriteFails, GoTo, Result
<1>7. OwnTimeoutOnly'
  BY WriterAssumption DEF IInv, OwnTimeoutOnly, LockHeld, Holding, DeadlineOwn,
      TypeOK, DeadlinePassed, WriteFails, GoTo, Result
<1>8. PartialFrameCloses'
  BY DEF IInv, PartialFrameCloses, TypeOK, WriteFails, GoTo, Result
<1>9. LatestPiece'
  BY DEF IInv, LatestPiece, TypeOK, WriteFails, GoTo
<1>10. NotInterleaved'
  BY DEF IInv, NotInterleaved, WriteFails
<1>. QED BY <1>1, <1>2, <1>3, <1>4, <1>5, <1>6, <1>7, <1>8, <1>9, <1>10 DEF IInv

\* No callback is left when the holder goes on.
LEMMA StopKeeps ==
  ASSUME IInv, NEW w \in Writer, Stop(w)
  PROVE  IInv'
<1>1. TypeOK'
  BY DEF IInv, TypeOK, Stop, GoTo
<1>2. LockHeld'
  BY DEF IInv, LockHeld, TypeOK, Holding, Stop, GoTo
<1>3. EarlyCall'
  BY DEF IInv, EarlyCall, Early, TypeOK, Stop, GoTo
<1>4. CallbackOwn'
  BY DEF IInv, CallbackOwn, TypeOK, Stop, GoTo
<1>5. DeadlineOwn'
  BY DEF IInv, DeadlineOwn, TypeOK, Stop, GoTo
<1>6. ResultKnown'
  BY DEF IInv, ResultKnown, Early, TypeOK, Stop, GoTo
<1>7. PartialFrameCloses'
  BY DEF IInv, PartialFrameCloses, TypeOK, Stop, GoTo
<1>8. LatestPiece'
  BY DEF IInv, LatestPiece, TypeOK, Stop, GoTo
<1>9. OwnTimeoutOnly' /\ NotInterleaved'
  BY DEF IInv, OwnTimeoutOnly, NotInterleaved, Stop
<1>. QED BY <1>1, <1>2, <1>3, <1>4, <1>5, <1>6, <1>7, <1>8, <1>9 DEF IInv

\* The connection is closed if the frame is not complete.
LEMMA ResetKeeps ==
  ASSUME IInv, NEW w \in Writer, Reset(w)
  PROVE  IInv'
<1>1. TypeOK'
  BY DEF IInv, TypeOK, ClosedAfter, Reset, GoTo
<1>2. LockHeld'
  BY DEF IInv, LockHeld, TypeOK, Holding, Reset, GoTo
<1>3. EarlyCall'
  BY DEF IInv, EarlyCall, Early, TypeOK, Reset, GoTo
<1>4. CallbackOwn'
  BY DEF IInv, CallbackOwn, TypeOK, Reset, GoTo
<1>5. DeadlineOwn'
  BY DEF IInv, DeadlineOwn, TypeOK, Reset
<1>6. ResultKnown'
  BY DEF IInv, ResultKnown, Early, TypeOK, Reset, GoTo
<1>7. PartialFrameCloses'
  <2> SUFFICES ASSUME NEW v \in Writer, sent'[v] \in 1 .. Chunks - 1, ~closed'
               PROVE  lock' = v /\ pc'[v] \in {"write", "stop", "reset"}
    BY DEF PartialFrameCloses
  <2>1. result[w] = "ok" /\ sent[w] = Chunks
    BY DEF IInv, ResultKnown, Reset, ClosedAfter
  <2>2. v # w /\ lock = v
    <3>1. ~closed /\ sent' = sent
      BY DEF IInv, TypeOK, Reset, ClosedAfter
    <3>. QED BY <2>1, <3>1 DEF IInv, PartialFrameCloses
  <2>. QED BY <2>2 DEF IInv, LockHeld, Holding, Reset
<1>8. LatestPiece'
  BY DEF IInv, LatestPiece, TypeOK, Reset, GoTo
<1>9. OwnTimeoutOnly' /\ NotInterleaved'
  BY DEF IInv, OwnTimeoutOnly, NotInterleaved, Reset
<1>. QED BY <1>1, <1>2, <1>3, <1>4, <1>5, <1>6, <1>7, <1>8, <1>9 DEF IInv

\* Nothing of the call is left: no deadline, no callback, no open half frame.
LEMMA ReleaseKeeps ==
  ASSUME IInv, NEW w \in Writer, Release(w)
  PROVE  IInv'
<1>1. TypeOK'
  BY DEF IInv, TypeOK, Release, GoTo
<1>2. LockHeld'
  BY WriterAssumption DEF IInv, LockHeld, TypeOK, Holding, Release, GoTo
<1>3. EarlyCall'
  BY DEF IInv, EarlyCall, Early, TypeOK, Release, GoTo
<1>4. CallbackOwn'
  BY DEF IInv, CallbackOwn, TypeOK, Release, GoTo
<1>5. DeadlineOwn'
  BY DEF IInv, DeadlineOwn, TypeOK, LockHeld, Holding, Release
<1>6. ResultKnown'
  BY DEF IInv, ResultKnown, Early, TypeOK, Release, GoTo
<1>7. PartialFrameCloses'
  BY DEF IInv, PartialFrameCloses, TypeOK, LockHeld, Holding, Release
<1>8. LatestPiece'
  BY DEF IInv, LatestPiece, TypeOK, Release, GoTo
<1>9. OwnTimeoutOnly' /\ NotInterleaved'
  BY DEF IInv, OwnTimeoutOnly, NotInterleaved, Release
<1>. QED BY <1>1, <1>2, <1>3, <1>4, <1>5, <1>6, <1>7, <1>8, <1>9 DEF IInv

\* Only the holder of the lock has a callback that runs.
LEMMA CallbackSetsKeeps ==
  ASSUME IInv, NEW w \in Writer, CallbackSets(w)
  PROVE  IInv'
<1>1. TypeOK'
  BY DEF IInv, TypeOK, CallbackSets
<1>2. EarlyCall'
  BY DEF IInv, EarlyCall, TypeOK, CallbackSets
<1>3. CallbackOwn'
  BY DEF IInv, CallbackOwn, TypeOK, CallbackSets
<1>4. DeadlineOwn'
  BY DEF IInv, TypeOK, CallbackOwn, LockHeld, Holding, DeadlineOwn, CallbackSets
<1>5. /\ LockHeld'
     /\ ResultKnown'
     /\ OwnTimeoutOnly'
     /\ PartialFrameCloses'
     /\ LatestPiece'
     /\ NotInterleaved'
  BY DEF IInv, LockHeld, ResultKnown, OwnTimeoutOnly, PartialFrameCloses,
      LatestPiece, NotInterleaved, CallbackSets
<1>. QED BY <1>1, <1>2, <1>3, <1>4, <1>5 DEF IInv

\* The deadline stays in the past until the holder resets it.
LEMMA CallbackEndsKeeps ==
  ASSUME IInv, NEW w \in Writer, CallbackEnds(w)
  PROVE  IInv'
<1>1. TypeOK'
  BY DEF IInv, TypeOK, CallbackEnds
<1>2. EarlyCall'
  BY DEF IInv, EarlyCall, TypeOK, CallbackEnds
<1>3. CallbackOwn'
  BY DEF IInv, CallbackOwn, TypeOK, CallbackEnds
<1>4. /\ LockHeld'
     /\ DeadlineOwn'
     /\ ResultKnown'
     /\ OwnTimeoutOnly'
     /\ PartialFrameCloses'
     /\ LatestPiece'
     /\ NotInterleaved'
  BY DEF IInv, LockHeld, DeadlineOwn, ResultKnown, OwnTimeoutOnly,
      PartialFrameCloses, LatestPiece, NotInterleaved, CallbackEnds
<1>. QED BY <1>1, <1>2, <1>3, <1>4 DEF IInv

\* Nothing refers to a deadline that has not passed.
LEMMA TimePassesKeeps ==
  ASSUME IInv, NEW w \in Writer, TimePasses(w)
  PROVE  IInv'
<1>1. TypeOK'
  BY DEF IInv, TypeOK, TimePasses
<1>2. OwnTimeoutOnly'
  BY DEF IInv, OwnTimeoutOnly, TypeOK, TimePasses
<1>3. /\ LockHeld'
     /\ EarlyCall'
     /\ CallbackOwn'
     /\ DeadlineOwn'
     /\ ResultKnown'
     /\ PartialFrameCloses'
     /\ LatestPiece'
     /\ NotInterleaved'
  BY DEF IInv, LockHeld, EarlyCall, CallbackOwn, DeadlineOwn, ResultKnown,
      PartialFrameCloses, LatestPiece, NotInterleaved, TimePasses
<1>. QED BY <1>1, <1>2, <1>3 DEF IInv

\* The callback of an ended context may start.
LEMMA ContextEndsKeeps ==
  ASSUME IInv, NEW w \in Writer, ContextEnds(w)
  PROVE  IInv'
<1>1. TypeOK'
  BY DEF IInv, TypeOK, ContextEnds
<1>2. EarlyCall'
  BY DEF IInv, EarlyCall, TypeOK, ContextEnds
<1>3. CallbackOwn'
  BY DEF IInv, CallbackOwn, TypeOK, ContextEnds
<1>4. DeadlineOwn'
  BY DEF IInv, DeadlineOwn, TypeOK, ContextEnds
<1>5. OwnTimeoutOnly'
  BY DEF IInv, OwnTimeoutOnly, TypeOK, ContextEnds
<1>6. /\ LockHeld'
     /\ ResultKnown'
     /\ PartialFrameCloses'
     /\ LatestPiece'
     /\ NotInterleaved'
  BY DEF IInv, LockHeld, ResultKnown, PartialFrameCloses, LatestPiece,
      NotInterleaved, ContextEnds
<1>. QED BY <1>1, <1>2, <1>3, <1>4, <1>5, <1>6 DEF IInv

\* A closed connection takes no more pieces.
LEMMA CloseKeeps ==
  ASSUME IInv, Close
  PROVE  IInv'
<1>1. TypeOK'
  BY DEF IInv, TypeOK, Close
<1>2. PartialFrameCloses'
  BY DEF IInv, PartialFrameCloses, TypeOK, Close
<1>3. /\ LockHeld'
     /\ EarlyCall'
     /\ CallbackOwn'
     /\ DeadlineOwn'
     /\ ResultKnown'
     /\ OwnTimeoutOnly'
     /\ LatestPiece'
     /\ NotInterleaved'
  BY DEF IInv, LockHeld, EarlyCall, CallbackOwn, DeadlineOwn, ResultKnown,
      OwnTimeoutOnly, LatestPiece, NotInterleaved, Close
<1>. QED BY <1>1, <1>2, <1>3 DEF IInv

-----------------------------------------------------------------------------
(* The invariant.                                                          *)

\* Nothing was written, nobody holds the lock.
LEMMA InitEstablishes == Init => IInv
<1> SUFFICES ASSUME Init
             PROVE  IInv
  OBVIOUS
<1>1. TypeOK
  <2>1. stream \in Seq(Writer \X (1 .. Chunks))
    BY DEF Init
  <2>2. sent \in [Writer -> 0 .. Chunks]
    BY WriterAssumption DEF Init
  <2>3. /\ lock \in Writer \cup {NoWriter} /\ closed \in BOOLEAN
        /\ due \subseteq Writer /\ ended \subseteq Writer
        /\ deadline \in Writer \cup {"none", "past"}
    BY DEF Init
  <2>4. /\ pc \in [Writer -> {"idle", "acquire", "check", "deadline", "arm", "write",
                             "stop", "reset", "release", "done"}]
        /\ callback \in [Writer -> {"none", "armed", "started", "set", "finished",
                                   "stopped"}]
        /\ result \in [Writer -> {"none", "ok", "timeout", "closed"}]
    BY DEF Init
  <2>. QED BY <2>1, <2>2, <2>3, <2>4 DEF TypeOK
<1>2. LockHeld /\ EarlyCall /\ CallbackOwn /\ DeadlineOwn
  BY WriterAssumption DEF Init, LockHeld, Holding, EarlyCall, CallbackOwn,
      DeadlineOwn
<1>3. ResultKnown /\ OwnTimeoutOnly /\ PartialFrameCloses
  BY DEF Init, ResultKnown, Early, OwnTimeoutOnly, PartialFrameCloses
<1>4. LatestPiece /\ NotInterleaved
  BY DEF Init, LatestPiece, NotInterleaved
<1>. QED BY <1>1, <1>2, <1>3, <1>4 DEF IInv

LEMMA StepKeeps ==
  ASSUME IInv, NEW w \in Writer, Step(w)
  PROVE  IInv'
  BY AcquireKeeps, AcquireAbandonedKeeps, CheckKeeps, SetDeadlineKeeps, ArmKeeps,
      WriteDoneKeeps, WriteFailsKeeps, StopKeeps, ResetKeeps, ReleaseKeeps DEF
      Step

LEMMA NextKeeps == IInv /\ [Next]_vars => IInv'
<1> SUFFICES ASSUME IInv, [Next]_vars
             PROVE  IInv'
  OBVIOUS
<1>1. ASSUME NEW w \in Writer, Call(w) PROVE IInv'
  BY <1>1, CallKeeps
<1>2. ASSUME NEW w \in Writer, Step(w) PROVE IInv'
  BY <1>2, StepKeeps
<1>3. ASSUME NEW w \in Writer, WriteChunk(w) PROVE IInv'
  BY <1>3, WriteChunkKeeps
<1>4. ASSUME NEW w \in Writer, CallbackStep(w) PROVE IInv'
  BY <1>4, CallbackSetsKeeps, CallbackEndsKeeps DEF CallbackStep
<1>5. ASSUME NEW w \in Writer, TimePasses(w) PROVE IInv'
  BY <1>5, TimePassesKeeps
<1>6. ASSUME NEW w \in Writer, ContextEnds(w) PROVE IInv'
  BY <1>6, ContextEndsKeeps
<1>7. CASE Close
  BY <1>7, CloseKeeps
<1>8. CASE UNCHANGED vars
  BY <1>8 DEF IInv, TypeOK, LockHeld, EarlyCall, CallbackOwn, DeadlineOwn,
      ResultKnown, OwnTimeoutOnly, PartialFrameCloses, LatestPiece,
      NotInterleaved, vars
<1>9. ASSUME NEW w \in Writer, WriteFails(w, "broken") PROVE IInv'
  BY <1>9, WriteFailsKeeps
<1>. QED BY <1>1, <1>2, <1>3, <1>4, <1>5, <1>6, <1>7, <1>8, <1>9 DEF Next, Finished

\* The inductive invariant of writeFrame holds in every reachable state.
THEOREM InvariantHolds == Spec => []IInv
  BY InitEstablishes, NextKeeps, PTL DEF Spec

-----------------------------------------------------------------------------
(* The properties of the run WriteFrame.                                   *)

\* Type correctness of the connection and of the calls of writeFrame.
THEOREM TypeCorrect == Spec => []TypeOK
<1>1. IInv => TypeOK
  BY DEF IInv
<1>. QED BY <1>1, InvariantHolds, PTL

\* At most one call is between taking and releasing the write lock.
THEOREM OneWriter ==
    Spec => [](\A v, w \in Writer : {pc[v], pc[w]} \subseteq Holding => v = w)
<1>1. IInv => \A v, w \in Writer : {pc[v], pc[w]} \subseteq Holding => v = w
  BY DEF IInv, LockHeld
<1>. QED BY <1>1, InvariantHolds, PTL

\* The peer receives whole frames one after another, and a frame that is cut off is
\* the last, for any number of writers and pieces.
THEOREM WholeFrames == Spec => []FramesAreWhole
<1>1. IInv => FramesAreWhole
  BY DEF IInv, FramesAreWhole
<1>. QED BY <1>1, InvariantHolds, PTL

\* A call fails with a time-out only on its own account: the callback that another call
\* left behind cannot affect it.
THEOREM TimeoutsAreOwn == Spec => []OwnTimeoutOnly
<1>1. IInv => OwnTimeoutOnly
  BY DEF IInv
<1>. QED BY <1>1, InvariantHolds, PTL

\* A call reports success exactly if its frame was written completely.
THEOREM ResultsAreTrue == Spec => []ResultIsTruthful
<1>1. IInv => ResultIsTruthful
  BY DEF IInv, ResultKnown, Early, ResultIsTruthful
<1>. QED BY <1>1, InvariantHolds, PTL

=============================================================================
