---------------------------- MODULE Dispatch_proofs -------------------------
(***************************************************************************)
(* Proofs about the receiving side of a connection: a buffer has one user, *)
(* a goroutine keeps what it was handed, an answer is written as it was    *)
(* given, and handlers change only while nobody executes one.              *)
(***************************************************************************)
EXTENDS Dispatch, Codec_proofs, FiniteSetTheorems

-----------------------------------------------------------------------------
(* The inductive invariant.                                                *)

Writers == {Reader} \cup Worker
Executing == {"execute", "calling", "replied"}

Registered == {r \in Registrar : registrar[r] = "registered"}

\* The store, and how many middlewares it can have.
StoreOK ==
    /\ StoreTypeOK
    /\ Len(middlewares) <= Cardinality(Registered)

\* The read lock is asked for once, and held by those who wait for their peer.
LocksOK ==
    /\ readers \cap queued = {}
    /\ readers \cup queued = {k \in Worker : worker[k].pc \in Executing}
    /\ \A k \in queued : worker[k].pc = "execute"

SomeBytes == [slice : {NoSlice}, own : {s \in Seq(Byte) : Len(s) <= MaxFrameSize}]

Commanded ==
    [ReqID : UInt32, ID : UInt16, Payload : {s \in Seq(Byte) : Len(s) <= MaxFrameSize}]

Working ==
    [pc : {"none", "decode", "respond", "done"} \cup Executing,
     payload : SomeBytes, reply : SomeBytes, cmd : Commanded]

WorkersOK ==
    /\ worker \in [Worker -> Working]
    /\ sent \in Seq(Traffic) /\ Len(sent) <= MaxFrames
    /\ \A k \in Worker : k > Len(sent) => worker[k].pc = "none"

SliceIn(bs) == [buf : bs, from : Nat, to : Nat]

\* The responses whose length the frame can tell.
Answerable ==
    {resp \in [ReqID : UInt32, Code : UInt16, Payload : Seq(Byte)] :
        10 + Len(resp.Payload) \in UInt32}

Answering ==
    [pc : {"none", "encode", "write"}, resp : Answerable,
     payloadBuf : SliceIn(Buffer \cup {0}), msgBuf : SliceIn(Buffer \cup {0})]

AnswersOK ==
    /\ answer \in [Writers -> Answering]
    /\ \A g \in Writers : answer[g].pc # "write" =>
           answer[g].payloadBuf = NoSlice /\ answer[g].msgBuf = NoSlice

\* A goroutine writes an answer when it is through with the rest.
TurnsOK ==
    /\ \A k \in Worker : worker[k].pc # "respond" => answer[k].pc = "none"
    /\ reader.pc # "answer" => answer[Reader].pc = "none"

ReaderOK ==
    /\ open \in BOOLEAN
    /\ reader \in [pc : {"read", "decode", "answer", "ended"},
                   slice : SliceIn(Buffer \cup {0}), last : BOOLEAN]
    /\ IF reader.pc \in {"decode", "answer"} THEN reader.slice.buf \in Buffer
                                             ELSE reader.slice = NoSlice

\* A buffer has one user or is in one pool.
OneUser ==
    /\ requestPool \cup responsePool \subseteq Buffer \ Held
    /\ requestPool \cap responsePool = {}
    /\ \A g, h \in Writers : g # h => BuffersOf(g) \cap BuffersOf(h) = {}
    /\ \A g \in Writers : reader.slice.buf \notin BuffersOf(g)
    /\ \A g \in Writers :
           answer[g].pc = "write" => /\ answer[g].payloadBuf.buf # answer[g].msgBuf.buf
                                     /\ answer[g].payloadBuf.buf # 0
                                     /\ answer[g].msgBuf.buf # 0

\* There are never more buffers than users at one time.
InAnswers == UNION {BuffersOf(g) : g \in Writers}
FewBuffers ==
    /\ reader.slice.buf # 0 => requestPool = {}
    /\ requestPool # {} => \E b \in Buffer : requestPool = {b}
    /\ Cardinality(responsePool \cup InAnswers) <= 2 * MaxFrames + 2

MemoryOK == memory \in [Buffer -> [cap : Nat, data : Seq(Byte)]]

\* The receive buffer holds the frame that was read last, or a response of the peer's.
Fresh ==
    /\ sent # <<>>
    /\ worker[Len(sent)].pc = "none"
    /\ Bytes(reader.slice) = MessageOf(sent[Len(sent)])

ReceivedIntact ==
    reader.pc = "decode" =>
        /\ reader.slice.from = 1
        /\ reader.slice.to <= Len(memory[reader.slice.buf].data)
        /\ reader.slice.to <= MaxFrameSize
        /\ Fresh \/ \E k \in Worker : Bytes(reader.slice) = MessageOf(ReplyFrame(k))

EncodedIntact ==
    \A g \in Writers :
        answer[g].pc = "write" =>
            Bytes(answer[g].msgBuf) =
                EncodeMessage(MessageTypeResponse, EncodeResponse(answer[g].resp))

IInv ==
    /\ StoreOK
    /\ LocksOK
    /\ WorkersOK
    /\ AnswersOK
    /\ TurnsOK
    /\ ReaderOK
    /\ OneUser
    /\ FewBuffers
    /\ MemoryOK
    /\ ReceivedIntact
    /\ HandedIntact
    /\ EncodedIntact

-----------------------------------------------------------------------------
(* Buffers and slices.                                                     *)

LEMMA PartOf ==
  ASSUME NEW s \in Seq(Byte), NEW from \in Nat \ {0}, NEW to \in Nat, to <= Len(s)
  PROVE  /\ SubSeq(s, from, to) \in Seq(Byte)
         /\ Len(SubSeq(s, from, to)) = IF from <= to THEN to - from + 1 ELSE 0
         /\ \A i \in 1 .. to - from + 1 : SubSeq(s, from, to)[i] = s[from + i - 1]
<1>1. \A i \in from .. to : s[i] \in Byte
  <2>1. \A i \in from .. to : i \in 1 .. Len(s)
    BY LenProperties
  <2>. QED BY <2>1, ElementOfSeq
<1>2. from \in Int /\ to \in Int
  OBVIOUS
<1>. QED BY <1>1, <1>2, SubSeqProperties

LEMMA Whole ==
  ASSUME NEW s \in Seq(Byte)
  PROVE  SubSeq(s, 1, Len(s)) = s
<1> DEFINE n == Len(s)
           t == SubSeq(s, 1, n)
<1>1. n \in Nat
  BY LenProperties
<1>2. /\ t \in Seq(Byte) /\ Len(t) = IF 1 <= n THEN n - 1 + 1 ELSE 0
      /\ \A i \in 1 .. n - 1 + 1 : t[i] = s[1 + i - 1]
  BY <1>1, PartOf
<1> HIDE DEF t
<1>3. Len(t) = n /\ \A i \in 1 .. n : t[i] = s[i]
  <2>1. \A i \in 1 .. n : i \in 1 .. n - 1 + 1 /\ 1 + i - 1 = i
    BY <1>1
  <2>. QED BY <1>1, <1>2, <2>1
<1>. QED BY <1>2, <1>3, SeqEqual DEF t

\* A sequence that begins with another one.
LEMMA Begins ==
  ASSUME NEW a \in Seq(Byte), NEW b \in Seq(Byte)
  PROVE  SubSeq(a \o b, 1, Len(a)) = a
<1> DEFINE n == Len(a)
           s == a \o b
           t == SubSeq(s, 1, n)
<1>1. n \in Nat
  BY LenProperties
<1>2. Joined(s, a, n, b)
  BY <1>1, Ends
<1> HIDE DEF n, s
<1>3. s \in Seq(Byte) /\ n <= Len(s) /\ \A i \in 1 .. n : s[i] = a[i]
  <2>1. Len(b) \in Nat
    BY LenProperties
  <2>. QED BY <1>1, <1>2, <2>1 DEF Joined
<1>4. /\ t \in Seq(Byte) /\ Len(t) = IF 1 <= n THEN n - 1 + 1 ELSE 0
      /\ \A i \in 1 .. n - 1 + 1 : t[i] = s[1 + i - 1]
  BY <1>1, <1>3, PartOf
<1> HIDE DEF t
<1>5. Len(t) = n /\ \A i \in 1 .. n : t[i] = a[i]
  <2>1. \A i \in 1 .. n : i \in 1 .. n - 1 + 1 /\ 1 + i - 1 = i
    BY <1>1
  <2>. QED BY <1>1, <1>3, <1>4, <2>1
<1>6. t = a
  BY <1>4, <1>5, SeqEqual DEF n
<1>. QED BY <1>6 DEF t, s, n

Buf == [cap : Nat, data : Seq(Byte)]

\* A buffer begins with what was written to it last.
LEMMA FilledBegins ==
  ASSUME NEW array \in Buf, NEW bytes \in Seq(Byte)
  PROVE  LET buf == Filled(array, bytes)
         IN  /\ buf \in Buf /\ Len(bytes) <= Len(buf.data)
             /\ SubSeq(buf.data, 1, Len(bytes)) = bytes
<1> DEFINE n == Len(bytes)
           buf == Filled(array, bytes)
<1>1. array.data \in Seq(Byte) /\ Len(array.data) \in Nat /\ n \in Nat
  BY LenProperties DEF Buf
<1>2. CASE ~ n <= array.cap
  BY <1>1, <1>2, Whole DEF Filled, Buf
<1>3. CASE n <= array.cap
  <2> DEFINE rest == SubSeq(array.data, n + 1, Len(array.data))
  <2>1. rest \in Seq(Byte) /\ Len(rest) \in Nat
    <3>1. n + 1 \in Nat \ {0}
      BY <1>1
    <3>2. rest \in Seq(Byte)
      BY <1>1, <3>1, PartOf
    <3>. QED BY <3>2, LenProperties
  <2>2. buf = [cap |-> array.cap, data |-> bytes \o rest]
    BY <1>3 DEF Filled, Buf
  <2> HIDE DEF rest
  <2>3. /\ bytes \o rest \in Seq(Byte) /\ Len(bytes \o rest) = n + Len(rest)
        /\ SubSeq(bytes \o rest, 1, n) = bytes
    BY <2>1, ConcatProperties, Begins
  <2>. QED BY <1>1, <2>1, <2>2, <2>3 DEF Buf
<1>. QED BY <1>2, <1>3

\* A slice of a slice.
InRange(s) ==
    /\ s \in SliceIn(Buffer)
    /\ 1 <= s.from /\ s.from <= s.to + 1 /\ s.to <= Len(memory[s.buf].data)

LEMMA InRangeBytes ==
  ASSUME MemoryOK, NEW s, InRange(s)
  PROVE  /\ Bytes(s) = SubSeq(memory[s.buf].data, s.from, s.to)
         /\ Bytes(s) \in Seq(Byte) /\ Len(Bytes(s)) = s.to - s.from + 1
         /\ \A i \in 1 .. s.to - s.from + 1 : Bytes(s)[i] = memory[s.buf].data[s.from + i - 1]
<1> DEFINE data == memory[s.buf].data
<1>1. s.buf \in Buffer /\ s.from \in Nat \ {0} /\ s.to \in Nat /\ s.to <= Len(data)
  BY DEF InRange, SliceIn
<1>2. data \in Seq(Byte) /\ Len(data) \in Nat
  BY <1>1, LenProperties DEF MemoryOK
<1>3. Bytes(s) = SubSeq(data, s.from, s.to)
  <2>1. ~ s.to > Len(data)
    BY <1>1, <1>2
  <2>. QED BY <2>1 DEF Bytes
<1>4. s.from <= s.to + 1
  BY DEF InRange
<1> HIDE DEF data
<1>5. /\ SubSeq(data, s.from, s.to) \in Seq(Byte)
      /\ Len(SubSeq(data, s.from, s.to)) = IF s.from <= s.to THEN s.to - s.from + 1 ELSE 0
      /\ \A i \in 1 .. s.to - s.from + 1 : SubSeq(data, s.from, s.to)[i] = data[s.from + i - 1]
  BY <1>1, <1>2, PartOf
<1>. QED BY <1>1, <1>3, <1>4, <1>5 DEF data

LEMMA PartBytes ==
  ASSUME MemoryOK, NEW s, InRange(s), NEW from \in Nat \ {0}, NEW to \in Nat,
         from <= to + 1, to <= Len(Bytes(s))
  PROVE  InRange(Part(s, from, to)) /\ Bytes(Part(s, from, to)) = SubSeq(Bytes(s), from, to)
<1> DEFINE p == Part(s, from, to)
           q == SubSeq(Bytes(s), from, to)
           f == s.from
           t == s.to
           n == to - from + 1
           data == memory[s.buf].data
<1>1. f \in Nat \ {0} /\ t \in Nat /\ f <= t + 1 /\ t <= Len(data) /\ s.buf \in Buffer
  BY DEF InRange, SliceIn
<1>2. /\ Bytes(s) \in Seq(Byte) /\ Len(Bytes(s)) = t - f + 1
      /\ \A i \in 1 .. t - f + 1 : Bytes(s)[i] = data[f + i - 1]
  BY InRangeBytes
<1>3. Len(data) \in Nat
  BY <1>1, LenProperties DEF MemoryOK
<1>4. p = [buf |-> s.buf, from |-> f + from - 1, to |-> f + to - 1]
  BY DEF Part, Slice
<1> HIDE DEF p
<1>5. InRange(p)
  <2>1. /\ f + from - 1 \in Nat /\ f + to - 1 \in Nat
        /\ 1 <= f + from - 1 /\ f + from - 1 <= (f + to - 1) + 1 /\ f + to - 1 <= Len(data)
    <3> DEFINE len == Len(Bytes(s))
               d == Len(data)
    <3>1. len = t - f + 1 /\ to <= len /\ t <= d /\ d \in Nat
      BY <1>1, <1>2, <1>3
    <3> HIDE DEF len, d
    <3>2. f + from - 1 \in Nat /\ f + to - 1 \in Nat /\ f + to - 1 <= d
      BY <1>1, <3>1
    <3>. QED BY <1>1, <3>2 DEF d
  <2>. QED BY <1>1, <1>4, <2>1 DEF InRange, SliceIn
<1>6. /\ Bytes(p) \in Seq(Byte) /\ Len(Bytes(p)) = n
      /\ \A i \in 1 .. n : Bytes(p)[i] = data[f + from - 1 + i - 1]
  <2>1. /\ Bytes(p) \in Seq(Byte) /\ Len(Bytes(p)) = p.to - p.from + 1
        /\ \A i \in 1 .. p.to - p.from + 1 : Bytes(p)[i] = memory[p.buf].data[p.from + i - 1]
    BY <1>5, InRangeBytes
  <2>2. p.to - p.from + 1 = n /\ memory[p.buf].data = data /\ p.from = f + from - 1
    BY <1>1, <1>4
  <2>. QED BY <2>1, <2>2
<1>7. /\ q \in Seq(Byte) /\ Len(q) = n
      /\ \A i \in 1 .. n : q[i] = Bytes(s)[from + i - 1]
  <2>1. /\ q \in Seq(Byte) /\ Len(q) = IF from <= to THEN n ELSE 0
        /\ \A i \in 1 .. n : q[i] = Bytes(s)[from + i - 1]
    BY <1>2, PartOf
  <2> HIDE DEF q
  <2>2. ~ from <= to => n = 0
    OBVIOUS
  <2>. QED BY <2>1, <2>2
<1> HIDE DEF q
<1>8. ASSUME NEW i \in 1 .. n
      PROVE  Bytes(p)[i] = q[i]
  <2> DEFINE len == Len(Bytes(s))
  <2>1. len = t - f + 1 /\ to <= len
    BY <1>2
  <2> HIDE DEF len
  <2>2. from + i - 1 \in 1 .. t - f + 1 /\ f + from - 1 + i - 1 = f + (from + i - 1) - 1
    BY <1>1, <2>1
  <2>. QED BY <1>2, <1>6, <1>7, <2>2
<1>9. Bytes(p) = q
  BY <1>6, <1>7, <1>8, SeqEqual
<1>. QED BY <1>5, <1>9 DEF p, q

-----------------------------------------------------------------------------
(* There is always a buffer that nobody uses.                              *)

LEMMA ImageCardinality ==
  ASSUME NEW S, IsFiniteSet(S), NEW f, NEW Q, \A y \in Q : \E x \in S : y = f[x]
  PROVE  IsFiniteSet(Q) /\ Cardinality(Q) <= Cardinality(S)
<1> DEFINE T == {f[x] : x \in S}
           h == [x \in S |-> f[x]]
<1>1. h \in Surjection(S, T)
  BY DEF Surjection
<1>2. IsFiniteSet(T) /\ Cardinality(T) <= Cardinality(S)
  BY <1>1, FS_Surjection
<1>3. Q \in SUBSET T
  OBVIOUS
<1> HIDE DEF T
<1>4. IsFiniteSet(Q) /\ Cardinality(Q) <= Cardinality(T)
  BY <1>2, <1>3, FS_Subset
<1>. QED BY <1>2, <1>4, FS_CardinalityType

\* Every goroutine of G uses two buffers at most.
LEMMA TwoEach ==
  ASSUME NEW G, IsFiniteSet(G), NEW a, NEW Q,
         \A b \in Q : \E g \in G : b = a[g].payloadBuf.buf \/ b = a[g].msgBuf.buf
  PROVE  IsFiniteSet(Q) /\ Cardinality(Q) <= 2 * Cardinality(G)
<1> DEFINE payloads == [g \in G |-> a[g].payloadBuf.buf]
           messages == [g \in G |-> a[g].msgBuf.buf]
           Qp == {b \in Q : \E g \in G : b = payloads[g]}
           Qm == {b \in Q : \E g \in G : b = messages[g]}
<1>1. Q = Qp \cup Qm
  OBVIOUS
<1>2. IsFiniteSet(Qp) /\ Cardinality(Qp) <= Cardinality(G)
  BY ImageCardinality
<1>3. IsFiniteSet(Qm) /\ Cardinality(Qm) <= Cardinality(G)
  BY ImageCardinality
<1> HIDE DEF Qp, Qm
<1>4. /\ IsFiniteSet(Qp \cup Qm) /\ IsFiniteSet(Qp \cap Qm)
      /\ Cardinality(Qp \cup Qm) = Cardinality(Qp) + Cardinality(Qm) - Cardinality(Qp \cap Qm)
  BY <1>2, <1>3, FS_Union, FS_Intersection
<1>. QED BY <1>1, <1>2, <1>3, <1>4, FS_CardinalityType

LEMMA WriterCount ==
  /\ IsFiniteSet(Writers) /\ Cardinality(Writers) = MaxFrames + 1
  /\ \A g \in Writers : /\ IsFiniteSet(Writers \ {g})
                        /\ Cardinality(Writers \ {g}) = MaxFrames
<1>1. MaxFrames \in Nat \ {0} /\ Writers = 0 .. MaxFrames
  BY DispatchAssumption DEF Writers, Reader, Worker
<1>2. IsFiniteSet(Writers) /\ Cardinality(Writers) = MaxFrames + 1
  BY <1>1, FS_Interval
<1>3. ASSUME NEW g \in Writers
      PROVE  IsFiniteSet(Writers \ {g}) /\ Cardinality(Writers \ {g}) = MaxFrames
  <2>1. /\ IsFiniteSet(Writers \ {g})
        /\ Cardinality(Writers \ {g}) = Cardinality(Writers) - 1
    BY <1>2, <1>3, FS_RemoveElement
  <2>. QED BY <1>1, <1>2, <2>1
<1>. QED BY <1>2, <1>3

LEMMA Free ==
  ASSUME NEW U, IsFiniteSet(U), Cardinality(U) < 2 * MaxFrames + 3
  PROVE  \E b \in Buffer : b \notin U
<1> SUFFICES ASSUME Buffer \subseteq U
             PROVE  FALSE
  OBVIOUS
<1>1. Cardinality(Buffer) <= Cardinality(U)
  BY FS_Subset
<1>. QED BY <1>1, DispatchAssumption, FS_CardinalityType

LEMMA AnswersFinite ==
  ASSUME NEW a, NEW Q,
         \A b \in Q : \E g \in Writers : b = a[g].payloadBuf.buf \/ b = a[g].msgBuf.buf
  PROVE  IsFiniteSet(Q) /\ Cardinality(Q) <= 2 * MaxFrames + 2
<1>1. IsFiniteSet(Q) /\ Cardinality(Q) <= 2 * Cardinality(Writers)
  BY WriterCount, TwoEach
<1>. QED BY <1>1, WriterCount, DispatchAssumption, FS_CardinalityType

PoolsOK == AnswersOK /\ ReaderOK /\ OneUser /\ FewBuffers

LEMMA Users ==
  ASSUME AnswersOK
  PROVE  Held = {reader.slice.buf} \cup InAnswers /\ InAnswers \subseteq Buffer
  BY DispatchAssumption DEF AnswersOK, Answering, Held, InAnswers, BuffersOf, SliceIn

\* One for the receive loop.
LEMMA FreeForReader ==
  ASSUME PoolsOK, requestPool = {}, reader.slice.buf = 0
  PROVE  Unused(Held) \in Buffer \ (requestPool \cup responsePool \cup Held)
<1> DEFINE U == responsePool \cup InAnswers
<1>1. /\ responsePool \subseteq Buffer /\ InAnswers \subseteq Buffer
      /\ Held = {0} \cup InAnswers
      /\ Cardinality(U) <= 2 * MaxFrames + 2
  BY Users DEF PoolsOK, OneUser, FewBuffers
<1>2. IsFiniteSet(U)
  BY <1>1, FS_Subset, DispatchAssumption
<1> HIDE DEF U
<1>3. PICK b \in Buffer : b \notin U
  <2>1. Cardinality(U) < 2 * MaxFrames + 3
    BY <1>1, <1>2, FS_CardinalityType, DispatchAssumption
  <2>. QED BY <1>2, <2>1, Free
<1>4. b \in Buffer \ (requestPool \cup responsePool \cup Held)
  BY <1>1, <1>3, DispatchAssumption DEF U
<1>. QED BY <1>4 DEF Unused

\* Two for a goroutine that writes, when none is pooled or only the one it took.
LEMMA FreeForWriter ==
  ASSUME PoolsOK, NEW g \in Writers, BuffersOf(g) = {},
         NEW p, responsePool \subseteq {p}
  PROVE  \E b \in Buffer : b \notin requestPool \cup responsePool \cup Held \cup {p}
<1> DEFINE R == requestPool \cup ({reader.slice.buf} \ {0})
           U == R \cup (InAnswers \cup {p})
<1>1. Held = {reader.slice.buf} \cup InAnswers
  BY Users DEF PoolsOK
<1>2. /\ IsFiniteSet(InAnswers) /\ Cardinality(InAnswers) <= 2 * MaxFrames
  <2>1. \A b \in InAnswers : \E h \in Writers \ {g} :
            b = answer[h].payloadBuf.buf \/ b = answer[h].msgBuf.buf
    BY DEF InAnswers, BuffersOf, Writers
  <2>2. /\ IsFiniteSet(InAnswers) /\ Cardinality(InAnswers) <= 2 * Cardinality(Writers \ {g})
    BY <2>1, WriterCount, TwoEach
  <2>. QED BY <2>2, WriterCount
<1>3. IsFiniteSet(R) /\ Cardinality(R) <= 1
  <2>1. \E b : R \subseteq {b}
    BY DEF PoolsOK, FewBuffers
  <2>2. PICK b : R \subseteq {b}
    BY <2>1
  <2>3. IsFiniteSet({b}) /\ Cardinality({b}) = 1
    BY FS_Singleton
  <2>. QED BY <2>2, <2>3, FS_Subset
<1>4. IsFiniteSet(InAnswers \cup {p}) /\ Cardinality(InAnswers \cup {p}) <= 2 * MaxFrames + 1
  <2>1. /\ IsFiniteSet(InAnswers \cup {p})
        /\ Cardinality(InAnswers \cup {p})
               \in {Cardinality(InAnswers), Cardinality(InAnswers) + 1}
    BY <1>2, FS_AddElement
  <2>. QED BY <1>2, <2>1, FS_CardinalityType, DispatchAssumption
<1> HIDE DEF R
<1>5. IsFiniteSet(U) /\ Cardinality(U) < 2 * MaxFrames + 3
  <2> DEFINE A == InAnswers \cup {p}
  <2>1. /\ IsFiniteSet(R \cup A) /\ IsFiniteSet(R \cap A)
        /\ Cardinality(R \cup A) = Cardinality(R) + Cardinality(A) - Cardinality(R \cap A)
    BY <1>3, <1>4, FS_Union, FS_Intersection
  <2> HIDE DEF A
  <2>2. /\ Cardinality(R) \in Nat /\ Cardinality(A) \in Nat /\ Cardinality(R \cap A) \in Nat
    BY <1>3, <1>4, <2>1, FS_CardinalityType DEF A
  <2>3. Cardinality(A) <= 2 * MaxFrames + 1
    BY <1>4 DEF A
  <2>4. IsFiniteSet(R \cup A) /\ Cardinality(R \cup A) < 2 * MaxFrames + 3
    BY <1>3, <2>1, <2>2, <2>3, DispatchAssumption
  <2>. QED BY <2>4 DEF A
<1>6. PICK b \in Buffer : b \notin U
  BY <1>5, Free
<1>7. b \notin requestPool \cup responsePool \cup Held \cup {p}
  BY <1>1, <1>6, DispatchAssumption DEF R
<1>. QED BY <1>7

-----------------------------------------------------------------------------
(* writeResponse.                                                          *)

\* Nothing happens to the buffers while a goroutine has nothing to write yet.
LEMMA BuffersKept ==
  ASSUME AnswersOK, OneUser, FewBuffers, MemoryOK, EncodedIntact,
         UNCHANGED poolVars, reader'.slice = reader.slice,
         NEW g \in Writers, NEW resp \in Answerable, answer[g].pc = "none",
         StartAnswer(g, resp) \/ UNCHANGED answer
  PROVE  AnswersOK' /\ OneUser' /\ FewBuffers' /\ MemoryOK' /\ EncodedIntact'
<1>1. \A h \in Writers : /\ answer'[h].payloadBuf = answer[h].payloadBuf
                         /\ answer'[h].msgBuf = answer[h].msgBuf
                         /\ answer'[h].pc \in {answer[h].pc, "encode"}
                         /\ h # g => answer'[h] = answer[h]
  BY DEF AnswersOK, Answering, StartAnswer
<1>2. AnswersOK'
  <2>1. CASE StartAnswer(g, resp)
    <3>1. answer'[g] = [answer[g] EXCEPT !.pc = "encode", !.resp = resp]
      BY <2>1 DEF StartAnswer, AnswersOK
    <3>2. answer'[g] \in Answering
      <4>1. answer[g] \in Answering
        BY DEF AnswersOK
      <4>. QED BY <3>1, <4>1 DEF Answering
    <3>3. answer' = [answer EXCEPT ![g] = answer'[g]]
      BY <2>1 DEF StartAnswer, AnswersOK
    <3>4. answer' \in [Writers -> Answering]
      BY <3>2, <3>3 DEF AnswersOK
    <3>. QED BY <1>1, <3>4 DEF AnswersOK
  <2>2. CASE UNCHANGED answer
    BY <2>2 DEF AnswersOK
  <2>. QED BY <2>1, <2>2
<1>3. DOMAIN answer = Writers /\ DOMAIN answer' = Writers
  BY <1>2 DEF AnswersOK
<1>4. \A h \in Writers : BuffersOf(h)' = BuffersOf(h)
  BY <1>1 DEF BuffersOf
<1>5. Held' = Held /\ InAnswers' = InAnswers
  BY <1>3, <1>4 DEF Held, InAnswers
<1>6. OneUser'
  BY <1>1, <1>4, <1>5 DEF OneUser, poolVars
<1>7. FewBuffers' /\ MemoryOK'
  BY <1>5 DEF FewBuffers, MemoryOK, poolVars
<1>8. EncodedIntact'
  <2> SUFFICES ASSUME NEW h \in Writers, answer'[h].pc = "write"
               PROVE  Bytes(answer[h].msgBuf)' =
                          EncodeMessage(MessageTypeResponse, EncodeResponse(answer'[h].resp))
    BY DEF EncodedIntact
  <2>1. answer'[h] = answer[h]
    BY <1>1 DEF AnswersOK, StartAnswer
  <2>. QED BY <2>1 DEF EncodedIntact, Bytes, poolVars
<1>. QED BY <1>2, <1>6, <1>7, <1>8

\* A goroutine that encodes takes two buffers that nobody uses.
LEMMA TakesTwo ==
  ASSUME PoolsOK, NEW g \in Writers, BuffersOf(g) = {},
         NEW p \in Obtained(responsePool, Held),
         NEW m \in Obtained(responsePool \ {p}, Held \cup {p})
  PROVE  /\ p # m
         /\ {p, m} \subseteq Buffer \ (requestPool \cup Held)
         /\ responsePool \ {p, m} # {} => {p, m} \subseteq responsePool
<1>1. responsePool \subseteq Buffer \ (requestPool \cup Held)
  BY DEF PoolsOK, OneUser
<1>2. p \in Buffer \ (requestPool \cup Held)
  <2>1. CASE responsePool = {}
    <3>1. \E b \in Buffer : b \notin requestPool \cup responsePool \cup Held \cup {0}
      BY <2>1, FreeForWriter
    <3>2. Unused(Held) \in Buffer \ (requestPool \cup responsePool \cup Held)
      BY <3>1 DEF Unused
    <3>. QED BY <2>1, <3>2 DEF Obtained
  <2>2. CASE responsePool # {}
    BY <1>1, <2>2 DEF Obtained
  <2>. QED BY <2>1, <2>2
<1>3. m \in Buffer \ (requestPool \cup Held) /\ m # p
  <2>1. CASE responsePool \ {p} = {}
    <3>1. \E b \in Buffer : b \notin requestPool \cup responsePool \cup Held \cup {p}
      BY <2>1, FreeForWriter
    <3>2. Unused(Held \cup {p})
              \in Buffer \ (requestPool \cup responsePool \cup (Held \cup {p}))
      BY <3>1 DEF Unused
    <3>. QED BY <2>1, <3>2 DEF Obtained
  <2>2. CASE responsePool \ {p} # {}
    BY <1>1, <2>2 DEF Obtained
  <2>. QED BY <2>1, <2>2
<1>4. responsePool \ {p, m} # {} => {p, m} \subseteq responsePool
  BY DEF Obtained
<1>. QED BY <1>2, <1>3, <1>4

LEMMA ArrayType ==
  ASSUME MemoryOK, NEW pool, NEW b \in Buffer
  PROVE  Array(pool, b) \in Buf
<1>1. <<>> \in Seq(Byte)
  OBVIOUS
<1>. QED BY <1>1, PoolsAssumption DEF MemoryOK, Array, Buf

\* A response that the frame can tell, encoded.
LEMMA Encoded ==
  ASSUME NEW resp \in Answerable, NEW payload, payload = EncodeResponse(resp),
         NEW data, data = EncodeMessage(MessageTypeResponse, payload)
  PROVE  /\ payload \in Seq(Byte) /\ data \in Seq(Byte)
         /\ DecodeMessage(data) = [err |-> NoError, Type |-> MessageTypeResponse,
                                  from |-> 9, to |-> Len(data)]
         /\ SubSeq(data, 9, Len(data)) = payload
         /\ DecodeResponse(payload) = [err |-> NoError, ReqID |-> resp.ReqID,
                                      Code |-> resp.Code, from |-> 11, to |-> Len(payload)]
         /\ SubSeq(payload, 11, Len(payload)) = resp.Payload
<1>1. /\ resp \in [ReqID : UInt32, Code : UInt16, Payload : Seq(Byte)]
      /\ 10 + Len(resp.Payload) \in UInt32 /\ Len(resp.Payload) \in Nat
  BY LenProperties DEF Answerable
<1>2. Len(resp.Payload) \in UInt32 /\ 10 + Len(resp.Payload) # 0
  BY <1>1 DEF UInt32
<1>3. /\ payload \in Seq(Byte) /\ Len(payload) = 10 + Len(resp.Payload)
      /\ DecodeResponse(payload) = [err |-> NoError, ReqID |-> resp.ReqID,
                                   Code |-> resp.Code, from |-> 11, to |-> Len(payload)]
      /\ SubSeq(payload, 11, Len(payload)) = resp.Payload
  BY <1>1, <1>2, ResponseRoundTrip
<1>4. /\ data \in Seq(Byte)
      /\ DecodeMessage(data) = [err |-> NoError, Type |-> MessageTypeResponse,
                               from |-> 9, to |-> Len(data)]
      /\ SubSeq(data, 9, Len(data)) = payload
  BY <1>1, <1>2, <1>3, MessageRoundTrip
<1>. QED BY <1>3, <1>4

\* The two buffers of an answer begin with it.
LEMMA BuffersTaken ==
  ASSUME PoolsOK, MemoryOK, EncodedIntact, NEW g \in Writers, Encode(g)
  PROVE  AnswersOK' /\ OneUser' /\ FewBuffers' /\ MemoryOK' /\ EncodedIntact'
<1>1. AnswersOK /\ OneUser /\ FewBuffers
  BY DEF PoolsOK
<1> DEFINE payload == EncodeResponse(answer[g].resp)
           data == EncodeMessage(MessageTypeResponse, payload)
<1>0. PICK p \in Obtained(responsePool, Held) :
          \E m \in Obtained(responsePool \ {p}, Held \cup {p}) :
              /\ memory' = [memory EXCEPT ![p] = Filled(Array(responsePool, p), payload),
                                          ![m] = Filled(Array(responsePool, m), data)]
              /\ responsePool' = responsePool \ {p, m}
              /\ answer' = [answer EXCEPT ![g].pc = "write",
                                          ![g].payloadBuf = Slice(p, 1, Len(payload)),
                                          ![g].msgBuf = Slice(m, 1, Len(data))]
  BY DEF Encode, Remains
<1>2. PICK m \in Obtained(responsePool \ {p}, Held \cup {p}) :
          /\ memory' = [memory EXCEPT ![p] = Filled(Array(responsePool, p), payload),
                                      ![m] = Filled(Array(responsePool, m), data)]
          /\ responsePool' = responsePool \ {p, m}
          /\ answer' = [answer EXCEPT ![g].pc = "write",
                                      ![g].payloadBuf = Slice(p, 1, Len(payload)),
                                      ![g].msgBuf = Slice(m, 1, Len(data))]
  BY <1>0
<1>3. /\ answer[g].pc = "encode" /\ answer[g] \in Answering /\ BuffersOf(g) = {}
      /\ UNCHANGED <<requestPool, reader>>
  BY <1>1 DEF Encode, AnswersOK, BuffersOf, NoSlice, Slice
<1>4. /\ p # m
      /\ {p, m} \subseteq Buffer \ (requestPool \cup Held)
      /\ responsePool \ {p, m} # {} => {p, m} \subseteq responsePool
  BY <1>3, TakesTwo
<1>5. payload \in Seq(Byte) /\ data \in Seq(Byte)
  <2>1. answer[g].resp \in Answerable
    BY <1>3 DEF Answering
  <2>. QED BY <2>1, Encoded
<1>6. Len(payload) \in Nat /\ Len(data) \in Nat
  BY <1>5, LenProperties
<1> HIDE DEF payload
<1>7. data = EncodeMessage(MessageTypeResponse, EncodeResponse(answer[g].resp))
  BY DEF payload
<1> HIDE DEF data
<1>8. /\ answer'[g] = [answer[g] EXCEPT !.pc = "write",
                                        !.payloadBuf = Slice(p, 1, Len(payload)),
                                        !.msgBuf = Slice(m, 1, Len(data))]
      /\ answer' = [answer EXCEPT ![g] = answer'[g]]
  BY <1>1, <1>2 DEF AnswersOK
<1>9. answer'[g] \in Answering
  <2>1. /\ Slice(p, 1, Len(payload)) \in SliceIn(Buffer)
        /\ Slice(m, 1, Len(data)) \in SliceIn(Buffer)
    BY <1>4, <1>6 DEF Slice, SliceIn
  <2>. QED BY <1>3, <1>8, <2>1 DEF Answering, SliceIn
<1>10. /\ answer'[g].pc = "write" /\ answer'[g].resp = answer[g].resp
       /\ answer'[g].payloadBuf.buf = p /\ answer'[g].msgBuf = Slice(m, 1, Len(data))
       /\ answer'[g].msgBuf.buf = m
       /\ \A h \in Writers : h # g => answer'[h] = answer[h]
       /\ DOMAIN answer' = Writers /\ DOMAIN answer = Writers
  BY <1>1, <1>3, <1>8 DEF AnswersOK, Answering, Slice
<1>11. AnswersOK'
  <2>1. answer' \in [Writers -> Answering]
    BY <1>1, <1>8, <1>9 DEF AnswersOK
  <2>. QED BY <1>1, <1>10, <2>1 DEF AnswersOK
<1>12. /\ BuffersOf(g)' = {p, m}
       /\ \A h \in Writers : h # g => BuffersOf(h)' = BuffersOf(h)
  BY <1>4, <1>10, DispatchAssumption DEF BuffersOf
<1>13. Held' = Held \cup {p, m} /\ InAnswers' = InAnswers \cup {p, m}
  BY <1>3, <1>10, <1>12 DEF Held, InAnswers
<1>14. OneUser'
  <2>1. requestPool' \cup responsePool' \subseteq Buffer \ Held'
    BY <1>1, <1>2, <1>3, <1>4, <1>13 DEF OneUser
  <2>2. requestPool' \cap responsePool' = {}
    BY <1>1, <1>2, <1>3 DEF OneUser
  <2>3. \A h \in Writers : BuffersOf(h) \subseteq Held
    BY <1>10 DEF Held
  <2>4. \A h, i \in Writers : h # i => BuffersOf(h)' \cap BuffersOf(i)' = {}
    BY <1>1, <1>4, <1>12, <2>3 DEF OneUser
  <2>5. \A h \in Writers : reader'.slice.buf \notin BuffersOf(h)'
    <3>1. reader.slice.buf \in Held
      BY DEF Held
    <3>. QED BY <1>1, <1>3, <1>4, <1>12, <3>1 DEF OneUser
  <2>6. p # 0 /\ m # 0
    BY <1>4, DispatchAssumption
  <2>. QED BY <1>1, <1>4, <1>10, <2>1, <2>2, <2>4, <2>5, <2>6 DEF OneUser
<1>15. FewBuffers'
  <2>1. Cardinality(responsePool' \cup InAnswers') <= 2 * MaxFrames + 2
    <3>1. CASE responsePool' = {}
      <4>1. \A b \in InAnswers' : \E h \in Writers :
                b = answer'[h].payloadBuf.buf \/ b = answer'[h].msgBuf.buf
        BY DEF InAnswers, BuffersOf
      <4>2. Cardinality(InAnswers') <= 2 * MaxFrames + 2
        BY <4>1, AnswersFinite
      <4>. QED BY <3>1, <4>2
    <3>2. CASE responsePool' # {}
      <4>1. responsePool' \cup InAnswers' = responsePool \cup InAnswers
        BY <1>2, <1>4, <1>13, <3>2
      <4>. QED BY <1>1, <4>1 DEF FewBuffers
    <3>. QED BY <3>1, <3>2
  <2>. QED BY <1>1, <1>3, <2>1 DEF FewBuffers
<1>16. /\ memory' \in [Buffer -> Buf]
       /\ \A b \in Buffer \ {p, m} : memory'[b] = memory[b]
       /\ memory'[m] = Filled(Array(responsePool, m), data)
  <2>1. /\ Filled(Array(responsePool, p), payload) \in Buf
        /\ Filled(Array(responsePool, m), data) \in Buf
    <3>1. Array(responsePool, p) \in Buf /\ Array(responsePool, m) \in Buf
      BY <1>4, ArrayType
    <3>. QED BY <1>5, <3>1, FilledBegins
  <2>. QED BY <1>2, <1>4, <2>1 DEF MemoryOK, Buf
<1>17. MemoryOK'
  BY <1>16 DEF MemoryOK, Buf
<1>18. EncodedIntact'
  <2> SUFFICES ASSUME NEW h \in Writers, answer'[h].pc = "write"
               PROVE  Bytes(answer[h].msgBuf)' =
                          EncodeMessage(MessageTypeResponse, EncodeResponse(answer'[h].resp))
    BY DEF EncodedIntact
  <2>1. CASE h = g
    <3>1. /\ Len(data) <= Len(memory'[m].data)
          /\ SubSeq(memory'[m].data, 1, Len(data)) = data
      <4>1. Array(responsePool, m) \in Buf
        BY <1>4, ArrayType
      <4>. QED BY <1>5, <1>16, <4>1, FilledBegins
    <3>2. Len(memory'[m].data) \in Nat
      BY <1>4, <1>16, LenProperties DEF Buf
    <3>3. ~ Len(data) > Len(memory'[m].data)
      BY <1>6, <3>1, <3>2
    <3>4. /\ answer'[g].msgBuf.buf = m /\ answer'[g].msgBuf.from = 1
          /\ answer'[g].msgBuf.to = Len(data)
      BY <1>10 DEF Slice
    <3>5. Bytes(answer[g].msgBuf)' = data
      BY <3>1, <3>3, <3>4 DEF Bytes
    <3>. QED BY <1>7, <1>10, <2>1, <3>5
  <2>2. CASE h # g
    <3>1. answer'[h] = answer[h]
      BY <1>10, <2>2
    <3>2. answer[h].msgBuf.buf \in BuffersOf(h)
      BY <1>1, <3>1 DEF OneUser, BuffersOf
    <3>3. answer[h].msgBuf.buf \in Buffer \ {p, m}
      <4>1. BuffersOf(h) \subseteq InAnswers /\ BuffersOf(h) \subseteq Held
        BY <1>10 DEF InAnswers, Held
      <4>. QED BY <1>1, <1>4, <3>2, <4>1, Users
    <3>. QED BY <1>16, <3>1, <3>3 DEF EncodedIntact, Bytes
  <2>. QED BY <2>1, <2>2
<1>. QED BY <1>11, <1>14, <1>15, <1>17, <1>18

\* What a goroutine has written, or could not write, goes back to the pool, and the frame
\* with it, if it is the receive goroutine that returns.
LEMMA BuffersReturned ==
  ASSUME PoolsOK, MemoryOK, EncodedIntact,
         NEW g \in Writers,
         \/ answer' = [answer EXCEPT ![g] = NoAnswer]
         \/ answer[g].pc = "none" /\ UNCHANGED answer,
         responsePool' = responsePool \cup Pooled(BuffersOf(g)),
         NEW F, F \in {{}, {reader.slice.buf}},
         requestPool' = requestPool \cup Pooled(F), memory' = Dropped(F \cup BuffersOf(g)),
         reader'.slice = IF F = {} THEN reader.slice ELSE NoSlice,
         F # {} => reader.slice.buf # 0
  PROVE  AnswersOK' /\ OneUser' /\ FewBuffers' /\ MemoryOK' /\ EncodedIntact'
<1>1. /\ AnswersOK /\ OneUser /\ FewBuffers
      /\ reader.slice.buf \in Buffer \cup {0}
  BY DEF PoolsOK, ReaderOK, SliceIn
<1>2. /\ DOMAIN answer = Writers /\ DOMAIN answer' = Writers
      /\ answer'[g].pc = "none"
      /\ answer'[g].payloadBuf = NoSlice /\ answer'[g].msgBuf = NoSlice
      /\ \A h \in Writers : h # g => answer'[h] = answer[h]
  BY <1>1 DEF AnswersOK, NoAnswer
<1>3. AnswersOK'
  <2>1. NoAnswer \in Answering
    BY DEF NoAnswer, Answering, Answerable, SliceIn, NoSlice, Slice, UInt16, UInt32
  <2>. QED BY <1>1, <1>2, <2>1 DEF AnswersOK
<1>4. BuffersOf(g)' = {} /\ \A h \in Writers : h # g => BuffersOf(h)' = BuffersOf(h)
  BY <1>2 DEF BuffersOf, NoSlice, Slice
<1>5. /\ Held = {reader.slice.buf} \cup InAnswers
      /\ Held' = {reader'.slice.buf} \cup InAnswers'
      /\ InAnswers \subseteq Buffer
  BY <1>1, <1>2, Users DEF Held, InAnswers
<1>6. /\ InAnswers' = InAnswers \ BuffersOf(g)
      /\ BuffersOf(g) \subseteq InAnswers
  BY <1>1, <1>4 DEF InAnswers, OneUser
<1>7. /\ Pooled(F) \subseteq F /\ Pooled(BuffersOf(g)) \subseteq BuffersOf(g)
      /\ responsePool' = responsePool \cup Pooled(BuffersOf(g))
  BY DEF Pooled
<1>8. reader'.slice.buf = IF F = {} THEN reader.slice.buf ELSE 0
  BY DEF NoSlice, Slice
<1>9. OneUser'
  <2>1. requestPool' \cup responsePool' \subseteq Buffer \ Held'
    <3>1. /\ requestPool \cup responsePool \subseteq Buffer
          /\ \A b \in requestPool \cup responsePool : b # reader.slice.buf /\ b \notin InAnswers
      BY <1>1, <1>5 DEF OneUser
    <3>2. \A b \in requestPool' \cup responsePool' :
              b \in requestPool \cup responsePool \cup F \cup BuffersOf(g)
      BY <1>7
    <3>3. 0 \notin Buffer /\ (F # {} => F = {reader.slice.buf})
      BY DispatchAssumption
    <3>4. reader.slice.buf \notin InAnswers
      BY <1>1 DEF OneUser, InAnswers
    <3>. QED BY <1>1, <1>5, <1>6, <1>8, <3>1, <3>2, <3>3, <3>4
  <2>2. requestPool' \cap responsePool' = {}
    BY <1>1, <1>5, <1>6, <1>7, DispatchAssumption DEF OneUser
  <2>3. \A h, i \in Writers : h # i => BuffersOf(h)' \cap BuffersOf(i)' = {}
    BY <1>1, <1>4 DEF OneUser
  <2>4. \A h \in Writers : reader'.slice.buf \notin BuffersOf(h)'
    <3>1. \A h \in Writers : 0 \notin BuffersOf(h)
      BY DEF BuffersOf
    <3>. QED BY <1>1, <1>4, <1>8, <3>1 DEF OneUser
  <2>5. \A h \in Writers : answer'[h].pc = "write" => answer'[h] = answer[h]
    BY <1>2
  <2>. QED BY <1>1, <2>1, <2>2, <2>3, <2>4, <2>5 DEF OneUser
<1>10. FewBuffers'
  <2> DEFINE U == responsePool \cup InAnswers
  <2>1. U \subseteq Buffer
    BY <1>1, <1>5 DEF OneUser
  <2>2. IsFiniteSet(U) /\ Cardinality(U) <= 2 * MaxFrames + 2
    BY <1>1, <2>1, FS_Subset, DispatchAssumption DEF FewBuffers
  <2>3. responsePool' \cup InAnswers' \subseteq U
    BY <1>6, <1>7
  <2> HIDE DEF U
  <2>4. Cardinality(responsePool' \cup InAnswers') <= 2 * MaxFrames + 2
    <3> DEFINE V == responsePool' \cup InAnswers'
    <3>1. IsFiniteSet(V) /\ Cardinality(V) <= Cardinality(U)
      BY <2>2, <2>3, FS_Subset
    <3> HIDE DEF V
    <3>2. Cardinality(V) <= 2 * MaxFrames + 2
      BY <2>2, <3>1, FS_CardinalityType, DispatchAssumption
    <3>. QED BY <3>2 DEF V
  <2>5. /\ reader'.slice.buf # 0 => requestPool' = {}
        /\ requestPool' # {} => \E b \in Buffer : requestPool' = {b}
    BY <1>1, <1>7, <1>8 DEF FewBuffers
  <2>. QED BY <2>4, <2>5 DEF FewBuffers
<1>11. MemoryOK'
  BY DEF MemoryOK, Dropped, Unallocated
<1>12. EncodedIntact'
  <2> SUFFICES ASSUME NEW h \in Writers, answer'[h].pc = "write"
               PROVE  Bytes(answer[h].msgBuf)' =
                          EncodeMessage(MessageTypeResponse, EncodeResponse(answer'[h].resp))
    BY DEF EncodedIntact
  <2>1. h # g /\ answer'[h] = answer[h]
    BY <1>2
  <2>2. /\ answer[h].msgBuf.buf \in BuffersOf(h)
        /\ answer[h].msgBuf.buf \in Buffer
    BY <1>1, <1>5, <2>1 DEF OneUser, BuffersOf, InAnswers
  <2>3. answer[h].msgBuf.buf \notin F \cup BuffersOf(g)
    BY <1>1, <2>1, <2>2 DEF OneUser
  <2>4. memory'[answer[h].msgBuf.buf] = memory[answer[h].msgBuf.buf]
    BY <2>2, <2>3 DEF Dropped
  <2>. QED BY <2>1, <2>4 DEF EncodedIntact, Bytes
<1>. QED BY <1>3, <1>9, <1>10, <1>11, <1>12

-----------------------------------------------------------------------------
(* The store.                                                              *)

LEMMA LockTaken ==
  ASSUME StoreOK, LocksOK, NEW k \in Worker, RLock(k),
         worker \in [Worker -> Working], worker[k].pc = "decode",
         NEW w, w.pc = "execute", worker' = [worker EXCEPT ![k] = w]
  PROVE  StoreOK' /\ LocksOK'
<1>1. StoreOK'
  BY DispatchAssumption DEF StoreOK, StoreTypeOK, Registered, RLock
<1>2. LocksOK'
  <2>1. /\ worker'[k].pc = "execute"
        /\ \A j \in Worker : j # k => worker'[j].pc = worker[j].pc
    OBVIOUS
  <2>2. k \notin readers \cup queued
    BY DEF LocksOK, Executing
  <2>3. /\ readers' \cup queued' = readers \cup queued \cup {k}
        /\ readers' \cap queued' = {}
        /\ queued' \subseteq queued \cup {k}
    BY <2>2 DEF RLock, LocksOK
  <2>4. readers' \cup queued' = {j \in Worker : worker'[j].pc \in Executing}
    BY <2>1, <2>3 DEF LocksOK, Executing
  <2>5. \A j \in queued' : worker'[j].pc = "execute"
    BY <2>1, <2>3 DEF LocksOK
  <2>. QED BY <2>3, <2>4, <2>5 DEF LocksOK
<1>. QED BY <1>1, <1>2

LEMMA LockReturned ==
  ASSUME StoreOK, LocksOK, NEW k \in readers, RUnlock(k),
         worker \in [Worker -> Working],
         NEW w, w.pc = "respond", worker' = [worker EXCEPT ![k] = w]
  PROVE  StoreOK' /\ LocksOK'
<1>1. StoreOK'
  BY DEF StoreOK, StoreTypeOK, Registered, RUnlock
<1>2. LocksOK'
  <2>1. k \in Worker /\ k \notin queued
    BY DEF LocksOK
  <2>2. /\ worker'[k].pc = "respond"
        /\ \A j \in Worker : j # k => worker'[j].pc = worker[j].pc
    BY <2>1
  <2>3. readers' = readers \ {k} /\ queued' = queued
    BY DEF RUnlock
  <2>4. readers' \cup queued' = {j \in Worker : worker'[j].pc \in Executing}
    BY <2>1, <2>2, <2>3 DEF LocksOK, Executing
  <2>5. \A j \in queued' : worker'[j].pc = "execute"
    BY <2>1, <2>2, <2>3 DEF LocksOK, Executing
  <2>. QED BY <2>3, <2>4, <2>5 DEF LocksOK
<1>. QED BY <1>1, <1>2

\* Neither moves when a goroutine goes on without the lock, or keeps it.
LEMMA LockKept ==
  ASSUME StoreOK, LocksOK, UNCHANGED storeVars,
         \A k \in Worker : \/ worker'[k].pc = worker[k].pc
                           \/ /\ worker[k].pc \notin Executing
                              /\ worker'[k].pc \notin Executing
                           \/ /\ k \notin queued
                              /\ worker[k].pc \in Executing /\ worker'[k].pc \in Executing
  PROVE  StoreOK' /\ LocksOK'
<1>1. StoreOK'
  BY DEF StoreOK, StoreTypeOK, Registered, storeVars, lockVars
<1>2. readers' = readers /\ queued' = queued
  BY DEF storeVars, lockVars
<1>3. LocksOK'
  <2>1. queued \subseteq Worker
    BY DEF LocksOK
  <2>2. readers' \cup queued' = {j \in Worker : worker'[j].pc \in Executing}
    BY <1>2 DEF LocksOK
  <2>3. \A j \in queued' : worker'[j].pc = "execute"
    BY <1>2, <2>1 DEF LocksOK, Executing
  <2>. QED BY <1>2, <2>2, <2>3 DEF LocksOK
<1>. QED BY <1>1, <1>3

\* A registration, and the handlers that it lets go on.
LEMMA Registers ==
  ASSUME StoreOK, LocksOK, NEW r \in Registrar, Registration(r), UNCHANGED worker
  PROVE  StoreOK' /\ LocksOK'
<1> DEFINE M == {registers[q].middleware :
                     q \in {q \in Registrar : "middleware" \in DOMAIN registers[q]}}
<1>1. StoreTypeOK /\ Len(middlewares) <= Cardinality(Registered)
  BY DEF StoreOK, Registered
<1>2. IsFiniteSet(Registered) /\ Cardinality(Registered) \in Nat
  BY DispatchAssumption, FS_Subset, FS_CardinalityType DEF Registered
<1>3. middlewares \in Seq(M) /\ Len(middlewares) \in Nat
  BY <1>1, LenProperties DEF StoreTypeOK
<1>4. /\ registrar'[r] # "idle" /\ registrar[r] # "registered"
      /\ registrar' = [registrar EXCEPT ![r] = registrar'[r]]
      /\ registrar'[r] \in {"locking", "registered", "already registered"}
  BY <1>1 DEF Registration, Announce, RegisterHandler, RegisterMiddleware, StoreTypeOK
<1>5. \/ Registered' = Registered /\ registrar'[r] # "registered"
      \/ Registered' = Registered \cup {r} /\ r \notin Registered
  BY <1>1, <1>4 DEF Registered, StoreTypeOK
<1>6. /\ IsFiniteSet(Registered') /\ Cardinality(Registered') \in Nat
      /\ Cardinality(Registered') >= Cardinality(Registered)
      /\ registrar'[r] = "registered" => Cardinality(Registered') = Cardinality(Registered) + 1
  <2>1. CASE Registered' = Registered /\ registrar'[r] # "registered"
    BY <1>2, <2>1
  <2>2. CASE Registered' = Registered \cup {r} /\ r \notin Registered
    <3>1. IsFiniteSet(Registered') /\ Cardinality(Registered') = Cardinality(Registered) + 1
      BY <1>2, <2>2, FS_AddElement
    <3>. QED BY <1>2, <3>1
  <2>. QED BY <1>5, <2>1, <2>2
<1>7. middlewares' \in Seq(M) /\ Len(middlewares') <= Cardinality(Registered')
  <2>1. CASE middlewares' = middlewares
    <3> DEFINE n == Len(middlewares)
               c == Cardinality(Registered)
               d == Cardinality(Registered')
    <3>1. n \in Nat /\ n <= c /\ c \in Nat /\ d \in Nat /\ d >= c
      BY <1>1, <1>2, <1>3, <1>6
    <3> HIDE DEF n, c, d
    <3>2. n <= d
      BY <3>1
    <3>. QED BY <1>3, <2>1, <3>2 DEF n, d
  <2>2. CASE RegisterMiddleware(r)
    <3>1. /\ middlewares' = Append(middlewares, registers[r].middleware)
          /\ registrar'[r] = "registered" /\ registers[r].middleware \in M
      BY <1>1, <2>2 DEF RegisterMiddleware, StoreTypeOK
    <3> HIDE DEF M
    <3>2. middlewares' \in Seq(M) /\ Len(middlewares') = Len(middlewares) + 1
      BY <1>3, <3>1, AppendProperties
    <3> DEFINE n == Len(middlewares)
               c == Cardinality(Registered)
               d == Cardinality(Registered')
    <3>3. n \in Nat /\ n <= c /\ c \in Nat /\ d = c + 1
      BY <1>1, <1>2, <1>3, <1>6, <3>1
    <3> HIDE DEF n, c, d
    <3>4. n + 1 <= d
      BY <3>3
    <3>. QED BY <3>2, <3>4 DEF n, d
  <2>. QED BY <2>1, <2>2 DEF Registration, Announce, RegisterHandler
<1>8. commands' \in [ID -> Handler \cup {NoHandler}]
  <2>1. commands \in [ID -> Handler \cup {NoHandler}]
    BY <1>1 DEF StoreTypeOK
  <2>2. CASE RegisterHandler(r)
    <3>1. registers[r] \in [ID : ID, Handler : Handler]
      BY <2>2, StoreAssumption DEF RegisterHandler
    <3>. QED BY <2>1, <2>2, <3>1 DEF RegisterHandler
  <2>. QED BY <2>1, <2>2 DEF Registration, Announce, RegisterMiddleware
<1>9. /\ readers' \cup queued' = readers \cup queued
      /\ readers' \cap queued' = {} /\ queued' \subseteq queued
      /\ writer' \in Registrar \cup {NoOne}
  BY <1>1 DEF Registration, Announce, RegisterHandler, RegisterMiddleware, Exclusively,
              StoreTypeOK, LocksOK
<1>10. registrar' \in [Registrar -> {"idle", "locking", "registered", "already registered"}]
  BY <1>1, <1>4 DEF StoreTypeOK
<1>11. readers' \subseteq Goroutine /\ queued' \subseteq Goroutine
  BY <1>1, <1>9 DEF StoreTypeOK
<1>12. StoreOK'
  BY <1>7, <1>8, <1>9, <1>10, <1>11 DEF StoreOK, StoreTypeOK, Registered
<1>13. LocksOK'
  BY <1>9 DEF LocksOK
<1>. QED BY <1>12, <1>13

-----------------------------------------------------------------------------
(* handleCommand.                                                          *)

LEMMA Fits ==
  ASSUME NEW n \in Nat, n <= MaxFrames + MaxFrameSize + Cardinality(Registrar) + 18
  PROVE  n \in UInt32
<1> DEFINE limit == MaxFrames + MaxFrameSize + Cardinality(Registrar) + 18
<1>1. limit \in UInt32
  BY DispatchAssumption
<1> HIDE DEF limit
<1>2. n <= limit
  BY DEF limit
<1>. QED BY <1>1, <1>2 DEF UInt32

LEMMA Counts ==
  /\ MaxFrames \in Nat \ {0} /\ MaxFrameSize \in Nat \ {0} /\ Cardinality(Registrar) \in Nat
  BY DispatchAssumption, CodecAssumption, FS_CardinalityType

\* A short answer, and one that the middlewares have added to.
LEMMA ShortAnswer ==
  ASSUME NEW reqID \in UInt32,
         NEW code \in {StatusInvalidMessage, StatusInternalError, StatusCommandNotFound},
         NEW b \in Byte
  PROVE  [ReqID |-> reqID, Code |-> code, Payload |-> <<b>>] \in Answerable
<1> DEFINE p == <<b>>
<1>1. p \in Seq(Byte) /\ 10 + Len(p) = 11
  OBVIOUS
<1> HIDE DEF p
<1>2. 11 \in UInt32
  BY Counts, Fits
<1>3. code \in UInt16
  BY DEF StatusInvalidMessage, StatusInternalError, StatusCommandNotFound, UInt16
<1>4. [ReqID |-> reqID, Code |-> code, Payload |-> p] \in Answerable
  BY <1>1, <1>2, <1>3 DEF Answerable
<1>. QED BY <1>4 DEF p

LEMMA InvalidAnswer == InvalidMessage \in Answerable
  BY ShortAnswer, Counts, Fits DEF InvalidMessage, Byte

LEMMA LongAnswer ==
  ASSUME StoreOK, NEW reqID \in UInt32, NEW payload \in Seq(Byte), Len(payload) <= MaxFrameSize
  PROVE  [ReqID |-> reqID, Code |-> StatusCodeOK, Payload |-> Through(payload)] \in Answerable
<1> DEFINE m == Len(middlewares)
           r == Reverse(middlewares)
           n == Len(payload)
<1>1. middlewares \in Seq(Byte)
  <2>1. \A i \in 1 .. m : middlewares[i] \in Byte
    <3> DEFINE M == {registers[q].middleware :
                        q \in {q \in Registrar : "middleware" \in DOMAIN registers[q]}}
    <3>1. middlewares \in Seq(M)
      BY DEF StoreOK, StoreTypeOK
    <3>2. \A b \in M : b \in Byte
      BY DispatchAssumption
    <3> HIDE DEF M
    <3>. QED BY <3>1, <3>2, ElementOfSeq
  <2>2. middlewares = [i \in 1 .. m |-> middlewares[i]] /\ m \in Nat
    BY LenProperties DEF StoreOK, StoreTypeOK
  <2>. QED BY <2>1, <2>2, SeqDef
<1>2. m \in Nat /\ n \in Nat /\ m <= Cardinality(Registrar)
  <2>1. IsFiniteSet(Registered) /\ Cardinality(Registered) <= Cardinality(Registrar)
    BY DispatchAssumption, FS_Subset DEF Registered
  <2>2. m <= Cardinality(Registered) /\ m \in Nat /\ n \in Nat
    BY <1>1, LenProperties DEF StoreOK, Registered
  <2>. QED BY <2>1, <2>2, Counts, FS_CardinalityType
<1>3. r \in Seq(Byte) /\ Len(r) = m
  <2>1. r = [i \in 1 .. m |-> middlewares[(m - i) + 1]]
    BY DEF Reverse
  <2>2. \A i \in 1 .. m : (m - i) + 1 \in 1 .. m
    BY <1>2
  <2>3. \A i \in 1 .. m : middlewares[(m - i) + 1] \in Byte
    BY <1>1, <2>2, ElementOfSeq
  <2>. QED BY <1>2, <2>1, <2>3
<1> HIDE DEF r, m
<1>4. Through(payload) \in Seq(Byte) /\ Len(Through(payload)) = n + m
  BY <1>3, ConcatProperties DEF Through, r
<1> HIDE DEF n
<1>5. 10 + (n + m) \in UInt32
  <2>1. n <= MaxFrameSize
    BY DEF n
  <2>. QED BY <1>2, <2>1, Counts, Fits
<1>6. StatusCodeOK \in UInt16
  BY DEF StatusCodeOK, UInt16
<1>. QED BY <1>4, <1>5, <1>6 DEF Answerable

\* The numbers that a command is decoded to fit their fields.
LEMMA Uint16Type ==
  ASSUME NEW data \in Seq(Byte), NEW i \in Nat \ {0}, i + 1 <= Len(data)
  PROVE  Uint16(data, i) \in UInt16
<1>1. i \in 1 .. Len(data) /\ i + 1 \in 1 .. Len(data)
  BY LenProperties
<1> DEFINE x == data[i]
           y == data[i + 1]
<1>2. x \in Byte /\ y \in Byte
  BY <1>1, ElementOfSeq
<1>3. Uint16(data, i) = 256 * x + y
  BY DEF Uint16
<1> HIDE DEF x, y
<1>. QED BY <1>2, <1>3 DEF Byte, UInt16

LEMMA Uint32Type ==
  ASSUME NEW data \in Seq(Byte), NEW i \in Nat \ {0}, i + 3 <= Len(data)
  PROVE  Uint32(data, i) \in UInt32
<1> DEFINE h == Uint16(data, i)
           l == Uint16(data, i + 2)
<1>1. h \in UInt16 /\ l \in UInt16
  <2>1. i + 1 <= Len(data) /\ i + 2 \in Nat \ {0} /\ (i + 2) + 1 <= Len(data)
    BY LenProperties
  <2>. QED BY <2>1, Uint16Type
<1>2. Uint32(data, i) = 65536 * h + l
  BY DEF Uint32
<1> HIDE DEF h, l
<1>. QED BY <1>1, <1>2 DEF UInt16, UInt32

LEMMA CommandType ==
  ASSUME NEW data \in Seq(Byte), Len(data) <= MaxFrameSize,
         NEW d, d = DecodeCommand(data), d.err = NoError
  PROVE  [ReqID |-> d.ReqID, ID |-> d.ID, Payload |-> SubSeq(data, d.from, d.to)] \in Commanded
<1>1. d.from = 11 /\ d.to \in 10 .. Len(data)
  BY DecodersStayInside
<1>2. /\ Len(data) >= 10 /\ Len(data) \in Nat
      /\ d = [err |-> NoError, ReqID |-> Uint32(data, 1), ID |-> Uint16(data, 5),
              from |-> 11, to |-> 10 + Uint32(data, 7)]
  <2>1. Len(data) \in Nat
    BY LenProperties
  <2>2. ~ Len(data) < 10 /\ ~ Len(data) < 10 + Uint32(data, 7)
    BY Zenon DEF DecodeCommand, DecodeFields, Refused, NoError
  <2>3. DecodeFields(data) =
            [err |-> NoError, ReqID |-> Uint32(data, 1), second |-> Uint16(data, 5),
             from |-> 11, to |-> 10 + Uint32(data, 7)]
    BY <2>2 DEF DecodeFields
  <2>. QED BY <2>1, <2>2, <2>3 DEF DecodeCommand
<1>3. Uint32(data, 1) \in UInt32 /\ Uint16(data, 5) \in UInt16 /\ Uint32(data, 7) \in UInt32
  BY <1>2, Uint16Type, Uint32Type
<1>4. 11 \in Nat \ {0} /\ d.to \in Nat
  BY <1>2, <1>3 DEF UInt32
<1>5. /\ SubSeq(data, 11, d.to) \in Seq(Byte)
      /\ Len(SubSeq(data, 11, d.to)) = IF 11 <= d.to THEN d.to - 11 + 1 ELSE 0
  BY <1>1, <1>4, PartOf
<1>6. Len(SubSeq(data, 11, d.to)) <= MaxFrameSize
  <2> DEFINE n == Len(data)
             p == Len(SubSeq(data, 11, d.to))
             t == d.to
  <2>1. /\ p = IF 11 <= t THEN t - 11 + 1 ELSE 0
        /\ t \in Nat /\ n \in Nat /\ t <= n /\ n <= MaxFrameSize
    BY <1>1, <1>2, <1>4, <1>5
  <2> HIDE DEF n, p, t
  <2>2. p <= MaxFrameSize
    BY <2>1, Counts
  <2>. QED BY <2>2 DEF p
<1>. QED BY <1>1, <1>2, <1>3, <1>5, <1>6 DEF Commanded

\* The frame that was received stays what it is.
LEMMA ReceivedKept ==
  ASSUME IInv, UNCHANGED <<sent, reader>>,
         reader.pc = "decode" => memory'[reader.slice.buf] = memory[reader.slice.buf],
         \A j \in Worker : worker[j].pc = "none" => worker'[j].pc = "none"
  PROVE  ReceivedIntact'
<1> SUFFICES ASSUME reader.pc = "decode"
             PROVE  ReceivedIntact'
  BY DEF ReceivedIntact
<1>1. Bytes(reader.slice)' = Bytes(reader.slice)
  BY DEF Bytes
<1>2. Fresh => Fresh'
  <2>1. sent # <<>> => Len(sent) \in Worker
    BY DispatchAssumption, LenProperties, EmptySeq DEF IInv, WorkersOK, Worker
  <2>. QED BY <1>1, <2>1 DEF Fresh
<1>. QED BY <1>1, <1>2 DEF IInv, ReceivedIntact

\* What the store does not decide when a goroutine goes on to w, perhaps with an answer.
LEMMA WorkerMoves ==
  ASSUME IInv, NEW k \in Worker, worker[k].pc \notin {"none", "respond"},
         UNCHANGED <<open, sent, reader, poolVars>>,
         NEW w \in Working, worker' = [worker EXCEPT ![k] = w],
         w.pc \in {"execute", "calling", "respond"},
         w.pc # "respond" => w.payload = worker[k].payload /\ worker[k].pc # "done",
         NEW resp \in Answerable,
         IF w.pc = "respond" THEN StartAnswer(k, resp) ELSE UNCHANGED answer
  PROVE  /\ WorkersOK' /\ AnswersOK' /\ TurnsOK' /\ ReaderOK' /\ OneUser' /\ FewBuffers'
         /\ MemoryOK' /\ ReceivedIntact' /\ HandedIntact' /\ EncodedIntact'
<1>1. /\ worker \in [Worker -> Working]
      /\ worker'[k] = w /\ \A j \in Worker : j # k => worker'[j] = worker[j]
      /\ UNCHANGED <<sent, reader, memory>>
  BY DEF IInv, WorkersOK, poolVars
<1>2. WorkersOK'
  BY <1>1 DEF IInv, WorkersOK
<1>3. k \in Writers /\ k # Reader /\ answer[k].pc = "none"
  BY DispatchAssumption DEF IInv, TurnsOK, Writers, Worker, Reader
<1>4. AnswersOK' /\ OneUser' /\ FewBuffers' /\ MemoryOK' /\ EncodedIntact'
  BY <1>1, <1>3, BuffersKept DEF IInv
<1>5. TurnsOK'
  <2>1. \A g \in Writers : g # k => answer'[g] = answer[g]
    BY DEF StartAnswer, IInv, AnswersOK
  <2>. QED BY <1>1, <1>3, <2>1 DEF IInv, TurnsOK, Writers
<1>6. ReaderOK'
  BY DEF IInv, ReaderOK
<1>7. ReceivedIntact'
  BY <1>1, ReceivedKept
<1>8. HandedIntact'
  <2> SUFFICES ASSUME NEW j \in Worker
               PROVE  /\ worker'[j].pc \in {"decode", "execute", "calling", "replied"} =>
                             Seen(worker[j].payload)' = PayloadOf(sent'[j])
                      /\ worker'[j].pc = "replied" => Seen(worker[j].reply)' = ReplyPayload(j)
    BY DEF HandedIntact
  <2>1. CASE j # k
    BY <1>1, <2>1 DEF IInv, HandedIntact, Seen, Bytes
  <2>2. CASE j = k
    <3>1. w.pc # "respond" => worker[k].pc \in {"decode", "execute", "calling", "replied"}
      BY <1>1 DEF Working, Executing
    <3>. QED BY <1>1, <2>2, <3>1 DEF IInv, HandedIntact, Seen, Bytes
  <2>. QED BY <2>1, <2>2
<1>. QED BY <1>2, <1>4, <1>5, <1>6, <1>7, <1>8

\* The handler of k returns.
LEMMA WorkerReturns ==
  ASSUME IInv, NEW k \in readers, worker[k].pc \in Executing,
         NEW code, NEW payload, Returns(k, code, payload),
         [ReqID |-> worker[k].cmd.ReqID, Code |-> code, Payload |-> payload] \in Answerable,
         UNCHANGED <<open, sent, responded, reader, poolVars>>
  PROVE  IInv'
<1> DEFINE w == [worker[k] EXCEPT !.pc = "respond"]
           resp == [ReqID |-> worker[k].cmd.ReqID, Code |-> code, Payload |-> payload]
<1>1. worker \in [Worker -> Working] /\ k \in Worker
  BY DEF IInv, WorkersOK, LocksOK
<1>2. w \in Working /\ w.pc = "respond" /\ worker' = [worker EXCEPT ![k] = w]
  BY <1>1 DEF Returns, Working
<1>3. resp \in Answerable /\ StartAnswer(k, resp) /\ RUnlock(k)
  BY DEF Returns, Unlocked
<1> HIDE DEF w, resp
<1>4. StoreOK' /\ LocksOK'
  BY <1>1, <1>2, <1>3, LockReturned DEF IInv
<1>5. /\ WorkersOK' /\ AnswersOK' /\ TurnsOK' /\ ReaderOK' /\ OneUser' /\ FewBuffers'
      /\ MemoryOK' /\ ReceivedIntact' /\ HandedIntact' /\ EncodedIntact'
  BY <1>1, <1>2, <1>3, WorkerMoves DEF Executing
<1>. QED BY <1>4, <1>5 DEF IInv

LEMMA StartCommandOK ==
  ASSUME IInv, NEW k \in Worker, StartCommand(k)
  PROVE  IInv'
<1> DEFINE payload == Seen(worker[k].payload)
           d == DecodeCommand(payload)
<1>1. /\ worker \in [Worker -> Working] /\ worker[k] \in Working /\ worker[k].pc = "decode"
      /\ UNCHANGED <<open, sent, responded, reader, poolVars>>
  BY DEF IInv, WorkersOK, StartCommand
<1>2. payload \in Seq(Byte) /\ Len(payload) <= MaxFrameSize
  <2>1. worker[k].payload \in SomeBytes
    BY <1>1 DEF Working
  <2>. QED BY <2>1 DEF Seen, SomeBytes
<1>3. InvalidMessage \in Answerable
  BY InvalidAnswer
<1>4. CASE /\ d.err # NoError
           /\ StartAnswer(k, InvalidMessage)
           /\ worker' = [worker EXCEPT ![k].pc = "respond"]
           /\ UNCHANGED storeVars
  <2> DEFINE w == [worker[k] EXCEPT !.pc = "respond"]
  <2>1. w \in Working /\ w.pc = "respond" /\ worker' = [worker EXCEPT ![k] = w]
    BY <1>1, <1>4 DEF Working
  <2> HIDE DEF w
  <2>2. StoreOK' /\ LocksOK'
    BY <1>1, <1>4, <2>1, LockKept DEF IInv, Executing
  <2>3. /\ WorkersOK' /\ AnswersOK' /\ TurnsOK' /\ ReaderOK' /\ OneUser' /\ FewBuffers'
        /\ MemoryOK' /\ ReceivedIntact' /\ HandedIntact' /\ EncodedIntact'
    BY <1>1, <1>3, <1>4, <2>1, WorkerMoves
  <2>. QED BY <2>2, <2>3 DEF IInv
<1>5. CASE /\ d.err = NoError
           /\ RLock(k)
           /\ worker' = [worker EXCEPT ![k].pc = "execute",
                     ![k].cmd = [ReqID |-> d.ReqID, ID |-> d.ID,
                                 Payload |-> SubSeq(payload, d.from, d.to)]]
           /\ UNCHANGED answer
  <2> DEFINE cmd == [ReqID |-> d.ReqID, ID |-> d.ID, Payload |-> SubSeq(payload, d.from, d.to)]
             w == [worker[k] EXCEPT !.pc = "execute", !.cmd = cmd]
  <2>1. cmd \in Commanded
    BY <1>2, <1>5, CommandType
  <2>2. worker' = [worker EXCEPT ![k].pc = "execute", ![k].cmd = cmd]
    BY <1>5
  <2> HIDE DEF cmd
  <2>3. /\ w \in Working /\ w.pc = "execute" /\ w.payload = worker[k].payload
        /\ worker' = [worker EXCEPT ![k] = w]
    BY <1>1, <2>1, <2>2 DEF Working, Executing
  <2> HIDE DEF w
  <2>4. StoreOK' /\ LocksOK'
    BY <1>1, <1>5, <2>3, LockTaken DEF IInv
  <2>5. /\ WorkersOK' /\ AnswersOK' /\ TurnsOK' /\ ReaderOK' /\ OneUser' /\ FewBuffers'
        /\ MemoryOK' /\ ReceivedIntact' /\ HandedIntact' /\ EncodedIntact'
    BY <1>1, <1>3, <1>5, <2>3, WorkerMoves
  <2>. QED BY <2>4, <2>5 DEF IInv
<1>. QED BY <1>4, <1>5 DEF StartCommand

LEMMA ExecuteOK ==
  ASSUME IInv, NEW k \in Worker, Execute(k)
  PROVE  IInv'
<1> DEFINE cmd == worker[k].cmd
<1>1. /\ worker[k].pc = "execute" /\ k \in readers
      /\ UNCHANGED <<open, sent, responded, reader, poolVars>>
  BY DEF Execute
<1>2. /\ worker \in [Worker -> Working] /\ worker[k] \in Working
      /\ cmd.ReqID \in UInt32 /\ cmd.Payload \in Seq(Byte) /\ Len(cmd.Payload) <= MaxFrameSize
  BY DEF IInv, WorkersOK, Working, Commanded
<1>3. CASE \/ Returns(k, StatusCommandNotFound, <<2>>)
           \/ Returns(k, StatusInternalError, <<3>>)
           \/ Returns(k, StatusCodeOK, Through(cmd.Payload))
  <2>1. \A code \in {StatusCommandNotFound, StatusInternalError} : \A b \in {2, 3} :
            [ReqID |-> cmd.ReqID, Code |-> code, Payload |-> <<b>>] \in Answerable
    BY <1>2, ShortAnswer DEF Byte
  <2>2. [ReqID |-> cmd.ReqID, Code |-> StatusCodeOK, Payload |-> Through(cmd.Payload)]
            \in Answerable
    BY <1>2, LongAnswer DEF IInv
  <2>. QED BY <1>1, <1>3, <2>1, <2>2, WorkerReturns DEF Executing
<1>4. CASE /\ worker' = [worker EXCEPT ![k].pc = "calling"]
           /\ UNCHANGED <<answer, storeVars>>
  <2> DEFINE w == [worker[k] EXCEPT !.pc = "calling"]
  <2>1. /\ w \in Working /\ w.pc = "calling" /\ w.payload = worker[k].payload
        /\ worker' = [worker EXCEPT ![k] = w]
    BY <1>2, <1>4 DEF Working, Executing
  <2> HIDE DEF w
  <2>2. StoreOK' /\ LocksOK'
    <3>1. k \notin queued
      BY <1>1 DEF IInv, LocksOK
    <3>. QED BY <1>1, <1>2, <1>4, <2>1, <3>1, LockKept DEF IInv, Executing
  <2>3. [ReqID |-> cmd.ReqID, Code |-> StatusInternalError, Payload |-> <<3>>] \in Answerable
    BY <1>2, ShortAnswer DEF Byte
  <2>4. /\ WorkersOK' /\ AnswersOK' /\ TurnsOK' /\ ReaderOK' /\ OneUser' /\ FewBuffers'
        /\ MemoryOK' /\ ReceivedIntact' /\ HandedIntact' /\ EncodedIntact'
    BY <1>1, <1>4, <2>1, <2>3, WorkerMoves
  <2>. QED BY <2>2, <2>4 DEF IInv
<1>. QED BY <1>3, <1>4 DEF Execute, Locked

\* The three ends of a handler's own command.
LEMMA CalledOK ==
  ASSUME IInv, NEW k \in Worker, Replied(k) \/ ConnectionClosed(k) \/ TimesOut(k)
  PROVE  IInv'
<1> DEFINE reply == Seen(worker[k].reply)
<1>1. /\ worker[k].pc \in {"calling", "replied"}
      /\ UNCHANGED <<open, sent, responded, reader, poolVars>>
  BY DEF Replied, ConnectionClosed, TimesOut
<1>2. k \in readers
  BY <1>1 DEF IInv, LocksOK, Executing
<1>3. worker[k].cmd.ReqID \in UInt32 /\ worker[k].reply \in SomeBytes
  BY DEF IInv, WorkersOK, Working, Commanded
<1>4. reply \in Seq(Byte) /\ Len(reply) <= MaxFrameSize
  BY <1>3 DEF Seen, SomeBytes
<1> HIDE DEF reply
<1>5. /\ [ReqID |-> worker[k].cmd.ReqID, Code |-> StatusCodeOK, Payload |-> Through(reply)]
             \in Answerable
      /\ [ReqID |-> worker[k].cmd.ReqID, Code |-> StatusInternalError, Payload |-> <<3>>]
             \in Answerable
  BY <1>3, <1>4, LongAnswer, ShortAnswer DEF IInv, Byte
<1>6. Returns(k, StatusCodeOK, Through(reply)) \/ Returns(k, StatusInternalError, <<3>>)
  BY DEF Replied, ConnectionClosed, TimesOut, reply
<1>. QED BY <1>1, <1>2, <1>5, <1>6, WorkerReturns DEF Executing

\* A goroutine has bytes of its own, not a slice of the receive buffer.
OwnBytes ==
    \A k \in Worker : worker[k].payload.slice = NoSlice /\ worker[k].reply.slice = NoSlice

LEMMA OwnCopies ==
  ASSUME WorkersOK
  PROVE  OwnBytes
  BY DEF WorkersOK, Working, SomeBytes, OwnBytes

LEMMA RespondOK ==
  ASSUME IInv, NEW k \in Worker, Respond(k)
  PROVE  IInv'
<1>1. /\ worker[k].pc = "respond" /\ memory' = Dropped(BuffersOf(k))
      /\ worker' = [worker EXCEPT ![k] = [NotStarted EXCEPT !.pc = "done"]]
      /\ UNCHANGED <<sent, responded, reader, requestPool, storeVars>>
      /\ k \in Writers
  BY DEF Respond, Writers
<1>2. PICK written \in BOOLEAN :
          WriteFrame(k, written) /\ open' \in IF written THEN {open} ELSE {open, FALSE}
  BY DEF Respond
<1>3. /\ worker \in [Worker -> Working]
      /\ worker'[k].pc = "done" /\ \A j \in Worker : j # k => worker'[j] = worker[j]
  BY <1>1 DEF IInv, WorkersOK, NotStarted
<1>4. StoreOK' /\ LocksOK'
  BY <1>1, <1>3, LockKept DEF IInv, Executing
<1>5. WorkersOK'
  <2>1. [NotStarted EXCEPT !.pc = "done"] \in Working
    <3>1. <<>> \in Seq(Byte) /\ Len(<<>>) <= MaxFrameSize /\ 0 \in UInt32 /\ 0 \in UInt16
      BY Counts DEF UInt32, UInt16
    <3>. QED BY <3>1 DEF NotStarted, Nothing, Working, SomeBytes, Commanded
  <2>. QED BY <1>1, <1>3, <2>1 DEF IInv, WorkersOK
<1>6. AnswersOK' /\ OneUser' /\ FewBuffers' /\ MemoryOK' /\ EncodedIntact'
  <2>1. /\ requestPool' = requestPool \cup Pooled({}) /\ memory' = Dropped({} \cup BuffersOf(k))
        /\ reader'.slice = reader.slice
    <3>1. Pooled({}) = {} /\ {} \cup BuffersOf(k) = BuffersOf(k)
      BY DEF Pooled
    <3>. QED BY <1>1, <3>1
  <2>2. /\ answer' = [answer EXCEPT ![k] = NoAnswer]
        /\ responsePool' = responsePool \cup Pooled(BuffersOf(k))
    BY <1>2 DEF WriteFrame
  <2>. QED BY <1>1, <2>1, <2>2, BuffersReturned DEF IInv, PoolsOK
<1>7. TurnsOK'
  <2>1. answer' = [answer EXCEPT ![k] = NoAnswer]
    BY <1>2 DEF WriteFrame
  <2>2. k # Reader
    BY DEF Worker, Reader
  <2>. QED BY <1>1, <1>3, <2>1, <2>2 DEF IInv, TurnsOK, AnswersOK, NoAnswer, Writers
<1>8. ReaderOK'
  BY <1>1, <1>2 DEF IInv, ReaderOK
<1>9. ReceivedIntact'
  <2>1. reader.slice.buf \notin BuffersOf(k)
    BY <1>1 DEF IInv, OneUser
  <2>2. reader.pc = "decode" => reader.slice.buf \in Buffer
    BY DEF IInv, ReaderOK
  <2>. QED BY <1>1, <1>3, <2>1, <2>2, ReceivedKept DEF Dropped
<1>10. HandedIntact'
  <2>1. OwnBytes
    BY OwnCopies DEF IInv
  <2>. QED BY <1>1, <1>3, <2>1 DEF IInv, HandedIntact, Seen, OwnBytes
<1>. QED BY <1>4, <1>5, <1>6, <1>7, <1>8, <1>9, <1>10 DEF IInv

LEMMA EncodeOK ==
  ASSUME IInv, NEW g \in Writers, Encode(g)
  PROVE  IInv'
<1>1. /\ UNCHANGED <<open, sent, responded, reader, worker, requestPool, storeVars>>
      /\ answer[g].pc = "encode"
  BY DEF Encode
<1>2. StoreOK' /\ LocksOK'
  BY <1>1, LockKept DEF IInv
<1>3. AnswersOK' /\ OneUser' /\ FewBuffers' /\ MemoryOK' /\ EncodedIntact'
  BY BuffersTaken DEF IInv, PoolsOK
<1>4. WorkersOK' /\ ReaderOK'
  BY <1>1 DEF IInv, WorkersOK, ReaderOK
<1>5. TurnsOK'
  <2>1. \A h \in Writers : h # g => answer'[h] = answer[h]
    BY DEF Encode, IInv, AnswersOK
  <2>. QED BY <1>1, <2>1 DEF IInv, TurnsOK, Writers
<1>6. ReceivedIntact'
  <2>1. reader.pc = "decode" => memory'[reader.slice.buf] = memory[reader.slice.buf]
    <3>1. BuffersOf(g) = {}
      BY <1>1 DEF IInv, AnswersOK, BuffersOf, NoSlice, Slice
    <3> DEFINE payload == EncodeResponse(answer[g].resp)
               data == EncodeMessage(MessageTypeResponse, payload)
    <3>2. PICK p \in Obtained(responsePool, Held) :
              \E m \in Obtained(responsePool \ {p}, Held \cup {p}) :
                  memory' = [memory EXCEPT ![p] = Filled(Array(responsePool, p), payload),
                                           ![m] = Filled(Array(responsePool, m), data)]
      BY DEF Encode
    <3>3. PICK m \in Obtained(responsePool \ {p}, Held \cup {p}) :
              memory' = [memory EXCEPT ![p] = Filled(Array(responsePool, p), payload),
                                       ![m] = Filled(Array(responsePool, m), data)]
      BY <3>2
    <3> HIDE DEF data, payload
    <3>4. p \notin Held /\ m \notin Held
      BY <3>1, TakesTwo DEF IInv, PoolsOK
    <3>5. reader.slice.buf \in Held /\ (reader.pc = "decode" => reader.slice.buf \in Buffer)
      BY DEF Held, IInv, ReaderOK
    <3>. QED BY <3>3, <3>4, <3>5 DEF IInv, MemoryOK
  <2>. QED BY <1>1, <2>1, ReceivedKept
<1>7. HandedIntact'
  <2>1. OwnBytes
    BY OwnCopies DEF IInv
  <2>. QED BY <1>1, <2>1 DEF IInv, HandedIntact, Seen, OwnBytes
<1>. QED BY <1>2, <1>3, <1>4, <1>5, <1>6, <1>7 DEF IInv

LEMMA RegisterOK ==
  ASSUME IInv, NEW r \in Registrar, Register(r)
  PROVE  IInv'
<1>1. UNCHANGED <<open, sent, responded, reader, worker, answer,
                  memory, requestPool, responsePool>>
  BY DEF Register, poolVars
<1>2. StoreOK' /\ LocksOK'
  BY <1>1, Registers DEF IInv, Register
<1>3. WorkersOK' /\ AnswersOK' /\ TurnsOK' /\ ReaderOK' /\ MemoryOK'
  BY <1>1 DEF IInv, WorkersOK, AnswersOK, TurnsOK, ReaderOK, MemoryOK
<1>4. OneUser' /\ FewBuffers'
  <2>1. \A g \in Writers : BuffersOf(g)' = BuffersOf(g)
    BY <1>1 DEF BuffersOf
  <2>2. Held' = Held /\ InAnswers' = InAnswers
    BY <1>1, <2>1 DEF Held, InAnswers, BuffersOf
  <2>. QED BY <1>1, <2>1, <2>2 DEF IInv, OneUser, FewBuffers
<1>5. ReceivedIntact'
  BY <1>1, ReceivedKept
<1>6. HandedIntact' /\ EncodedIntact'
  BY <1>1 DEF IInv, HandedIntact, EncodedIntact, Seen, Bytes
<1>. QED BY <1>2, <1>3, <1>4, <1>5, <1>6 DEF IInv

-----------------------------------------------------------------------------
(* handleMessage.                                                          *)

LEMMA HandedKept ==
  ASSUME IInv, UNCHANGED <<sent, worker>>
  PROVE  WorkersOK' /\ HandedIntact'
<1>1. OwnBytes
  BY OwnCopies DEF IInv
<1>. QED BY <1>1 DEF IInv, WorkersOK, HandedIntact, Seen, OwnBytes

\* What the peer responds to goroutine k, and that it is not what it sends by itself.
LEMMA Replies ==
  ASSUME NEW k \in Worker
  PROVE  LET f == ReplyFrame(k)
             m == DecodeMessage(MessageOf(f))
             d == DecodeResponse(PayloadOf(f))
         IN  /\ f \in Seq(Byte) /\ Len(f) >= 4 /\ Len(f) = 4 + Uint32(f, 1)
             /\ m.err = NoError /\ m.Type = MessageTypeResponse
             /\ d.err = NoError /\ d.ReqID = k
             /\ SubSeq(PayloadOf(f), d.from, d.to) = ReplyPayload(k)
             /\ f \notin Traffic
<1> DEFINE resp == [ReqID |-> k, Code |-> StatusCodeOK, Payload |-> ReplyPayload(k)]
           payload == EncodeResponse(resp)
           data == EncodeMessage(MessageTypeResponse, payload)
           f == ReplyFrame(k)
<1>1. /\ ReplyPayload(k) \in Seq(Byte) /\ Len(ReplyPayload(k)) = 1
      /\ k \in UInt32 /\ StatusCodeOK \in UInt16
  <2>1. k \in Nat /\ k <= MaxFrames
    BY Counts DEF Worker
  <2>2. (100 + k) % 256 \in Byte
    BY <2>1 DEF Byte
  <2>. QED BY <2>1, <2>2, Counts, Fits DEF ReplyPayload, StatusCodeOK, UInt16
<1>2. /\ resp \in [ReqID : UInt32, Code : UInt16, Payload : Seq(Byte)]
      /\ resp.ReqID = k /\ resp.Code = StatusCodeOK /\ resp.Payload = ReplyPayload(k)
      /\ Len(resp.Payload) = 1 /\ Len(resp.Payload) \in UInt32
  <2>1. /\ resp \in [ReqID : UInt32, Code : UInt16, Payload : Seq(Byte)]
        /\ resp.ReqID = k /\ resp.Code = StatusCodeOK /\ resp.Payload = ReplyPayload(k)
    BY <1>1
  <2>2. 1 \in UInt32
    BY DEF UInt32
  <2>. QED BY <1>1, <2>1, <2>2
<1> HIDE DEF resp
<1>3. /\ payload \in Seq(Byte) /\ Len(payload) = 11
      /\ DecodeResponse(payload) = [err |-> NoError, ReqID |-> k, Code |-> StatusCodeOK,
                                   from |-> 11, to |-> Len(payload)]
      /\ SubSeq(payload, 11, Len(payload)) = ReplyPayload(k)
  <2>1. /\ payload \in Seq(Byte) /\ Len(payload) = 10 + Len(resp.Payload)
        /\ DecodeResponse(payload) = [err |-> NoError, ReqID |-> resp.ReqID, Code |-> resp.Code,
                                     from |-> 11, to |-> Len(payload)]
        /\ SubSeq(payload, 11, Len(payload)) = resp.Payload
    BY <1>2, ResponseRoundTrip
  <2>. QED BY <1>2, <2>1
<1> HIDE DEF payload
<1>4. /\ data \in Seq(Byte) /\ Len(data) = 19
      /\ DecodeMessage(data) = [err |-> NoError, Type |-> MessageTypeResponse,
                               from |-> 9, to |-> Len(data)]
      /\ SubSeq(data, 9, Len(data)) = payload
  <2>1. Len(payload) \in UInt32 \ {0} /\ 8 + Len(payload) = 19
    BY <1>3 DEF UInt32
  <2>2. /\ data \in Seq(Byte) /\ Len(data) = 8 + Len(payload)
        /\ DecodeMessage(data) = [err |-> NoError, Type |-> MessageTypeResponse,
                                 from |-> 9, to |-> Len(data)]
        /\ SubSeq(data, 9, Len(data)) = payload
    BY <1>3, <2>1, MessageRoundTrip
  <2>. QED BY <2>1, <2>2
<1>5. f = EncodeFrame(data)
  BY DEF ReplyFrame, payload, resp
<1> HIDE DEF data, f
<1>6. /\ f \in Seq(Byte) /\ Len(f) = 4 + Len(data) /\ Uint32(f, 1) = Len(data)
      /\ SubSeq(f, 5, Len(f)) = data
  <2>1. 19 \in UInt32
    BY DEF UInt32
  <2>. QED BY <1>4, <1>5, <2>1, FrameRoundTrip
<1>7. MessageOf(f) = data /\ PayloadOf(f) = payload
  <2>1. MessageOf(f) = data
    BY <1>6 DEF MessageOf
  <2> DEFINE m == DecodeMessage(data)
  <2>2. m.from = 9 /\ m.to = Len(data)
    BY <1>4
  <2>3. PayloadOf(f) = SubSeq(data, m.from, m.to)
    BY <2>1, Zenon DEF PayloadOf
  <2> HIDE DEF m
  <2>. QED BY <1>4, <2>1, <2>2, <2>3
<1>8. f \notin Traffic
  <2>1. /\ DecodeMessage(data).err = NoError /\ DecodeMessage(data).Type = MessageTypeResponse
        /\ DecodeResponse(payload).err = NoError /\ DecodeResponse(payload).ReqID \in Worker
    BY <1>3, <1>4
  <2>. QED BY <1>7, <2>1, TrafficAssumption, Zenon
<1>9. /\ DecodeMessage(MessageOf(f)).err = NoError
      /\ DecodeMessage(MessageOf(f)).Type = MessageTypeResponse
  BY <1>4, <1>7
<1>10. LET d == DecodeResponse(PayloadOf(f))
       IN  /\ d.err = NoError /\ d.ReqID = k
           /\ SubSeq(PayloadOf(f), d.from, d.to) = ReplyPayload(k)
  BY <1>3, <1>7
<1>11. Len(f) >= 4 /\ Len(f) = 4 + Uint32(f, 1)
  BY <1>4, <1>6
<1>. QED BY <1>6, <1>8, <1>9, <1>10, <1>11 DEF f

\* ReadFrameInto: the buffer begins with the message.
LEMMA FrameRead ==
  ASSUME IInv, NEW f \in Seq(Byte), ReadFrame(f), Len(f) >= 4,
         FrameLengthValid(Uint32(f, 1)) => Len(f) = 4 + Uint32(f, 1)
  PROVE  /\ AnswersOK' /\ TurnsOK' /\ ReaderOK' /\ OneUser' /\ FewBuffers' /\ MemoryOK'
         /\ EncodedIntact'
         /\ reader'.pc = "decode" =>
                /\ reader'.slice.from = 1
                /\ reader'.slice.to <= Len(memory'[reader'.slice.buf].data)
                /\ reader'.slice.to <= MaxFrameSize
                /\ Bytes(reader.slice)' = MessageOf(f)
<1> DEFINE n == Uint32(f, 1)
           message == MessageOf(f)
<1>1. /\ reader.pc = "read" /\ reader.slice = NoSlice /\ answer[Reader].pc = "none"
      /\ UNCHANGED <<open, worker, responsePool, storeVars>>
      /\ NoSlice.buf = 0 /\ Reader \in Writers
  BY DEF ReadFrame, IInv, ReaderOK, TurnsOK, NoSlice, Slice, Writers
<1>2. PICK b \in Obtained(requestPool, Held) :
          /\ requestPool' = requestPool \ {b}
          /\ \/ /\ FrameLengthValid(n)
                /\ memory' = [memory EXCEPT ![b] = Filled(Array(requestPool, b), message)]
                /\ reader' = [pc |-> "decode", slice |-> Slice(b, 1, n), last |-> FALSE]
                /\ UNCHANGED answer
             \/ /\ ~FrameLengthValid(n)
                /\ memory' = [memory EXCEPT ![b] = Array(requestPool, b)]
                /\ reader' = [pc |-> "answer", slice |-> Slice(b, 1, 0), last |-> TRUE]
                /\ StartAnswer(Reader, InvalidMessage)
  BY DEF ReadFrame, MessageOf
<1>3. b \in Buffer \ (responsePool \cup Held) /\ requestPool' = {}
  <2>1. CASE requestPool = {}
    <3>1. Unused(Held) \in Buffer \ (requestPool \cup responsePool \cup Held)
      BY <1>1, <2>1, FreeForReader DEF IInv, PoolsOK
    <3>. QED BY <1>2, <2>1, <3>1 DEF Obtained
  <2>2. CASE requestPool # {}
    BY <1>2, <2>2 DEF Obtained, IInv, OneUser, FewBuffers
  <2>. QED BY <2>1, <2>2
<1>4. n \in Nat /\ message \in Seq(Byte) /\ Len(message) = Len(f) - 4
  <2>1. n \in UInt32
    BY Uint32Type
  <2>2. Len(f) \in Nat
    BY LenProperties
  <2>3. /\ message \in Seq(Byte)
        /\ Len(message) = IF 5 <= Len(f) THEN Len(f) - 5 + 1 ELSE 0
    BY <2>2, PartOf DEF MessageOf
  <2> DEFINE l == Len(f)
  <2>4. l \in Nat /\ l >= 4
    BY <2>2
  <2> HIDE DEF n, message, l
  <2>5. n \in Nat /\ (IF 5 <= l THEN l - 5 + 1 ELSE 0) = l - 4
    BY <2>1, <2>4 DEF UInt32
  <2>. QED BY <2>3, <2>5 DEF l
<1> HIDE DEF n, message
<1>5. /\ reader'.pc \in {"decode", "answer"} /\ reader'.slice.buf = b
      /\ reader' \in
             [pc : {"decode", "answer"}, slice : SliceIn(Buffer \cup {0}), last : BOOLEAN]
  <2>1. \A t \in Nat : Slice(b, 1, t) \in SliceIn(Buffer \cup {0}) /\ Slice(b, 1, t).buf = b
    BY <1>3 DEF Slice, SliceIn
  <2>2. \E t \in Nat : \E p \in {"decode", "answer"} : \E last \in BOOLEAN :
            reader' = [pc |-> p, slice |-> Slice(b, 1, t), last |-> last]
    BY <1>2, <1>4
  <2>3. PICK t \in Nat, p \in {"decode", "answer"}, last \in BOOLEAN :
            reader' = [pc |-> p, slice |-> Slice(b, 1, t), last |-> last]
    BY <2>2
  <2>4. Slice(b, 1, t) \in SliceIn(Buffer \cup {0}) /\ Slice(b, 1, t).buf = b
    BY <2>1
  <2>. QED BY <2>3, <2>4
<1>6. ReaderOK'
  BY <1>1, <1>3, <1>5 DEF IInv, ReaderOK
<1>7. /\ answer' \in [Writers -> Answering]
      /\ \A g \in Writers : /\ answer'[g].payloadBuf = answer[g].payloadBuf
                            /\ answer'[g].msgBuf = answer[g].msgBuf
                            /\ answer'[g].pc = "write" => answer'[g] = answer[g]
                            /\ answer'[g].pc # "write" => answer[g].pc # "write"
                            /\ g # Reader => answer'[g].pc = answer[g].pc
      /\ reader'.pc = "decode" => answer' = answer
  <2>1. InvalidMessage \in Answerable
    BY InvalidAnswer
  <2>2. CASE UNCHANGED answer
    BY <2>2 DEF IInv, AnswersOK
  <2>3. CASE StartAnswer(Reader, InvalidMessage) /\ reader'.pc = "answer"
    <3>1. /\ answer' = [answer EXCEPT ![Reader] = answer'[Reader]]
          /\ answer'[Reader] = [answer[Reader] EXCEPT !.pc = "encode", !.resp = InvalidMessage]
      BY <1>1, <2>3 DEF IInv, AnswersOK, StartAnswer
    <3>2. answer[Reader] \in Answering
      BY <1>1 DEF IInv, AnswersOK
    <3>3. /\ answer'[Reader] \in Answering /\ answer'[Reader].pc = "encode"
          /\ answer'[Reader].payloadBuf = answer[Reader].payloadBuf
          /\ answer'[Reader].msgBuf = answer[Reader].msgBuf
      BY <2>1, <3>1, <3>2 DEF Answering
    <3>4. \A g \in Writers : g # Reader => answer'[g] = answer[g]
      BY <3>1 DEF IInv, AnswersOK
    <3>. QED BY <1>1, <2>3, <3>1, <3>3, <3>4 DEF IInv, AnswersOK
  <2>. QED BY <1>2, <2>2, <2>3
<1>8. AnswersOK' /\ TurnsOK'
  BY <1>1, <1>5, <1>7 DEF IInv, AnswersOK, TurnsOK, Writers, Worker, Reader
<1>9. /\ \A g \in Writers : BuffersOf(g)' = BuffersOf(g)
      /\ InAnswers' = InAnswers
      /\ Held = {0} \cup InAnswers /\ Held' = {b} \cup InAnswers
  <2>1. \A g \in Writers : BuffersOf(g)' = BuffersOf(g)
    BY <1>7 DEF BuffersOf
  <2>2. InAnswers' = InAnswers
    BY <2>1 DEF InAnswers
  <2>3. DOMAIN answer = Writers /\ DOMAIN answer' = Writers
    BY <1>7 DEF IInv, AnswersOK
  <2>. QED BY <1>1, <1>5, <2>1, <2>2, <2>3 DEF Held, InAnswers
<1>10. OneUser'
  <2>1. \A g \in Writers : b \notin BuffersOf(g)
    BY <1>3, <1>9 DEF InAnswers
  <2>. QED BY <1>1, <1>3, <1>5, <1>7, <1>9, <2>1 DEF IInv, OneUser
<1>11. FewBuffers'
  BY <1>1, <1>3, <1>9 DEF IInv, FewBuffers
<1>12. memory' \in [Buffer -> Buf] /\ \A c \in Buffer : c # b => memory'[c] = memory[c]
  <2>1. Array(requestPool, b) \in Buf
    BY <1>3, ArrayType DEF IInv
  <2>2. Filled(Array(requestPool, b), message) \in Buf
    BY <1>4, <2>1, FilledBegins
  <2>. QED BY <1>2, <1>3, <2>1, <2>2 DEF IInv, MemoryOK, Buf
<1>13. MemoryOK'
  BY <1>12 DEF MemoryOK, Buf
<1>14. EncodedIntact'
  <2> SUFFICES ASSUME NEW g \in Writers, answer'[g].pc = "write"
               PROVE  Bytes(answer[g].msgBuf)' =
                          EncodeMessage(MessageTypeResponse, EncodeResponse(answer'[g].resp))
    BY DEF EncodedIntact
  <2>1. answer'[g] = answer[g]
    BY <1>7
  <2>2. answer[g].msgBuf.buf \in InAnswers
    BY <2>1 DEF IInv, OneUser, BuffersOf, InAnswers
  <2>3. answer[g].msgBuf.buf \in Buffer /\ answer[g].msgBuf.buf # b
    BY <1>3, <1>9, <2>2, Users DEF IInv
  <2>. QED BY <1>12, <2>1, <2>3 DEF IInv, EncodedIntact, Bytes
<1>15. ASSUME reader'.pc = "decode"
       PROVE  /\ reader'.slice.from = 1
              /\ reader'.slice.to <= Len(memory'[reader'.slice.buf].data)
              /\ reader'.slice.to <= MaxFrameSize
              /\ Bytes(reader.slice)' = message
  <2>1. /\ FrameLengthValid(n) /\ reader'.slice = Slice(b, 1, n)
        /\ memory' = [memory EXCEPT ![b] = Filled(Array(requestPool, b), message)]
    BY <1>2, <1>15
  <2>2. n = Len(message) /\ n <= MaxFrameSize
    <3>1. Len(f) = 4 + n /\ n <= MaxFrameSize
      BY <2>1 DEF n, FrameLengthValid
    <3>. QED BY <1>4, <3>1
  <2>3. /\ memory'[b] = Filled(Array(requestPool, b), message) /\ memory'[b] \in Buf
    BY <1>3, <1>12, <2>1 DEF IInv, MemoryOK
  <2>4. /\ n <= Len(memory'[b].data)
        /\ SubSeq(memory'[b].data, 1, n) = message
    <3>1. Array(requestPool, b) \in Buf
      BY <1>3, ArrayType DEF IInv
    <3>. QED BY <1>4, <2>2, <2>3, <3>1, FilledBegins
  <2>5. ~ n > Len(memory'[b].data)
    <3>1. Len(memory'[b].data) \in Nat
      BY <2>3, LenProperties DEF Buf
    <3>. QED BY <1>4, <2>4, <3>1
  <2>6. reader'.slice.buf = b /\ reader'.slice.from = 1 /\ reader'.slice.to = n
    BY <2>1 DEF Slice
  <2>7. Bytes(reader.slice)' = message
    BY <2>4, <2>5, <2>6 DEF Bytes
  <2>. QED BY <2>2, <2>4, <2>6, <2>7
<1>. QED BY <1>6, <1>8, <1>10, <1>11, <1>13, <1>14, <1>15 DEF message

LEMMA ReadFromPeerOK ==
  ASSUME IInv, ReadFromPeer
  PROVE  IInv'
<1>1. PICK f \in Incoming :
          /\ ReadFrame(f)
          /\ \/ f \in Traffic /\ sent' = Append(sent, f)
             \/ f \notin Traffic /\ UNCHANGED sent
  BY DEF ReadFromPeer
<1>2. /\ UNCHANGED <<worker, storeVars>> /\ reader.pc = "read"
  BY <1>1 DEF ReadFrame
<1>3. \/ f \in Traffic /\ Len(sent) < MaxFrames
      \/ f \notin Traffic /\ \E k \in Worker : f = ReplyFrame(k)
  BY <1>1, Replies DEF Incoming
<1>4. /\ f \in Seq(Byte) /\ Len(f) >= 4
      /\ FrameLengthValid(Uint32(f, 1)) => Len(f) = 4 + Uint32(f, 1)
  BY <1>3, Replies, TrafficAssumption
<1>5. /\ AnswersOK' /\ TurnsOK' /\ ReaderOK' /\ OneUser' /\ FewBuffers' /\ MemoryOK'
      /\ EncodedIntact'
      /\ reader'.pc = "decode" =>
             /\ reader'.slice.from = 1
             /\ reader'.slice.to <= Len(memory'[reader'.slice.buf].data)
             /\ reader'.slice.to <= MaxFrameSize
             /\ Bytes(reader.slice)' = MessageOf(f)
  BY <1>1, <1>4, FrameRead
<1>6. StoreOK' /\ LocksOK'
  BY <1>2, LockKept DEF IInv
<1>7. /\ worker \in [Worker -> Working] /\ sent \in Seq(Traffic)
      /\ Len(sent) \in Nat /\ Len(sent) <= MaxFrames
      /\ \A k \in Worker : k > Len(sent) => worker[k].pc = "none"
  BY LenProperties DEF IInv, WorkersOK
<1>8. CASE f \in Traffic /\ sent' = Append(sent, f) /\ Len(sent) < MaxFrames
  <2> DEFINE n == Len(sent)
  <2>1. /\ sent' \in Seq(Traffic) /\ Len(sent') = n + 1 /\ sent'[n + 1] = f
        /\ \A k \in 1 .. n : sent'[k] = sent[k]
    BY <1>7, <1>8, AppendProperties
  <2>2. n \in Nat /\ n < MaxFrames
    BY <1>7, <1>8
  <2>3. \A k \in Worker : k > n => worker[k].pc = "none"
    BY <1>7
  <2> HIDE DEF n
  <2>4. n + 1 \in Worker /\ worker[n + 1].pc = "none"
    BY <2>2, <2>3, Counts DEF Worker
  <2>5. WorkersOK'
    <3>1. \A k \in Worker : k > n + 1 => worker[k].pc = "none"
      BY <2>2, <2>3 DEF Worker
    <3>. QED BY <1>2, <1>7, <2>1, <2>2, <3>1, Counts DEF WorkersOK
  <2>6. HandedIntact'
    <3>1. \A k \in Worker : worker[k].pc # "none" => k \in 1 .. n
      BY <2>2, <2>3 DEF Worker
    <3>2. OwnBytes
      BY OwnCopies DEF IInv
    <3>. QED BY <1>2, <2>1, <3>1, <3>2 DEF IInv, HandedIntact, Seen, OwnBytes
  <2>7. ReceivedIntact'
    <3>1. reader'.pc = "decode" => Fresh'
      <4>1. sent' # <<>>
        BY <2>1, <2>2
      <4>. QED BY <1>2, <1>5, <2>1, <2>4, <4>1 DEF Fresh
    <3>. QED BY <1>5, <3>1 DEF ReceivedIntact
  <2>. QED BY <1>5, <1>6, <2>5, <2>6, <2>7 DEF IInv
<1>9. CASE UNCHANGED sent /\ \E k \in Worker : f = ReplyFrame(k)
  <2>1. WorkersOK' /\ HandedIntact'
    BY <1>2, <1>9, HandedKept
  <2>2. ReceivedIntact'
    BY <1>5, <1>9 DEF ReceivedIntact
  <2>. QED BY <1>5, <1>6, <2>1, <2>2 DEF IInv
<1>. QED BY <1>1, <1>3, <1>8, <1>9

LEMMA ReadEndsOK ==
  ASSUME IInv, ReadEnds
  PROVE  IInv'
<1>1. /\ reader.pc = "read" /\ reader' = [reader EXCEPT !.pc = "ended"] /\ open' = FALSE
      /\ UNCHANGED <<sent, responded, worker, answer, poolVars, storeVars>>
      /\ Reader \in Writers
  BY DEF ReadEnds, Writers
<1>2. /\ reader'.pc = "ended" /\ reader'.slice = reader.slice /\ answer[Reader].pc = "none"
      /\ answer[Reader].resp \in Answerable
  BY <1>1 DEF IInv, ReaderOK, TurnsOK, AnswersOK, Answering
<1>3. StoreOK' /\ LocksOK'
  BY <1>1, LockKept DEF IInv
<1>4. AnswersOK' /\ OneUser' /\ FewBuffers' /\ MemoryOK' /\ EncodedIntact'
  BY <1>1, <1>2, BuffersKept DEF IInv
<1>5. WorkersOK' /\ HandedIntact'
  BY <1>1, HandedKept
<1>6. TurnsOK' /\ ReaderOK' /\ ReceivedIntact'
  BY <1>1, <1>2 DEF IInv, TurnsOK, ReaderOK, ReceivedIntact
<1>. QED BY <1>3, <1>4, <1>5, <1>6 DEF IInv

\* The reader's response was written, or was not.
LEMMA ReaderAnsweredOK ==
  ASSUME IInv, ReaderAnswered
  PROVE  IInv'
<1>1. PICK written \in BOOLEAN :
          /\ reader.pc = "answer" /\ WriteFrame(Reader, written) /\ PutFrame
          /\ memory' = Dropped({reader.slice.buf} \cup BuffersOf(Reader))
          /\ reader' = [Reading EXCEPT !.pc =
                           IF reader.last \/ ~written THEN "ended" ELSE "read"]
          /\ open' = IF reader.last \/ ~written THEN FALSE ELSE open
          /\ UNCHANGED <<sent, responded, worker, storeVars>>
  BY DEF ReaderAnswered
<1>2. /\ reader'.pc \in {"read", "ended"} /\ reader'.slice = NoSlice /\ reader'.last = FALSE
      /\ reader' \in [pc : {"read", "ended"}, slice : {NoSlice}, last : BOOLEAN]
      /\ NoSlice \in SliceIn(Buffer \cup {0})
      /\ reader.slice.buf \in Buffer /\ Reader \in Writers
  BY <1>1 DEF Reading, IInv, ReaderOK, Writers, NoSlice, Slice, SliceIn
<1>3. /\ answer' = [answer EXCEPT ![Reader] = NoAnswer]
      /\ responsePool' = responsePool \cup Pooled(BuffersOf(Reader))
      /\ requestPool' = requestPool \cup Pooled({reader.slice.buf})
      /\ open' \in BOOLEAN
  BY <1>1 DEF WriteFrame, PutFrame, IInv, ReaderOK
<1>4. AnswersOK' /\ OneUser' /\ FewBuffers' /\ MemoryOK' /\ EncodedIntact'
  <2>1. reader.slice.buf # 0
    BY <1>2, DispatchAssumption
  <2>2. reader'.slice = IF {reader.slice.buf} = {} THEN reader.slice ELSE NoSlice
    BY <1>2
  <2>. QED BY <1>1, <1>2, <1>3, <2>1, <2>2, BuffersReturned DEF IInv, PoolsOK
<1>5. StoreOK' /\ LocksOK'
  BY <1>1, LockKept DEF IInv
<1>6. WorkersOK' /\ HandedIntact'
  BY <1>1, HandedKept
<1>7. TurnsOK'
  BY <1>1, <1>2, <1>3 DEF IInv, TurnsOK, AnswersOK, NoAnswer, Worker, Reader, Writers
<1>8. ReaderOK' /\ ReceivedIntact'
  BY <1>2, <1>3 DEF ReaderOK, ReceivedIntact
<1>. QED BY <1>4, <1>5, <1>6, <1>7, <1>8 DEF IInv

\* A part of what was received, and its copy.
LEMMA PartCopied ==
  ASSUME MemoryOK, NEW s, InRange(s), Len(Bytes(s)) <= MaxFrameSize,
         NEW from \in {9, 11}, NEW to \in from - 1 .. Len(Bytes(s)),
         NEW p, p = Part(s, from, to)
  PROVE  /\ InRange(p) /\ Bytes(p) = SubSeq(Bytes(s), from, to)
         /\ Bytes(p) \in Seq(Byte) /\ Len(Bytes(p)) <= MaxFrameSize
         /\ Handed(p) \in SomeBytes
<1> DEFINE b == Bytes(s)
           q == Bytes(p)
           n == Len(b)
<1>1. b \in Seq(Byte) /\ n \in Nat /\ n <= MaxFrameSize
  <2>1. b \in Seq(Byte)
    BY InRangeBytes
  <2>. QED BY <2>1, LenProperties
<1>2. from \in Nat \ {0} /\ to \in Nat /\ from <= to + 1 /\ to <= n
  BY <1>1
<1>3. InRange(p) /\ q = SubSeq(b, from, to)
  BY <1>2, PartBytes
<1> HIDE DEF b, q
<1>4. /\ SubSeq(b, from, to) \in Seq(Byte)
      /\ Len(SubSeq(b, from, to)) = IF from <= to THEN to - from + 1 ELSE 0
  BY <1>1, <1>2, PartOf
<1> HIDE DEF n
<1>5. (IF from <= to THEN to - from + 1 ELSE 0) <= MaxFrameSize
  BY <1>1, <1>2, Counts
<1>6. q \in Seq(Byte) /\ Len(q) <= MaxFrameSize
  BY <1>3, <1>4, <1>5
<1>7. Handed(p) \in SomeBytes
  BY <1>6 DEF Handed, SomeBytes, q
<1>. QED BY <1>3, <1>6, <1>7 DEF b, q

\* handleMessage returns without an answer.
LEMMA FrameReturned ==
  ASSUME IInv, reader.pc = "decode", Return, UNCHANGED <<open, responsePool>>
  PROVE  /\ AnswersOK' /\ ReaderOK' /\ OneUser' /\ FewBuffers' /\ MemoryOK'
         /\ ReceivedIntact' /\ EncodedIntact'
<1>1. /\ requestPool' = requestPool \cup Pooled({reader.slice.buf})
      /\ memory' = Dropped({reader.slice.buf}) /\ reader' = Reading /\ UNCHANGED answer
  BY DEF Return, PutFrame
<1>2. /\ Reader \in Writers /\ answer[Reader].pc = "none"
      /\ reader.slice.buf \in Buffer /\ reader.slice.buf # 0
  BY DispatchAssumption DEF Writers, IInv, TurnsOK, ReaderOK
<1>3. BuffersOf(Reader) = {}
  BY <1>2 DEF IInv, AnswersOK, BuffersOf, NoSlice, Slice
<1>4. AnswersOK' /\ OneUser' /\ FewBuffers' /\ MemoryOK' /\ EncodedIntact'
  <2>1. /\ responsePool' = responsePool \cup Pooled(BuffersOf(Reader))
        /\ memory' = Dropped({reader.slice.buf} \cup BuffersOf(Reader))
        /\ reader'.slice = IF {reader.slice.buf} = {} THEN reader.slice ELSE NoSlice
    BY <1>1, <1>3 DEF Pooled, Reading
  <2>. QED BY <1>1, <1>2, <2>1, BuffersReturned DEF IInv, PoolsOK
<1>5. ReaderOK' /\ ReceivedIntact'
  BY <1>1 DEF IInv, ReaderOK, ReceivedIntact, Reading, NoSlice, Slice, SliceIn
<1>. QED BY <1>4, <1>5

\* handleMessage refuses what it received.
LEMMA RefuseOK ==
  ASSUME IInv, reader.pc = "decode", Refuse,
         UNCHANGED <<open, sent, responded, responsePool, storeVars>>
  PROVE  IInv'
<1>1. /\ StartAnswer(Reader, InvalidMessage) /\ reader' = [reader EXCEPT !.pc = "answer"]
      /\ UNCHANGED <<worker, memory, requestPool>>
  BY DEF Refuse
<1>2. /\ reader'.pc = "answer" /\ reader'.slice = reader.slice
      /\ Reader \in Writers /\ answer[Reader].pc = "none"
      /\ InvalidMessage \in Answerable
  BY <1>1, InvalidAnswer DEF IInv, ReaderOK, TurnsOK, Writers
<1>3. AnswersOK' /\ OneUser' /\ FewBuffers' /\ MemoryOK' /\ EncodedIntact'
  <2>1. UNCHANGED poolVars
    BY <1>1 DEF poolVars
  <2>. QED BY <1>1, <1>2, <2>1, BuffersKept DEF IInv
<1>4. StoreOK' /\ LocksOK'
  BY <1>1, LockKept DEF IInv
<1>5. WorkersOK' /\ HandedIntact'
  BY <1>1, HandedKept
<1>6. TurnsOK'
  <2>1. \A k \in Worker : answer'[k] = answer[k]
    BY <1>1 DEF StartAnswer, IInv, AnswersOK, Writers, Worker, Reader
  <2>. QED BY <1>1, <1>2, <2>1 DEF IInv, TurnsOK
<1>7. ReaderOK' /\ ReceivedIntact'
  BY <1>1, <1>2 DEF IInv, ReaderOK, ReceivedIntact
<1>. QED BY <1>3, <1>4, <1>5, <1>6, <1>7 DEF IInv

LEMMA HandleMessageOK ==
  ASSUME IInv, HandleMessage
  PROVE  IInv'
<1> DEFINE frame == Bytes(reader.slice)
           m == DecodeMessage(frame)
           p == Part(reader.slice, m.from, m.to)
           d == DecodeResponse(Bytes(p))
           reply == Part(p, d.from, d.to)
<1>1. /\ reader.pc = "decode" /\ UNCHANGED <<open, sent, responded, responsePool, storeVars>>
      /\ \/ Refuse
         \/ /\ m.err = NoError /\ m.Type = MessageTypeCommand /\ Return
            /\ worker' = [worker EXCEPT ![Len(sent)].pc = "decode",
                                        ![Len(sent)].payload = Handed(p)]
         \/ /\ m.err = NoError /\ m.Type = MessageTypeResponse /\ Return
            /\ d.err = NoError /\ Deliver(d.ReqID, reply)
  BY DEF HandleMessage, HandleResponse
<1>2. /\ worker \in [Worker -> Working] /\ sent \in Seq(Traffic)
      /\ Len(sent) \in Nat /\ Len(sent) <= MaxFrames
  BY LenProperties DEF IInv, WorkersOK
<1>3. InRange(reader.slice) /\ frame \in Seq(Byte) /\ Len(frame) <= MaxFrameSize
  <2>1. /\ reader.slice \in SliceIn(Buffer) /\ reader.slice.from = 1
        /\ reader.slice.to <= Len(memory[reader.slice.buf].data)
        /\ reader.slice.to <= MaxFrameSize /\ reader.slice.to \in Nat
    BY <1>1 DEF IInv, ReaderOK, ReceivedIntact, SliceIn
  <2>2. InRange(reader.slice)
    BY <2>1 DEF InRange
  <2>3. frame \in Seq(Byte) /\ Len(frame) = reader.slice.to - reader.slice.from + 1
    BY <2>2, InRangeBytes DEF IInv
  <2>. QED BY <2>1, <2>2, <2>3
<1>4. PICK f : /\ frame = MessageOf(f)
               /\ \/ Fresh /\ f = sent[Len(sent)]
                  \/ \E k \in Worker : f = ReplyFrame(k)
  BY <1>1 DEF IInv, ReceivedIntact, Fresh
<1> HIDE DEF frame
<1>5. ASSUME m.err = NoError
      PROVE  /\ InRange(p) /\ Bytes(p) = PayloadOf(f) /\ Bytes(p) \in Seq(Byte)
             /\ Len(Bytes(p)) <= MaxFrameSize /\ Handed(p) \in SomeBytes
  <2>1. m.from = 9 /\ m.to \in 9 .. Len(frame)
    BY <1>3, <1>5, DecodersStayInside
  <2>2. m.from \in {9, 11} /\ m.to \in m.from - 1 .. Len(frame)
    BY <1>3, <2>1
  <2>3. /\ InRange(p) /\ Bytes(p) = SubSeq(frame, m.from, m.to)
        /\ Bytes(p) \in Seq(Byte) /\ Len(Bytes(p)) <= MaxFrameSize
        /\ Handed(p) \in SomeBytes
    BY <1>3, <2>2, PartCopied DEF IInv, frame
  <2>. QED BY <1>4, <2>3, Zenon DEF PayloadOf
<1> HIDE DEF p
<1>6. CASE Refuse
  BY <1>1, <1>6, RefuseOK
<1>7. CASE /\ m.err = NoError /\ m.Type = MessageTypeCommand /\ Return
           /\ worker' = [worker EXCEPT ![Len(sent)].pc = "decode",
                                       ![Len(sent)].payload = Handed(p)]
  <2> DEFINE k == Len(sent)
  <2>1. Fresh /\ f = sent[k]
    <3>1. \A j \in Worker : f # ReplyFrame(j)
      <4>1. MessageTypeCommand # MessageTypeResponse
        BY DEF MessageTypeCommand, MessageTypeResponse
      <4>. QED BY <1>4, <1>7, <4>1, Replies
    <3>. QED BY <1>4, <3>1
  <2>2. k \in Worker /\ worker[k].pc = "none"
    <3>1. sent # <<>> /\ worker[k].pc = "none"
      BY <2>1 DEF Fresh
    <3>. QED BY <1>2, <3>1, EmptySeq DEF Worker
  <2> HIDE DEF k
  <2>3. /\ worker'[k] = [worker[k] EXCEPT !.pc = "decode", !.payload = Handed(p)]
        /\ worker' = [worker EXCEPT ![k] = worker'[k]]
        /\ \A j \in Worker : j # k => worker'[j] = worker[j]
    BY <1>2, <1>7, <2>2 DEF k
  <2>4. /\ worker'[k] \in Working
        /\ worker'[k].pc = "decode" /\ worker'[k].payload = Handed(p)
    <3>1. worker[k] \in Working
      BY <1>2, <2>2
    <3>2. Handed(p) \in SomeBytes
      BY <1>5, <1>7
    <3>3. "decode" \in {"none", "decode", "respond", "done"} \cup Executing
      OBVIOUS
    <3> HIDE DEF k
    <3>. QED BY <2>3, <3>1, <3>2, <3>3 DEF Working
  <2>5. WorkersOK'
    <3>1. worker' \in [Worker -> Working]
      BY <1>2, <2>2, <2>3, <2>4
    <3>2. ~ k > Len(sent)
      BY <1>2 DEF k
    <3>. QED BY <1>1, <2>3, <3>1, <3>2 DEF IInv, WorkersOK
  <2>6. StoreOK' /\ LocksOK'
    BY <1>1, <2>2, <2>3, <2>4, LockKept DEF IInv, Executing
  <2>7. TurnsOK'
    <3>1. reader'.pc = "read" /\ UNCHANGED answer /\ answer[Reader].pc = "none"
      BY <1>1, <1>7 DEF Return, Reading, IInv, TurnsOK
    <3>. QED BY <2>2, <2>3, <3>1 DEF IInv, TurnsOK
  <2>8. HandedIntact'
    <3>1. OwnBytes
      BY OwnCopies DEF IInv
    <3>2. Handed(p).slice = NoSlice /\ Handed(p).own = PayloadOf(sent[k])
      BY <1>5, <1>7, <2>1 DEF Handed
    <3> SUFFICES ASSUME NEW j \in Worker
                 PROVE  /\ worker'[j].pc \in {"decode", "execute", "calling", "replied"} =>
                               Seen(worker[j].payload)' = PayloadOf(sent'[j])
                        /\ worker'[j].pc = "replied" =>
                               Seen(worker[j].reply)' = ReplyPayload(j)
      BY DEF HandedIntact
    <3>3. CASE j = k
      BY <1>1, <2>4, <3>2, <3>3 DEF Seen
    <3>4. CASE j # k
      BY <1>1, <2>3, <3>1, <3>4 DEF IInv, HandedIntact, Seen, OwnBytes
    <3>. QED BY <3>3, <3>4
  <2>. QED BY <1>1, <1>7, <2>5, <2>6, <2>7, <2>8, FrameReturned DEF IInv
<1>8. CASE /\ m.err = NoError /\ m.Type = MessageTypeResponse /\ Return
           /\ d.err = NoError /\ Deliver(d.ReqID, reply)
  <2>1. /\ InRange(reply) /\ Bytes(reply) = SubSeq(PayloadOf(f), d.from, d.to)
        /\ Handed(reply) \in SomeBytes
    <3>1. d.from = 11 /\ d.to \in 10 .. Len(Bytes(p))
      BY <1>5, <1>8, DecodersStayInside
    <3>2. d.from \in {9, 11} /\ d.to \in d.from - 1 .. Len(Bytes(p))
      BY <1>5, <1>8, <3>1
    <3>3. /\ InRange(reply) /\ Bytes(reply) = SubSeq(Bytes(p), d.from, d.to)
          /\ Handed(reply) \in SomeBytes
      BY <1>5, <1>8, <3>2, PartCopied DEF IInv
    <3>. QED BY <1>5, <1>8, <3>3
  <2>2. d.ReqID \in Worker => Bytes(reply) = ReplyPayload(d.ReqID)
    <3>1. CASE Fresh /\ f = sent[Len(sent)]
      <4>1. f \in Traffic
        <5>1. Len(sent) \in 1 .. Len(sent)
          BY <1>2, <3>1, EmptySeq DEF Fresh
        <5>. QED BY <1>2, <3>1, <5>1, ElementOfSeq
      <4>2. d.ReqID \notin Worker
        BY <1>4, <1>5, <1>8, <4>1, TrafficAssumption, Zenon
      <4>. QED BY <4>2
    <3>2. CASE \E k \in Worker : f = ReplyFrame(k)
      <4>1. PICK k \in Worker : f = ReplyFrame(k)
        BY <3>2
      <4>2. /\ DecodeResponse(PayloadOf(f)).ReqID = k
            /\ SubSeq(PayloadOf(f), DecodeResponse(PayloadOf(f)).from,
                                    DecodeResponse(PayloadOf(f)).to) = ReplyPayload(k)
        BY <4>1, Replies
      <4>. QED BY <1>5, <1>8, <2>1, <4>2
    <3>. QED BY <1>4, <3>1, <3>2
  <2> HIDE DEF d, reply
  <2>3. Handed(reply).slice = NoSlice /\ Handed(reply).own = Bytes(reply)
    BY DEF Handed
  <2> DEFINE k == d.ReqID
  <2>4. \/ UNCHANGED worker
        \/ /\ k \in Worker /\ worker[k].pc = "calling"
           /\ worker' = [worker EXCEPT ![k].pc = "replied", ![k].reply = Handed(reply)]
    BY <1>8 DEF Deliver
  <2> HIDE DEF k
  <2>5. TurnsOK' /\ StoreOK' /\ LocksOK' /\ WorkersOK' /\ HandedIntact'
    <3>1. reader'.pc = "read" /\ UNCHANGED answer /\ answer[Reader].pc = "none"
      BY <1>1, <1>8 DEF Return, Reading, IInv, TurnsOK
    <3>2. CASE UNCHANGED worker
      <4>1. TurnsOK'
        BY <3>1, <3>2 DEF IInv, TurnsOK
      <4>2. StoreOK' /\ LocksOK'
        BY <1>1, <3>2, LockKept DEF IInv
      <4>. QED BY <1>1, <3>2, <4>1, <4>2, HandedKept
    <3>3. CASE /\ k \in Worker /\ worker[k].pc = "calling"
               /\ worker' = [worker EXCEPT ![k].pc = "replied", ![k].reply = Handed(reply)]
      <4>1. /\ worker'[k] = [worker[k] EXCEPT !.pc = "replied", !.reply = Handed(reply)]
            /\ worker' = [worker EXCEPT ![k] = worker'[k]]
            /\ \A j \in Worker : j # k => worker'[j] = worker[j]
        BY <1>2, <3>3
      <4>2. /\ worker'[k] \in Working /\ worker'[k].pc = "replied"
            /\ worker'[k].payload = worker[k].payload /\ worker'[k].reply = Handed(reply)
        <5>1. worker[k] \in Working
          BY <1>2, <3>3
        <5>. QED BY <2>1, <4>1, <5>1 DEF Working, Executing
      <4>3. WorkersOK'
        <5>1. worker' \in [Worker -> Working]
          BY <1>2, <3>3, <4>1, <4>2
        <5>2. ~ k > Len(sent)
          BY <3>3 DEF IInv, WorkersOK
        <5>. QED BY <1>1, <4>1, <5>1, <5>2 DEF IInv, WorkersOK
      <4>4. StoreOK' /\ LocksOK'
        <5>1. k \notin queued
          BY <3>3 DEF IInv, LocksOK
        <5>. QED BY <1>1, <3>3, <4>1, <4>2, <5>1, LockKept DEF IInv, Executing
      <4>5. TurnsOK'
        BY <3>1, <3>3, <4>1 DEF IInv, TurnsOK
      <4>6. HandedIntact'
        <5>1. OwnBytes
          BY OwnCopies DEF IInv
        <5>2. Handed(reply).own = ReplyPayload(k)
          BY <2>2, <2>3, <3>3 DEF k
        <5>3. /\ worker[k].payload.own = PayloadOf(sent[k])
              /\ worker'[k].payload = worker[k].payload /\ worker'[k].reply = Handed(reply)
          BY <3>3, <4>2, <5>1 DEF IInv, HandedIntact, Seen, OwnBytes
        <5> SUFFICES ASSUME NEW j \in Worker
                     PROVE  /\ worker'[j].pc \in {"decode", "execute", "calling", "replied"} =>
                                   Seen(worker[j].payload)' = PayloadOf(sent'[j])
                            /\ worker'[j].pc = "replied" =>
                                   Seen(worker[j].reply)' = ReplyPayload(j)
          BY DEF HandedIntact
        <5>4. CASE j = k
          BY <1>1, <2>3, <3>3, <5>1, <5>2, <5>3, <5>4 DEF Seen, OwnBytes
        <5>5. CASE j # k
          BY <1>1, <4>1, <5>1, <5>5 DEF IInv, HandedIntact, Seen, OwnBytes
        <5>. QED BY <5>4, <5>5
      <4>. QED BY <4>3, <4>4, <4>5, <4>6
    <3>. QED BY <2>4, <3>2, <3>3
  <2>. QED BY <1>1, <1>8, <2>5, FrameReturned DEF IInv
<1>. QED BY <1>1, <1>6, <1>7, <1>8

-----------------------------------------------------------------------------
(* Theorems.                                                               *)

LEMMA InitOK == Init => IInv
<1> SUFFICES ASSUME Init
             PROVE  IInv
  OBVIOUS
<1>1. /\ <<>> \in Seq(Byte) /\ Len(<<>>) = 0 /\ 0 \in UInt32 /\ 0 \in UInt16
      /\ 10 \in UInt32
  BY DEF UInt32, UInt16
<1>2. \A g \in Writers : BuffersOf(g) = {}
  BY DEF Init, BuffersOf, NoAnswer, NoSlice, Slice, Writers
<1>3. StoreOK
  <2>1. IsFiniteSet({}) /\ Cardinality({}) = 0
    BY FS_EmptySet
  <2>2. Registered = {}
    BY DEF Init, StoreInit, Registered
  <2>3. StoreTypeOK
    BY StoreAssumption DEF Init, StoreInit, StoreTypeOK
  <2>4. Len(middlewares) = 0
    BY DEF Init, StoreInit
  <2>5. Cardinality(Registered) = 0
    BY <2>1, <2>2, Zenon
  <2>. QED BY <2>3, <2>4, <2>5 DEF StoreOK
<1>4. LocksOK
  BY DEF Init, StoreInit, LocksOK, NotStarted, Executing
<1>5. WorkersOK
  BY <1>1, Counts DEF Init, WorkersOK, Working, NotStarted, Nothing, SomeBytes, Commanded
<1>6. AnswersOK
  <2>1. NoAnswer \in Answering
    BY <1>1 DEF NoAnswer, Answering, Answerable, SliceIn, NoSlice, Slice
  <2>. QED BY <2>1 DEF Init, AnswersOK, Writers, NoAnswer
<1>7. TurnsOK /\ EncodedIntact
  BY DEF Init, TurnsOK, EncodedIntact, NoAnswer, Writers
<1>8. ReaderOK
  BY DEF Init, ReaderOK, Reading, NoSlice, Slice, SliceIn
<1>9. OneUser
  BY <1>2 DEF Init, PoolsInit, OneUser, NoAnswer, Reading, NoSlice, Slice, Writers
<1>10. FewBuffers
  <2>1. InAnswers = {} /\ IsFiniteSet({}) /\ Cardinality({}) = 0
    BY <1>2, FS_EmptySet DEF InAnswers
  <2>. QED BY <2>1, Counts DEF Init, PoolsInit, FewBuffers, Reading, NoSlice, Slice
<1>11. MemoryOK
  BY <1>1 DEF Init, PoolsInit, MemoryOK, Unallocated
<1>12. ReceivedIntact /\ HandedIntact
  BY DEF Init, ReceivedIntact, HandedIntact, Reading, NotStarted
<1>. QED BY <1>3, <1>4, <1>5, <1>6, <1>7, <1>8, <1>9, <1>10, <1>11, <1>12 DEF IInv

LEMMA NextOK == IInv /\ [Next]_vars => IInv'
<1> SUFFICES ASSUME IInv, [Next]_vars
             PROVE  IInv'
  OBVIOUS
<1>1. ASSUME NEW k \in Worker, WorkerStep(k)
      PROVE  IInv'
  BY <1>1, StartCommandOK, ExecuteOK, CalledOK, EncodeOK, RespondOK DEF WorkerStep, Writers
<1>2. CASE UNCHANGED vars
  <2>1. UNCHANGED <<open, sent, reader, worker, answer,
                    memory, requestPool, responsePool, storeVars>>
    BY <1>2 DEF vars, poolVars
  <2>2. StoreOK' /\ LocksOK'
    BY <2>1, LockKept DEF IInv
  <2>3. AnswersOK' /\ TurnsOK' /\ ReaderOK' /\ MemoryOK'
    BY <2>1 DEF IInv, AnswersOK, TurnsOK, ReaderOK, MemoryOK
  <2>4. OneUser' /\ FewBuffers'
    <3>1. \A g \in Writers : BuffersOf(g)' = BuffersOf(g)
      BY <2>1 DEF BuffersOf
    <3>2. Held' = Held /\ InAnswers' = InAnswers
      BY <2>1, <3>1 DEF Held, InAnswers, BuffersOf
    <3>. QED BY <2>1, <3>1, <3>2 DEF IInv, OneUser, FewBuffers
  <2>5. ReceivedIntact' /\ WorkersOK' /\ HandedIntact'
    BY <2>1, ReceivedKept, HandedKept
  <2>6. EncodedIntact'
    BY <2>1 DEF IInv, EncodedIntact, Bytes
  <2>. QED BY <2>2, <2>3, <2>4, <2>5, <2>6 DEF IInv
<1>3. Reader \in Writers
  BY DEF Writers
<1>. QED BY <1>1, <1>2, <1>3, HandleMessageOK, ReaderAnsweredOK, EncodeOK, ReadFromPeerOK,
            ReadEndsOK, RegisterOK DEF Next, ReaderStep, Finished

\* The inductive invariant holds: no buffer has two users, the lock is held by those who
\* execute, and what is in a buffer in use is what its user put there.
THEOREM InvariantHolds == Spec => []IInv
<1>. QED BY InitOK, NextOK, PTL DEF Spec

\* A pooled buffer has no user and is in one pool, and the read lock is held, or asked
\* for, by the goroutines in Execute and by no other.  (store.go, Execute; pools.go)
THEOREM TypeCorrect == Spec => []TypeOK
<1>1. IInv => TypeOK
  <2> SUFFICES ASSUME IInv
               PROVE  TypeOK
    OBVIOUS
  <2>1. \A k \in Worker : worker[k].pc \in
            {"none", "decode", "execute", "calling", "replied", "respond", "done"}
    BY DEF IInv, WorkersOK, Working, Executing
  <2>2. \A g \in {Reader} \cup Worker : answer[g].pc \in {"none", "encode", "write"}
    BY DEF IInv, AnswersOK, Answering, Writers
  <2>. QED BY <2>1, <2>2 DEF IInv, TypeOK, StoreOK, ReaderOK, WorkersOK, OneUser, LocksOK,
                             Executing
<1>. QED BY <1>1, InvariantHolds, PTL

\* Whatever frames follow, a goroutine that handles a command, or waits for a response,
\* has what the peer sent for it.  (handleMessage: "give the handler its own payload
\* buffer"; handleResponse: "The receive buffer returns to the pool")
THEOREM HandedStaysIntact == Spec => []HandedIntact
<1>1. IInv => HandedIntact
  BY DEF IInv
<1>. QED BY <1>1, InvariantHolds, PTL

\* What a goroutine is about to write decodes to the response it was given, in a pooled
\* buffer that others had before it and will have after it.  (writeResponse)
THEOREM AnswersStayIntact == Spec => []AnswersIntact
<1>1. IInv => AnswersIntact
  <2> SUFFICES ASSUME IInv, NEW g \in Writers, answer[g].pc = "write"
               PROVE  LET data == Bytes(answer[g].msgBuf)
                          m == DecodeMessage(data)
                          p == SubSeq(data, m.from, m.to)
                          r == DecodeResponse(p)
                      IN  /\ m.err = NoError /\ r.err = NoError
                          /\ m.Type = MessageTypeResponse
                          /\ m.to = Len(data) /\ r.to = Len(p)
                          /\ answer[g].resp = [ReqID |-> r.ReqID, Code |-> r.Code,
                                               Payload |-> SubSeq(p, r.from, r.to)]
    BY DEF AnswersIntact, Writers
  <2> DEFINE resp == answer[g].resp
             payload == EncodeResponse(resp)
             data == EncodeMessage(MessageTypeResponse, payload)
             m == DecodeMessage(data)
             r == DecodeResponse(payload)
  <2>1. resp \in Answerable /\ Bytes(answer[g].msgBuf) = data
    BY DEF IInv, AnswersOK, Answering, EncodedIntact
  <2>2. /\ m = [err |-> NoError, Type |-> MessageTypeResponse, from |-> 9, to |-> Len(data)]
        /\ SubSeq(data, 9, Len(data)) = payload
        /\ r = [err |-> NoError, ReqID |-> resp.ReqID, Code |-> resp.Code,
                from |-> 11, to |-> Len(payload)]
        /\ SubSeq(payload, 11, Len(payload)) = resp.Payload
    BY <2>1, Encoded
  <2>3. resp = [ReqID |-> resp.ReqID, Code |-> resp.Code, Payload |-> resp.Payload]
    BY <2>1 DEF Answerable
  <2> HIDE DEF resp, payload, data, m, r
  <2>4. /\ m.err = NoError /\ m.Type = MessageTypeResponse /\ m.to = Len(data)
        /\ SubSeq(data, m.from, m.to) = payload
    BY <2>2
  <2>5. /\ r.err = NoError /\ r.to = Len(payload)
        /\ resp = [ReqID |-> r.ReqID, Code |-> r.Code,
                   Payload |-> SubSeq(payload, r.from, r.to)]
    BY <2>2, <2>3
  <2>. QED BY <2>1, <2>4, <2>5, Zenon DEF resp, m, r
<1>. QED BY <1>1, InvariantHolds, PTL

\* No registration takes effect while a handler is under way, however long it waits for
\* its peer, so that it ends under what was looked up for it.  (store.go, Execute)
THEOREM HandlersStay == Spec => HandlersStable
<1> DEFINE UnderWay == \E k \in Worker : worker[k].pc \in {"calling", "replied"}
           Stays == UnderWay => UNCHANGED <<commands, middlewares>>
<1>1. IInv => (UnderWay => readers # {})
  BY DEF IInv, LocksOK, Executing
<1>2. ASSUME IInv, [Next]_vars
      PROVE  Stays
  <2>1. ASSUME NEW r \in Registrar, Register(r)
        PROVE  Stays
    <3>1. readers = {} \/ UNCHANGED <<commands, middlewares>>
      BY <2>1 DEF Register, Registration, Announce, RegisterHandler, RegisterMiddleware,
                  Exclusively
    <3>. QED BY <1>1, <1>2, <3>1
  <2>2. ASSUME NEW k \in Worker, WorkerStep(k)
        PROVE  UNCHANGED <<commands, middlewares>>
    BY <2>2 DEF WorkerStep, StartCommand, Execute, Locked, Replied, ConnectionClosed, TimesOut,
                Encode, Respond, Returns, Unlocked, RLock, RUnlock, storeVars
  <2>3. ASSUME \/ ReaderStep \/ Encode(Reader) \/ ReadFromPeer \/ ReadEnds
               \/ Finished \/ UNCHANGED vars
        PROVE  UNCHANGED <<commands, middlewares>>
    BY <2>3 DEF ReaderStep, HandleMessage, ReaderAnswered, Encode, ReadFromPeer, ReadFrame,
                ReadEnds, Finished, storeVars, vars
  <2>. QED BY <1>2, <2>1, <2>2, <2>3 DEF Next
<1>3. IInv /\ [Next]_vars => [Stays]_vars
  BY <1>2
<1>. QED BY <1>3, InvariantHolds, PTL DEF Spec, HandlersStable

=============================================================================
