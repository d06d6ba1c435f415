----------------------------- MODULE Codec_proofs ---------------------------
(***************************************************************************)
(* Proofs about the wire format: what is encoded is what is decoded, and   *)
(* no decoder looks past the end of its input.                             *)
(***************************************************************************)
EXTENDS Codec, SequenceTheorems, TLAPS

-----------------------------------------------------------------------------
(* Integers.                                                               *)

LEMMA PutUint16Type == ASSUME NEW n \in Nat PROVE PutUint16(n) \in Seq(Byte)
  BY DEF PutUint16, Byte

\* The four bytes of PutUint32.
LEMMA PutUint32Type ==
  ASSUME NEW n \in Nat
  PROVE  /\ PutUint32(n) \in Seq(Byte) /\ Len(PutUint32(n)) = 4
         /\ PutUint32(n)[1] = ((n \div 65536) \div 256) % 256
         /\ PutUint32(n)[2] = (n \div 65536) % 256
         /\ PutUint32(n)[3] = (n \div 256) % 256
         /\ PutUint32(n)[4] = n % 256
<1>1. n \div 65536 \in Nat
  OBVIOUS
<1>2. /\ PutUint16(n \div 65536) \in Seq(Byte) /\ PutUint16(n) \in Seq(Byte)
      /\ Len(PutUint16(n \div 65536)) = 2 /\ Len(PutUint16(n)) = 2
  BY <1>1, PutUint16Type DEF PutUint16
<1>. QED BY <1>2 DEF PutUint32, PutUint16

\* A number in two bytes of a sequence is read as that number.
LEMMA Uint16Read ==
  ASSUME NEW n \in UInt16, NEW data, NEW i \in Nat,
         data[i] = PutUint16(n)[1], data[i + 1] = PutUint16(n)[2]
  PROVE  Uint16(data, i) = n
  BY DEF PutUint16, Uint16, UInt16

\* The bytes of a number, in data from position i.
TwoAt(data, i, n) ==
    data[i] = PutUint16(n)[1] /\ data[i + 1] = PutUint16(n)[2]

FourAt(data, i, n) ==
    /\ data[i] = PutUint32(n)[1] /\ data[i + 1] = PutUint32(n)[2]
    /\ data[i + 2] = PutUint32(n)[3] /\ data[i + 3] = PutUint32(n)[4]

LEMMA Uint32Read ==
  ASSUME NEW n \in UInt32, NEW data, NEW i \in Nat, FourAt(data, i, n)
  PROVE  Uint32(data, i) = n
<1> DEFINE high == n \div 65536
           low == n % 65536
<1>1. high \in UInt16 /\ low \in UInt16 /\ n = 65536 * high + low
  BY DEF UInt32, UInt16
<1>2. /\ data[i] = PutUint16(high)[1] /\ data[i + 1] = PutUint16(high)[2]
      /\ data[i + 2] = (n \div 256) % 256 /\ data[i + 3] = n % 256
  <2>1. /\ PutUint32(n)[1] = ((n \div 65536) \div 256) % 256
        /\ PutUint32(n)[2] = (n \div 65536) % 256
        /\ PutUint32(n)[3] = (n \div 256) % 256
        /\ PutUint32(n)[4] = n % 256
    <3>1. n \in Nat
      BY DEF UInt32
    <3>. QED BY <3>1, PutUint32Type
  <2>. QED BY <2>1 DEF FourAt, PutUint16
<1>3. (n \div 256) % 256 = (low \div 256) % 256 /\ n % 256 = low % 256
  <2>1. n \div 256 = 256 * high + (low \div 256) /\ low \div 256 \in 0 .. 255
    BY DEF UInt32
  <2>. QED BY <1>1, <2>1 DEF UInt16
<1>4. data[i + 2] = PutUint16(low)[1] /\ data[i + 2 + 1] = PutUint16(low)[2]
  BY <1>2, <1>3 DEF PutUint16
<1> HIDE DEF high, low
<1>5. Uint16(data, i) = high /\ Uint16(data, i + 2) = low
  BY <1>1, <1>2, <1>4, Uint16Read
<1>. QED BY <1>1, <1>5 DEF Uint32

-----------------------------------------------------------------------------
(* Where the fields of an encoded sequence are.                            *)

\* A sequence of m bytes with another one behind it.
Joined(s, a, m, b) ==
    /\ s \in Seq(Byte) /\ Len(s) = m + Len(b)
    /\ \A i \in 1 .. m : s[i] = a[i]
    /\ \A i \in 1 .. Len(b) : s[m + i] = b[i]
    /\ SubSeq(s, m + 1, m + Len(b)) = b

LEMMA Ends ==
  ASSUME NEW a \in Seq(Byte), NEW b \in Seq(Byte), NEW m \in Nat, Len(a) = m,
         NEW s, s = a \o b
  PROVE  Joined(s, a, m, b)
<1> DEFINE n == Len(b)
           t == SubSeq(s, m + 1, m + n)
<1>1. /\ s \in Seq(Byte) /\ Len(s) = m + n /\ n \in Nat
      /\ \A i \in 1 .. m + n : s[i] = IF i <= m THEN a[i] ELSE b[i - m]
  BY ConcatProperties, LenProperties
<1> HIDE DEF n
<1>2. \A i \in 1 .. m : s[i] = a[i]
  <2>1. \A i \in 1 .. m : i \in 1 .. m + n /\ i <= m
    BY <1>1
  <2>. QED BY <1>1, <2>1
<1>3. ASSUME NEW i \in 1 .. n
      PROVE  s[m + i] = b[i]
  <2>1. m + i \in 1 .. m + n /\ ~ (m + i <= m) /\ (m + i) - m = i
    BY <1>1
  <2>2. s[m + i] = b[(m + i) - m]
    BY <1>1, <2>1
  <2>. QED BY <2>1, <2>2
<1>4. /\ t \in Seq(Byte) /\ Len(t) = n
      /\ \A i \in 1 .. n : t[i] = s[m + i]
  <2>1. \A i \in m + 1 .. m + n : s[i] \in Byte
    <3>1. \A i \in m + 1 .. m + n : i \in 1 .. Len(s)
      BY <1>1
    <3>. QED BY <1>1, <3>1, ElementOfSeq
  <2>. QED BY <1>1, <2>1, SubSeqProperties
<1>5. t = b
  BY <1>3, <1>4, SeqEqual DEF n
<1>. QED BY <1>1, <1>2, <1>3, <1>5 DEF Joined, n

\* A number that is written behind a sequence ...
LEMMA TwoPut ==
  ASSUME NEW a \in Seq(Byte), NEW m \in Nat, Len(a) = m, NEW n \in Nat,
         NEW s, s = a \o PutUint16(n)
  PROVE  s \in Seq(Byte) /\ Len(s) = m + 2 /\ TwoAt(s, m + 1, n)
<1> DEFINE b == PutUint16(n)
<1>1. b \in Seq(Byte) /\ Len(b) = 2
  BY PutUint16Type DEF PutUint16
<1> HIDE DEF b
<1>2. /\ s \in Seq(Byte) /\ Len(s) = m + 2
      /\ \A i \in 1 .. 2 : s[m + i] = b[i]
  <2>1. Joined(s, a, m, b)
    BY <1>1, Ends DEF b
  <2>. QED BY <1>1, <2>1 DEF Joined
<1>3. s[m + 1] = b[1] /\ s[m + 2] = b[2] /\ m + 1 + 1 = m + 2
  BY <1>2
<1>. QED BY <1>2, <1>3 DEF TwoAt, b

LEMMA FourPut ==
  ASSUME NEW a \in Seq(Byte), NEW m \in Nat, Len(a) = m, NEW n \in Nat,
         NEW s, s = a \o PutUint32(n)
  PROVE  s \in Seq(Byte) /\ Len(s) = m + 4 /\ FourAt(s, m + 1, n)
<1> DEFINE b == PutUint32(n)
<1>1. b \in Seq(Byte) /\ Len(b) = 4
  BY PutUint32Type
<1> HIDE DEF b
<1>2. /\ s \in Seq(Byte) /\ Len(s) = m + 4
      /\ \A i \in 1 .. 4 : s[m + i] = b[i]
  <2>1. Joined(s, a, m, b)
    BY <1>1, Ends DEF b
  <2>. QED BY <1>1, <2>1 DEF Joined
<1>3. s[m + 1] = b[1] /\ s[m + 2] = b[2] /\ s[m + 3] = b[3] /\ s[m + 4] = b[4]
  <2>1. 1 \in 1 .. 4 /\ 2 \in 1 .. 4 /\ 3 \in 1 .. 4 /\ 4 \in 1 .. 4
    OBVIOUS
  <2>. QED BY <1>2, <2>1
<1>4. m + 1 + 1 = m + 2 /\ m + 1 + 2 = m + 3 /\ m + 1 + 3 = m + 4
  OBVIOUS
<1>. QED BY <1>2, <1>3, <1>4 DEF FourAt, b

\* ... stays where it is when more is written.
LEMMA TwoKept ==
  ASSUME NEW s, NEW a, NEW m \in Nat, NEW b, Joined(s, a, m, b),
         NEW i \in 1 .. m, i + 1 <= m, NEW n, TwoAt(a, i, n)
  PROVE  TwoAt(s, i, n)
<1>1. i \in 1 .. m /\ i + 1 \in 1 .. m
  OBVIOUS
<1>. QED BY <1>1 DEF Joined, TwoAt

LEMMA FourKept ==
  ASSUME NEW s, NEW a, NEW m \in Nat, NEW b, Joined(s, a, m, b),
         NEW i \in 1 .. m, i + 3 <= m, NEW n, FourAt(a, i, n)
  PROVE  FourAt(s, i, n)
<1>1. i \in 1 .. m /\ i + 1 \in 1 .. m /\ i + 2 \in 1 .. m /\ i + 3 \in 1 .. m
  OBVIOUS
<1>. QED BY <1>1 DEF Joined, FourAt

LEMMA MessageLayout ==
  ASSUME NEW type \in Byte, NEW payload \in Seq(Byte), NEW data,
         data = EncodeMessage(type, payload)
  PROVE  /\ data \in Seq(Byte) /\ Len(data) = 8 + Len(payload)
         /\ data[1] = magicNumber /\ data[2] = Version1 /\ data[4] = type
         /\ FourAt(data, 5, Len(payload))
         /\ SubSeq(data, 9, 8 + Len(payload)) = payload
<1> DEFINE header == <<magicNumber, Version1, 0, type>>
           n == Len(payload)
           start == header \o PutUint32(n)
<1>1. /\ header \in Seq(Byte) /\ Len(header) = 4
      /\ header[1] = magicNumber /\ header[2] = Version1 /\ header[4] = type
  BY DEF Byte, magicNumber, Version1
<1>2. n \in Nat
  BY LenProperties
<1>3. data = start \o payload
  BY DEF EncodeMessage
<1> HIDE DEF header, n
<1>4. start \in Seq(Byte) /\ Len(start) = 4 + 4 /\ FourAt(start, 4 + 1, n)
  BY <1>1, <1>2, FourPut
<1>5. \A i \in 1 .. 4 : start[i] = header[i]
  <2>1. Joined(start, header, 4, PutUint32(n))
    <3>1. PutUint32(n) \in Seq(Byte)
      BY <1>2, PutUint32Type
    <3>. QED BY <1>1, <3>1, Ends
  <2>. QED BY <2>1 DEF Joined
<1> HIDE DEF start
<1>6. start \in Seq(Byte) /\ Len(start) = 8 /\ FourAt(start, 5, n)
  BY <1>4
<1>7. Joined(data, start, 8, payload)
  BY <1>3, <1>6, Ends
<1>8. /\ data \in Seq(Byte) /\ Len(data) = 8 + n
      /\ \A i \in 1 .. 8 : data[i] = start[i]
      /\ SubSeq(data, 9, 8 + n) = payload
  BY <1>7 DEF Joined, n
<1>9. FourAt(data, 5, n)
  BY <1>6, <1>7, FourKept
<1>10. data[1] = header[1] /\ data[2] = header[2] /\ data[4] = header[4]
  BY <1>5, <1>8
<1>. QED BY <1>1, <1>8, <1>9, <1>10 DEF n

\* Commands and responses: request ID, second field, length, payload.
Fields(reqID, second, payload) ==
    PutUint32(reqID) \o PutUint16(second) \o PutUint32(Len(payload)) \o payload

HasFields(data, reqID, second, payload) ==
    /\ data \in Seq(Byte) /\ Len(data) = 10 + Len(payload)
    /\ FourAt(data, 1, reqID)
    /\ TwoAt(data, 5, second)
    /\ FourAt(data, 7, Len(payload))
    /\ SubSeq(data, 11, 10 + Len(payload)) = payload

LEMMA FieldsLayout ==
  ASSUME NEW reqID \in Nat, NEW second \in Nat, NEW payload \in Seq(Byte), NEW data,
         data = Fields(reqID, second, payload)
  PROVE  HasFields(data, reqID, second, payload)
<1> DEFINE n == Len(payload)
           a == PutUint32(reqID)
           ab == a \o PutUint16(second)
           abc == ab \o PutUint32(n)
<1>1. n \in Nat
  BY LenProperties
<1>2. data = abc \o payload
  BY DEF Fields
<1> HIDE DEF n
<1>3. a \in Seq(Byte) /\ Len(a) = 4 /\ FourAt(a, 1, reqID)
  BY PutUint32Type DEF FourAt
<1> HIDE DEF a
<1>4. ab \in Seq(Byte) /\ Len(ab) = 4 + 2 /\ TwoAt(ab, 4 + 1, second)
  BY <1>3, TwoPut
<1>5. FourAt(ab, 1, reqID)
  <2>1. PutUint16(second) \in Seq(Byte)
    BY PutUint16Type
  <2>2. Joined(ab, a, 4, PutUint16(second))
    BY <1>3, <2>1, Ends
  <2>. QED BY <1>3, <2>2, FourKept
<1> HIDE DEF ab
<1>6. ab \in Seq(Byte) /\ Len(ab) = 6 /\ TwoAt(ab, 5, second)
  BY <1>4
<1>7. abc \in Seq(Byte) /\ Len(abc) = 6 + 4 /\ FourAt(abc, 6 + 1, n)
  BY <1>1, <1>6, FourPut
<1>8. FourAt(abc, 1, reqID) /\ TwoAt(abc, 5, second)
  <2>1. PutUint32(n) \in Seq(Byte)
    BY <1>1, PutUint32Type
  <2>2. Joined(abc, ab, 6, PutUint32(n))
    BY <1>6, <2>1, Ends
  <2>3. FourAt(abc, 1, reqID)
    BY <1>5, <2>2, FourKept
  <2>. QED BY <1>6, <2>2, <2>3, TwoKept
<1> HIDE DEF abc
<1>9. abc \in Seq(Byte) /\ Len(abc) = 10 /\ FourAt(abc, 7, n)
  BY <1>7
<1>10. Joined(data, abc, 10, payload)
  BY <1>2, <1>9, Ends
<1>11. /\ data \in Seq(Byte) /\ Len(data) = 10 + n
       /\ SubSeq(data, 11, 10 + n) = payload
  <2>1. 10 + 1 = 11
    OBVIOUS
  <2>. QED BY <1>10, <2>1 DEF Joined, n
<1>12. FourAt(data, 1, reqID) /\ FourAt(data, 7, n)
  BY <1>8, <1>9, <1>10, FourKept
<1>13. TwoAt(data, 5, second)
  BY <1>8, <1>10, TwoKept
<1>. QED BY <1>11, <1>12, <1>13 DEF HasFields, n

\* What is decoded from them.
AreDecoded(data, reqID, second, payload) ==
    /\ data \in Seq(Byte) /\ Len(data) = 10 + Len(payload)
    /\ DecodeFields(data) = [err |-> NoError, ReqID |-> reqID, second |-> second,
                             from |-> 11, to |-> Len(data)]
    /\ SubSeq(data, 11, Len(data)) = payload

LEMMA FieldsDecoded ==
  ASSUME NEW reqID \in UInt32, NEW second \in UInt16,
         NEW payload \in Seq(Byte), Len(payload) \in UInt32, NEW data,
         data = Fields(reqID, second, payload)
  PROVE  AreDecoded(data, reqID, second, payload)
<1> DEFINE n == Len(payload)
<1>1. /\ data \in Seq(Byte) /\ Len(data) = 10 + n /\ n \in Nat
      /\ FourAt(data, 1, reqID)
      /\ TwoAt(data, 5, second)
      /\ FourAt(data, 7, n)
      /\ SubSeq(data, 11, 10 + n) = payload
  <2>1. reqID \in Nat /\ second \in Nat /\ n \in Nat
    BY LenProperties DEF UInt32, UInt16
  <2>2. HasFields(data, reqID, second, payload)
    BY <2>1, FieldsLayout
  <2>. QED BY <2>1, <2>2 DEF HasFields
<1>2. Uint32(data, 1) = reqID /\ Uint32(data, 7) = n
  BY <1>1, Uint32Read
<1>3. Uint16(data, 5) = second
  BY <1>1, Uint16Read DEF TwoAt
<1> HIDE DEF n
<1>4. ~ Len(data) < 10 /\ ~ Len(data) < 10 + n
  BY <1>1
<1>5. DecodeFields(data) = [err |-> NoError, ReqID |-> reqID, second |-> second,
                            from |-> 11, to |-> 10 + n]
  BY Zenon, <1>2, <1>3, <1>4 DEF DecodeFields
<1>. QED BY <1>1, <1>5 DEF AreDecoded, n

-----------------------------------------------------------------------------
(* Theorems.                                                               *)

\* What EncodeFrame puts in front of a message is its length, and the rest is the message,
\* up to the 4 GB that the field can tell.  (WriteFrame, ReadFrameInto)
THEOREM FrameRoundTrip ==
  ASSUME NEW data \in Seq(Byte), Len(data) \in UInt32
  PROVE  /\ EncodeFrame(data) \in Seq(Byte)
         /\ Len(EncodeFrame(data)) = 4 + Len(data)
         /\ Uint32(EncodeFrame(data), 1) = Len(data)
         /\ SubSeq(EncodeFrame(data), 5, Len(EncodeFrame(data))) = data
<1> DEFINE length == PutUint32(Len(data))
           frame == length \o data
<1>1. length \in Seq(Byte) /\ Len(length) = 4
  BY PutUint32Type DEF UInt32
<1>2. EncodeFrame(data) = frame
  BY DEF EncodeFrame
<1> HIDE DEF length
<1>3. /\ frame \in Seq(Byte) /\ Len(frame) = 4 + Len(data)
      /\ \A i \in 1 .. 4 : frame[i] = length[i]
      /\ SubSeq(frame, 5, 4 + Len(data)) = data
  <2>1. Joined(frame, length, 4, data)
    BY <1>1, Ends
  <2>. QED BY <2>1 DEF Joined
<1> HIDE DEF frame
<1>4. FourAt(frame, 1, Len(data))
  <2>1. /\ frame[1] = length[1] /\ frame[2] = length[2]
        /\ frame[3] = length[3] /\ frame[4] = length[4]
    BY <1>3
  <2>. QED BY <2>1 DEF FourAt, length
<1>5. Uint32(frame, 1) = Len(data)
  BY <1>4, Uint32Read
<1>. QED BY <1>2, <1>3, <1>5

\* A message is decoded as it was encoded, if it is a command or a response and has a
\* payload: an empty one is refused.  (EncodeMessageInto, DecodeMessageInto)
THEOREM MessageRoundTrip ==
  ASSUME NEW type \in {MessageTypeCommand, MessageTypeResponse},
         NEW payload \in Seq(Byte), Len(payload) \in UInt32 \ {0}
  PROVE  LET data == EncodeMessage(type, payload)
         IN  /\ data \in Seq(Byte) /\ Len(data) = 8 + Len(payload)
             /\ DecodeMessage(data) =
                    [err |-> NoError, Type |-> type, from |-> 9, to |-> Len(data)]
             /\ SubSeq(data, 9, Len(data)) = payload
<1> DEFINE data == EncodeMessage(type, payload)
<1>1. /\ data \in Seq(Byte) /\ Len(data) = 8 + Len(payload)
      /\ data[1] = magicNumber /\ data[2] = Version1 /\ data[4] = type
      /\ FourAt(data, 5, Len(payload))
      /\ SubSeq(data, 9, 8 + Len(payload)) = payload
  <2>1. type \in Byte
    BY DEF MessageTypeCommand, MessageTypeResponse, Byte
  <2>. QED BY <2>1, MessageLayout
<1> HIDE DEF data
<1>2. Uint32(data, 5) = Len(payload)
  BY <1>1, Uint32Read
<1> DEFINE n == Len(payload)
<1>3. n \in Nat \ {0}
  BY LenProperties
<1>4. /\ data # <<>> /\ ~ Len(data) < 8 /\ ~ data[4] > MessageTypeResponse
      /\ n # 0 /\ ~ Len(data) < 8 + n
  BY <1>1, <1>3 DEF MessageTypeCommand, MessageTypeResponse
<1> HIDE DEF n
<1>5. DecodeMessage(data) = [err |-> NoError, Type |-> type, from |-> 9, to |-> 8 + n]
  BY Zenon, <1>1, <1>2, <1>4 DEF DecodeMessage, n
<1>. QED BY <1>1, <1>5 DEF data, n

\* A command is decoded as it was encoded, whatever its payload is, the empty one too.
\* (EncodeCommandInto, DecodeCommandInto)
THEOREM CommandRoundTrip ==
  ASSUME NEW cmd \in [ReqID : UInt32, ID : UInt16, Payload : Seq(Byte)],
         Len(cmd.Payload) \in UInt32
  PROVE  LET data == EncodeCommand(cmd)
         IN  /\ data \in Seq(Byte) /\ Len(data) = 10 + Len(cmd.Payload)
             /\ DecodeCommand(data) = [err |-> NoError, ReqID |-> cmd.ReqID, ID |-> cmd.ID,
                                       from |-> 11, to |-> Len(data)]
             /\ SubSeq(data, 11, Len(data)) = cmd.Payload
<1>1. cmd.ReqID \in UInt32 /\ cmd.ID \in UInt16 /\ cmd.Payload \in Seq(Byte)
  OBVIOUS
<1> DEFINE data == EncodeCommand(cmd)
<1>2. /\ data \in Seq(Byte) /\ Len(data) = 10 + Len(cmd.Payload)
      /\ DecodeFields(data) = [err |-> NoError, ReqID |-> cmd.ReqID, second |-> cmd.ID,
                               from |-> 11, to |-> Len(data)]
      /\ SubSeq(data, 11, Len(data)) = cmd.Payload
  <2>1. data = Fields(cmd.ReqID, cmd.ID, cmd.Payload)
    BY DEF EncodeCommand, Fields
  <2>2. AreDecoded(data, cmd.ReqID, cmd.ID, cmd.Payload)
    BY <1>1, <2>1, FieldsDecoded
  <2>. QED BY <2>2 DEF AreDecoded
<1> HIDE DEF data
<1>3. DecodeCommand(data) = [err |-> NoError, ReqID |-> cmd.ReqID, ID |-> cmd.ID,
                             from |-> 11, to |-> Len(data)]
  BY <1>2 DEF DecodeCommand
<1>. QED BY <1>2, <1>3 DEF data

\* So is a response.  (EncodeResponseInto, DecodeResponseInto)
THEOREM ResponseRoundTrip ==
  ASSUME NEW resp \in [ReqID : UInt32, Code : UInt16, Payload : Seq(Byte)],
         Len(resp.Payload) \in UInt32
  PROVE  LET data == EncodeResponse(resp)
         IN  /\ data \in Seq(Byte) /\ Len(data) = 10 + Len(resp.Payload)
             /\ DecodeResponse(data) = [err |-> NoError, ReqID |-> resp.ReqID,
                                        Code |-> resp.Code, from |-> 11, to |-> Len(data)]
             /\ SubSeq(data, 11, Len(data)) = resp.Payload
<1>1. resp.ReqID \in UInt32 /\ resp.Code \in UInt16 /\ resp.Payload \in Seq(Byte)
  OBVIOUS
<1> DEFINE data == EncodeResponse(resp)
<1>2. /\ data \in Seq(Byte) /\ Len(data) = 10 + Len(resp.Payload)
      /\ DecodeFields(data) = [err |-> NoError, ReqID |-> resp.ReqID, second |-> resp.Code,
                               from |-> 11, to |-> Len(data)]
      /\ SubSeq(data, 11, Len(data)) = resp.Payload
  <2>1. data = Fields(resp.ReqID, resp.Code, resp.Payload)
    BY DEF EncodeResponse, Fields
  <2>2. AreDecoded(data, resp.ReqID, resp.Code, resp.Payload)
    BY <1>1, <2>1, FieldsDecoded
  <2>. QED BY <2>2 DEF AreDecoded
<1> HIDE DEF data
<1>3. DecodeResponse(data) = [err |-> NoError, ReqID |-> resp.ReqID, Code |-> resp.Code,
                              from |-> 11, to |-> Len(data)]
  BY <1>2 DEF DecodeResponse
<1>. QED BY <1>2, <1>3 DEF data

\* Whatever the peer sent, the payload that a decoder returns lies in its input: a length
\* that says otherwise is refused before the slice is made.  (DecodeMessageInto,
\* DecodeCommandInto and DecodeResponseInto: "payload too short")
THEOREM DecodersStayInside ==
  ASSUME NEW data \in Seq(Byte)
  PROVE  /\ LET m == DecodeMessage(data)
            IN  m.err = NoError => m.from = 9 /\ m.to \in 9 .. Len(data)
         /\ \A d \in {DecodeCommand(data), DecodeResponse(data)} :
                d.err = NoError => d.from = 11 /\ d.to \in 10 .. Len(data)
<1> DEFINE len == Len(data)
<1>1. len \in Nat
  BY LenProperties
<1>2. ASSUME NEW i \in Nat \ {0}, i + 3 <= len
      PROVE  Uint32(data, i) \in Nat
  <2>1. \A k \in 1 .. len : data[k] \in Nat
    BY ElementOfSeq DEF Byte
  <2> HIDE DEF len
  <2>2. i \in 1 .. len /\ i + 1 \in 1 .. len /\ i + 2 \in 1 .. len /\ i + 2 + 1 \in 1 .. len
    BY <1>1, <1>2
  <2>3. data[i] \in Nat /\ data[i + 1] \in Nat /\ data[i + 2] \in Nat /\ data[i + 2 + 1] \in Nat
    BY <2>1, <2>2
  <2>4. \A x, y \in Nat : 256 * x + y \in Nat /\ 65536 * x + y \in Nat
    OBVIOUS
  <2>5. Uint16(data, i) \in Nat /\ Uint16(data, i + 2) \in Nat
    <3> DEFINE x == data[i]
               y == data[i + 1]
               z == data[i + 2]
               w == data[i + 2 + 1]
    <3>1. x \in Nat /\ y \in Nat /\ z \in Nat /\ w \in Nat
      BY <2>3
    <3>2. Uint16(data, i) = 256 * x + y /\ Uint16(data, i + 2) = 256 * z + w
      BY DEF Uint16
    <3> HIDE DEF x, y, z, w
    <3>. QED BY <2>4, <3>1, <3>2
  <2>. QED BY <2>4, <2>5 DEF Uint32
<1>3. LET m == DecodeMessage(data)
      IN  m.err = NoError => m.from = 9 /\ m.to \in 9 .. len
  <2> DEFINE n == Uint32(data, 5)
  <2>1. CASE /\ data # <<>> /\ data[1] = magicNumber /\ ~ len < 8 /\ data[2] = Version1
             /\ ~ data[4] > MessageTypeResponse /\ n # 0 /\ ~ len < 8 + n
    <3>1. n \in Nat
      BY <1>1, <1>2, <2>1
    <3>2. DecodeMessage(data) = [err |-> NoError, Type |-> data[4], from |-> 9, to |-> 8 + n]
      BY Zenon, <2>1 DEF DecodeMessage
    <3> HIDE DEF n
    <3>. QED BY <1>1, <2>1, <3>1, <3>2
  <2>2. CASE ~ (/\ data # <<>> /\ data[1] = magicNumber /\ ~ len < 8 /\ data[2] = Version1
                /\ ~ data[4] > MessageTypeResponse /\ n # 0 /\ ~ len < 8 + n)
    BY Zenon, <2>2 DEF DecodeMessage, Refused, NoError
  <2>. QED BY <2>1, <2>2
<1>4. LET d == DecodeFields(data)
      IN  d.err = NoError => d.from = 11 /\ d.to \in 10 .. len
  <2> DEFINE n == Uint32(data, 7)
  <2>1. CASE ~ len < 10 /\ ~ len < 10 + n
    <3>1. n \in Nat
      BY <1>1, <1>2, <2>1
    <3>2. DecodeFields(data) = [err |-> NoError, ReqID |-> Uint32(data, 1),
                                second |-> Uint16(data, 5), from |-> 11, to |-> 10 + n]
      BY <2>1 DEF DecodeFields
    <3> HIDE DEF n
    <3>. QED BY <1>1, <2>1, <3>1, <3>2
  <2>2. CASE len < 10 \/ len < 10 + n
    BY Zenon, <2>2 DEF DecodeFields, Refused, NoError
  <2>. QED BY <2>1, <2>2
<1>5. ASSUME NEW d \in {DecodeCommand(data), DecodeResponse(data)}, d.err = NoError
      PROVE  d.from = 11 /\ d.to \in 10 .. len
  <2> DEFINE f == DecodeFields(data)
  <2>1. f.err = NoError /\ d.from = f.from /\ d.to = f.to
    BY <1>5 DEF DecodeCommand, DecodeResponse
  <2>. QED BY <1>4, <2>1
<1>. QED BY <1>3, <1>5

=============================================================================
