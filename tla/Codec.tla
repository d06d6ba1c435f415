-------------------------------- MODULE Codec -------------------------------
(***************************************************************************)
(* The wire format (protocol/protocol.go, model.go, status_codes.go):      *)
(* encoders and decoders of messages, commands and responses as operators  *)
(* on sequences of bytes.  A decoder returns a record whose field err is   *)
(* NoError, or says why it refused.  A payload is returned as the position *)
(* of its bytes in the decoded sequence, because the code returns a slice  *)
(* of its input and not a copy.                                            *)
(***************************************************************************)
EXTENDS Naturals, Sequences

CONSTANT MaxFrameSize   \* 512 MB in the code

ASSUME CodecAssumption == MaxFrameSize \in Nat \ {0}

magicNumber == 103
Version1 == 1
MessageTypeCommand == 1
MessageTypeResponse == 2

StatusCodeOK == 200
StatusInvalidMessage == 400
StatusInternalError == 500
StatusCommandNotFound == 501

NoError == "none"

-----------------------------------------------------------------------------
(* Integers.                                                               *)

\* What one, two and four bytes hold.
Byte == {n \in Nat : n < 256}
UInt16 == {n \in Nat : n < 65536}
UInt32 == {n \in Nat : n \div 65536 < 65536}

\* binary.BigEndian: what PutUint16 and PutUint32 write of n ...
PutUint16(n) == <<(n \div 256) % 256, n % 256>>
PutUint32(n) == PutUint16(n \div 65536) \o PutUint16(n)

\* ... and what Uint16 and Uint32 read at position i.
Uint16(data, i) == 256 * data[i] + data[i + 1]
Uint32(data, i) == 65536 * Uint16(data, i) + Uint16(data, i + 2)

-----------------------------------------------------------------------------
(* Encoders.                                                               *)

\* EncodeMessageInto: magic number, version, flags, type, length, payload.
EncodeMessage(type, payload) ==
    <<magicNumber, Version1, 0, type>> \o PutUint32(Len(payload)) \o payload

\* EncodeCommandInto and EncodeResponseInto have one layout: request ID, command ID
\* or status code, length, payload.
EncodeCommand(cmd) ==
    PutUint32(cmd.ReqID) \o PutUint16(cmd.ID)
        \o PutUint32(Len(cmd.Payload)) \o cmd.Payload

EncodeResponse(resp) ==
    PutUint32(resp.ReqID) \o PutUint16(resp.Code)
        \o PutUint32(Len(resp.Payload)) \o resp.Payload

\* WriteFrame prefixes a message with its length.
EncodeFrame(data) == PutUint32(Len(data)) \o data

-----------------------------------------------------------------------------
(* Decoders: the checks are made in this order.                            *)

\* The check of ReadFrameInto on the length it has read.
FrameLengthValid(n) == n > 0 /\ n <= MaxFrameSize

Refused(why) == [err |-> why]

DecodeMessage(data) ==
    IF data = <<>> THEN Refused("payload too short")
    ELSE IF data[1] # magicNumber THEN Refused("invalid magic number")
    ELSE IF Len(data) < 8 THEN Refused("payload too short")
    ELSE IF data[2] # Version1 THEN Refused("invalid protocol version")
    ELSE IF data[4] > MessageTypeResponse THEN Refused("unknown message type")
    ELSE LET n == Uint32(data, 5)
         IN  IF n = 0 THEN Refused("empty payload")
             ELSE IF Len(data) < 8 + n THEN Refused("payload too short")
             ELSE [err |-> NoError, Type |-> data[4], from |-> 9, to |-> 8 + n]

\* DecodeCommandInto and DecodeResponseInto: the fields of a message's payload.
DecodeFields(data) ==
    IF Len(data) < 10 THEN Refused("payload too short")
    ELSE LET n == Uint32(data, 7)
         IN  IF Len(data) < 10 + n THEN Refused("payload too short")
             ELSE [err |-> NoError, ReqID |-> Uint32(data, 1),
                   second |-> Uint16(data, 5), from |-> 11, to |-> 10 + n]

DecodeCommand(data) ==
    LET d == DecodeFields(data)
    IN  IF d.err # NoError THEN d
        ELSE [err |-> NoError, ReqID |-> d.ReqID, ID |-> d.second,
              from |-> d.from, to |-> d.to]

DecodeResponse(data) ==
    LET d == DecodeFields(data)
    IN  IF d.err # NoError THEN d
        ELSE [err |-> NoError, ReqID |-> d.ReqID, Code |-> d.second,
              from |-> d.from, to |-> d.to]

=============================================================================
