----------------------------- MODULE MC_Dispatch ----------------------------
(* An instance of Dispatch for TLC: the frames a peer sends, byte by byte. *)
EXTENDS Dispatch, TLC

CONSTANTS r1, r2, r3

MCBuffer == 1 .. 2 * MaxFrames + 3
MCGoroutine == 1 .. MaxFrames

Cmd(reqID, id, payload) ==
    EncodeFrame(EncodeMessage(MessageTypeCommand,
        EncodeCommand([ReqID |-> reqID, ID |-> id, Payload |-> payload])))

\* Command 5 echoes, 6 sends a command back; 7 is registered late, by two callers.
Short == Cmd(258, 5, <<11>>)
Long == Cmd(65536, 5, <<21, 22, 23, 24>>)
Back == Cmd(1, 6, <<31>>)
Late == Cmd(2, 7, <<41>>)

\* A frame that announces no byte, a message without a payload or of no type, a command
\* and a response that are cut short.
NoFrame == <<0, 0, 0, 0>>
NoPayload == EncodeFrame(EncodeMessage(MessageTypeCommand, <<>>))
CutShort == EncodeFrame(EncodeMessage(MessageTypeCommand, <<0, 0, 0, 9>>))
NoType == EncodeFrame(EncodeMessage(0, <<0>>))
BadReply == EncodeFrame(EncodeMessage(MessageTypeResponse, <<0, 0, 0, 9>>))

MCTraffic == {Short, Long, Back, Late, NoFrame, NoPayload, NoType, CutShort, BadReply}

MCID == {5, 6, 7}
MCCommands == (5 :> "echo") @@ (6 :> "callback") @@ (7 :> NoHandler)
MCregisters ==
    [r \in Registrar |->
        CASE r = r1 -> [ID |-> 7, Handler |-> "fail"]
          [] r = r2 -> [ID |-> 7, Handler |-> "echo"]
          [] r = r3 -> [middleware |-> 99]]

=============================================================================
