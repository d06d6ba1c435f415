---------------------- MODULE CommandExchange_proofs ------------------------
(***************************************************************************)
(* Proofs about CommandExchange: for any number of calls and request IDs   *)
(* first, then for runs in which neither end gives an ID twice.            *)
(***************************************************************************)
EXTENDS CommandExchange, FiniteSetTheorems, WellFoundedInduction, TLAPS

-----------------------------------------------------------------------------
(* The inductive invariant, for any number of request IDs.                 *)

\* A call that has no request ID yet is known to no reader and has no response.
Unregistered ==
    \A c \in Call :
        call[c].pc \in {"idle", "register"} =>
            resp[c] = NoCall /\ \A p \in Peer : delivering[p].to # c

\* A call in pendingCmds has no response, and none is about to be delivered.
PendingOrDelivered ==
    \A p, q \in Peer, i \in ID :
        pending[p][i] # NoCall =>
            resp[pending[p][i]] = NoCall /\ delivering[q].to # pending[p][i]

\* A receive goroutine delivers to calls of its own end.
DeliveredAtHome ==
    \A p \in Peer :
        delivering[p] # NoMail => delivering[p].to \in Call /\ at[delivering[p].to] = p

IInv ==
    /\ TypeOK
    /\ NoLeakedEntry
    /\ Unregistered
    /\ PendingOrDelivered
    /\ DeliveredAtHome
    /\ ReaderNeverBlocks

-----------------------------------------------------------------------------
(* What holds besides as long as no end gives an ID twice.                 *)

CallsOf(p) == {c \in Call : at[c] = p}
Registered(p) == {c \in CallsOf(p) : call[c].id # 0}

\* Neither end makes as many calls as there are request IDs.
FewCalls == \A p \in Peer : IsFiniteSet(CallsOf(p)) /\ Cardinality(CallsOf(p)) < IDSpace

\* The counter counts the calls that were registered, each with an ID of its own.
IDsCounted ==
    /\ \A p \in Peer : counter[p] = Cardinality(Registered(p))
    /\ \A c \in Call :
           /\ call[c].id <= counter[at[c]]
           /\ call[c].pc \in {"idle", "register"} => call[c].id = 0
           /\ call[c].pc \in {"write", "wait"} => call[c].id # 0
    /\ \A c, d \in Call :
           at[c] = at[d] /\ call[c].id = call[d].id /\ call[c].id # 0 => c = d

\* A command travels once, with its ID, away from its caller and before it is handled.
CommandFrames ==
    \A p \in Peer : \A i \in 1 .. Len(wire[p]) :
        LET c == wire[p][i].call
        IN  wire[p][i].type = "command" =>
                /\ at[c] # p
                /\ wire[p][i].id = call[c].id
                /\ call[c].id # 0
                /\ call[c].pc \notin {"idle", "register", "write"}
                /\ handler[c].pc = "none"
                /\ \A j \in 1 .. Len(wire[p]) :
                       wire[p][j].type = "command" /\ wire[p][j].call = c => j = i

\* A response travels to the caller of its command, with its ID, after it was handled.
ResponseFrames ==
    \A p \in Peer : \A i \in 1 .. Len(wire[p]) :
        LET c == wire[p][i].call
        IN  wire[p][i].type = "response" =>
                /\ at[c] = p
                /\ wire[p][i].id = call[c].id
                /\ call[c].id # 0
                /\ handler[c].pc = "done"

\* A handler has the ID of the command it handles.
Handled ==
    \A c \in Call :
        handler[c].pc # "none" =>
            /\ handler[c].id = call[c].id
            /\ call[c].id # 0
            /\ call[c].pc \notin {"idle", "register", "write"}

\* What is delivered to a call is the response to its own command.
OwnResponse ==
    /\ \A p \in Peer :
           delivering[p] # NoMail =>
               /\ delivering[p].answers = delivering[p].to
               /\ handler[delivering[p].to].pc = "done"
    /\ \A c \in Call : resp[c] # NoCall => resp[c] = c /\ handler[c].pc = "done"

UInv ==
    /\ IDsCounted
    /\ CommandFrames
    /\ ResponseFrames
    /\ Handled
    /\ OwnResponse
    /\ StillAnswerable

-----------------------------------------------------------------------------
(* Facts about the two ends, request IDs and frames.                       *)

LEMMA TwoEnds ==
  ASSUME NEW p \in Peer
  PROVE  /\ Other(p) \in Peer /\ Other(p) # p
         /\ \A q \in Peer : q # p => q = Other(p)
<1>1. \E q \in Peer : q # p
  BY ExchangeAssumption
<1>2. Other(p) \in Peer /\ Other(p) # p
  BY <1>1 DEF Other
<1>. QED BY <1>2, ExchangeAssumption

\* A set of numbers that is not empty has a least member.
LEMMA LeastMember ==
  ASSUME NEW S, S \subseteq Nat, S # {}
  PROVE  \E n \in S : \A m \in S : ~(m < n)
<1> DEFINE less == OpToRel(<, Nat)
<1>1. \E n \in S : \A m \in S : <<m, n>> \notin less
  BY NatLessThanWellFounded, WFMin
<1>2. \A m, n \in Nat : m < n <=> <<m, n>> \in less
  BY DEF OpToRel
<1>. QED BY <1>1, <1>2

\* Going up from the counter, with the wrap, every request ID is met.
LEMMA EveryIDIsMet ==
  ASSUME NEW k \in ID, NEW i \in ID
  PROVE  \E n \in 1 .. IDSpace : (k + n) % IDSpace = i
<1>1. IDSpace \in Nat \ {0} /\ k \in 0 .. IDSpace - 1 /\ i \in 0 .. IDSpace - 1
  BY ExchangeAssumption DEF ID
<1>2. \A x \in 0 .. IDSpace - 1 : x % IDSpace = x
  BY <1>1
<1>3. \A x \in IDSpace .. 2 * IDSpace - 1 : x % IDSpace = x - IDSpace
  BY <1>1
<1>4. CASE i > k
  <2>1. i - k \in 1 .. IDSpace /\ k + (i - k) = i
    BY <1>1, <1>4
  <2>. QED BY <1>1, <1>2, <2>1
<1>5. CASE i <= k
  <2>1. /\ i - k + IDSpace \in 1 .. IDSpace
        /\ k + (i - k + IDSpace) = i + IDSpace
        /\ i + IDSpace \in IDSpace .. 2 * IDSpace - 1
        /\ (i + IDSpace) - IDSpace = i
    BY <1>1, <1>5
  <2>2. (k + (i - k + IDSpace)) % IDSpace = i
    BY <1>3, <2>1
  <2>. QED BY <2>1, <2>2
<1>. QED BY <1>1, <1>4, <1>5

\* If an ID is free, the search of sendCmd ends with one.
LEMMA NextIDIsFree ==
  ASSUME NEW p \in Peer, counter[p] \in ID, \E i \in ID : pending[p][i] = NoCall
  PROVE  NextID(p) \in ID /\ pending[p][NextID(p)] = NoCall
<1> DEFINE id(n) == (counter[p] + n) % IDSpace
           free(n) == pending[p][id(n)] = NoCall
           found(n) == free(n) /\ \A m \in 1 .. n - 1 : ~free(m)
           S == {n \in 1 .. IDSpace : free(n)}
<1>1. S # {}
  BY EveryIDIsMet
<1>2. PICK n \in S : \A m \in S : ~(m < n)
  <2>1. S \subseteq Nat
    OBVIOUS
  <2>. QED BY <1>1, <2>1, LeastMember
<1>3. n \in 1 .. IDSpace /\ found(n)
  BY <1>2, ExchangeAssumption
<1>4. PICK m \in 1 .. IDSpace : found(m) /\ NextID(p) = id(m)
  BY <1>3 DEF NextID
<1>5. id(m) \in ID
  BY ExchangeAssumption DEF ID
<1>. QED BY <1>4, <1>5

\* What a reader leaves on the wire was there before.
LEMMA FramesAfterRead ==
  ASSUME NEW p \in Peer, TypeOK, wire[p] # <<>>,
         wire' = [wire EXCEPT ![p] = Tail(@)]
  PROVE  /\ Head(wire[p]) = wire[p][1]
         /\ 1 \in 1 .. Len(wire[p])
         /\ wire[p][1] \in Frame
         /\ wire' \in [Peer -> Seq(Frame)]
         /\ \A q \in Peer : \A i \in 1 .. Len(wire'[q]) :
                LET k == IF q = p THEN i + 1 ELSE i
                IN  k \in 1 .. Len(wire[q]) /\ wire'[q][i] = wire[q][k]
<1>1. wire[p] \in Seq(Frame) /\ wire'[p] = Tail(wire[p])
  BY DEF TypeOK
<1>2. \A q \in Peer \ {p} : wire'[q] = wire[q]
  BY DEF TypeOK
<1>3. wire' \in [Peer -> Seq(Frame)]
  BY <1>1 DEF TypeOK
<1>. QED BY <1>1, <1>2, <1>3 DEF TypeOK

\* What is on the wire after a frame is sent was there before, or is that frame.
LEMMA FramesAfterSend ==
  ASSUME NEW p \in Peer, NEW f \in Frame, TypeOK, Send(p, f)
  PROVE  /\ wire' \in [Peer -> Seq(Frame)]
         /\ \A q \in Peer : \A i \in 1 .. Len(wire'[q]) :
                \/ i \in 1 .. Len(wire[q]) /\ wire'[q][i] = wire[q][i]
                \/ q = p /\ i = Len(wire[q]) + 1 /\ wire'[q][i] = f
<1>1. wire[p] \in Seq(Frame)
  BY DEF TypeOK
<1>2. CASE wire' = wire
  BY <1>2 DEF TypeOK
<1>3. CASE wire' = [wire EXCEPT ![p] = Append(@, f)]
  <2>1. wire'[p] = Append(wire[p], f)
    BY <1>3 DEF TypeOK
  <2>2. \A q \in Peer \ {p} : wire'[q] = wire[q]
    BY <1>3 DEF TypeOK
  <2>3. wire' \in [Peer -> Seq(Frame)]
    BY <1>1, <1>3, <2>1 DEF TypeOK
  <2>4. \A i \in 1 .. Len(wire'[p]) :
           \/ i \in 1 .. Len(wire[p]) /\ wire'[p][i] = wire[p][i]
           \/ i = Len(wire[p]) + 1 /\ wire'[p][i] = f
    BY <1>1, <2>1
  <2>. QED BY <2>2, <2>3, <2>4
<1>. QED BY <1>2, <1>3 DEF Send

\* closeOnce: a connection never opens again.
LEMMA ClosingCloses ==
  ASSUME NEW p \in Peer, TypeOK, StartClosing(p)
  PROVE  /\ state' \in [Peer -> {"open", "closing", "closed"}]
         /\ \A q \in Peer : Closed(q) => Closed(q)'
  BY DEF TypeOK, StartClosing, Closed

Progress == [Call -> [pc : {"idle", "register", "write", "wait", "cleanup", "returned"},
                      id : ID]]

\* A call that goes on is still a call.
LEMMA ProgressType ==
  ASSUME TypeOK, NEW c \in Call,
         NEW pc \in {"idle", "register", "write", "wait", "cleanup", "returned"},
         call' = [call EXCEPT ![c].pc = pc]
  PROVE  call' \in Progress
<1>1. call \in Progress
  BY DEF TypeOK, Progress
<1>. QED BY <1>1 DEF Progress

-----------------------------------------------------------------------------
(* Every action keeps the invariant: one step per part that the action can *)
(* disturb.                                                                *)

\* Nothing but the caller's own progress changes.
LEMMA SendCmdKeeps ==
  ASSUME IInv, NEW c \in Call, SendCmd(c)
  PROVE  IInv'
<1>1. PICK pc \in {"returned", "register"} : call' = [call EXCEPT ![c].pc = pc]
  BY DEF SendCmd, GoTo
<1>2. /\ call[c].pc = "idle"
      /\ UNCHANGED result \/ result' = [result EXCEPT ![c] = "closed"]
      /\ UNCHANGED <<state, wire, counter, pending, resp, delivering, handler>>
  BY DEF SendCmd
<1>3. /\ \A d \in Call : call'[d].id = call[d].id
      /\ \A d \in Call : d # c => call'[d] = call[d]
      /\ call'[c] = [pc |-> pc, id |-> call[c].id]
  BY <1>1 DEF IInv, TypeOK
<1>4. TypeOK'
  <2>1. result' \in [Call -> Call \cup Errors \cup {"none"}]
    BY <1>2 DEF IInv, TypeOK, Errors
  <2>2. call' \in Progress
    BY <1>1, ProgressType DEF IInv
  <2>. QED BY <1>2, <2>1, <2>2 DEF IInv, TypeOK, Progress
<1>5. NoLeakedEntry'
  <2>1. \A q \in Peer, i \in ID : pending[q][i] \in Call \cup {NoCall}
    BY DEF IInv, TypeOK
  <2>2. \A q \in Peer, i \in ID : pending[q][i] # NoCall => pending[q][i] # c
    BY <1>2 DEF IInv, NoLeakedEntry
  <2>. QED BY <1>2, <1>3, <2>1, <2>2 DEF IInv, NoLeakedEntry
<1>6. Unregistered'
  BY <1>2, <1>3 DEF IInv, TypeOK, Unregistered
<1>. QED BY <1>2, <1>4, <1>5, <1>6 DEF IInv, PendingOrDelivered, DeliveredAtHome,
      ReaderNeverBlocks

\* The call takes a free ID, and is the only entry with it.
LEMMA RegisterKeeps ==
  ASSUME IInv, NEW c \in Call, Register(c)
  PROVE  IInv'
<1> DEFINE p == at[c]
           id == NextID(p)
<1>1. p \in Peer /\ id \in ID /\ pending[p][id] = NoCall
  BY NextIDIsFree, ExchangeAssumption DEF IInv, TypeOK, Register
<1>2. /\ call[c].pc = "register"
      /\ counter' = [counter EXCEPT ![p] = id]
      /\ pending' = [pending EXCEPT ![p][id] = c]
      /\ call' = [call EXCEPT ![c] = [pc |-> "write", id |-> id]]
      /\ UNCHANGED <<state, wire, resp, result, delivering, handler>>
  BY DEF Register
<1> HIDE DEF p, id
<1>3. TypeOK'
  BY <1>1, <1>2 DEF IInv, TypeOK
<1>4. \A q \in Peer, i \in ID :
         pending'[q][i] = IF q = p /\ i = id THEN c ELSE pending[q][i]
  BY <1>1, <1>2 DEF IInv, TypeOK
<1>5. NoLeakedEntry'
  <2>1. \A q \in Peer, i \in ID : pending[q][i] # c
    BY <1>2, ExchangeAssumption DEF IInv, NoLeakedEntry
  <2>. QED BY <1>1, <1>2, <1>4, <2>1 DEF IInv, TypeOK, NoLeakedEntry, p
<1>6. Unregistered'
  BY <1>2 DEF IInv, TypeOK, Unregistered
<1>7. PendingOrDelivered'
  BY <1>2, <1>4 DEF IInv, Unregistered, PendingOrDelivered
<1>. QED BY <1>2, <1>3, <1>5, <1>6, <1>7 DEF IInv, DeliveredAtHome, ReaderNeverBlocks

LEMMA WriteCommandKeeps ==
  ASSUME IInv, NEW c \in Call, WriteCommand(c)
  PROVE  IInv'
<1> DEFINE f == [type |-> "command", id |-> call[c].id, call |-> c]
<1>1. Other(at[c]) \in Peer /\ f \in Frame /\ Send(Other(at[c]), f)
  BY TwoEnds, ExchangeAssumption DEF IInv, TypeOK, WriteCommand, Frame
<1>2. wire' \in [Peer -> Seq(Frame)]
  BY <1>1, FramesAfterSend DEF IInv
<1>3. TypeOK'
  BY <1>2 DEF IInv, TypeOK, WriteCommand, GoTo
<1>4. NoLeakedEntry'
  BY DEF IInv, TypeOK, NoLeakedEntry, WriteCommand, GoTo
<1>5. Unregistered'
  BY DEF IInv, TypeOK, Unregistered, WriteCommand, GoTo
<1>. QED BY <1>3, <1>4, <1>5 DEF IInv, PendingOrDelivered, DeliveredAtHome,
    ReaderNeverBlocks, WriteCommand

\* The steps in which sendCmd gives up its frame or its wait.
Returning(c) ==
    \/ WriteRefused(c)
    \/ WriteTimesOut(c)
    \/ ReceiveResponse(c)
    \/ WaitTimesOut(c)
    \/ WaitEndsOnClose(c)

LEMMA WhatReturns ==
  ASSUME TypeOK, NEW c \in Call, Returning(c)
  PROVE  /\ call[c].pc \in {"write", "wait"}
         /\ call' = [call EXCEPT ![c].pc = "cleanup"]
         /\ \/ \E e \in Errors : result' = [result EXCEPT ![c] = e]
            \/ resp[c] # NoCall /\ result' = [result EXCEPT ![c] = resp[c]]
         /\ state' \in [Peer -> {"open", "closing", "closed"}]
         /\ \A q \in Peer : Closed(q) => Closed(q)'
         /\ UNCHANGED <<wire, counter, pending, resp, delivering, handler>>
<1>1. at[c] \in Peer
  BY ExchangeAssumption
<1>2. CASE WriteTimesOut(c)
  <2>1. \/ UNCHANGED state
        \/ /\ state' \in [Peer -> {"open", "closing", "closed"}]
           /\ \A q \in Peer : Closed(q) => Closed(q)'
    BY <1>1, <1>2, ClosingCloses DEF WriteTimesOut
  <2>. QED BY <1>2, <2>1 DEF TypeOK, WriteTimesOut, Return, GoTo, Errors, Closed
<1>3. CASE ReceiveResponse(c)
  BY <1>3 DEF TypeOK, ReceiveResponse, Return, GoTo, Closed
<1>4. CASE WriteRefused(c) \/ WaitTimesOut(c) \/ WaitEndsOnClose(c)
  BY <1>4 DEF TypeOK, WriteRefused, WaitTimesOut, WaitEndsOnClose, Return, GoTo,
      Errors, Closed
<1>. QED BY <1>2, <1>3, <1>4 DEF Returning

LEMMA ReturningKeeps ==
  ASSUME IInv, NEW c \in Call, Returning(c)
  PROVE  IInv'
<1>1. /\ call[c].pc \in {"write", "wait"}
      /\ call' = [call EXCEPT ![c].pc = "cleanup"]
      /\ \E r \in Errors \cup Call : result' = [result EXCEPT ![c] = r]
      /\ state' \in [Peer -> {"open", "closing", "closed"}]
      /\ UNCHANGED <<wire, counter, pending, resp, delivering, handler>>
  BY WhatReturns DEF IInv, TypeOK
<1>2. TypeOK'
  <2>1. result' \in [Call -> Call \cup Errors \cup {"none"}]
    BY <1>1 DEF IInv, TypeOK
  <2>2. call' \in Progress
    BY <1>1, ProgressType DEF IInv
  <2>. QED BY <1>1, <2>1, <2>2 DEF IInv, TypeOK, Progress
<1>3. NoLeakedEntry'
  BY <1>1 DEF IInv, TypeOK, NoLeakedEntry
<1>4. Unregistered'
  BY <1>1 DEF IInv, TypeOK, Unregistered
<1>. QED BY <1>1, <1>2, <1>3, <1>4 DEF IInv, PendingOrDelivered, DeliveredAtHome,
      ReaderNeverBlocks

\* The entry that is deleted is the call's own, if it is still there.
LEMMA CleanupKeeps ==
  ASSUME IInv, NEW c \in Call, Cleanup(c)
  PROVE  IInv'
<1>1. at[c] \in Peer /\ call[c].id \in ID
  BY ExchangeAssumption DEF IInv, TypeOK
<1>2. \A q \in Peer, i \in ID :
         pending'[q][i] = IF q = at[c] /\ i = call[c].id THEN NoCall ELSE pending[q][i]
  BY <1>1 DEF IInv, TypeOK, Cleanup
<1>3. TypeOK'
  <2>1. call' \in Progress
    BY ProgressType DEF IInv, Cleanup, GoTo
  <2>2. pending' \in [Peer -> [ID -> Call \cup {NoCall}]]
    BY <1>1 DEF IInv, TypeOK, Cleanup
  <2>. QED BY <2>1, <2>2 DEF IInv, TypeOK, Cleanup, Progress
<1>4. NoLeakedEntry'
  BY <1>2 DEF IInv, TypeOK, NoLeakedEntry, Cleanup, GoTo
<1>5. Unregistered'
  BY DEF IInv, TypeOK, Unregistered, Cleanup, GoTo
<1>6. PendingOrDelivered'
  BY <1>2 DEF IInv, PendingOrDelivered, Cleanup
<1>. QED BY <1>3, <1>4, <1>5, <1>6 DEF IInv, DeliveredAtHome, ReaderNeverBlocks, Cleanup

LEMMA ReadCommandKeeps ==
  ASSUME IInv, NEW p \in Peer, ReadCommand(p)
  PROVE  IInv'
<1>1. Head(wire[p]) \in Frame /\ wire' \in [Peer -> Seq(Frame)]
  BY FramesAfterRead DEF IInv, ReadCommand, Readable
<1>2. TypeOK'
  BY <1>1 DEF IInv, TypeOK, ReadCommand, Frame
<1>. QED BY <1>2 DEF IInv, NoLeakedEntry, Unregistered, PendingOrDelivered,
    DeliveredAtHome, ReaderNeverBlocks, ReadCommand

\* The call that is answered leaves pendingCmds for the hands of the reader.
LEMMA ReadResponseKeeps ==
  ASSUME IInv, NEW p \in Peer, ReadResponse(p)
  PROVE  IInv'
<1> DEFINE frame == Head(wire[p])
           to == pending[p][frame.id]
<1>1. frame \in Frame /\ wire' \in [Peer -> Seq(Frame)]
  BY FramesAfterRead DEF IInv, ReadResponse, Readable
<1>2. /\ pending' = [pending EXCEPT ![p][frame.id] = NoCall]
      /\ delivering' =
             IF to = NoCall THEN delivering
             ELSE [delivering EXCEPT ![p] = [to |-> to, answers |-> frame.call]]
      /\ UNCHANGED <<state, counter, call, resp, result, handler>>
  BY DEF ReadResponse, PendingAfter
<1>3. frame.id \in ID /\ frame.call \in Call /\ to \in Call \cup {NoCall}
  BY <1>1 DEF IInv, TypeOK, Frame
<1>4. to # NoCall => at[to] = p /\ call[to].id = frame.id
                     /\ call[to].pc \in {"write", "wait", "cleanup"} /\ resp[to] = NoCall
  BY <1>3 DEF IInv, NoLeakedEntry, PendingOrDelivered
<1> HIDE DEF frame, to
<1>5. \A q \in Peer, i \in ID :
         pending'[q][i] = IF q = p /\ i = frame.id THEN NoCall ELSE pending[q][i]
  BY <1>2, <1>3 DEF IInv, TypeOK
<1>6. \A q \in Peer :
         delivering'[q] = IF q = p /\ to # NoCall
                          THEN [to |-> to, answers |-> frame.call] ELSE delivering[q]
  BY <1>2 DEF IInv, TypeOK
<1>7. TypeOK'
  <2>1. pending' \in [Peer -> [ID -> Call \cup {NoCall}]]
    BY <1>2, <1>3 DEF IInv, TypeOK
  <2>2. delivering' \in [Peer -> [to : Call \cup {NoCall}, answers : Call \cup {NoCall}]]
    BY <1>2, <1>3 DEF IInv, TypeOK
  <2>. QED BY <1>1, <1>2, <2>1, <2>2 DEF IInv, TypeOK
<1>8. NoLeakedEntry'
  BY <1>2, <1>5 DEF IInv, NoLeakedEntry
<1>9. Unregistered'
  BY <1>2, <1>4, <1>6 DEF IInv, Unregistered
<1>10. PendingOrDelivered'
  <2> SUFFICES ASSUME NEW q \in Peer, NEW r \in Peer, NEW i \in ID, pending'[q][i] # NoCall
               PROVE  resp[pending'[q][i]] = NoCall /\ delivering'[r].to # pending'[q][i]
    BY <1>2 DEF PendingOrDelivered
  <2>1. pending'[q][i] = pending[q][i] /\ ~(q = p /\ i = frame.id)
    BY <1>5
  <2>2. at[pending[q][i]] = q /\ call[pending[q][i]].id = i
    BY <2>1 DEF IInv, NoLeakedEntry
  <2>3. to # NoCall => pending[q][i] # to
    BY <1>4, <2>1, <2>2
  <2>. QED BY <1>6, <2>1, <2>3 DEF IInv, PendingOrDelivered
<1>11. DeliveredAtHome'
  BY <1>3, <1>4, <1>6 DEF IInv, DeliveredAtHome
<1>12. ReaderNeverBlocks'
  BY <1>2, <1>4, <1>6 DEF IInv, ReaderNeverBlocks
<1>. QED BY <1>7, <1>8, <1>9, <1>10, <1>11, <1>12 DEF IInv

\* No other entry and no other reader knows the call that gets its response.
LEMMA DeliverKeeps ==
  ASSUME IInv, NEW p \in Peer, Deliver(p)
  PROVE  IInv'
<1> DEFINE mail == delivering[p]
<1>1. /\ mail.to \in Call /\ at[mail.to] = p
      /\ mail.answers \in Call \cup {NoCall}
  BY DEF IInv, TypeOK, DeliveredAtHome, Deliver
<1>2. /\ mail # NoMail
      /\ resp' = [resp EXCEPT ![mail.to] = mail.answers]
      /\ delivering' = [delivering EXCEPT ![p] = NoMail]
      /\ UNCHANGED <<state, wire, counter, pending, call, result, handler>>
  BY DEF Deliver
<1>3. \A q \in Peer : delivering'[q] = IF q = p THEN NoMail ELSE delivering[q]
  BY <1>2 DEF IInv, TypeOK
<1>4. \A c \in Call : resp'[c] = IF c = mail.to THEN mail.answers ELSE resp[c]
  BY <1>2 DEF IInv, TypeOK
<1>5. NoMail.to = NoCall /\ NoMail \in [to : {NoCall}, answers : {NoCall}]
  BY DEF NoMail
<1> HIDE DEF mail
<1>6. TypeOK'
  BY <1>1, <1>2, <1>5 DEF IInv, TypeOK
<1>7. NoLeakedEntry'
  BY <1>2 DEF IInv, NoLeakedEntry
<1>8. Unregistered'
  BY <1>2, <1>5, ExchangeAssumption DEF IInv, Unregistered, mail
<1>9. PendingOrDelivered'
  <2>1. \A q \in Peer, i \in ID : pending[q][i] # NoCall =>
           pending[q][i] \in Call /\ pending[q][i] # mail.to
    BY DEF IInv, TypeOK, PendingOrDelivered, mail
  <2>. QED BY <1>2, <1>5, <2>1 DEF IInv, PendingOrDelivered
<1>10. DeliveredAtHome'
  BY <1>3 DEF IInv, DeliveredAtHome
<1>11. ReaderNeverBlocks'
  <2>1. \A q \in Peer : q # p /\ delivering[q] # NoMail => delivering[q].to # mail.to
    BY <1>1 DEF IInv, DeliveredAtHome
  <2>. QED BY <1>3, <1>4, <2>1 DEF IInv, DeliveredAtHome, ReaderNeverBlocks
<1>. QED BY <1>6, <1>7, <1>8, <1>9, <1>10, <1>11 DEF IInv

\* Closing changes the state only.
LEMMA CloseKeeps ==
  ASSUME IInv, NEW p \in Peer, ReadEOF(p) \/ Close(p)
  PROVE  IInv'
<1>1. /\ state' \in [Peer -> {"open", "closing", "closed"}]
      /\ UNCHANGED <<wire, counter, pending, call, resp, result, delivering, handler>>
  BY ClosingCloses DEF IInv, ReadEOF, Close
<1>2. TypeOK'
  BY <1>1 DEF IInv, TypeOK
<1>. QED BY <1>1, <1>2 DEF IInv, NoLeakedEntry, Unregistered, PendingOrDelivered,
    DeliveredAtHome, ReaderNeverBlocks

\* Handlers touch nothing of the caller's, except by what they write.
LEMMA HandlerKeeps ==
  ASSUME IInv, NEW c \in Call, HandlerStep(c)
  PROVE  IInv'
<1>1. at[c] \in Peer /\ Other(at[c]) \in Peer
  BY TwoEnds, ExchangeAssumption
<1>2. CASE Execute(c)
  <2>1. TypeOK'
    BY <1>2 DEF IInv, TypeOK, Execute
  <2>. QED BY <1>2, <2>1 DEF IInv, NoLeakedEntry, Unregistered,
      PendingOrDelivered, DeliveredAtHome, ReaderNeverBlocks, Execute
<1>3. CASE WriteAnswer(c)
  <2> DEFINE f == [type |-> "response", id |-> AnswerID(c), call |-> c]
  <2>1. f \in Frame /\ Send(at[c], f)
    BY <1>3 DEF IInv, TypeOK, WriteAnswer, AnswerID, Frame
  <2>2. wire' \in [Peer -> Seq(Frame)]
    BY <1>1, <2>1, FramesAfterSend DEF IInv
  <2>3. TypeOK'
    BY <1>3, <2>2 DEF IInv, TypeOK, WriteAnswer
  <2>. QED BY <1>3, <2>3 DEF IInv, NoLeakedEntry, Unregistered,
      PendingOrDelivered, DeliveredAtHome, ReaderNeverBlocks, WriteAnswer
<1>4. CASE AnswerLost(c)
  <2>1. state' \in [Peer -> {"open", "closing", "closed"}]
    BY <1>1, <1>4, ClosingCloses DEF IInv, TypeOK, AnswerLost
  <2>2. TypeOK'
    <3>1. PICK pc \in {"done", "lost"} : handler' = [handler EXCEPT ![c].pc = pc]
      BY <1>4 DEF AnswerLost
    <3>2. handler' \in [Call -> [pc : {"none", "run", "answer", "done", "lost"}, id : ID]]
      BY <3>1 DEF IInv, TypeOK
    <3>. QED BY <1>4, <2>1, <3>2 DEF IInv, TypeOK, AnswerLost
  <2>. QED BY <1>4, <2>2 DEF IInv, NoLeakedEntry, Unregistered,
      PendingOrDelivered, DeliveredAtHome, ReaderNeverBlocks, AnswerLost
<1>. QED BY <1>2, <1>3, <1>4 DEF HandlerStep

LEMMA ClearPendingKeeps ==
  ASSUME IInv, NEW p \in Peer, ClearPending(p)
  PROVE  IInv'
<1>1. \A q \in Peer, i \in ID : pending'[q][i] = IF q = p THEN NoCall ELSE pending[q][i]
  BY DEF IInv, TypeOK, ClearPending
<1>2. TypeOK'
  <2>1. <<>> \in Seq(Frame)
    OBVIOUS
  <2>. QED BY <2>1 DEF IInv, TypeOK, ClearPending
<1>3. NoLeakedEntry' /\ PendingOrDelivered'
  BY <1>1 DEF IInv, NoLeakedEntry, PendingOrDelivered, ClearPending
<1>. QED BY <1>2, <1>3 DEF IInv, Unregistered, DeliveredAtHome, ReaderNeverBlocks,
      ClearPending

LEMMA InitEstablishes == Init => IInv
<1> SUFFICES ASSUME Init PROVE IInv
  OBVIOUS
<1>1. 0 \in ID /\ <<>> \in Seq(Frame)
  BY ExchangeAssumption DEF ID
<1>2. TypeOK
  BY <1>1 DEF Init, TypeOK, NoMail
<1>3. NoLeakedEntry /\ PendingOrDelivered
  BY DEF Init, NoLeakedEntry, PendingOrDelivered
<1>4. Unregistered
  BY ExchangeAssumption DEF Init, Unregistered, NoMail
<1>5. DeliveredAtHome /\ ReaderNeverBlocks
  BY DEF Init, DeliveredAtHome, ReaderNeverBlocks
<1>. QED BY <1>2, <1>3, <1>4, <1>5 DEF IInv

LEMMA NextKeeps == IInv /\ [Next]_vars => IInv'
<1> SUFFICES ASSUME IInv, [Next]_vars PROVE IInv'
  OBVIOUS
<1>1. ASSUME NEW c \in Call, SendCmd(c) \/ CallStep(c) \/ Expire(c) \/ HandlerStep(c)
      PROVE  IInv'
  BY <1>1, SendCmdKeeps, RegisterKeeps, WriteCommandKeeps, ReturningKeeps,
      CleanupKeeps, HandlerKeeps DEF CallStep, Expire, Returning
<1>2. ASSUME NEW p \in Peer, ReaderStep(p) \/ Close(p) \/ ClearPending(p)
      PROVE  IInv'
  BY <1>2, ReadCommandKeeps, ReadResponseKeeps, DeliverKeeps, CloseKeeps,
      ClearPendingKeeps DEF ReaderStep
<1>3. CASE UNCHANGED vars
  BY <1>3 DEF vars, IInv, TypeOK, NoLeakedEntry, Unregistered, PendingOrDelivered,
      DeliveredAtHome, ReaderNeverBlocks
<1>. QED BY <1>1, <1>2, <1>3 DEF Next, Finished

-----------------------------------------------------------------------------
(* Neither end gives an ID twice: every action keeps the rest.             *)

\* The next ID is the next number, and one more call is registered.
LEMMA NextIDCounts ==
  ASSUME IInv, IDsCounted, FewCalls, NEW c \in Call, call[c].pc = "register"
  PROVE  /\ NextID(at[c]) = counter[at[c]] + 1
         /\ Cardinality(Registered(at[c]) \cup {c}) = counter[at[c]] + 1
<1> DEFINE p == at[c]
           k == counter[p]
           id(n) == (k + n) % IDSpace
           free(n) == pending[p][id(n)] = NoCall
           found(n) == free(n) /\ \A m \in 1 .. n - 1 : ~free(m)
<1>1. p \in Peer /\ k \in Nat /\ IDSpace \in Nat \ {0} /\ k \in 0 .. IDSpace - 1
  BY ExchangeAssumption DEF IInv, TypeOK, ID
<1>2. /\ IsFiniteSet(CallsOf(p)) /\ Cardinality(CallsOf(p)) \in Nat
      /\ Cardinality(CallsOf(p)) < IDSpace
  BY <1>1, FS_CardinalityType DEF FewCalls
<1>3. c \notin Registered(p) /\ Registered(p) \cup {c} \subseteq CallsOf(p)
  BY DEF Registered, CallsOf, IDsCounted
<1>4. IsFiniteSet(Registered(p))
  BY <1>2, <1>3, FS_Subset
<1>5. Cardinality(Registered(p) \cup {c}) = k + 1
  <2>1. Cardinality(Registered(p)) = k
    BY <1>1 DEF IDsCounted
  <2>. QED BY <1>3, <1>4, <2>1, FS_AddElement
<1>6. Cardinality(Registered(p) \cup {c}) <= Cardinality(CallsOf(p))
  BY <1>2, <1>3, FS_Subset
<1>7. k + 1 < IDSpace
  BY <1>1, <1>2, <1>5, <1>6
<1>8. id(1) = k + 1 /\ k + 1 \in ID
  BY <1>1, <1>7 DEF ID
<1>9. free(1)
  <2> SUFFICES ASSUME pending[p][k + 1] # NoCall PROVE FALSE
    BY <1>8
  <2>1. pending[p][k + 1] \in Call /\ at[pending[p][k + 1]] = p
        /\ call[pending[p][k + 1]].id = k + 1
    BY <1>1, <1>8 DEF IInv, TypeOK, NoLeakedEntry
  <2>. QED BY <1>1, <2>1 DEF IDsCounted
<1>10. found(1) /\ 1 \in 1 .. IDSpace
  BY <1>1, <1>9
<1>11. NextID(p) = id(CHOOSE n \in 1 .. IDSpace : found(n))
  BY DEF NextID
<1> HIDE DEF id, free
<1>12. \A n \in 1 .. IDSpace : found(n) => n = 1
  BY <1>1, <1>9
<1>13. (CHOOSE n \in 1 .. IDSpace : found(n)) = 1
  BY <1>10, <1>12
<1>. QED BY <1>5, <1>8, <1>11, <1>13

\* Calls that only go on leave the count of IDs as it is.
LEMMA IDsStay ==
  ASSUME IDsCounted, UNCHANGED counter,
         \A d \in Call :
             /\ call'[d].id = call[d].id
             /\ call'[d].pc \in {"idle", "register"} => call[d].pc \in {"idle", "register"}
             /\ call'[d].pc \in {"write", "wait"} => call[d].pc \in {"write", "wait"}
  PROVE  IDsCounted'
<1>1. \A p \in Peer : Registered(p)' = Registered(p)
  BY DEF Registered, CallsOf
<1>. QED BY <1>1 DEF IDsCounted

LEMMA FrameOfCall ==
  ASSUME TypeOK, NEW p \in Peer, NEW i \in 1 .. Len(wire[p])
  PROVE  wire[p][i].call \in Call
<1>1. wire[p] \in Seq(Frame)
  BY DEF TypeOK
<1>2. wire[p][i] \in Frame
  BY <1>1
<1>. QED BY <1>2 DEF Frame

\* They leave what frames and handlers say of them as it is, too.
LEMMA FramesStay ==
  ASSUME TypeOK, CommandFrames, ResponseFrames, Handled, UNCHANGED <<wire, handler>>,
         \A d \in Call :
             call[d].id # 0 =>
                 /\ call'[d].id = call[d].id
                 /\ call'[d].pc \in {"idle", "register", "write"} =>
                        call[d].pc \in {"idle", "register", "write"}
  PROVE  CommandFrames' /\ ResponseFrames' /\ Handled'
<1>1. \A p \in Peer : \A i \in 1 .. Len(wire[p]) : wire[p][i].call \in Call
  BY FrameOfCall
<1>2. CommandFrames'
  BY <1>1 DEF CommandFrames
<1>3. ResponseFrames'
  BY <1>1 DEF ResponseFrames
<1>4. Handled'
  BY DEF Handled
<1>. QED BY <1>2, <1>3, <1>4

LEMMA SendCmdKeepsU ==
  ASSUME IInv, UInv, NEW c \in Call, SendCmd(c)
  PROVE  UInv'
<1>1. PICK pc \in {"returned", "register"} : call' = [call EXCEPT ![c].pc = pc]
  BY DEF SendCmd, GoTo
<1>2. /\ call[c].pc = "idle"
      /\ UNCHANGED <<state, wire, counter, pending, resp, delivering, handler>>
  BY DEF SendCmd
<1>3. /\ \A d \in Call : call'[d].id = call[d].id
      /\ \A d \in Call : d # c => call'[d] = call[d]
      /\ call'[c].pc = pc
  BY <1>1 DEF IInv, TypeOK
<1>4. call[c].id = 0
  BY <1>2 DEF UInv, IDsCounted
<1>5. IDsCounted'
  BY <1>2, <1>3, IDsStay DEF UInv
<1>6. CommandFrames' /\ ResponseFrames' /\ Handled'
  BY <1>2, <1>3, <1>4, FramesStay DEF IInv, UInv
<1>7. StillAnswerable'
  BY <1>2, <1>3 DEF UInv, StillAnswerable, Closed
<1>. QED BY <1>2, <1>5, <1>6, <1>7 DEF UInv, OwnResponse

\* The new ID is larger than all that were given.
LEMMA RegisterKeepsU ==
  ASSUME IInv, UInv, FewCalls, NEW c \in Call, Register(c)
  PROVE  UInv'
<1> DEFINE p == at[c]
           id == NextID(p)
<1>1. /\ p \in Peer /\ id \in ID /\ id = counter[p] + 1 /\ counter[p] \in Nat
      /\ pending[p][id] = NoCall
      /\ Cardinality(Registered(p) \cup {c}) = id
  <2>1. p \in Peer /\ counter[p] \in ID /\ counter[p] \in Nat
    BY ExchangeAssumption DEF IInv, TypeOK, ID
  <2>2. id \in ID /\ pending[p][id] = NoCall
    BY <2>1, NextIDIsFree DEF Register
  <2>3. id = counter[p] + 1 /\ Cardinality(Registered(p) \cup {c}) = counter[p] + 1
    BY NextIDCounts DEF UInv, Register
  <2>. QED BY <2>1, <2>2, <2>3
<1>2. /\ call[c].pc = "register"
      /\ counter' = [counter EXCEPT ![p] = id]
      /\ pending' = [pending EXCEPT ![p][id] = c]
      /\ call' = [call EXCEPT ![c] = [pc |-> "write", id |-> id]]
      /\ UNCHANGED <<state, wire, resp, result, delivering, handler>>
  BY DEF Register
<1> HIDE DEF id
<1>3. /\ \A d \in Call : d # c => call'[d] = call[d]
      /\ call'[c] = [pc |-> "write", id |-> id]
      /\ call[c].id = 0
      /\ \A q \in Peer : counter'[q] = IF q = p THEN id ELSE counter[q]
      /\ \A q \in Peer, i \in ID :
             pending'[q][i] = IF q = p /\ i = id THEN c ELSE pending[q][i]
  BY <1>2 DEF IInv, TypeOK, UInv, IDsCounted
<1>4. \A d \in Call : at[d] \in Peer /\ call[d].id \in ID /\ call[d].id \in Nat
  BY ExchangeAssumption DEF IInv, TypeOK, ID
<1>5. IDsCounted'
  <2>1. \A q \in Peer : Registered(q)' =
           IF q = p THEN Registered(p) \cup {c} ELSE Registered(q)
    BY <1>1, <1>3 DEF Registered, CallsOf
  <2>2. \A q \in Peer : counter'[q] = Cardinality(Registered(q)')
    <3> TAKE q \in Peer
    <3>1. CASE q = p
      BY <1>1, <1>3, <2>1, <3>1
    <3>2. CASE q # p
      BY <1>3, <2>1, <3>2 DEF UInv, IDsCounted
    <3>. QED BY <3>1, <3>2
  <2>3. \A d \in Call : call'[d].id <= counter'[at[d]]
    BY <1>1, <1>3, <1>4 DEF UInv, IDsCounted
  <2>4. \A d \in Call : at[d] = p => call[d].id < id
    BY <1>1, <1>4 DEF UInv, IDsCounted
  <2>5. \A d, e \in Call :
           at[d] = at[e] /\ call'[d].id = call'[e].id /\ call'[d].id # 0 => d = e
    BY <1>3, <1>4, <2>4 DEF UInv, IDsCounted
  <2>6. \A d \in Call :
           /\ call'[d].pc \in {"idle", "register"} => call'[d].id = 0
           /\ call'[d].pc \in {"write", "wait"} => call'[d].id # 0
    BY <1>1, <1>3 DEF UInv, IDsCounted
  <2>. QED BY <2>2, <2>3, <2>5, <2>6 DEF IDsCounted
<1>6. CommandFrames' /\ ResponseFrames' /\ Handled'
  BY <1>2, <1>3, FramesStay DEF IInv, UInv
<1>7. StillAnswerable'
  BY <1>1, <1>2, <1>3, ExchangeAssumption DEF UInv, StillAnswerable, Closed
<1>. QED BY <1>2, <1>5, <1>6, <1>7 DEF UInv, OwnResponse

\* The command is sent once, and nobody handles it yet.
LEMMA WriteCommandKeepsU ==
  ASSUME IInv, UInv, NEW c \in Call, WriteCommand(c)
  PROVE  UInv'
<1> DEFINE to == Other(at[c])
           f == [type |-> "command", id |-> call[c].id, call |-> c]
<1>1. to \in Peer /\ at[c] # to /\ f \in Frame /\ Send(to, f)
  BY TwoEnds, ExchangeAssumption DEF IInv, TypeOK, WriteCommand, Frame
<1>2. /\ call[c].pc = "write"
      /\ call' = [call EXCEPT ![c].pc = "wait"]
      /\ UNCHANGED <<state, counter, pending, resp, result, delivering, handler>>
  BY DEF WriteCommand, GoTo
<1>3. /\ \A d \in Call : call'[d].id = call[d].id
      /\ \A d \in Call : d # c => call'[d] = call[d]
      /\ call'[c].pc = "wait"
  BY <1>2 DEF IInv, TypeOK
<1>4. call[c].id # 0 /\ handler[c].pc = "none"
  BY <1>2 DEF UInv, IDsCounted, Handled
<1>5. \A q \in Peer : \A i \in 1 .. Len(wire'[q]) :
         \/ i \in 1 .. Len(wire[q]) /\ wire'[q][i] = wire[q][i] /\ wire[q][i].call \in Call
         \/ q = to /\ i = Len(wire[q]) + 1 /\ wire'[q][i] = f
  BY <1>1, FramesAfterSend, FrameOfCall DEF IInv
<1>6. \A q \in Peer : \A i \in 1 .. Len(wire[q]) :
         wire[q][i].type = "command" => wire[q][i].call # c
  BY <1>2 DEF UInv, CommandFrames
<1> HIDE DEF to
<1>7. IDsCounted'
  BY <1>2, IDsStay DEF UInv
<1>8. CommandFrames'
  <2> SUFFICES ASSUME NEW q \in Peer, NEW i \in 1 .. Len(wire'[q]),
                      wire'[q][i].type = "command"
               PROVE  LET d == wire'[q][i].call
                      IN  /\ at[d] # q
                          /\ wire'[q][i].id = call'[d].id
                          /\ call'[d].id # 0
                          /\ call'[d].pc \notin {"idle", "register", "write"}
                          /\ handler[d].pc = "none"
                          /\ \A j \in 1 .. Len(wire'[q]) :
                                 wire'[q][j].type = "command" /\ wire'[q][j].call = d
                                     => j = i
    BY <1>2 DEF CommandFrames
  <2>1. CASE i \in 1 .. Len(wire[q]) /\ wire'[q][i] = wire[q][i] /\ wire[q][i].call \in Call
    <3>1. wire[q][i].call # c
      BY <1>6, <2>1
    <3>2. \A j \in 1 .. Len(wire'[q]) :
             wire'[q][j].type = "command" /\ wire'[q][j].call = wire[q][i].call => j = i
      BY <1>5, <2>1, <3>1 DEF UInv, CommandFrames
    <3>. QED BY <1>3, <2>1, <3>2 DEF UInv, CommandFrames
  <2>2. CASE q = to /\ i = Len(wire[q]) + 1 /\ wire'[q][i] = f
    <3>1. \A j \in 1 .. Len(wire'[q]) :
             wire'[q][j].type = "command" /\ wire'[q][j].call = c => j = i
      BY <1>5, <1>6, <2>2
    <3>. QED BY <1>1, <1>3, <1>4, <2>2, <3>1
  <2>. QED BY <1>5, <2>1, <2>2
<1>9. ResponseFrames'
  BY <1>2, <1>5 DEF UInv, ResponseFrames
<1>10. Handled'
  BY <1>2 DEF UInv, Handled
<1>11. StillAnswerable'
  BY <1>2 DEF UInv, StillAnswerable, Closed
<1>. QED BY <1>2, <1>7, <1>8, <1>9, <1>10, <1>11 DEF UInv, OwnResponse

LEMMA ReturningKeepsU ==
  ASSUME IInv, UInv, NEW c \in Call, Returning(c)
  PROVE  UInv'
<1>1. /\ call[c].pc \in {"write", "wait"}
      /\ call' = [call EXCEPT ![c].pc = "cleanup"]
      /\ \A q \in Peer : Closed(q) => Closed(q)'
      /\ UNCHANGED <<wire, counter, pending, resp, delivering, handler>>
  BY WhatReturns DEF IInv
<1>2. /\ \A d \in Call : call'[d].id = call[d].id
      /\ \A d \in Call : d # c => call'[d] = call[d]
      /\ call'[c].pc = "cleanup"
  BY <1>1 DEF IInv, TypeOK
<1>3. IDsCounted'
  BY <1>1, <1>2, IDsStay DEF UInv
<1>4. CommandFrames' /\ ResponseFrames' /\ Handled'
  BY <1>1, <1>2, FramesStay DEF IInv, UInv
<1>5. StillAnswerable'
  <2>1. \A d \in Call : at[d] \in Peer
    BY ExchangeAssumption
  <2>. QED BY <1>1, <1>2, <2>1 DEF UInv, StillAnswerable
<1>. QED BY <1>1, <1>3, <1>4, <1>5 DEF UInv, OwnResponse

\* The call deletes its own entry and no other.
LEMMA CleanupKeepsU ==
  ASSUME IInv, UInv, NEW c \in Call, Cleanup(c)
  PROVE  UInv'
<1>1. \A d \in Call : at[d] \in Peer /\ call[d].id \in ID
  BY ExchangeAssumption DEF IInv, TypeOK
<1>2. /\ call[c].pc = "cleanup"
      /\ call' = [call EXCEPT ![c].pc = "returned"]
      /\ UNCHANGED <<state, wire, counter, resp, delivering, handler>>
  BY DEF Cleanup, GoTo
<1>3. \A q \in Peer, i \in ID :
         pending'[q][i] = IF q = at[c] /\ i = call[c].id THEN NoCall ELSE pending[q][i]
  BY DEF IInv, TypeOK, Cleanup
<1>4. /\ \A d \in Call : call'[d].id = call[d].id
      /\ \A d \in Call : d # c => call'[d] = call[d]
      /\ call'[c].pc = "returned"
  BY <1>2 DEF IInv, TypeOK
<1>5. IDsCounted'
  BY <1>2, IDsStay DEF UInv
<1>6. CommandFrames' /\ ResponseFrames' /\ Handled'
  BY <1>2, FramesStay DEF IInv, UInv
<1>7. StillAnswerable'
  <2> SUFFICES ASSUME NEW d \in Call, call'[d].pc \in {"write", "wait"}, ~Closed(at[d])
               PROVE  \/ pending'[at[d]][call'[d].id] = d
                      \/ delivering[at[d]].to = d
                      \/ resp[d] # NoCall
    BY <1>2 DEF StillAnswerable, Closed
  <2>1. d # c /\ call[d].pc \in {"write", "wait"} /\ call[d].id # 0
    BY <1>4 DEF UInv, IDsCounted
  <2>2. ~(at[d] = at[c] /\ call[d].id = call[c].id)
    BY <2>1 DEF UInv, IDsCounted
  <2>3. pending'[at[d]][call'[d].id] = pending[at[d]][call[d].id]
    BY <1>1, <1>3, <1>4, <2>2
  <2>. QED BY <2>1, <2>3 DEF UInv, StillAnswerable
<1>. QED BY <1>2, <1>5, <1>6, <1>7 DEF UInv, OwnResponse

\* The command leaves the wire, where it was once, for its handler.
LEMMA ReadCommandKeepsU ==
  ASSUME IInv, UInv, NEW p \in Peer, ReadCommand(p)
  PROVE  UInv'
<1> DEFINE frame == wire[p][1]
           c == frame.call
<1>1. /\ Head(wire[p]) = frame
      /\ 1 \in 1 .. Len(wire[p])
      /\ c \in Call
      /\ frame.type = "command"
      /\ \A q \in Peer : \A i \in 1 .. Len(wire'[q]) :
             LET k == IF q = p THEN i + 1 ELSE i
             IN  k \in 1 .. Len(wire[q]) /\ wire'[q][i] = wire[q][k]
  BY FramesAfterRead, FrameOfCall DEF IInv, ReadCommand, Readable
<1>2. /\ handler' = [handler EXCEPT ![c] = [pc |-> "run", id |-> frame.id]]
      /\ UNCHANGED <<state, counter, pending, call, resp, result, delivering>>
  BY DEF ReadCommand
<1>3. /\ at[c] # p /\ frame.id = call[c].id /\ call[c].id # 0
      /\ call[c].pc \notin {"idle", "register", "write"}
      /\ handler[c].pc = "none"
      /\ \A j \in 1 .. Len(wire[p]) :
             wire[p][j].type = "command" /\ wire[p][j].call = c => j = 1
  BY <1>1 DEF UInv, CommandFrames
<1>4. \A d \in Call :
         handler'[d] = IF d = c THEN [pc |-> "run", id |-> frame.id] ELSE handler[d]
  BY <1>2 DEF IInv, TypeOK
<1>5. at[c] \in Peer /\ \A q \in Peer : q # at[c] => q = p
  BY <1>1, <1>3, ExchangeAssumption
<1> HIDE DEF frame, c
<1>6. \A q \in Peer : \A i \in 1 .. Len(wire'[q]) :
         wire'[q][i].type = "command" => wire'[q][i].call # c
  <2> SUFFICES ASSUME NEW q \in Peer, NEW i \in 1 .. Len(wire'[q]),
                      wire'[q][i].type = "command", wire'[q][i].call = c
               PROVE  FALSE
    OBVIOUS
  <2>1. CASE q = p
    <3>1. i + 1 \in 1 .. Len(wire[p]) /\ wire'[q][i] = wire[p][i + 1] /\ i + 1 # 1
      BY <1>1, <2>1
    <3>. QED BY <1>3, <3>1
  <2>2. CASE q # p
    <3>1. i \in 1 .. Len(wire[q]) /\ wire'[q][i] = wire[q][i]
      BY <1>1, <2>2
    <3>2. at[c] # q
      BY <3>1 DEF UInv, CommandFrames
    <3>. QED BY <1>5, <2>2, <3>2
  <2>. QED BY <2>1, <2>2
<1>7. CommandFrames'
  <2> SUFFICES ASSUME NEW q \in Peer, NEW i \in 1 .. Len(wire'[q]),
                      wire'[q][i].type = "command"
               PROVE  LET d == wire'[q][i].call
                      IN  /\ at[d] # q
                          /\ wire'[q][i].id = call[d].id
                          /\ call[d].id # 0
                          /\ call[d].pc \notin {"idle", "register", "write"}
                          /\ handler'[d].pc = "none"
                          /\ \A j \in 1 .. Len(wire'[q]) :
                                 wire'[q][j].type = "command" /\ wire'[q][j].call = d
                                     => j = i
    BY <1>2 DEF CommandFrames
  <2> DEFINE k(j) == IF q = p THEN j + 1 ELSE j
  <2>1. \A j \in 1 .. Len(wire'[q]) :
           k(j) \in 1 .. Len(wire[q]) /\ wire'[q][j] = wire[q][k(j)]
    BY <1>1
  <2>2. \A j \in 1 .. Len(wire'[q]) : k(j) = k(i) => j = i
    OBVIOUS
  <2> HIDE DEF k
  <2>3. wire[q][k(i)].call \in Call /\ wire[q][k(i)].call # c
    BY <1>6, <2>1, FrameOfCall DEF IInv
  <2>4. \A j \in 1 .. Len(wire[q]) :
           wire[q][j].type = "command" /\ wire[q][j].call = wire[q][k(i)].call => j = k(i)
    BY <2>1 DEF UInv, CommandFrames
  <2>5. wire'[q][i] = wire[q][k(i)] /\ handler'[wire[q][k(i)].call].pc = "none"
    BY <1>4, <2>1, <2>3 DEF UInv, CommandFrames
  <2>6. \A j \in 1 .. Len(wire'[q]) :
           wire'[q][j].type = "command" /\ wire'[q][j].call = wire'[q][i].call => j = i
    BY <2>1, <2>2, <2>4
  <2>. QED BY <2>1, <2>5, <2>6 DEF UInv, CommandFrames
<1>8. ResponseFrames'
  <2> SUFFICES ASSUME NEW q \in Peer, NEW i \in 1 .. Len(wire'[q]),
                      wire'[q][i].type = "response"
               PROVE  LET d == wire'[q][i].call
                      IN  /\ at[d] = q
                          /\ wire'[q][i].id = call[d].id
                          /\ call[d].id # 0
                          /\ handler'[d].pc = "done"
    BY <1>2 DEF ResponseFrames
  <2>1. PICK k \in 1 .. Len(wire[q]) : wire'[q][i] = wire[q][k]
    BY <1>1
  <2>2. wire[q][k].call \in Call /\ handler[wire[q][k].call].pc = "done"
    BY <2>1, FrameOfCall DEF IInv, UInv, ResponseFrames
  <2>3. wire[q][k].call # c
    BY <1>3, <2>2
  <2>. QED BY <1>4, <2>1, <2>2, <2>3 DEF UInv, ResponseFrames
<1>9. Handled'
  BY <1>2, <1>3 DEF UInv, Handled
<1>10. OwnResponse'
  BY <1>2, <1>3 DEF IInv, UInv, OwnResponse
<1>11. IDsCounted' /\ StillAnswerable'
  BY <1>2 DEF UInv, IDsCounted, Registered, StillAnswerable, Closed
<1>. QED BY <1>7, <1>8, <1>9, <1>10, <1>11 DEF UInv

\* The entry with the ID of a response is the entry of the command it answers.
LEMMA ReadResponseKeepsU ==
  ASSUME IInv, UInv, NEW p \in Peer, ReadResponse(p)
  PROVE  UInv'
<1> DEFINE frame == wire[p][1]
           to == pending[p][frame.id]
<1>1. /\ Head(wire[p]) = frame
      /\ 1 \in 1 .. Len(wire[p])
      /\ frame \in Frame
      /\ frame.type = "response"
      /\ \A q \in Peer : \A i \in 1 .. Len(wire'[q]) :
             LET k == IF q = p THEN i + 1 ELSE i
             IN  k \in 1 .. Len(wire[q]) /\ wire'[q][i] = wire[q][k]
  BY FramesAfterRead DEF IInv, ReadResponse, Readable
<1>2. /\ pending' = [pending EXCEPT ![p][frame.id] = NoCall]
      /\ delivering' =
             IF to = NoCall THEN delivering
             ELSE [delivering EXCEPT ![p] = [to |-> to, answers |-> frame.call]]
      /\ delivering[p] = NoMail
      /\ UNCHANGED <<state, counter, call, resp, result, handler>>
  BY <1>1 DEF ReadResponse, PendingAfter, Readable, ReaderFree
<1>3. frame.id \in ID /\ frame.call \in Call /\ to \in Call \cup {NoCall}
  BY <1>1 DEF IInv, TypeOK, Frame
<1>4. /\ at[frame.call] = p /\ frame.id = call[frame.call].id
      /\ call[frame.call].id # 0
      /\ handler[frame.call].pc = "done"
  BY <1>1 DEF UInv, ResponseFrames
<1>5. to # NoCall => to = frame.call
  BY <1>3, <1>4 DEF IInv, NoLeakedEntry, UInv, IDsCounted
<1> HIDE DEF frame, to
<1>6. \A q \in Peer, i \in ID :
         pending'[q][i] = IF q = p /\ i = frame.id THEN NoCall ELSE pending[q][i]
  BY <1>2, <1>3 DEF IInv, TypeOK
<1>7. \A q \in Peer :
         delivering'[q] = IF q = p /\ to # NoCall
                          THEN [to |-> to, answers |-> frame.call] ELSE delivering[q]
  BY <1>2 DEF IInv, TypeOK
<1>8. CommandFrames'
  <2> SUFFICES ASSUME NEW q \in Peer, NEW i \in 1 .. Len(wire'[q]),
                      wire'[q][i].type = "command"
               PROVE  LET d == wire'[q][i].call
                      IN  /\ at[d] # q
                          /\ wire'[q][i].id = call[d].id
                          /\ call[d].id # 0
                          /\ call[d].pc \notin {"idle", "register", "write"}
                          /\ handler[d].pc = "none"
                          /\ \A j \in 1 .. Len(wire'[q]) :
                                 wire'[q][j].type = "command" /\ wire'[q][j].call = d
                                     => j = i
    BY <1>2 DEF CommandFrames
  <2> DEFINE k(j) == IF q = p THEN j + 1 ELSE j
  <2>1. \A j \in 1 .. Len(wire'[q]) :
           k(j) \in 1 .. Len(wire[q]) /\ wire'[q][j] = wire[q][k(j)]
    BY <1>1
  <2>2. \A j \in 1 .. Len(wire'[q]) : k(j) = k(i) => j = i
    OBVIOUS
  <2> HIDE DEF k
  <2>3. \A j \in 1 .. Len(wire[q]) :
           wire[q][j].type = "command" /\ wire[q][j].call = wire[q][k(i)].call => j = k(i)
    BY <2>1 DEF UInv, CommandFrames
  <2>4. wire'[q][i] = wire[q][k(i)]
    BY <2>1
  <2>5. \A j \in 1 .. Len(wire'[q]) :
           wire'[q][j].type = "command" /\ wire'[q][j].call = wire'[q][i].call => j = i
    BY <2>1, <2>2, <2>3, <2>4
  <2>. QED BY <2>1, <2>4, <2>5 DEF UInv, CommandFrames
<1>9. ResponseFrames'
  <2> SUFFICES ASSUME NEW q \in Peer, NEW i \in 1 .. Len(wire'[q]),
                      wire'[q][i].type = "response"
               PROVE  LET d == wire'[q][i].call
                      IN  /\ at[d] = q
                          /\ wire'[q][i].id = call[d].id
                          /\ call[d].id # 0
                          /\ handler[d].pc = "done"
    BY <1>2 DEF ResponseFrames
  <2>1. PICK k \in 1 .. Len(wire[q]) : wire'[q][i] = wire[q][k]
    BY <1>1
  <2>. QED BY <2>1 DEF UInv, ResponseFrames
<1>10. OwnResponse'
  <2>1. to # NoCall => handler[to].pc = "done"
    BY <1>4, <1>5
  <2>. QED BY <1>2, <1>5, <1>7, <2>1 DEF UInv, OwnResponse
<1>11. StillAnswerable'
  <2> SUFFICES ASSUME NEW d \in Call, call[d].pc \in {"write", "wait"}, ~Closed(at[d])
               PROVE  \/ pending'[at[d]][call[d].id] = d
                      \/ delivering'[at[d]].to = d
                      \/ resp[d] # NoCall
    BY <1>2 DEF StillAnswerable, Closed
  <2>1. at[d] \in Peer /\ call[d].id \in ID
    BY ExchangeAssumption DEF IInv, TypeOK
  <2>2. \/ pending[at[d]][call[d].id] = d
        \/ delivering[at[d]].to = d
        \/ resp[d] # NoCall
    BY DEF UInv, StillAnswerable
  <2>3. CASE pending[at[d]][call[d].id] = d
    BY <1>6, <1>7, <2>1, <2>3, ExchangeAssumption DEF to
  <2>4. CASE delivering[at[d]].to = d
    <3>1. at[d] # p
      BY <1>2, <2>4, ExchangeAssumption DEF NoMail
    <3>. QED BY <1>7, <2>1, <2>4, <3>1
  <2>. QED BY <2>2, <2>3, <2>4
<1>12. IDsCounted' /\ Handled'
  BY <1>2 DEF UInv, IDsCounted, Registered, Handled
<1>. QED BY <1>8, <1>9, <1>10, <1>11, <1>12 DEF UInv

LEMMA DeliverKeepsU ==
  ASSUME IInv, UInv, NEW p \in Peer, Deliver(p)
  PROVE  UInv'
<1> DEFINE mail == delivering[p]
<1>1. /\ mail.to \in Call /\ at[mail.to] = p
      /\ mail.answers = mail.to /\ handler[mail.to].pc = "done"
  BY DEF IInv, DeliveredAtHome, UInv, OwnResponse, Deliver
<1>2. /\ resp' = [resp EXCEPT ![mail.to] = mail.answers]
      /\ delivering' = [delivering EXCEPT ![p] = NoMail]
      /\ UNCHANGED <<state, wire, counter, pending, call, result, handler>>
  BY DEF Deliver
<1>3. \A q \in Peer : delivering'[q] = IF q = p THEN NoMail ELSE delivering[q]
  BY <1>2 DEF IInv, TypeOK
<1>4. \A c \in Call : resp'[c] = IF c = mail.to THEN mail.answers ELSE resp[c]
  BY <1>2 DEF IInv, TypeOK
<1>5. OwnResponse'
  BY <1>1, <1>2, <1>3, <1>4 DEF UInv, OwnResponse
<1>6. StillAnswerable'
  <2> SUFFICES ASSUME NEW d \in Call, call[d].pc \in {"write", "wait"}, ~Closed(at[d])
               PROVE  \/ pending[at[d]][call[d].id] = d
                      \/ delivering'[at[d]].to = d
                      \/ resp'[d] # NoCall
    BY <1>2 DEF StillAnswerable, Closed
  <2>1. CASE d = mail.to
    BY <1>1, <1>4, <2>1, ExchangeAssumption
  <2>2. CASE d # mail.to
    <3>1. at[d] \in Peer
      BY ExchangeAssumption
    <3>. QED BY <1>3, <1>4, <2>2, <3>1 DEF UInv, StillAnswerable
  <2>. QED BY <2>1, <2>2
<1>7. IDsCounted' /\ CommandFrames' /\ ResponseFrames' /\ Handled'
  BY <1>2 DEF UInv, IDsCounted, Registered, CommandFrames, ResponseFrames, Handled
<1>. QED BY <1>5, <1>6, <1>7 DEF UInv

LEMMA CloseKeepsU ==
  ASSUME IInv, UInv, NEW p \in Peer, ReadEOF(p) \/ Close(p)
  PROVE  UInv'
<1>1. /\ \A q \in Peer : Closed(q) => Closed(q)'
      /\ UNCHANGED <<wire, counter, pending, call, resp, result, delivering, handler>>
  BY ClosingCloses DEF IInv, ReadEOF, Close
<1>2. StillAnswerable'
  <2>1. \A d \in Call : at[d] \in Peer
    BY ExchangeAssumption
  <2>. QED BY <1>1, <2>1 DEF UInv, StillAnswerable
<1>. QED BY <1>1, <1>2 DEF UInv, IDsCounted, Registered, CommandFrames,
    ResponseFrames, Handled, OwnResponse

\* A handler that goes on keeps its ID, and is not undone.
LEMMA HandlerGoesOn ==
  ASSUME IInv, UInv, NEW c \in Call, NEW pc \in {"answer", "done", "lost"},
         handler' = [handler EXCEPT ![c].pc = pc],
         handler[c].pc \in {"run", "answer"},
         UNCHANGED <<call, resp, delivering>>
  PROVE  /\ \A d \in Call : d # c => handler'[d] = handler[d]
         /\ handler'[c].pc = pc
         /\ handler[c].pc \notin {"none", "done"}
         /\ Handled' /\ OwnResponse'
<1>1. /\ \A d \in Call : d # c => handler'[d] = handler[d]
      /\ handler'[c].pc = pc /\ handler'[c].id = handler[c].id
  BY DEF IInv, TypeOK
<1>2. Handled'
  BY DEF UInv, Handled
<1>3. OwnResponse'
  BY DEF IInv, UInv, OwnResponse
<1>. QED BY <1>1, <1>2, <1>3

\* Frames that are on the wire already stay true when a handler goes on.
LEMMA FramesOfOthers ==
  ASSUME IInv, UInv, NEW c \in Call, handler[c].pc \notin {"none", "done"},
         \A d \in Call : d # c => handler'[d] = handler[d],
         UNCHANGED <<wire, call>>
  PROVE  CommandFrames' /\ ResponseFrames'
<1>1. \A p \in Peer : \A i \in 1 .. Len(wire[p]) :
         /\ wire[p][i].call \in Call
         /\ wire[p][i].type \in {"command", "response"} => wire[p][i].call # c
  BY FrameOfCall DEF IInv, UInv, CommandFrames, ResponseFrames
<1>2. CommandFrames'
  BY <1>1 DEF UInv, CommandFrames
<1>3. ResponseFrames'
  BY <1>1 DEF UInv, ResponseFrames
<1>. QED BY <1>2, <1>3

LEMMA HandlerKeepsU ==
  ASSUME IInv, UInv, NEW c \in Call, HandlerStep(c)
  PROVE  UInv'
<1>1. at[c] \in Peer /\ Other(at[c]) \in Peer
  BY TwoEnds, ExchangeAssumption
<1>2. CASE Execute(c)
  <2>1. Handled' /\ OwnResponse' /\ CommandFrames' /\ ResponseFrames'
    BY <1>2, HandlerGoesOn, FramesOfOthers DEF Execute
  <2>. QED BY <1>2, <2>1 DEF UInv, IDsCounted, Registered, StillAnswerable,
      Closed, Execute
<1>3. CASE WriteAnswer(c)
  <2> DEFINE p == at[c]
             f == [type |-> "response", id |-> handler[c].id, call |-> c]
  <2>1. /\ f \in Frame /\ Send(p, f)
        /\ handler[c].pc = "answer"
        /\ handler' = [handler EXCEPT ![c].pc = "done"]
        /\ UNCHANGED <<state, counter, pending, call, resp, result, delivering>>
    BY <1>3 DEF IInv, TypeOK, WriteAnswer, AnswerID, Frame
  <2>2. /\ \A d \in Call : d # c => handler'[d] = handler[d]
        /\ handler'[c].pc = "done"
        /\ Handled' /\ OwnResponse'
    BY <2>1, HandlerGoesOn
  <2>3. \A q \in Peer : \A i \in 1 .. Len(wire'[q]) :
           \/ i \in 1 .. Len(wire[q]) /\ wire'[q][i] = wire[q][i] /\ wire[q][i].call \in Call
           \/ q = p /\ i = Len(wire[q]) + 1 /\ wire'[q][i] = f
    BY <1>1, <2>1, FramesAfterSend, FrameOfCall DEF IInv
  <2>4. handler[c].id = call[c].id /\ call[c].id # 0
    BY <2>1 DEF UInv, Handled
  <2>5. CommandFrames'
    <3> SUFFICES ASSUME NEW q \in Peer, NEW i \in 1 .. Len(wire'[q]),
                        wire'[q][i].type = "command"
                 PROVE  LET d == wire'[q][i].call
                        IN  /\ at[d] # q
                            /\ wire'[q][i].id = call[d].id
                            /\ call[d].id # 0
                            /\ call[d].pc \notin {"idle", "register", "write"}
                            /\ handler'[d].pc = "none"
                            /\ \A j \in 1 .. Len(wire'[q]) :
                                   wire'[q][j].type = "command" /\ wire'[q][j].call = d
                                       => j = i
      BY <2>1 DEF CommandFrames
    <3>1. /\ i \in 1 .. Len(wire[q]) /\ wire'[q][i] = wire[q][i]
          /\ wire[q][i].call \in Call
      BY <2>3
    <3>2. wire[q][i].call # c
      BY <2>1, <3>1 DEF UInv, CommandFrames
    <3>3. \A j \in 1 .. Len(wire'[q]) :
             wire'[q][j].type = "command" =>
                 j \in 1 .. Len(wire[q]) /\ wire'[q][j] = wire[q][j]
      BY <2>3
    <3>. QED BY <2>2, <3>1, <3>2, <3>3 DEF UInv, CommandFrames
  <2>6. ResponseFrames'
    <3> SUFFICES ASSUME NEW q \in Peer, NEW i \in 1 .. Len(wire'[q]),
                        wire'[q][i].type = "response"
                 PROVE  LET d == wire'[q][i].call
                        IN  /\ at[d] = q
                            /\ wire'[q][i].id = call[d].id
                            /\ call[d].id # 0
                            /\ handler'[d].pc = "done"
      BY <2>1 DEF ResponseFrames
    <3>1. CASE i \in 1 .. Len(wire[q]) /\ wire'[q][i] = wire[q][i]
               /\ wire[q][i].call \in Call
      BY <2>2, <3>1 DEF UInv, ResponseFrames
    <3>2. CASE q = p /\ wire'[q][i] = f
      BY <2>2, <2>4, <3>2
    <3>. QED BY <2>3, <3>1, <3>2
  <2>7. IDsCounted' /\ StillAnswerable'
    BY <2>1 DEF UInv, IDsCounted, Registered, StillAnswerable, Closed
  <2>. QED BY <2>2, <2>5, <2>6, <2>7 DEF UInv
<1>4. CASE AnswerLost(c)
  <2>1. PICK pc \in {"done", "lost"} : handler' = [handler EXCEPT ![c].pc = pc]
    BY <1>4 DEF AnswerLost
  <2>2. /\ handler[c].pc = "answer"
        /\ UNCHANGED <<wire, counter, pending, call, resp, result, delivering>>
    BY <1>4 DEF AnswerLost
  <2>3. Handled' /\ OwnResponse' /\ CommandFrames' /\ ResponseFrames'
    BY <2>1, <2>2, HandlerGoesOn, FramesOfOthers
  <2>4. \A q \in Peer : Closed(q) => Closed(q)'
    BY <1>1, <1>4, ClosingCloses DEF IInv, AnswerLost, Closed
  <2>5. StillAnswerable'
    <3>1. \A d \in Call : at[d] \in Peer
      BY ExchangeAssumption
    <3>. QED BY <2>2, <2>4, <3>1 DEF UInv, StillAnswerable
  <2>. QED BY <2>2, <2>3, <2>5 DEF UInv, IDsCounted, Registered
<1>. QED BY <1>2, <1>3, <1>4 DEF HandlerStep

LEMMA ClearPendingKeepsU ==
  ASSUME IInv, UInv, NEW p \in Peer, ClearPending(p)
  PROVE  UInv'
<1>1. /\ state[p] = "closing"
      /\ state' = [state EXCEPT ![p] = "closed"]
      /\ pending' = [pending EXCEPT ![p] = [i \in ID |-> NoCall]]
      /\ wire' = [wire EXCEPT ![p] = <<>>]
      /\ UNCHANGED <<counter, call, resp, result, delivering, handler>>
  BY DEF ClearPending
<1>2. \A q \in Peer : wire'[q] = IF q = p THEN <<>> ELSE wire[q]
  BY <1>1 DEF IInv, TypeOK
<1>3. CommandFrames' /\ ResponseFrames'
  BY <1>1, <1>2 DEF UInv, CommandFrames, ResponseFrames
<1>4. StillAnswerable'
  <2>1. \A q \in Peer : ~Closed(q)' => q # p /\ ~Closed(q) /\ pending'[q] = pending[q]
    BY <1>1 DEF IInv, TypeOK, Closed
  <2>2. \A d \in Call : at[d] \in Peer
    BY ExchangeAssumption
  <2>. QED BY <1>1, <2>1, <2>2 DEF UInv, StillAnswerable
<1>. QED BY <1>1, <1>3, <1>4 DEF UInv, IDsCounted, Registered, Handled, OwnResponse

LEMMA InitEstablishesU == FewCalls /\ Init => UInv
<1> SUFFICES ASSUME FewCalls, Init PROVE UInv
  OBVIOUS
<1>1. \A p \in Peer : Registered(p) = {}
  BY DEF Init, Registered, CallsOf
<1>2. IDsCounted
  <2>1. Cardinality({}) = 0
    BY FS_EmptySet
  <2>2. \A c \in Call : at[c] \in Peer /\ call[c].id = 0 /\ call[c].pc = "idle"
    BY ExchangeAssumption DEF Init
  <2>3. \A p \in Peer : counter[p] = 0
    BY DEF Init
  <2>4. \A p \in Peer : counter[p] = Cardinality(Registered(p))
    BY <1>1, <2>1, <2>3
  <2>5. \A c \in Call : call[c].id <= counter[at[c]]
    BY <2>2, <2>3
  <2>. QED BY <2>2, <2>4, <2>5 DEF IDsCounted
<1>3. CommandFrames /\ ResponseFrames
  BY DEF Init, CommandFrames, ResponseFrames
<1>4. Handled /\ OwnResponse /\ StillAnswerable
  BY DEF Init, Handled, OwnResponse, StillAnswerable
<1>. QED BY <1>2, <1>3, <1>4 DEF UInv

LEMMA NextKeepsU == FewCalls /\ IInv /\ UInv /\ [Next]_vars => UInv'
<1> SUFFICES ASSUME FewCalls, IInv, UInv, [Next]_vars PROVE UInv'
  OBVIOUS
<1>1. ASSUME NEW c \in Call, SendCmd(c) \/ CallStep(c) \/ Expire(c) \/ HandlerStep(c)
      PROVE  UInv'
  BY <1>1, SendCmdKeepsU, RegisterKeepsU, WriteCommandKeepsU, ReturningKeepsU,
      CleanupKeepsU, HandlerKeepsU DEF CallStep, Expire, Returning
<1>2. ASSUME NEW p \in Peer, ReaderStep(p) \/ Close(p) \/ ClearPending(p)
      PROVE  UInv'
  BY <1>2, ReadCommandKeepsU, ReadResponseKeepsU, DeliverKeepsU, CloseKeepsU,
      ClearPendingKeepsU DEF ReaderStep
<1>3. CASE UNCHANGED vars
  BY <1>3 DEF vars, UInv, IDsCounted, Registered, CommandFrames, ResponseFrames,
      Handled, OwnResponse, StillAnswerable, Closed
<1>. QED BY <1>1, <1>2, <1>3 DEF Next, Finished

-----------------------------------------------------------------------------
(* The theorems, for any number of calls and request IDs.                  *)

\* The invariant holds in every reachable state of the exchange.
THEOREM InvariantHolds == Spec => []IInv
<1>. QED BY InitEstablishes, NextKeeps, PTL DEF Spec

\* Both connection structs and the locals of their goroutines keep their types.
THEOREM TypeCorrect == Spec => []TypeOK
<1>1. IInv => TypeOK
  BY DEF IInv
<1>. QED BY <1>1, InvariantHolds, PTL

\* pendingCmds holds calls that have not returned, under their own request IDs: the
\* deferred delete of sendCmd and the clear of close() leave nothing behind.
THEOREM NothingLeaks == Spec => []NoLeakedEntry
<1>1. IInv => NoLeakedEntry
  BY DEF IInv
<1>. QED BY <1>1, InvariantHolds, PTL

\* The receive goroutine never waits for a caller: the channel it sends a response on
\* is empty (handleResponse), also when the counter has wrapped around.
THEOREM ReaderGoesOn == Spec => []ReaderNeverBlocks
<1>1. IInv => ReaderNeverBlocks
  BY DEF IInv
<1>. QED BY <1>1, InvariantHolds, PTL

\* The search of sendCmd never gives an ID that a pending command has, also when the
\* counter has wrapped around.
THEOREM IDsInUseAreKept == Spec => NeverOverwritten
<1> DEFINE P == \A p \in Peer, i \in ID :
                  pending[p][i] # NoCall => pending'[p][i] \in {pending[p][i], NoCall}
<1>1. ASSUME IInv, [Next]_vars PROVE P
  <2>1. ASSUME NEW c \in Call, Register(c) PROVE P
    <3>1. at[c] \in Peer /\ NextID(at[c]) \in ID /\ pending[at[c]][NextID(at[c])] = NoCall
      BY <1>1, <2>1, NextIDIsFree, ExchangeAssumption DEF IInv, TypeOK, Register
    <3>2. pending' = [pending EXCEPT ![at[c]][NextID(at[c])] = c]
      BY <2>1 DEF Register
    <3>. QED BY <1>1, <3>1, <3>2 DEF IInv, TypeOK
  <2>2. ASSUME NEW c \in Call, Cleanup(c) PROVE P
    <3>1. at[c] \in Peer /\ call[c].id \in ID
      BY <1>1, ExchangeAssumption DEF IInv, TypeOK
    <3>. QED BY <1>1, <2>2, <3>1 DEF IInv, TypeOK, Cleanup
  <2>3. ASSUME NEW p \in Peer, ReadResponse(p) PROVE P
    BY <1>1, <2>3 DEF IInv, TypeOK, ReadResponse, PendingAfter
  <2>4. ASSUME NEW p \in Peer, ClearPending(p) PROVE P
    BY <1>1, <2>4 DEF IInv, TypeOK, ClearPending
  <2>5. \/ \E c \in Call : Register(c) \/ Cleanup(c)
        \/ \E p \in Peer : ReadResponse(p) \/ ClearPending(p)
        \/ UNCHANGED pending
    BY <1>1 DEF Next, SendCmd, CallStep, WriteCommand, WriteRefused, ReceiveResponse,
        WaitEndsOnClose, Expire, WriteTimesOut, WaitTimesOut, ReaderStep, ReadCommand,
        Deliver, ReadEOF, HandlerStep, Execute, WriteAnswer, AnswerLost, Close, Finished,
        vars
  <2>. QED BY <2>1, <2>2, <2>3, <2>4, <2>5
<1>2. IInv /\ [Next]_vars => [P]_vars
  BY <1>1
<1>. QED BY <1>2, InvariantHolds, PTL DEF Spec, NeverOverwritten

-----------------------------------------------------------------------------
(* The theorems while neither end gives an ID twice.                       *)

\* What connects frames, handlers and entries to their calls holds in every state.
THEOREM CorrelationHolds == ASSUME FewCalls PROVE Spec => [](IInv /\ UInv)
<1>1. Init => IInv /\ UInv
  BY InitEstablishes, InitEstablishesU
<1>2. IInv /\ UInv /\ [Next]_vars => (IInv /\ UInv)'
  BY NextKeeps, NextKeepsU
<1>. QED BY <1>1, <1>2, PTL DEF Spec

\* On an open connection a call that waits can still be answered, whatever other calls
\* time out or clean up meanwhile (the deferred delete goes by request ID).
THEOREM WaitersCanBeAnswered == ASSUME FewCalls PROVE Spec => []StillAnswerable
<1>1. IInv /\ UInv => StillAnswerable
  BY DEF UInv
<1>. QED BY <1>1, CorrelationHolds, PTL

-----------------------------------------------------------------------------
(* Refinement.                                                             *)

LEMMA InitRefines == Init => Remote!Init
  BY DEF Init, Remote!Init, PhaseOf, HandlingOf, OutcomeOf, Errors

\* SendCmd is Make, or Fail on a closed connection.
LEMMA SendCmdRefines ==
  ASSUME IInv, NEW c \in Call, SendCmd(c)
  PROVE  Remote!Next
<1> DEFINE phase == [d \in Call |-> PhaseOf(call[d].pc)]
           outcome == [d \in Call |-> OutcomeOf(result[d])]
<1>1. call[c].pc = "idle" /\ UNCHANGED handler
  BY DEF SendCmd
<1>2. CASE Closed(at[c])
  <2>1. /\ call' = [call EXCEPT ![c].pc = "returned"]
        /\ result' = [result EXCEPT ![c] = "closed"]
    BY <1>2 DEF SendCmd, GoTo
  <2>2. phase' = [phase EXCEPT ![c] = "returned"]
    BY <2>1 DEF IInv, TypeOK, PhaseOf
  <2>3. outcome' = [outcome EXCEPT ![c] = "error"]
    BY <2>1 DEF IInv, TypeOK, OutcomeOf, Errors
  <2>4. Remote!Fail(c)
    BY <1>1, <2>2, <2>3 DEF Remote!Fail, PhaseOf
  <2>. QED BY <2>4 DEF Remote!Next
<1>3. CASE ~Closed(at[c])
  <2>1. call' = [call EXCEPT ![c].pc = "register"] /\ UNCHANGED result
    BY <1>3 DEF SendCmd, GoTo
  <2>2. phase' = [phase EXCEPT ![c] = "called"]
    BY <2>1 DEF IInv, TypeOK, PhaseOf
  <2>3. \A d \in Call : back[d] = c => HandlingOf(handler[d].pc) = "running"
    <3> SUFFICES ASSUME NEW d \in Call, back[d] = c
                 PROVE  handler[d].pc = "run"
      BY DEF HandlingOf
    <3>1. c \in Nested
      BY ExchangeAssumption DEF Nested
    <3>2. PICK e \in Call : back[e] = c /\ handler[e].pc = "run"
      BY <3>1 DEF SendCmd, Called
    <3>. QED BY <3>2, ExchangeAssumption
  <2>4. Remote!Make(c)
    BY <1>1, <2>1, <2>2, <2>3 DEF Remote!Make, PhaseOf
  <2>. QED BY <2>4 DEF Remote!Next
<1>. QED BY <1>2, <1>3

\* The end of the wait is Respond with the call's own response, or Fail.
LEMMA ReturningRefines ==
  ASSUME IInv, UInv, NEW c \in Call, Returning(c)
  PROVE  Remote!Next
<1> DEFINE phase == [d \in Call |-> PhaseOf(call[d].pc)]
           outcome == [d \in Call |-> OutcomeOf(result[d])]
<1>1. /\ call[c].pc \in {"write", "wait"}
      /\ call' = [call EXCEPT ![c].pc = "cleanup"]
      /\ UNCHANGED handler
  BY WhatReturns DEF IInv
<1>2. phase' = [phase EXCEPT ![c] = "returned"] /\ phase[c] = "called"
  BY <1>1 DEF IInv, TypeOK, PhaseOf
<1>3. CASE \E e \in Errors : result' = [result EXCEPT ![c] = e]
  <2>1. outcome' = [outcome EXCEPT ![c] = "error"]
    BY <1>3 DEF IInv, TypeOK, OutcomeOf
  <2>2. Remote!Fail(c)
    BY <1>1, <1>2, <2>1 DEF Remote!Fail
  <2>. QED BY <2>2 DEF Remote!Next
<1>4. CASE resp[c] # NoCall /\ result' = [result EXCEPT ![c] = resp[c]]
  <2>1. resp[c] = c /\ HandlingOf(handler[c].pc) = "finished"
    BY <1>4 DEF UInv, OwnResponse, HandlingOf
  <2>2. outcome' = [outcome EXCEPT ![c] = c]
    BY <1>4, <2>1, ExchangeAssumption DEF IInv, TypeOK, OutcomeOf, Errors
  <2>3. Remote!Respond(c)
    BY <1>1, <1>2, <2>1, <2>2 DEF Remote!Respond
  <2>. QED BY <2>3 DEF Remote!Next
<1>. QED BY <1>3, <1>4, WhatReturns DEF IInv

\* ReadCommand is Handle: the command was not handled before.
LEMMA ReadCommandRefines ==
  ASSUME IInv, UInv, NEW p \in Peer, ReadCommand(p)
  PROVE  Remote!Next
<1> DEFINE c == wire[p][1].call
           handling == [d \in Call |-> HandlingOf(handler[d].pc)]
<1>1. /\ Head(wire[p]) = wire[p][1] /\ 1 \in 1 .. Len(wire[p])
      /\ c \in Call /\ wire[p][1].type = "command"
  BY FrameOfCall DEF IInv, ReadCommand, Readable
<1>2. /\ handler' = [handler EXCEPT ![c] = [pc |-> "run", id |-> wire[p][1].id]]
      /\ UNCHANGED <<call, result>>
  BY DEF ReadCommand
<1>3. call[c].pc # "idle" /\ handler[c].pc = "none"
  BY <1>1 DEF UInv, CommandFrames
<1> HIDE DEF c
<1>4. handling' = [handling EXCEPT ![c] = "running"]
  BY <1>2 DEF IInv, TypeOK, HandlingOf
<1>5. Remote!Handle(c)
  BY <1>1, <1>2, <1>3, <1>4 DEF Remote!Handle, PhaseOf, HandlingOf
<1>. QED BY <1>1, <1>5 DEF Remote!Next

\* Execute is Finish: the command sent back has returned.
LEMMA ExecuteRefines ==
  ASSUME IInv, NEW c \in Call, Execute(c)
  PROVE  Remote!Next
<1> DEFINE handling == [d \in Call |-> HandlingOf(handler[d].pc)]
<1>1. handling' = [handling EXCEPT ![c] = "finished"]
  BY DEF IInv, TypeOK, Execute, HandlingOf
<1>2. back[c] # NoCall => back[c] \in Call /\ PhaseOf(call[back[c]].pc) = "returned"
  BY ExchangeAssumption DEF Execute, PhaseOf
<1>3. Remote!Finish(c)
  BY <1>1, <1>2 DEF Execute, Remote!Finish, HandlingOf
<1>. QED BY <1>3 DEF Remote!Next

\* Nothing else shows.
LEMMA StepRefines == IInv /\ UInv /\ [Next]_vars => [Remote!Next]_(Remote!callVars)
<1> SUFFICES ASSUME IInv, UInv, [Next]_vars
             PROVE  Remote!Next \/ UNCHANGED Remote!callVars
  OBVIOUS
<1>1. ASSUME NEW c \in Call, Register(c) \/ WriteCommand(c) \/ Cleanup(c)
      PROVE  UNCHANGED Remote!callVars
  <2>1. \A d \in Call : PhaseOf(call'[d].pc) = PhaseOf(call[d].pc)
    <3>1. CASE Register(c)
      BY <3>1 DEF IInv, TypeOK, Register, PhaseOf
    <3>2. CASE WriteCommand(c)
      BY <3>2 DEF IInv, TypeOK, WriteCommand, GoTo, PhaseOf
    <3>3. CASE Cleanup(c)
      BY <3>3 DEF IInv, TypeOK, Cleanup, GoTo, PhaseOf
    <3>. QED BY <1>1, <3>1, <3>2, <3>3
  <2>2. UNCHANGED <<handler, result>>
    BY <1>1 DEF Register, WriteCommand, Cleanup
  <2>. QED BY <2>1, <2>2 DEF Remote!callVars
<1>2. ASSUME NEW c \in Call, WriteAnswer(c) \/ AnswerLost(c)
      PROVE  UNCHANGED Remote!callVars
  <2>1. \A d \in Call : HandlingOf(handler'[d].pc) = HandlingOf(handler[d].pc)
    BY <1>2 DEF IInv, TypeOK, WriteAnswer, AnswerLost, HandlingOf
  <2>2. UNCHANGED <<call, result>>
    BY <1>2 DEF WriteAnswer, AnswerLost
  <2>. QED BY <2>1, <2>2 DEF Remote!callVars
<1>3. CASE UNCHANGED <<call, handler, result>>
  BY <1>3 DEF Remote!callVars
<1>4. \/ \E c \in Call : \/ SendCmd(c) \/ Returning(c) \/ Execute(c)
                         \/ Register(c) \/ WriteCommand(c) \/ Cleanup(c)
                         \/ WriteAnswer(c) \/ AnswerLost(c)
      \/ \E p \in Peer : ReadCommand(p)
      \/ UNCHANGED <<call, handler, result>>
  BY DEF Next, CallStep, Expire, Returning, HandlerStep, ReaderStep, ReadResponse,
      Deliver, ReadEOF, Close, ClearPending, Finished, vars
<1>. QED BY <1>1, <1>2, <1>3, <1>4, SendCmdRefines, ReturningRefines,
    ReadCommandRefines, ExecuteRefines

\* sendCmd, the receive loop and the handlers implement the remote call, for any number
\* of calls in both directions, nested or not: a call returns once, with the response to
\* its own command after that was handled, or with an error.
THEOREM Refinement == ASSUME FewCalls PROVE Spec => ImplementsRemoteCall
<1>1. Spec => Remote!Spec
  BY InitRefines, StepRefines, CorrelationHolds, PTL DEF Spec, Remote!Spec
<1>. QED BY <1>1 DEF ImplementsRemoteCall

====
