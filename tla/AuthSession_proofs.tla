-------------------------- MODULE AuthSession_proofs ------------------------
(***************************************************************************)
(* Proofs about AuthSession, for any number of connections, time-outs and  *)
(* other programs.                                                         *)
(***************************************************************************)
EXTENDS AuthSession, TLAPS

-----------------------------------------------------------------------------
(* The inductive invariant.                                                *)

\* Commands are sent on connections that were made.
SentOnMade ==
    /\ conn \in 0 .. made
    /\ \A g \in Goroutine : request[g] = NoRequest \/ request[g].conn \in 1 .. made
    /\ \A x \in Guest : request[x] = NoRequest \/ request[x].conn = x

\* The right token was presented on every connection that is marked.
MarksPresented == authenticated \subseteq presented

\* A goroutine that waits for an answer is at a command of its loop.
Idle == {"off", "bootList", "exited"}
OnlySendersWait == \A g \in Goroutine : request[g] # NoRequest => step[g] \notin Idle

IInv == TypeOK /\ SentOnMade /\ OnlySendersWait /\ MarksPresented /\ ServedOnlyWithToken

Step == {"off", "exited", "bootPing", "bootToken", "bootCheck", "bootTasks", "bootList",
         "tasks", "ping", "check", "token", "recheck"}
Request == [conn : Conn \cup Guest \cup {0}, cmd : Commands \cup {"none"}, token : BOOLEAN,
            answer : {"none", "ok", "invalidToken", "notAuthenticated"}]
Handshake == {"bootPing", "bootToken", "bootCheck"}
PingerOK(s) ==
    /\ s["main"] \in Handshake <=> s["pinger"] = "off"
    /\ s["main"] = "exited" <=> s["pinger"] = "exited"

-----------------------------------------------------------------------------
(* The operators of the model.                                             *)

LEMMA NoRequestType ==
  /\ NoRequest \in Request
  /\ NoRequest.conn = 0
  /\ NoRequest.cmd = "none"
  BY DEF NoRequest, Request

LEMMA TypeUnfolded ==
  TypeOK <=> /\ validToken \in BOOLEAN
             /\ conn \in Conn \cup {0}
             /\ made \in Conn
             /\ authenticated \subseteq 1 .. made \cup Guest
             /\ presented \subseteq 1 .. made \cup Guest
             /\ step \in [Goroutine -> Step]
             /\ request \in [Client -> Request]
             /\ timeouts \in 0 .. MaxTimeouts
             /\ PingerOK(step)
  BY DEF TypeOK, Step, Request, PingerOK, Handshake

LEMMA AfterType == ASSUME NEW s \in Step, NEW r PROVE After(s, r) \in Step
  BY DEF Step, After, AfterCheck

\* The handshake goes on or ends, and a goroutine that is past it stays past it: only the
\* goroutine of NewAgent gives up.
LEMMA AfterHandshake ==
  ASSUME NEW r, NEW s \in Step, s \notin {"off", "exited"}
  PROVE  /\ s \in Handshake => After(s, r) \in Handshake \cup {"bootTasks", "exited"}
         /\ s = "bootTasks" => After(s, r) \in {"bootList", "exited"}
         /\ s = "tasks" => After(s, r) = "tasks"
         /\ s \in {"ping", "check", "token", "recheck", "bootList"} =>
                After(s, r) \in {"ping", "check", "token", "recheck"}
  BY DEF Step, Handshake, After, AfterCheck

LEMMA CommandType == ASSUME NEW s PROVE Command(s) \in Commands
  BY DEF Command, Commands, Token

LEMMA AnswerType ==
  ASSUME NEW r
  PROVE  /\ Answer(r) \in {"ok", "invalidToken", "notAuthenticated"}
         /\ r.cmd = "GetTasks" /\ Answer(r) = "ok" => r.conn \in authenticated
  BY DEF Answer, Token

\* What a handled command, in Handle and in TimesOut, does to the marks.
LEMMA MarksAdd ==
  ASSUME NEW r, Marks(r), MarksPresented
  PROVE  /\ authenticated' \subseteq authenticated \cup {r.conn}
         /\ authenticated' # authenticated => r.cmd = Token
         /\ presented \subseteq presented'
         /\ presented' \subseteq presented \cup {r.conn}
         /\ presented' # presented => r.cmd = Token
         /\ MarksPresented'
  BY DEF Marks, Accepts, MarksPresented

\* A command that is waited for was sent on a connection.
LEMMA SentOn ==
  ASSUME IInv, NEW x \in Client, request[x] # NoRequest
  PROVE  request[x].conn \in 1 .. made \cup Guest
<1>1. CASE x \in Goroutine
  BY <1>1 DEF IInv, SentOnMade
<1>2. CASE x \in Guest
  BY <1>2 DEF IInv, SentOnMade
<1>. QED BY <1>1, <1>2 DEF Client

\* The answers that were given stay justified when more tokens are presented.
LEMMA ServedKept ==
  ASSUME IInv, presented \subseteq presented',
         \A x \in Client : \/ request'[x] \in {request[x], NoRequest}
                           \/ request'[x].answer # "ok"
  PROVE  ServedOnlyWithToken'
  BY NoRequestType DEF IInv, ServedOnlyWithToken

-----------------------------------------------------------------------------
(* Every action keeps the invariant.                                       *)

\* The server marks the connection if the token is right, and answers.
LEMMA HandleKeeps ==
  ASSUME IInv, NEW x \in Client, Handle(x)
  PROVE  IInv'
<1> DEFINE r == request[x]
<1>1. r.conn \in 1 .. made \cup Guest
  <2>1. r # NoRequest
    BY NoRequestType DEF Handle
  <2>. QED BY <2>1, SentOn
<1>2. /\ Marks(r)
      /\ request' = [request EXCEPT ![x].answer = Answer(r)]
      /\ UNCHANGED <<validToken, conn, made, step, timeouts>>
  BY DEF Handle
<1>3. /\ authenticated' \subseteq authenticated \cup {r.conn}
      /\ presented \subseteq presented'
      /\ presented' \subseteq presented \cup {r.conn}
      /\ MarksPresented'
  BY <1>2, MarksAdd DEF IInv
<1>4. request \in [Client -> Request] /\ request' \in [Client -> Request]
  BY <1>2, AnswerType, TypeUnfolded DEF IInv, Request
<1>5. TypeOK'
  BY <1>1, <1>2, <1>3, <1>4, TypeUnfolded DEF IInv, TypeOK, Request
<1>6. SentOnMade'
  <2>1. r # NoRequest
    BY NoRequestType DEF Handle
  <2>2. \A y \in Client : request'[y].conn = request[y].conn
    BY <1>2, <1>4 DEF Request
  <2>3. \A y \in Client : request'[y] # request[y] => y = x
    BY <1>2, <1>4
  <2>. QED BY <1>2, <2>1, <2>2, <2>3 DEF IInv, SentOnMade, Client
<1>7. ServedOnlyWithToken'
  <2> SUFFICES ASSUME NEW y \in Client,
                      request'[y].cmd = "GetTasks", request'[y].answer = "ok"
               PROVE  request'[y].conn \in presented'
    BY DEF ServedOnlyWithToken
  <2>1. CASE y = x
    <3>1. r.cmd = "GetTasks" /\ Answer(r) = "ok" /\ request'[y].conn = r.conn
      BY <1>2, <1>4, <2>1 DEF Request
    <3>. QED BY <1>3, <3>1, AnswerType DEF IInv, MarksPresented
  <2>2. CASE y # x
    BY <1>2, <1>3, <1>4, <2>2 DEF IInv, ServedOnlyWithToken
  <2>. QED BY <2>1, <2>2
<1>8. OnlySendersWait'
  <2>1. r # NoRequest
    BY NoRequestType DEF Handle
  <2>. QED BY <1>2, <1>4, <2>1 DEF IInv, OnlySendersWait
<1>. QED BY <1>3, <1>5, <1>6, <1>7, <1>8 DEF IInv

\* A command that was just sent has no answer.
LEMMA SendKeeps ==
  ASSUME IInv, NEW g \in Goroutine, Send(g)
  PROVE  IInv'
<1> DEFINE r == [conn |-> conn, cmd |-> Command(step[g]),
                 token |-> Command(step[g]) = Token /\ validToken, answer |-> "none"]
<1>1. /\ conn # 0
      /\ request' = [request EXCEPT ![g] = r]
      /\ UNCHANGED <<validToken, conn, made, authenticated, presented, step, timeouts>>
  BY DEF Send, marks
<1>2. r \in Request
  <2>1. Command(step[g]) \in Commands
    BY CommandType
  <2>2. conn \in Conn \cup {0} /\ validToken \in BOOLEAN
    BY TypeUnfolded DEF IInv
  <2>. QED BY <2>1, <2>2 DEF Request
<1>3. g \in Client /\ request \in [Client -> Request]
  BY TypeUnfolded DEF IInv, Client
<1>4. TypeOK'
  BY <1>1, <1>2, <1>3, TypeUnfolded DEF IInv, TypeOK, Request
<1>5. SentOnMade'
  <2>1. r.conn \in 1 .. made
    BY <1>1, TypeUnfolded DEF IInv, SentOnMade, Conn
  <2>2. g \notin Guest
    BY SessionAssumption
  <2>. QED BY <1>1, <1>3, <2>1, <2>2 DEF IInv, SentOnMade, Client
<1>6. ServedOnlyWithToken'
  <2>1. \A x \in Client : request'[x] = request[x] \/ request'[x].answer # "ok"
    BY <1>1, <1>3
  <2>. QED BY <1>1, <2>1, ServedKept
<1>7. OnlySendersWait'
  BY <1>1, <1>3 DEF Send, IInv, OnlySendersWait, Idle, Client
<1>. QED BY <1>1, <1>4, <1>5, <1>6, <1>7 DEF IInv, MarksPresented

LEMMA GuestSendsKeeps ==
  ASSUME IInv, NEW x \in Guest, GuestSends(x)
  PROVE  IInv'
<1>1. PICK cmd \in Commands, token \in BOOLEAN :
        request' = [request EXCEPT ![x] =
            [conn |-> x, cmd |-> cmd, token |-> token, answer |-> "none"]]
  BY DEF GuestSends
<1>2. UNCHANGED <<validToken, conn, made, authenticated, presented, step, timeouts>>
  BY DEF GuestSends, marks
<1>3. x \in Client /\ request \in [Client -> Request]
  BY TypeUnfolded DEF IInv, Client
<1>4. TypeOK'
  BY <1>1, <1>2, <1>3, TypeUnfolded DEF IInv, TypeOK, Request
<1>5. SentOnMade'
  <2>1. x \notin Goroutine
    BY SessionAssumption
  <2>. QED BY <1>1, <1>2, <1>3, <2>1 DEF IInv, SentOnMade, Client
<1>6. ServedOnlyWithToken'
  <2>1. \A y \in Client : request'[y] = request[y] \/ request'[y].answer # "ok"
    BY <1>1, <1>3
  <2>. QED BY <1>2, <2>1, ServedKept
<1>7. OnlySendersWait'
  <2>1. x \notin Goroutine
    BY SessionAssumption
  <2>. QED BY <1>1, <1>2, <1>3, <2>1 DEF IInv, OnlySendersWait, Client
<1>. QED BY <1>2, <1>4, <1>5, <1>6, <1>7 DEF IInv, MarksPresented

\* What Continue, in Receive, SendFails and TimesOut, does to the agent.
LEMMA ContinueKeeps ==
  ASSUME IInv, NEW g \in Goroutine, NEW r, Continue(g, r),
         step[g] \notin Idle
  PROVE  /\ step' \in [Goroutine -> Step]
         /\ PingerOK(step')
         /\ request' \in [Client -> Request]
         /\ \A x \in Client : request'[x] \in {request[x], NoRequest}
         /\ OnlySendersWait'
<1> DEFINE next == After(step[g], r)
<1>1. step \in [Goroutine -> Step] /\ PingerOK(step) /\ request \in [Client -> Request]
  BY TypeUnfolded DEF IInv
<1>2. step' = [h \in Goroutine |->
                 IF next = "exited" THEN "exited"
                 ELSE IF h = g THEN next
                 ELSE IF next = "bootTasks" THEN "ping" ELSE step[h]]
  BY DEF Continue, StartsPinger
<1>3. request' = [x \in Client |->
                    IF x = g \/ (next = "exited" /\ x \in Goroutine) THEN NoRequest
                    ELSE request[x]]
  BY DEF Continue
<1>4. next \in Step
  BY <1>1, AfterType
<1>5. step' \in [Goroutine -> Step]
  BY <1>1, <1>2, <1>4 DEF Step
<1>6. /\ request' \in [Client -> Request]
      /\ \A x \in Client : request'[x] \in {request[x], NoRequest}
  BY <1>1, <1>3, NoRequestType
<1>7. PingerOK(step')
  <2>1. "main" \in Goroutine /\ "pinger" \in Goroutine
    BY DEF Goroutine
  <2>2. CASE next = "exited"
    BY <1>2, <2>1, <2>2 DEF PingerOK, Handshake
  <2>3. CASE next # "exited" /\ g = "main"
    <3>1. step'["main"] = next
      BY <1>2, <2>1, <2>3
    <3>2. step'["pinger"] = IF next = "bootTasks" THEN "ping" ELSE step["pinger"]
      BY <1>2, <2>1, <2>3
    <3>. QED BY <1>1, <2>3, <3>1, <3>2, AfterHandshake DEF PingerOK, Handshake, Step, Idle
  <2>4. CASE next # "exited" /\ g = "pinger"
    BY <1>1, <1>2, <2>1, <2>4, AfterHandshake DEF PingerOK, Handshake, Step, Idle
  <2>. QED BY <2>2, <2>3, <2>4 DEF Goroutine
<1>8. ASSUME NEW h \in Goroutine, request'[h] # NoRequest PROVE step'[h] \notin Idle
  <2>1. h # g /\ next # "exited" /\ request[h] # NoRequest
    BY <1>3, <1>8 DEF Client
  <2>. QED BY <1>2, <2>1 DEF IInv, OnlySendersWait, Idle
<1>. QED BY <1>5, <1>6, <1>7, <1>8 DEF OnlySendersWait

\* A goroutine that has sent a command, or is about to, is in the middle of its loop.
LEMMA ReceiveKeeps ==
  ASSUME IInv, NEW g \in Goroutine, Receive(g) \/ SendFails(g)
  PROVE  IInv'
<1>1. step[g] \notin Idle
  <2>1. CASE Receive(g)
    <3>1. NoRequest.answer = "none"
      BY DEF NoRequest
    <3>. QED BY <2>1, <3>1 DEF Receive, IInv, OnlySendersWait
  <2>2. CASE SendFails(g)
    BY <2>2 DEF SendFails, Idle
  <2>. QED BY <2>1, <2>2
<1>2. PICK r \in {"error", request[g].answer} : Continue(g, r)
  BY DEF Receive, SendFails
<1>3. UNCHANGED <<validToken, conn, made, authenticated, presented, timeouts>>
  BY DEF Receive, SendFails, marks
<1>4. TypeOK'
  BY <1>1, <1>2, <1>3, ContinueKeeps, TypeUnfolded DEF IInv, TypeOK, Step, Request, PingerOK,
     Handshake
<1>5. SentOnMade'
  BY <1>1, <1>2, <1>3, ContinueKeeps DEF IInv, SentOnMade, Client
<1>6. ServedOnlyWithToken'
  BY <1>1, <1>2, <1>3, ContinueKeeps, ServedKept
<1>7. OnlySendersWait'
  BY <1>1, <1>2, ContinueKeeps
<1>. QED BY <1>3, <1>4, <1>5, <1>6, <1>7 DEF IInv, MarksPresented

\* The server may handle a command that timed out.
LEMMA TimesOutKeeps ==
  ASSUME IInv, NEW g \in Goroutine, TimesOut(g)
  PROVE  IInv'
<1>1. /\ request[g] # NoRequest
      /\ Continue(g, "error")
      /\ Marks(request[g]) \/ UNCHANGED <<authenticated, presented>>
      /\ timeouts > 0 /\ timeouts' = timeouts - 1
      /\ UNCHANGED <<validToken, conn, made>>
  BY DEF TimesOut, marks
<1>2. step[g] \notin Idle
  BY <1>1 DEF IInv, OnlySendersWait
<1>3. request[g].conn \in 1 .. made \cup Guest
  BY <1>1, SentOn DEF Client
<1>4. /\ authenticated' \subseteq authenticated \cup {request[g].conn}
      /\ presented \subseteq presented'
      /\ presented' \subseteq presented \cup {request[g].conn}
      /\ MarksPresented'
  <2>1. CASE Marks(request[g])
    BY <2>1, MarksAdd DEF IInv
  <2>2. CASE UNCHANGED <<authenticated, presented>>
    BY <2>2 DEF IInv, MarksPresented
  <2>. QED BY <1>1, <2>1, <2>2
<1>5. TypeOK'
  <2>1. timeouts' \in 0 .. MaxTimeouts
    BY <1>1, SessionAssumption, TypeUnfolded DEF IInv
  <2>. QED BY <1>1, <1>2, <1>3, <1>4, <2>1, ContinueKeeps, TypeUnfolded
           DEF IInv, TypeOK, Step, Request, PingerOK, Handshake
<1>6. SentOnMade'
  BY <1>1, <1>2, ContinueKeeps DEF IInv, SentOnMade, Client
<1>7. ServedOnlyWithToken'
  BY <1>1, <1>2, <1>4, ContinueKeeps, ServedKept
<1>8. OnlySendersWait'
  BY <1>1, <1>2, ContinueKeeps
<1>. QED BY <1>4, <1>5, <1>6, <1>7, <1>8 DEF IInv

\* The reconcile loop starts beside the ping loop, or the process ends.
LEMMA FirstReconcileKeeps ==
  ASSUME IInv, FirstReconcile
  PROVE  IInv'
<1>1. PICK next \in {"tasks", "exited"} :
        /\ step' = [h \in Goroutine |->
                      IF h = "main" \/ next = "exited" THEN next ELSE step[h]]
        /\ request' = [x \in Client |->
                         IF next = "exited" /\ x \in Goroutine THEN NoRequest
                         ELSE request[x]]
  BY DEF FirstReconcile
<1>2. /\ step["main"] = "bootList"
      /\ UNCHANGED <<validToken, conn, made, authenticated, presented, timeouts>>
  BY DEF FirstReconcile, marks
<1>3. TypeOK'
  <2>1. step' \in [Goroutine -> Step] /\ PingerOK(step')
    BY <1>1, <1>2, TypeUnfolded DEF IInv, Step, PingerOK, Handshake, Goroutine
  <2>2. request' \in [Client -> Request]
    BY <1>1, NoRequestType, TypeUnfolded DEF IInv
  <2>. QED BY <1>2, <2>1, <2>2, TypeUnfolded
           DEF IInv, TypeOK, Step, Request, PingerOK, Handshake
<1>4. \A x \in Client : request'[x] \in {request[x], NoRequest}
  BY <1>1
<1>5. SentOnMade'
  BY <1>2, <1>4 DEF IInv, SentOnMade, Client
<1>6. ServedOnlyWithToken'
  BY <1>2, <1>4, ServedKept
<1>7. OnlySendersWait'
  BY <1>1, <1>2 DEF IInv, OnlySendersWait, Idle, Client
<1>. QED BY <1>2, <1>3, <1>5, <1>6, <1>7 DEF IInv, MarksPresented

LEMMA DropKeeps == ASSUME IInv, Drop PROVE IInv'
<1>1. TypeOK'
  BY DEF IInv, TypeOK, Drop, marks
<1>2. SentOnMade'
  BY TypeUnfolded DEF IInv, SentOnMade, Drop, Conn
<1>. QED BY <1>1, <1>2 DEF IInv, Drop, marks, MarksPresented, OnlySendersWait,
         ServedOnlyWithToken

LEMMA ReconnectKeeps == ASSUME IInv, Reconnect PROVE IInv'
<1>1. made' = made + 1 /\ made \in Nat /\ made' \in Conn /\ conn' = made'
  BY SessionAssumption, TypeUnfolded DEF IInv, Reconnect, Conn
<1>2. UNCHANGED <<validToken, authenticated, presented, step, request, timeouts>>
  BY DEF Reconnect, AuthenticatedOn
<1>3. TypeOK'
  BY <1>1, <1>2 DEF IInv, TypeOK
<1>4. SentOnMade'
  BY <1>1, <1>2 DEF IInv, SentOnMade
<1>. QED BY <1>2, <1>3, <1>4 DEF IInv, MarksPresented, OnlySendersWait, ServedOnlyWithToken

LEMMA InitEstablishes == Init => IInv
<1> SUFFICES ASSUME Init PROVE IInv
  OBVIOUS
<1>1. TypeOK
  BY SessionAssumption DEF Init, TypeOK, Conn, NoRequest, Goroutine
<1>. QED BY <1>1 DEF Init, IInv, SentOnMade, MarksPresented, OnlySendersWait,
         ServedOnlyWithToken, NoRequest, Client

LEMMA StepKeeps == IInv /\ [Next]_vars => IInv'
<1> SUFFICES ASSUME IInv, [Next]_vars PROVE IInv'
  OBVIOUS
<1>1. ASSUME NEW g \in Goroutine, AgentStep(g) PROVE IInv'
  BY <1>1, SendKeeps, ReceiveKeeps DEF AgentStep
<1>2. ASSUME NEW g \in Goroutine, TimesOut(g) PROVE IInv'
  BY <1>2, TimesOutKeeps
<1>3. ASSUME NEW x \in Client, Handle(x) PROVE IInv'
  BY <1>3, HandleKeeps
<1>4. ASSUME NEW x \in Guest, GuestSends(x) PROVE IInv'
  BY <1>4, GuestSendsKeeps
<1>5. CASE FirstReconcile
  BY <1>5, FirstReconcileKeeps
<1>6. CASE Drop
  BY <1>6, DropKeeps
<1>7. CASE Reconnect
  BY <1>7, ReconnectKeeps
<1>8. CASE UNCHANGED vars
  BY <1>8 DEF vars, marks, IInv, TypeOK, SentOnMade, MarksPresented, OnlySendersWait,
     ServedOnlyWithToken
<1>. QED BY <1>1, <1>2, <1>3, <1>4, <1>5, <1>6, <1>7, <1>8 DEF Next, Exited

-----------------------------------------------------------------------------
(* The theorems.                                                           *)

\* The invariant holds in every reachable state of the agent and its server.
THEOREM InvariantHolds == Spec => []IInv
<1>. QED BY InitEstablishes, StepKeeps, PTL DEF Spec

\* The agent's goroutines and the server's custom data keep their types, and the ping loop
\* runs exactly between the end of the handshake and that of the process (NewAgent).
THEOREM TypeCorrect == Spec => []TypeOK
<1>1. IInv => TypeOK
  BY DEF IInv
<1>. QED BY <1>1, InvariantHolds, PTL

\* Whoever asks, the task list goes only over connections on which the right token was
\* presented: programs that skip TokenAuth are refused (checkAuthenticated in
\* handleGetTasks).
THEOREM OnlyWithToken == Spec => []ServedOnlyWithToken
<1>1. IInv => ServedOnlyWithToken
  BY DEF IInv
<1>. QED BY <1>1, InvariantHolds, PTL

\* A connection is marked only by a TokenAuth that was sent on it: a new connection
\* inherits nothing (NewClientConnection's empty custom data).
THEOREM MarkedByOwnToken == Spec => NotInherited
<1> DEFINE P == \A c \in Conn \cup Guest :
                  c \in authenticated' \ authenticated =>
                      \E x \in Client : request[x].conn = c /\ request[x].cmd = Token
<1>1. ASSUME IInv, [Next]_vars PROVE P
  <2>1. ASSUME NEW x \in Client, Marks(request[x]) PROVE P
    BY <1>1, <2>1, MarksAdd DEF IInv
  <2>2. \/ \E x \in Client : Marks(request[x])
        \/ UNCHANGED authenticated
    BY <1>1 DEF Next, AgentStep, Send, Receive, SendFails, Handle, TimesOut, GuestSends,
       FirstReconcile, Drop, Reconnect, AuthenticatedOn, Exited, vars, marks, Client
  <2>. QED BY <2>1, <2>2
<1>2. IInv /\ [Next]_vars => [P]_vars
  BY <1>1
<1>. QED BY <1>2, InvariantHolds, PTL DEF Spec, NotInherited

=============================================================================
