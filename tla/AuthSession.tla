----------------------------- MODULE AuthSession ----------------------------
(***************************************************************************)
(* An agent and its server (agent/internal/agent/agent.go, commands.go;    *)
(* server/cmd/app/main.go): NewAgent's handshake, the ping loop that       *)
(* authenticates again, the reconcile loop that asks for the task list,    *)
(* and the server's command handlers, which remember on each connection    *)
(* whether it is authenticated.  The connection is replaced at any moment  *)
(* (ClientLink); a command is answered at most once, with its own response *)
(* (CommandExchange).  Other programs connect to the server too, send any  *)
(* command in any order, and have the right token or not.                  *)
(*                                                                         *)
(* The few definitions that no action uses, each before the definition it  *)
(* resembles, are defects that PROJECT.json substitutes to show that a     *)
(* property would notice them.                                             *)
(***************************************************************************)
EXTENDS Naturals

CONSTANTS
    Guest,      \* the connections of other programs
    MaxConn,    \* bound on the connections the agent makes
    MaxTimeouts \* bound on the commands that time out

\* The goroutine of NewAgent, which becomes the reconcile loop, and the ping loop.
Goroutine == {"main", "pinger"}
Client == Goroutine \cup Guest

ASSUME SessionAssumption ==
    /\ MaxConn \in Nat \ {0}
    /\ MaxTimeouts \in Nat
    /\ Guest \cap (Nat \cup Goroutine) = {}

VARIABLES
    validToken,     \* whether the agent is configured with the server's token
    conn,           \* the agent's current connection, 0 while it has none
    made,           \* how many connections were made
    authenticated,  \* server: connections with the custom data "authenticated"
    step,           \* the command each goroutine of the agent sends next
    request,        \* the command each client waits for, or had answered last
    timeouts,       \* commands that may still time out
    presented       \* connections on which the right token was presented (history)

marks == <<authenticated, presented>>
vars == <<validToken, conn, made, marks, step, request, timeouts>>

Conn == 1 .. MaxConn
NoRequest == [conn |-> 0, cmd |-> "none", token |-> FALSE, answer |-> "none"]

\* NewAgent has connected (ConnectTo succeeded).
Init ==
    /\ validToken \in BOOLEAN
    /\ conn = 1
    /\ made = 1
    /\ authenticated = {}
    /\ presented = {}
    /\ step = [g \in Goroutine |-> IF g = "main" THEN "bootPing" ELSE "off"]
    /\ request = [x \in Client |-> NoRequest]
    /\ timeouts = MaxTimeouts

-----------------------------------------------------------------------------
(* The server: protocolcommandstore.Execute of the registered handlers.    *)

Token == "TokenAuth"
Commands == {"Ping", Token, "CheckAuth", "GetTasks"}

\* handleTokenAuth: only the right token marks the connection.
Accepts(r) == r.cmd = Token /\ r.token

\* handlePing, handleTokenAuth, handleCheckAuth, handleGetTasks.
AnswerUnchecked(r) ==
    CASE r.cmd \in {"Ping", "GetTasks"} -> "ok"
      [] r.cmd = Token -> IF Accepts(r) THEN "ok" ELSE "invalidToken"
      [] OTHER -> IF r.conn \in authenticated THEN "ok" ELSE "notAuthenticated"

Answer(r) ==
    CASE r.cmd = "Ping" -> "ok"
      [] r.cmd = Token -> IF Accepts(r) THEN "ok" ELSE "invalidToken"
      [] OTHER -> IF r.conn \in authenticated THEN "ok" ELSE "notAuthenticated"

\* What handling a command leaves on its connection, and what it tells of its sender.
Marks(r) ==
    /\ authenticated' = IF Accepts(r) THEN authenticated \cup {r.conn} ELSE authenticated
    /\ presented' = IF r.cmd = Token /\ r.token THEN presented \cup {r.conn} ELSE presented

Handle(x) ==
    /\ request[x].conn # 0
    /\ request[x].answer = "none"
    /\ request' = [request EXCEPT ![x].answer = Answer(request[x])]
    /\ Marks(request[x])
    /\ UNCHANGED <<validToken, conn, made, step, timeouts>>

-----------------------------------------------------------------------------
(* Other programs.                                                         *)

\* A program that has no command to wait for sends any command, in no order: it may ask
\* for the task list without having presented a token.
GuestSends(x) ==
    /\ request[x] = NoRequest \/ request[x].answer # "none"
    /\ \E cmd \in Commands, token \in BOOLEAN :
           /\ token => cmd = Token
           /\ request' = [request EXCEPT ![x] =
                  [conn |-> x, cmd |-> cmd, token |-> token, answer |-> "none"]]
    /\ UNCHANGED <<validToken, conn, made, marks, step, timeouts>>

-----------------------------------------------------------------------------
(* The agent.                                                              *)

Command(s) ==
    CASE s \in {"bootPing", "ping"} -> "Ping"
      [] s \in {"bootToken", "token"} -> Token
      [] s \in {"bootCheck", "check", "recheck"} -> "CheckAuth"
      [] OTHER -> "GetTasks"

\* SendCmd takes the current connection and sends.
Send(g) ==
    LET cmd == Command(step[g])
    IN  /\ step[g] \notin {"off", "bootList", "exited"}
        /\ request[g] = NoRequest
        /\ conn # 0
        /\ request' = [request EXCEPT ![g] =
               [conn |-> conn, cmd |-> cmd, token |-> cmd = Token /\ validToken,
                answer |-> "none"]]
        /\ UNCHANGED <<validToken, conn, made, marks, step, timeouts>>

\* What the goroutine does after the answer r, or after "error" from SendCmd:
\* NewAgent gives up on the first failure; the loops go on.
AfterCheckIgnoring(r) == "ping"
AfterCheck(r) == IF r = "notAuthenticated" THEN "token" ELSE "ping"

After(s, r) ==
    CASE s = "bootPing" -> IF r = "ok" THEN "bootToken" ELSE "exited"
      [] s = "bootToken" -> IF r = "ok" THEN "bootCheck" ELSE "exited"
      [] s = "bootCheck" -> IF r = "ok" THEN "bootTasks" ELSE "exited"
      [] s = "bootTasks" -> IF r = "ok" THEN "bootList" ELSE "exited"
      [] s = "tasks" -> "tasks"
      [] s = "ping" -> IF r = "ok" THEN "check" ELSE "ping"
      [] s = "check" -> AfterCheck(r)
      [] s = "token" -> IF r = "ok" THEN "recheck" ELSE "ping"
      [] OTHER -> "ping"

\* The ping loop starts once NewAgent is authenticated, and ends with the process.
StartsPingerEarly(next) == next = "bootCheck"
StartsPinger(next) == next = "bootTasks"

Continue(g, r) ==
    LET next == After(step[g], r)
    IN  /\ step' = [h \in Goroutine |->
                      IF next = "exited" THEN "exited"
                      ELSE IF h = g THEN next
                      ELSE IF StartsPinger(next) THEN "ping"
                      ELSE step[h]]
        /\ request' = [x \in Client |->
                         IF x = g \/ (next = "exited" /\ x \in Goroutine) THEN NoRequest
                         ELSE request[x]]

Receive(g) ==
    /\ request[g].answer # "none"
    /\ Continue(g, request[g].answer)
    /\ UNCHANGED <<validToken, conn, made, marks, timeouts>>

\* ErrClientNotConnected, or ErrConnectionClosed while waiting.
SendFails(g) ==
    /\ step[g] \notin {"off", "bootList", "exited"}
    /\ \/ request[g] = NoRequest /\ conn = 0
       \/ request[g] # NoRequest /\ request[g].conn # conn
    /\ Continue(g, "error")
    /\ UNCHANGED <<validToken, conn, made, marks, timeouts>>

\* ErrCommandTimeout; the server may handle the command all the same.
TimesOut(g) ==
    /\ timeouts > 0
    /\ request[g] # NoRequest
    /\ timeouts' = timeouts - 1
    /\ Marks(request[g]) \/ UNCHANGED marks
    /\ Continue(g, "error")
    /\ UNCHANGED <<validToken, conn, made>>

\* The rest of the first reconcile, beside the ping loop: it fails when the
\* containers cannot be listed, and NewAgent with it; every other failure is logged.
FirstReconcile ==
    /\ step["main"] = "bootList"
    /\ \E next \in {"tasks", "exited"} :
           /\ step' = [h \in Goroutine |->
                         IF h = "main" \/ next = "exited" THEN next ELSE step[h]]
           /\ request' = [x \in Client |->
                            IF next = "exited" /\ x \in Goroutine THEN NoRequest
                            ELSE request[x]]
    /\ UNCHANGED <<validToken, conn, made, marks, timeouts>>

-----------------------------------------------------------------------------
(* The link (ClientLink).                                                  *)

Drop ==
    /\ conn # 0
    /\ conn' = 0
    /\ UNCHANGED <<validToken, made, marks, step, request, timeouts>>

\* A new connection starts with empty custom data on the server.
AuthenticatedOnAll(c) == IF authenticated = {} THEN {} ELSE authenticated \cup {c}
AuthenticatedOn(c) == authenticated

Reconnect ==
    /\ conn = 0
    /\ made < MaxConn
    /\ made' = made + 1
    /\ conn' = made + 1
    /\ authenticated' = AuthenticatedOn(made + 1)
    /\ UNCHANGED <<validToken, step, request, timeouts, presented>>

-----------------------------------------------------------------------------
AgentStep(g) == Send(g) \/ Receive(g) \/ SendFails(g)

\* NewAgent failed and the process ended.
Exited == step["main"] = "exited" /\ UNCHANGED vars

Next ==
    \/ \E g \in Goroutine : AgentStep(g) \/ TimesOut(g)
    \/ \E x \in Client : Handle(x)
    \/ \E x \in Guest : GuestSends(x)
    \/ FirstReconcile
    \/ Drop
    \/ Reconnect
    \/ Exited

Spec == Init /\ [][Next]_vars

\* Agent and server run and the link is restored; drops are bounded by MaxConn.
FairSpec ==
    /\ Spec
    /\ \A g \in Goroutine : WF_vars(AgentStep(g)) /\ WF_vars(Handle(g))
    /\ WF_vars(FirstReconcile)
    /\ WF_vars(Reconnect)

-----------------------------------------------------------------------------
(* Properties.                                                             *)

\* Type invariant of the agent's goroutines, the requests and the server's custom data.
\* The ping loop runs exactly from the end of the handshake to that of the process.
TypeOK ==
    /\ validToken \in BOOLEAN
    /\ conn \in Conn \cup {0}
    /\ made \in Conn
    /\ authenticated \subseteq 1 .. made \cup Guest
    /\ presented \subseteq 1 .. made \cup Guest
    /\ step \in [Goroutine -> {"off", "exited", "bootPing", "bootToken", "bootCheck",
                               "bootTasks", "bootList", "tasks", "ping", "check", "token",
                               "recheck"}]
    /\ request \in [Client -> [conn : Conn \cup Guest \cup {0}, cmd : Commands \cup {"none"},
                               token : BOOLEAN,
                               answer : {"none", "ok", "invalidToken", "notAuthenticated"}]]
    /\ timeouts \in 0 .. MaxTimeouts
    /\ step["main"] \in {"bootPing", "bootToken", "bootCheck"} <=> step["pinger"] = "off"
    /\ step["main"] = "exited" <=> step["pinger"] = "exited"

\* The task list goes only over connections on which the right token was presented,
\* whoever asks, in whatever order and however often the agent reconnected: a program that
\* skips TokenAuth, or sent another token, is refused (checkAuthenticated in
\* handleGetTasks).
ServedOnlyWithToken ==
    \A x \in Client :
        request[x].cmd = "GetTasks" /\ request[x].answer = "ok" =>
            request[x].conn \in presented

\* A connection is authenticated only by a TokenAuth of its own: a reconnection
\* starts unauthenticated, and only commands sent on it can change that.
NotInherited ==
    [][\A c \in Conn \cup Guest :
         c \in authenticated' \ authenticated =>
             \E x \in Client : request[x].conn = c /\ request[x].cmd = Token]_vars

\* An agent that started keeps recovering: after the last loss of the connection
\* its ping loop authenticates the current one and keeps it so.  (MaxConn may end
\* the run without a connection.)
Recovers ==
    step["main"] = "tasks" ~>
        \/ [](conn \in authenticated)
        \/ [](conn = 0)

=============================================================================
