----------------------------- MODULE RemoteCall -----------------------------
(***************************************************************************)
(* What SendCmd promises its callers, without frames, request IDs,         *)
(* channels and goroutines: a command is handled at most once, by a        *)
(* handler that may call back; its call returns once, with the response to *)
(* that very command after it was handled, or with an error at any time,   *)
(* whether it was handled or not.  CommandExchange implements it.          *)
(***************************************************************************)
CONSTANTS
    Call,   \* calls of SendCmd
    NoCall, \* no call
    back    \* back[c]: the call that the handler of c makes, or NoCall

VARIABLES
    phase,    \* the call: "idle", "called", "returned"
    handling, \* its command at the other end: "none", "running", "finished"
    outcome   \* what it returned: the command that was answered, "error", or "none"

callVars == <<phase, handling, outcome>>

Init ==
    /\ phase = [c \in Call |-> "idle"]
    /\ handling = [c \in Call |-> "none"]
    /\ outcome = [c \in Call |-> "none"]

\* A call that a handler makes is made while that handler runs.
Make(c) ==
    /\ phase[c] = "idle"
    /\ \A d \in Call : back[d] = c => handling[d] = "running"
    /\ phase' = [phase EXCEPT ![c] = "called"]
    /\ UNCHANGED <<handling, outcome>>

Handle(c) ==
    /\ phase[c] # "idle"
    /\ handling[c] = "none"
    /\ handling' = [handling EXCEPT ![c] = "running"]
    /\ UNCHANGED <<phase, outcome>>

Finish(c) ==
    /\ handling[c] = "running"
    /\ back[c] # NoCall => phase[back[c]] = "returned"
    /\ handling' = [handling EXCEPT ![c] = "finished"]
    /\ UNCHANGED <<phase, outcome>>

Respond(c) ==
    /\ phase[c] = "called"
    /\ handling[c] = "finished"
    /\ phase' = [phase EXCEPT ![c] = "returned"]
    /\ outcome' = [outcome EXCEPT ![c] = c]
    /\ UNCHANGED handling

Fail(c) ==
    /\ phase[c] # "returned"
    /\ phase' = [phase EXCEPT ![c] = "returned"]
    /\ outcome' = [outcome EXCEPT ![c] = "error"]
    /\ UNCHANGED handling

Next == \E c \in Call : Make(c) \/ Handle(c) \/ Finish(c) \/ Respond(c) \/ Fail(c)

Spec == Init /\ [][Next]_callVars

=============================================================================
