------------------------ MODULE MC_CommandExchange --------------------------
(* Instances of CommandExchange for TLC: calls between A and B.            *)
EXTENDS CommandExchange, TLC

CONSTANTS A, B, a1, a2, a3, b1

\* The handler of a1 sends b1 back, where b1 is one of the calls.
AtAll == (a1 :> A) @@ (a2 :> A) @@ (a3 :> A) @@ (b1 :> B)

MCat == [c \in Call |-> AtAll[c]]
MCback == [c \in Call |-> IF c = a1 /\ b1 \in Call THEN b1 ELSE NoCall]

=============================================================================
