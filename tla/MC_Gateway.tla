----------------------------- MODULE MC_Gateway -----------------------------
(* An instance of Gateway for TLC.                                         *)
EXTENDS Gateway, TLC

CONSTANTS p, q

A_Service(type, strategy, atP, atQ) ==
    [type |-> type, strategy |-> strategy, endpoints |-> (p :> atP @@ q :> atQ)]

\* The types and strategies the code knows, with the same number of endpoints on both ports,
\* with different ones, or with none on one of them; a type that it does not know; and the
\* name that the README gives to a strategy.
Configured ==
    {A_Service("http", "round_robin", 2, 3),
     A_Service("tcp", "round_robin", 2, 0),
     A_Service("tcp", "random", 2, 1),
     A_Service("http", "random", 0, 2),
     A_Service("tcp", "round-robin", 1, 1),
     A_Service("http", "round-robin", 1, 1),
     A_Service("tcp_tunnel", "round_robin", 2, 2)}

=============================================================================
