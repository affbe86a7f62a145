----------------------------- MODULE MCAppServer -----------------------------
(* AppServer on a small instance, for TLC: two router hooks of one         *)
(* priority and one of a higher.                                           *)
EXTENDS AppServer, TLC

CONSTANTS p1, p2, p3

MCPriority == p1 :> 10 @@ p2 :> 10 @@ p3 :> 20
ServerSymmetry == Permutations(Requests) \cup Permutations({p1, p2})
=============================================================================
