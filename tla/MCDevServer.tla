---------------------------- MODULE MCDevServer ----------------------------
(* DevServer and its refinement on small instances, for TLC.               *)
EXTENDS DevServerPreview, TLC

CONSTANTS h1, h2, p1, p2

ChildSymmetry == Permutations(Handlers) \cup Permutations(Pids)
=============================================================================
