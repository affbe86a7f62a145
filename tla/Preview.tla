------------------------------- MODULE Preview -------------------------------
(***************************************************************************)
(* What the supervisor of internal/dev/server.go promises, without locks,  *)
(* handlers or commands: at most one process serves the application, the   *)
(* program on disk is replaced only while no process runs it, and its Go   *)
(* code never goes back to an older version.  DevServerPreview shows that  *)
(* DevServer implements it.                                                *)
(***************************************************************************)
EXTENDS Naturals

CONSTANTS
  Units,       \* hand-written source files
  Processes    \* identities of processes

VARIABLES
  serving,     \* the processes that serve the application
  program      \* program[u]: version of u in the program on disk

view == <<serving, program>>

Init ==
  /\ serving = {}
  /\ program = [u \in Units |-> 0]

Install ==
  /\ serving = {}
  /\ program' \in [Units -> Nat]
  /\ \A u \in Units : program'[u] >= program[u]
  /\ UNCHANGED serving

Launch(p) ==
  /\ serving = {}
  /\ serving' = {p}
  /\ UNCHANGED program

\* A process is stopped, or ends by itself.
Halt ==
  /\ serving' = {}
  /\ UNCHANGED program

Next == Install \/ (\E p \in Processes : Launch(p)) \/ Halt

Spec == Init /\ [][Next]_view
=============================================================================
