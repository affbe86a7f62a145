-------------------------- MODULE DevServerPreview --------------------------
(* The refinement: the development server implements Preview.              *)
EXTENDS DevServer

P == INSTANCE Preview WITH
       Units <- GoFiles,
       Processes <- Pids,
       serving <- alive,
       program <- [f \in GoFiles |-> binary[f]]

\* At most one child serves, server.exe is replaced only while none runs,
\* and no build takes the application back to older Go code, whichever
\* handlers race and whatever fails (server.go:106-139).
ImplementsPreview == P!Spec
=============================================================================
