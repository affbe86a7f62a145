----------------------------- MODULE MCScaffold -----------------------------
(* Scaffold on a small instance, for TLC: two processes of one template,   *)
(* one of which is told --skip-templ.                                      *)
EXTENDS Scaffold, TLC

CONSTANTS c1, c2, page, config

MCTemplate == c1 :> <<page, config>> @@ c2 :> <<page, config>>
MCSkips    == c1 :> {} @@ c2 :> {"templ"}
=============================================================================
