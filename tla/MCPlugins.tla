------------------------------ MODULE MCPlugins ------------------------------
(* Plugins on a small instance, for TLC: two plugins of equal priority and *)
(* one of a higher.                                                        *)
EXTENDS Plugins, TLC, SequencesExt

CONSTANTS f1, f2, f3

MCPriority == f1 :> 10 @@ f2 :> 10 @@ f3 :> 50
MCConfigs  == BoundedSeq(Files, 2)
PluginSymmetry == Permutations({f1, f2})
=============================================================================
