-------------------------- MODULE MCPluginManager --------------------------
(* The plugin manager for TLC: plugins differ only in their dependencies,  *)
(* over which Init ranges, so names may be permuted.                       *)
EXTENDS PluginManager

Symmetry == Permutations(Names)
=============================================================================
