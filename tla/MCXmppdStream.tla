--------------------------- MODULE MCXmppdStream ---------------------------
(* XmppdStream for TLC: model values, and sessions that are interchangeable. *)
EXTENDS XmppdStream, TLC

Symmetry == Permutations(Sessions) \cup Permutations(Users) \cup Permutations(Resources)
=============================================================================
