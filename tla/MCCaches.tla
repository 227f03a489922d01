------------------------------ MODULE MCCaches ------------------------------
(* Model values for module Caches: two sources, two references, two          *)
(* revisions, and a registry that may move a tag once.                       *)
EXTENDS Caches, TLC

Symmetry == Permutations(Sources) \cup Permutations(Shas) \cup Permutations(Digests)
=============================================================================
