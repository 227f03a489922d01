------------------------------ MODULE MCEngine ------------------------------
(* Model values and bounds for module Engine.                               *)
EXTENDS Engine, TLC

CONSTANTS i1, i2, i3, r1, r2, c1, c2

\* The two configurations differ in supervisor policy only.
MCAppKey == [c \in Configs |-> "app"]
Symmetry == Permutations(Instances) \cup Permutations(Revisions)
=============================================================================
