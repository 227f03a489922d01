---------------------------- MODULE MCController ----------------------------
(* Model values and bounds for module Controller.                           *)
EXTENDS Controller, TLC

CONSTANTS i1, i2, i3, c1, c2

\* One key: the configurations differ in supervisor policy only.
OneKey  == [c \in Configs |-> "app"]

Symmetry == Permutations(Instances)
=============================================================================
