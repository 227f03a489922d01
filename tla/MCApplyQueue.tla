---------------------------- MODULE MCApplyQueue ----------------------------
(* Model values for module ApplyQueue.                                      *)
EXTENDS ApplyQueue, TLC

CONSTANTS v0, v1, v2

Symmetry == Permutations({v1, v2})
=============================================================================
