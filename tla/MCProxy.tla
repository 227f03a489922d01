------------------------------ MODULE MCProxy ------------------------------
(* Model values for module Proxy.                                           *)
EXTENDS Proxy, TLC

CONSTANTS q1, q2, q3, b1, b2, b3

Symmetry == Permutations(Requests) \cup Permutations(Backends)
=============================================================================
