------------------------------ MODULE MCLeases ------------------------------
(* Small instances of Leases. *)
EXTENDS Leases, TLC

CONSTANTS b1, b2, p1, p2, u1, u2, u3, k1

Symmetry == Permutations(Instances) \cup Permutations(Prepared) \cup Permutations(Users)
=============================================================================
