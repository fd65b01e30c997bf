------------------------------ MODULE MCSessions ------------------------------
(* Instances of Sessions for TLC. *)
EXTENDS Sessions, TLC

CONSTANTS u1, r1, r2

Symmetry == Permutations({r1, r2})
=============================================================================
