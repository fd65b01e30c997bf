------------------------------ MODULE MCAccounts ------------------------------
(* Instances of Accounts for TLC. *)
EXTENDS Accounts, TLC

CONSTANTS u1, r1, r2, p1, p2, d1, d2

Symmetry == Permutations({r1, r2}) \cup Permutations({p1, p2}) \cup Permutations({d1, d2})
=============================================================================
