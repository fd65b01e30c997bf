---------------------------- MODULE MCLinkService ----------------------------
(* Instances of LinkService for TLC. *)
EXTENDS LinkService, TLC

CONSTANTS u1, u2, s1, s2, s3, l1, l2, l3, r1, r2

OneLink  == [maxLinks |-> 1]
Symmetry == Permutations({u1, u2}) \cup Permutations({s1, s2, s3})
              \cup Permutations({l1, l2, l3}) \cup Permutations({r1, r2})
=============================================================================
