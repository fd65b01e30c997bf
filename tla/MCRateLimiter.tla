---------------------------- MODULE MCRateLimiter ----------------------------
(* Instances of RateLimiter for TLC. *)
EXTENDS RateLimiter, TLC

CONSTANTS v1, v2, ip1, s1

(* Two requests from one address for one link share all three counters. *)
SameIp    == [v \in {v1, v2} |-> ip1]
SameSlug  == [v \in {v1, v2} |-> s1]

Limits    == [global |-> 2, ip |-> 2, slug |-> 1]
TightLimits == [global |-> 1, ip |-> 1, slug |-> 1]
(* SameIp and SameSlug do not tell v1 from v2. *)
Symmetry == Permutations({v1, v2})

Ttls      == [global |-> 2, ip |-> 2, slug |-> 2]
=============================================================================
