------------------------------- MODULE MCSystem -------------------------------
(* Instances of System for TLC. *)
EXTENDS System, TLC

CONSTANTS u1, s1, l1, l2, v1, j1, r1

OneOfEach == [maxLinks |-> 2, maxClicksPerLink |-> 1, maxTotalClicks |-> 2]
=============================================================================
