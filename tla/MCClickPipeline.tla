--------------------------- MODULE MCClickPipeline ---------------------------
(* Instances of ClickPipeline for TLC. *)
EXTENDS ClickPipeline, TLC

CONSTANTS u1, s1, l1, v1, v2, j1, j2

OneClick  == [maxClicksPerLink |-> 1, maxTotalClicks |-> 2]
Symmetry  == Permutations(Visits) \cup Permutations(Jobs)
=============================================================================
