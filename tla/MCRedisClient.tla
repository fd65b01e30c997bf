---------------------------- MODULE MCRedisClient ----------------------------
(* An instance of RedisClient for TLC. *)
EXTENDS RedisClient

CONSTANTS v1, v2, ip1, s1

SameIp      == [v \in {v1, v2} |-> ip1]
SameSlug    == [v \in {v1, v2} |-> s1]
TightLimits == [l \in LayerNames |-> 1]
ShortTtls   == [l \in LayerNames |-> 1]
=============================================================================
