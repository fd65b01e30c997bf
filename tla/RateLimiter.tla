----------------------------- MODULE RateLimiter -----------------------------
(***************************************************************************)
(* RateLimitService.check and the three checks resolveSlug runs in front   *)
(* of every redirect.  A check is three Redis commands (INCR, EXPIRE when  *)
(* the counter came back as 1, TTL) with an await after each, so the       *)
(* commands of several requests interleave.  Redis outlives the API        *)
(* process: Crash drops the requests and keeps the counters.  The client   *)
(* resends a command whose reply was lost with the connection              *)
(* (maxRetriesPerRequest: null), which is what the ...ReplyLost actions do.*)
(***************************************************************************)
EXTENDS Integers, Functions

CONSTANTS Visitors,   \* requests in flight at most once each
          IpOf,       \* IpOf[v]: the client address visitor v is seen with
          SlugOf,     \* SlugOf[v]: the slug it asks for
          Limit,      \* [LayerNames -> Nat \ {0}], rateLimit.*.max
          Ttl,        \* [LayerNames -> Nat \ {0}], rateLimit.*.ttl in ticks
          MaxCount,   \* bound: a counter is not incremented beyond it
          MaxCrashes, \* bound: crashes of the API process
          MaxDrops    \* bound: replies lost with the Redis connection

LayerNames == {"global", "ip", "slug"}

ASSUME LimitsAssumption == /\ Limit \in [LayerNames -> Nat \ {0}]
                           /\ Ttl \in [LayerNames -> Nat \ {0}]
ASSUME BoundsAssumption == MaxCount \in Nat /\ MaxCrashes \in Nat /\ MaxDrops \in Nat

VARIABLES count,    \* count[k]: the Redis counter, 0 when the key is absent
          ttl,      \* ttl[k]: ticks to live, NoTtl when the key has no expiry
          pc,       \* pc[v]: the command visitor v sends next, or "idle"
          layer,    \* layer[v]: the layer of the check it is in
          current,  \* current[v]: what INCR answered
          crashes, drops,
          age,      \* history: ticks since the key was created, up to its Ttl
          passed    \* history: passed[k][i] hits let through i ticks ago

redis == <<count, ttl>>
proc  == <<pc, layer, current>>
vars  == <<count, ttl, pc, layer, current, crashes, drops, age, passed>>

NoTtl == -1   \* TTL's answer for a key without expiry

(* The keys of checkGlobal, checkIp and checkSlug.  The first two are both *)
(* built from the client address.                                          *)
KeyAt(v, l) == IF l = "slug" THEN <<l, SlugOf[v]>> ELSE <<l, IpOf[v]>>
Key(v)      == KeyAt(v, layer[v])
Keys        == {KeyAt(v, l) : v \in Visitors, l \in LayerNames}

AllowedOneMore(k, n) == n <= Limit[k[1]] + 1   \* mutant: off by one
Allowed(k, n)        == n <= Limit[k[1]]

Init == /\ count = [k \in Keys |-> 0]
        /\ ttl = [k \in Keys |-> NoTtl]
        /\ pc = [v \in Visitors |-> "idle"]
        /\ layer = [v \in Visitors |-> "global"]
        /\ current = [v \in Visitors |-> 0]
        /\ crashes = 0 /\ drops = 0
        /\ age = [k \in Keys |-> 0]
        /\ passed = [k \in Keys |-> [i \in 0..Ttl[k[1]] - 1 |-> 0]]
-----------------------------------------------------------------------------
(* A request enters resolveSlug. *)
Arrive(v) == /\ pc[v] = "idle"
             /\ pc' = [pc EXCEPT ![v] = "incr"]
             /\ UNCHANGED <<redis, layer, current, crashes, drops, age, passed>>

(* The server side of INCR: the key is created at 1, without expiry. *)
RedisIncr(k) == /\ count[k] < MaxCount
                /\ count' = [count EXCEPT ![k] = @ + 1]

AfterIncrAlways(n) == "expire"                              \* mutant: expiry on every hit
AfterIncrSecond(n) == IF n = 2 THEN "expire" ELSE "ttl"     \* mutant: expiry on the second hit
AfterIncr(n)       == IF n = 1 THEN "expire" ELSE "ttl"

Incr(v) ==
  LET k == Key(v)  n == count[k] + 1 IN
  /\ pc[v] = "incr"
  /\ RedisIncr(k)
  /\ current' = [current EXCEPT ![v] = n]
  /\ pc' = [pc EXCEPT ![v] = AfterIncr(n)]
  /\ passed' = IF Allowed(k, n) THEN [passed EXCEPT ![k][0] = @ + 1] ELSE passed
  /\ UNCHANGED <<ttl, layer, crashes, drops, age>>

(* The server side of EXPIRE: nothing happens to a key that is not there. *)
RedisExpireEarly(k) ==   \* mutant: a time to live one tick short
  ttl' = IF count[k] > 0 /\ Ttl[k[1]] > 1 THEN [ttl EXCEPT ![k] = Ttl[k[1]] - 1] ELSE ttl

RedisExpire(k) == ttl' = IF count[k] > 0 THEN [ttl EXCEPT ![k] = Ttl[k[1]]] ELSE ttl

Expire(v) == /\ pc[v] = "expire"
             /\ RedisExpire(Key(v))
             /\ pc' = [pc EXCEPT ![v] = "ttl"]
             /\ UNCHANGED <<count, layer, current, crashes, drops, age, passed>>

NextLayerUser == [global |-> "ip", ip |-> "user"]   \* mutant: a layer without limits
NextLayer     == [global |-> "ip", ip |-> "slug"]

(* TTL only feeds resetAt, which no caller reads.  Its reply ends the      *)
(* check: the request goes on to the next layer, or leaves (rejected with  *)
(* 429, or admitted by all three).                                         *)
ReadTtl(v) ==
  /\ pc[v] = "ttl"
  /\ IF Allowed(Key(v), current[v]) /\ layer[v] # "slug"
     THEN /\ pc' = [pc EXCEPT ![v] = "incr"]
          /\ layer' = [layer EXCEPT ![v] = NextLayer[@]]
     ELSE /\ pc' = [pc EXCEPT ![v] = "idle"]
          /\ layer' = [layer EXCEPT ![v] = "global"]
  /\ current' = [current EXCEPT ![v] = 0]
  /\ UNCHANGED <<redis, crashes, drops, age, passed>>

(* The command ran, its reply was lost: the client sends it again. *)
IncrReplyLost(v) == /\ pc[v] = "incr" /\ drops < MaxDrops
                    /\ RedisIncr(Key(v))
                    /\ drops' = drops + 1
                    /\ UNCHANGED <<ttl, proc, crashes, age, passed>>

ExpireReplyLost(v) == /\ pc[v] = "expire" /\ drops < MaxDrops
                      /\ RedisExpire(Key(v))
                      /\ drops' = drops + 1
                      /\ UNCHANGED <<count, proc, crashes, age, passed>>

(* The API process dies with every request it was serving. *)
Crash == /\ crashes < MaxCrashes
         /\ \E v \in Visitors : pc[v] # "idle"
         /\ crashes' = crashes + 1
         /\ pc' = [v \in Visitors |-> "idle"]
         /\ layer' = [v \in Visitors |-> "global"]
         /\ current' = [v \in Visitors |-> 0]
         /\ UNCHANGED <<redis, drops, age, passed>>

(* One tick of Redis' clock: keys whose time to live runs out disappear. *)
Tick ==
  LET gone  == {k \in Keys : ttl[k] = 1}
      Older(k) == IF count[k] > 0 /\ age[k] < Ttl[k[1]] THEN age[k] + 1 ELSE age[k]
  IN /\ count' = [k \in Keys |-> IF k \in gone THEN 0 ELSE count[k]]
     /\ ttl' = [k \in Keys |-> IF k \in gone \/ ttl[k] = NoTtl THEN NoTtl ELSE ttl[k] - 1]
     /\ age' = [k \in Keys |-> IF k \in gone THEN 0 ELSE Older(k)]
     /\ passed' = [k \in Keys |-> [i \in DOMAIN passed[k] |->
                                     IF i = 0 THEN 0 ELSE passed[k][i - 1]]]
     /\ UNCHANGED <<proc, crashes, drops>>

Step(v) == Incr(v) \/ Expire(v) \/ ReadTtl(v)
Lost(v) == IncrReplyLost(v) \/ ExpireReplyLost(v)
Next == \/ \E v \in Visitors : Arrive(v) \/ Step(v) \/ Lost(v)
        \/ Crash
        \/ Tick

Spec == Init /\ [][Next]_vars
-----------------------------------------------------------------------------
TypeOK == /\ count \in [Keys -> Nat]
          /\ ttl \in [Keys -> (Nat \ {0}) \cup {NoTtl}]
          /\ pc \in [Visitors -> {"idle", "incr", "expire", "ttl"}]
          /\ layer \in [Visitors -> LayerNames]
          /\ current \in [Visitors -> Nat]
          /\ crashes \in Nat /\ drops \in Nat
          /\ age \in [Keys -> Nat]
          /\ DOMAIN passed = Keys
          /\ \A k \in Keys : passed[k] \in [0..Ttl[k[1]] - 1 -> Nat]

(* No span of one time to live lets more than two windows' worth of        *)
(* requests through a counter, whatever crashes or is resent: the price of *)
(* a fixed window, and no more than that.                                  *)
SlidingBound == \A k \in Keys : SumFunction(passed[k]) <= 2 * Limit[k[1]]

(* A counter without expiry has a request about to set it: otherwise the   *)
(* key never goes away and its visitors are refused for good.              *)
CounterGetsTtl ==
  \A k \in Keys : count[k] > 0 /\ ttl[k] = NoTtl
                    => \E v \in Visitors : pc[v] = "expire" /\ Key(v) = k

(* Only a crash or a lost reply can leave a counter behind for good: no    *)
(* interleaving of requests does, whoever of them gets to send EXPIRE.     *)
StuckOnlyByFaults == crashes = 0 /\ drops = 0 => CounterGetsTtl

(* Until a reply is lost, an expiry that has been set is never pushed back *)
(* by any request or crash, even though EXPIRE is sent after an await: the *)
(* window is fixed.                                                        *)
ExpiryNotReset ==
  [][drops = 0 => \A k \in Keys :
       ttl[k] # NoTtl /\ count'[k] > 0 => ttl'[k] <= ttl[k]]_vars

(* The limiter is a fixed-window limiter: counts every hit, and no window  *)
(* closes early.                                                           *)
FW == INSTANCE FixedWindow WITH hits <- count, Lifetime <- [k \in Keys |-> Ttl[k[1]]]
IsFixedWindow == FW!Spec
=============================================================================
