-------------------------- MODULE RateLimiterProofs --------------------------
(***************************************************************************)
(* What RateLimiter guarantees for any set of visitors, addresses, slugs,  *)
(* limits and times to live.  One lemma per invariant that a step has to   *)
(* preserve; the theorems combine them.  And what RedisClient guarantees   *)
(* for any number of retries and any outages: it serves the same limiter.  *)
(***************************************************************************)
EXTENDS RedisClient, SumTheorems

(* A request's key is one of the counters, and names its layer. *)
LEMMA KeyIsKey == \A v \in Visitors, l \in LayerNames : KeyAt(v, l) \in Keys
  BY DEF Keys

(* The parameters of a counter are positive numbers. *)
LEMMA KeyParameters ==
  \A k \in Keys : /\ k[1] \in LayerNames
                  /\ Limit[k[1]] \in Nat \ {0}
                  /\ Ttl[k[1]] \in Nat \ {0}
  BY LimitsAssumption DEF Keys, KeyAt, LayerNames

(* Counting one more hit in a row of counters leaves a row of counters. *)
LEMMA CountOneMore ==
  ASSUME NEW S, NEW f \in [S -> Nat], NEW x \in S
  PROVE  [f EXCEPT ![x] = f[x] + 1] \in [S -> Nat]
  OBVIOUS

(* So does shifting it by one tick. *)
LEMMA ShiftByOne ==
  ASSUME NEW n \in Nat, NEW f \in [0..n - 1 -> Nat]
  PROVE  [i \in 0..n - 1 |-> IF i = 0 THEN 0 ELSE f[i - 1]] \in [0..n - 1 -> Nat]
  OBVIOUS

-----------------------------------------------------------------------------
(* Every step keeps the types: in particular a key never sits at a time to *)
(* live of 0, the moment at which Redis has already dropped it.            *)
LEMMA TypeStep == TypeOK /\ [Next]_vars => TypeOK'
<1> SUFFICES ASSUME TypeOK, [Next]_vars PROVE TypeOK'
  OBVIOUS
<1> USE DEF TypeOK
<1>k. \A v \in Visitors : Key(v) \in Keys
  BY KeyIsKey DEF Key
<1>1. ASSUME NEW v \in Visitors, Arrive(v) PROVE TypeOK'
  BY <1>1 DEF Arrive, redis
<1>2. ASSUME NEW v \in Visitors, Incr(v) PROVE TypeOK'
  <2>1. /\ count' \in [Keys -> Nat] /\ current' \in [Visitors -> Nat]
        /\ pc' \in [Visitors -> {"idle", "incr", "expire", "ttl"}]
    BY <1>2, <1>k DEF Incr, RedisIncr, AfterIncr
  <2>2. /\ DOMAIN passed' = Keys
        /\ \A k \in Keys : passed'[k] \in [0..Ttl[k[1]] - 1 -> Nat]
    <3>1. CASE Allowed(Key(v), count[Key(v)] + 1)
      <4> DEFINE row == passed[Key(v)]
                 row2 == [row EXCEPT ![0] = row[0] + 1]
      <4>1. passed' = [passed EXCEPT ![Key(v)] = row2]
        BY <1>2, <3>1, Zenon DEF Incr
      <4>2. 0 \in 0..Ttl[Key(v)[1]] - 1
        BY <1>k, KeyParameters
      <4>3. row \in [0..Ttl[Key(v)[1]] - 1 -> Nat]
        BY <1>k
      <4>4. row2 \in [0..Ttl[Key(v)[1]] - 1 -> Nat]
        BY <4>2, <4>3, CountOneMore, Zenon
      <4> HIDE DEF row2
      <4> QED BY <4>1, <4>4, <1>k
    <3>2. CASE ~Allowed(Key(v), count[Key(v)] + 1)
      BY <1>2, <3>2 DEF Incr
    <3> QED BY <3>1, <3>2
  <2> QED BY <1>2, <2>1, <2>2 DEF Incr
<1>3. ASSUME NEW v \in Visitors, Expire(v) PROVE TypeOK'
  BY <1>3, <1>k, KeyParameters DEF Expire, RedisExpire
<1>4. ASSUME NEW v \in Visitors, ReadTtl(v) PROVE TypeOK'
  <2>1. current' \in [Visitors -> Nat]
    BY <1>4 DEF ReadTtl
  <2>2. pc' \in [Visitors -> {"idle", "incr", "expire", "ttl"}]
    BY <1>4 DEF ReadTtl
  <2>3. \A l \in LayerNames : l # "slug" => NextLayer[l] \in LayerNames
    BY DEF NextLayer, LayerNames
  <2>4. layer' \in [Visitors -> LayerNames]
    <3>1. layer[v] \in LayerNames /\ "global" \in LayerNames
      BY DEF LayerNames
    <3> QED BY <1>4, <2>3, <3>1 DEF ReadTtl
  <2> QED BY <1>4, <2>1, <2>2, <2>4 DEF ReadTtl, redis
<1>5. ASSUME NEW v \in Visitors, IncrReplyLost(v) PROVE TypeOK'
  BY <1>5, <1>k DEF IncrReplyLost, RedisIncr, proc
<1>6. ASSUME NEW v \in Visitors, ExpireReplyLost(v) PROVE TypeOK'
  BY <1>6, <1>k, KeyParameters DEF ExpireReplyLost, RedisExpire, proc
<1>7. CASE Crash
  BY <1>7 DEF Crash, redis, LayerNames
<1>8. CASE Tick
  <2>1. /\ count' \in [Keys -> Nat] /\ age' \in [Keys -> Nat]
    BY <1>8 DEF Tick
  <2>2. ttl' \in [Keys -> (Nat \ {0}) \cup {NoTtl}]
    BY <1>8 DEF Tick, NoTtl
  <2>3. /\ DOMAIN passed' = Keys
        /\ \A k \in Keys : passed'[k] \in [0..Ttl[k[1]] - 1 -> Nat]
    <3>1. DOMAIN passed' = Keys
      BY <1>8 DEF Tick
    <3>2. ASSUME NEW k \in Keys PROVE passed'[k] \in [0..Ttl[k[1]] - 1 -> Nat]
      <4> DEFINE n == Ttl[k[1]]  row == passed[k]
      <4>1. passed'[k] = [i \in 0..n - 1 |-> IF i = 0 THEN 0 ELSE row[i - 1]]
        BY <1>8 DEF Tick
      <4>2. n \in Nat /\ row \in [0..n - 1 -> Nat]
        BY KeyParameters
      <4> HIDE DEF n, row
      <4>3. passed'[k] \in [0..n - 1 -> Nat]
        BY <4>1, <4>2, ShiftByOne, Zenon
      <4> QED BY <4>3 DEF n
    <3> QED BY <3>1, <3>2
  <2> QED BY <1>8, <2>1, <2>2, <2>3 DEF Tick, proc
<1>9. CASE UNCHANGED vars
  BY <1>9 DEF vars
<1> QED BY <1>1, <1>2, <1>3, <1>4, <1>5, <1>6, <1>7, <1>8, <1>9 DEF Next, Step, Lost

(* Type correctness, under every fault the model has. *)
THEOREM TypeCorrect == Spec => []TypeOK
<1>1. Init => TypeOK
  BY KeyParameters DEF Init, TypeOK, LayerNames
<1> QED BY <1>1, TypeStep, PTL DEF Spec

-----------------------------------------------------------------------------
(* Until a crash or a lost reply, a counter without expiry always has a    *)
(* request about to set one: the request whose INCR created the key stays  *)
(* at "expire" until it has.  The condition is needed: a crash between the *)
(* two commands leaves the counter behind for good.                        *)
LEMMA CounterStep == TypeOK /\ StuckOnlyByFaults /\ [Next]_vars => StuckOnlyByFaults'
<1> SUFFICES ASSUME TypeOK, StuckOnlyByFaults, [Next]_vars, crashes' = 0, drops' = 0,
                    NEW k \in Keys, count'[k] > 0, ttl'[k] = NoTtl
             PROVE  \E w \in Visitors : pc'[w] = "expire" /\ Key(w)' = k
  BY DEF StuckOnlyByFaults, CounterGetsTtl, Keys
<1>5. ~Crash /\ \A v \in Visitors : ~Lost(v)
  BY DEF TypeOK, Crash, Lost, IncrReplyLost, ExpireReplyLost
<1>0. CounterGetsTtl
  <2>1. crashes = 0 /\ drops = 0
    BY <1>5 DEF Next, Step, Arrive, Incr, Expire, ReadTtl, Tick, vars
  <2> QED BY <2>1 DEF StuckOnlyByFaults
<1> USE <1>0 DEF TypeOK, CounterGetsTtl, Key
<1>1. ASSUME NEW v \in Visitors, Arrive(v) PROVE \E w \in Visitors : pc'[w] = "expire" /\ Key(w)' = k
  BY <1>1 DEF Arrive, redis
<1>2. ASSUME NEW v \in Visitors, Incr(v) PROVE \E w \in Visitors : pc'[w] = "expire" /\ Key(w)' = k
  <2>1. CASE count[k] > 0
    BY <1>2, <2>1 DEF Incr, RedisIncr
  <2>2. CASE count[k] = 0
    BY <1>2, <2>2 DEF Incr, RedisIncr, AfterIncr
  <2> QED BY <2>1, <2>2
<1>3. ASSUME NEW v \in Visitors, Expire(v) PROVE \E w \in Visitors : pc'[w] = "expire" /\ Key(w)' = k
  <2>1. k # Key(v)
    BY <1>3, KeyParameters DEF Expire, RedisExpire, NoTtl
  <2>2. count[k] > 0 /\ ttl[k] = NoTtl
    BY <1>3, <2>1 DEF Expire, RedisExpire
  <2> QED BY <1>3, <2>1, <2>2 DEF Expire
<1>4. ASSUME NEW v \in Visitors, ReadTtl(v) PROVE \E w \in Visitors : pc'[w] = "expire" /\ Key(w)' = k
  BY <1>4 DEF ReadTtl, redis
<1>6. CASE Tick
  <2>1. count[k] > 0 /\ ttl[k] = NoTtl
    BY <1>6 DEF Tick, NoTtl
  <2> QED BY <1>6, <2>1 DEF Tick, proc
<1>7. CASE UNCHANGED vars
  BY <1>7 DEF vars
<1> QED BY <1>1, <1>2, <1>3, <1>4, <1>5, <1>6, <1>7 DEF Next, Step

(* No interleaving of requests leaves a counter without an expiry: it      *)
(* takes a crash or a lost reply.                                          *)
THEOREM CountersExpire == Spec => []StuckOnlyByFaults
<1>1. Init => StuckOnlyByFaults
  BY DEF Init, StuckOnlyByFaults, CounterGetsTtl
<1> QED BY <1>1, CounterStep, TypeCorrect, PTL DEF Spec

-----------------------------------------------------------------------------
(* A key that is absent has neither expiry nor age, and a key whose expiry *)
(* is set still has, together with its age, a whole time to live.          *)
WindowInv ==
  \A k \in Keys :
    /\ count[k] = 0 => ttl[k] = NoTtl /\ age[k] = 0
    /\ ttl[k] # NoTtl => ttl[k] + age[k] >= Ttl[k[1]]

(* Every step keeps the window invariant: age and time to live together    *)
(* cover the whole window.                                                 *)
LEMMA WindowStep == TypeOK /\ WindowInv /\ [Next]_vars => WindowInv'
<1> SUFFICES ASSUME TypeOK, WindowInv, [Next]_vars, NEW k \in Keys
             PROVE  /\ count'[k] = 0 => ttl'[k] = NoTtl /\ age'[k] = 0
                    /\ ttl'[k] # NoTtl => ttl'[k] + age'[k] >= Ttl[k[1]]
  BY DEF WindowInv, Keys
<1> DEFINE Goal == /\ count'[k] = 0 => ttl'[k] = NoTtl /\ age'[k] = 0
                   /\ ttl'[k] # NoTtl => ttl'[k] + age'[k] >= Ttl[k[1]]
<1>k. /\ count[k] \in Nat /\ age[k] \in Nat
      /\ ttl[k] \in (Nat \ {0}) \cup {NoTtl} /\ Ttl[k[1]] \in Nat \ {0}
      /\ count[k] = 0 => ttl[k] = NoTtl /\ age[k] = 0
      /\ ttl[k] # NoTtl => ttl[k] + age[k] >= Ttl[k[1]]
  BY KeyParameters DEF TypeOK, WindowInv
<1>i. ASSUME NEW j, RedisIncr(j), ttl' = ttl, age' = age PROVE Goal
  <2>1. count'[k] \in {count[k], count[k] + 1}
    BY <1>i DEF RedisIncr, TypeOK
  <2> QED BY <1>i, <1>k, <2>1
<1>e. ASSUME NEW j, RedisExpire(j), count' = count, age' = age PROVE Goal
  <2>1. \/ ttl'[k] = ttl[k]
        \/ count[k] > 0 /\ ttl'[k] = Ttl[k[1]]
    BY <1>e DEF RedisExpire, TypeOK
  <2> QED BY <1>e, <1>k, <2>1
<1>s. ASSUME UNCHANGED <<count, ttl, age>> PROVE Goal
  BY <1>s, <1>k
<1>1. ASSUME NEW v \in Visitors, Arrive(v) \/ ReadTtl(v) PROVE Goal
  BY <1>1, <1>s DEF Arrive, ReadTtl, redis
<1>2. ASSUME NEW v \in Visitors, Incr(v) \/ IncrReplyLost(v) PROVE Goal
  BY <1>2, <1>i DEF Incr, IncrReplyLost
<1>3. ASSUME NEW v \in Visitors, Expire(v) \/ ExpireReplyLost(v) PROVE Goal
  BY <1>3, <1>e DEF Expire, ExpireReplyLost
<1>4. CASE Crash
  BY <1>4, <1>s DEF Crash, redis
<1>5. CASE Tick
  <2>1. CASE ttl[k] = 1
    BY <1>5, <2>1, <1>k DEF Tick
  <2>2. CASE ttl[k] = NoTtl
    BY <1>5, <2>2, <1>k DEF Tick, NoTtl
  <2>3. CASE ttl[k] # 1 /\ ttl[k] # NoTtl
    <3>1. /\ count'[k] = count[k] /\ ttl'[k] = ttl[k] - 1 /\ count[k] > 0
          /\ age'[k] = IF age[k] < Ttl[k[1]] THEN age[k] + 1 ELSE age[k]
      BY <1>5, <2>3, <1>k DEF Tick
    <3>2. ttl[k] \in Nat /\ ttl[k] > 1
      BY <2>3, <1>k
    <3> QED BY <3>1, <3>2, <1>k DEF NoTtl
  <2> QED BY <2>1, <2>2, <2>3
<1>6. CASE UNCHANGED vars
  BY <1>6, <1>s DEF vars
<1> QED BY <1>1, <1>2, <1>3, <1>4, <1>5, <1>6 DEF Next, Step, Lost

(* The window invariant holds throughout, under every fault. *)
LEMMA WindowInvariant == Spec => []WindowInv
<1>1. Init => WindowInv
  BY DEF Init, WindowInv
<1> QED BY <1>1, WindowStep, TypeCorrect, PTL DEF Spec

(* The limiter is a fixed-window limiter under crashes and resent          *)
(* commands: every INCR is a hit, and a tick closes only the windows that  *)
(* have lasted their time to live.                                         *)
THEOREM ImplementsFixedWindow == Spec => IsFixedWindow
<1>1. Init => FW!Init
  BY DEF Init, FW!Init
<1>2. TypeOK /\ WindowInv /\ [Next]_vars => [FW!Next]_(FW!vars)
  <2> SUFFICES ASSUME TypeOK, WindowInv, [Next]_vars PROVE [FW!Next]_(FW!vars)
    OBVIOUS
  <2>k. \A v \in Visitors : Key(v) \in Keys
    BY KeyIsKey DEF Key, TypeOK
  <2>i. ASSUME NEW j \in Keys, RedisIncr(j), age' = age PROVE FW!Next
    <3>1. FW!Hit(j)
      BY <2>i DEF RedisIncr, FW!Hit
    <3> QED BY <3>1 DEF FW!Next
  <2>s. ASSUME UNCHANGED <<count, age>> PROVE UNCHANGED FW!vars
    BY <2>s DEF FW!vars
  <2>1. ASSUME NEW v \in Visitors, Incr(v) \/ IncrReplyLost(v) PROVE FW!Next
    BY <2>1, <2>i, <2>k DEF Incr, IncrReplyLost
  <2>2. ASSUME NEW v \in Visitors,
               Arrive(v) \/ Expire(v) \/ ReadTtl(v) \/ ExpireReplyLost(v)
        PROVE  UNCHANGED FW!vars
    BY <2>2, <2>s DEF Arrive, Expire, ReadTtl, ExpireReplyLost, redis
  <2>3. CASE Crash
    BY <2>3, <2>s DEF Crash, redis
  <2>4. CASE Tick
    <3> DEFINE gone == {k \in Keys : ttl[k] = 1}
    <3>1. \A k \in Keys : FW!Older(k) = IF count[k] > 0 /\ age[k] < Ttl[k[1]]
                                        THEN age[k] + 1 ELSE age[k]
      BY DEF FW!Older
    <3>2. \A k \in gone : FW!Older(k) >= Ttl[k[1]]
      <4> SUFFICES ASSUME NEW k \in Keys, ttl[k] = 1 PROVE FW!Older(k) >= Ttl[k[1]]
        OBVIOUS
      <4>1. count[k] # 0 /\ 1 + age[k] >= Ttl[k[1]]
        BY DEF WindowInv, NoTtl
      <4>2. count[k] \in Nat /\ age[k] \in Nat /\ Ttl[k[1]] \in Nat
        BY KeyParameters DEF TypeOK
      <4> QED BY <3>1, <4>1, <4>2
    <3>3. gone \in SUBSET {k \in Keys : FW!Older(k) >= [j \in Keys |-> Ttl[j[1]]][k]}
      BY <3>2
    <3>4. count' = [k \in Keys |-> IF k \in gone THEN 0 ELSE count[k]]
      BY <2>4 DEF Tick
    <3>5. age' = [k \in Keys |-> IF k \in gone THEN 0 ELSE FW!Older(k)]
      BY <2>4, <3>1 DEF Tick
    <3> HIDE DEF gone
    <3>6. FW!Tick
      BY <3>3, <3>4, <3>5 DEF FW!Tick
    <3> QED BY <3>6 DEF FW!Next
  <2>5. CASE UNCHANGED vars
    BY <2>5, <2>s DEF vars
  <2> QED BY <2>1, <2>2, <2>3, <2>4, <2>5 DEF Next, Step, Lost
<1> QED BY <1>1, <1>2, TypeCorrect, WindowInvariant, PTL DEF Spec, IsFixedWindow, FW!Spec

-----------------------------------------------------------------------------
(* The last tick that counts as the window a counter is in. *)
Span(k) == IF age[k] < Ttl[k[1]] THEN age[k] ELSE Ttl[k[1]] - 1

(* Of the hits a counter let through during the latest time to live, those *)
(* of its own window are hits it counted and none above the limit; those   *)
(* before belong to a single earlier window, because no window is shorter. *)
(* Without a window, all of them do.                                       *)
HitsOf(k) ==
  /\ count[k] = 0 => /\ passed[k][0] = 0
                     /\ SumFunctionOnSet(passed[k], 0..Ttl[k[1]] - 1) <= Limit[k[1]]
  /\ count[k] > 0 => /\ SumFunctionOnSet(passed[k], 0..Span(k)) <= count[k]
                     /\ SumFunctionOnSet(passed[k], 0..Span(k)) <= Limit[k[1]]
                     /\ SumFunctionOnSet(passed[k], Span(k) + 1..Ttl[k[1]] - 1) <= Limit[k[1]]
HitsInv == \A k \in Keys : HitsOf(k)

(* A row of hits and its parts add up to natural numbers, and no part to   *)
(* more than the row.                                                      *)
LEMMA RowSums ==
  ASSUME NEW n \in Nat \ {0}, NEW f \in [0..n - 1 -> Nat], NEW a \in Nat, NEW b \in Int, b < n
  PROVE  /\ SumFunctionOnSet(f, a..b) \in Nat
         /\ SumFunctionOnSet(f, 0..n - 1) \in Nat
         /\ SumFunctionOnSet(f, a..b) <= SumFunctionOnSet(f, 0..n - 1)
<1>0. IsFiniteSet(0..n - 1)
  BY FiniteInterval
<1>1. \A i \in 0..n - 1 : f[i] \in Nat
  OBVIOUS
<1>2. \A T \in SUBSET (0..n - 1) : SumFunctionOnSet(f, T) \in Nat
  BY <1>0, <1>1, SumNat
<1>3. \A T \in SUBSET (0..n - 1) : SumFunctionOnSet(f, T) <= SumFunctionOnSet(f, 0..n - 1)
  BY <1>0, <1>1, SumPart
<1>4. a..b \in SUBSET (0..n - 1) /\ 0..n - 1 \in SUBSET (0..n - 1)
  OBVIOUS
<1> QED BY <1>2, <1>3, <1>4

(* One more hit in the current tick adds one to what starts there and      *)
(* nothing to what comes before.                                           *)
LEMMA RowHit ==
  ASSUME NEW n \in Nat \ {0}, NEW f \in [0..n - 1 -> Nat], NEW a \in 0..n - 1
  PROVE  /\ SumFunctionOnSet([f EXCEPT ![0] = f[0] + 1], 0..a) = SumFunctionOnSet(f, 0..a) + 1
         /\ SumFunctionOnSet([f EXCEPT ![0] = f[0] + 1], a + 1..n - 1)
              = SumFunctionOnSet(f, a + 1..n - 1)
<1> DEFINE h == [f EXCEPT ![0] = f[0] + 1]
<1>1. h[0] = f[0] + 1 /\ \A i \in (0..n - 1) \ {0} : h[i] = f[i]
  OBVIOUS
<1>2. IsFiniteSet(0..a) /\ IsFiniteSet(a + 1..n - 1) /\ 0 \in 0..a
  BY FiniteInterval
<1>3. /\ \A i \in 0..a : f[i] \in Nat
      /\ \A i \in (0..a) \ {0} : h[i] = f[i]
      /\ \A i \in a + 1..n - 1 : h[i] = f[i]
  BY <1>1
<1> HIDE DEF h
<1>4. SumFunctionOnSet(h, 0..a) = SumFunctionOnSet(f, 0..a) + 1
  BY <1>1, <1>2, <1>3, SumOneMore
<1>5. SumFunctionOnSet(h, a + 1..n - 1) = SumFunctionOnSet(f, a + 1..n - 1)
  BY <1>2, <1>3, SumEqual
<1> QED BY <1>4, <1>5 DEF h

(* A tick later every part of a row has moved along by one.                *)
LEMMA RowShift ==
  ASSUME NEW n \in Nat \ {0}, NEW f \in [0..n - 1 -> Nat],
         NEW h, NEW a \in 0..n - 1, h[0] = 0, \A i \in 0..n - 2 : h[i + 1] = f[i]
  PROVE  /\ SumFunctionOnSet(h, 0..n - 1) <= SumFunctionOnSet(f, 0..n - 1)
         /\ a + 1 < n => SumFunctionOnSet(h, 0..a + 1) = SumFunctionOnSet(f, 0..a)
         /\ a + 1 < n => SumFunctionOnSet(h, a + 2..n - 1) <= SumFunctionOnSet(f, a + 1..n - 1)
<1>1. \A i \in 0..n - 1 : h[i] \in Nat
  <2> SUFFICES ASSUME NEW i \in 0..n - 1, i # 0 PROVE h[i] \in Nat
    OBVIOUS
  <2>1. i - 1 \in 0..n - 2 /\ (i - 1) + 1 = i /\ f[i - 1] \in Nat
    OBVIOUS
  <2> QED BY <2>1
<1>2. ASSUME NEW b \in 0..n - 1 PROVE SumFunctionOnSet(h, 0..b) = SumFunctionOnSet(f, 0..b - 1)
  <2>1. SumFunctionOnSet(h, 1..b) = SumFunctionOnSet(f, 0..b - 1)
    <3>1. CASE b = 0
      <4>1. 1..b = {} /\ 0..b - 1 = {}
        BY <3>1
      <4> QED BY <4>1, SumEmpty
    <3>2. CASE b # 0
      <4>1. /\ b - 1 \in Nat /\ b = (b - 1) + 1 /\ 1 = 0 + 1
            /\ MovedByOne(f, h, 0, b - 1)
        BY <3>2 DEF MovedByOne
      <4> QED BY <4>1, SumShift
    <3> QED BY <3>1, <3>2
  <2>0. IsFiniteSet(1..b)
    BY FiniteInterval
  <2>2. 0..b = (1..b) \cup {0} /\ 0 \notin 1..b /\ IsFiniteSet(1..b)
    BY <2>0
  <2>3. \A i \in (1..b) \cup {0} : h[i] \in Nat
    BY <1>1
  <2>4. SumFunctionOnSet(h, (1..b) \cup {0}) = h[0] + SumFunctionOnSet(h, 1..b)
    BY <2>2, <2>3, SumAdd
  <2>5. SumFunctionOnSet(h, 1..b) \in Nat
    BY <2>2, <2>3, SumNat
  <2>6. SumFunctionOnSet(h, 0..b) = 0 + SumFunctionOnSet(h, 1..b)
    BY <1>1, <2>2, <2>4
  <2> QED BY <2>1, <2>5, <2>6
<1>3. SumFunctionOnSet(f, 0..(n - 1) - 1) <= SumFunctionOnSet(f, 0..n - 1)
  BY RowSums
<1>4. ASSUME a + 1 < n
      PROVE  SumFunctionOnSet(h, a + 2..n - 1) <= SumFunctionOnSet(f, a + 1..n - 1)
  <2>1. SumFunctionOnSet(h, a + 2..n - 1) = SumFunctionOnSet(f, a + 1..n - 2)
    <3>1. /\ a + 1 \in Nat /\ n - 2 \in Nat /\ a + 2 = (a + 1) + 1 /\ n - 1 = (n - 2) + 1
          /\ MovedByOne(f, h, a + 1, n - 2)
      BY <1>4 DEF MovedByOne
    <3> QED BY <3>1, SumShift
  <2>2. SumFunctionOnSet(f, a + 1..n - 2) <= SumFunctionOnSet(f, a + 1..n - 1)
    <3>0. IsFiniteSet(a + 1..n - 1)
      BY FiniteInterval
    <3>1. /\ IsFiniteSet(a + 1..n - 1) /\ a + 1..n - 2 \in SUBSET (a + 1..n - 1)
          /\ \A i \in a + 1..n - 1 : f[i] \in Nat
      BY <3>0
    <3> QED BY <3>1, SumPart
  <2> QED BY <2>1, <2>2
<1>5. ASSUME a + 1 < n PROVE SumFunctionOnSet(h, 0..a + 1) = SumFunctionOnSet(f, 0..a)
  <2>1. a + 1 \in 0..n - 1 /\ (a + 1) - 1 = a
    BY <1>5
  <2> QED BY <1>2, <2>1
<1>6. SumFunctionOnSet(h, 0..n - 1) = SumFunctionOnSet(f, 0..(n - 1) - 1)
  BY <1>2
<1> QED BY <1>1, <1>3, <1>4, <1>5, <1>6

(* Every step keeps the account of the hits: a hit is let through only     *)
(* within the limit of its window, and a window ends only when everything  *)
(* before it is older than a time to live.                                 *)
LEMMA HitsStep == TypeOK /\ WindowInv /\ HitsInv /\ [Next]_vars => HitsInv'
<1> SUFFICES ASSUME TypeOK, WindowInv, HitsInv, [Next]_vars, NEW k \in Keys PROVE HitsOf(k)'
  BY DEF HitsInv, Keys
<1> DEFINE n == Ttl[k[1]]  lim == Limit[k[1]]  row == passed[k]
<1>k. /\ n \in Nat \ {0} /\ lim \in Nat \ {0} /\ row \in [0..n - 1 -> Nat]
      /\ count[k] \in Nat /\ age[k] \in Nat /\ Span(k) \in 0..n - 1
      /\ count[k] = 0 => age[k] = 0
      /\ HitsOf(k)
  BY KeyParameters DEF TypeOK, WindowInv, HitsInv, Span
<1>r. SumFunctionOnSet(row, 0..Span(k)) \in Nat
  <2>1. 0 \in Nat /\ Span(k) \in Int /\ Span(k) < n
    BY <1>k
  <2> HIDE DEF n, row
  <2> QED BY <1>k, <2>1, RowSums
<1>n. ASSUME count[k] = 0
      PROVE  /\ SumFunctionOnSet(row, 0..Span(k)) = 0
             /\ SumFunctionOnSet(row, Span(k) + 1..n - 1) <= lim
  <2>1. Span(k) = 0 /\ 0..0 = {0} /\ row[0] = 0 /\ SumFunctionOnSet(row, 0..n - 1) <= lim
    BY <1>k, <1>n DEF Span, HitsOf
  <2>2. SumFunctionOnSet(row, 0..Span(k)) = 0
    <3>1. 0..Span(k) = {0} /\ row[0] \in Nat
      BY <2>1
    <3>2. SumFunctionOnSet(row, {0}) = row[0]
      <4> HIDE DEF row
      <4> QED BY <3>1, SumOne
    <3> QED BY <2>1, <3>1, <3>2
  <2>3. /\ SumFunctionOnSet(row, Span(k) + 1..n - 1) <= SumFunctionOnSet(row, 0..n - 1)
        /\ SumFunctionOnSet(row, Span(k) + 1..n - 1) \in Nat /\ SumFunctionOnSet(row, 0..n - 1) \in Nat
    <3>1. Span(k) + 1 \in Nat /\ n - 1 \in Int /\ n - 1 < n
      BY <1>k
    <3> HIDE DEF n, row
    <3> QED BY <1>k, <3>1, RowSums
  <2> QED BY <1>k, <2>1, <2>2, <2>3
<1>s. ASSUME count'[k] = count[k], age'[k] = age[k], passed'[k] = row PROVE HitsOf(k)'
  BY <1>s, <1>k DEF HitsOf, Span
<1>c. ASSUME count'[k] = count[k] + 1, age'[k] = age[k], passed'[k] = row PROVE HitsOf(k)'
  <2>1. Span(k)' = Span(k) /\ count'[k] > 0
    BY <1>c, <1>k DEF Span
  <2>2. CASE count[k] = 0
    BY <1>c, <1>k, <1>n, <2>1, <2>2 DEF HitsOf
  <2>3. CASE count[k] > 0
    BY <1>c, <1>k, <1>r, <2>1, <2>3 DEF HitsOf
  <2> QED BY <1>k, <2>2, <2>3
<1>h. ASSUME count'[k] = count[k] + 1, age'[k] = age[k], count[k] + 1 <= lim,
             passed'[k] = [row EXCEPT ![0] = row[0] + 1]
      PROVE  HitsOf(k)'
  <2>1. Span(k)' = Span(k) /\ count'[k] > 0
    BY <1>h, <1>k DEF Span
  <2>2. /\ SumFunctionOnSet(passed'[k], 0..Span(k)) = SumFunctionOnSet(row, 0..Span(k)) + 1
        /\ SumFunctionOnSet(passed'[k], Span(k) + 1..n - 1) = SumFunctionOnSet(row, Span(k) + 1..n - 1)
    <3> DEFINE a == Span(k)  h == [row EXCEPT ![0] = row[0] + 1]
    <3>1. /\ SumFunctionOnSet(h, 0..a) = SumFunctionOnSet(row, 0..a) + 1
          /\ SumFunctionOnSet(h, a + 1..n - 1) = SumFunctionOnSet(row, a + 1..n - 1)
      <4> HIDE DEF n, row, a
      <4> QED BY <1>k, RowHit DEF a
    <3> HIDE DEF row, n
    <3>2. passed'[k] = h
      BY <1>h
    <3> HIDE DEF h
    <3> QED BY <3>1, <3>2
  <2>3. CASE count[k] = 0
    BY <1>h, <1>k, <1>n, <2>1, <2>2, <2>3 DEF HitsOf
  <2>4. CASE count[k] > 0
    BY <1>h, <1>k, <1>r, <2>1, <2>2, <2>4 DEF HitsOf
  <2> QED BY <1>k, <2>3, <2>4
<1>1. ASSUME NEW v \in Visitors, Incr(v) PROVE HitsOf(k)'
  <2>1. CASE k # Key(v)
    BY <1>1, <2>1, <1>s DEF Incr, RedisIncr, TypeOK
  <2>2. CASE k = Key(v) /\ Allowed(k, count[k] + 1)
    BY <1>1, <2>2, <1>h DEF Incr, RedisIncr, TypeOK, Allowed
  <2>3. CASE k = Key(v) /\ ~Allowed(k, count[k] + 1)
    BY <1>1, <2>3, <1>c DEF Incr, RedisIncr, TypeOK
  <2> QED BY <2>1, <2>2, <2>3
<1>2. ASSUME NEW v \in Visitors, IncrReplyLost(v) PROVE HitsOf(k)'
  <2>1. CASE k # Key(v)
    BY <1>2, <2>1, <1>s DEF IncrReplyLost, RedisIncr, TypeOK
  <2>2. CASE k = Key(v)
    BY <1>2, <2>2, <1>c DEF IncrReplyLost, RedisIncr, TypeOK
  <2> QED BY <2>1, <2>2
<1>3. ASSUME NEW v \in Visitors, Arrive(v) \/ Expire(v) \/ ReadTtl(v) \/ ExpireReplyLost(v)
      PROVE  HitsOf(k)'
  BY <1>3, <1>s DEF Arrive, Expire, ReadTtl, ExpireReplyLost, redis
<1>4. CASE Crash \/ UNCHANGED vars
  BY <1>4, <1>s DEF Crash, redis, vars
<1>5. CASE Tick
  <2> DEFINE h == passed'[k]  a == Span(k)
  <2>1. h = [i \in DOMAIN row |-> IF i = 0 THEN 0 ELSE row[i - 1]]
    BY <1>5 DEF Tick
  <2>2. h[0] = 0 /\ \A i \in 0..n - 2 : h[i + 1] = row[i]
    <3> HIDE DEF h, row
    <3> QED BY <1>k, <2>1
  <2>3. /\ SumFunctionOnSet(h, 0..n - 1) <= SumFunctionOnSet(row, 0..n - 1)
        /\ a + 1 < n => SumFunctionOnSet(h, 0..a + 1) = SumFunctionOnSet(row, 0..a)
        /\ a + 1 < n => SumFunctionOnSet(h, a + 2..n - 1) <= SumFunctionOnSet(row, a + 1..n - 1)
    <3> HIDE DEF h, row, n, a
    <3> QED BY <1>k, <2>2, RowShift DEF a
  <2>4. /\ SumFunctionOnSet(row, 0..n - 1) \in Nat
        /\ SumFunctionOnSet(h, 0..n - 1) \in Nat
        /\ a + 1 < n => /\ SumFunctionOnSet(row, a + 1..n - 1) \in Nat
                        /\ SumFunctionOnSet(h, a + 2..n - 1) \in Nat
    <3>1. /\ 0 \in Nat /\ n - 1 \in Int /\ n - 1 < n /\ a + 1 \in Nat /\ a + 2 \in Nat
          /\ h \in [0..n - 1 -> Nat]
      <4>1. \A i \in 0..n - 1 : i # 0 => i - 1 \in 0..n - 1
        BY <1>k
      <4>2. DOMAIN row = 0..n - 1 /\ \A i \in 0..n - 1 : row[i] \in Nat
        BY <1>k
      <4> HIDE DEF row, n
      <4> QED BY <1>k, <2>1, <4>1, <4>2
    <3> HIDE DEF h, row, n, a
    <3> QED BY <1>k, <3>1, RowSums
  <2>5. ASSUME SumFunctionOnSet(row, 0..n - 1) <= lim, count'[k] = 0 PROVE HitsOf(k)'
    BY <1>k, <2>2, <2>3, <2>4, <2>5 DEF HitsOf
  <2>6. CASE ttl[k] = 1
    <3>1. count[k] > 0 /\ a = n - 1
      BY <1>k, <2>6 DEF WindowInv, NoTtl, Span
    <3>2. SumFunctionOnSet(row, 0..n - 1) <= lim /\ count'[k] = 0
      BY <1>k, <1>5, <2>6, <3>1 DEF HitsOf, Tick
    <3> QED BY <2>5, <3>2
  <2>7. CASE count[k] = 0
    BY <1>k, <1>5, <2>5, <2>7 DEF HitsOf, Tick
  <2>8. CASE count[k] > 0 /\ ttl[k] # 1
    <3>1. count'[k] = count[k] /\ age'[k] = IF age[k] < n THEN age[k] + 1 ELSE age[k]
      BY <1>5, <2>8 DEF Tick
    <3>2. CASE a + 1 < n
      <4>1. Span(k)' = a + 1
        BY <1>k, <3>1, <3>2 DEF Span
      <4> QED BY <1>k, <2>3, <2>4, <2>8, <3>1, <3>2, <4>1 DEF HitsOf
    <3>3. CASE a = n - 1
      <4>1. Span(k)' = n - 1 /\ n..n - 1 = {}
        BY <1>k, <3>1, <3>3 DEF Span
      <4>2. SumFunctionOnSet(h, n..n - 1) = 0
        BY <4>1, SumEmpty
      <4> QED BY <1>k, <2>3, <2>4, <2>8, <3>1, <3>3, <4>1, <4>2 DEF HitsOf
    <3> QED BY <1>k, <3>2, <3>3
  <2> QED BY <1>k, <2>6, <2>7, <2>8
<1> QED BY <1>1, <1>2, <1>3, <1>4, <1>5 DEF Next, Step, Lost

(* No span of one time to live lets more than two windows' worth through:  *)
(* what it holds belongs to the window it is in and to one before.         *)
THEOREM TwoWindowsAtMost == Spec => []SlidingBound
<1>1. Init => HitsInv
  <2> SUFFICES ASSUME Init, NEW k \in Keys PROVE HitsOf(k)
    BY DEF HitsInv
  <2> DEFINE n == Ttl[k[1]]
  <2>1. /\ n \in Nat \ {0} /\ Limit[k[1]] \in Nat \ {0} /\ count[k] = 0
        /\ passed[k] = [i \in 0..n - 1 |-> 0]
    BY KeyParameters DEF Init
  <2>2. IsFiniteSet(0..n - 1)
    BY <2>1, FiniteInterval
  <2>3. SumFunctionOnSet(passed[k], 0..n - 1) = 0
    BY <2>1, <2>2, SumZero
  <2> QED BY <2>1, <2>3 DEF HitsOf
<1>2. TypeOK /\ HitsInv => SlidingBound
  <2> SUFFICES ASSUME TypeOK, HitsInv, NEW k \in Keys
               PROVE  SumFunction(passed[k]) <= 2 * Limit[k[1]]
    BY DEF SlidingBound
  <2> DEFINE n == Ttl[k[1]]  row == passed[k]
  <2>1. /\ n \in Nat \ {0} /\ Limit[k[1]] \in Nat /\ count[k] \in Nat /\ HitsOf(k)
        /\ row \in [0..n - 1 -> Nat] /\ Span(k) \in 0..n - 1
    BY KeyParameters DEF TypeOK, HitsInv, Span
  <2>2. SumFunction(row) = SumFunctionOnSet(row, 0..n - 1)
    BY <2>1 DEF SumFunction
  <2>3. CASE count[k] = 0
    <3>1. SumFunctionOnSet(row, 0..n - 1) <= Limit[k[1]]
      BY <2>1, <2>3 DEF HitsOf
    <3>2. SumFunctionOnSet(row, 0..n - 1) \in Nat
      <4>1. 0 \in Nat /\ n - 1 \in Int /\ n - 1 < n
        BY <2>1
      <4> HIDE DEF n, row
      <4> QED BY <2>1, <4>1, RowSums
    <3> QED BY <2>1, <2>2, <3>1, <3>2
  <2>4. CASE count[k] > 0
    <3> DEFINE S == 0..Span(k)  T == Span(k) + 1..n - 1
    <3>1. SumFunctionOnSet(row, S) <= Limit[k[1]] /\ SumFunctionOnSet(row, T) <= Limit[k[1]]
      BY <2>1, <2>4 DEF HitsOf
    <3>2. S \cup T = 0..n - 1 /\ S \cap T = {} /\ \A i \in S \cup T : row[i] \in Nat
      BY <2>1
    <3>3. IsFiniteSet(S) /\ IsFiniteSet(T)
      BY <2>1, FiniteInterval
    <3> HIDE DEF S, T, row
    <3>4. SumFunctionOnSet(row, S \cup T) = SumFunctionOnSet(row, S) + SumFunctionOnSet(row, T)
      BY <3>2, <3>3, SumParts
    <3>5. SumFunctionOnSet(row, S) \in Nat /\ SumFunctionOnSet(row, T) \in Nat
      BY <3>2, <3>3, SumNat
    <3>6. SumFunction(row) = SumFunctionOnSet(row, S) + SumFunctionOnSet(row, T)
      BY <2>2, <3>2, <3>4 DEF row
    <3>7. SumFunction(row) <= 2 * Limit[k[1]]
      BY <2>1, <3>1, <3>5, <3>6
    <3> QED BY <3>7 DEF row
  <2> QED BY <2>1, <2>3, <2>4
<1> QED BY <1>1, <1>2, HitsStep, TypeCorrect, WindowInvariant, PTL DEF Spec

-----------------------------------------------------------------------------
(* As long as no reply is lost, the request about to send EXPIRE is the    *)
(* only one that will, and it finds its key counted and without expiry:    *)
(* the key cannot go away in between, because it has no expiry yet.        *)
OneExpire ==
  /\ \A v \in Visitors : pc[v] = "expire" => count[Key(v)] > 0 /\ ttl[Key(v)] = NoTtl
  /\ \A v, w \in Visitors :
       pc[v] = "expire" /\ pc[w] = "expire" /\ Key(v) = Key(w) => v = w

Undropped == drops = 0 => OneExpire

(* Until a reply is lost, at most one request is about to set the expiry   *)
(* of a counter, and the counter has none yet.                             *)
LEMMA OneExpireStep == TypeOK /\ WindowInv /\ Undropped /\ [Next]_vars => Undropped'
<1> SUFFICES ASSUME TypeOK, WindowInv, Undropped, [Next]_vars, drops' = 0 PROVE OneExpire'
  BY DEF Undropped
<1>5. \A v \in Visitors : ~Lost(v)
  BY DEF Lost, IncrReplyLost, ExpireReplyLost, TypeOK
<1>0. OneExpire
  <2>1. drops = 0
    BY <1>5 DEF Next, Step, Arrive, Incr, Expire, ReadTtl, Tick, Crash, vars
  <2> QED BY <2>1 DEF Undropped
<1> USE <1>0 DEF OneExpire
<1>k. \A v \in Visitors : Key(v) \in Keys
  BY KeyIsKey DEF Key, TypeOK
<1>1. ASSUME NEW v \in Visitors, Arrive(v) PROVE OneExpire'
  BY <1>1 DEF Arrive, redis, Key, TypeOK
<1>2. ASSUME NEW v \in Visitors, Incr(v) PROVE OneExpire'
  <2>1. \A w \in Visitors : Key(w)' = Key(w) /\ (w # v => pc'[w] = pc[w])
    BY <1>2 DEF Incr, Key, TypeOK
  <2>2. /\ ttl' = ttl
        /\ \A w \in Visitors : count[Key(w)] > 0 => count'[Key(w)] > 0
        /\ count'[Key(v)] > 0
    BY <1>2, <1>k DEF Incr, RedisIncr, TypeOK
  <2>3. pc'[v] = "expire" => count[Key(v)] = 0
    BY <1>2, <1>k DEF Incr, AfterIncr, TypeOK
  <2>4. count[Key(v)] = 0 => /\ ttl[Key(v)] = NoTtl
                             /\ \A w \in Visitors : pc[w] = "expire" => Key(w) # Key(v)
    BY <1>k DEF WindowInv
  <2> QED BY <2>1, <2>2, <2>3, <2>4
<1>3. ASSUME NEW v \in Visitors, Expire(v) PROVE OneExpire'
  <2>1. \A w \in Visitors : Key(w)' = Key(w)
    BY <1>3 DEF Expire, Key
  <2>2. \A w \in Visitors : pc'[w] = "expire" => w # v /\ pc[w] = "expire"
    BY <1>3 DEF Expire, TypeOK
  <2>3. \A w \in Visitors : pc'[w] = "expire" => ttl'[Key(w)] = ttl[Key(w)]
    BY <1>3, <2>2, <1>k DEF Expire, RedisExpire, TypeOK
  <2> QED BY <1>3, <2>1, <2>2, <2>3 DEF Expire
<1>4. ASSUME NEW v \in Visitors, ReadTtl(v) PROVE OneExpire'
  <2>1. \A w \in Visitors : pc'[w] = "expire" => pc[w] = "expire" /\ Key(w)' = Key(w)
    BY <1>4 DEF ReadTtl, Key, TypeOK
  <2> QED BY <1>4, <2>1 DEF ReadTtl, redis
<1>6. CASE Crash
  BY <1>6 DEF Crash
<1>7. CASE Tick
  <2>1. \A w \in Visitors : Key(w)' = Key(w) /\ pc'[w] = pc[w]
    BY <1>7 DEF Tick, proc, Key
  <2>2. \A k \in Keys : ttl[k] = NoTtl => ttl'[k] = NoTtl /\ count'[k] = count[k]
    BY <1>7 DEF Tick, NoTtl
  <2> QED BY <2>1, <2>2, <1>k
<1>8. CASE UNCHANGED vars
  BY <1>8 DEF vars, Key
<1> QED BY <1>1, <1>2, <1>3, <1>4, <1>5, <1>6, <1>7, <1>8 DEF Next, Step

(* Until a reply is lost, an expiry once set is never pushed back: crashes *)
(* and any interleaving of requests leave the window where it is.          *)
THEOREM WindowsAreFixed == Spec => ExpiryNotReset
<1> DEFINE Kept == drops = 0 => \A k \in Keys : ttl[k] # NoTtl /\ count'[k] > 0 => ttl'[k] <= ttl[k]
<1>1. Init => Undropped
  BY DEF Init, Undropped, OneExpire
<1>2. TypeOK /\ WindowInv /\ Undropped /\ [Next]_vars => Undropped'
  BY OneExpireStep
<1>3. TypeOK /\ Undropped /\ [Next]_vars => [Kept]_vars
  <2> SUFFICES ASSUME TypeOK, OneExpire, [Next]_vars, drops = 0,
                      NEW k \in Keys, ttl[k] # NoTtl, count'[k] > 0
               PROVE  ttl'[k] <= ttl[k]
    BY DEF NoTtl, Undropped
  <2>0. ttl[k] \in Nat
    BY DEF TypeOK
  <2>s. ttl' = ttl => ttl'[k] <= ttl[k]
    BY <2>0
  <2>1. ASSUME NEW v \in Visitors, Expire(v) PROVE ttl'[k] <= ttl[k]
    <3>1. k # Key(v)
      BY <2>1 DEF Expire, OneExpire
    <3>2. ttl'[k] = ttl[k]
      BY <2>1, <3>1 DEF Expire, RedisExpire, TypeOK
    <3> QED BY <3>2, <2>0
  <2>2. ASSUME NEW v \in Visitors, Arrive(v) \/ Incr(v) \/ ReadTtl(v) PROVE ttl'[k] <= ttl[k]
    BY <2>2, <2>s DEF Arrive, Incr, ReadTtl, redis
  <2>3. ASSUME NEW v \in Visitors, Lost(v) PROVE ttl'[k] <= ttl[k]
    <3>1. CASE IncrReplyLost(v)
      BY <3>1, <2>s DEF IncrReplyLost
    <3>2. CASE ExpireReplyLost(v)
      <4>1. k # Key(v)
        BY <3>2 DEF ExpireReplyLost, OneExpire
      <4>2. ttl'[k] = ttl[k]
        BY <3>2, <4>1 DEF ExpireReplyLost, RedisExpire, TypeOK
      <4> QED BY <4>2, <2>0
    <3> QED BY <2>3, <3>1, <3>2 DEF Lost
  <2>4. CASE Tick
    BY <2>4, <2>0 DEF Tick, NoTtl
  <2>5. CASE Crash \/ UNCHANGED vars
    BY <2>5, <2>s DEF Crash, vars, redis
  <2> QED BY <2>1, <2>2, <2>3, <2>4, <2>5 DEF Next, Step
<1> QED BY <1>1, <1>2, <1>3, TypeCorrect, WindowInvariant, PTL DEF Spec, ExpiryNotReset

-----------------------------------------------------------------------------
(* What ends every call is a crash to the limiter, or nothing. *)
LEMMA EndCallsIsCrash == EndCalls => [Next]_vars /\ InFlight' = {} /\ unanswered' = {} /\ ping' = "none"
  BY DEF EndCalls, Next, InFlight, Crash, vars

(* Every step of the client is a step of the limiter or leaves it alone. *)
LEMMA LimiterStep == [ClientNext]_clientVars => [Next]_vars
<1> SUFFICES ASSUME [ClientNext]_clientVars PROVE [Next]_vars
  OBVIOUS
<1>1. ASSUME NEW v \in Visitors, Call(v) \/ Command(v) \/ LoseReply(v) PROVE [Next]_vars
  BY <1>1 DEF Call, Command, LoseReply, Next
<1>2. CASE HealthCheck \/ Pong \/ Connect
  BY <1>2 DEF HealthCheck, Pong, Connect
<1>3. CASE Break \/ AttemptFails \/ Restart
  BY <1>3, EndCallsIsCrash DEF Break, AttemptFails, Restart, Retry
<1>4. CASE RedisTick \/ UNCHANGED clientVars
  BY <1>4 DEF RedisTick, clientVars, Next
<1> QED BY <1>1, <1>2, <1>3, <1>4 DEF ClientNext

(* The client's actions are made of the limiter's, so what is proved of    *)
(* the limiter holds behind the client.                                    *)
LEMMA LimiterBehindClient == ClientSpec => Spec
<1>1. ClientInit => Init
  BY DEF ClientInit
<1> QED BY <1>1, LimiterStep, PTL DEF ClientSpec, Spec

(* So through any outage no window closes early, two windows bound what    *)
(* gets through, and until a fault every counter gets its expiry.          *)
THEOREM LimiterHolds ==
  ClientSpec => IsFixedWindow /\ ExpiryNotReset /\ [](TypeOK /\ StuckOnlyByFaults /\ SlidingBound)
  BY LimiterBehindClient, ImplementsFixedWindow, TypeCorrect, CountersExpire, WindowsAreFixed,
     TwoWindowsAtMost, PTL
-----------------------------------------------------------------------------
(* Only a request that is under way has commands. *)
LEMMA StepsInFlight ==
  ASSUME TypeOK, NEW v \in Visitors, Step(v) \/ Lost(v)
  PROVE  v \in InFlight /\ \A w \in Visitors \ {v} : pc'[w] = pc[w]
  BY DEF TypeOK, InFlight, Step, Lost, Incr, Expire, ReadTtl, IncrReplyLost, ExpireReplyLost, proc

(* Every step keeps the types of the client.                               *)
LEMMA ClientTypeStep == TypeOK /\ ClientTypeOK /\ [ClientNext]_clientVars => ClientTypeOK'
<1> SUFFICES ASSUME TypeOK, ClientTypeOK, [ClientNext]_clientVars PROVE ClientTypeOK'
  OBVIOUS
<1> USE RetriesAssumption DEF ClientTypeOK
<1>1. ASSUME NEW v \in Visitors, Call(v) PROVE ClientTypeOK'
  <2>1. InFlight \subseteq InFlight'
    BY <1>1 DEF Call, Arrive, InFlight, TypeOK
  <2> QED BY <1>1, <2>1 DEF Call, client
<1>2. ASSUME NEW v \in Visitors, Command(v) PROVE ClientTypeOK'
  BY <1>2 DEF Command, Answering, client
<1>3. ASSUME NEW v \in Visitors, LoseReply(v) PROVE ClientTypeOK'
  <2>1. v \in InFlight
    BY <1>3, StepsInFlight DEF LoseReply
  <2>2. InFlight' = InFlight
    BY <1>3 DEF LoseReply, Lost, IncrReplyLost, ExpireReplyLost, proc, InFlight
  <2> QED BY <1>3, <2>1, <2>2 DEF LoseReply
<1>4. CASE HealthCheck \/ Pong \/ Connect
  BY <1>4 DEF HealthCheck, Pong, Connect, vars, InFlight
<1>5. ASSUME Retry, breaks' \in Nat PROVE ClientTypeOK'
  <2>1. CASE ~GivesUp(retries + 1)
    BY <1>5, <2>1 DEF Retry, GivesUp, vars, InFlight
  <2>2. CASE GivesUp(retries + 1)
    BY <1>5, <2>2, EndCallsIsCrash DEF Retry
  <2> QED BY <2>1, <2>2
<1>6. CASE Break \/ AttemptFails
  BY <1>5, <1>6 DEF Break, AttemptFails
<1>7. CASE Restart
  BY <1>7, EndCallsIsCrash DEF Restart
<1>8. CASE RedisTick \/ UNCHANGED clientVars
  BY <1>8 DEF RedisTick, Tick, proc, client, clientVars, vars, InFlight
<1> QED BY <1>1, <1>2, <1>3, <1>4, <1>6, <1>7, <1>8 DEF ClientNext

(* Type correctness: in particular nothing waits for a client that has     *)
(* given up.                                                               *)
THEOREM ClientTypeCorrect == ClientSpec => []ClientTypeOK
<1>1. ClientInit => ClientTypeOK
  BY RetriesAssumption DEF ClientInit, ClientTypeOK, Init, InFlight
<1> QED BY <1>1, ClientTypeStep, LimiterHolds, PTL DEF ClientSpec

(* A ready connection starts counting attempts from nothing. *)
ReadyStartsOver == status = "ready" => retries = 0

(* However many outages a process has been through, none of them ends its  *)
(* client at once.                                                         *)
THEOREM OutagesAreApart == ClientSpec => OutagesDoNotAddUp
<1>1. ClientInit => ReadyStartsOver
  BY DEF ClientInit, ReadyStartsOver
<1>2. ReadyStartsOver /\ [ClientNext]_clientVars => ReadyStartsOver'
  BY DEF ReadyStartsOver, ClientNext, Call, Command, LoseReply, HealthCheck, Pong, Connect, Break,
         AttemptFails, Retry, Restart, RedisTick, clientVars, client
<1>3. ReadyStartsOver /\ [ClientNext]_clientVars => [status = "ready" => status' # "end"]_clientVars
  BY RetriesAssumption
     DEF ReadyStartsOver, ClientNext, Call, Command, LoseReply, HealthCheck, Pong, Connect, Break,
         AttemptFails, Retry, GivesUp, Restart, RedisTick, clientVars, client
<1> QED BY <1>1, <1>2, <1>3, PTL DEF ClientSpec, OutagesDoNotAddUp
=============================================================================
