--------------------------- MODULE HttpShellProofs ---------------------------
(***************************************************************************)
(* What a walk over the pages shows, whatever is created and deleted       *)
(* meanwhile, and what a request passes before a handler runs: for any     *)
(* number of rows, any page sizes and any requests.                        *)
(***************************************************************************)
EXTENDS HttpShell, SumTheorems, SequenceTheorems

(* The rows a page by page walk shows before row i, as the table stands.   *)
Before(i) == {j \in There : born[j] > born[i]}
Rank(i)   == Cardinality(Before(i))

WalkTypeOK ==
  /\ born \in [Rows -> Times \cup {None}] /\ gone \subseteq Rows /\ stayed \subseteq There
  /\ limit \in Limits /\ page \in Nat /\ asked \in BOOLEAN
  /\ total \in Nat \cup {None} /\ (data = None \/ data \subseteq Rows)
  /\ seen \in [Rows -> Nat] /\ noise \subseteq {"insert", "delete", "tie", "late"}
  /\ ~asked => total = None /\ data = None
  /\ asked => page > 0

(* Without insertions and ties, what was shown comes before the page the   *)
(* client is at, and what is about to be shown was not shown yet.          *)
ShownOf(i) ==
  /\ seen[i] <= 1
  /\ page > 0 /\ i \in There /\ seen[i] = 1 => Rank(i) < Skip(page, limit)
  /\ data # None /\ i \in data =>
       /\ seen[i] = 0
       /\ i \in There => Rank(i) < Skip(page, limit) + limit
ShownInv == noise \cap {"insert", "tie"} = {} => \A i \in Rows : ShownOf(i)

(* Without deletions and ties, what is still to be shown does not come     *)
(* before the page the client is at, so the next count is large enough to  *)
(* announce it, unless a row was created between a count and its page.     *)
Due(i) == i \in stayed /\ seen[i] = 0 /\ (data # None => i \notin data)
MissedOf(i) ==
  /\ page > 0 => Rank(i) >= Skip(page, limit) + (IF data = None THEN 0 ELSE limit)
  /\ "late" \notin noise =>
       /\ page > 0
       /\ total # None /\ data # None => total > Skip(page, limit) + limit
MissedInv == noise \cap {"delete", "tie"} = {} =>
   /\ "late" \notin noise /\ total # None /\ data = None => total = Cardinality(There)
   /\ \A i \in Rows : Due(i) => MissedOf(i)

WalkInv == WalkTypeOK /\ ShownInv /\ MissedInv

WalkStep == \/ Ask \/ FindMany \/ Count \/ Reply
            \/ \E i \in Rows : CreateRow(i) \/ DeleteRow(i)
-----------------------------------------------------------------------------
(* How many rows come before one is a number below that of all the rows.   *)
LEMMA RankBounds ==
  ASSUME WalkTypeOK, NEW i \in There
  PROVE  /\ Rank(i) \in Nat /\ Cardinality(There) \in Nat
         /\ Rank(i) < Cardinality(There) /\ IsFiniteSet(Before(i))
<1>1. IsFiniteSet(There) /\ IsFiniteSet(Before(i))
  <2>1. There \in SUBSET Rows /\ Before(i) \in SUBSET Rows
    BY DEF There, Before
  <2> QED BY <2>1, ListingAssumption, FS_Subset
<1>2. Before(i) \in SUBSET There /\ i \notin Before(i)
  <2>1. born[i] \in Nat
    BY ListingAssumption DEF There, WalkTypeOK
  <2> QED BY <2>1 DEF Before
<1>3. /\ Rank(i) <= Cardinality(There)
      /\ Cardinality(There) = Rank(i) => Before(i) = There
  BY <1>1, <1>2, FS_Subset DEF Rank
<1>4. Rank(i) \in Nat /\ Cardinality(There) \in Nat
  BY <1>1, FS_CardinalityType DEF Rank
<1> QED BY <1>1, <1>2, <1>3, <1>4

(* In a list of the rows, each row has a place. *)
LEMMA EveryRowListed ==
  ASSUME WalkTypeOK, NEW s \in NewestFirst, NEW i \in There
  PROVE  \E k \in DOMAIN s : s[k] = i
<1> DEFINE n == Cardinality(There)
<1>1. IsFiniteSet(There) /\ n \in Nat
  <2>1. There \in SUBSET Rows
    BY DEF There
  <2>2. IsFiniteSet(There)
    BY <2>1, ListingAssumption, FS_Subset
  <2> QED BY <2>2, FS_CardinalityType
<1>2. s \in [1..n -> There] /\ s \in Injection(1..n, There)
  <2>1. s \in SetToSeqs(There)
    BY DEF NewestFirst
  <2>2. s \in [1..n -> There] /\ \A j, k \in 1..n : j # k => s[j] # s[k]
    BY <2>1 DEF SetToSeqs
  <2> HIDE DEF n
  <2> QED BY <2>2 DEF Injection, IsInjective
<1>3. Cardinality(1..n) = n
  BY <1>1, FS_Interval
<1>4. s \in Surjection(1..n, There)
  BY <1>1, <1>2, <1>3, FS_Injection
<1> QED BY <1>2, <1>4 DEF Surjection

(* Without ties, a row's place in the list is given by its rank. *)
LEMMA PlaceIsRank ==
  ASSUME WalkTypeOK, ~Ties, NEW s \in NewestFirst, NEW k \in DOMAIN s
  PROVE  s[k] \in There /\ k \in Nat /\ Rank(s[k]) = k - 1
<1> DEFINE n == Cardinality(There)  i == s[k]
<1>1. /\ s \in [1..n -> There] /\ DOMAIN s = 1..n
      /\ \A j, m \in 1..n : j # m => s[j] # s[m]
      /\ \A j, m \in 1..n : j < m => born[s[j]] >= born[s[m]]
  <2>1. s \in SetToSeqs(There) /\ \A j, m \in DOMAIN s : j < m => born[s[j]] >= born[s[m]]
    BY DEF NewestFirst
  <2>2. s \in [1..n -> There] /\ \A j, m \in 1..n : j # m => s[j] # s[m]
    BY <2>1 DEF SetToSeqs
  <2> HIDE DEF n
  <2> QED BY <2>1, <2>2
<1>2. n \in Nat
  <2>1. There \in SUBSET Rows
    BY DEF There
  <2> QED BY <2>1, ListingAssumption, FS_Subset, FS_CardinalityType
<1> HIDE DEF n
<1>3. k \in 1..n /\ k - 1 \in Nat /\ i \in There
  BY <1>1, <1>2
<1>4. \A j \in There : born[j] \in Nat
  BY ListingAssumption DEF There, WalkTypeOK
<1>5. \A j \in 1..n : born[s[j]] > born[i] <=> j < k
  <2> SUFFICES ASSUME NEW j \in 1..n PROVE born[s[j]] > born[i] <=> j < k
    OBVIOUS
  <2>1. s[j] \in There /\ born[s[j]] \in Nat /\ born[i] \in Nat
    BY <1>1, <1>3, <1>4
  <2>2. CASE j < k
    <3>1. born[s[j]] >= born[i] /\ s[j] # i
      BY <1>1, <1>3, <2>2
    <3>2. born[s[j]] # born[i]
      BY <1>3, <2>1, <3>1 DEF Ties
    <3> QED BY <2>1, <2>2, <3>1, <3>2
  <2>3. CASE j = k
    BY <2>1, <2>3
  <2>4. CASE j > k
    <3>1. born[i] >= born[s[j]]
      BY <1>1, <1>3, <2>4
    <3> QED BY <1>2, <1>3, <2>1, <2>4, <3>1
  <2> QED BY <1>3, <2>2, <2>3, <2>4
<1> DEFINE f == [j \in 1..k - 1 |-> s[j]]
<1>6. f \in Bijection(1..k - 1, Before(i))
  <2>1. ASSUME NEW j \in 1..k - 1 PROVE j \in 1..n /\ f[j] = s[j] /\ s[j] \in Before(i)
    <3>1. j \in 1..n /\ j < k /\ f[j] = s[j]
      BY <1>2, <1>3
    <3>2. s[j] \in There /\ born[s[j]] > born[i]
      BY <1>1, <1>5, <3>1
    <3> QED BY <3>1, <3>2 DEF Before
  <2>2. f \in [1..k - 1 -> Before(i)]
    BY <2>1
  <2>3. \A a, b \in 1..k - 1 : f[a] = f[b] => a = b
    BY <1>1, <2>1
  <2>4. ASSUME NEW j \in Before(i) PROVE \E a \in 1..k - 1 : f[a] = j
    <3>1. j \in There /\ born[j] > born[i]
      BY DEF Before
    <3>2. PICK m \in 1..n : s[m] = j
      BY <1>1, <3>1, EveryRowListed
    <3>3. m < k
      BY <1>5, <3>1, <3>2
    <3>4. m \in 1..k - 1
      BY <1>2, <1>3, <3>3
    <3> QED BY <3>2, <3>4
  <2> HIDE DEF f
  <2> QED BY <2>2, <2>3, <2>4 DEF Bijection, Injection, IsInjective, Surjection
<1>7. Cardinality(Before(i)) = k - 1
  <2>1. ExistsBijection(1..k - 1, Before(i))
    BY <1>6 DEF ExistsBijection
  <2> HIDE DEF i
  <2> QED BY <1>3, <2>1, FS_CountingElements
<1> QED BY <1>3, <1>7 DEF Rank

-----------------------------------------------------------------------------
(* The page after p starts where page p ends, and the first one at 0. *)
LEMMA SkipNext ==
  ASSUME NEW p \in Int, NEW n \in Int
  PROVE  Skip(p, n) \in Int /\ Skip(p + 1, n) = Skip(p, n) + n /\ Skip(1, n) = 0
  BY DEF Skip

(* The page the client is at starts at a number that is not negative.      *)
LEMMA SkipNat ==
  ASSUME WalkTypeOK, page > 0
  PROVE  /\ Skip(page, limit) \in Nat /\ limit \in Nat \ {0}
         /\ Skip(page + 1, limit) = Skip(page, limit) + limit
<1>1. limit \in Nat \ {0} /\ page - 1 \in Nat
  BY ListingAssumption DEF WalkTypeOK
<1>2. Skip(page, limit) \in Nat
  BY <1>1 DEF Skip
<1>3. Skip(page + 1, limit) = Skip(page, limit) + limit
  BY <1>1, SkipNext DEF WalkTypeOK
<1> QED BY <1>1, <1>2, <1>3

(* A page has rows that are there, and without ties exactly those whose    *)
(* rank is one of its places.                                              *)
LEMMA PageShows ==
  ASSUME WalkTypeOK, FindMany
  PROVE  /\ data' \subseteq There /\ data' # None
         /\ ~Ties => \A i \in There :
              i \in data' <=> Skip(page, limit) <= Rank(i) /\ Rank(i) < Skip(page, limit) + limit
<1> DEFINE a == Skip(page, limit)
<1>0. a \in Nat /\ limit \in Nat \ {0}
  BY SkipNat DEF FindMany, WalkTypeOK
<1>1. PICK s \in NewestFirst : data' = {s[j] : j \in (a + 1 .. a + limit) \cap DOMAIN s}
  BY DEF FindMany
<1> HIDE DEF a
<1>2. \A j \in DOMAIN s : s[j] \in There
  <2>1. s \in SetToSeqs(There)
    BY DEF NewestFirst
  <2> QED BY <2>1 DEF SetToSeqs
<1>3. data' \subseteq There
  BY <1>1, <1>2
<1>4. data' # None
  BY <1>3, ListingAssumption DEF There
<1>5. ASSUME ~Ties, NEW i \in There
      PROVE  i \in data' <=> a <= Rank(i) /\ Rank(i) < a + limit
  <2>1. PICK k \in DOMAIN s : s[k] = i
    BY EveryRowListed
  <2>2. k \in Nat /\ Rank(i) = k - 1
    BY <1>5, <2>1, PlaceIsRank
  <2>3. CASE k \in a + 1 .. a + limit
    <3>1. i \in data'
      BY <1>1, <2>1, <2>3
    <3> QED BY <1>0, <2>2, <2>3, <3>1
  <2>4. CASE k \notin a + 1 .. a + limit
    <3>1. ASSUME NEW j \in (a + 1 .. a + limit) \cap DOMAIN s PROVE s[j] # i
      <4>1. j \in Nat /\ Rank(s[j]) = j - 1
        BY <1>5, PlaceIsRank
      <4>2. j # k
        BY <2>4
      <4> QED BY <2>2, <4>1, <4>2
    <3>2. i \notin data'
      BY <1>1, <3>1
    <3> QED BY <1>0, <2>2, <2>4, <3>2
  <2> QED BY <2>3, <2>4
<1> QED BY <1>3, <1>4, <1>5 DEF a

(* Every step of the walk and of the table keeps the types. *)
LEMMA WalkTyping ==
  ASSUME WalkTypeOK, WalkStep
  PROVE  WalkTypeOK'
<1>1. CASE Ask
  BY <1>1 DEF Ask, WalkTypeOK, table, walk, answers, There
<1>2. CASE FindMany
  <2>1. data' \subseteq Rows
    BY <1>2, PageShows DEF There
  <2> QED BY <1>2, <2>1 DEF FindMany, WalkTypeOK, table, walk, There
<1>3. CASE Count
  <2>1. Cardinality(There) \in Nat
    <3>1. There \in SUBSET Rows
      BY DEF There
    <3> QED BY <3>1, ListingAssumption, FS_Subset, FS_CardinalityType
  <2> QED BY <1>3, <2>1 DEF Count, WalkTypeOK, table, walk, There
<1>4. CASE Reply
  <2>1. seen' \in [Rows -> Nat] /\ page' \in Nat
    BY <1>4 DEF Reply, WalkTypeOK
  <2> QED BY <1>4, <2>1 DEF Reply, WalkTypeOK, table, There
<1>5. ASSUME NEW i \in Rows, CreateRow(i) PROVE WalkTypeOK'
  <2>1. born' \in [Rows -> Times \cup {None}] /\ \A j \in There : j \in There'
    BY <1>5 DEF CreateRow, WalkTypeOK, There
  <2> QED BY <1>5, <2>1 DEF CreateRow, WalkTypeOK, walk, answers
<1>6. ASSUME NEW i \in Rows, DeleteRow(i) PROVE WalkTypeOK'
  <2>1. born' \in [Rows -> Times \cup {None}] /\ \A j \in There \ {i} : j \in There'
    BY <1>6 DEF DeleteRow, WalkTypeOK, There
  <2> QED BY <1>6, <2>1 DEF DeleteRow, WalkTypeOK, walk, answers
<1> QED BY <1>1, <1>2, <1>3, <1>4, <1>5, <1>6 DEF WalkStep

(* While the table stays, so do the ranks; inserting a row only adds to    *)
(* them, deleting one only takes away.                                     *)
LEMMA RanksGrow ==
  ASSUME WalkTypeOK, WalkTypeOK', NEW k \in Rows, CreateRow(k), NEW i \in There
  PROVE  i \in There' /\ Rank(i)' \in Nat /\ Rank(i)' >= Rank(i)
<1>1. \A j \in There : j \in There' /\ born'[j] = born[j]
  BY DEF CreateRow, WalkTypeOK, There
<1>2. Before(i) \subseteq Before(i)'
  BY <1>1 DEF Before
<1>3. There' \in SUBSET Rows /\ Before(i)' \in SUBSET Rows
  BY DEF There, Before
<1>4. IsFiniteSet(Before(i)')
  BY <1>3, ListingAssumption, FS_Subset
<1>5. Cardinality(Before(i)') \in Nat /\ Cardinality(Before(i)') >= Cardinality(Before(i))
  <2>1. Cardinality(Before(i)) <= Cardinality(Before(i)')
    BY <1>2, <1>4, FS_Subset
  <2>2. Cardinality(Before(i)) \in Nat
    BY RankBounds DEF Rank
  <2>3. Cardinality(Before(i)') \in Nat
    BY <1>4, FS_CardinalityType
  <2> QED BY <2>1, <2>2, <2>3
<1> QED BY <1>1, <1>5 DEF Rank

(* The other way round for a deletion. *)
LEMMA RanksShrink ==
  ASSUME WalkTypeOK, WalkTypeOK', NEW k \in Rows, DeleteRow(k), NEW i \in There'
  PROVE  i \in There /\ Rank(i)' \in Nat /\ Rank(i)' <= Rank(i)
<1>1. \A j \in There' : j \in There /\ born'[j] = born[j]
  BY DEF DeleteRow, WalkTypeOK, There
<1>2. Before(i)' \subseteq Before(i)
  BY <1>1 DEF Before
<1>3. IsFiniteSet(Before(i))
  BY <1>1, RankBounds
<1>4. IsFiniteSet(Before(i)') /\ Cardinality(Before(i)') <= Cardinality(Before(i))
  BY <1>2, <1>3, FS_Subset
<1>5. Cardinality(Before(i)') \in Nat
  BY <1>4, FS_CardinalityType
<1> QED BY <1>1, <1>4, <1>5 DEF Rank

(* Every step keeps the account of what was shown. *)
LEMMA ShownStep ==
  ASSUME WalkTypeOK, WalkTypeOK', ShownInv, WalkStep
  PROVE  ShownInv'
<1> SUFFICES ASSUME noise' \cap {"insert", "tie"} = {}, NEW i \in Rows PROVE ShownOf(i)'
  BY DEF ShownInv
<1>0. ASSUME noise \cap {"insert", "tie"} = {} PROVE ShownOf(i) /\ seen[i] \in Nat /\ page \in Nat
  BY <1>0 DEF ShownInv, WalkTypeOK
<1>1. CASE Ask
  <2>1. noise \cap {"insert", "tie"} = {}
    BY <1>1 DEF Ask
  <2> QED BY <1>0, <1>1, <2>1 DEF Ask, table, answers, ShownOf, Rank, Before, There, WalkTypeOK
<1>2. CASE FindMany
  <2>1. noise \cap {"insert", "tie"} = {} /\ ~Ties
    BY <1>2 DEF FindMany
  <2>2. /\ There' = There /\ Rank(i)' = Rank(i)
        /\ seen' = seen /\ page' = page /\ limit' = limit /\ page > 0
    BY <1>2 DEF FindMany, table, walk, There, Rank, Before, WalkTypeOK
  <2>3. data' \subseteq There
    BY <1>2, PageShows
  <2>4. ASSUME i \in data' PROVE /\ seen[i] = 0 /\ Rank(i) < Skip(page, limit) + limit
    <3>1. i \in There /\ Skip(page, limit) <= Rank(i) /\ Rank(i) < Skip(page, limit) + limit
      BY <1>2, <2>1, <2>3, <2>4, PageShows
    <3>2. ~(Rank(i) < Skip(page, limit))
      BY <2>2, <3>1, RankBounds, SkipNat
    <3>3. seen[i] # 1
      BY <1>0, <2>1, <2>2, <3>1, <3>2 DEF ShownOf
    <3> QED BY <1>0, <2>1, <3>1, <3>3 DEF ShownOf
  <2> QED BY <1>0, <2>1, <2>2, <2>4 DEF ShownOf
<1>3. CASE Count
  <2>1. noise \cap {"insert", "tie"} = {}
    BY <1>3 DEF Count
  <2> QED BY <1>0, <1>3, <2>1 DEF Count, table, walk, ShownOf, Rank, Before, There
<1>4. CASE Reply
  <2>1. noise \cap {"insert", "tie"} = {} /\ page > 0
    BY <1>4 DEF Reply, WalkTypeOK
  <2>2. /\ There' = There /\ Rank(i)' = Rank(i) /\ limit' = limit /\ data' = None
        /\ page' \in {0, page + 1} /\ data # None
    BY <1>4 DEF Reply, table, There, Rank, Before
  <2>3. seen'[i] = seen[i] + (IF i \in data THEN 1 ELSE 0)
    BY <1>4 DEF Reply
  <2>4. ShownOf(i) /\ seen[i] \in Nat
    BY <1>0, <2>1
  <2>5. seen'[i] <= 1
    BY <2>2, <2>3, <2>4 DEF ShownOf
  <2>6. ASSUME page' > 0, i \in There, seen'[i] = 1 PROVE Rank(i) < Skip(page', limit)
    <3>1. page' = page + 1
      BY <2>2, <2>6
    <3>2. Rank(i) \in Nat /\ Skip(page, limit) \in Nat /\ limit \in Nat
          /\ Skip(page + 1, limit) = Skip(page, limit) + limit
      BY <2>1, <2>6, RankBounds, SkipNat
    <3>3. CASE i \in data
      <4>1. Rank(i) < Skip(page, limit) + limit
        BY <2>2, <2>4, <2>6, <3>3 DEF ShownOf
      <4> QED BY <3>1, <3>2, <4>1
    <3>4. CASE i \notin data
      <4>1. Rank(i) < Skip(page, limit)
        BY <2>1, <2>3, <2>4, <2>6, <3>4 DEF ShownOf
      <4> QED BY <3>1, <3>2, <4>1
    <3> QED BY <3>3, <3>4
  <2> QED BY <2>2, <2>5, <2>6 DEF ShownOf
<1>5. ASSUME NEW k \in Rows, CreateRow(k) PROVE ShownOf(i)'
  BY <1>5 DEF CreateRow
<1>6. ASSUME NEW k \in Rows, DeleteRow(k) PROVE ShownOf(i)'
  <2>1. noise \cap {"insert", "tie"} = {} /\ page > 0
    BY <1>6 DEF DeleteRow
  <2>2. UNCHANGED <<limit, page, seen, data>>
    BY <1>6 DEF DeleteRow, walk, answers
  <2>3. ASSUME i \in There' PROVE i \in There /\ Rank(i)' <= Rank(i) /\ Rank(i)' \in Nat /\ Rank(i) \in Nat
    <3>1. i \in There /\ Rank(i)' <= Rank(i) /\ Rank(i)' \in Nat
      BY <1>6, <2>3, RanksShrink
    <3> QED BY <3>1, RankBounds
  <2>4. Skip(page, limit) \in Nat /\ limit \in Nat
    BY <2>1, SkipNat
  <2>5. ShownOf(i)
    BY <1>0, <2>1
  <2>6. /\ i \in There' /\ seen[i] = 1 => Rank(i)' < Skip(page, limit)
        /\ data # None /\ i \in data /\ i \in There' => Rank(i)' < Skip(page, limit) + limit
    BY <2>1, <2>3, <2>4, <2>5 DEF ShownOf
  <2> QED BY <2>2, <2>5, <2>6 DEF ShownOf
<1> QED BY <1>1, <1>2, <1>3, <1>4, <1>5, <1>6 DEF WalkStep

(* A total that does not announce another page has counted no row past     *)
(* this one.                                                               *)
LEMMA LastPage ==
  ASSUME NEW t \in Nat, NEW n \in Nat \ {0}, NEW p \in Nat, ~(p < (t + n - 1) \div n)
  PROVE  ~(t > Skip(p, n) + n)
<1> DEFINE q == (t + n - 1) \div n
<1>1. q \in Int /\ t + n - 1 < n * q + n
  <2> DEFINE d == t + n - 1
  <2>1. d \in Int
    OBVIOUS
  <2> HIDE DEF d
  <2>2. d \div n \in Int /\ d < n * (d \div n) + n
    BY <2>1
  <2> QED BY <2>2 DEF d
<1>2. q <= p
  BY <1>1
<1> HIDE DEF q
<1>3. n * q <= n * p
  BY <1>1, <1>2
<1>4. n * p = Skip(p, n) + n
  BY DEF Skip
<1>5. n * p \in Int /\ n * q \in Int
  BY <1>1
<1> QED BY <1>1, <1>3, <1>4, <1>5

(* Every step keeps the account of what is still to be shown. *)
LEMMA MissedStep ==
  ASSUME WalkTypeOK, WalkTypeOK', MissedInv, WalkStep
  PROVE  MissedInv'
<1> DEFINE Counted == "late" \notin noise /\ total # None /\ data = None
                        => total = Cardinality(There)
           Quiet == noise \cap {"delete", "tie"} = {}
<1> SUFFICES ASSUME Quiet'
             PROVE  Counted' /\ \A i \in Rows : Due(i)' => MissedOf(i)'
  BY DEF MissedInv
<1>0. ASSUME Quiet PROVE Counted /\ \A i \in Rows : Due(i) => MissedOf(i)
  BY <1>0 DEF MissedInv
<1>i. ASSUME NEW i \in Rows, i \in stayed
      PROVE  /\ i \in There /\ Rank(i) \in Nat /\ Rank(i) < Cardinality(There)
             /\ Cardinality(There) \in Nat
  BY <1>i, RankBounds DEF WalkTypeOK
<1>p. ASSUME page > 0
      PROVE  Skip(page, limit) \in Nat /\ limit \in Nat \ {0}
             /\ Skip(page + 1, limit) = Skip(page, limit) + limit
  BY <1>p, SkipNat
<1>1. CASE Ask
  <2>1. /\ Quiet /\ page > 0 /\ total' = None /\ data = None /\ data' = None
        /\ UNCHANGED <<page, limit, seen, stayed, born>>
    BY <1>1 DEF Ask, table, answers, WalkTypeOK
  <2>2. There' = There
    BY <2>1 DEF There
  <2>3. \A i \in Rows : Due(i)' => MissedOf(i)'
    BY <1>0, <2>1, <2>2 DEF Due, MissedOf, Rank, Before
  <2> QED BY <2>1, <2>3
<1>2. CASE FindMany
  <2>1. /\ Quiet /\ ~Ties /\ noise' = noise /\ page > 0 /\ data = None
        /\ UNCHANGED <<page, limit, seen, stayed, born, total>>
    BY <1>2 DEF FindMany, table, walk, WalkTypeOK
  <2>2. There' = There /\ data' # None
    BY <1>2, <2>1, PageShows DEF There
  <2>3. ASSUME NEW i \in Rows, Due(i)' PROVE MissedOf(i)'
    <3>1. Due(i) /\ i \in stayed /\ i \notin data' /\ Rank(i)' = Rank(i)
      BY <2>1, <2>2, <2>3 DEF Due, Rank, Before
    <3>2. Rank(i) >= Skip(page, limit)
      <4>1. Rank(i) >= Skip(page, limit) + 0
        BY <1>0, <2>1, <3>1 DEF Due, MissedOf
      <4> QED BY <1>p, <2>1, <4>1
    <3>3. ~(Skip(page, limit) <= Rank(i) /\ Rank(i) < Skip(page, limit) + limit)
      BY <1>2, <1>i, <2>1, <3>1, PageShows
    <3>4. Rank(i) >= Skip(page, limit) + limit
      BY <1>i, <1>p, <2>1, <3>1, <3>2, <3>3
    <3>5. "late" \notin noise /\ total # None => total > Skip(page, limit) + limit
      BY <1>0, <1>i, <1>p, <2>1, <3>1, <3>4
    <3> QED BY <2>1, <2>2, <3>1, <3>4, <3>5 DEF MissedOf
  <2> QED BY <2>2, <2>3
<1>3. CASE Count
  <2>1. /\ Quiet /\ noise' = noise /\ page > 0 /\ total' = Cardinality(There)
        /\ UNCHANGED <<page, limit, seen, stayed, born, data>>
    BY <1>3 DEF Count, table, walk, WalkTypeOK
  <2>2. There' = There
    BY <2>1 DEF There
  <2>3. ASSUME NEW i \in Rows, Due(i)' PROVE MissedOf(i)'
    <3>1. Due(i) /\ i \in stayed /\ Rank(i)' = Rank(i)
      BY <2>1, <2>2, <2>3 DEF Due, Rank, Before
    <3>2. MissedOf(i)
      BY <1>0, <2>1, <3>1
    <3>3. data # None => total' > Skip(page, limit) + limit
      BY <1>i, <1>p, <2>1, <3>1, <3>2 DEF MissedOf
    <3> QED BY <2>1, <3>1, <3>2, <3>3 DEF MissedOf
  <2> QED BY <2>1, <2>2, <2>3
<1>4. CASE Reply
  <2>1. /\ Quiet /\ noise' = noise /\ page > 0 /\ data # None /\ total \in Nat
        /\ total # None /\ total' = None /\ data' = None
        /\ UNCHANGED <<limit, stayed, born>>
        /\ page' = IF page < TotalPages THEN page + 1 ELSE 0
    BY <1>4 DEF Reply, table, WalkTypeOK
  <2>2. There' = There
    BY <2>1 DEF There
  <2>3. ASSUME NEW i \in Rows, Due(i)' PROVE MissedOf(i)'
    <3>1. Due(i) /\ i \in stayed /\ Rank(i)' = Rank(i)
      <4>1. seen'[i] = seen[i] + (IF i \in data THEN 1 ELSE 0) /\ seen[i] \in Nat
        BY <1>4 DEF Reply, WalkTypeOK
      <4>2. seen'[i] = 0 /\ i \in stayed
        BY <2>1, <2>3 DEF Due
      <4>3. seen[i] = 0 /\ i \notin data
        BY <4>1, <4>2
      <4> QED BY <2>1, <2>2, <4>2, <4>3 DEF Due, Rank, Before
    <3>2. MissedOf(i)
      BY <1>0, <2>1, <3>1
    <3>3. page' > 0 => Rank(i)' >= Skip(page', limit) + 0
      <4> SUFFICES ASSUME page' > 0 PROVE Rank(i)' >= Skip(page', limit) + 0
        OBVIOUS
      <4>1. page' = page + 1
        BY <2>1
      <4>2. Rank(i) >= Skip(page, limit) + limit
        BY <2>1, <3>2 DEF MissedOf
      <4> QED BY <1>p, <2>1, <3>1, <4>1, <4>2
    <3>4. "late" \notin noise => page' > 0
      <4> SUFFICES ASSUME "late" \notin noise PROVE page' > 0
        OBVIOUS
      <4>1. total > Skip(page, limit) + limit
        BY <2>1, <3>2 DEF MissedOf
      <4>2. page \in Nat /\ limit \in Nat \ {0} /\ total \in Nat
        BY <1>p, <2>1 DEF WalkTypeOK
      <4>3. page < TotalPages
        BY <4>1, <4>2, LastPage DEF TotalPages
      <4> QED BY <2>1, <4>2, <4>3
    <3>5. data' = None /\ total' = None /\ noise' = noise /\ limit' = limit
      BY <2>1
    <3> QED BY <3>1, <3>3, <3>4, <3>5 DEF MissedOf
  <2> QED BY <2>1, <2>3
<1>5. ASSUME NEW k \in Rows, CreateRow(k)
      PROVE  Counted' /\ \A i \in Rows : Due(i)' => MissedOf(i)'
  <2>1. /\ Quiet /\ page > 0 /\ UNCHANGED <<page, limit, seen, stayed, data, total, asked>>
        /\ "late" \notin noise' => "late" \notin noise /\ ~(total # None /\ data = None)
    BY <1>5 DEF CreateRow, walk, answers, WalkTypeOK
  <2>2. ASSUME NEW i \in Rows, Due(i)' PROVE MissedOf(i)'
    <3>1. Due(i) /\ i \in stayed
      BY <2>1, <2>2 DEF Due
    <3>2. MissedOf(i)
      BY <1>0, <2>1, <3>1
    <3>3. Rank(i)' \in Nat /\ Rank(i)' >= Rank(i) /\ Rank(i) \in Nat
      BY <1>5, <1>i, <3>1, RanksGrow
    <3>4. Skip(page, limit) \in Nat /\ limit \in Nat
      BY <1>p, <2>1
    <3>5. Rank(i)' >= Skip(page, limit) + (IF data = None THEN 0 ELSE limit)
      BY <2>1, <3>2, <3>3, <3>4 DEF MissedOf
    <3> QED BY <2>1, <3>2, <3>5 DEF MissedOf
  <2> QED BY <2>1, <2>2
<1>6. ASSUME NEW k \in Rows, DeleteRow(k)
      PROVE  Counted' /\ \A i \in Rows : Due(i)' => MissedOf(i)'
  BY <1>6 DEF DeleteRow
<1> QED BY <1>1, <1>2, <1>3, <1>4, <1>5, <1>6 DEF WalkStep

(* A request in the shell moves the walk by one step, or not at all. *)
LEMMA ShellWalks ==
  ASSUME [ShellNext]_<<listing, shell>>
  PROVE  WalkStep \/ UNCHANGED listing
  BY DEF ShellNext, Handle, Rendered, WalkStep, listing

(* The account of the walk holds throughout. *)
LEMMA WalkInvariant == ShellSpec => []WalkInv
<1>1. ShellInit => WalkInv
  <2> SUFFICES ASSUME ShellInit PROVE WalkInv
    OBVIOUS
  <2>1. WalkTypeOK
    BY DEF ShellInit, ListingInit, WalkTypeOK
  <2>2. \A i \in Rows : seen[i] = 0 /\ data = None /\ total = None
    BY DEF ShellInit, ListingInit
  <2>3. Skip(page, limit) = 0
    BY ListingAssumption DEF ShellInit, ListingInit, Skip
  <2>4. \A i \in There : Rank(i) \in Nat
    BY <2>1, RankBounds
  <2>5. page = 1 /\ stayed = There
    BY DEF ShellInit, ListingInit
  <2>6. ShownInv
    BY <2>2 DEF ShownInv, ShownOf
  <2>7. ASSUME NEW i \in Rows, Due(i) PROVE MissedOf(i)
    <3>1. Rank(i) \in Nat /\ 1 > 0
      BY <2>4, <2>5, <2>7 DEF Due
    <3> QED BY <2>2, <2>3, <2>5, <2>7, <3>1 DEF MissedOf
  <2>8. MissedInv
    BY <2>2, <2>7 DEF MissedInv, ShellInit, ListingInit
  <2> QED BY <2>1, <2>6, <2>8 DEF WalkInv
<1>2. WalkInv /\ [ShellNext]_<<listing, shell>> => WalkInv'
  <2> SUFFICES ASSUME WalkInv, [ShellNext]_<<listing, shell>> PROVE WalkInv'
    OBVIOUS
  <2>1. CASE WalkStep
    <3>1. WalkTypeOK'
      BY <2>1, WalkTyping DEF WalkInv
    <3> QED BY <2>1, <3>1, ShownStep, MissedStep DEF WalkInv
  <2>2. CASE UNCHANGED listing
    <3>1. /\ UNCHANGED <<born, gone, limit, page, asked, seen, total, data, stayed, noise>>
          /\ There' = There
      BY <2>2 DEF listing, table, walk, answers, There
    <3>2. WalkTypeOK'
      BY <3>1 DEF WalkInv, WalkTypeOK
    <3>3. ShownInv'
      BY <3>1 DEF WalkInv, ShownInv, ShownOf, Rank, Before
    <3>4. MissedInv'
      BY <3>1 DEF WalkInv, MissedInv, MissedOf, Due, Rank, Before
    <3> QED BY <3>2, <3>3, <3>4 DEF WalkInv
  <2> QED BY <2>1, <2>2, ShellWalks
<1> QED BY <1>1, <1>2, PTL DEF ShellSpec

(* No link is shown twice, whatever is deleted, unless one was created     *)
(* during the walk or two share an instant.                                *)
THEOREM ShownAtMostOnce == ShellSpec => []ShownOnce
<1>1. WalkInv => ShownOnce
  BY DEF WalkInv, ShownInv, ShownOf, ShownOnce
<1> QED BY <1>1, WalkInvariant, PTL

(* A walk that ends has shown every link that was there all along,         *)
(* whatever was created, unless one was deleted, two share an instant, or  *)
(* one was created between the count and the page of the last answer.      *)
THEOREM NoneMissed == ShellSpec => []NothingMissed
<1>1. WalkInv => NothingMissed
  <2> SUFFICES ASSUME WalkInv, page = 0, noise \cap {"delete", "tie", "late"} = {},
                      NEW i \in stayed, ~(seen[i] > 0)
               PROVE  FALSE
    BY DEF NothingMissed
  <2>1. i \in Rows /\ seen[i] = 0 /\ data = None
    BY DEF WalkInv, WalkTypeOK, There
  <2>2. MissedOf(i) /\ "late" \notin noise
    BY <2>1 DEF WalkInv, MissedInv, Due
  <2> QED BY <2>2 DEF MissedOf
<1> QED BY <1>1, WalkInvariant, PTL

-----------------------------------------------------------------------------
(* A request gets the first of the routes it fits, if there is one. *)
LEMMA FirstFitting ==
  ASSUME NEW r
  PROVE  \/ FirstFit(r) = 0
         \/ /\ FirstFit(r) \in 1..Len(Routes) /\ Fits(r, Routes[FirstFit(r)])
            /\ \A k \in 1..Len(Routes) : Fits(r, Routes[k]) => FirstFit(r) <= k
<1> DEFINE I == {k \in 1..Len(Routes) : Fits(r, Routes[k])}
<1>1. FirstFit(r) = IF I # {} THEN Min(I) ELSE 0
  BY DEF FirstFit, SelectInSeq
<1>2. CASE I = {}
  BY <1>1, <1>2
<1>3. CASE I # {}
  <2>1. I \in SUBSET Nat
    OBVIOUS
  <2> HIDE DEF I
  <2>2. \E n \in I : \A m \in I : n <= m
    BY <1>3, <2>1, LeastNat
  <2>3. Min(I) \in I /\ \A m \in I : Min(I) <= m
    BY <2>2 DEF Min
  <2> QED BY <1>1, <1>3, <2>3 DEF I
<1> QED BY <1>2, <1>3

(* What every controller declares: a route of an administrator is guarded  *)
(* by role, those that act for a user by the token, and a path of several  *)
(* segments begins with the name of its controller.                        *)
RouteOK(at) ==
  /\ at.guards \in {<<>>, <<"jwt">>, <<"jwt", "roles">>}
  /\ at.handler \notin {"check", "register", "login", "refresh", "redirect"} => at.guards # <<>>
  /\ at.guards = <<"jwt", "roles">> => RequiredRoles(at) = {"ADMIN"}
  /\ Len(at.path) > 1 => \/ at.path[1] \in {"auth", "links", "analytics"}
                         \/ at.guards = <<"jwt", "roles">>

(* Where the routes of each controller are in the list. *)
LEMMA RouteIndex ==
  /\ Len(Routes) = 19 /\ Routes[1] = HealthRoutes[1]
  /\ \A k \in 2..5 : Routes[k] = AuthRoutes[k - 1]
  /\ \A k \in 6..11 : Routes[k] = LinksRoutes[k - 5]
  /\ Routes[12] = AnalyticsRoutes[1] /\ Routes[13] = RedirectRoutes[1]
  /\ \A k \in 14..19 : Routes[k] = AdminRoutes[k - 13]
<1>1. /\ Len(HealthRoutes) = 1 /\ Len(AuthRoutes) = 4 /\ Len(LinksRoutes) = 6
      /\ Len(AnalyticsRoutes) = 1 /\ Len(RedirectRoutes) = 1 /\ Len(AdminRoutes) = 6
  BY DEF HealthRoutes, AuthRoutes, LinksRoutes, AnalyticsRoutes, RedirectRoutes, AdminRoutes
<1> QED BY <1>1 DEF Routes, HealthRoutes, AuthRoutes, LinksRoutes, AnalyticsRoutes,
                    RedirectRoutes, AdminRoutes

(* All the routes are declared like that. *)
LEMMA RoutesOK == \A k \in 1..19 : RouteOK(Routes[k])
<1> DEFINE Open(at) ==
      /\ at.guards \in {<<>>, <<"jwt">>}
      /\ at.handler \notin {"check", "register", "login", "refresh", "redirect"} => at.guards # <<>>
      /\ Len(at.path) > 1 => at.path[1] \in {"auth", "links", "analytics"}
<1>1. Open(HealthRoutes[1])
  <2>1. /\ HealthRoutes[1].guards = <<>> /\ Len(HealthRoutes[1].path) = 1
        /\ HealthRoutes[1].handler = "check"
    BY DEF HealthRoutes, At
  <2> QED BY <2>1
<1>7. Open(AnalyticsRoutes[1])
  <2>1. /\ AnalyticsRoutes[1].guards = <<"jwt">> /\ AnalyticsRoutes[1].path[1] = "analytics"
        /\ AnalyticsRoutes[1].handler = "getStats"
    BY DEF AnalyticsRoutes, At
  <2> QED BY <2>1
<1>8. Open(RedirectRoutes[1])
  <2>1. /\ RedirectRoutes[1].guards = <<>> /\ Len(RedirectRoutes[1].path) = 1
        /\ RedirectRoutes[1].handler = "redirect"
    BY DEF RedirectRoutes, At
  <2> QED BY <2>1
<1>2. \A j \in 1..4 : Open(AuthRoutes[j])
  BY DEF AuthRoutes, At
<1>3. \A j \in 1..6 : Open(LinksRoutes[j])
  BY DEF LinksRoutes, At
<1>4. ASSUME NEW at, Open(at) PROVE RouteOK(at)
  BY <1>4 DEF RouteOK
<1>5. ASSUME NEW j \in 1..6 PROVE RouteOK(AdminRoutes[j])
  <2>1. /\ AdminRoutes[j].guards = <<"jwt", "roles">>
        /\ AdminRoutes[j].class = {"ADMIN"} /\ AdminRoutes[j].own = None
    BY DEF AdminRoutes, At
  <2>2. RequiredRoles(AdminRoutes[j]) = {"ADMIN"}
    BY <2>1 DEF RequiredRoles
  <2> QED BY <2>1, <2>2 DEF RouteOK
<1> HIDE DEF Open
<1>6. /\ RouteOK(Routes[1]) /\ RouteOK(Routes[12]) /\ RouteOK(Routes[13])
      /\ \A k \in 2..5 : RouteOK(Routes[k])
      /\ \A k \in 6..11 : RouteOK(Routes[k])
      /\ \A k \in 14..19 : RouteOK(Routes[k])
  BY <1>1, <1>2, <1>3, <1>4, <1>5, <1>7, <1>8, RouteIndex
<1> QED BY <1>6

(* The routes with a parameter, where in the path each has it, and how     *)
(* those without one that come after them begin.                           *)
Stars(at) == {x \in DOMAIN at.path : at.path[x] = "*"}
Starred   == 8..13 \cup 16..19
PlaceOK(k, at) ==
  /\ Stars(at) \in (IF k \in Starred THEN {{1}, {2}, {3}} ELSE {{}})
  /\ k > 8 /\ k \notin Starred => at.method = "GET" /\ Len(at.path) = 2 /\ at.path[1] = "admin"
  /\ k \in Starred /\ at.method = "GET" /\ Len(at.path) = 2 => at.path[1] = "links"
  /\ at.method = "GET" /\ Len(at.path) = 1 =>
       at.path[1] \in {"health", "links"} \/ at.handler = "redirect"

(* All the routes are placed like that.                                    *)
LEMMA PlacesOK == \A k \in 1..19 : PlaceOK(k, Routes[k])
<1> USE DEF PlaceOK, Stars, Starred, At
<1>1. PlaceOK(1, HealthRoutes[1])
  BY DEF HealthRoutes
<1>2. \A j \in 1..4 : PlaceOK(j + 1, AuthRoutes[j])
  BY DEF AuthRoutes
<1>3. \A j \in 1..6 : PlaceOK(j + 5, LinksRoutes[j])
  BY DEF LinksRoutes
<1>4. PlaceOK(12, AnalyticsRoutes[1])
  BY DEF AnalyticsRoutes
<1>5. PlaceOK(13, RedirectRoutes[1])
  BY DEF RedirectRoutes
<1>6. ASSUME NEW j \in 1..6 PROVE PlaceOK(j + 13, AdminRoutes[j])
  <2>1. /\ j <= 2 => AdminRoutes[j].method = "GET" /\ Len(AdminRoutes[j].path) = 2
                     /\ AdminRoutes[j].path[1] = "admin"
        /\ j > 2 => Len(AdminRoutes[j].path) = 4
    BY DEF AdminRoutes
  <2>2. j <= 2 => Stars(AdminRoutes[j]) = {}
    BY DEF AdminRoutes
  <2>3. j > 2 => Stars(AdminRoutes[j]) = {3}
    BY DEF AdminRoutes
  <2> HIDE DEF Stars, At
  <2> QED BY <2>1, <2>2, <2>3
<1> HIDE DEF PlaceOK, Stars, Starred, At
<1> QED BY <1>1, <1>2, <1>3, <1>4, <1>5, <1>6, RouteIndex

(* No route has more than one parameter. *)
LEMMA OneParameter ==
  ASSUME NEW k \in 1..19
  PROVE  Parameters(Routes[k]) = IF k \in Starred THEN 1 ELSE 0
<1>1. Stars(Routes[k]) \in (IF k \in Starred THEN {{1}, {2}, {3}} ELSE {{}})
  BY PlacesOK DEF PlaceOK
<1>2. Parameters(Routes[k]) = Cardinality(Stars(Routes[k]))
  BY DEF Parameters, Stars
<1>3. Cardinality({1}) = 1 /\ Cardinality({2}) = 1 /\ Cardinality({3}) = 1
  BY FS_Singleton
<1>4. Cardinality({}) = 0
  BY FS_EmptySet
<1> QED BY <1>1, <1>2, <1>3, <1>4

-----------------------------------------------------------------------------
(* A request that is served is an arrival or one of the walk, and stands   *)
(* at the first route it fits.                                             *)
Matched ==
  /\ req.path \in Seq(Segments)
  /\ FirstFit(req) # 0 /\ route = Routes[FirstFit(req)]

(* What the guards that a route names have let through. *)
Roles == {"USER", "ADMIN"}
Known == user = req.token /\ user \in Roles
Admitted ==
  /\ route.guards # <<>> => Known
  /\ route.guards = <<"jwt", "roles">> => user = "ADMIN"

(* What a request has passed, by what it still has to pass. *)
Waiting ==
  \/ todo = <<"jwt", "pipes", "handler">> /\ route.guards = <<"jwt">>
  \/ todo = <<"jwt", "roles", "pipes", "handler">> /\ route.guards = <<"jwt", "roles">>
  \/ todo = <<"roles", "pipes", "handler">> /\ route.guards = <<"jwt", "roles">> /\ Known
  \/ todo = <<"pipes", "handler">> /\ Admitted
  \/ todo = <<"handler">> /\ Admitted /\ ValidArguments
  \/ todo = <<"rows">> /\ Admitted

(* A page that is answered with a 500. *)
PageFails == \/ route.handler = "listUsers"
             \/ route.handler = "findAll" /\ req.page \in Int /\ Skip(req.page, req.limit) > MaxInt

(* What a request was answered with tells what it had passed. *)
Served == {"done", "BadRequest", "InternalServerError"}
Answered ==
  /\ answer \in HttpErrors \cup {None, "done", "InternalServerError"}
  /\ answer \in Served => route # None /\ Admitted
  /\ answer = "InternalServerError" => PageFails

ShellInv ==
  /\ user \in {None} \cup Roles
  /\ asked = (todo = <<"rows">>)
  /\ route # None => Matched
  /\ todo # <<>> => route # None /\ answer = None /\ Waiting
  /\ Answered

(* The segments of any request, of the walk too, are known. *)
LEMMA PathOfSegments ==
  ASSUME NEW r \in Arrivals \cup {WalkRequest}
  PROVE  r.path \in Seq(Segments)
<1>1. CASE r \in Arrivals
  <2>1. r.path \in Seq(STRING) /\ Range(r.path) \subseteq Segments
    BY <1>1, ShellAssumption DEF Segments
  <2>2. \A k \in 1..Len(r.path) : r.path[k] \in Segments
    BY <2>1 DEF Range
  <2> QED BY <2>1, <2>2
<1>2. CASE r = WalkRequest
  <2>1. r.path = <<"links">>
    BY <1>2 DEF WalkRequest
  <2> QED BY <2>1 DEF Segments
<1> QED BY <1>1, <1>2

(* The guards come before the pipes and the handler. *)
LEMMA OneGuardFirst ==
  ASSUME NEW a, NEW b, NEW c
  PROVE  <<a>> \o <<b, c>> = <<a, b, c>>
<1> DEFINE S == {a, b, c}
           one == <<a>> \o <<b, c>>
<1>1. <<a>> \in Seq(S) /\ <<b, c>> \in Seq(S) /\ <<a, b, c>> \in Seq(S)
  OBVIOUS
<1>2. one \in Seq(S) /\ Len(one) = 3
  BY <1>1, ConcatProperties
<1>3. one[1] = a /\ one[2] = b /\ one[3] = c
  OBVIOUS
<1> HIDE DEF S, one
<1>4. one = <<a, b, c>>
  BY <1>1, <1>2, <1>3, SeqEqual
<1> QED BY <1>4 DEF one

(* And so do two guards.                                                   *)
LEMMA TwoGuardsFirst ==
  ASSUME NEW a, NEW b, NEW c, NEW d
  PROVE  <<a, b>> \o <<c, d>> = <<a, b, c, d>>
<1> DEFINE S == {a, b, c, d}
           two == <<a, b>> \o <<c, d>>
<1>1. <<a, b>> \in Seq(S) /\ <<c, d>> \in Seq(S) /\ <<a, b, c, d>> \in Seq(S)
  OBVIOUS
<1>2. two \in Seq(S) /\ Len(two) = 4
  BY <1>1, ConcatProperties
<1>3. two[1] = a /\ two[2] = b /\ two[3] = c /\ two[4] = d
  OBVIOUS
<1> HIDE DEF S, two
<1>4. two = <<a, b, c, d>>
  BY <1>1, <1>2, <1>3, SeqEqual
<1> QED BY <1>4 DEF two

(* A request that is received starts with the guards of its route. *)
LEMMA ReceiveStep ==
  ASSUME ShellInv, NEW r, r.path \in Seq(Segments), Receive(r), UNCHANGED listing
  PROVE  ShellInv'
<1>1. req' = r /\ user' = None /\ asked' = asked /\ ~asked
  BY DEF Receive, listing, walk
<1>2. CASE FirstFit(r) = 0 /\ route' = None /\ Throw("NotFound")
  <2>1. todo' = <<>> /\ answer' = "NotFound"
    BY <1>2 DEF Throw, Status, HttpErrors
  <2> QED BY <1>1, <1>2, <2>1, ShellAssumption DEF ShellInv, Answered, HttpErrors, Served
<1>3. CASE /\ FirstFit(r) # 0 /\ route' = Routes[FirstFit(r)]
           /\ todo' = route'.guards \o <<"pipes", "handler">> /\ answer' = None
  <2>1. FirstFit(r) \in 1..19
    BY <1>3, FirstFitting, RouteIndex
  <2>2. RouteOK(route') /\ route' # None
    BY <1>3, <2>1, RoutesOK, RouteIndex, ShellAssumption
  <2>3. Matched'
    BY <1>1, <1>3 DEF Matched
  <2>4. /\ route'.guards = <<>> => todo' = <<"pipes", "handler">>
        /\ route'.guards = <<"jwt">> => todo' = <<"jwt", "pipes", "handler">>
        /\ route'.guards = <<"jwt", "roles">> => todo' = <<"jwt", "roles", "pipes", "handler">>
    <3> DEFINE rest == <<"pipes", "handler">>
    <3>1. todo' = route'.guards \o rest
      BY <1>3
    <3>2. <<>> \o rest = <<"pipes", "handler">> /\ <<"jwt">> \o rest = <<"jwt", "pipes", "handler">>
      BY OneGuardFirst
    <3>3. <<"jwt", "roles">> \o rest = <<"jwt", "roles", "pipes", "handler">>
      BY TwoGuardsFirst
    <3> HIDE DEF rest
    <3> QED BY <3>1, <3>2, <3>3
  <2>5. Waiting'
    BY <2>2, <2>4 DEF RouteOK, Waiting, Admitted
  <2>6. todo' # <<"rows">>
    BY <2>2, <2>4 DEF RouteOK
  <2>7. Answered'
    BY <1>3, ShellAssumption DEF Answered, Served
  <2> QED BY <1>1, <1>3, <2>2, <2>3, <2>5, <2>6, <2>7 DEF ShellInv
<1> QED BY <1>2, <1>3 DEF Receive

(* What is next of what a request has to pass, and what is left after it. *)
LEMMA NextOfTodo ==
  /\ Head(<<"jwt", "pipes", "handler">>) = "jwt"
  /\ Head(<<"jwt", "roles", "pipes", "handler">>) = "jwt"
  /\ Head(<<"roles", "pipes", "handler">>) = "roles"
  /\ Head(<<"pipes", "handler">>) = "pipes"
  /\ Head(<<"handler">>) = "handler" /\ Head(<<"rows">>) = "rows"
<1>1. \A a, b, c, d : Head(<<a, b, c, d>>) = a /\ Head(<<a, b, c>>) = a
  OBVIOUS
<1>2. \A a, b : Head(<<a, b>>) = a /\ Head(<<a>>) = a
  OBVIOUS
<1> QED BY <1>1, <1>2

(* What is left once the next thing is passed.                             *)
LEMMA LeftOfTodo ==
  /\ Tail(<<"jwt", "pipes", "handler">>) = <<"pipes", "handler">>
  /\ Tail(<<"jwt", "roles", "pipes", "handler">>) = <<"roles", "pipes", "handler">>
  /\ Tail(<<"roles", "pipes", "handler">>) = <<"pipes", "handler">>
  /\ Tail(<<"pipes", "handler">>) = <<"handler">>
<1>1. \A a, b, c, d : Tail(<<a, b, c, d>>) = <<b, c, d>>
  OBVIOUS
<1>2. \A a, b, c : Tail(<<a, b, c>>) = <<b, c>> /\ Tail(<<a, b>>) = <<b>>
  OBVIOUS
<1> QED BY <1>1, <1>2

(* The JWT guard lets through a request with a valid token, and attaches   *)
(* the user the token names.                                               *)
LEMMA JwtStep ==
  ASSUME ShellInv, JwtAuthGuard, UNCHANGED listing
  PROVE  ShellInv'
<1>1. req' = req /\ route' = route /\ asked' = asked /\ todo # <<>> /\ Head(todo) = "jwt"
  BY DEF JwtAuthGuard, NextIs, listing, walk
<1>2. Matched' /\ route' # None
  BY <1>1 DEF ShellInv, Matched
<1>3. /\ \/ todo = <<"jwt", "pipes", "handler">> /\ route.guards = <<"jwt">>
         \/ todo = <<"jwt", "roles", "pipes", "handler">> /\ route.guards = <<"jwt", "roles">>
      /\ ~asked
  BY <1>1, NextOfTodo DEF ShellInv, Waiting
<1>4. CASE req.token \in Roles /\ user' = req.token /\ Pass
  <2>1. Known' /\ answer' = None
    BY <1>1, <1>4 DEF Known, Pass
  <2>2. \/ todo' = <<"pipes", "handler">> /\ route'.guards = <<"jwt">>
        \/ todo' = <<"roles", "pipes", "handler">> /\ route'.guards = <<"jwt", "roles">>
    BY <1>1, <1>3, <1>4, LeftOfTodo DEF Pass
  <2>3. Waiting' /\ todo' # <<"rows">>
    BY <2>1, <2>2 DEF Waiting, Admitted
  <2>4. Answered'
    BY <2>1, ShellAssumption DEF Answered, Served
  <2> QED BY <1>1, <1>2, <1>3, <1>4, <2>1, <2>3, <2>4 DEF ShellInv
<1>5. CASE req.token \notin Roles /\ Throw("Unauthorized") /\ UNCHANGED user
  <2>1. todo' = <<>> /\ answer' = "Unauthorized"
    BY <1>5 DEF Throw, Status, HttpErrors
  <2> QED BY <1>1, <1>2, <1>3, <1>5, <2>1 DEF ShellInv, Answered, HttpErrors, Served
<1> QED BY <1>4, <1>5 DEF JwtAuthGuard, Roles

(* The roles guard lets through an administrator only. *)
LEMMA RolesStep ==
  ASSUME ShellInv, RolesGuard, UNCHANGED listing
  PROVE  ShellInv'
<1>1. /\ req' = req /\ route' = route /\ asked' = asked /\ user' = user
      /\ todo # <<>> /\ Head(todo) = "roles"
  BY DEF RolesGuard, NextIs, listing, walk
<1>2. Matched /\ Matched' /\ route' # None
  BY <1>1 DEF ShellInv, Matched
<1>3. /\ todo = <<"roles", "pipes", "handler">> /\ route.guards = <<"jwt", "roles">>
      /\ Known /\ ~asked
  BY <1>1, NextOfTodo DEF ShellInv, Waiting
<1>4. RequiredRoles(route) = {"ADMIN"}
  <2>1. FirstFit(req) \in 1..19
    BY <1>2, FirstFitting, RouteIndex DEF Matched
  <2> QED BY <1>2, <1>3, <2>1, RoutesOK DEF Matched, RouteOK
<1>5. CASE user = "ADMIN" /\ Pass
  <2>1. todo' = <<"pipes", "handler">> /\ answer' = None
    BY <1>3, <1>5, LeftOfTodo DEF Pass
  <2>2. Waiting' /\ todo' # <<"rows">>
    BY <1>1, <1>3, <1>5, <2>1 DEF Waiting, Admitted, Known
  <2>3. Answered'
    BY <2>1, ShellAssumption DEF Answered, Served
  <2> QED BY <1>1, <1>2, <1>3, <2>1, <2>2, <2>3 DEF ShellInv
<1>6. CASE user \notin {"ADMIN"} /\ Throw("Forbidden")
  <2>1. todo' = <<>> /\ answer' = "Forbidden"
    BY <1>6 DEF Throw, Status, HttpErrors
  <2> QED BY <1>1, <1>2, <1>3, <2>1 DEF ShellInv, Answered, HttpErrors, Served
<1> QED BY <1>4, <1>5, <1>6, ShellAssumption DEF RolesGuard

(* The pipes reject what the DTO of the handler does not accept. *)
LEMMA PipesStep ==
  ASSUME ShellInv, Pipes, UNCHANGED listing
  PROVE  ShellInv'
<1>1. /\ req' = req /\ route' = route /\ asked' = asked /\ user' = user
      /\ todo # <<>> /\ Head(todo) = "pipes"
  BY DEF Pipes, NextIs, listing, walk
<1>2. Matched' /\ route' # None
  BY <1>1 DEF ShellInv, Matched
<1>3. todo = <<"pipes", "handler">> /\ Admitted /\ ~asked
  BY <1>1, NextOfTodo DEF ShellInv, Waiting
<1>4. Admitted'
  BY <1>1, <1>3 DEF Admitted, Known
<1>5. CASE ValidArguments /\ Pass
  <2>1. todo' = <<"handler">> /\ answer' = None
    BY <1>3, <1>5, LeftOfTodo DEF Pass
  <2>2. ValidArguments'
    BY <1>1, <1>5 DEF ValidArguments
  <2>3. Waiting' /\ todo' # <<"rows">>
    BY <1>4, <2>1, <2>2 DEF Waiting
  <2>4. Answered'
    BY <2>1, ShellAssumption DEF Answered, Served
  <2> QED BY <1>1, <1>2, <1>3, <2>1, <2>3, <2>4 DEF ShellInv
<1>6. CASE ~ValidArguments /\ Throw("BadRequest")
  <2>1. todo' = <<>> /\ answer' = "BadRequest"
    BY <1>6 DEF Throw, Status, HttpErrors
  <2> QED BY <1>1, <1>2, <1>3, <1>4, <2>1 DEF ShellInv, Answered, HttpErrors, Served
<1> QED BY <1>5, <1>6 DEF Pipes

(* A page the DTO accepts and Prisma refuses begins too far. *)
LEMMA ValidPages ==
  ASSUME NEW p, NEW n, ValidPage(p, n), ~QueryAccepted(p, n)
  PROVE  p \in Int /\ Skip(p, n) > MaxInt
<1>1. p \in Int /\ p - 1 \in Nat /\ n \in 1..100
  BY DEF ValidPage
<1>2. Skip(p, n) \in Nat
  <2>1. (p - 1) * n \in Nat
    BY <1>1
  <2> QED BY <2>1 DEF Skip
<1>3. MaxInt \in Nat /\ MaxInt >= 100
  BY ShellAssumption
<1>4. n \in Int /\ n \in -MaxInt..MaxInt
  BY <1>1, <1>3
<1>5. Skip(p, n) \notin 0..MaxInt
  BY <1>1, <1>4 DEF QueryAccepted
<1> QED BY <1>1, <1>2, <1>3, <1>5

(* The handler runs for an admitted request with valid arguments. *)
LEMMA HandleStep ==
  ASSUME ShellInv, Handle
  PROVE  ShellInv'
<1>1. req' = req /\ route' = route /\ user' = user /\ todo # <<>> /\ Head(todo) = "handler"
  BY DEF Handle, NextIs
<1>2. Matched' /\ route' # None
  BY <1>1 DEF ShellInv, Matched
<1>3. todo = <<"handler">> /\ Admitted /\ ValidArguments /\ ~asked /\ answer = None
  BY <1>1, NextOfTodo DEF ShellInv, Waiting
<1>4. Admitted'
  BY <1>1, <1>3 DEF Admitted, Known
<1>5. CASE /\ route.handler \in {"findAll", "listUsers"} /\ ~QueryAccepted(req.page, req.limit)
           /\ Throw("PrismaClientValidationError") /\ UNCHANGED listing
  <2>1. todo' = <<>> /\ answer' = "InternalServerError" /\ asked' = asked
    BY <1>5 DEF Throw, Status, HttpErrors, listing, walk
  <2>2. PageFails'
    <3>1. route.handler = "findAll" => ValidPage(req.page, req.limit)
      BY <1>3 DEF ValidArguments
    <3>2. route.handler = "findAll" => req.page \in Int /\ Skip(req.page, req.limit) > MaxInt
      BY <1>5, <3>1, ValidPages
    <3> QED BY <1>1, <1>5, <3>2 DEF PageFails, Skip
  <2> QED BY <1>1, <1>2, <1>3, <1>4, <1>5, <2>1, <2>2 DEF ShellInv, Answered
<1>6. CASE /\ route.handler = "findAll" /\ QueryAccepted(req.page, req.limit)
           /\ Ask /\ todo' = <<"rows">> /\ UNCHANGED answer
  <2>1. asked' /\ answer' = None
    BY <1>3, <1>6 DEF Ask
  <2>2. Waiting'
    BY <1>4, <1>6 DEF Waiting
  <2>3. Answered'
    BY <2>1, ShellAssumption DEF Answered, Served
  <2>4. asked' = TRUE
    BY <1>6 DEF Ask
  <2> QED BY <1>1, <1>2, <1>6, <2>1, <2>2, <2>3, <2>4 DEF ShellInv
<1>7. CASE todo' = <<>> /\ answer' = "done" /\ UNCHANGED listing
  <2>1. asked' = asked
    BY <1>7 DEF listing, walk
  <2> QED BY <1>1, <1>2, <1>3, <1>4, <1>7, <2>1 DEF ShellInv, Answered
<1> QED BY <1>5, <1>6, <1>7 DEF Handle

(* The answer of a page of links. *)
LEMMA RenderedStep ==
  ASSUME WalkTypeOK, ShellInv, Rendered
  PROVE  ShellInv'
<1>1. /\ req' = req /\ route' = route /\ user' = user
      /\ asked' = FALSE /\ todo' = <<>> /\ answer' = "done"
  BY DEF Rendered, Reply
<1>2. asked
  BY DEF Rendered, Reply, WalkTypeOK
<1>3. todo = <<"rows">>
  BY <1>2 DEF ShellInv
<1>4. Admitted /\ route # None
  BY <1>3 DEF ShellInv, Waiting
<1>5. Admitted' /\ Matched' /\ route' # None
  BY <1>1, <1>4 DEF Admitted, Known, ShellInv, Matched
<1> QED BY <1>1, <1>5 DEF ShellInv, Answered

(* Nothing else of the walk touches the request that is served. *)
LEMMA ShellFrame ==
  ASSUME ShellInv, UNCHANGED <<shell, asked>>
  PROVE  ShellInv'
<1>1. /\ req' = req /\ route' = route /\ todo' = todo /\ user' = user /\ answer' = answer
      /\ asked' = asked
  BY DEF shell
<1>2. (Waiting <=> Waiting') /\ (Admitted <=> Admitted') /\ (Matched <=> Matched')
  BY <1>1 DEF Waiting, Admitted, Known, Matched, ValidArguments
<1> QED BY <1>1, <1>2 DEF ShellInv, Answered, PageFails

(* A request stands where its guards have let it, throughout.              *)
LEMMA ShellInvariant == ShellSpec => []ShellInv
<1>1. ShellInit => ShellInv
  <2>1. <<>> # <<"rows">>
    OBVIOUS
  <2> QED BY <2>1, ShellAssumption DEF ShellInit, ListingInit, ShellInv, Answered, Served
<1>2. WalkInv /\ ShellInv /\ [ShellNext]_<<listing, shell>> => ShellInv'
  <2> SUFFICES ASSUME WalkInv, ShellInv, [ShellNext]_<<listing, shell>> PROVE ShellInv'
    OBVIOUS
  <2>1. ASSUME NEW r \in Arrivals, Receive(r), UNCHANGED listing PROVE ShellInv'
    BY <2>1, PathOfSegments, ReceiveStep
  <2>2. CASE Receive(WalkRequest) /\ UNCHANGED listing
    BY <2>2, PathOfSegments, ReceiveStep
  <2>3. CASE (JwtAuthGuard \/ RolesGuard \/ Pipes) /\ UNCHANGED listing
    BY <2>3, JwtStep, RolesStep, PipesStep
  <2>4. CASE Handle
    BY <2>4, HandleStep
  <2>5. CASE Rendered
    BY <2>5, RenderedStep DEF WalkInv
  <2>6. CASE (FindMany \/ Count) /\ UNCHANGED shell
    BY <2>6, ShellFrame DEF FindMany, Count, walk
  <2>7. ASSUME NEW i \in Rows, CreateRow(i) \/ DeleteRow(i), UNCHANGED shell PROVE ShellInv'
    BY <2>7, ShellFrame DEF CreateRow, DeleteRow, walk
  <2>8. CASE UNCHANGED <<listing, shell>>
    BY <2>8, ShellFrame DEF listing, walk
  <2> QED BY <2>1, <2>2, <2>3, <2>4, <2>5, <2>6, <2>7, <2>8 DEF ShellNext
<1> QED BY <1>1, <1>2, WalkInvariant, PTL DEF ShellSpec

(* Every variable of the shell and of the walk it serves stays in its type. *)
THEOREM ShellTypeCorrect == ShellSpec => []ShellTypeOK
<1>1. WalkInv /\ ShellInv => ShellTypeOK
  BY DEF WalkInv, WalkTypeOK, ShellInv, Answered, Roles, ShellTypeOK
<1> QED BY <1>1, WalkInvariant, ShellInvariant, PTL

(* Whatever the paths and the order in which requests come: under /admin   *)
(* only an administrator gets past the guards, elsewhere only the holder   *)
(* of a valid token where a user acts.                                     *)
THEOREM OnlyAdmitted == ShellSpec => []AdmittedOnly
<1>1. ShellInv => AdmittedOnly
  <2> SUFFICES ASSUME ShellInv, NextIs("handler") \/ asked \/ answer \in Served
               PROVE  /\ (Len(req.path) > 1 /\ Fold(req.path[1]) = "admin") => req.token = "ADMIN"
                      /\ route.handler \notin {"check", "register", "login", "refresh", "redirect"}
                           => req.token \in {"USER", "ADMIN"}
    BY DEF AdmittedOnly, Served
  <2>1. Matched /\ Admitted
    <3>1. CASE NextIs("handler")
      BY <3>1, NextOfTodo DEF NextIs, ShellInv, Waiting
    <3>2. CASE asked
      <4>1. todo = <<"rows">>
        BY <3>2 DEF ShellInv
      <4>2. todo # <<>>
        BY <4>1
      <4> QED BY <4>1, <4>2, NextOfTodo DEF ShellInv, Waiting
    <3>3. CASE answer \in Served
      BY <3>3 DEF ShellInv, Answered
    <3> QED BY <3>1, <3>2, <3>3
  <2>2. RouteOK(route) /\ Fits(req, route)
    BY <2>1, FirstFitting, RouteIndex, RoutesOK DEF Matched
  <2>3. ASSUME Len(req.path) > 1, Fold(req.path[1]) = "admin"
        PROVE  req.token = "ADMIN"
    <3>1. Len(route.path) > 1 /\ 1 \in DOMAIN req.path
      BY <2>1, <2>2, <2>3 DEF Fits, Matched
    <3>2. route.path[1] \in {"*", "admin"}
      BY <2>2, <2>3, <3>1 DEF Fits
    <3>3. route.guards = <<"jwt", "roles">>
      BY <2>2, <3>1, <3>2 DEF RouteOK
    <3>4. route.guards # <<>>
      BY <3>3
    <3> QED BY <2>1, <3>3, <3>4 DEF Admitted, Known
  <2>4. ASSUME route.handler \notin {"check", "register", "login", "refresh", "redirect"}
        PROVE  req.token \in {"USER", "ADMIN"}
    BY <2>1, <2>2, <2>4 DEF RouteOK, Admitted, Known, Roles
  <2> QED BY <2>3, <2>4
<1> QED BY <1>1, ShellInvariant, PTL

(* A page of links, whatever page is asked for, ends in a 500 only when it *)
(* begins past the integers Prisma takes.                                  *)
THEOREM PagesFailForSize == ShellSpec => []PagesFailOnlyBeyondInt
<1>1. ShellInv => PagesFailOnlyBeyondInt
  BY DEF ShellInv, Answered, PageFails, PagesFailOnlyBeyondInt
<1> QED BY <1>1, ShellInvariant, PTL

(* The first route a request fits has no more parameters than a later one: *)
(* those after a route with a parameter that have none are two pages of    *)
(* the administrator, which fit no request that route fits.                *)
LEMMA FewestParameters ==
  ASSUME NEW r, r.path \in Seq(Segments), NEW j \in 1..19, NEW k \in 1..19, j <= k,
         Fits(r, Routes[j]), Fits(r, Routes[k])
  PROVE  Parameters(Routes[j]) <= Parameters(Routes[k])
<1>0. /\ Parameters(Routes[j]) = IF j \in Starred THEN 1 ELSE 0
      /\ Parameters(Routes[k]) = IF k \in Starred THEN 1 ELSE 0
  BY OneParameter
<1> SUFFICES ASSUME j \in Starred, k \notin Starred PROVE FALSE
  BY <1>0
<1>1. k > 8
  BY DEF Starred
<1>2. Routes[k].method = "GET" /\ Len(Routes[k].path) = 2 /\ Routes[k].path[1] = "admin"
  BY <1>1, PlacesOK DEF PlaceOK
<1>3. r.method = "GET" /\ Len(r.path) = 2 /\ 1 \in DOMAIN r.path
  BY <1>2 DEF Fits
<1>4. Fold(r.path[1]) = "admin"
  BY <1>2, <1>3 DEF Fits
<1>5. Routes[j].path[1] = "links"
  <2>1. Routes[j].method = "GET" /\ Len(Routes[j].path) = 2
    BY <1>3 DEF Fits
  <2> QED BY <2>1, PlacesOK DEF PlaceOK
<1> QED BY <1>3, <1>4, <1>5 DEF Fits

(* A request is handled by the most specific of the routes it fits, and a  *)
(* slug by the redirect, for any requests.                                 *)
THEOREM HandlerIsRight == ShellSpec => []RightHandler
<1>1. ShellInv => RightHandler
  <2> SUFFICES ASSUME ShellInv, route # None PROVE RightHandler
    BY DEF RightHandler
  <2> DEFINE j == FirstFit(req)
  <2>1. req.path \in Seq(Segments) /\ route = Routes[j]
    BY DEF ShellInv, Matched
  <2>2. /\ j \in 1..19 /\ Fits(req, Routes[j])
        /\ \A k \in 1..19 : Fits(req, Routes[k]) => j <= k
    BY FirstFitting, RouteIndex DEF ShellInv, Matched
  <2>3. DOMAIN Routes = 1..19
    BY DEF Routes, HealthRoutes, AuthRoutes, LinksRoutes, AnalyticsRoutes, RedirectRoutes, AdminRoutes
  <2> HIDE DEF j
  <2>4. ASSUME NEW k \in DOMAIN Routes, Fits(req, Routes[k])
        PROVE  Parameters(route) <= Parameters(Routes[k])
    BY <2>1, <2>2, <2>3, <2>4, FewestParameters
  <2>5. ASSUME req.method = "GET", Len(req.path) = 1,
               SlugAllowed(req.path[1]), Fold(req.path[1]) # "health"
        PROVE  route.handler = "redirect"
    <3>1. 1 \in DOMAIN req.path /\ req.path[1] \in Segments
      BY <2>1, <2>5
    <3>2. Fold(req.path[1]) # "links"
      BY <2>5, <3>1, ShellAssumption
    <3>3. route.path[1] \in {"*", Fold(req.path[1])} /\ route.method = "GET" /\ Len(route.path) = 1
      BY <2>1, <2>2, <2>5, <3>1 DEF Fits
    <3> QED BY <2>1, <2>2, <2>5, <3>2, <3>3, PlacesOK DEF PlaceOK
  <2> QED BY <2>4, <2>5 DEF RightHandler
<1> QED BY <1>1, ShellInvariant, PTL
=============================================================================
