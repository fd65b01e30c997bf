----------------------------- MODULE SumTheorems -----------------------------
(***************************************************************************)
(* What SumFunctionOnSet adds up to: the sum of RateLimiter's row of hits  *)
(* and of ClickPipeline's commits, for finite sets of any size.  The       *)
(* induction principles take the predicate as a set, so that every prover  *)
(* can instantiate them.                                                   *)
(***************************************************************************)
EXTENDS Integers, Functions, FiniteSetTheorems, TLAPS

(* A set of natural numbers that is not empty has a least element. *)
LEMMA LeastNat ==
  ASSUME NEW T \in SUBSET Nat, T # {}
  PROVE  \E n \in T : \A m \in T : n <= m
<1> DEFINE R == {ss \in Nat \X Nat : ss[1] < ss[2]}
<1>1. IsWellFoundedOn(R, Nat)
  BY NatLessThanWellFounded DEF OpToRel
<1>2. PICK n \in T : \A m \in T : <<m, n>> \notin R
  <2> HIDE DEF R
  <2> QED BY <1>1, WFMin
<1>3. ASSUME NEW m \in T PROVE n <= m
  <2>1. m \in Nat /\ n \in Nat
    OBVIOUS
  <2>2. <<m, n>> \in Nat \X Nat /\ ~(<<m, n>>[1] < <<m, n>>[2])
    BY <1>2, <2>1
  <2> QED BY <2>1, <2>2
<1> QED BY <1>3

(* Induction: a set with 0 and the successor of each of its members holds  *)
(* every natural number.                                                   *)
LEMMA NatInductionSet ==
  ASSUME NEW P, 0 \in P, \A n \in Nat : n \in P => n + 1 \in P
  PROVE  \A n \in Nat : n \in P
<1> SUFFICES ASSUME Nat \ P # {} PROVE FALSE
  OBVIOUS
<1>1. PICK n \in Nat \ P : \A m \in Nat \ P : n <= m
  BY LeastNat
<1>2. n # 0 /\ n - 1 \in Nat /\ ~(n <= n - 1)
  OBVIOUS
<1>3. n - 1 \in P
  BY <1>1, <1>2
<1>4. (n - 1) + 1 \in P
  BY <1>2, <1>3
<1> QED BY <1>4

(* Induction on a finite set: what holds of the empty set, and of a set as *)
(* soon as it holds of the set without any one of its elements, holds of   *)
(* every subset.                                                           *)
LEMMA FiniteInductionSet ==
  ASSUME NEW S, IsFiniteSet(S), NEW P, {} \in P,
         \A T \in SUBSET S : T # {} /\ (\A x \in T : T \ {x} \in P) => T \in P
  PROVE  \A T \in SUBSET S : T \in P
<1> DEFINE Q == {n \in Nat : \A T \in SUBSET S : Cardinality(T) = n => T \in P}
<1>1. 0 \in Q
  <2> SUFFICES ASSUME NEW T \in SUBSET S, Cardinality(T) = 0 PROVE T \in P
    OBVIOUS
  <2>1. IsFiniteSet(T)
    BY FS_Subset
  <2>2. T = {}
    BY <2>1, FS_EmptySet
  <2> QED BY <2>2
<1>2. ASSUME NEW n \in Nat, n \in Q PROVE n + 1 \in Q
  <2> SUFFICES ASSUME NEW T \in SUBSET S, Cardinality(T) = n + 1 PROVE T \in P
    OBVIOUS
  <2>1. IsFiniteSet(T)
    BY FS_Subset
  <2>2. T # {}
    <3>1. Cardinality({}) = 0 /\ n + 1 # 0
      BY FS_EmptySet
    <3> QED BY <3>1
  <2>3. ASSUME NEW x \in T PROVE T \ {x} \in P
    <3>1. Cardinality(T \ {x}) = Cardinality(T) - 1
      BY <2>1, FS_RemoveElement
    <3> QED BY <1>2, <3>1
  <2> QED BY <2>2, <2>3
<1>3. \A n \in Nat : n \in Q
  <2> HIDE DEF Q
  <2> QED BY <1>1, <1>2, NatInductionSet
<1>4. ASSUME NEW T \in SUBSET S PROVE T \in P
  <2>1. Cardinality(T) \in Nat
    BY FS_Subset, FS_CardinalityType
  <2> QED BY <1>3, <2>1
<1> QED BY <1>4

(* An interval is a finite set.                                            *)
LEMMA FiniteInterval == \A a, b \in Int : IsFiniteSet(a..b)
  BY FS_Interval

-----------------------------------------------------------------------------
(* The recursion behind a sum: an element of the set, and the rest.        *)
OneOf(s) == CHOOSE x \in s : TRUE
AddsUp(g, f, D) == g = [s \in D |-> IF s = {} THEN 0 ELSE f[OneOf(s)] + g[s \ {OneOf(s)}]]

(* The element the recursion takes out is one of the set's.                *)
LEMMA AnyElement == ASSUME NEW s, s # {} PROVE OneOf(s) \in s
  BY DEF OneOf

(* The recursion has a solution: one for the subsets up to each size, from *)
(* the one for the size before.                                            *)
LEMMA SumExists ==
  ASSUME NEW f, NEW S, IsFiniteSet(S)
  PROVE  \E g : AddsUp(g, f, SUBSET S)
<1> DEFINE Upto(n) == {s \in SUBSET S : Cardinality(s) <= n}
           Q == {n \in Nat : \E g : AddsUp(g, f, Upto(n))}
<1>1. 0 \in Q
  <2> DEFINE g == [s \in Upto(0) |-> 0]
  <2>1. \A s \in Upto(0) : s = {}
    <3> SUFFICES ASSUME NEW s \in SUBSET S, Cardinality(s) <= 0 PROVE s = {}
      OBVIOUS
    <3>1. IsFiniteSet(s)
      BY FS_Subset
    <3>2. Cardinality(s) \in Nat
      BY <3>1, FS_CardinalityType
    <3> QED BY <3>1, <3>2, FS_EmptySet
  <2>2. AddsUp(g, f, Upto(0))
    BY <2>1 DEF AddsUp
  <2> QED BY <2>2
<1>2. ASSUME NEW n \in Nat, n \in Q PROVE n + 1 \in Q
  <2>1. PICK g : AddsUp(g, f, Upto(n))
    BY <1>2
  <2> DEFINE h == [s \in Upto(n + 1) |-> IF s = {} THEN 0 ELSE f[OneOf(s)] + g[s \ {OneOf(s)}]]
  <2>2. ASSUME NEW s \in Upto(n + 1), s # {} PROVE h[s \ {OneOf(s)}] = g[s \ {OneOf(s)}]
    <3> DEFINE t == s \ {OneOf(s)}
    <3>1. IsFiniteSet(s)
      BY FS_Subset
    <3>2. Cardinality(s) \in Nat /\ Cardinality(t) = Cardinality(s) - 1
      BY <2>2, <3>1, AnyElement, FS_CardinalityType, FS_RemoveElement, Zenon
    <3>3. Cardinality(t) <= n /\ Cardinality(t) <= n + 1
      BY <3>2
    <3>4. t \in Upto(n) /\ t \in Upto(n + 1)
      BY <3>3
    <3> HIDE DEF t
    <3>5. h[t] = IF t = {} THEN 0 ELSE f[OneOf(t)] + g[t \ {OneOf(t)}]
      BY <3>4
    <3>6. g[t] = IF t = {} THEN 0 ELSE f[OneOf(t)] + g[t \ {OneOf(t)}]
      BY <2>1, <3>4 DEF AddsUp
    <3> QED BY <3>5, <3>6 DEF t
  <2>3. AddsUp(h, f, Upto(n + 1))
    BY <2>2 DEF AddsUp
  <2> HIDE DEF h
  <2>4. \E k : AddsUp(k, f, Upto(n + 1))
    BY <2>3
  <2>5. n + 1 \in Nat
    OBVIOUS
  <2> HIDE DEF Upto
  <2> QED BY <2>4, <2>5
<1>3. \A n \in Nat : n \in Q
  <2> HIDE DEF Q
  <2> QED BY <1>1, <1>2, NatInductionSet
<1>4. Cardinality(S) \in Nat /\ Upto(Cardinality(S)) = SUBSET S
  <2>1. \A s \in SUBSET S : Cardinality(s) <= Cardinality(S)
    BY FS_Subset
  <2> QED BY <2>1, FS_CardinalityType
<1> QED BY <1>3, <1>4

(* A sum is that solution at the whole set. *)
LEMMA SumIsRecursion ==
  ASSUME NEW f, NEW S, IsFiniteSet(S)
  PROVE  \E g : AddsUp(g, f, SUBSET S) /\ SumFunctionOnSet(f, S) = g[S]
<1> DEFINE g == CHOOSE h : h = [s \in SUBSET S |-> IF s = {} THEN 0
                                ELSE LET x == CHOOSE x \in s : TRUE IN f[x] + h[s \ {x}]]
<1>1. SumFunctionOnSet(f, S) = g[S]
  BY DEF SumFunctionOnSet, FoldFunctionOnSet, MapThenFoldSet
<1>2. \E h : h = [s \in SUBSET S |-> IF s = {} THEN 0
                  ELSE LET x == CHOOSE x \in s : TRUE IN f[x] + h[s \ {x}]]
  <2>1. PICK h : AddsUp(h, f, SUBSET S)
    BY SumExists
  <2>2. h = [s \in SUBSET S |-> IF s = {} THEN 0
               ELSE LET x == CHOOSE x \in s : TRUE IN f[x] + h[s \ {x}]]
    BY <2>1 DEF AddsUp, OneOf
  <2> QED BY <2>2
<1>3. AddsUp(g, f, SUBSET S)
  BY <1>2 DEF AddsUp, OneOf
<1> QED BY <1>1, <1>3

(* The solutions for a set and for a subset of it agree on the subset.     *)
LEMMA SolutionsAgree ==
  ASSUME NEW f, NEW S, NEW T, NEW g, NEW h, IsFiniteSet(S), T \in SUBSET S,
         AddsUp(g, f, SUBSET S), AddsUp(h, f, SUBSET T)
  PROVE  g[T] = h[T]
<1> DEFINE P == {s \in SUBSET T : g[s] = h[s]}
<1>1. IsFiniteSet(T)
  BY FS_Subset
<1>2. \A s \in SUBSET T : /\ g[s] = IF s = {} THEN 0 ELSE f[OneOf(s)] + g[s \ {OneOf(s)}]
                         /\ h[s] = IF s = {} THEN 0 ELSE f[OneOf(s)] + h[s \ {OneOf(s)}]
  BY DEF AddsUp
<1>3. {} \in P
  BY <1>2
<1>4. ASSUME NEW s \in SUBSET T, s # {}, \A x \in s : s \ {x} \in P PROVE s \in P
  BY <1>2, <1>4, AnyElement
<1>5. \A s \in SUBSET T : s \in P
  <2> HIDE DEF P
  <2> QED BY <1>1, <1>3, <1>4, FiniteInductionSet
<1> QED BY <1>5

(* The sum over no element is 0.                                           *)
LEMMA SumEmpty == ASSUME NEW f PROVE SumFunctionOnSet(f, {}) = 0
<1>1. PICK g : AddsUp(g, f, SUBSET {}) /\ SumFunctionOnSet(f, {}) = g[{}]
  BY SumIsRecursion, FS_EmptySet
<1> QED BY <1>1 DEF AddsUp

(* A sum is the term of the element taken out, and the sum of the rest.    *)
LEMMA SumAny ==
  ASSUME NEW f, NEW S, IsFiniteSet(S), S # {}
  PROVE  SumFunctionOnSet(f, S) = f[OneOf(S)] + SumFunctionOnSet(f, S \ {OneOf(S)})
<1> DEFINE T == S \ {OneOf(S)}
<1>1. IsFiniteSet(T) /\ T \in SUBSET S
  BY FS_Subset
<1>2. PICK g : AddsUp(g, f, SUBSET S) /\ SumFunctionOnSet(f, S) = g[S]
  BY SumIsRecursion
<1>3. PICK h : AddsUp(h, f, SUBSET T) /\ SumFunctionOnSet(f, T) = h[T]
  BY <1>1, SumIsRecursion
<1>4. g[T] = h[T]
  <2> HIDE DEF T
  <2>1. T \in SUBSET S /\ AddsUp(g, f, SUBSET S) /\ AddsUp(h, f, SUBSET T)
    BY <1>1, <1>2, <1>3
  <2> QED BY <2>1, SolutionsAgree
<1>5. g[S] = f[OneOf(S)] + g[T]
  BY <1>2 DEF AddsUp
<1> QED BY <1>2, <1>3, <1>4, <1>5

(* A sum of natural numbers is one.                                        *)
LEMMA SumNat ==
  ASSUME NEW f, NEW S, IsFiniteSet(S), \A x \in S : f[x] \in Nat
  PROVE  \A T \in SUBSET S : SumFunctionOnSet(f, T) \in Nat
<1> DEFINE P == {T \in SUBSET S : SumFunctionOnSet(f, T) \in Nat}
<1>1. {} \in P
  BY SumEmpty
<1>2. ASSUME NEW T \in SUBSET S, T # {}, \A x \in T : T \ {x} \in P PROVE T \in P
  <2>1. OneOf(T) \in T /\ T \ {OneOf(T)} \in P
    BY <1>2, AnyElement
  <2>2. SumFunctionOnSet(f, T) = f[OneOf(T)] + SumFunctionOnSet(f, T \ {OneOf(T)})
    BY <1>2, FS_Subset, SumAny
  <2> QED BY <2>1, <2>2
<1>3. \A T \in SUBSET S : T \in P
  <2> HIDE DEF P
  <2> QED BY <1>1, <1>2, FiniteInductionSet
<1> QED BY <1>3

(* The order does not matter: any element can be taken out first.          *)
LEMMA SumRemove ==
  ASSUME NEW f, NEW S, IsFiniteSet(S), \A x \in S : f[x] \in Nat, NEW x \in S
  PROVE  SumFunctionOnSet(f, S) = f[x] + SumFunctionOnSet(f, S \ {x})
<1> DEFINE Sum(T) == SumFunctionOnSet(f, T)
           P == {T \in SUBSET S : \A y \in T : Sum(T) = f[y] + Sum(T \ {y})}
<1>1. {} \in P
  OBVIOUS
<1>2. ASSUME NEW T \in SUBSET S, T # {}, \A y \in T : T \ {y} \in P PROVE T \in P
  <2> SUFFICES ASSUME NEW y \in T PROVE Sum(T) = f[y] + Sum(T \ {y})
    OBVIOUS
  <2> DEFINE a == OneOf(T)
  <2>1. a \in T /\ Sum(T) = f[a] + Sum(T \ {a})
    BY <1>2, FS_Subset, AnyElement, SumAny
  <2> HIDE DEF a
  <2>2. CASE y = a
    BY <2>1, <2>2
  <2>3. CASE y # a
    <3>1. (T \ {a}) \ {y} = (T \ {y}) \ {a} /\ y \in T \ {a} /\ a \in T \ {y}
      BY <2>1, <2>3
    <3>2. /\ Sum(T \ {a}) = f[y] + Sum((T \ {a}) \ {y})
          /\ Sum(T \ {y}) = f[a] + Sum((T \ {y}) \ {a})
      BY <1>2, <2>1, <3>1
    <3>3. f[a] \in Nat /\ f[y] \in Nat /\ Sum((T \ {a}) \ {y}) \in Nat
      BY <2>1, SumNat
    <3> HIDE DEF Sum
    <3> QED BY <2>1, <3>1, <3>2, <3>3
  <2> QED BY <2>2, <2>3
<1>3. \A T \in SUBSET S : T \in P
  <2> HIDE DEF P
  <2> QED BY <1>1, <1>2, FiniteInductionSet
<1> QED BY <1>3

(* One more element adds its term.                                         *)
LEMMA SumAdd ==
  ASSUME NEW f, NEW S, NEW x, IsFiniteSet(S), x \notin S, \A y \in S \cup {x} : f[y] \in Nat
  PROVE  SumFunctionOnSet(f, S \cup {x}) = f[x] + SumFunctionOnSet(f, S)
<1>1. IsFiniteSet(S \cup {x}) /\ (S \cup {x}) \ {x} = S /\ x \in S \cup {x}
  BY FS_AddElement
<1> QED BY <1>1, SumRemove

(* The sum over one element is its term.                                   *)
LEMMA SumOne == ASSUME NEW f, NEW x, f[x] \in Nat PROVE SumFunctionOnSet(f, {x}) = f[x]
<1>1. {} \cup {x} = {x} /\ IsFiniteSet({}) /\ x \notin {}
  BY FS_EmptySet
<1>2. SumFunctionOnSet(f, {} \cup {x}) = f[x] + SumFunctionOnSet(f, {})
  BY <1>1, SumAdd
<1> QED BY <1>1, <1>2, SumEmpty

(* Equal terms add up to the same.                                         *)
LEMMA SumEqual ==
  ASSUME NEW f, NEW h, NEW S, IsFiniteSet(S), \A x \in S : f[x] = h[x]
  PROVE  SumFunctionOnSet(f, S) = SumFunctionOnSet(h, S)
<1> DEFINE P == {T \in SUBSET S : SumFunctionOnSet(f, T) = SumFunctionOnSet(h, T)}
<1>1. {} \in P
  BY SumEmpty
<1>2. ASSUME NEW T \in SUBSET S, T # {}, \A x \in T : T \ {x} \in P PROVE T \in P
  <2>1. OneOf(T) \in T /\ T \ {OneOf(T)} \in P
    BY <1>2, AnyElement
  <2>2. /\ SumFunctionOnSet(f, T) = f[OneOf(T)] + SumFunctionOnSet(f, T \ {OneOf(T)})
        /\ SumFunctionOnSet(h, T) = h[OneOf(T)] + SumFunctionOnSet(h, T \ {OneOf(T)})
    BY <1>2, FS_Subset, SumAny
  <2> QED BY <2>1, <2>2
<1>3. \A T \in SUBSET S : T \in P
  <2> HIDE DEF P
  <2> QED BY <1>1, <1>2, FiniteInductionSet
<1> QED BY <1>3

(* Terms that are 0 add up to 0.                                           *)
LEMMA SumZero ==
  ASSUME NEW f, NEW S, IsFiniteSet(S), \A x \in S : f[x] = 0
  PROVE  SumFunctionOnSet(f, S) = 0
<1> DEFINE P == {T \in SUBSET S : SumFunctionOnSet(f, T) = 0}
<1>1. {} \in P
  BY SumEmpty
<1>2. ASSUME NEW T \in SUBSET S, T # {}, \A x \in T : T \ {x} \in P PROVE T \in P
  <2>1. OneOf(T) \in T /\ T \ {OneOf(T)} \in P
    BY <1>2, AnyElement
  <2>2. SumFunctionOnSet(f, T) = f[OneOf(T)] + SumFunctionOnSet(f, T \ {OneOf(T)})
    BY <1>2, FS_Subset, SumAny
  <2> QED BY <2>1, <2>2
<1>3. \A T \in SUBSET S : T \in P
  <2> HIDE DEF P
  <2> QED BY <1>1, <1>2, FiniteInductionSet
<1> QED BY <1>3

(* When one term grows by one, so does the sum.                            *)
LEMMA SumOneMore ==
  ASSUME NEW f, NEW h, NEW S, NEW x \in S, IsFiniteSet(S), \A y \in S : f[y] \in Nat,
         h[x] = f[x] + 1, \A y \in S \ {x} : h[y] = f[y]
  PROVE  SumFunctionOnSet(h, S) = SumFunctionOnSet(f, S) + 1
<1>1. IsFiniteSet(S \ {x})
  BY FS_RemoveElement
<1>2. SumFunctionOnSet(h, S \ {x}) = SumFunctionOnSet(f, S \ {x})
  BY <1>1, SumEqual
<1>3. /\ SumFunctionOnSet(f, S) = f[x] + SumFunctionOnSet(f, S \ {x})
      /\ SumFunctionOnSet(h, S) = h[x] + SumFunctionOnSet(h, S \ {x})
  <2>1. \A y \in S : h[y] \in Nat
    OBVIOUS
  <2> QED BY <2>1, SumRemove
<1>4. SumFunctionOnSet(f, S \ {x}) \in Nat
  BY SumNat
<1> QED BY <1>2, <1>3, <1>4

(* The sum over two disjoint sets is that of their sums.                   *)
LEMMA SumParts ==
  ASSUME NEW f, NEW S, NEW T, IsFiniteSet(S), IsFiniteSet(T), S \cap T = {},
         \A x \in S \cup T : f[x] \in Nat
  PROVE  SumFunctionOnSet(f, S \cup T) = SumFunctionOnSet(f, S) + SumFunctionOnSet(f, T)
<1> DEFINE Sum(U) == SumFunctionOnSet(f, U)
           P == {U \in SUBSET T : Sum(S \cup U) = Sum(S) + Sum(U)}
<1>0. \A U \in SUBSET (S \cup T) : Sum(U) \in Nat /\ IsFiniteSet(U)
  BY FS_Union, FS_Subset, SumNat
<1>1. {} \in P
  <2>1. Sum(S) \in Nat /\ Sum({}) = 0 /\ S \cup {} = S
    BY <1>0, SumEmpty
  <2> HIDE DEF Sum
  <2> QED BY <2>1
<1>2. ASSUME NEW U \in SUBSET T, U # {}, \A x \in U : U \ {x} \in P PROVE U \in P
  <2>1. PICK x \in U : TRUE
    BY <1>2
  <2> DEFINE V == U \ {x}
  <2>2. Sum(S \cup V) = Sum(S) + Sum(V)
    BY <1>2, <2>1
  <2>3. U = V \cup {x} /\ S \cup U = (S \cup V) \cup {x} /\ x \notin V /\ x \notin S \cup V
    BY <2>1
  <2>4. /\ V \in SUBSET (S \cup T) /\ S \cup V \in SUBSET (S \cup T) /\ S \in SUBSET (S \cup T)
        /\ x \in S \cup T
    OBVIOUS
  <2> HIDE DEF V
  <2>5. Sum(V \cup {x}) = f[x] + Sum(V)
    BY <1>0, <2>3, <2>4, SumAdd
  <2>6. Sum((S \cup V) \cup {x}) = f[x] + Sum(S \cup V)
    BY <1>0, <2>3, <2>4, SumAdd
  <2>7. f[x] \in Nat /\ Sum(V) \in Nat /\ Sum(S) \in Nat
    BY <1>0, <2>4
  <2>8. Sum(S \cup U) = Sum(S) + Sum(U)
    <3> HIDE DEF Sum
    <3>1. Sum(U) = f[x] + Sum(V)
      BY <2>3, <2>5
    <3>2. Sum(S \cup U) = f[x] + (Sum(S) + Sum(V))
      BY <2>2, <2>3, <2>6
    <3> QED BY <2>7, <3>1, <3>2
  <2> QED BY <2>8
<1>3. \A U \in SUBSET T : U \in P
  <2> HIDE DEF P
  <2> QED BY <1>1, <1>2, FiniteInductionSet
<1> QED BY <1>3

(* The natural numbers f[m..n] are h[m+1..n+1]. *)
MovedByOne(f, h, m, n) == \A i \in m..n : f[i] \in Nat /\ h[i + 1] = f[i]

(* Terms moved along by one add up to the same. *)
LEMMA SumShift ==
  ASSUME NEW f, NEW h, NEW m \in Nat, NEW n \in Nat, NEW a, NEW b,
         a = m + 1, b = n + 1, MovedByOne(f, h, m, n)
  PROVE  SumFunctionOnSet(h, a..b) = SumFunctionOnSet(f, m..n)
<1>0. (\A i \in m..n : f[i] \in Nat) /\ (\A i \in m..n : h[i + 1] = f[i])
  BY DEF MovedByOne
<1> SUFFICES SumFunctionOnSet(h, m + 1..n + 1) = SumFunctionOnSet(f, m..n)
  OBVIOUS
<1> DEFINE Q == {k \in Nat : m + k <= n + 1 =>
                    SumFunctionOnSet(h, m + 1..m + k) = SumFunctionOnSet(f, m..m + k - 1)}
<1>1. 0 \in Q
  <2>1. m + 1..m + 0 = {} /\ m..m + 0 - 1 = {}
    OBVIOUS
  <2> QED BY <2>1, SumEmpty
<1>2. ASSUME NEW k \in Nat, k \in Q PROVE k + 1 \in Q
  <2> SUFFICES ASSUME m + (k + 1) <= n + 1
               PROVE  SumFunctionOnSet(h, m + 1..m + (k + 1)) = SumFunctionOnSet(f, m..m + (k + 1) - 1)
    OBVIOUS
  <2>1. SumFunctionOnSet(h, m + 1..m + k) = SumFunctionOnSet(f, m..m + k - 1)
    BY <1>2
  <2>2. /\ m + 1..m + (k + 1) = (m + 1..m + k) \cup {m + k + 1} /\ m + k + 1 \notin m + 1..m + k
        /\ m..m + (k + 1) - 1 = (m..m + k - 1) \cup {m + k} /\ m + k \notin m..m + k - 1
    OBVIOUS
  <2>3. IsFiniteSet(m + 1..m + k) /\ IsFiniteSet(m..m + k - 1)
    BY FS_Interval
  <2>4. /\ h[m + k + 1] = f[m + k]
        /\ \A i \in (m..m + k - 1) \cup {m + k} : f[i] \in Nat
    BY <1>0
  <2>5. \A i \in (m + 1..m + k) \cup {m + k + 1} : h[i] \in Nat
    <3> SUFFICES ASSUME NEW i \in (m + 1..m + k) \cup {m + k + 1} PROVE h[i] \in Nat
      OBVIOUS
    <3>1. i - 1 \in m..n /\ (i - 1) + 1 = i
      OBVIOUS
    <3> QED BY <1>0, <3>1
  <2>6. SumFunctionOnSet(h, (m + 1..m + k) \cup {m + k + 1}) = h[m + k + 1] + SumFunctionOnSet(h, m + 1..m + k)
    BY <2>2, <2>3, <2>5, SumAdd
  <2>7. SumFunctionOnSet(f, (m..m + k - 1) \cup {m + k}) = f[m + k] + SumFunctionOnSet(f, m..m + k - 1)
    BY <2>2, <2>3, <2>4, SumAdd
  <2> QED BY <2>1, <2>2, <2>4, <2>6, <2>7
<1>3. \A k \in Nat : k \in Q
  <2> HIDE DEF Q
  <2> QED BY <1>1, <1>2, NatInductionSet
<1>4. CASE m <= n + 1
  <2> DEFINE k == n + 1 - m
  <2>1. k \in Nat /\ m + k <= n + 1 /\ m + k = n + 1 /\ m + k - 1 = n
    BY <1>4
  <2> HIDE DEF k
  <2>2. SumFunctionOnSet(h, m + 1..m + k) = SumFunctionOnSet(f, m..m + k - 1)
    BY <1>3, <2>1
  <2> QED BY <2>1, <2>2
<1>5. CASE n + 1 < m
  <2>1. m + 1..n + 1 = {} /\ m..n = {}
    BY <1>5
  <2> QED BY <2>1, SumEmpty
<1> QED BY <1>4, <1>5

(* A part of a sum is no more than the whole. *)
LEMMA SumPart ==
  ASSUME NEW f, NEW S, NEW T, IsFiniteSet(S), T \in SUBSET S, \A x \in S : f[x] \in Nat
  PROVE  SumFunctionOnSet(f, T) <= SumFunctionOnSet(f, S)
<1>1. IsFiniteSet(T) /\ IsFiniteSet(S \ T) /\ T \cap (S \ T) = {} /\ T \cup (S \ T) = S
  BY FS_Subset
<1>2. SumFunctionOnSet(f, S) = SumFunctionOnSet(f, T) + SumFunctionOnSet(f, S \ T)
  BY <1>1, SumParts
<1>3. SumFunctionOnSet(f, T) \in Nat /\ SumFunctionOnSet(f, S \ T) \in Nat
  BY SumNat
<1> QED BY <1>2, <1>3

(* Terms that are no greater add up to no more,                            *)
LEMMA SumAtMost ==
  ASSUME NEW f, NEW h, NEW S, IsFiniteSet(S),
         \A x \in S : f[x] \in Nat /\ h[x] \in Nat /\ h[x] <= f[x]
  PROVE  SumFunctionOnSet(h, S) <= SumFunctionOnSet(f, S)
<1> DEFINE P == {T \in SUBSET S : SumFunctionOnSet(h, T) <= SumFunctionOnSet(f, T)}
<1>1. {} \in P
  BY SumEmpty
<1>2. ASSUME NEW T \in SUBSET S, T # {}, \A x \in T : T \ {x} \in P PROVE T \in P
  <2> DEFINE o == OneOf(T)
  <2>1. o \in T /\ T \ {o} \in P /\ T \ {o} \in SUBSET S
    BY <1>2, AnyElement
  <2>2. /\ SumFunctionOnSet(f, T) = f[o] + SumFunctionOnSet(f, T \ {o})
        /\ SumFunctionOnSet(h, T) = h[o] + SumFunctionOnSet(h, T \ {o})
    BY <1>2, FS_Subset, SumAny
  <2>3. SumFunctionOnSet(f, T \ {o}) \in Nat /\ SumFunctionOnSet(h, T \ {o}) \in Nat
    BY <2>1, SumNat
  <2> QED BY <2>1, <2>2, <2>3
<1>3. \A T \in SUBSET S : T \in P
  <2> HIDE DEF P
  <2> QED BY <1>1, <1>2, FiniteInductionSet
<1> QED BY <1>3

(* or to one more at most when one of them may be greater by one.          *)
LEMMA SumAtMostOneMore ==
  ASSUME NEW f, NEW h, NEW S, NEW x \in S, IsFiniteSet(S),
         \A y \in S : f[y] \in Nat /\ h[y] \in Nat,
         h[x] <= f[x] + 1, \A y \in S \ {x} : h[y] <= f[y]
  PROVE  SumFunctionOnSet(h, S) <= SumFunctionOnSet(f, S) + 1
<1>1. IsFiniteSet(S \ {x})
  BY FS_RemoveElement
<1>2. SumFunctionOnSet(h, S \ {x}) <= SumFunctionOnSet(f, S \ {x})
  BY <1>1, SumAtMost
<1>3. /\ SumFunctionOnSet(f, S) = f[x] + SumFunctionOnSet(f, S \ {x})
      /\ SumFunctionOnSet(h, S) = h[x] + SumFunctionOnSet(h, S \ {x})
  BY SumRemove
<1>4. SumFunctionOnSet(f, S \ {x}) \in Nat /\ SumFunctionOnSet(h, S \ {x}) \in Nat
  BY SumNat
<1> QED BY <1>2, <1>3, <1>4
=============================================================================
