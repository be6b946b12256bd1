---------------------------- MODULE StatsProofs -----------------------------
(***************************************************************************)
(* Proofs about Stats, for any number of workers, results, buckets and     *)
(* windows.                                                                *)
(*                                                                         *)
(* Sums over workers and folds over samples need induction.  It is done    *)
(* with sets in the place of predicates: a set of numbers that has 0 and   *)
(* the successor of each of its members is Nat.                            *)
(***************************************************************************)
EXTENDS Stats, FiniteSetTheorems, FunctionTheorems, SequenceTheorems, WellFoundedInduction, TLAPS

-----------------------------------------------------------------------------
(* Induction, minimum and maximum.                                         *)

\* A set of natural numbers that is not empty has a least member.
LEMMA LeastNumber ==
    ASSUME NEW T \in SUBSET Nat, T # {}
    PROVE  \E n \in T : \A m \in T : n <= m
  <1>1. IsWellFoundedOn(OpToRel(<, Nat), Nat)
    BY NatLessThanWellFounded
  <1>2. PICK n \in T : \A m \in T : <<m, n>> \notin OpToRel(<, Nat)
    BY <1>1, WFMin
  <1>3. \A m \in T : ~(m < n)
    BY <1>2 DEF OpToRel
  <1> QED
    BY <1>3

\* Induction on natural numbers, for a set.
LEMMA NatSet ==
    ASSUME NEW T \in SUBSET Nat, 0 \in T, \A n \in T : n + 1 \in T
    PROVE  T = Nat
  <1> SUFFICES ASSUME Nat \ T # {} PROVE FALSE
    OBVIOUS
  <1>1. PICK n \in Nat \ T : \A m \in Nat \ T : n <= m
    BY LeastNumber
  <1>2. n # 0 /\ n - 1 \in Nat
    BY <1>1
  <1>3. n - 1 \in T
    BY <1>1, <1>2
  <1>4. (n - 1) + 1 \in T
    BY <1>3
  <1> QED
    BY <1>1, <1>4

\* Induction on the subsets of a finite set, for a set of subsets: one that has
\* the empty set, and every subset of which it has a part with one member less,
\* has all of them.
LEMMA SubsetSet ==
    ASSUME NEW S, IsFiniteSet(S), NEW P, {} \in P,
           \A t \in SUBSET S : t # {} /\ (\A x \in t : t \ {x} \in P) => t \in P
    PROVE  SUBSET S \subseteq P
  <1> DEFINE T == {n \in Nat : \A t \in SUBSET S : Cardinality(t) = n => t \in P}
  <1>1. \A t \in SUBSET S : IsFiniteSet(t) /\ Cardinality(t) \in Nat
    BY FS_Subset, FS_CardinalityType
  <1>2. 0 \in T
    BY <1>1, FS_EmptySet
  <1>3. ASSUME NEW n \in T PROVE n + 1 \in T
    <2>1. SUFFICES ASSUME NEW t \in SUBSET S, Cardinality(t) = n + 1 PROVE t \in P
      OBVIOUS
    <2>2. t # {}
      BY <2>1, FS_EmptySet
    <2>3. ASSUME NEW x \in t PROVE t \ {x} \in P
      <3>1. Cardinality(t \ {x}) = n
        BY <1>1, <2>1, FS_RemoveElement
      <3> QED
        BY <3>1
    <2> QED
      BY <2>2, <2>3
  <1>4. T = Nat
    <2> HIDE DEF T
    <2> QED
      BY <1>2, <1>3, NatSet DEF T
  <1> QED
    BY <1>1, <1>4

\* What is in a set and not above any of its members is its minimum.
LEMMA MinIs ==
    ASSUME NEW S \in SUBSET Int, NEW x \in S, \A y \in S : x <= y
    PROVE  Min(S) = x
  <1> DEFINE m == CHOOSE z \in S : \A y \in S : z <= y
  <1>1. m \in S /\ \A y \in S : m <= y
    OBVIOUS
  <1>2. m = x
    <2>1. m <= x /\ x <= m /\ m \in Int /\ x \in Int
      BY <1>1
    <2> HIDE DEF m
    <2> QED
      BY <2>1
  <1> QED
    BY <1>2 DEF Min

LEMMA MaxIs ==
    ASSUME NEW S \in SUBSET Int, NEW x \in S, \A y \in S : y <= x
    PROVE  Max(S) = x
  <1> DEFINE m == CHOOSE z \in S : \A y \in S : z >= y
  <1>1. m \in S /\ \A y \in S : m >= y
    OBVIOUS
  <1>2. m = x
    <2>1. m <= x /\ x <= m /\ m \in Int /\ x \in Int
      BY <1>1
    <2> HIDE DEF m
    <2> QED
      BY <2>1
  <1> QED
    BY <1>2 DEF Max

\* The minimum and the maximum of two numbers.
LEMMA MinOfTwo ==
    ASSUME NEW a \in Int, NEW b \in Int
    PROVE  Min({a, b}) = IF a <= b THEN a ELSE b
  <1>1. CASE a <= b
    BY <1>1, MinIs
  <1>2. CASE ~(a <= b)
    BY <1>2, MinIs
  <1> QED
    BY <1>1, <1>2

LEMMA MaxOfTwo ==
    ASSUME NEW a \in Int, NEW b \in Int
    PROVE  Max({a, b}) = IF a <= b THEN b ELSE a
  <1>1. CASE a <= b
    BY <1>1, MaxIs
  <1>2. CASE ~(a <= b)
    BY <1>2, MaxIs
  <1> QED
    BY <1>1, <1>2

\* The maximum of a bounded set of natural numbers is a member.
LEMMA MaxMember ==
    ASSUME NEW T \in SUBSET Nat, T # {}, NEW n \in Nat, \A m \in T : m <= n
    PROVE  Max(T) \in T
  <1> DEFINE Upper == {u \in Nat : \A m \in T : m <= u}
  <1>1. PICK u \in Upper : \A v \in Upper : u <= v
    BY LeastNumber
  <1>2. u \in T
    <2> SUFFICES ASSUME u \notin T PROVE FALSE
      OBVIOUS
    <2>1. \A m \in T : m <= u - 1
      BY <1>1
    <2>2. PICK m \in T : m <= u - 1
      BY <2>1
    <2>3. u - 1 \in Nat
      BY <2>2, <1>1
    <2> QED
      BY <1>1, <2>1, <2>3
  <1> QED
    BY <1>1, <1>2, MaxIs

-----------------------------------------------------------------------------
(* Sums.                                                                   *)

SumOf(f, S) == MapThenSumSet(LAMBDA x : f[x], S)

\* There is a function that gives every part of a finite set its sum, whichever
\* member is added last, and the fold computes it.
LEMMA PartSums ==
    ASSUME NEW S, IsFiniteSet(S), NEW f, \A x \in S : f[x] \in Nat
    PROVE  \E F \in [SUBSET S -> Nat] :
              /\ F[{}] = 0
              /\ \A t \in SUBSET S : \A x \in t : F[t] = f[x] + F[t \ {x}]
              /\ F[S] = SumOf(f, S)
  <1> DEFINE Adds(F, s) == /\ F \in [SUBSET s -> Nat] /\ F[{}] = 0
                           /\ \A t \in SUBSET s : \A x \in t : F[t] = f[x] + F[t \ {x}]
             P == {s \in SUBSET S : \E F : Adds(F, s)}
  <1>1. {} \in P
    <2>1. Adds([t \in SUBSET {} |-> 0], {})
      OBVIOUS
    <2> QED
      BY <2>1
  <1>2. ASSUME NEW s \in SUBSET S, s # {}, \A x \in s : s \ {x} \in P PROVE s \in P
    <2>1. PICK y \in s : TRUE
      BY <1>2
    <2>2. PICK F : Adds(F, s \ {y})
      BY <1>2
    <2> DEFINE G == [t \in SUBSET s |-> IF y \in t THEN f[y] + F[t \ {y}] ELSE F[t]]
    <2>3. \A t \in SUBSET s :
             /\ t \ {y} \in SUBSET (s \ {y}) /\ F[t \ {y}] \in Nat
             /\ y \notin t => t \in SUBSET (s \ {y}) /\ F[t] \in Nat
      BY <2>2
    <2>4. G \in [SUBSET s -> Nat]
      <3>1. ASSUME NEW t \in SUBSET s PROVE G[t] \in Nat
        <4>1. f[y] \in Nat
          BY <2>1
        <4>2. CASE y \in t
          <5>1. F[t \ {y}] \in Nat
            BY <2>3
          <5>2. G[t] = f[y] + F[t \ {y}]
            BY <4>2
          <5> HIDE DEF G, Adds
          <5> QED
            BY <4>1, <5>1, <5>2
        <4>3. CASE y \notin t
          <5>1. F[t] \in Nat
            BY <2>3, <4>3
          <5> QED
            BY <4>3, <5>1
        <4> QED
          BY <4>2, <4>3
      <3> QED
        BY <3>1
    <2>5. G[{}] = 0
      BY <2>2
    <2>6. ASSUME NEW t \in SUBSET s, NEW x \in t PROVE G[t] = f[x] + G[t \ {x}]
      <3>1. CASE x = y
        BY <3>1, <2>3
      <3>2. CASE x # y /\ y \notin t
        BY <3>2, <2>2
      <3>3. CASE x # y /\ y \in t
        <4>1. G[t] = f[y] + F[t \ {y}] /\ G[t \ {x}] = f[y] + F[(t \ {x}) \ {y}]
          BY <3>3
        <4>2. F[t \ {y}] = f[x] + F[(t \ {y}) \ {x}]
          BY <2>2, <2>3, <3>3
        <4>3. F[(t \ {y}) \ {x}] = F[(t \ {x}) \ {y}]
          <5>1. (t \ {y}) \ {x} = (t \ {x}) \ {y}
            OBVIOUS
          <5> QED
            BY <5>1
        <4>4. f[x] \in Nat /\ f[y] \in Nat /\ F[(t \ {x}) \ {y}] \in Nat
          <5>1. t \ {x} \in SUBSET s /\ x \in S /\ y \in S
            BY <1>2, <2>1
          <5>2. f[x] \in Nat /\ f[y] \in Nat
            BY <5>1
          <5> HIDE DEF G, Adds
          <5>3. F[(t \ {x}) \ {y}] \in Nat
            BY <2>3, <5>1
          <5> QED
            BY <5>2, <5>3
        <4> HIDE DEF G, Adds
        <4> QED
          BY <4>1, <4>2, <4>3, <4>4
      <3> QED
        BY <3>1, <3>2, <3>3
    <2>7. Adds(G, s)
      BY <2>4, <2>5, <2>6
    <2> QED
      BY <2>7
  <1>3. S \in P
    <2>1. \A t \in SUBSET S : t # {} /\ (\A x \in t : t \ {x} \in P) => t \in P
      BY <1>2
    <2> HIDE DEF P
    <2> QED
      BY <1>1, <2>1, SubsetSet
  <1>4. PICK F : Adds(F, S)
    BY <1>3
  <1> DEFINE Step(g) == [t \in SUBSET S |-> IF t = {} THEN 0
                                            ELSE f[CHOOSE x \in t : TRUE] + g[t \ {CHOOSE x \in t : TRUE}]]
             iter == CHOOSE g : g = Step(g)
  <1>5. F = Step(F)
    <2>1. ASSUME NEW t \in SUBSET S PROVE F[t] = Step(F)[t]
      <3>1. CASE t = {}
        BY <1>4, <3>1
      <3>2. CASE t # {}
        <4>1. (CHOOSE x \in t : TRUE) \in t
          BY <3>2
        <4> QED
          BY <1>4, <3>2, <4>1
      <3> QED
        BY <3>1, <3>2
    <2>2. DOMAIN F = SUBSET S /\ F = [t \in SUBSET S |-> F[t]]
      BY <1>4
    <2> QED
      BY <2>1, <2>2
  <1>6. iter = Step(iter)
    <2> HIDE DEF Step
    <2> QED
      BY <1>5
  <1> DEFINE Q == {t \in SUBSET S : iter[t] = F[t]}
  <1>7. {} \in Q
    <2>1. iter[{}] = Step(iter)[{}]
      BY <1>6
    <2>2. Step(iter)[{}] = 0
      <3> HIDE DEF iter
      <3> QED
        OBVIOUS
    <2> QED
      BY <1>4, <2>1, <2>2
  <1>8. ASSUME NEW t \in SUBSET S, t # {}, \A x \in t : t \ {x} \in Q PROVE t \in Q
    <2> DEFINE x == CHOOSE y \in t : TRUE
    <2>1. x \in t
      BY <1>8
    <2>2. iter[t \ {x}] = F[t \ {x}]
      BY <1>8, <2>1
    <2>3. iter[t] = Step(iter)[t]
      BY <1>6
    <2>4. Step(iter)[t] = f[x] + iter[t \ {x}]
      <3> HIDE DEF iter
      <3> QED
        BY <1>8
    <2>5. F[t] = f[x] + F[t \ {x}]
      BY <1>4, <2>1
    <2> QED
      BY <2>2, <2>3, <2>4, <2>5
  <1>9. S \in Q
    <2> HIDE DEF Q
    <2> QED
      BY <1>7, <1>8, SubsetSet
  <1>10. SumOf(f, S) = iter[S]
    BY DEF SumOf, MapThenSumSet, MapThenFoldSet
  <1> QED
    BY <1>4, <1>9, <1>10

\* The sum over nothing.
LEMMA SumEmpty ==
    ASSUME NEW f
    PROVE  SumOf(f, {}) = 0
  <1>1. \E F \in [SUBSET {} -> Nat] : F[{}] = 0 /\ F[{}] = SumOf(f, {})
    BY FS_EmptySet, PartSums
  <1> QED
    BY <1>1

\* A sum depends on the values over the set only.
LEMMA SumSame ==
    ASSUME NEW S, IsFiniteSet(S), NEW f, NEW g, \A x \in S : f[x] \in Nat /\ g[x] = f[x]
    PROVE  SumOf(f, S) = SumOf(g, S)
  <1>1. PICK F \in [SUBSET S -> Nat] :
            /\ F[{}] = 0 /\ \A t \in SUBSET S : \A x \in t : F[t] = f[x] + F[t \ {x}]
            /\ F[S] = SumOf(f, S)
    BY PartSums
  <1>2. PICK G \in [SUBSET S -> Nat] :
            /\ G[{}] = 0 /\ \A t \in SUBSET S : \A x \in t : G[t] = g[x] + G[t \ {x}]
            /\ G[S] = SumOf(g, S)
    BY PartSums
  <1> DEFINE P == {t \in SUBSET S : F[t] = G[t]}
  <1>3. {} \in P
    BY <1>1, <1>2
  <1>4. ASSUME NEW t \in SUBSET S, t # {}, \A x \in t : t \ {x} \in P PROVE t \in P
    <2>1. PICK x \in t : t \ {x} \in P
      BY <1>4
    <2>2. F[t] = f[x] + F[t \ {x}] /\ G[t] = g[x] + G[t \ {x}]
      BY <1>1, <1>2
    <2> QED
      BY <2>1, <2>2
  <1>5. S \in P
    <2> HIDE DEF P
    <2> QED
      BY <1>3, <1>4, SubsetSet
  <1> QED
    BY <1>1, <1>2, <1>5

\* One member taken out.
LEMMA SumRemove ==
    ASSUME NEW S, IsFiniteSet(S), NEW f, \A x \in S : f[x] \in Nat, NEW x \in S
    PROVE  /\ SumOf(f, S) = f[x] + SumOf(f, S \ {x})
           /\ SumOf(f, S \ {x}) \in Nat
  <1> DEFINE R == S \ {x}
  <1>1. PICK F \in [SUBSET S -> Nat] :
            /\ F[{}] = 0 /\ \A t \in SUBSET S : \A y \in t : F[t] = f[y] + F[t \ {y}]
            /\ F[S] = SumOf(f, S)
    BY PartSums
  <1>2. IsFiniteSet(R)
    BY FS_Subset
  <1>3. PICK G \in [SUBSET R -> Nat] :
            /\ G[{}] = 0 /\ \A t \in SUBSET R : \A y \in t : G[t] = f[y] + G[t \ {y}]
            /\ G[R] = SumOf(f, R)
    BY <1>2, PartSums
  <1> DEFINE P == {t \in SUBSET R : F[t] = G[t]}
  <1>4. {} \in P
    BY <1>1, <1>3
  <1>5. \A t \in SUBSET R : t # {} /\ (\A y \in t : t \ {y} \in P) => t \in P
    <2>1. SUFFICES ASSUME NEW t \in SUBSET R, t # {}, \A y \in t : t \ {y} \in P PROVE t \in P
      OBVIOUS
    <2>2. PICK y \in t : t \ {y} \in P
      BY <2>1
    <2>3. F[t] = f[y] + F[t \ {y}]
      BY <1>1
    <2>4. G[t] = f[y] + G[t \ {y}]
      BY <1>3
    <2> QED
      BY <2>2, <2>3, <2>4
  <1>6. R \in P
    <2> HIDE DEF P, R
    <2> QED
      BY <1>2, <1>4, <1>5, SubsetSet
  <1>7. F[S] = f[x] + F[R] /\ F[R] = G[R] /\ G[R] \in Nat
    BY <1>1, <1>3, <1>6
  <1> QED
    BY <1>1, <1>3, <1>7

\* One value increased.
LEMMA SumIncrease ==
    ASSUME NEW S, IsFiniteSet(S), NEW x \in S, NEW f, NEW g, NEW d \in Nat,
           \A y \in S : f[y] \in Nat, g[x] = f[x] + d, \A y \in S \ {x} : g[y] = f[y]
    PROVE  SumOf(g, S) = SumOf(f, S) + d
  <1>1. \A y \in S : g[y] \in Nat
    <2>1. g[x] \in Nat
      OBVIOUS
    <2> QED
      BY <2>1
  <1>2. SumOf(g, S) = g[x] + SumOf(g, S \ {x})
    BY <1>1, SumRemove
  <1>3. SumOf(f, S) = f[x] + SumOf(f, S \ {x}) /\ SumOf(f, S \ {x}) \in Nat
    BY SumRemove
  <1>4. SumOf(f, S \ {x}) = SumOf(g, S \ {x})
    <2>1. IsFiniteSet(S \ {x})
      BY FS_Subset
    <2> QED
      BY <2>1, SumSame
  <1> QED
    BY <1>2, <1>3, <1>4

\* A sum of natural numbers is one, and a sum of zeros is 0.
LEMMA SumType ==
    ASSUME NEW S, IsFiniteSet(S), NEW f, \A x \in S : f[x] \in Nat
    PROVE  SumOf(f, S) \in Nat
  <1>1. PICK F \in [SUBSET S -> Nat] :
            /\ F[{}] = 0 /\ \A t \in SUBSET S : \A x \in t : F[t] = f[x] + F[t \ {x}]
            /\ F[S] = SumOf(f, S)
    BY PartSums
  <1> QED
    BY <1>1

LEMMA SumZero ==
    ASSUME NEW S, IsFiniteSet(S), NEW f, \A x \in S : f[x] = 0
    PROVE  SumOf(f, S) = 0
  <1> \A x \in S : f[x] \in Nat
    OBVIOUS
  <1>1. PICK F \in [SUBSET S -> Nat] :
            /\ F[{}] = 0 /\ \A t \in SUBSET S : \A x \in t : F[t] = f[x] + F[t \ {x}]
            /\ F[S] = SumOf(f, S)
    BY PartSums
  <1> DEFINE P == {t \in SUBSET S : F[t] = 0}
  <1>2. {} \in P
    BY <1>1
  <1>3. ASSUME NEW t \in SUBSET S, t # {}, \A x \in t : t \ {x} \in P PROVE t \in P
    <2>1. PICK x \in t : t \ {x} \in P
      BY <1>3
    <2>2. F[t] = f[x] + F[t \ {x}]
      BY <1>1
    <2> QED
      BY <2>1, <2>2
  <1>4. S \in P
    <2> HIDE DEF P
    <2> QED
      BY <1>2, <1>3, SubsetSet
  <1> QED
    BY <1>1, <1>4

-----------------------------------------------------------------------------
(* Histograms.                                                             *)

\* The bounds increase.
LEMMA BoundsIncrease ==
    ASSUME NEW i \in Buckets, NEW k \in Buckets, i <= k
    PROVE  Bounds[i] <= Bounds[k]
  <1> DEFINE T == {n \in Nat : i + n \in Buckets => Bounds[i] <= Bounds[i + n]}
  <1>1. \A b \in Buckets : Bounds[b] \in Nat
    BY BoundsAssumption DEF Buckets
  <1>2. 0 \in T
    <2>1. i + 0 = i
      BY BoundsAssumption DEF Buckets
    <2> QED
      BY <1>1, <2>1
  <1>3. ASSUME NEW n \in T PROVE n + 1 \in T
    <2>1. SUFFICES ASSUME i + (n + 1) \in Buckets PROVE Bounds[i] <= Bounds[i + (n + 1)]
      OBVIOUS
    <2>2. i + n \in Buckets /\ i + n \in 1..(Len(Bounds) - 1) /\ (i + n) + 1 = i + (n + 1)
      BY <2>1, BoundsAssumption DEF Buckets
    <2>3. Bounds[i + n] <= Bounds[i + (n + 1)]
      BY <2>2, BoundsAssumption
    <2>4. Bounds[i] <= Bounds[i + n]
      BY <2>2
    <2> HIDE DEF T
    <2> QED
      BY <1>1, <2>1, <2>2, <2>3, <2>4
  <1>4. T = Nat
    <2> HIDE DEF T
    <2> QED
      BY <1>2, <1>3, NatSet DEF T
  <1>5. k - i \in Nat /\ i + (k - i) = k
    BY BoundsAssumption DEF Buckets
  <1> QED
    BY <1>4, <1>5

\* The bucket of a latency is the first whose bound is not below it; the last
\* bucket has no bound.
LEMMA BucketRange ==
    ASSUME NEW latency \in Nat
    PROVE  /\ BucketIndex(latency) \in Buckets
           /\ \A i \in Buckets :
                 BucketIndex(latency) <= i <=> latency <= Bounds[i] \/ i = Len(Bounds)
  <1> DEFINE L == Len(Bounds)
             S == {i \in Buckets : latency <= Bounds[i]}
  <1>1. L \in Nat \ {0} /\ L \in Buckets /\ \A b \in Buckets : Bounds[b] \in Nat /\ b \in Nat /\ b <= L
    BY BoundsAssumption DEF Buckets
  <1>2. CASE latency > Bounds[L]
    <2>1. BucketIndex(latency) = L
      BY <1>2 DEF BucketIndex
    <2>2. \A i \in Buckets : Bounds[i] <= Bounds[L]
      BY <1>1, BoundsIncrease
    <2> HIDE DEF L
    <2>3. \A i \in Buckets : ~(latency <= Bounds[i])
      BY <1>1, <1>2, <2>2
    <2> QED
      BY <1>1, <2>1, <2>3 DEF L
  <1>3. CASE ~(latency > Bounds[L])
    <2>1. L \in S /\ S \in SUBSET Nat
      BY <1>1, <1>3
    <2>2. PICK b \in S : \A i \in S : b <= i
      <3> HIDE DEF S
      <3> QED
        BY <2>1, LeastNumber
    <2>3. Min(S) = b
      <3>1. S \in SUBSET Int
        BY <1>1
      <3> HIDE DEF S
      <3> QED
        BY <2>2, <3>1, MinIs
    <2>4. BucketIndex(latency) = b
      BY <1>3, <2>3 DEF BucketIndex
    <2>5. \A i \in Buckets : b <= i => latency <= Bounds[i]
      <3>1. SUFFICES ASSUME NEW i \in Buckets, b <= i PROVE latency <= Bounds[i]
        OBVIOUS
      <3>2. Bounds[b] <= Bounds[i] /\ latency <= Bounds[b]
        BY <3>1, BoundsIncrease
      <3> HIDE DEF L
      <3> QED
        BY <1>1, <3>2
    <2>6. \A i \in Buckets : latency <= Bounds[i] => b <= i
      BY <2>2
    <2>7. b \in Buckets /\ b <= L
      BY <1>1
    <2> HIDE DEF S, L
    <2> QED
      BY <2>4, <2>5, <2>6, <2>7 DEF L
  <1> QED
    BY <1>2, <1>3

\* What a sequence of times adds to bucket i.
Occurrences(s, i) == Cardinality({j \in DOMAIN s : s[j] > 0 /\ BucketIndex(s[j]) = i})

Histograms == [Buckets -> Nat]

\* Recording a sequence of times adds to every bucket its times, whatever was
\* recorded before.
LEMMA FoldRecord ==
    ASSUME NEW h \in Histograms, NEW s \in Seq(Nat)
    PROVE  FoldLeft(RecordMeasured, h, s) = [i \in Buckets |-> h[i] + Occurrences(s, i)]
  <1> DEFINE D == DOMAIN s
             At(t, i) == {j \in t : s[j] > 0 /\ BucketIndex(s[j]) = i}
             Closed == [t \in SUBSET D |-> [i \in Buckets |-> h[i] + Cardinality(At(t, i))]]
             Step(f) == [t \in SUBSET D |-> IF t = {} THEN h
                                             ELSE RecordMeasured(f[t \ {Max(t)}], s[Max(t)])]
  <1>1. D = 1..Len(s) /\ IsFiniteSet(D) /\ Len(s) \in Nat /\ \A j \in D : s[j] \in Nat
    <2>1. D = 1..Len(s) /\ Len(s) \in Nat /\ \A j \in D : s[j] \in Nat
      OBVIOUS
    <2> QED
      BY <2>1, FS_Interval
  <1>2. ASSUME NEW t \in SUBSET D, t # {} PROVE Max(t) \in t
    <2>1. t \in SUBSET Nat /\ \A m \in t : m <= Len(s)
      BY <1>1
    <2> QED
      BY <1>1, <1>2, <2>1, MaxMember
  <1>3. ASSUME NEW t \in SUBSET D, NEW i \in Buckets
        PROVE  IsFiniteSet(At(t, i)) /\ Cardinality(At(t, i)) \in Nat
    BY <1>1, FS_Subset, FS_CardinalityType
  <1>4. Closed = Step(Closed)
    <2>1. ASSUME NEW t \in SUBSET D PROVE Closed[t] = Step(Closed)[t]
      <3>1. CASE t = {}
        <4>1. \A i \in Buckets : Cardinality(At(t, i)) = 0
          BY <3>1, FS_EmptySet
        <4> QED
          BY <3>1, <4>1 DEF Histograms
      <3>2. CASE t # {}
        <4> DEFINE x == Max(t)
                   b == BucketIndex(s[x])
                   u == t \ {x}
        <4>1. x \in t /\ u \in SUBSET D /\ s[x] \in Nat /\ b \in Buckets
          BY <1>1, <1>2, <3>2, BucketRange
        <4>2. Closed[u] = [i \in Buckets |-> h[i] + Cardinality(At(u, i))]
          BY <4>1
        <4>3. ASSUME NEW i \in Buckets
              PROVE  Cardinality(At(t, i)) = Cardinality(At(u, i)) + IF s[x] > 0 /\ b = i THEN 1 ELSE 0
          <5>1. CASE s[x] > 0 /\ b = i
            <6>1. At(t, i) = At(u, i) \cup {x} /\ x \notin At(u, i)
              BY <4>1, <5>1
            <6>2. IsFiniteSet(At(u, i))
              BY <1>3, <4>1
            <6> HIDE DEF At
            <6>3. Cardinality(At(t, i)) = Cardinality(At(u, i)) + 1
              BY <6>1, <6>2, FS_AddElement
            <6> QED
              BY <5>1, <6>3
          <5>2. CASE ~(s[x] > 0 /\ b = i)
            <6>1. At(t, i) = At(u, i)
              BY <4>1, <5>2
            <6>2. Cardinality(At(u, i)) \in Nat
              BY <1>3, <4>1
            <6> HIDE DEF At
            <6> QED
              BY <5>2, <6>1, <6>2
          <5> QED
            BY <5>1, <5>2
        <4>4. \A i \in Buckets : Cardinality(At(u, i)) \in Nat /\ h[i] \in Nat
          BY <1>3, <4>1 DEF Histograms
        <4>5. Closed[t] = [i \in Buckets |-> h[i] + Cardinality(At(t, i))]
          OBVIOUS
        <4>6. RecordMeasured(Closed[u], s[x])
                = IF s[x] > 0 THEN [Closed[u] EXCEPT ![b] = @ + 1] ELSE Closed[u]
          BY DEF RecordMeasured, Record
        <4>7. Step(Closed)[t] = RecordMeasured(Closed[u], s[x])
          BY <3>2
        <4> HIDE DEF Closed, Step, At, b, u, x
        <4>8. ASSUME NEW i \in Buckets PROVE Closed[t][i] = RecordMeasured(Closed[u], s[x])[i]
          <5>1. Closed[t][i] = h[i] + Cardinality(At(t, i)) /\ Closed[u][i] = h[i] + Cardinality(At(u, i))
            BY <4>2, <4>5
          <5>2. RecordMeasured(Closed[u], s[x])[i] = Closed[u][i] + IF s[x] > 0 /\ b = i THEN 1 ELSE 0
            <6>1. CASE s[x] > 0
              BY <4>1, <4>2, <4>4, <4>6, <5>1, <6>1
            <6>2. CASE ~(s[x] > 0)
              BY <4>1, <4>2, <4>4, <4>6, <5>1, <6>2
            <6> QED
              BY <6>1, <6>2
          <5>3. /\ Cardinality(At(t, i)) = Cardinality(At(u, i)) + IF s[x] > 0 /\ b = i THEN 1 ELSE 0
                /\ Cardinality(At(u, i)) \in Nat /\ h[i] \in Nat
            BY <4>3, <4>4
          <5> QED
            BY <5>1, <5>2, <5>3
        <4>9. RecordMeasured(Closed[u], s[x]) = [i \in Buckets |-> RecordMeasured(Closed[u], s[x])[i]]
          BY <4>2, <4>6
        <4> QED
          BY <4>5, <4>7, <4>8, <4>9
      <3> QED
        BY <3>1, <3>2
    <2> QED
      BY <2>1
  <1> DEFINE iter == CHOOSE f : f = Step(f)
  <1>5. iter = Step(iter)
    <2> HIDE DEF Closed, Step
    <2> QED
      BY <1>4
  <1>6. SUBSET D \subseteq {t \in SUBSET D : iter[t] = Closed[t]}
    <2> DEFINE P == {t \in SUBSET D : iter[t] = Closed[t]}
    <2>1. ASSUME NEW t \in SUBSET D, t # {}, \A x \in t : t \ {x} \in P PROVE t \in P
      <3>1. iter[t \ {Max(t)}] = Closed[t \ {Max(t)}]
        BY <1>2, <2>1
      <3>2. iter[t] = Step(iter)[t] /\ Closed[t] = Step(Closed)[t]
        BY <1>4, <1>5
      <3>3. Step(iter)[t] = Step(Closed)[t]
        <4> HIDE DEF iter, Closed
        <4> QED
          BY <3>1
      <3> QED
        BY <3>2, <3>3
    <2>2. {} \in P
      <3>1. iter[{}] = Step(iter)[{}] /\ Closed[{}] = Step(Closed)[{}]
        BY <1>4, <1>5
      <3>2. Step(iter)[{}] = h /\ Step(Closed)[{}] = h
        <4> HIDE DEF iter, Closed
        <4> QED
          OBVIOUS
      <3> QED
        BY <3>1, <3>2
    <2> HIDE DEF P
    <2>3. SUBSET D \subseteq P
      BY <1>1, <2>1, <2>2, SubsetSet
    <2> QED
      BY <2>3 DEF P
  <1>7. FoldLeft(RecordMeasured, h, s) = iter[D]
    BY DEF FoldLeft, MapThenFoldSet
  <1>8. iter[D] = Closed[D]
    BY <1>6
  <1>9. Closed[D] = [i \in Buckets |-> h[i] + Occurrences(s, i)]
    BY DEF Occurrences
  <1> QED
    BY <1>7, <1>8, <1>9

\* A latency that is recorded is counted from its bucket on.
LEMMA CumulativeRecord ==
    ASSUME NEW h \in Histograms, NEW latency \in Nat, NEW i \in Buckets
    PROVE  /\ Cumulative(h, i) \in Nat
           /\ Cumulative(Record(h, latency), i)
                = Cumulative(h, i) + IF BucketIndex(latency) <= i THEN 1 ELSE 0
  <1> DEFINE b == BucketIndex(latency)
             g == Record(h, latency)
             S == 1..i
  <1>1. i \in Nat /\ b \in Nat /\ b \in Buckets /\ b >= 1 /\ S \subseteq Buckets /\ IsFiniteSet(S)
    <2>1. b \in Buckets
      BY BucketRange
    <2> HIDE DEF b
    <2>2. i \in Nat /\ b \in Nat /\ b >= 1 /\ S \subseteq Buckets
      BY <2>1, BoundsAssumption DEF Buckets
    <2> QED
      BY <2>1, <2>2, FS_Interval
  <1>2. Cumulative(h, i) = SumOf(h, S) /\ Cumulative(g, i) = SumOf(g, S)
    BY DEF Cumulative, SumOf
  <1>3. \A k \in S : h[k] \in Nat
    BY <1>1 DEF Histograms
  <1>4. g[b] = h[b] + 1 /\ \A k \in Buckets \ {b} : g[k] = h[k]
    BY <1>1 DEF Record, Histograms
  <1>5. SumOf(h, S) \in Nat
    BY <1>1, <1>3, SumType
  <1>6. CASE b <= i
    <2>1. b \in S
      BY <1>1, <1>6
    <2>2. SumOf(g, S) = SumOf(h, S) + 1
      <3>1. \A k \in S \ {b} : g[k] = h[k]
        BY <1>1, <1>4
      <3>2. IsFiniteSet(S) /\ g[b] = h[b] + 1 /\ 1 \in Nat
        BY <1>1, <1>4
      <3> HIDE DEF S, g, b
      <3> QED
        BY <1>3, <2>1, <3>1, <3>2, SumIncrease
    <2> QED
      BY <1>2, <1>5, <1>6, <2>2
  <1>7. CASE ~(b <= i)
    <2>1. \A k \in S : g[k] = h[k]
      BY <1>1, <1>4, <1>7
    <2>2. SumOf(g, S) = SumOf(h, S)
      <3> HIDE DEF S, g, b
      <3> QED
        BY <1>1, <1>3, <2>1, SumSame
    <2> QED
      BY <1>2, <1>5, <1>7, <2>2
  <1> QED
    BY <1>6, <1>7

LEMMA CumulativeNew ==
    ASSUME NEW i \in Buckets
    PROVE  Cumulative(NewHistogram, i) = 0
  <1>1. i \in Nat /\ 1..i \subseteq Buckets /\ IsFiniteSet(1..i)
    BY BoundsAssumption, FS_Interval DEF Buckets
  <1>2. \A k \in 1..i : NewHistogram[k] = 0
    BY <1>1 DEF NewHistogram
  <1>3. SumOf(NewHistogram, 1..i) = 0
    BY <1>1, <1>2, SumZero
  <1> QED
    BY <1>3 DEF Cumulative, SumOf

\* Ranked puts a latency between those that are not above it and those that are.
Increasing(s) == \A i, k \in 1..Len(s) : i <= k => s[i] <= s[k]

LEMMA RankedPlace ==
    ASSUME NEW s \in Seq(Nat), Increasing(s), NEW latency \in Nat
    PROVE  \E p \in 0..Len(s) :
              /\ \A i \in 1..p : s[i] <= latency
              /\ \A i \in (p + 1)..Len(s) : latency < s[i]
              /\ Ranked(s, latency) \in Seq(Nat)
              /\ Len(Ranked(s, latency)) = Len(s) + 1
              /\ \A i \in 1..(Len(s) + 1) :
                    Ranked(s, latency)[i] = IF i <= p THEN s[i] ELSE IF i = p + 1 THEN latency ELSE s[i - 1]
  <1> DEFINE n == Len(s)
             Above == {i \in 1..n : s[i] > latency}
             Below == {i \in DOMAIN s : s[i] <= latency}
  <1>1. n \in Nat /\ DOMAIN s = 1..n /\ \A i \in 1..n : s[i] \in Nat
    OBVIOUS
  <1>2. PICK p \in 0..n : (\A i \in 1..p : s[i] <= latency) /\ (\A i \in (p + 1)..n : latency < s[i])
    <2>1. CASE Above = {}
      <3>1. n \in 0..n /\ (\A i \in 1..n : s[i] <= latency) /\ (n + 1)..n = {}
        BY <1>1, <2>1
      <3> QED
        BY <3>1
    <2>2. CASE Above # {}
      <3>1. PICK a \in Above : \A i \in Above : a <= i
        <4>1. Above \in SUBSET Nat
          BY <1>1
        <4> HIDE DEF Above
        <4> QED
          BY <2>2, <4>1, LeastNumber
      <3>2. a - 1 \in 0..n /\ (a - 1) + 1 = a
        BY <1>1
      <3>3. \A i \in 1..(a - 1) : s[i] <= latency
        BY <1>1, <3>1
      <3>4. \A i \in a..n : latency < s[i]
        <4>1. SUFFICES ASSUME NEW i \in a..n PROVE latency < s[i]
          OBVIOUS
        <4>2. a \in 1..n /\ i \in 1..n /\ a <= i /\ latency < s[a]
          BY <1>1
        <4>3. s[a] <= s[i]
          BY <4>2 DEF Increasing
        <4>4. s[a] \in Nat /\ s[i] \in Nat
          BY <1>1, <4>2
        <4> QED
          BY <4>2, <4>3, <4>4
      <3> QED
        BY <3>2, <3>3, <3>4
    <2> QED
      BY <2>1, <2>2
  <1>3. Cardinality(Below) = p
    <2>1. Below = 1..p
      <3>1. ASSUME NEW i \in 1..n, i > p PROVE ~(s[i] <= latency)
        <4>1. i \in (p + 1)..n /\ s[i] \in Nat
          BY <1>1, <3>1
        <4> QED
          BY <1>2, <4>1
      <3> QED
        BY <1>1, <1>2, <3>1
    <2>2. p \in Nat /\ 1 \in Int /\ (p - 1) + 1 = p
      BY <1>1
    <2>3. Cardinality(1..p) = IF 1 > p THEN 0 ELSE (p - 1) + 1
      <3>1. 1 \in Int /\ p \in Int /\ p - 1 + 1 = (p - 1) + 1
        BY <2>2
      <3> QED
        BY <3>1, FS_Interval
    <2> HIDE DEF Below
    <2> QED
      BY <2>1, <2>2, <2>3
  <1> DEFINE left == SubSeq(s, 1, p)
             right == SubSeq(s, p + 1, n)
             t == Ranked(s, latency)
  <1>4. t = left \o <<latency>> \o right
    <2>1. (p + 1) - 1 = p
      BY <1>1
    <2> QED
      BY <1>3, <2>1 DEF Ranked, InsertAt
  <1>5. left \in Seq(Nat) /\ Len(left) = p /\ \A i \in 1..p : left[i] = s[i]
    BY <1>1
  <1>6. right \in Seq(Nat) /\ Len(right) = n - p /\ \A i \in 1..(n - p) : right[i] = s[p + i]
    <2>1. p + 1 \in Int /\ n \in Int /\ \A i \in (p + 1)..n : s[i] \in Nat
      BY <1>1
    <2>2. /\ right \in Seq(Nat) /\ Len(right) = IF p + 1 <= n THEN n - (p + 1) + 1 ELSE 0
          /\ \A i \in 1..(n - (p + 1) + 1) : right[i] = s[p + 1 + i - 1]
      BY <2>1, SubSeqProperties
    <2>3. n - (p + 1) + 1 = n - p /\ \A i \in 1..(n - p) : p + 1 + i - 1 = p + i
      BY <1>1
    <2> HIDE DEF right, n
    <2> QED
      BY <1>1, <2>2, <2>3
  <1>7. t \in Seq(Nat) /\ Len(t) = n + 1
    <2> HIDE DEF t, left, right, n
    <2> QED
      BY <1>1, <1>4, <1>5, <1>6
  <1>8. ASSUME NEW i \in 1..(n + 1)
        PROVE  t[i] = IF i <= p THEN s[i] ELSE IF i = p + 1 THEN latency ELSE s[i - 1]
    <2> HIDE DEF t, left, right, n
    <2>1. CASE i <= p
      BY <1>1, <1>4, <1>5, <1>6, <2>1
    <2>2. CASE i = p + 1
      BY <1>1, <1>4, <1>5, <1>6, <2>2
    <2>3. CASE i > p + 1
      <3>1. i - (p + 1) \in 1..(n - p) /\ p + (i - (p + 1)) = i - 1
        BY <1>1, <2>3
      <3>2. t[i] = right[i - (p + 1)]
        <4> DEFINE front == left \o <<latency>>
        <4>1. front \in Seq(Nat) /\ Len(front) = p + 1
          BY <1>1, <1>5
        <4> HIDE DEF front
        <4>2. i \in 1..(Len(front) + Len(right)) /\ ~(i <= Len(front))
          BY <1>1, <1>6, <2>3, <4>1
        <4>3. (front \o right)[i] = right[i - Len(front)]
          BY <1>6, <4>1, <4>2, ConcatProperties
        <4> QED
          BY <1>4, <4>1, <4>3 DEF front
      <3> QED
        BY <1>1, <1>6, <2>3, <3>1, <3>2
    <2> QED
      BY <1>1, <2>1, <2>2, <2>3
  <1> QED
    BY <1>2, <1>7, <1>8

-----------------------------------------------------------------------------
(* Collectors.                                                             *)

SumFields == {"latency", "ttft", "upstream"}

Providers == {""} \cup {r.provider : r \in Results}

Collectors ==
    [counts : [Counters -> Nat], sums : [SumFields -> Nat], hists : [Metrics -> Histograms],
     codes : [Codes -> Nat], errors : [Categories -> Nat],
     minLatency : Nat, maxLatency : Nat, estimated : BOOLEAN, provider : Providers,
     window : Nat \X Nat]

\* What is counted in whole numbers: the counters, the results of each code and
\* of each category of errors, and the samples in each bucket.
Keys == ({"counts"} \X Counters) \cup ({"codes"} \X Codes) \cup ({"errors"} \X Categories)
        \cup (Metrics \X Buckets)

Figure(c, key) ==
    CASE key[1] = "counts" -> c.counts[key[2]]
      [] key[1] = "codes"  -> c.codes[key[2]]
      [] key[1] = "errors" -> c.errors[key[2]]
      [] OTHER             -> c.hists[key[1]][key[2]]

\* What a result adds to a figure.
Gain(r, key) ==
    CASE key[1] = "counts"  -> Counts(r)[key[2]]
      [] key[1] = "codes"   -> One(r.code = key[2])
      [] key[1] = "errors"  -> One(r.category = key[2])
      [] key[1] = "latency" -> One(BucketIndex(r.latency) = key[2])
      [] key[1] = "ttft"    -> One(r.ttft > 0 /\ BucketIndex(r.ttft) = key[2])
      [] OTHER              -> Occurrences(r.itl, key[2])

LEMMA FigureType ==
    ASSUME NEW c \in Collectors, NEW key \in Keys
    PROVE  Figure(c, key) \in Nat
  <1>1. CASE key \in {"counts"} \X Counters
    BY <1>1 DEF Figure, Collectors
  <1>2. CASE key \in {"codes"} \X Codes
    BY <1>2 DEF Figure, Collectors
  <1>3. CASE key \in {"errors"} \X Categories
    BY <1>3 DEF Figure, Collectors
  <1>4. CASE key \in Metrics \X Buckets
    <2>1. PICK m \in Metrics, i \in Buckets : key = <<m, i>>
      BY <1>4
    <2>2. c.hists[m][i] \in Nat
      BY DEF Collectors, Histograms
    <2>3. Figure(c, key) = c.hists[m][i]
      BY <2>1 DEF Figure, Metrics
    <2> QED
      BY <2>2, <2>3
  <1> QED
    BY <1>1, <1>2, <1>3, <1>4 DEF Keys

LEMMA ResultType ==
    ASSUME NEW r \in Results
    PROVE  /\ r.latency \in Nat /\ r.ttft \in Nat /\ r.itl \in Seq(Nat) /\ r.upstream \in Nat
           /\ r.provider \in Providers /\ r.estimated \in BOOLEAN /\ r.tokens \in Nat
           /\ \A k \in Counters : Counts(r)[k] \in Nat
           /\ \A k \in SumFields : Sums(r)[k] \in Nat
           /\ Counts(r).total = 1
  <1>1. r \in [latency : Nat, success : BOOLEAN, code : Nat, category : STRING, ttft : Nat,
               itl : Seq(Nat), tokens : Nat, estimated : BOOLEAN, rate : Nat, aborted : BOOLEAN,
               upstream : Nat, input : Nat, cache : STRING, provider : STRING]
    BY ResultsAssumption
  <1>2. \A k \in Counters : Counts(r)[k] \in Nat
    <2>1. One(r.success) \in Nat /\ One(~r.success) \in Nat /\ One(r.ttft > 0) \in Nat
          /\ One(r.tokens > 0) \in Nat /\ One(r.aborted) \in Nat /\ One(r.upstream > 0) \in Nat
          /\ One(r.cache # "") \in Nat /\ One(r.cache = "hit") \in Nat
      BY DEF One
    <2>2. r.tokens \in Nat /\ r.rate \in Nat /\ r.input \in Nat
      BY <1>1
    <2>3. /\ Counts(r).total \in Nat /\ Counts(r).success \in Nat /\ Counts(r).failed \in Nat
          /\ Counts(r).withTTFT \in Nat /\ Counts(r).withTokens \in Nat /\ Counts(r).aborted \in Nat
          /\ Counts(r).withUpstream \in Nat /\ Counts(r).cacheRequests \in Nat
          /\ Counts(r).cacheHits \in Nat
      BY <2>1 DEF Counts
    <2>4. /\ Counts(r).outputTokens \in Nat /\ Counts(r).tokenRate \in Nat
          /\ Counts(r).inputTokens \in Nat
      BY <2>2 DEF Counts
    <2> QED
      BY <2>3, <2>4 DEF Counters
  <1>3. \A k \in SumFields : Sums(r)[k] \in Nat
    BY <1>1 DEF SumFields, Sums
  <1>4. r.provider \in Providers
    BY DEF Providers
  <1> QED
    BY <1>1, <1>2, <1>3, <1>4 DEF Counts

\* The samples of a sequence in a bucket are a number.
LEMMA OccurrencesType ==
    ASSUME NEW s \in Seq(Nat), NEW i \in Buckets
    PROVE  Occurrences(s, i) \in Nat
  <1>1. DOMAIN s = 1..Len(s) /\ Len(s) \in Nat
    OBVIOUS
  <1>2. IsFiniteSet(1..Len(s))
    BY <1>1, FS_Interval
  <1> QED
    BY <1>1, <1>2, FS_Subset, FS_CardinalityType DEF Occurrences

\* A measured time that is recorded is counted in its bucket.
LEMMA RecordEffect ==
    ASSUME NEW h \in Histograms, NEW time \in Nat
    PROVE  /\ Record(h, time) \in Histograms /\ RecordMeasured(h, time) \in Histograms
           /\ \A i \in Buckets :
                 /\ Record(h, time)[i] = h[i] + One(BucketIndex(time) = i)
                 /\ RecordMeasured(h, time)[i] = h[i] + One(time > 0 /\ BucketIndex(time) = i)
  <1>1. BucketIndex(time) \in Buckets
    BY BucketRange
  <1> QED
    BY <1>1 DEF Record, RecordMeasured, Histograms, One

LEMMA HistsAfterAdd ==
    ASSUME NEW c \in Collectors, NEW r \in Results
    PROVE  /\ Add(c, r).hists \in [Metrics -> Histograms]
           /\ \A m \in Metrics : \A i \in Buckets :
                 Add(c, r).hists[m][i] = c.hists[m][i] + Gain(r, <<m, i>>)
  <1>1. /\ c.hists["latency"] \in Histograms /\ c.hists["ttft"] \in Histograms
        /\ c.hists["itl"] \in Histograms
    BY DEF Collectors, Metrics
  <1>2. r.latency \in Nat /\ r.ttft \in Nat /\ r.itl \in Seq(Nat)
    BY ResultType
  <1> DEFINE latency == Record(c.hists.latency, r.latency)
             ttft == RecordMeasured(c.hists.ttft, r.ttft)
             itl == FoldLeft(RecordMeasured, c.hists.itl, r.itl)
  <1>3. latency \in Histograms /\ \A i \in Buckets : latency[i] = c.hists.latency[i] + Gain(r, <<"latency", i>>)
    <2>1. \A i \in Buckets : Gain(r, <<"latency", i>>) = One(BucketIndex(r.latency) = i)
      BY DEF Gain
    <2>2. /\ latency \in Histograms
          /\ \A i \in Buckets : latency[i] = c.hists.latency[i] + One(BucketIndex(r.latency) = i)
      BY <1>1, <1>2, RecordEffect
    <2> QED
      BY <2>1, <2>2
  <1>4. ttft \in Histograms /\ \A i \in Buckets : ttft[i] = c.hists.ttft[i] + Gain(r, <<"ttft", i>>)
    <2>1. \A i \in Buckets : Gain(r, <<"ttft", i>>) = One(r.ttft > 0 /\ BucketIndex(r.ttft) = i)
      BY DEF Gain
    <2>2. /\ ttft \in Histograms
          /\ \A i \in Buckets : ttft[i] = c.hists.ttft[i] + One(r.ttft > 0 /\ BucketIndex(r.ttft) = i)
      BY <1>1, <1>2, RecordEffect
    <2> QED
      BY <2>1, <2>2
  <1>5. itl \in Histograms /\ \A i \in Buckets : itl[i] = c.hists.itl[i] + Gain(r, <<"itl", i>>)
    <2>1. itl = [i \in Buckets |-> c.hists.itl[i] + Occurrences(r.itl, i)]
      BY <1>1, <1>2, FoldRecord
    <2>2. \A i \in Buckets : Occurrences(r.itl, i) \in Nat /\ c.hists.itl[i] \in Nat
      BY <1>1, <1>2, OccurrencesType DEF Histograms
    <2>3. \A i \in Buckets : Gain(r, <<"itl", i>>) = Occurrences(r.itl, i)
      BY DEF Gain
    <2> HIDE DEF itl
    <2> QED
      BY <2>1, <2>2, <2>3 DEF Histograms
  <1>6. Add(c, r).hists = [latency |-> latency, ttft |-> ttft, itl |-> itl]
    BY DEF Add
  <1> HIDE DEF latency, ttft, itl
  <1> QED
    BY <1>3, <1>4, <1>5, <1>6 DEF Metrics

LEMMA AddType ==
    ASSUME NEW c \in Collectors, NEW r \in Results
    PROVE  Add(c, r) \in Collectors
  <1> DEFINE a == Add(c, r)
  <1>1. a.counts \in [Counters -> Nat]
    BY ResultType DEF Add, Plus, Collectors
  <1>2. a.sums \in [SumFields -> Nat]
    BY ResultType DEF Add, Plus, Collectors
  <1>3. a.hists \in [Metrics -> Histograms]
    BY HistsAfterAdd
  <1>4. a.codes \in [Codes -> Nat] /\ a.errors \in [Categories -> Nat]
    BY DEF Add, One, Collectors
  <1>5. a.minLatency \in Nat /\ a.maxLatency \in Nat
    <2>1. r.latency \in Nat /\ c.minLatency \in Nat /\ c.maxLatency \in Nat
      BY ResultType DEF Collectors
    <2>2. Min({r.latency, c.minLatency}) \in Nat /\ Max({c.maxLatency, r.latency}) \in Nat
      BY <2>1, MinOfTwo, MaxOfTwo
    <2> QED
      BY <2>1, <2>2 DEF Add
  <1>6. a.estimated \in BOOLEAN /\ a.provider \in Providers /\ a.window \in Nat \X Nat
    BY ResultType DEF Add, First, Collectors
  <1>7. a = [counts |-> a.counts, sums |-> a.sums, hists |-> a.hists, codes |-> a.codes,
             errors |-> a.errors, minLatency |-> a.minLatency, maxLatency |-> a.maxLatency,
             estimated |-> a.estimated, provider |-> a.provider, window |-> a.window]
    BY DEF Add
  <1> HIDE DEF a
  <1>8. a \in Collectors
    BY <1>1, <1>2, <1>3, <1>4, <1>5, <1>6, <1>7 DEF Collectors
  <1> QED
    BY <1>8 DEF a

\* A result adds its gain to every figure, whatever was collected before.
LEMMA AddFigure ==
    ASSUME NEW c \in Collectors, NEW r \in Results, NEW key \in Keys
    PROVE  /\ Figure(c, key) \in Nat /\ Gain(r, key) \in Nat
           /\ Figure(Add(c, r), key) = Figure(c, key) + Gain(r, key)
  <1> DEFINE a == Add(c, r)
  <1>1. CASE key \in {"counts"} \X Counters
    <2>1. PICK k \in Counters : key = <<"counts", k>>
      BY <1>1
    <2>2. a.counts[k] = c.counts[k] + Counts(r)[k]
      BY DEF Add, Plus, Collectors
    <2>3. c.counts[k] \in Nat /\ Counts(r)[k] \in Nat
      BY ResultType DEF Collectors
    <2> HIDE DEF a
    <2>4. Figure(c, key) = c.counts[k] /\ Figure(a, key) = a.counts[k] /\ Gain(r, key) = Counts(r)[k]
      BY <2>1 DEF Figure, Gain
    <2> QED
      BY <2>2, <2>3, <2>4 DEF a
  <1>2. CASE key \in {"codes"} \X Codes
    <2>1. PICK k \in Codes : key = <<"codes", k>>
      BY <1>2
    <2>2. a.codes[k] = c.codes[k] + One(r.code = k)
      BY DEF Add
    <2>3. c.codes[k] \in Nat /\ One(r.code = k) \in Nat
      BY DEF Collectors, One
    <2> HIDE DEF a
    <2>4. Figure(c, key) = c.codes[k] /\ Figure(a, key) = a.codes[k] /\ Gain(r, key) = One(r.code = k)
      BY <2>1 DEF Figure, Gain
    <2> QED
      BY <2>2, <2>3, <2>4 DEF a
  <1>3. CASE key \in {"errors"} \X Categories
    <2>1. PICK k \in Categories : key = <<"errors", k>>
      BY <1>3
    <2>2. a.errors[k] = c.errors[k] + One(r.category = k)
      BY DEF Add
    <2>3. c.errors[k] \in Nat /\ One(r.category = k) \in Nat
      BY DEF Collectors, One
    <2> HIDE DEF a
    <2>4. Figure(c, key) = c.errors[k] /\ Figure(a, key) = a.errors[k] /\ Gain(r, key) = One(r.category = k)
      BY <2>1 DEF Figure, Gain
    <2> QED
      BY <2>2, <2>3, <2>4 DEF a
  <1>4. CASE key \in Metrics \X Buckets
    <2>1. PICK m \in Metrics, i \in Buckets : key = <<m, i>>
      BY <1>4
    <2>2. a.hists[m][i] = c.hists[m][i] + Gain(r, key)
      BY <2>1, HistsAfterAdd
    <2>3. c.hists[m][i] \in Nat
      BY DEF Collectors, Histograms
    <2>4. Gain(r, key) \in Nat
      <3>1. One(BucketIndex(r.latency) = i) \in Nat /\ One(r.ttft > 0 /\ BucketIndex(r.ttft) = i) \in Nat
        BY DEF One
      <3>2. Occurrences(r.itl, i) \in Nat
        BY ResultType, OccurrencesType
      <3> QED
        BY <2>1, <3>1, <3>2 DEF Gain, Metrics
    <2>5. Figure(c, key) = c.hists[m][i] /\ Figure(a, key) = a.hists[m][i]
      <3> HIDE DEF a
      <3> QED
        BY <2>1 DEF Figure, Metrics
    <2> HIDE DEF a
    <2> QED
      BY <2>2, <2>3, <2>4, <2>5 DEF a
  <1> QED
    BY <1>1, <1>2, <1>3, <1>4 DEF Keys

\* The other parts of a collector after a result.
LEMMA AddRest ==
    ASSUME NEW c \in Collectors, NEW r \in Results
    PROVE  /\ Add(c, r).counts.total = c.counts.total + 1
           /\ \A k \in Counters : Add(c, r).counts[k] = c.counts[k] + Counts(r)[k]
           /\ \A k \in SumFields : Add(c, r).sums[k] = c.sums[k] + Sums(r)[k]
           /\ Add(c, r).minLatency = IF c.counts.total = 0 \/ r.latency <= c.minLatency
                                     THEN r.latency ELSE c.minLatency
           /\ Add(c, r).maxLatency = IF c.maxLatency <= r.latency THEN r.latency ELSE c.maxLatency
           /\ Add(c, r).provider = "" <=> c.provider = "" /\ r.provider = ""
           /\ Add(c, r).window = c.window
           /\ Add(c, r).hists.latency = Record(c.hists.latency, r.latency)
  <1>1. \A k \in Counters : Add(c, r).counts[k] = c.counts[k] + Counts(r)[k]
    BY DEF Add, Plus, Collectors
  <1>2. Add(c, r).counts.total = c.counts.total + 1
    BY <1>1, ResultType DEF Counters
  <1>3. \A k \in SumFields : Add(c, r).sums[k] = c.sums[k] + Sums(r)[k]
    BY DEF Add, Plus, Collectors
  <1>4. r.latency \in Int /\ c.minLatency \in Int /\ c.maxLatency \in Int
    BY ResultType DEF Collectors
  <1>5. Add(c, r).minLatency = IF c.counts.total = 0 \/ r.latency <= c.minLatency
                              THEN r.latency ELSE c.minLatency
    BY <1>4, MinOfTwo DEF Add
  <1>6. Add(c, r).maxLatency = IF c.maxLatency <= r.latency THEN r.latency ELSE c.maxLatency
    BY <1>4, MaxOfTwo DEF Add
  <1>7. /\ Add(c, r).provider = "" <=> c.provider = "" /\ r.provider = ""
        /\ Add(c, r).window = c.window
        /\ Add(c, r).hists.latency = Record(c.hists.latency, r.latency)
    BY DEF Add, First
  <1> QED
    BY <1>1, <1>2, <1>3, <1>5, <1>6, <1>7

\* A duration cut to whole microseconds.
LEMMA TruncateBounds ==
    ASSUME NEW d \in Nat
    PROVE  Truncate(d) \in Nat /\ Truncate(d) <= d /\ d <= Truncate(d) + (Micro - 1)
  <1>1. Micro \in Nat \ {0}
    BY UnitsAssumption
  <1> QED
    BY <1>1 DEF Truncate

LEMMA TruncateGrows ==
    ASSUME NEW d \in Nat, NEW e \in Nat, d <= e
    PROVE  Truncate(d) <= Truncate(e)
  <1>1. Micro \in Nat \ {0}
    BY UnitsAssumption
  <1>2. d \div Micro \in Nat /\ e \div Micro \in Nat
    BY <1>1
  <1>3. d \div Micro <= e \div Micro
    BY <1>1
  <1> QED
    BY <1>1, <1>2, <1>3 DEF Truncate

LEMMA TruncateOne ==
    ASSUME NEW d \in Nat, Micro <= d
    PROVE  0 < Truncate(d)
  <1>1. Micro \in Nat \ {0}
    BY UnitsAssumption
  <1>2. d \div Micro >= 1
    BY <1>1
  <1> QED
    BY <1>1, <1>2 DEF Truncate

LEMMA TruncateZero == Truncate(0) = 0
  BY UnitsAssumption DEF Truncate

\* What a worker sends.
Sent(l, window) == Snapshot(SetWindow(l, window))

LEMMA SentType ==
    ASSUME NEW l \in Collectors, NEW window \in Nat \X Nat
    PROVE  /\ Sent(l, window) \in Collectors
           /\ \A key \in Keys : Figure(Sent(l, window), key) = Figure(l, key)
           /\ \A k \in SumFields : Sent(l, window).sums[k] = Truncate(l.sums[k])
           /\ Sent(l, window).minLatency = Truncate(l.minLatency)
           /\ Sent(l, window).maxLatency = Truncate(l.maxLatency)
           /\ Sent(l, window).counts = l.counts
           /\ Sent(l, window).provider = l.provider
           /\ Sent(l, window).window = window
  <1> DEFINE s == Sent(l, window)
  <1>1. s = [counts |-> l.counts, sums |-> [k \in SumFields |-> Truncate(l.sums[k])],
             hists |-> l.hists, codes |-> l.codes, errors |-> l.errors,
             minLatency |-> Truncate(l.minLatency), maxLatency |-> Truncate(l.maxLatency),
             estimated |-> FALSE, provider |-> l.provider, window |-> window]
    <2>1. /\ l = [counts |-> l.counts, sums |-> l.sums, hists |-> l.hists, codes |-> l.codes,
                  errors |-> l.errors, minLatency |-> l.minLatency, maxLatency |-> l.maxLatency,
                  estimated |-> l.estimated, provider |-> l.provider, window |-> l.window]
          /\ DOMAIN l.sums = SumFields
      BY DEF Collectors
    <2> DEFINE q == SetWindow(l, window)
    <2>2. q = [counts |-> l.counts, sums |-> l.sums, hists |-> l.hists, codes |-> l.codes,
               errors |-> l.errors, minLatency |-> l.minLatency, maxLatency |-> l.maxLatency,
               estimated |-> l.estimated, provider |-> l.provider, window |-> window]
      BY <2>1 DEF SetWindow
    <2>3. s = [q EXCEPT !.sums = [k \in DOMAIN q.sums |-> Truncate(q.sums[k])],
                        !.minLatency = Truncate(q.minLatency),
                        !.maxLatency = Truncate(q.maxLatency), !.estimated = FALSE]
      BY <2>2 DEF Sent, Snapshot
    <2> HIDE DEF q, s
    <2>4. [k \in DOMAIN q.sums |-> Truncate(q.sums[k])] = [k \in SumFields |-> Truncate(l.sums[k])]
      BY <2>1, <2>2
    <2> QED
      BY <2>2, <2>3, <2>4
  <1> HIDE DEF s
  <1>2. s \in Collectors
    <2>1. \A k \in SumFields : Truncate(l.sums[k]) \in Nat
      BY TruncateBounds DEF Collectors
    <2>2. Truncate(l.minLatency) \in Nat /\ Truncate(l.maxLatency) \in Nat
      BY TruncateBounds DEF Collectors
    <2> QED
      BY <1>1, <2>1, <2>2 DEF Collectors
  <1>3. \A key \in Keys : Figure(s, key) = Figure(l, key)
    BY <1>1 DEF Figure
  <1> QED
    BY <1>1, <1>2, <1>3 DEF s

\* The window of the merge of two: that of the other if this one has none.
LEMMA MergedWindowType ==
    ASSUME NEW v \in Nat \X Nat, NEW u \in Nat \X Nat, u[1] > 0
    PROVE  /\ MergedWindow(v, u) \in Nat \X Nat
           /\ MergedWindow(v, u)[1] = IF v[1] = 0 \/ u[1] <= v[1] THEN u[1] ELSE v[1]
           /\ MergedWindow(v, u)[2] = IF v[2] <= u[2] THEN u[2] ELSE v[2]
  <1> DEFINE S == {t \in {v[1], u[1]} : t > 0} \cup {v[1] + u[1]}
  <1>1. v[1] \in Nat /\ v[2] \in Nat /\ u[1] \in Nat /\ u[2] \in Nat
    OBVIOUS
  <1>2. Max({v[2], u[2]}) = IF v[2] <= u[2] THEN u[2] ELSE v[2]
    BY <1>1, MaxOfTwo
  <1>3. Min(S) = IF v[1] = 0 \/ u[1] <= v[1] THEN u[1] ELSE v[1]
    <2>1. S \in SUBSET Int /\ u[1] \in S
      BY <1>1
    <2>2. CASE v[1] = 0 \/ u[1] <= v[1]
      <3>1. \A y \in S : u[1] <= y
        BY <1>1, <2>2
      <3> HIDE DEF S
      <3> QED
        BY <2>1, <2>2, <3>1, MinIs
    <2>3. CASE ~(v[1] = 0 \/ u[1] <= v[1])
      <3>1. v[1] \in S /\ \A y \in S : v[1] <= y
        BY <1>1, <2>3
      <3> HIDE DEF S
      <3> QED
        BY <2>1, <2>3, <3>1, MinIs
    <2> QED
      BY <2>2, <2>3
  <1>4. MergedWindow(v, u) = <<Min(S), Max({v[2], u[2]})>>
    BY DEF MergedWindow
  <1> HIDE DEF S
  <1> QED
    BY <1>1, <1>2, <1>3, <1>4

LEMMA MergeType ==
    ASSUME NEW c \in Collectors, NEW s \in Collectors, s.window[1] > 0
    PROVE  /\ MergeSnapshot(c, s) \in Collectors
           /\ MergeSnapshot(c, s).window = MergedWindow(c.window, s.window)
  <1> DEFINE m == MergeSnapshot(c, s)
  <1>1. MergedWindow(c.window, s.window) \in Nat \X Nat
    BY MergedWindowType DEF Collectors
  <1>2. CASE s.counts.total = 0
    <2>1. m = [c EXCEPT !.window = MergedWindow(c.window, s.window)]
      BY <1>2 DEF MergeSnapshot, SetWindow
    <2> HIDE DEF m
    <2>2. m \in Collectors /\ m.window = MergedWindow(c.window, s.window)
      BY <1>1, <2>1 DEF Collectors
    <2> QED
      BY <2>2 DEF m
  <1>3. CASE s.counts.total # 0
    <2>1. m = [counts |-> Plus(c.counts, s.counts), sums |-> Plus(c.sums, s.sums),
               hists |-> [k \in Metrics |-> HistogramMerge(c.hists[k], s.hists[k])],
               codes |-> Plus(c.codes, s.codes), errors |-> Plus(c.errors, s.errors),
               minLatency |-> MergedMin(c, s), maxLatency |-> Max({c.maxLatency, s.maxLatency}),
               estimated |-> c.estimated, provider |-> First(c.provider, s.provider),
               window |-> MergedWindow(c.window, s.window)]
      BY <1>3 DEF MergeSnapshot
    <2>2. Plus(c.counts, s.counts) \in [Counters -> Nat] /\ Plus(c.sums, s.sums) \in [SumFields -> Nat]
      BY DEF Plus, Collectors
    <2>3. Plus(c.codes, s.codes) \in [Codes -> Nat] /\ Plus(c.errors, s.errors) \in [Categories -> Nat]
      BY DEF Plus, Collectors
    <2>4. [k \in Metrics |-> HistogramMerge(c.hists[k], s.hists[k])] \in [Metrics -> Histograms]
      BY DEF HistogramMerge, Histograms, Collectors
    <2>5. MergedMin(c, s) \in Nat /\ Max({c.maxLatency, s.maxLatency}) \in Nat
      <3>1. /\ c.minLatency \in Nat /\ s.minLatency \in Nat
            /\ c.maxLatency \in Nat /\ s.maxLatency \in Nat
        BY DEF Collectors
      <3> QED
        BY <3>1, MaxOfTwo DEF MergedMin
    <2>6. First(c.provider, s.provider) \in Providers /\ c.estimated \in BOOLEAN
      BY DEF First, Collectors
    <2> HIDE DEF m
    <2>7. m \in Collectors /\ m.window = MergedWindow(c.window, s.window)
      BY <1>1, <2>1, <2>2, <2>3, <2>4, <2>5, <2>6 DEF Collectors
    <2> QED
      BY <2>7 DEF m
  <1> QED
    BY <1>2, <1>3

\* A snapshot that is not empty is added figure by figure.
LEMMA MergeFigure ==
    ASSUME NEW c \in Collectors, NEW s \in Collectors, s.counts.total # 0, NEW key \in Keys
    PROVE  Figure(MergeSnapshot(c, s), key) = Figure(c, key) + Figure(s, key)
  <1> DEFINE m == MergeSnapshot(c, s)
  <1>1. /\ m.counts = Plus(c.counts, s.counts) /\ m.codes = Plus(c.codes, s.codes)
        /\ m.errors = Plus(c.errors, s.errors)
        /\ m.hists = [k \in Metrics |-> HistogramMerge(c.hists[k], s.hists[k])]
    BY DEF MergeSnapshot
  <1> HIDE DEF m
  <1> SUFFICES Figure(m, key) = Figure(c, key) + Figure(s, key)
    BY DEF m
  <1>2. CASE key \in {"counts"} \X Counters
    <2>1. PICK k \in Counters : key = <<"counts", k>>
      BY <1>2
    <2>2. m.counts[k] = c.counts[k] + s.counts[k]
      BY <1>1 DEF Plus, Collectors
    <2>3. Figure(c, key) = c.counts[k] /\ Figure(s, key) = s.counts[k] /\ Figure(m, key) = m.counts[k]
      BY <2>1 DEF Figure
    <2> QED
      BY <2>2, <2>3
  <1>3. CASE key \in {"codes"} \X Codes
    <2>1. PICK k \in Codes : key = <<"codes", k>>
      BY <1>3
    <2>2. m.codes[k] = c.codes[k] + s.codes[k]
      BY <1>1 DEF Plus, Collectors
    <2>3. Figure(c, key) = c.codes[k] /\ Figure(s, key) = s.codes[k] /\ Figure(m, key) = m.codes[k]
      BY <2>1 DEF Figure
    <2> QED
      BY <2>2, <2>3
  <1>4. CASE key \in {"errors"} \X Categories
    <2>1. PICK k \in Categories : key = <<"errors", k>>
      BY <1>4
    <2>2. m.errors[k] = c.errors[k] + s.errors[k]
      BY <1>1 DEF Plus, Collectors
    <2>3. Figure(c, key) = c.errors[k] /\ Figure(s, key) = s.errors[k] /\ Figure(m, key) = m.errors[k]
      BY <2>1 DEF Figure
    <2> QED
      BY <2>2, <2>3
  <1>5. CASE key \in Metrics \X Buckets
    <2>1. PICK k \in Metrics, i \in Buckets : key = <<k, i>>
      BY <1>5
    <2>2. m.hists[k][i] = c.hists[k][i] + s.hists[k][i]
      BY <1>1 DEF HistogramMerge
    <2>3. /\ Figure(c, key) = c.hists[k][i] /\ Figure(s, key) = s.hists[k][i]
          /\ Figure(m, key) = m.hists[k][i]
      BY <2>1 DEF Figure, Metrics
    <2> QED
      BY <2>2, <2>3
  <1> QED
    BY <1>2, <1>3, <1>4, <1>5 DEF Keys

\* The other parts of a collector after a snapshot.
LEMMA MergeRest ==
    ASSUME NEW c \in Collectors, NEW s \in Collectors, s.counts.total # 0
    PROVE  LET m == MergeSnapshot(c, s)
           IN  /\ \A k \in SumFields : m.sums[k] = c.sums[k] + s.sums[k]
               /\ m.counts.total = c.counts.total + s.counts.total
               /\ m.minLatency = MergedMin(c, s)
               /\ m.maxLatency = IF c.maxLatency <= s.maxLatency THEN s.maxLatency ELSE c.maxLatency
               /\ m.provider = "" <=> c.provider = "" /\ s.provider = ""
  <1> DEFINE m == MergeSnapshot(c, s)
  <1>1. c.maxLatency \in Nat /\ s.maxLatency \in Nat
    BY DEF Collectors
  <1>2. m.maxLatency = IF c.maxLatency <= s.maxLatency THEN s.maxLatency ELSE c.maxLatency
    BY <1>1, MaxOfTwo DEF MergeSnapshot
  <1>3. m.sums = Plus(c.sums, s.sums) /\ m.counts = Plus(c.counts, s.counts)
    BY DEF MergeSnapshot
  <1>4. m.minLatency = MergedMin(c, s) /\ m.provider = First(c.provider, s.provider)
    BY DEF MergeSnapshot
  <1> HIDE DEF m
  <1>5. \A k \in SumFields : m.sums[k] = c.sums[k] + s.sums[k]
    BY <1>3 DEF Plus, Collectors
  <1>6. m.counts.total = c.counts.total + s.counts.total
    BY <1>3 DEF Plus, Collectors, Counters
  <1>7. m.provider = "" <=> c.provider = "" /\ s.provider = ""
    BY <1>4 DEF First
  <1> QED
    BY <1>2, <1>4, <1>5, <1>6, <1>7 DEF m

LEMMA MergeEmpty ==
    ASSUME NEW c \in Collectors, NEW s \in Collectors, s.counts.total = 0
    PROVE  LET m == MergeSnapshot(c, s)
           IN  /\ \A key \in Keys : Figure(m, key) = Figure(c, key)
               /\ m.sums = c.sums /\ m.counts = c.counts
               /\ m.minLatency = c.minLatency /\ m.maxLatency = c.maxLatency
               /\ m.provider = c.provider
  <1> DEFINE m == MergeSnapshot(c, s)
  <1>1. m = [c EXCEPT !.window = MergedWindow(c.window, s.window)]
    BY DEF MergeSnapshot, SetWindow
  <1> HIDE DEF m
  <1>2. /\ m.counts = c.counts /\ m.sums = c.sums /\ m.hists = c.hists /\ m.codes = c.codes
        /\ m.errors = c.errors /\ m.minLatency = c.minLatency /\ m.maxLatency = c.maxLatency
        /\ m.provider = c.provider
    BY <1>1 DEF Collectors
  <1>3. \A key \in Keys : Figure(m, key) = Figure(c, key)
    BY <1>2 DEF Figure
  <1> QED
    BY <1>2, <1>3 DEF m

LEMMA NewCollectorType ==
    /\ NewCollector \in Collectors
    /\ \A key \in Keys : Figure(NewCollector, key) = 0
    /\ \A k \in Counters : NewCollector.counts[k] = 0
    /\ \A k \in SumFields : NewCollector.sums[k] = 0
    /\ NewCollector.provider = "" /\ NewCollector.minLatency = 0 /\ NewCollector.maxLatency = 0
    /\ NewCollector.window = <<0, 0>>
    /\ NewCollector.hists.latency = NewHistogram
  <1>1. NewHistogram \in Histograms /\ \A i \in Buckets : NewHistogram[i] = 0
    BY DEF NewHistogram, Histograms
  <1> DEFINE n == NewCollector
  <1>2. n = [counts |-> [k \in Counters |-> 0], sums |-> [k \in SumFields |-> 0],
             hists |-> [m \in Metrics |-> NewHistogram],
             codes |-> [k \in Codes |-> 0], errors |-> [k \in Categories |-> 0],
             minLatency |-> 0, maxLatency |-> 0, estimated |-> FALSE, provider |-> "",
             window |-> <<0, 0>>]
    BY DEF NewCollector, SumFields
  <1> HIDE DEF n
  <1>3. n \in Collectors
    <2>1. /\ n.counts \in [Counters -> Nat] /\ n.sums \in [SumFields -> Nat]
          /\ n.codes \in [Codes -> Nat] /\ n.errors \in [Categories -> Nat]
          /\ n.hists \in [Metrics -> Histograms]
      BY <1>1, <1>2
    <2>2. /\ n.minLatency \in Nat /\ n.maxLatency \in Nat /\ n.estimated \in BOOLEAN
          /\ n.provider \in Providers /\ n.window \in Nat \X Nat
      <3>1. "" \in Providers /\ FALSE \in BOOLEAN
        BY DEF Providers
      <3>2. 0 \in Nat /\ <<0, 0>> \in Nat \X Nat
        OBVIOUS
      <3>3. n.estimated = FALSE /\ n.provider = "" /\ n.window = <<0, 0>>
        BY <1>2
      <3>4. n.minLatency = 0 /\ n.maxLatency = 0
        BY <1>2
      <3> QED
        BY <3>1, <3>2, <3>3, <3>4
    <2>3. n = [counts |-> n.counts, sums |-> n.sums, hists |-> n.hists, codes |-> n.codes,
               errors |-> n.errors, minLatency |-> n.minLatency, maxLatency |-> n.maxLatency,
               estimated |-> n.estimated, provider |-> n.provider, window |-> n.window]
      BY <1>2
    <2> QED
      BY <2>1, <2>2, <2>3 DEF Collectors
  <1>4. ASSUME NEW key \in Keys PROVE Figure(n, key) = 0
    <2>1. CASE key \in {"counts"} \X Counters
      BY <1>2, <2>1 DEF Figure
    <2>2. CASE key \in {"codes"} \X Codes
      BY <1>2, <2>2 DEF Figure
    <2>3. CASE key \in {"errors"} \X Categories
      BY <1>2, <2>3 DEF Figure
    <2>4. CASE key \in Metrics \X Buckets
      BY <1>1, <1>2, <2>4 DEF Figure, Metrics
    <2> QED
      BY <2>1, <2>2, <2>3, <2>4 DEF Keys
  <1>5. n.hists.latency = NewHistogram
    BY <1>2 DEF Metrics
  <1> QED
    BY <1>2, <1>3, <1>4, <1>5 DEF n

-----------------------------------------------------------------------------
(* Types and windows.                                                      *)

TypeInv ==
    /\ local \in [Workers -> Collectors] /\ master \in Collectors
    /\ all \in Collectors /\ observed \in Collectors
    /\ merged \in SUBSET Workers
    /\ pending = << >> \/ \E r \in Results : pending = <<r>>
    /\ scraped \in [Counters -> Nat]
    /\ final # << >> => final = <<Summary(all)>> /\ merged = Workers /\ all.window = RunWindow
    /\ report # << >> => report = <<Summary(master)>> /\ merged = Workers /\ master.window = RunWindow

\* Until the end of the run the master's window reaches from the earliest start
\* to the latest end of the workers that were merged.
WindowInv ==
    report = << >> =>
        /\ merged = {} => master.window = <<0, 0>>
        /\ \A w \in merged : /\ 0 < master.window[1] /\ master.window[1] <= Windows[w][1]
                             /\ Windows[w][2] <= master.window[2]
        /\ merged # {} => /\ \E w \in merged : master.window[1] = Windows[w][1]
                          /\ \E w \in merged : master.window[2] = Windows[w][2]

LEMMA SpanMerged ==
    ASSUME TypeInv, WindowInv, merged # {}, report = << >>
    PROVE  master.window = Span(merged)
  <1> DEFINE Starts == {Windows[w][1] : w \in merged}
             Ends == {Windows[w][2] : w \in merged}
  <1>1. master.window \in Nat \X Nat
    BY DEF TypeInv, Collectors
  <1>2. Starts \in SUBSET Int /\ Ends \in SUBSET Int
    BY WindowsAssumption DEF TypeInv
  <1>3. Min(Starts) = master.window[1]
    <2>1. master.window[1] \in Starts /\ \A y \in Starts : master.window[1] <= y
      BY DEF WindowInv
    <2> HIDE DEF Starts
    <2> QED
      BY <1>2, <2>1, MinIs
  <1>4. Max(Ends) = master.window[2]
    <2>1. master.window[2] \in Ends /\ \A y \in Ends : y <= master.window[2]
      BY DEF WindowInv
    <2> HIDE DEF Ends
    <2> QED
      BY <1>2, <2>1, MaxIs
  <1> QED
    BY <1>1, <1>3, <1>4 DEF Span

\* What a worker sends has a type, and its window.
LEMMA SentByWorker ==
    ASSUME TypeInv, NEW w \in Workers
    PROVE  /\ local[w] \in Collectors /\ Windows[w] \in Nat \X Nat /\ 0 < Windows[w][1]
           /\ Sent(local[w], Windows[w]) \in Collectors
           /\ Sent(local[w], Windows[w]).window = Windows[w]
           /\ MergeSnapshot(master, Sent(local[w], Windows[w])) \in Collectors
           /\ MergeSnapshot(master, Sent(local[w], Windows[w])).window
                 = MergedWindow(master.window, Windows[w])
  <1>1. local[w] \in Collectors /\ Windows[w] \in Nat \X Nat /\ 0 < Windows[w][1]
    BY WindowsAssumption DEF TypeInv
  <1>2. /\ Sent(local[w], Windows[w]) \in Collectors
        /\ Sent(local[w], Windows[w]).window = Windows[w]
    BY <1>1, SentType
  <1>3. master \in Collectors
    BY DEF TypeInv
  <1> QED
    BY <1>1, <1>2, <1>3, MergeType

LEMMA WindowStep ==
    ASSUME TypeInv, WindowInv, [Next]_vars
    PROVE  WindowInv'
  <1>1. ASSUME NEW w \in Workers, MergeWorker(w) PROVE WindowInv'
    <2>1. /\ merged' = merged \cup {w} /\ report = << >> /\ report' = << >>
          /\ master' = MergeSnapshot(master, Sent(local[w], Windows[w]))
      BY <1>1 DEF MergeWorker, Sent, TypeInv
    <2>2. master'.window = MergedWindow(master.window, Windows[w])
      BY <2>1, SentByWorker
    <2>3. master.window \in Nat \X Nat /\ Windows[w] \in Nat \X Nat /\ Windows[w][1] > 0
      BY SentByWorker DEF TypeInv, Collectors
    <2>4. /\ master'.window[1] = IF master.window[1] = 0 \/ Windows[w][1] <= master.window[1]
                                 THEN Windows[w][1] ELSE master.window[1]
          /\ master'.window[2] = IF master.window[2] <= Windows[w][2]
                                 THEN Windows[w][2] ELSE master.window[2]
      <3> DEFINE merge == MergedWindow(master.window, Windows[w])
      <3>1. /\ merge[1] = IF master.window[1] = 0 \/ Windows[w][1] <= master.window[1]
                          THEN Windows[w][1] ELSE master.window[1]
            /\ merge[2] = IF master.window[2] <= Windows[w][2]
                          THEN Windows[w][2] ELSE master.window[2]
        BY <2>3, MergedWindowType
      <3> HIDE DEF merge
      <3>2. master'.window = merge
        BY <2>2 DEF merge
      <3> QED
        BY <3>1, <3>2
    <2>5. \A v \in Workers : Windows[v][1] \in Nat /\ Windows[v][2] \in Nat
      BY WindowsAssumption
    <2>6. CASE merged = {}
      <3>1. master.window[1] = 0 /\ master.window[2] = 0 /\ merged' = {w}
        BY <2>1, <2>6 DEF WindowInv
      <3> QED
        BY <2>3, <2>4, <3>1 DEF WindowInv
    <2>7. CASE merged # {}
      <3>1. master.window[1] > 0 /\ merged \in SUBSET Workers
        BY <2>1, <2>7 DEF WindowInv, TypeInv
      <3>2. \A v \in merged' : /\ 0 < master'.window[1] /\ master'.window[1] <= Windows[v][1]
                               /\ Windows[v][2] <= master'.window[2]
        BY <2>1, <2>3, <2>4, <2>5, <3>1 DEF WindowInv
      <3>3. \E v \in merged' : master'.window[1] = Windows[v][1]
        BY <2>1, <2>4, <2>7 DEF WindowInv
      <3>4. \E v \in merged' : master'.window[2] = Windows[v][2]
        BY <2>1, <2>4, <2>7 DEF WindowInv
      <3> QED
        BY <2>1, <3>2, <3>3, <3>4 DEF WindowInv
    <2> QED
      BY <2>6, <2>7
  <1>2. ASSUME UNCHANGED <<merged, master, report>> PROVE WindowInv'
    BY <1>2 DEF WindowInv
  <1>3. ASSUME EndRun PROVE WindowInv'
    BY <1>3 DEF EndRun, WindowInv
  <1> QED
    BY <1>1, <1>2, <1>3 DEF Next, vars, Collect, Observe, Finalize, Scrape

LEMMA TypeStep ==
    ASSUME TypeInv, WindowInv, [Next]_vars
    PROVE  TypeInv'
  <1>1. ASSUME NEW w \in Workers, NEW r \in Results, Collect(w, r) PROVE TypeInv'
    <2>1. Add(local[w], r) \in Collectors /\ Add(all, r) \in Collectors
      BY AddType DEF TypeInv
    <2>2. local' \in [Workers -> Collectors] /\ all' \in Collectors
      BY <1>1, <2>1 DEF Collect, TypeInv
    <2>3. final = << >> /\ report = << >>
      BY <1>1 DEF Collect, TypeInv
    <2> QED
      BY <1>1, <2>2, <2>3 DEF Collect, TypeInv
  <1>2. ASSUME NEW w \in Workers, MergeWorker(w) PROVE TypeInv'
    <2>1. master' \in Collectors
      BY <1>2, SentByWorker DEF MergeWorker, Sent
    <2>2. final = << >> /\ report = << >>
      BY <1>2 DEF MergeWorker, TypeInv
    <2> QED
      BY <1>2, <2>1, <2>2 DEF MergeWorker, TypeInv
  <1>3. ASSUME Observe PROVE TypeInv'
    <2>1. Add(observed, pending[1]) \in Collectors
      BY <1>3, AddType DEF Observe, TypeInv
    <2> QED
      BY <1>3, <2>1 DEF Observe, TypeInv, Summary
  <1>4. ASSUME Finalize PROVE TypeInv'
    <2>1. RunWindow \in Nat \X Nat
      BY WindowsAssumption
    <2>2. all' \in Collectors /\ all'.window = RunWindow
      BY <1>4, <2>1 DEF Finalize, SetWindow, TypeInv, Collectors
    <2>3. final' = <<Summary(all')>> /\ merged' = Workers
      BY <1>4 DEF Finalize
    <2> QED
      BY <1>4, <2>2, <2>3 DEF Finalize, TypeInv
  <1>5. ASSUME Scrape PROVE TypeInv'
    <2>1. scraped' \in [Counters -> Nat]
      BY <1>5 DEF Scrape, TypeInv, Summary, Collectors
    <2> QED
      BY <1>5, <2>1 DEF Scrape, TypeInv
  <1>6. ASSUME EndRun PROVE TypeInv'
    <2>1. RunWindow \in Nat \X Nat
      BY WindowsAssumption
    <2>2. master' \in Collectors /\ master'.window = RunWindow
      BY <1>6, <2>1 DEF EndRun, SetWindow, TypeInv, Collectors
    <2>3. report' = <<Summary(master')>> /\ merged' = Workers
      BY <1>6 DEF EndRun
    <2> QED
      BY <1>6, <2>2, <2>3 DEF EndRun, TypeInv
  <1>7. ASSUME UNCHANGED vars PROVE TypeInv'
    BY <1>7 DEF TypeInv, vars
  <1> QED
    BY <1>1, <1>2, <1>3, <1>4, <1>5, <1>6, <1>7 DEF Next

-----------------------------------------------------------------------------
(* Nothing is lost in the merge.                                           *)

\* A worker that has collected nothing has nothing in its collector.
EmptyInv == \A w \in Workers : local[w].counts.total = 0 => local[w] = NewCollector

Rest == Workers \ merged

FigureOf(key) == [w \in Workers |-> Figure(local[w], key)]
SumOfWorker(k) == [w \in Workers |-> local[w].sums[k]]

\* What all requests add up to is in the master's collector or in that of a
\* worker that has not been merged yet; ...
CountsInv ==
    \A key \in Keys : Figure(all, key) = Figure(master, key) + SumOf(FigureOf(key), Rest)

\* ... of the durations, all but the fractions that were cut from the sum of
\* each worker that was merged.
SumsInv ==
    \A k \in SumFields : \E lost \in 0..((Micro - 1) * Cardinality(merged)) :
        all.sums[k] = master.sums[k] + SumOf(SumOfWorker(k), Rest) + lost

LEMMA RestFinite == IsFiniteSet(Rest)
  BY WorkersAssumption, FS_Subset DEF Rest

LEMMA EmptyStep ==
    ASSUME TypeInv, EmptyInv, [Next]_vars
    PROVE  EmptyInv'
  <1>1. ASSUME NEW w \in Workers, NEW r \in Results, Collect(w, r) PROVE EmptyInv'
    <2>1. local' = [local EXCEPT ![w] = Add(local[w], r)] /\ local[w] \in Collectors
      BY <1>1 DEF Collect, TypeInv
    <2>2. Add(local[w], r).counts.total = local[w].counts.total + 1 /\ local[w].counts.total \in Nat
      BY <2>1, AddRest DEF Collectors, Counters
    <2>3. local'[w].counts.total # 0 /\ \A v \in Workers \ {w} : local'[v] = local[v]
      BY <2>1, <2>2 DEF TypeInv
    <2> QED
      BY <2>3 DEF EmptyInv
  <1>2. ASSUME UNCHANGED local PROVE EmptyInv'
    BY <1>2 DEF EmptyInv
  <1> QED
    BY <1>1, <1>2 DEF Next, vars, MergeWorker, EndRun, Observe, Finalize, Scrape

\* A result of a worker raises the sum over the workers by as much as it raises
\* the whole.
LEMMA CountsCollect ==
    ASSUME TypeInv, CountsInv, NEW w \in Workers, NEW r \in Results, Collect(w, r)
    PROVE  CountsInv'
  <1>1. SUFFICES ASSUME NEW key \in Keys
                 PROVE  Figure(all', key) = Figure(master', key) + SumOf(FigureOf(key)', Rest')
    BY DEF CountsInv
  <1>2. /\ w \in Rest /\ Rest' = Rest /\ master' = master /\ all' = Add(all, r)
        /\ local' = [local EXCEPT ![w] = Add(local[w], r)]
    BY DEF Collect, Rest
  <1>3. \A v \in Workers : local[v] \in Collectors
    BY DEF TypeInv
  <1>4. /\ Gain(r, key) \in Nat
        /\ Figure(Add(local[w], r), key) = Figure(local[w], key) + Gain(r, key)
        /\ \A v \in Workers : Figure(local[v], key) \in Nat
    BY <1>3, AddFigure
  <1>5. /\ Figure(all', key) = Figure(all, key) + Gain(r, key) /\ Figure(all, key) \in Nat
        /\ Figure(master, key) \in Nat
    BY <1>2, AddFigure DEF TypeInv
  <1> DEFINE f == FigureOf(key)
             g == FigureOf(key)'
  <1>6. \A v \in Rest : f[v] \in Nat
    BY <1>4 DEF FigureOf, Rest
  <1>7. g[w] = f[w] + Gain(r, key)
    BY <1>2, <1>4 DEF FigureOf, TypeInv
  <1>8. \A v \in Rest \ {w} : g[v] = f[v]
    BY <1>2 DEF FigureOf, TypeInv, Rest
  <1>9. SumOf(g, Rest) = SumOf(f, Rest) + Gain(r, key) /\ SumOf(f, Rest) \in Nat
    <2> HIDE DEF f, g
    <2> QED
      BY <1>2, <1>4, <1>6, <1>7, <1>8, RestFinite, SumIncrease, SumType
  <1>10. Figure(all, key) = Figure(master, key) + SumOf(f, Rest)
    BY DEF CountsInv
  <1> HIDE DEF f
  <1> QED
    BY <1>2, <1>4, <1>5, <1>9, <1>10

LEMMA CountsMerge ==
    ASSUME TypeInv, EmptyInv, CountsInv, NEW w \in Workers, MergeWorker(w)
    PROVE  CountsInv'
  <1>1. SUFFICES ASSUME NEW key \in Keys
                 PROVE  Figure(all', key) = Figure(master', key) + SumOf(FigureOf(key)', Rest')
    BY DEF CountsInv
  <1> DEFINE s == Sent(local[w], Windows[w])
             f == FigureOf(key)
  <1>2. /\ w \in Rest /\ Rest' = Rest \ {w} /\ all' = all /\ local' = local
        /\ master' = MergeSnapshot(master, s)
    BY DEF MergeWorker, Rest, Sent
  <1>3. s \in Collectors /\ master \in Collectors /\ local[w] \in Collectors
    BY SentByWorker DEF TypeInv
  <1>4. Figure(s, key) = Figure(local[w], key) /\ s.counts = local[w].counts
    BY SentByWorker, SentType
  <1>5. \A v \in Workers : Figure(local[v], key) \in Nat
    BY FigureType DEF TypeInv
  <1>6. /\ SumOf(f, Rest) = Figure(local[w], key) + SumOf(f, Rest \ {w})
        /\ SumOf(f, Rest \ {w}) \in Nat
    <2>1. f[w] = Figure(local[w], key) /\ \A v \in Rest : f[v] \in Nat
      BY <1>5 DEF FigureOf, Rest
    <2> HIDE DEF f
    <2> QED
      BY <1>2, <2>1, RestFinite, SumRemove
  <1>7. Figure(master', key) = Figure(master, key) + Figure(local[w], key)
    <2>1. CASE s.counts.total = 0
      <3>1. Figure(local[w], key) = 0
        BY <1>4, <2>1, NewCollectorType DEF EmptyInv
      <3>2. Figure(master', key) = Figure(master, key)
        BY <1>2, <1>3, <2>1, MergeEmpty
      <3>3. Figure(master, key) \in Nat
        BY <1>3, FigureType
      <3> QED
        BY <3>1, <3>2, <3>3
    <2>2. CASE s.counts.total # 0
      BY <1>2, <1>3, <1>4, <2>2, MergeFigure
    <2> QED
      BY <2>1, <2>2
  <1>8. Figure(all, key) = Figure(master, key) + SumOf(f, Rest)
    BY DEF CountsInv
  <1>9. Figure(master, key) \in Nat /\ Figure(local[w], key) \in Nat
    BY <1>3, FigureType
  <1>10. FigureOf(key)' = f
    BY <1>2 DEF FigureOf
  <1> HIDE DEF f
  <1> QED
    BY <1>2, <1>6, <1>7, <1>8, <1>9, <1>10

LEMMA CountsStep ==
    ASSUME TypeInv, EmptyInv, CountsInv, [Next]_vars
    PROVE  CountsInv'
  <1>1. ASSUME NEW w \in Workers, NEW r \in Results, Collect(w, r) PROVE CountsInv'
    BY <1>1, CountsCollect
  <1>2. ASSUME NEW w \in Workers, MergeWorker(w) PROVE CountsInv'
    BY <1>2, CountsMerge
  <1>3. ASSUME Finalize PROVE CountsInv'
    <2>1. all' = [all EXCEPT !.window = RunWindow]
      BY <1>3 DEF Finalize, SetWindow
    <2>2. \A key \in Keys : Figure(all', key) = Figure(all, key)
      BY <2>1 DEF Figure, TypeInv, Collectors
    <2> QED
      BY <1>3, <2>2 DEF Finalize, CountsInv, FigureOf, Rest
  <1>4. ASSUME EndRun PROVE CountsInv'
    <2>1. master' = [master EXCEPT !.window = RunWindow]
      BY <1>4 DEF EndRun, SetWindow
    <2>2. \A key \in Keys : Figure(master', key) = Figure(master, key)
      BY <2>1 DEF Figure, TypeInv, Collectors
    <2> QED
      BY <1>4, <2>2 DEF EndRun, CountsInv, FigureOf, Rest
  <1>5. ASSUME UNCHANGED <<local, master, merged, all>> PROVE CountsInv'
    BY <1>5 DEF CountsInv, FigureOf, Rest
  <1> QED
    BY <1>1, <1>2, <1>3, <1>4, <1>5 DEF Next, vars, Observe, Scrape

LEMMA SumsCollect ==
    ASSUME TypeInv, SumsInv, NEW w \in Workers, NEW r \in Results, Collect(w, r)
    PROVE  SumsInv'
  <1>1. /\ w \in Rest /\ Rest' = Rest /\ master' = master /\ all' = Add(all, r) /\ merged' = merged
        /\ local' = [local EXCEPT ![w] = Add(local[w], r)]
    BY DEF Collect, Rest
  <1>2. SUFFICES ASSUME NEW k \in SumFields
                 PROVE  \E lost \in 0..((Micro - 1) * Cardinality(merged)) :
                           all'.sums[k] = master'.sums[k] + SumOf(SumOfWorker(k)', Rest') + lost
    BY <1>1 DEF SumsInv
  <1> DEFINE f == SumOfWorker(k)
             g == SumOfWorker(k)'
             d == Sums(r)[k]
  <1>3. d \in Nat /\ \A v \in Workers : local[v].sums[k] \in Nat
    BY ResultType DEF TypeInv, Collectors
  <1>4. Add(local[w], r).sums[k] = local[w].sums[k] + d
    <2>1. local[w] \in Collectors
      BY DEF TypeInv
    <2> QED
      BY <2>1, AddRest
  <1>5. all'.sums[k] = all.sums[k] + d /\ all.sums[k] \in Nat /\ master.sums[k] \in Nat
    <2>1. all'.sums[k] = all.sums[k] + d
      BY <1>1, AddRest DEF TypeInv
    <2> QED
      BY <2>1 DEF TypeInv, Collectors
  <1>6. /\ \A v \in Rest : f[v] \in Nat
        /\ g[w] = f[w] + d
        /\ \A v \in Rest \ {w} : g[v] = f[v]
    BY <1>1, <1>3, <1>4 DEF SumOfWorker, TypeInv, Rest
  <1>7. SumOf(g, Rest) = SumOf(f, Rest) + d /\ SumOf(f, Rest) \in Nat
    <2> HIDE DEF f, g, d
    <2> QED
      BY <1>1, <1>3, <1>6, RestFinite, SumIncrease, SumType
  <1>8. PICK lost \in 0..((Micro - 1) * Cardinality(merged)) :
           all.sums[k] = master.sums[k] + SumOf(f, Rest) + lost
    BY DEF SumsInv
  <1> HIDE DEF f, g, d
  <1>9. all'.sums[k] = master'.sums[k] + SumOf(g, Rest) + lost
    BY <1>1, <1>3, <1>5, <1>7, <1>8
  <1> QED
    BY <1>1, <1>9 DEF g

\* At most a microsecond less one unit is cut from what a worker sends.
LEMMA OneMore ==
    ASSUME NEW n \in Nat, NEW lost \in 0..((Micro - 1) * n), NEW cut \in 0..(Micro - 1)
    PROVE  lost + cut \in 0..((Micro - 1) * (n + 1))
  <1>1. Micro - 1 \in Nat
    BY UnitsAssumption
  <1>2. (Micro - 1) * (n + 1) = (Micro - 1) * n + (Micro - 1) /\ (Micro - 1) * n \in Nat
    BY <1>1
  <1> QED
    BY <1>1, <1>2

LEMMA SumsMerge ==
    ASSUME TypeInv, EmptyInv, SumsInv, NEW w \in Workers, MergeWorker(w)
    PROVE  SumsInv'
  <1> DEFINE s == Sent(local[w], Windows[w])
  <1>1. /\ w \in Rest /\ Rest' = Rest \ {w} /\ all' = all /\ local' = local
        /\ merged' = merged \cup {w} /\ w \notin merged
        /\ master' = MergeSnapshot(master, s)
    BY DEF MergeWorker, Rest, Sent
  <1>2. Cardinality(merged') = Cardinality(merged) + 1 /\ Cardinality(merged) \in Nat
    <2>1. IsFiniteSet(merged)
      BY WorkersAssumption, FS_Subset DEF TypeInv
    <2> QED
      BY <1>1, <2>1, FS_AddElement, FS_CardinalityType
  <1>3. SUFFICES ASSUME NEW k \in SumFields
                 PROVE  \E lost \in 0..((Micro - 1) * (Cardinality(merged) + 1)) :
                           all'.sums[k] = master'.sums[k] + SumOf(SumOfWorker(k)', Rest') + lost
    BY <1>2 DEF SumsInv
  <1> DEFINE f == SumOfWorker(k)
             d == local[w].sums[k]
  <1>4. s \in Collectors /\ master \in Collectors /\ local[w] \in Collectors
    BY SentByWorker DEF TypeInv
  <1>5. s.sums[k] = Truncate(d) /\ s.counts = local[w].counts
    BY SentByWorker, SentType
  <1>6. d \in Nat /\ master.sums[k] \in Nat /\ \A v \in Workers : local[v].sums[k] \in Nat
    BY DEF TypeInv, Collectors
  <1>7. Truncate(d) \in Nat /\ Truncate(d) <= d /\ d <= Truncate(d) + (Micro - 1)
    BY <1>6, TruncateBounds
  <1>8. SumOf(f, Rest) = d + SumOf(f, Rest \ {w}) /\ SumOf(f, Rest \ {w}) \in Nat
    <2>1. f[w] = d /\ \A v \in Rest : f[v] \in Nat
      BY <1>6 DEF SumOfWorker, Rest
    <2> HIDE DEF f, d
    <2> QED
      BY <1>1, <2>1, RestFinite, SumRemove
  <1>9. master'.sums[k] = master.sums[k] + Truncate(d)
    <2>1. CASE s.counts.total = 0
      <3>1. d = 0
        BY <1>5, <2>1, NewCollectorType DEF EmptyInv
      <3>2. master'.sums[k] = master.sums[k]
        BY <1>1, <1>4, <2>1, MergeEmpty
      <3> QED
        BY <1>6, <3>1, <3>2, TruncateZero
    <2>2. CASE s.counts.total # 0
      <3>1. MergeSnapshot(master, s).sums[k] = master.sums[k] + s.sums[k]
        BY <1>4, <2>2, MergeRest
      <3> QED
        BY <1>1, <1>5, <3>1
    <2> QED
      BY <2>1, <2>2
  <1>10. PICK lost \in 0..((Micro - 1) * Cardinality(merged)) :
            all.sums[k] = master.sums[k] + SumOf(f, Rest) + lost
    BY DEF SumsInv
  <1>11. lost \in Nat /\ Micro \in Nat
    BY UnitsAssumption
  <1>12. d - Truncate(d) \in 0..(Micro - 1)
    BY <1>6, <1>7, <1>11
  <1>13. lost + (d - Truncate(d)) \in 0..((Micro - 1) * (Cardinality(merged) + 1))
    BY <1>2, <1>12, OneMore
  <1>14. SumOfWorker(k)' = f
    BY <1>1 DEF SumOfWorker
  <1> HIDE DEF f, d
  <1>15. all'.sums[k] = master'.sums[k] + SumOf(f, Rest') + (lost + (d - Truncate(d)))
    BY <1>1, <1>6, <1>7, <1>8, <1>9, <1>10, <1>11
  <1> QED
    BY <1>13, <1>14, <1>15

LEMMA SumsStep ==
    ASSUME TypeInv, EmptyInv, SumsInv, [Next]_vars
    PROVE  SumsInv'
  <1>1. ASSUME NEW w \in Workers, NEW r \in Results, Collect(w, r) PROVE SumsInv'
    BY <1>1, SumsCollect
  <1>2. ASSUME NEW w \in Workers, MergeWorker(w) PROVE SumsInv'
    BY <1>2, SumsMerge
  <1>3. ASSUME UNCHANGED <<local, merged>>, master'.sums = master.sums, all'.sums = all.sums
        PROVE  SumsInv'
    BY <1>3 DEF SumsInv, SumOfWorker, Rest
  <1>4. ASSUME Finalize PROVE all'.sums = all.sums
    BY <1>4 DEF Finalize, SetWindow, TypeInv, Collectors
  <1>5. ASSUME EndRun PROVE master'.sums = master.sums
    BY <1>5 DEF EndRun, SetWindow, TypeInv, Collectors
  <1> QED
    BY <1>1, <1>2, <1>3, <1>4, <1>5 DEF Next, vars, Observe, Scrape, Finalize, EndRun

-----------------------------------------------------------------------------
(* Extremes and the provider.                                              *)

\* The maxima are those of the workers, and of what the merged ones sent.
MaxInv ==
    /\ \A w \in Workers : local[w].maxLatency <= all.maxLatency
    /\ all.maxLatency = 0 \/ \E w \in Workers : local[w].maxLatency = all.maxLatency
    /\ \A w \in merged : Truncate(local[w].maxLatency) <= master.maxLatency
    /\ master.maxLatency = 0 \/ \E w \in merged : master.maxLatency = Truncate(local[w].maxLatency)

\* So are the minima, but for a minimum that was cut to 0.
MinInv ==
    /\ \A w \in Workers : local[w].counts.total > 0 =>
          all.counts.total > 0 /\ all.minLatency <= local[w].minLatency
    /\ all.counts.total > 0 =>
          \E w \in Workers : local[w].counts.total > 0 /\ local[w].minLatency = all.minLatency
    /\ \A w \in merged : local[w].counts.total > 0 =>
          /\ master.counts.total > 0
          /\ Truncate(local[w].minLatency) > 0 => master.minLatency <= Truncate(local[w].minLatency)
    /\ master.counts.total > 0 =>
          \E w \in merged : /\ local[w].counts.total > 0
                            /\ master.minLatency = Truncate(local[w].minLatency)

\* A provider is named once one was seen.
ProviderInv ==
    /\ all.provider = "" <=> \A w \in Workers : local[w].provider = ""
    /\ master.provider = "" <=> \A w \in merged : local[w].provider = ""

\* What the steps below need of the types.
LEMMA CollectorLatencies ==
    ASSUME NEW c \in Collectors
    PROVE  c.counts.total \in Nat /\ c.minLatency \in Nat /\ c.maxLatency \in Nat
  <1>1. c.counts \in [Counters -> Nat] /\ c.minLatency \in Nat /\ c.maxLatency \in Nat
    BY DEF Collectors
  <1> QED
    BY <1>1 DEF Counters

LEMMA LatencyTypes ==
    ASSUME TypeInv
    PROVE  /\ \A w \in Workers : /\ local[w].counts.total \in Nat /\ local[w].minLatency \in Nat
                                 /\ local[w].maxLatency \in Nat /\ local[w] \in Collectors
           /\ all.counts.total \in Nat /\ all.minLatency \in Nat /\ all.maxLatency \in Nat
           /\ master.counts.total \in Nat /\ master.minLatency \in Nat /\ master.maxLatency \in Nat
           /\ merged \subseteq Workers /\ all \in Collectors /\ master \in Collectors
  <1>1. all \in Collectors /\ master \in Collectors /\ merged \subseteq Workers
    BY DEF TypeInv
  <1>2. \A w \in Workers : local[w] \in Collectors
    BY DEF TypeInv
  <1> QED
    BY <1>1, <1>2, CollectorLatencies

LEMMA ExtremesCollect ==
    ASSUME TypeInv, MaxInv, MinInv, ProviderInv, NEW w \in Workers, NEW r \in Results, Collect(w, r)
    PROVE  MaxInv' /\ MinInv' /\ ProviderInv'
  <1> DEFINE Max1(v) == local'[v].maxLatency
             Min1(v) == local'[v].minLatency
             Max0(v) == local[v].maxLatency
             Min0(v) == local[v].minLatency
             n == r.latency
  <1>1. /\ w \notin merged /\ merged' = merged /\ master' = master /\ all' = Add(all, r)
        /\ local'[w] = Add(local[w], r) /\ \A v \in Workers \ {w} : local'[v] = local[v]
    BY DEF Collect, TypeInv
  <1>2. local[w] \in Collectors /\ all \in Collectors /\ n \in Nat
    BY ResultType DEF TypeInv
  <1>3. /\ all.counts.total \in Nat /\ all.minLatency \in Nat /\ all.maxLatency \in Nat
        /\ \A v \in Workers : Min0(v) \in Nat /\ Max0(v) \in Nat /\ local[v].counts.total \in Nat
        /\ merged \subseteq Workers
    BY LatencyTypes
  <1>4. /\ local'[w].counts.total = local[w].counts.total + 1
        /\ Min1(w) = IF local[w].counts.total = 0 \/ n <= Min0(w) THEN n ELSE Min0(w)
        /\ Max1(w) = IF Max0(w) <= n THEN n ELSE Max0(w)
        /\ local'[w].provider = "" <=> local[w].provider = "" /\ r.provider = ""
    <2> DEFINE a == Add(local[w], r)
    <2>1. /\ a.counts.total = local[w].counts.total + 1
          /\ a.minLatency = IF local[w].counts.total = 0 \/ r.latency <= local[w].minLatency
                            THEN r.latency ELSE local[w].minLatency
          /\ a.maxLatency = IF local[w].maxLatency <= r.latency THEN r.latency ELSE local[w].maxLatency
          /\ a.provider = "" <=> local[w].provider = "" /\ r.provider = ""
      BY <1>2, AddRest
    <2>2. local'[w] = a
      BY <1>1
    <2> HIDE DEF a
    <2> QED
      BY <2>1, <2>2
  <1>5. /\ all'.counts.total = all.counts.total + 1
        /\ all'.minLatency = IF all.counts.total = 0 \/ n <= all.minLatency THEN n ELSE all.minLatency
        /\ all'.maxLatency = IF all.maxLatency <= n THEN n ELSE all.maxLatency
        /\ all'.provider = "" <=> all.provider = "" /\ r.provider = ""
    BY <1>1, <1>2, AddRest
  <1>6. /\ \A v \in merged : local'[v] = local[v]
        /\ \A v \in Workers \ {w} : /\ Max1(v) = Max0(v) /\ Min1(v) = Min0(v)
                                    /\ local'[v].counts.total = local[v].counts.total
    BY <1>1, <1>3
  <1>7. MaxInv'
    <2> DEFINE m == all.maxLatency
               m1 == all'.maxLatency
    <2>0. /\ m1 = IF m <= n THEN n ELSE m
          /\ Max1(w) = IF Max0(w) <= n THEN n ELSE Max0(w)
          /\ m \in Nat /\ n \in Nat /\ \A v \in Workers : Max0(v) \in Nat /\ Max0(v) <= m
          /\ \A v \in Workers \ {w} : Max1(v) = Max0(v)
          /\ m = 0 \/ \E v \in Workers : Max0(v) = m
      BY <1>2, <1>3, <1>4, <1>5, <1>6 DEF MaxInv
    <2>1. \A v \in Workers : Max1(v) <= m1
      <3> HIDE DEF Max0, Max1, m, m1, n
      <3>1. Max1(w) <= m1
        BY <2>0
      <3>2. \A v \in Workers \ {w} : Max1(v) <= m1
        BY <2>0
      <3> QED
        BY <3>1, <3>2
    <2>2. m1 = 0 \/ \E v \in Workers : Max1(v) = m1
      <3> HIDE DEF Max0, Max1, m, m1, n
      <3>1. CASE m <= n
        BY <2>0, <3>1
      <3>2. CASE ~(m <= n)
        <4>1. PICK v \in Workers : Max0(v) = m
          BY <2>0, <3>2
        <4>2. CASE v = w
          BY <2>0, <3>2, <4>1, <4>2
        <4>3. CASE v # w
          BY <2>0, <3>2, <4>1, <4>3
        <4> QED
          BY <4>2, <4>3
      <3> QED
        BY <3>1, <3>2
    <2> QED
      BY <1>1, <1>6, <2>1, <2>2 DEF MaxInv
  <1>8. MinInv'
    <2> DEFINE t(v) == local[v].counts.total
               t1(v) == local'[v].counts.total
               T == all.counts.total
               T1 == all'.counts.total
               m == all.minLatency
               m1 == all'.minLatency
    <2>0. /\ m1 = IF T = 0 \/ n <= m THEN n ELSE m
          /\ Min1(w) = IF t(w) = 0 \/ n <= Min0(w) THEN n ELSE Min0(w)
          /\ T1 = T + 1 /\ t1(w) = t(w) + 1
          /\ m \in Nat /\ n \in Nat /\ T \in Nat /\ \A v \in Workers : t(v) \in Nat /\ Min0(v) \in Nat
          /\ \A v \in Workers : t(v) > 0 => T > 0 /\ m <= Min0(v)
          /\ \A v \in Workers \ {w} : Min1(v) = Min0(v) /\ t1(v) = t(v)
          /\ T > 0 => \E v \in Workers : t(v) > 0 /\ Min0(v) = m
      BY <1>2, <1>3, <1>4, <1>5, <1>6 DEF MinInv
    <2>1. \A v \in Workers : t1(v) > 0 => T1 > 0 /\ m1 <= Min1(v)
      <3> HIDE DEF Min0, Min1, m, m1, n, t, t1, T, T1
      <3>1. T1 > 0 /\ m1 <= Min1(w)
        BY <2>0
      <3>2. \A v \in Workers \ {w} : t1(v) > 0 => m1 <= Min1(v)
        BY <2>0
      <3> QED
        BY <3>1, <3>2
    <2>2. \E v \in Workers : t1(v) > 0 /\ Min1(v) = m1
      <3> HIDE DEF Min0, Min1, m, m1, n, t, t1, T, T1
      <3>1. CASE T = 0 \/ n <= m
        <4>1. t1(w) > 0 /\ Min1(w) = m1
          BY <2>0, <3>1
        <4> QED
          BY <4>1
      <3>2. CASE ~(T = 0 \/ n <= m)
        <4>1. PICK v \in Workers : t(v) > 0 /\ Min0(v) = m
          BY <2>0, <3>2
        <4>2. t1(v) > 0 /\ Min1(v) = m1
          BY <2>0, <3>2, <4>1
        <4> QED
          BY <4>2
      <3> QED
        BY <3>1, <3>2
    <2> QED
      BY <1>1, <1>6, <2>1, <2>2 DEF MinInv
  <1>9. ProviderInv'
    BY <1>1, <1>4, <1>5, <1>6 DEF ProviderInv
  <1> QED
    BY <1>7, <1>8, <1>9

LEMMA ExtremesMerge ==
    ASSUME TypeInv, EmptyInv, MaxInv, MinInv, ProviderInv, NEW w \in Workers, MergeWorker(w)
    PROVE  MaxInv' /\ MinInv' /\ ProviderInv'
  <1> DEFINE l == local[w]
             s == Sent(l, Windows[w])
             m == MergeSnapshot(master, s)
  <1>1. merged' = merged \cup {w} /\ master' = m /\ local' = local /\ all' = all
    BY DEF MergeWorker, Sent
  <1>2. l \in Collectors /\ master \in Collectors /\ s \in Collectors
    BY SentByWorker DEF TypeInv
  <1>3. /\ s.minLatency = Truncate(l.minLatency) /\ s.maxLatency = Truncate(l.maxLatency)
        /\ s.counts = l.counts /\ s.provider = l.provider
    BY SentByWorker, SentType
  <1>4. /\ l.counts.total \in Nat /\ s.minLatency \in Nat /\ s.maxLatency \in Nat
        /\ master.counts.total \in Nat /\ master.minLatency \in Nat /\ master.maxLatency \in Nat
    BY <1>2, LatencyTypes DEF Collectors
  <1>5. \A v \in merged : /\ local[v].counts.total \in Nat
                          /\ Truncate(local[v].maxLatency) \in Nat
                          /\ Truncate(local[v].minLatency) \in Nat
    BY LatencyTypes, TruncateBounds
  <1> HIDE DEF s, m
  <1>6. CASE s.counts.total = 0
    <2>1. l = NewCollector
      BY <1>3, <1>6 DEF EmptyInv
    <2>2. l.maxLatency = 0 /\ l.counts.total = 0
      BY <1>3, <1>6, <2>1, NewCollectorType
    <2>7. l.provider = ""
      BY <2>1, NewCollectorType
    <2>3. /\ m.counts = master.counts /\ m.minLatency = master.minLatency
          /\ m.maxLatency = master.maxLatency /\ m.provider = master.provider
      BY <1>2, <1>6, MergeEmpty DEF m
    <2>4. MaxInv'
      <3>1. Truncate(local[w].maxLatency) = 0
        BY <2>2, TruncateZero
      <3>2. \A v \in merged' : Truncate(local[v].maxLatency) <= m.maxLatency
        BY <1>1, <1>4, <2>3, <3>1 DEF MaxInv
      <3>3. m.maxLatency = 0 \/ \E v \in merged' : m.maxLatency = Truncate(local[v].maxLatency)
        BY <1>1, <2>3 DEF MaxInv
      <3> QED
        BY <1>1, <3>2, <3>3 DEF MaxInv
    <2>5. MinInv'
      <3>0. ~(local[w].counts.total > 0)
        BY <1>4, <2>2
      <3>1. \A v \in merged' : local[v].counts.total > 0 => v \in merged
        BY <1>1, <3>0
      <3>2. \A v \in merged' : local[v].counts.total > 0 =>
               /\ m.counts.total > 0
               /\ Truncate(local[v].minLatency) > 0 => m.minLatency <= Truncate(local[v].minLatency)
        BY <2>3, <3>1 DEF MinInv
      <3>3. m.counts.total > 0 =>
               \E v \in merged' : /\ local[v].counts.total > 0
                                  /\ m.minLatency = Truncate(local[v].minLatency)
        BY <1>1, <2>3 DEF MinInv
      <3> QED
        BY <1>1, <3>2, <3>3 DEF MinInv
    <2>6. ProviderInv'
      BY <1>1, <2>7, <2>3 DEF ProviderInv
    <2> QED
      BY <2>4, <2>5, <2>6
  <1>7. CASE s.counts.total # 0
    <2>1. /\ m.counts.total = master.counts.total + s.counts.total
          /\ m.minLatency = MergedMin(master, s)
          /\ m.maxLatency = IF master.maxLatency <= s.maxLatency THEN s.maxLatency ELSE master.maxLatency
      BY <1>2, <1>7, MergeRest DEF m
    <2>5. m.provider = "" <=> master.provider = "" /\ s.provider = ""
      BY <1>2, <1>7, MergeRest DEF m
    <2>2. MaxInv'
      <3>0. /\ m.maxLatency \in Nat /\ s.maxLatency <= m.maxLatency /\ master.maxLatency <= m.maxLatency
            /\ m.maxLatency = s.maxLatency \/ m.maxLatency = master.maxLatency
        BY <1>4, <2>1
      <3>1. \A v \in merged' : Truncate(local[v].maxLatency) <= m.maxLatency
        <4>1. Truncate(local[w].maxLatency) <= m.maxLatency
          BY <1>3, <3>0
        <4>2. \A v \in merged : Truncate(local[v].maxLatency) <= m.maxLatency
          BY <1>4, <1>5, <3>0 DEF MaxInv
        <4> QED
          BY <1>1, <4>1, <4>2
      <3>2. m.maxLatency = 0 \/ \E v \in merged' : m.maxLatency = Truncate(local[v].maxLatency)
        BY <1>1, <1>3, <3>0 DEF MaxInv
      <3> QED
        BY <1>1, <3>1, <3>2 DEF MaxInv
    <2>3. MinInv'
      <3>0. l.counts.total > 0 /\ m.counts.total > 0
        BY <1>3, <1>4, <1>7, <2>1
      <3>1. m.minLatency = IF master.counts.total = 0 \/ (s.minLatency > 0 /\ s.minLatency < master.minLatency)
                           THEN s.minLatency ELSE master.minLatency
        BY <2>1 DEF MergedMin
      <3>2. ASSUME NEW v \in merged', local[v].counts.total > 0, Truncate(local[v].minLatency) > 0
            PROVE  m.minLatency <= Truncate(local[v].minLatency)
        <4>1. CASE v = w
          BY <1>3, <1>4, <3>1, <3>2, <4>1
        <4>2. CASE v \in merged
          <5>1. master.counts.total > 0 /\ master.minLatency <= Truncate(local[v].minLatency)
            BY <3>2, <4>2 DEF MinInv
          <5>2. Truncate(local[v].minLatency) \in Nat
            BY <1>5, <4>2
          <5> QED
            BY <1>4, <3>1, <5>1, <5>2
        <4> QED
          BY <1>1, <3>2, <4>1, <4>2
      <3>3. \E v \in merged' : local[v].counts.total > 0 /\ m.minLatency = Truncate(local[v].minLatency)
        <4>1. CASE m.minLatency = s.minLatency
          BY <1>1, <1>3, <3>0, <4>1
        <4>2. CASE m.minLatency # s.minLatency
          <5>1. master.counts.total > 0 /\ m.minLatency = master.minLatency
            BY <1>4, <3>1, <4>2
          <5> QED
            BY <1>1, <5>1 DEF MinInv
        <4> QED
          BY <4>1, <4>2
      <3> QED
        BY <1>1, <3>0, <3>2, <3>3 DEF MinInv
    <2>4. ProviderInv'
      BY <1>1, <1>3, <2>5 DEF ProviderInv
    <2> QED
      BY <2>2, <2>3, <2>4
  <1> QED
    BY <1>6, <1>7

LEMMA ExtremesStep ==
    ASSUME TypeInv, EmptyInv, MaxInv, MinInv, ProviderInv, [Next]_vars
    PROVE  MaxInv' /\ MinInv' /\ ProviderInv'
  <1>1. ASSUME NEW w \in Workers, NEW r \in Results, Collect(w, r)
        PROVE  MaxInv' /\ MinInv' /\ ProviderInv'
    BY <1>1, ExtremesCollect
  <1>2. ASSUME NEW w \in Workers, MergeWorker(w) PROVE MaxInv' /\ MinInv' /\ ProviderInv'
    BY <1>2, ExtremesMerge
  <1>3. ASSUME UNCHANGED <<local, merged>>, all'.counts = all.counts,
               all'.minLatency = all.minLatency, all'.maxLatency = all.maxLatency,
               all'.provider = all.provider, master'.counts = master.counts,
               master'.minLatency = master.minLatency, master'.maxLatency = master.maxLatency,
               master'.provider = master.provider
        PROVE  MaxInv' /\ MinInv' /\ ProviderInv'
    BY <1>3 DEF MaxInv, MinInv, ProviderInv
  <1>4. ASSUME Finalize
        PROVE  /\ all'.counts = all.counts /\ all'.minLatency = all.minLatency
               /\ all'.maxLatency = all.maxLatency /\ all'.provider = all.provider
    BY <1>4 DEF Finalize, SetWindow, TypeInv, Collectors
  <1>5. ASSUME EndRun
        PROVE  /\ master'.counts = master.counts /\ master'.minLatency = master.minLatency
               /\ master'.maxLatency = master.maxLatency /\ master'.provider = master.provider
    BY <1>5 DEF EndRun, SetWindow, TypeInv, Collectors
  <1> QED
    BY <1>1, <1>2, <1>3, <1>4, <1>5 DEF Next, vars, Observe, Scrape, Finalize, EndRun

-----------------------------------------------------------------------------
(* What the exporter shows.                                                *)

\* What the engine has collected and not shown to the exporter yet.
Unshown(k) == IF pending = << >> THEN 0 ELSE Counts(pending[1])[k]

\* The exporter trails the run by the pending result, and a scrape trails the
\* exporter.
TrailInv ==
    /\ \A k \in Counters : all.counts[k] = observed.counts[k] + Unshown(k)
    /\ \A k \in Counters : scraped[k] <= IF final = << >> THEN observed.counts[k] ELSE all.counts[k]

LEMMA TrailTypes ==
    ASSUME TypeInv, NEW k \in Counters
    PROVE  /\ all.counts[k] \in Nat /\ observed.counts[k] \in Nat /\ scraped[k] \in Nat
           /\ Unshown(k) \in Nat
  <1>1. all.counts \in [Counters -> Nat] /\ observed.counts \in [Counters -> Nat]
        /\ scraped \in [Counters -> Nat]
    BY DEF TypeInv, Collectors
  <1>2. Unshown(k) \in Nat
    <2>1. CASE pending = << >>
      BY <2>1 DEF Unshown
    <2>2. CASE pending # << >>
      <3>1. PICK r \in Results : pending = <<r>>
        BY <2>2 DEF TypeInv
      <3>2. pending[1] = r /\ Counts(r)[k] \in Nat
        BY <3>1, ResultType
      <3> QED
        BY <2>2, <3>2 DEF Unshown
    <2> QED
      BY <2>1, <2>2
  <1> QED
    BY <1>1, <1>2

\* What a step does to the figures that the exporter and its readers see.
LEMMA TrailStep ==
    ASSUME TypeInv, TrailInv, [Next]_vars
    PROVE  /\ TrailInv'
           /\ \A k \in Counters : scraped[k] <= scraped'[k] /\ scraped'[k] <= all'.counts[k]
  <1> SUFFICES ASSUME NEW k \in Counters
               PROVE  /\ all'.counts[k] = observed'.counts[k] + Unshown(k)'
                      /\ scraped'[k] <= IF final' = << >> THEN observed'.counts[k] ELSE all'.counts[k]
                      /\ scraped[k] <= scraped'[k] /\ scraped'[k] <= all'.counts[k]
    BY DEF TrailInv, Unshown
  <1> DEFINE a == all.counts[k]
             a1 == all'.counts[k]
             o == observed.counts[k]
             o1 == observed'.counts[k]
             s == scraped[k]
             s1 == scraped'[k]
             u == Unshown(k)
             u1 == Unshown(k)'
  <1>1. /\ a \in Nat /\ o \in Nat /\ s \in Nat /\ u \in Nat
        /\ a = o + u /\ s <= IF final = << >> THEN o ELSE a
    BY TrailTypes DEF TrailInv
  <1>2. s <= a
    <2> HIDE DEF a, o, s, u
    <2> QED
      BY <1>1
  <1>3. ASSUME NEW w \in Workers, NEW r \in Results, Collect(w, r)
        PROVE  /\ a1 = o1 + u1 /\ s1 <= IF final' = << >> THEN o1 ELSE a1
               /\ s <= s1 /\ s1 <= a1
    <2>1. pending = << >> /\ pending' = <<r>> /\ all' = Add(all, r) /\ all \in Collectors
      BY <1>3 DEF Collect, TypeInv
    <2>2. a1 = a + Counts(r)[k] /\ Counts(r)[k] \in Nat
      BY <2>1, AddRest, ResultType
    <2>3. u = 0 /\ u1 = Counts(r)[k]
      BY <2>1 DEF Unshown
    <2>4. o1 = o /\ s1 = s /\ final' = final
      BY <1>3 DEF Collect
    <2> HIDE DEF a, o, s, u, a1, o1, s1, u1
    <2> QED
      BY <1>1, <1>2, <2>2, <2>3, <2>4
  <1>4. ASSUME Observe
        PROVE  /\ a1 = o1 + u1 /\ s1 <= IF final' = << >> THEN o1 ELSE a1
               /\ s <= s1 /\ s1 <= a1
    <2>1. PICK r \in Results : pending = <<r>>
      BY <1>4 DEF Observe, TypeInv
    <2>2. pending # << >> /\ pending[1] = r /\ pending' = << >> /\ observed' = Add(observed, r)
          /\ observed \in Collectors
      BY <1>4, <2>1 DEF Observe, TypeInv
    <2>3. o1 = o + Counts(r)[k] /\ Counts(r)[k] \in Nat
      BY <2>2, AddRest, ResultType
    <2>4. u = Counts(r)[k] /\ u1 = 0
      BY <2>2 DEF Unshown
    <2>5. a1 = a /\ s1 = s /\ final' = final
      BY <1>4 DEF Observe
    <2> HIDE DEF a, o, s, u, a1, o1, s1, u1
    <2> QED
      BY <1>1, <1>2, <2>3, <2>4, <2>5
  <1>5. ASSUME Finalize
        PROVE  /\ a1 = o1 + u1 /\ s1 <= IF final' = << >> THEN o1 ELSE a1
               /\ s <= s1 /\ s1 <= a1
    <2>1. all'.counts = all.counts
      BY <1>5 DEF Finalize, SetWindow, TypeInv, Collectors
    <2>2. a1 = a
      BY <2>1
    <2>3. o1 = o /\ s1 = s /\ u1 = u /\ final' # << >>
      BY <1>5 DEF Finalize, Unshown
    <2> HIDE DEF a, o, s, u, a1, o1, s1, u1
    <2> QED
      BY <1>1, <1>2, <2>2, <2>3
  <1>6. ASSUME Scrape
        PROVE  /\ a1 = o1 + u1 /\ s1 <= IF final' = << >> THEN o1 ELSE a1
               /\ s <= s1 /\ s1 <= a1
    <2>1. s1 = IF final = << >> THEN o ELSE a
      <3>1. CASE final = << >>
        BY <1>6, <3>1 DEF Scrape, Summary
      <3>2. CASE final # << >>
        <4>1. final[1] = Summary(all)
          BY <3>2 DEF TypeInv
        <4>2. Summary(all).counts = all.counts
          BY DEF Summary
        <4> QED
          BY <1>6, <3>2, <4>1, <4>2 DEF Scrape
      <3> QED
        BY <3>1, <3>2
    <2>2. a1 = a /\ o1 = o /\ u1 = u /\ final' = final
      BY <1>6 DEF Scrape, Unshown
    <2> HIDE DEF a, o, s, u, a1, o1, s1, u1
    <2> QED
      BY <1>1, <1>2, <2>1, <2>2
  <1>7. ASSUME a1 = a, o1 = o, s1 = s, u1 = u, final' = final
        PROVE  /\ a1 = o1 + u1 /\ s1 <= IF final' = << >> THEN o1 ELSE a1
               /\ s <= s1 /\ s1 <= a1
    <2> HIDE DEF a, o, s, u, a1, o1, s1, u1
    <2> QED
      BY <1>1, <1>2, <1>7
  <1>8. ASSUME NEW w \in Workers, MergeWorker(w)
        PROVE  a1 = a /\ o1 = o /\ s1 = s /\ u1 = u /\ final' = final
    BY <1>8 DEF MergeWorker, Unshown
  <1>9. ASSUME EndRun \/ UNCHANGED vars
        PROVE  a1 = a /\ o1 = o /\ s1 = s /\ u1 = u /\ final' = final
    BY <1>9 DEF EndRun, vars, Unshown
  <1> QED
    BY <1>3, <1>4, <1>5, <1>6, <1>7, <1>8, <1>9 DEF Next

-----------------------------------------------------------------------------
(* The histogram and the ranks of the latencies.                           *)

\* The samples that a histogram counts up to a bucket are the lowest ones.
Ranks(h, s) ==
    /\ s \in Seq(Nat) /\ Increasing(s)
    /\ \A i \in Buckets :
          /\ Cumulative(h, i) \in 0..Len(s)
          /\ \A k \in 1..Len(s) : k <= Cumulative(h, i) <=> BucketIndex(s[k]) <= i

RankInv == Len(sorted) = all.counts.total /\ Ranks(all.hists.latency, sorted)

LEMMA BucketType ==
    /\ \A b \in Buckets : b \in Nat /\ Bounds[b] \in Nat
    /\ \A x \in Nat : BucketIndex(x) \in Buckets /\ BucketIndex(x) \in Nat
  <1>1. \A b \in Buckets : b \in Nat /\ Bounds[b] \in Nat
    BY BoundsAssumption DEF Buckets
  <1>2. \A x \in Nat : BucketIndex(x) \in Buckets
    BY BucketRange
  <1> QED
    BY <1>1, <1>2

LEMMA BucketIncrease ==
    ASSUME NEW x \in Nat, NEW y \in Nat, x <= y
    PROVE  BucketIndex(x) <= BucketIndex(y)
  <1> DEFINE i == BucketIndex(y)
  <1>1. i \in Buckets /\ i \in Nat /\ Bounds[i] \in Nat
    BY BucketType
  <1>2. i <= i
    BY <1>1
  <1>3. y <= Bounds[i] \/ i = Len(Bounds)
    BY <1>1, <1>2, BucketRange
  <1>4. x <= Bounds[i] \/ i = Len(Bounds)
    <2> HIDE DEF i
    <2> QED
      BY <1>1, <1>3
  <1> HIDE DEF i
  <1>5. BucketIndex(x) <= i
    BY <1>1, <1>4, BucketRange
  <1> QED
    BY <1>5 DEF i

LEMMA RanksRecord ==
    ASSUME NEW h \in Histograms, NEW s, Ranks(h, s), NEW latency \in Nat
    PROVE  /\ Ranks(Record(h, latency), Ranked(s, latency))
           /\ Len(Ranked(s, latency)) = Len(s) + 1
  <1> DEFINE n == Len(s)
             t == Ranked(s, latency)
             B(x) == BucketIndex(x)
             b == BucketIndex(latency)
  <1>1. s \in Seq(Nat) /\ Increasing(s) /\ n \in Nat /\ \A k \in 1..n : s[k] \in Nat
    BY DEF Ranks
  <1>2. PICK p \in 0..n :
              /\ \A i \in 1..p : s[i] <= latency
              /\ \A i \in (p + 1)..n : latency < s[i]
              /\ t \in Seq(Nat)
              /\ Len(t) = n + 1
              /\ \A i \in 1..(n + 1) :
                    t[i] = IF i <= p THEN s[i] ELSE IF i = p + 1 THEN latency ELSE s[i - 1]
    BY <1>1, RankedPlace
  <1> HIDE DEF n, t
  <1>3. Increasing(t)
    <2> SUFFICES ASSUME NEW i \in 1..(n + 1), NEW k \in 1..(n + 1), i <= k
                 PROVE  t[i] <= t[k]
      BY <1>2 DEF Increasing
    <2>1. \A x, y \in 1..n : x <= y => s[x] <= s[y]
      BY <1>1 DEF Increasing, n
    <2>2. CASE k <= p
      <3>1. i \in 1..n /\ k \in 1..n /\ t[i] = s[i] /\ t[k] = s[k]
        BY <1>1, <1>2, <2>2
      <3> QED
        BY <2>1, <3>1
    <2>3. CASE k = p + 1
      <3>1. t[k] = latency
        BY <1>2, <2>3
      <3>2. CASE i = k
        BY <3>1, <3>2
      <3>3. CASE i # k
        <4>1. i \in 1..p /\ t[i] = s[i]
          BY <1>1, <1>2, <2>3, <3>3
        <4> QED
          BY <1>2, <3>1, <4>1
      <3> QED
        BY <3>2, <3>3
    <2>4. CASE k > p + 1
      <3>1. t[k] = s[k - 1] /\ k - 1 \in 1..n /\ k - 1 \in (p + 1)..n
        BY <1>1, <1>2, <2>4
      <3>2. CASE i <= p
        <4>1. i \in 1..n /\ t[i] = s[i] /\ i <= k - 1
          BY <1>1, <1>2, <2>4, <3>2
        <4> QED
          BY <2>1, <3>1, <4>1
      <3>3. CASE i = p + 1
        <4>1. t[i] = latency /\ latency < s[k - 1] /\ s[k - 1] \in Nat
          BY <1>1, <1>2, <3>1, <3>3
        <4> QED
          BY <3>1, <4>1
      <3>4. CASE i > p + 1
        <4>1. t[i] = s[i - 1] /\ i - 1 \in 1..n /\ i - 1 <= k - 1
          BY <1>1, <1>2, <3>4
        <4> QED
          BY <2>1, <3>1, <4>1
      <3> QED
        BY <1>2, <3>2, <3>3, <3>4
    <2> QED
      BY <1>2, <2>2, <2>3, <2>4
  <1>4. ASSUME NEW i \in Buckets
        PROVE  /\ Cumulative(Record(h, latency), i) \in 0..(n + 1)
               /\ \A k \in 1..(n + 1) :
                     k <= Cumulative(Record(h, latency), i) <=> BucketIndex(t[k]) <= i
    <2> DEFINE c == Cumulative(h, i)
               c1 == Cumulative(Record(h, latency), i)
    <2>1. c \in 0..n /\ \A k \in 1..n : k <= c <=> B(s[k]) <= i
      BY DEF Ranks, n
    <2>2. c1 = c + IF b <= i THEN 1 ELSE 0
      BY CumulativeRecord
    <2>3. b \in Nat /\ i \in Nat /\ \A k \in 1..n : B(s[k]) \in Nat
      BY <1>1, BucketType
    <2>4. \A k \in 1..p : B(s[k]) <= b
      BY <1>1, <1>2, BucketIncrease
    <2>5. \A k \in (p + 1)..n : b <= B(s[k])
      BY <1>1, <1>2, BucketIncrease
    <2>6. \A k \in 1..(n + 1) :
             B(t[k]) = IF k <= p THEN B(s[k]) ELSE IF k = p + 1 THEN b ELSE B(s[k - 1])
      BY <1>2
    <2> HIDE DEF c, c1, b, B
    <2>7. CASE b <= i
      <3>1. c1 = c + 1 /\ c1 \in 0..(n + 1)
        BY <1>1, <2>1, <2>2, <2>7
      <3>2. p <= c
        <4>1. CASE p = 0
          BY <2>1, <4>1
        <4>2. CASE p # 0
          <5>1. p \in 1..p /\ p \in 1..n
            BY <1>1, <1>2, <4>2
          <5>2. B(s[p]) <= i
            BY <2>3, <2>4, <2>7, <5>1
          <5> QED
            BY <2>1, <5>1, <5>2
        <4> QED
          BY <4>1, <4>2
      <3>3. ASSUME NEW k \in 1..(n + 1) PROVE k <= c1 <=> B(t[k]) <= i
        <4>1. CASE k <= p
          <5>1. k \in 1..p /\ k \in 1..n
            BY <1>1, <1>2, <4>1
          <5>2. B(t[k]) <= i
            BY <2>3, <2>4, <2>6, <2>7, <4>1, <5>1
          <5>3. k <= c1
            BY <1>1, <1>2, <2>1, <3>1, <3>2, <4>1
          <5> QED
            BY <5>2, <5>3
        <4>2. CASE k = p + 1
          <5>1. B(t[k]) = b
            BY <1>2, <2>6, <4>2
          <5>2. k <= c1
            BY <1>2, <2>1, <3>1, <3>2, <4>2
          <5> QED
            BY <2>7, <5>1, <5>2
        <4>3. CASE k > p + 1
          <5>1. k - 1 \in 1..n /\ B(t[k]) = B(s[k - 1])
            BY <1>1, <1>2, <2>6, <4>3
          <5>2. k <= c1 <=> k - 1 <= c
            BY <2>1, <3>1
          <5> QED
            BY <2>1, <5>1, <5>2
        <4> QED
          BY <1>2, <4>1, <4>2, <4>3
      <3> QED
        BY <3>1, <3>3 DEF c1, B
    <2>8. CASE ~(b <= i)
      <3>1. c1 = c /\ c1 \in 0..(n + 1)
        BY <1>1, <2>1, <2>2, <2>8
      <3>2. c <= p
        <4> SUFFICES ASSUME ~(c <= p) PROVE FALSE
          OBVIOUS
        <4>1. p + 1 \in 1..n /\ p + 1 \in (p + 1)..n /\ p + 1 <= c
          BY <1>1, <1>2, <2>1
        <4>2. B(s[p + 1]) <= i
          BY <2>1, <4>1
        <4> QED
          BY <2>3, <2>5, <2>8, <4>1, <4>2
      <3>3. ASSUME NEW k \in 1..(n + 1) PROVE k <= c1 <=> B(t[k]) <= i
        <4>1. CASE k <= p
          <5>1. k \in 1..n /\ B(t[k]) = B(s[k])
            BY <1>1, <1>2, <2>6, <4>1
          <5> QED
            BY <2>1, <3>1, <5>1
        <4>2. CASE k = p + 1
          <5>1. B(t[k]) = b
            BY <1>2, <2>6, <4>2
          <5>2. ~(k <= c1)
            BY <1>2, <2>1, <3>1, <3>2, <4>2
          <5> QED
            BY <2>8, <5>1, <5>2
        <4>3. CASE k > p + 1
          <5>1. k - 1 \in 1..n /\ B(t[k]) = B(s[k - 1])
            BY <1>1, <1>2, <2>6, <4>3
          <5>2. ~(k <= c1) /\ ~(k - 1 <= c)
            BY <1>2, <2>1, <3>1, <3>2, <4>3
          <5> QED
            BY <2>1, <5>1, <5>2
        <4> QED
          BY <1>2, <4>1, <4>2, <4>3
      <3> QED
        BY <3>1, <3>3 DEF c1, B
    <2> QED
      BY <2>7, <2>8
  <1>5. Ranks(Record(h, latency), t)
    BY <1>2, <1>3, <1>4 DEF Ranks
  <1> QED
    BY <1>2, <1>5 DEF n, t

LEMMA RankStep ==
    ASSUME TypeInv, RankInv, [Next]_vars
    PROVE  RankInv'
  <1>1. ASSUME NEW w \in Workers, NEW r \in Results, Collect(w, r) PROVE RankInv'
    <2>1. /\ all' = Add(all, r) /\ sorted' = Ranked(sorted, r.latency)
          /\ all \in Collectors /\ r.latency \in Nat
      BY <1>1, ResultType DEF Collect, TypeInv
    <2>2. all.hists.latency \in Histograms
      BY <2>1 DEF Collectors, Metrics
    <2>3. Ranks(all.hists.latency, sorted) /\ Len(sorted) = all.counts.total
      BY DEF RankInv
    <2>4. /\ Ranks(Record(all.hists.latency, r.latency), sorted')
          /\ Len(sorted') = Len(sorted) + 1
      BY <2>1, <2>2, <2>3, RanksRecord
    <2>5. /\ all'.hists.latency = Record(all.hists.latency, r.latency)
          /\ all'.counts.total = all.counts.total + 1
      BY <2>1, AddRest
    <2> QED
      BY <2>3, <2>4, <2>5 DEF RankInv
  <1>2. ASSUME UNCHANGED <<all, sorted>> PROVE RankInv'
    BY <1>2 DEF RankInv
  <1>3. ASSUME Finalize PROVE RankInv'
    <2>1. all'.hists = all.hists /\ all'.counts = all.counts /\ sorted' = sorted
      BY <1>3 DEF Finalize, SetWindow, TypeInv, Collectors
    <2> QED
      BY <2>1 DEF RankInv
  <1> QED
    BY <1>1, <1>2, <1>3 DEF Next, vars, MergeWorker, EndRun, Observe, Scrape

-----------------------------------------------------------------------------
(* The inductive invariant.                                                *)

StatsInv ==
    /\ TypeInv /\ WindowInv /\ EmptyInv /\ CountsInv /\ SumsInv
    /\ MaxInv /\ MinInv /\ ProviderInv /\ TrailInv /\ RankInv

LEMMA InitInv ==
    ASSUME Init
    PROVE  StatsInv
  <1> DEFINE new == NewCollector
  <1>1. /\ new \in Collectors /\ \A key \in Keys : Figure(new, key) = 0
        /\ \A k \in Counters : new.counts[k] = 0
        /\ \A k \in SumFields : new.sums[k] = 0
    BY NewCollectorType
  <1>2. /\ local = [w \in Workers |-> new] /\ master = new /\ merged = {} /\ all = new
        /\ sorted = << >> /\ observed = new /\ pending = << >> /\ final = << >>
        /\ scraped = new.counts /\ report = << >>
    BY DEF Init
  <1>3. new.maxLatency = 0 /\ new.minLatency = 0 /\ new.counts.total = 0
    BY <1>1, NewCollectorType DEF Counters
  <1>4. new.provider = "" /\ new.window = <<0, 0>> /\ new.hists.latency = NewHistogram
    BY NewCollectorType
  <1> HIDE DEF new
  <1>5. TypeInv
    <2>1. new.counts \in [Counters -> Nat]
      BY <1>1 DEF Collectors
    <2> QED
      BY <1>1, <1>2, <2>1 DEF TypeInv
  <1>6. WindowInv
    BY <1>2, <1>4 DEF WindowInv
  <1>7. EmptyInv
    BY <1>2 DEF EmptyInv, new
  <1>8. CountsInv
    <2> SUFFICES ASSUME NEW key \in Keys
                 PROVE  Figure(all, key) = Figure(master, key) + SumOf(FigureOf(key), Rest)
      BY DEF CountsInv
    <2>1. \A w \in Rest : FigureOf(key)[w] = 0
      BY <1>1, <1>2 DEF FigureOf, Rest
    <2>2. SumOf(FigureOf(key), Rest) = 0
      BY <2>1, RestFinite, SumZero
    <2> QED
      BY <1>1, <1>2, <2>2
  <1>9. SumsInv
    <2> SUFFICES ASSUME NEW k \in SumFields
                 PROVE  \E lost \in 0..((Micro - 1) * Cardinality(merged)) :
                           all.sums[k] = master.sums[k] + SumOf(SumOfWorker(k), Rest) + lost
      BY DEF SumsInv
    <2>1. \A w \in Rest : SumOfWorker(k)[w] = 0
      BY <1>1, <1>2 DEF SumOfWorker, Rest
    <2>2. SumOf(SumOfWorker(k), Rest) = 0
      BY <2>1, RestFinite, SumZero
    <2>3. Cardinality(merged) = 0
      BY <1>2, FS_EmptySet
    <2>4. 0 \in 0..((Micro - 1) * Cardinality(merged))
      BY <2>3, UnitsAssumption
    <2>5. all.sums[k] = 0 /\ master.sums[k] = 0
      BY <1>1, <1>2
    <2> QED
      BY <2>2, <2>4, <2>5
  <1>10. MaxInv
    BY <1>2, <1>3 DEF MaxInv
  <1>11. MinInv
    BY <1>2, <1>3 DEF MinInv
  <1>12. ProviderInv
    BY <1>2, <1>4 DEF ProviderInv
  <1>13. TrailInv
    BY <1>1, <1>2 DEF TrailInv, Unshown
  <1>14. RankInv
    <2>1. << >> \in Seq(Nat) /\ Len(<< >>) = 0 /\ 1..0 = {}
      OBVIOUS
    <2>2. \A i \in Buckets : Cumulative(NewHistogram, i) = 0
      BY CumulativeNew
    <2>3. Ranks(NewHistogram, << >>)
      BY <2>1, <2>2 DEF Ranks, Increasing
    <2> QED
      BY <1>2, <1>3, <1>4, <2>1, <2>3 DEF RankInv
  <1> QED
    BY <1>5, <1>6, <1>7, <1>8, <1>9, <1>10, <1>11, <1>12, <1>13, <1>14 DEF StatsInv

LEMMA StepInv ==
    ASSUME StatsInv, [Next]_vars
    PROVE  StatsInv'
  <1>1. TypeInv /\ WindowInv /\ EmptyInv /\ CountsInv /\ SumsInv
        /\ MaxInv /\ MinInv /\ ProviderInv /\ TrailInv /\ RankInv
    BY DEF StatsInv
  <1>2. TypeInv' /\ WindowInv'
    BY <1>1, TypeStep, WindowStep
  <1>3. EmptyInv'
    BY <1>1, EmptyStep
  <1>4. CountsInv'
    BY <1>1, CountsStep
  <1>5. SumsInv'
    BY <1>1, SumsStep
  <1>6. MaxInv' /\ MinInv' /\ ProviderInv'
    BY <1>1, ExtremesStep
  <1>7. TrailInv'
    BY <1>1, TrailStep
  <1>8. RankInv'
    BY <1>1, RankStep
  <1> QED
    BY <1>2, <1>3, <1>4, <1>5, <1>6, <1>7, <1>8 DEF StatsInv

\* Every state of a run: what the workers and the master hold adds up to what a
\* single collector of all results holds (collector.go, histogram.go).
THEOREM Invariant == Spec => []StatsInv
  <1>1. Init => StatsInv
    BY InitInv
  <1>2. StatsInv /\ [Next]_vars => StatsInv'
    BY StepInv
  <1> QED
    BY <1>1, <1>2, PTL DEF Spec

-----------------------------------------------------------------------------
(* The theorems.                                                           *)

\* The state in which both runs have reported: every snapshot was merged, and
\* the two collectors agree on every figure.
LEMMA AtTheEnd ==
    ASSUME StatsInv, final # << >>, report # << >>
    PROVE  /\ final[1] = Summary(all) /\ report[1] = Summary(master)
           /\ all \in Collectors /\ master \in Collectors
           /\ all.counts = master.counts /\ all.codes = master.codes /\ all.errors = master.errors
           /\ all.hists = master.hists /\ all.window = master.window
           /\ merged = Workers /\ Rest = {}
  <1>1. TypeInv /\ CountsInv
    BY DEF StatsInv
  <1>2. merged = Workers /\ all \in Collectors /\ master \in Collectors
    BY <1>1 DEF TypeInv
  <1>3. /\ Rest = {} /\ all.window = master.window
        /\ final[1] = Summary(all) /\ report[1] = Summary(master)
    BY <1>1, <1>2 DEF TypeInv, Rest
  <1>4. ASSUME NEW key \in Keys PROVE Figure(all, key) = Figure(master, key)
    <2>1. Figure(all, key) = Figure(master, key) + SumOf(FigureOf(key), Rest)
      BY <1>1 DEF CountsInv
    <2>2. SumOf(FigureOf(key), Rest) = 0
      BY <1>3, SumEmpty
    <2>3. Figure(master, key) \in Nat
      BY <1>2, FigureType
    <2> QED
      BY <2>1, <2>2, <2>3
  <1>5. all.counts = master.counts
    <2>1. ASSUME NEW k \in Counters PROVE all.counts[k] = master.counts[k]
      <3>1. <<"counts", k>> \in Keys
        BY DEF Keys
      <3>2. Figure(all, <<"counts", k>>) = Figure(master, <<"counts", k>>)
        BY <1>4, <3>1
      <3> QED
        BY <3>2 DEF Figure
    <2>2. all.counts \in [Counters -> Nat] /\ master.counts \in [Counters -> Nat]
      BY <1>2 DEF Collectors
    <2> QED
      BY <2>1, <2>2
  <1>6. all.codes = master.codes
    <2>1. ASSUME NEW k \in Codes PROVE all.codes[k] = master.codes[k]
      <3>1. <<"codes", k>> \in Keys
        BY DEF Keys
      <3>2. Figure(all, <<"codes", k>>) = Figure(master, <<"codes", k>>)
        BY <1>4, <3>1
      <3> QED
        BY <3>2 DEF Figure
    <2>2. all.codes \in [Codes -> Nat] /\ master.codes \in [Codes -> Nat]
      BY <1>2 DEF Collectors
    <2> QED
      BY <2>1, <2>2
  <1>7. all.errors = master.errors
    <2>1. ASSUME NEW k \in Categories PROVE all.errors[k] = master.errors[k]
      <3>1. <<"errors", k>> \in Keys
        BY DEF Keys
      <3>2. Figure(all, <<"errors", k>>) = Figure(master, <<"errors", k>>)
        BY <1>4, <3>1
      <3> QED
        BY <3>2 DEF Figure
    <2>2. all.errors \in [Categories -> Nat] /\ master.errors \in [Categories -> Nat]
      BY <1>2 DEF Collectors
    <2> QED
      BY <2>1, <2>2
  <1>8. all.hists = master.hists
    <2>1. ASSUME NEW m \in Metrics, NEW i \in Buckets PROVE all.hists[m][i] = master.hists[m][i]
      <3>1. <<m, i>> \in Keys
        BY DEF Keys
      <3>2. Figure(all, <<m, i>>) = Figure(master, <<m, i>>)
        BY <1>4, <3>1
      <3>3. m # "counts" /\ m # "codes" /\ m # "errors"
        BY DEF Metrics
      <3> QED
        BY <3>2, <3>3 DEF Figure
    <2>2. all.hists \in [Metrics -> Histograms] /\ master.hists \in [Metrics -> Histograms]
      BY <1>2 DEF Collectors
    <2>3. ASSUME NEW m \in Metrics PROVE all.hists[m] = master.hists[m]
      <3>1. all.hists[m] \in Histograms /\ master.hists[m] \in Histograms
        BY <2>2
      <3> QED
        BY <2>1, <3>1 DEF Histograms
    <2> QED
      BY <2>2, <2>3
  <1> QED
    BY <1>2, <1>3, <1>5, <1>6, <1>7, <1>8

\* Merging the workers' snapshots, in whatever order they finish, gives the report
\* of Master.Run every count, percentile, cost, and rate that is not a ratio of
\* durations, of one run of the same time that saw all results, and the live
\* figures the window of the merged workers (Collector.MergeSnapshot, SetWindow,
\* Histogram.MergeCounts): for any workers, bucket layout, results and order.
THEOREM MergeIsExact == Spec => []MergeExact
  <1>1. ASSUME StatsInv, report # << >>, final # << >>
        PROVE  /\ Exact(report[1]) = Exact(final[1])
               /\ report[1].provider = "" <=> final[1].provider = ""
    <2>1. /\ all.counts = master.counts /\ all.codes = master.codes /\ all.errors = master.errors
          /\ all.hists = master.hists /\ all.window = master.window /\ merged = Workers
          /\ final[1] = Summary(all) /\ report[1] = Summary(master)
      BY <1>1, AtTheEnd
    <2> DEFINE Kept == {"counts", "codes", "errors", "window", "errorRate", "requestsPerSecond",
                        "percentiles", "avgTokenRate", "cacheHitRate", "cost"}
    <2>2. \A c : DOMAIN Summary(c) \ (Durations \cup {"provider", "tokensEstimated"}) = Kept
      BY DEF Summary, Durations
    <2>3. \A m \in Metrics : Percentiles(all, m) = Percentiles(master, m)
      BY <2>1 DEF Percentiles
    <2>4. ASSUME NEW k \in Kept PROVE Summary(master)[k] = Summary(all)[k]
      <3>1. /\ Summary(master).counts = Summary(all).counts
            /\ Summary(master).codes = Summary(all).codes
            /\ Summary(master).errors = Summary(all).errors
            /\ Summary(master).window = Summary(all).window
        BY <2>1 DEF Summary
      <3>2. /\ Summary(master).errorRate = Summary(all).errorRate
            /\ Summary(master).requestsPerSecond = Summary(all).requestsPerSecond
        BY <2>1 DEF Summary
      <3>3. /\ Summary(master).avgTokenRate = Summary(all).avgTokenRate
            /\ Summary(master).cacheHitRate = Summary(all).cacheHitRate
            /\ Summary(master).cost = Summary(all).cost
        BY <2>1 DEF Summary
      <3>4. Summary(master).percentiles = Summary(all).percentiles
        BY <2>3 DEF Summary
      <3> QED
        BY <3>1, <3>2, <3>3, <3>4
    <2>5. Exact(Summary(master)) = Exact(Summary(all))
      <3> HIDE DEF Kept
      <3> QED
        BY <2>2, <2>4 DEF Exact
    <2>6. master.provider = "" <=> all.provider = ""
      BY <1>1, <2>1 DEF StatsInv, ProviderInv
    <2>7. Summary(master).provider = master.provider /\ Summary(all).provider = all.provider
      BY DEF Summary
    <2> QED
      BY <2>1, <2>5, <2>6, <2>7
  <1>2. ASSUME StatsInv, merged # {}, report = << >> PROVE master.window = Span(merged)
    BY <1>2, SpanMerged DEF StatsInv
  <1>3. StatsInv => MergeExact
    BY <1>1, <1>2 DEF MergeExact
  <1> QED
    BY <1>3, Invariant, PTL

\* No scrape of the exporter shows less than an earlier one, nor more than has
\* happened, through the change from live figures to the final summary
\* (PrometheusExporter.ServeHTTP, Observe, Finalize).
THEOREM ScrapesOnlyGrow == Spec => ScrapesGrow
  <1>1. ASSUME StatsInv, [Next]_vars
        PROVE  [\A k \in Counters : scraped[k] <= scraped'[k] /\ scraped'[k] <= all'.counts[k]]_vars
    BY <1>1, TrailStep DEF StatsInv
  <1> QED
    BY <1>1, Invariant, PTL DEF Spec, ScrapesGrow

\* The rank of a percentile is that of a sample.
LEMMA TargetRank ==
    ASSUME NEW n \in Nat \ {0}, NEW p \in Percents
    PROVE  Target(n, p) \in 1..n
  <1>1. CASE p = 50
    BY <1>1 DEF Target
  <1>2. CASE p = 90
    BY <1>2 DEF Target
  <1>3. CASE p = 95
    BY <1>3 DEF Target
  <1>4. CASE p = 99
    BY <1>4 DEF Target
  <1> QED
    BY <1>1, <1>2, <1>3, <1>4 DEF Percents

\* The quantile of a histogram is the bound of the bucket that the sample of
\* the rank belongs to.
LEMMA QuantileOfRank ==
    ASSUME NEW h, NEW s, Ranks(h, s), Len(s) > 0, NEW p \in Percents
    PROVE  /\ Target(Len(s), p) \in 1..Len(s)
           /\ Quantile(h, p) = Bounds[BucketIndex(s[Target(Len(s), p)])]
  <1> DEFINE n == Len(s)
             t == Target(n, p)
             b == BucketIndex(s[t])
             S == {i \in Buckets : Cumulative(h, i) >= t}
             last == Len(Bounds)
  <1>1. s \in Seq(Nat) /\ n \in Nat \ {0} /\ \A k \in 1..n : s[k] \in Nat
    BY DEF Ranks
  <1>2. t \in 1..n /\ t \in Nat
    BY <1>1, TargetRank
  <1>3. \A i \in Buckets : /\ Cumulative(h, i) \in 0..n
                           /\ \A k \in 1..n : k <= Cumulative(h, i) <=> BucketIndex(s[k]) <= i
    BY DEF Ranks
  <1>4. last \in Buckets /\ last \in Nat /\ \A i \in Buckets : i <= last
    BY BoundsAssumption DEF Buckets
  <1>5. Total(h) = n
    <2>1. BucketIndex(s[n]) \in Buckets
      BY <1>1, BucketType
    <2>2. n \in 1..n /\ BucketIndex(s[n]) <= last
      BY <1>1, <1>4, <2>1
    <2>3. n <= Cumulative(h, last) /\ Cumulative(h, last) \in 0..n
      BY <1>3, <1>4, <2>2
    <2>4. Cumulative(h, last) = n
      BY <1>1, <2>3
    <2> QED
      BY <2>4 DEF Total
  <1>6. Min(S) = b
    <2>0. s[t] \in Nat
      BY <1>1, <1>2
    <2>1. b \in Buckets /\ b \in Nat
      BY <2>0, BucketType
    <2> HIDE DEF b
    <2>2. \A i \in Buckets : Cumulative(h, i) >= t <=> b <= i
      <3> SUFFICES ASSUME NEW i \in Buckets PROVE Cumulative(h, i) >= t <=> b <= i
        OBVIOUS
      <3>1. t <= Cumulative(h, i) <=> b <= i
        BY <1>2, <1>3 DEF b
      <3>2. Cumulative(h, i) \in Int /\ t \in Int
        BY <1>2, <1>3
      <3> QED
        BY <3>1, <3>2
    <2>3. S \in SUBSET Int
      BY BucketType
    <2>4. b \in S /\ \A y \in S : b <= y
      BY <2>1, <2>2
    <2> HIDE DEF S
    <2> QED
      BY <2>3, <2>4, MinIs
  <1> HIDE DEF t, b
  <1>7. Quantile(h, p) = Bounds[Min({i \in Buckets : Cumulative(h, i) >= Target(Total(h), p)})]
    BY <1>1, <1>5 DEF Quantile
  <1>8. Quantile(h, p) = Bounds[b]
    BY <1>5, <1>6, <1>7 DEF t
  <1> QED
    BY <1>2, <1>8 DEF t, b

\* A percentile of the latencies is the smallest bucket bound that is not below
\* the sample of that rank (Histogram.Quantile), for every bucket layout and
\* every sequence of latencies.
THEOREM PercentilesAreBounds == Spec => []PercentileBounds
  <1>1. ASSUME StatsInv PROVE PercentileBounds
    <2> DEFINE n == all.counts.total
               h == all.hists.latency
    <2> SUFFICES ASSUME NEW p \in Percents, n > 0, sorted[Target(n, p)] <= Bounds[Len(Bounds)]
                 PROVE  /\ sorted[Target(n, p)] <= Quantile(h, p)
                        /\ \A i \in Buckets : sorted[Target(n, p)] <= Bounds[i]
                                                 => Quantile(h, p) <= Bounds[i]
      BY DEF PercentileBounds
    <2>1. Ranks(h, sorted) /\ Len(sorted) = n
      BY <1>1 DEF StatsInv, RankInv
    <2> DEFINE sample == sorted[Target(n, p)]
               b == BucketIndex(sample)
    <2>2. Target(n, p) \in 1..n /\ Quantile(h, p) = Bounds[b]
      BY <2>1, QuantileOfRank
    <2>3. sample \in Nat
      BY <2>1, <2>2 DEF Ranks
    <2> SUFFICES /\ sample <= Bounds[b]
                 /\ \A i \in Buckets : sample <= Bounds[i] => Bounds[b] <= Bounds[i]
      BY <2>2
    <2>4. sample <= Bounds[Len(Bounds)]
      OBVIOUS
    <2> HIDE DEF sample
    <2>5. b \in Buckets /\ b <= b
      BY <2>3, BucketType
    <2>6. \A i \in Buckets : b <= i <=> sample <= Bounds[i] \/ i = Len(Bounds)
      BY <2>3, BucketRange
    <2> HIDE DEF b
    <2>7. sample <= Bounds[b]
      BY <2>4, <2>5, <2>6
    <2>8. ASSUME NEW i \in Buckets, sample <= Bounds[i] PROVE Bounds[b] <= Bounds[i]
      BY <2>5, <2>6, <2>8, BoundsIncrease
    <2> QED
      BY <2>7, <2>8
  <1> QED
    BY <1>1, Invariant, PTL

\* A sum of durations that is short by some gives an average that is short by no
\* more than that.
LEMMA AverageClose ==
    ASSUME NEW sum \in Nat, NEW lost \in Nat, NEW n \in Nat
    PROVE  /\ Average(sum, n) \in Nat /\ Average(sum + lost, n) \in Nat
           /\ Average(sum, n) <= Average(sum + lost, n)
           /\ Average(sum + lost, n) <= Average(sum, n) + lost
  <1>1. CASE n = 0
    BY <1>1 DEF Average
  <1>2. CASE n # 0
    <2> DEFINE q == sum \div n
               Q == (sum + lost) \div n
    <2>1. q \in Nat /\ Q \in Nat
      BY <1>2
    <2>2. n * q <= sum /\ sum < n * (q + 1)
      BY <1>2
    <2>3. n * Q <= sum + lost /\ sum + lost < n * (Q + 1)
      <3> DEFINE total == sum + lost
      <3>1. total \in Nat
        OBVIOUS
      <3> HIDE DEF total
      <3>2. n * (total \div n) <= total /\ total < n * (total \div n + 1)
        BY <1>2, <3>1
      <3> QED
        BY <3>2 DEF total
    <2> HIDE DEF q, Q
    <2>4. q <= Q
      <3> SUFFICES ASSUME Q + 1 <= q PROVE FALSE
        BY <2>1
      <3>1. n * (Q + 1) <= n * q
        BY <2>1
      <3> QED
        BY <2>1, <2>2, <2>3, <3>1
    <2>5. Q <= q + lost
      <3> SUFFICES ASSUME q + lost + 1 <= Q PROVE FALSE
        BY <2>1
      <3>1. n * (q + lost + 1) <= n * Q
        BY <2>1
      <3>2. n * (q + lost + 1) = n * (q + 1) + n * lost
        BY <2>1
      <3>3. lost <= n * lost
        BY <1>2
      <3> QED
        BY <2>1, <2>2, <2>3, <3>1, <3>2, <3>3
    <2>6. Average(sum, n) = q /\ Average(sum + lost, n) = Q
      BY <1>2 DEF Average, q, Q
    <2> QED
      BY <2>1, <2>4, <2>5, <2>6
  <1> QED
    BY <1>1, <1>2

\* What was cut from the sums of the workers is less than a microsecond for
\* each of them.
LEMMA LostIsLess ==
    ASSUME NEW lost \in 0..((Micro - 1) * Cardinality(Workers))
    PROVE  lost \in Nat /\ lost < Micro * Cardinality(Workers)
  <1> DEFINE m == Cardinality(Workers)
  <1>1. m \in Nat /\ m # 0
    BY WorkersAssumption, FS_CardinalityType, FS_EmptySet
  <1>2. Micro \in Nat \ {0}
    BY UnitsAssumption
  <1> HIDE DEF m
  <1>3. (Micro - 1) * m = Micro * m - m /\ Micro * m \in Nat
    BY <1>1, <1>2
  <1>4. lost \in 0..(Micro * m - m)
    BY <1>3 DEF m
  <1> QED
    BY <1>1, <1>3, <1>4 DEF m

LEMMA SumsAtTheEnd ==
    ASSUME StatsInv, final # << >>, report # << >>, NEW k \in SumFields, NEW n \in Nat
    PROVE  /\ Average(master.sums[k], n) <= Average(all.sums[k], n)
           /\ Average(all.sums[k], n) - Average(master.sums[k], n) < Micro * Cardinality(Workers)
  <1>1. merged = Workers /\ Rest = {} /\ master \in Collectors
    BY AtTheEnd
  <1>2. PICK lost \in 0..((Micro - 1) * Cardinality(Workers)) :
            all.sums[k] = master.sums[k] + SumOf(SumOfWorker(k), Rest) + lost
    BY <1>1 DEF StatsInv, SumsInv
  <1>3. SumOf(SumOfWorker(k), Rest) = 0
    BY <1>1, SumEmpty
  <1>4. master.sums[k] \in Nat
    BY <1>1 DEF Collectors
  <1>5. lost \in Nat /\ lost < Micro * Cardinality(Workers)
    BY LostIsLess
  <1>6. all.sums[k] = master.sums[k] + lost
    BY <1>2, <1>3, <1>4, <1>5
  <1> DEFINE A == Average(all.sums[k], n)
             M == Average(master.sums[k], n)
             bound == Micro * Cardinality(Workers)
  <1>7. M \in Nat /\ A \in Nat /\ M <= A /\ A <= M + lost
    BY <1>4, <1>5, <1>6, AverageClose
  <1>8. bound \in Int
    <2>1. Micro \in Int /\ Cardinality(Workers) \in Int
      BY UnitsAssumption, WorkersAssumption, FS_CardinalityType
    <2> QED
      BY <2>1
  <1>9. lost < bound
    BY <1>5
  <1> HIDE DEF A, M, bound
  <1>10. M <= A /\ A - M < bound
    BY <1>5, <1>7, <1>8, <1>9
  <1> QED
    BY <1>10 DEF A, M, bound

\* The durations of the summary survive the merge to the microsecond: the
\* maximum, the minimum unless a request took less than one, and each average
\* to one for each worker (Collector.Snapshot, Collector.MergeSnapshot).
THEOREM MergeIsClose == Spec => []MergeClose
  <1>1. ASSUME StatsInv PROVE MergeClose
    <2> SUFFICES ASSUME final # << >>, report # << >>, all.counts.total > 0
                 PROVE  /\ Summary(master).maxLatency = Truncate(Summary(all).maxLatency)
                        /\ Summary(all).minLatency >= Micro =>
                              Summary(master).minLatency = Truncate(Summary(all).minLatency)
                        /\ \A k \in {"avgLatency", "avgTTFT", "avgUpstream"} :
                              /\ Summary(master)[k] <= Summary(all)[k]
                              /\ Summary(all)[k] - Summary(master)[k] < Micro * Cardinality(Workers)
      BY <1>1, AtTheEnd DEF MergeClose
    <2>1. all.counts = master.counts /\ merged = Workers /\ all \in Collectors
      BY <1>1, AtTheEnd
    <2>2. /\ all.minLatency \in Nat /\ all.maxLatency \in Nat
          /\ master.minLatency \in Nat /\ master.maxLatency \in Nat
          /\ \A w \in Workers : local[w].minLatency \in Nat /\ local[w].maxLatency \in Nat
      BY <1>1, LatencyTypes DEF StatsInv
    <2>3. master.maxLatency = Truncate(all.maxLatency)
      <3>1. /\ \A w \in Workers : local[w].maxLatency <= all.maxLatency
            /\ all.maxLatency = 0 \/ \E w \in Workers : local[w].maxLatency = all.maxLatency
            /\ \A w \in Workers : Truncate(local[w].maxLatency) <= master.maxLatency
            /\ master.maxLatency = 0
               \/ \E w \in Workers : master.maxLatency = Truncate(local[w].maxLatency)
        BY <1>1, <2>1 DEF StatsInv, MaxInv
      <3>2. Truncate(all.maxLatency) \in Nat
        BY <2>2, TruncateBounds
      <3>3. master.maxLatency <= Truncate(all.maxLatency)
        <4>1. CASE master.maxLatency = 0
          BY <3>2, <4>1
        <4>2. ASSUME NEW w \in Workers, master.maxLatency = Truncate(local[w].maxLatency)
              PROVE  master.maxLatency <= Truncate(all.maxLatency)
          <5>1. Truncate(local[w].maxLatency) <= Truncate(all.maxLatency)
            BY <2>2, <3>1, TruncateGrows
          <5> QED
            BY <4>2, <5>1
        <4> QED
          BY <3>1, <4>1, <4>2
      <3>4. Truncate(all.maxLatency) <= master.maxLatency
        <4>1. CASE all.maxLatency = 0
          BY <2>2, <4>1, TruncateZero
        <4>2. ASSUME NEW w \in Workers, local[w].maxLatency = all.maxLatency
              PROVE  Truncate(all.maxLatency) <= master.maxLatency
          BY <3>1, <4>2
        <4> QED
          BY <3>1, <4>1, <4>2
      <3> QED
        BY <2>2, <3>2, <3>3, <3>4
    <2>4. ASSUME Micro <= all.minLatency PROVE master.minLatency = Truncate(all.minLatency)
      <3>1. PICK w \in Workers : /\ local[w].counts.total > 0
                                 /\ master.minLatency = Truncate(local[w].minLatency)
        BY <1>1, <2>1 DEF StatsInv, MinInv
      <3>2. all.minLatency <= local[w].minLatency
        BY <1>1, <3>1 DEF StatsInv, MinInv
      <3>3. Truncate(all.minLatency) <= master.minLatency
        BY <2>2, <3>1, <3>2, TruncateGrows
      <3>4. PICK v \in Workers : local[v].counts.total > 0 /\ local[v].minLatency = all.minLatency
        BY <1>1 DEF StatsInv, MinInv
      <3>5. 0 < Truncate(all.minLatency) /\ Truncate(all.minLatency) \in Nat
        BY <2>2, <2>4, TruncateOne, TruncateBounds
      <3>6. Truncate(local[v].minLatency) > 0
        BY <3>4, <3>5
      <3>7. master.minLatency <= Truncate(local[v].minLatency)
        BY <1>1, <2>1, <3>4, <3>6 DEF StatsInv, MinInv
      <3> QED
        BY <2>2, <3>3, <3>4, <3>5, <3>7
    <2>5. ASSUME NEW c
          PROVE  /\ Summary(c).minLatency = c.minLatency /\ Summary(c).maxLatency = c.maxLatency
                 /\ Summary(c).avgLatency = Average(c.sums["latency"], c.counts["total"])
                 /\ Summary(c).avgTTFT = Average(c.sums["ttft"], c.counts["withTTFT"])
                 /\ Summary(c).avgUpstream = Average(c.sums["upstream"], c.counts["withUpstream"])
      BY DEF Summary
    <2>6. /\ all.counts["total"] \in Nat /\ all.counts["withTTFT"] \in Nat
          /\ all.counts["withUpstream"] \in Nat
      BY <2>1 DEF Collectors, Counters
    <2>7. /\ Summary(master).avgLatency <= Summary(all).avgLatency
          /\ Summary(all).avgLatency - Summary(master).avgLatency < Micro * Cardinality(Workers)
      <3>1. "latency" \in SumFields
        BY DEF SumFields
      <3> QED
        BY <1>1, <2>1, <2>5, <2>6, <3>1, SumsAtTheEnd
    <2>8. /\ Summary(master).avgTTFT <= Summary(all).avgTTFT
          /\ Summary(all).avgTTFT - Summary(master).avgTTFT < Micro * Cardinality(Workers)
      <3>1. "ttft" \in SumFields
        BY DEF SumFields
      <3> QED
        BY <1>1, <2>1, <2>5, <2>6, <3>1, SumsAtTheEnd
    <2>9. /\ Summary(master).avgUpstream <= Summary(all).avgUpstream
          /\ Summary(all).avgUpstream - Summary(master).avgUpstream < Micro * Cardinality(Workers)
      <3>1. "upstream" \in SumFields
        BY DEF SumFields
      <3> QED
        BY <1>1, <2>1, <2>5, <2>6, <3>1, SumsAtTheEnd
    <2>10. Summary(master).maxLatency = Truncate(Summary(all).maxLatency)
      BY <2>3, <2>5
    <2>11. Summary(all).minLatency >= Micro =>
              Summary(master).minLatency = Truncate(Summary(all).minLatency)
      <3>1. all.minLatency >= Micro => Micro <= all.minLatency
        BY <2>2, UnitsAssumption
      <3> QED
        BY <2>4, <2>5, <3>1
    <2> QED
      BY <2>7, <2>8, <2>9, <2>10, <2>11
  <1> QED
    BY <1>1, Invariant, PTL
=============================================================================
