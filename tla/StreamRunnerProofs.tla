------------------------- MODULE StreamRunnerProofs -------------------------
(***************************************************************************)
(* Proofs about StreamRunner, for any headers, any input and any times: a  *)
(* stream is counted once, timed right and ended right.                    *)
(*                                                                         *)
(* Induction is done with sets, and sums are those of parts of a finite    *)
(* set, both as in StatsProofs.                                            *)
(***************************************************************************)
EXTENDS StreamRunner, FiniteSetTheorems, FunctionTheorems, SequenceTheorems, WellFoundedInduction, TLAPS

-----------------------------------------------------------------------------
(* Induction and sums.                                                     *)

\* A set of natural numbers that is not empty has a least member.
LEMMA LeastNumber ==
    ASSUME NEW T \in SUBSET Nat, T # {}
    PROVE  \E n \in T : \A m \in T : n <= m
  <1>1. IsWellFoundedOn(OpToRel(<, Nat), Nat)
    BY NatLessThanWellFounded
  <1>2. PICK n \in T : \A m \in T : <<m, n>> \notin OpToRel(<, Nat)
    BY <1>1, WFMin
  <1>3. \A m \in T : ~(m < n)
    BY <1>2 DEF OpToRel
  <1> QED
    BY <1>3

\* Induction on natural numbers, for a set.
LEMMA NatSet ==
    ASSUME NEW T \in SUBSET Nat, 0 \in T, \A n \in T : n + 1 \in T
    PROVE  T = Nat
  <1> SUFFICES ASSUME Nat \ T # {} PROVE FALSE
    OBVIOUS
  <1>1. PICK n \in Nat \ T : \A m \in Nat \ T : n <= m
    BY LeastNumber
  <1>2. n # 0 /\ n - 1 \in Nat
    BY <1>1
  <1>3. n - 1 \in T
    BY <1>1, <1>2
  <1>4. (n - 1) + 1 \in T
    BY <1>3
  <1> QED
    BY <1>1, <1>4

\* Induction on the subsets of a finite set, for a set of subsets: one that has
\* the empty set, and every subset of which it has a part with one member less,
\* has all of them.
LEMMA SubsetSet ==
    ASSUME NEW S, IsFiniteSet(S), NEW P, {} \in P,
           \A t \in SUBSET S : t # {} /\ (\A x \in t : t \ {x} \in P) => t \in P
    PROVE  SUBSET S \subseteq P
  <1> DEFINE T == {n \in Nat : \A t \in SUBSET S : Cardinality(t) = n => t \in P}
  <1>1. \A t \in SUBSET S : IsFiniteSet(t) /\ Cardinality(t) \in Nat
    BY FS_Subset, FS_CardinalityType
  <1>2. 0 \in T
    BY <1>1, FS_EmptySet
  <1>3. ASSUME NEW n \in T PROVE n + 1 \in T
    <2>1. SUFFICES ASSUME NEW t \in SUBSET S, Cardinality(t) = n + 1 PROVE t \in P
      OBVIOUS
    <2>2. t # {}
      BY <2>1, FS_EmptySet
    <2>3. ASSUME NEW x \in t PROVE t \ {x} \in P
      <3>1. Cardinality(t \ {x}) = n
        BY <1>1, <2>1, FS_RemoveElement
      <3> QED
        BY <3>1
    <2> QED
      BY <2>2, <2>3
  <1>4. T = Nat
    <2> HIDE DEF T
    <2> QED
      BY <1>2, <1>3, NatSet DEF T
  <1> QED
    BY <1>1, <1>4

SumOf(f, S) == MapThenSumSet(LAMBDA x : f[x], S)

\* There is a function that gives every part of a finite set its sum, whichever
\* member is added last, and the fold computes it.
LEMMA PartSums ==
    ASSUME NEW S, IsFiniteSet(S), NEW f, \A x \in S : f[x] \in Nat
    PROVE  \E F \in [SUBSET S -> Nat] :
              /\ F[{}] = 0
              /\ \A t \in SUBSET S : \A x \in t : F[t] = f[x] + F[t \ {x}]
              /\ F[S] = SumOf(f, S)
  <1> DEFINE Adds(F, s) == /\ F \in [SUBSET s -> Nat] /\ F[{}] = 0
                           /\ \A t \in SUBSET s : \A x \in t : F[t] = f[x] + F[t \ {x}]
             P == {s \in SUBSET S : \E F : Adds(F, s)}
  <1>1. {} \in P
    <2>1. Adds([t \in SUBSET {} |-> 0], {})
      OBVIOUS
    <2> QED
      BY <2>1
  <1>2. ASSUME NEW s \in SUBSET S, s # {}, \A x \in s : s \ {x} \in P PROVE s \in P
    <2>1. PICK y \in s : TRUE
      BY <1>2
    <2>2. PICK F : Adds(F, s \ {y})
      BY <1>2
    <2> DEFINE G == [t \in SUBSET s |-> IF y \in t THEN f[y] + F[t \ {y}] ELSE F[t]]
    <2>3. \A t \in SUBSET s :
             /\ t \ {y} \in SUBSET (s \ {y}) /\ F[t \ {y}] \in Nat
             /\ y \notin t => t \in SUBSET (s \ {y}) /\ F[t] \in Nat
      BY <2>2
    <2>4. G \in [SUBSET s -> Nat]
      <3>1. ASSUME NEW t \in SUBSET s PROVE G[t] \in Nat
        <4>1. f[y] \in Nat
          BY <2>1
        <4>2. CASE y \in t
          <5>1. F[t \ {y}] \in Nat
            BY <2>3
          <5>2. G[t] = f[y] + F[t \ {y}]
            BY <4>2
          <5> HIDE DEF G, Adds
          <5> QED
            BY <4>1, <5>1, <5>2
        <4>3. CASE y \notin t
          <5>1. F[t] \in Nat
            BY <2>3, <4>3
          <5> QED
            BY <4>3, <5>1
        <4> QED
          BY <4>2, <4>3
      <3> QED
        BY <3>1
    <2>5. G[{}] = 0
      BY <2>2
    <2>6. ASSUME NEW t \in SUBSET s, NEW x \in t PROVE G[t] = f[x] + G[t \ {x}]
      <3>1. CASE x = y
        BY <3>1, <2>3
      <3>2. CASE x # y /\ y \notin t
        BY <3>2, <2>2
      <3>3. CASE x # y /\ y \in t
        <4>1. G[t] = f[y] + F[t \ {y}] /\ G[t \ {x}] = f[y] + F[(t \ {x}) \ {y}]
          BY <3>3
        <4>2. F[t \ {y}] = f[x] + F[(t \ {y}) \ {x}]
          BY <2>2, <2>3, <3>3
        <4>3. F[(t \ {y}) \ {x}] = F[(t \ {x}) \ {y}]
          <5>1. (t \ {y}) \ {x} = (t \ {x}) \ {y}
            OBVIOUS
          <5> QED
            BY <5>1
        <4>4. f[x] \in Nat /\ f[y] \in Nat /\ F[(t \ {x}) \ {y}] \in Nat
          <5>1. t \ {x} \in SUBSET s /\ x \in S /\ y \in S
            BY <1>2, <2>1
          <5>2. f[x] \in Nat /\ f[y] \in Nat
            BY <5>1
          <5> HIDE DEF G, Adds
          <5>3. F[(t \ {x}) \ {y}] \in Nat
            BY <2>3, <5>1
          <5> QED
            BY <5>2, <5>3
        <4> HIDE DEF G, Adds
        <4> QED
          BY <4>1, <4>2, <4>3, <4>4
      <3> QED
        BY <3>1, <3>2, <3>3
    <2>7. Adds(G, s)
      BY <2>4, <2>5, <2>6
    <2> QED
      BY <2>7
  <1>3. S \in P
    <2>1. \A t \in SUBSET S : t # {} /\ (\A x \in t : t \ {x} \in P) => t \in P
      BY <1>2
    <2> HIDE DEF P
    <2> QED
      BY <1>1, <2>1, SubsetSet
  <1>4. PICK F : Adds(F, S)
    BY <1>3
  <1> DEFINE Step(g) == [t \in SUBSET S |-> IF t = {} THEN 0
                                            ELSE f[CHOOSE x \in t : TRUE] + g[t \ {CHOOSE x \in t : TRUE}]]
             iter == CHOOSE g : g = Step(g)
  <1>5. F = Step(F)
    <2>1. ASSUME NEW t \in SUBSET S PROVE F[t] = Step(F)[t]
      <3>1. CASE t = {}
        BY <1>4, <3>1
      <3>2. CASE t # {}
        <4>1. (CHOOSE x \in t : TRUE) \in t
          BY <3>2
        <4> QED
          BY <1>4, <3>2, <4>1
      <3> QED
        BY <3>1, <3>2
    <2>2. DOMAIN F = SUBSET S /\ F = [t \in SUBSET S |-> F[t]]
      BY <1>4
    <2> QED
      BY <2>1, <2>2
  <1>6. iter = Step(iter)
    <2> HIDE DEF Step
    <2> QED
      BY <1>5
  <1> DEFINE Q == {t \in SUBSET S : iter[t] = F[t]}
  <1>7. {} \in Q
    <2>1. iter[{}] = Step(iter)[{}]
      BY <1>6
    <2>2. Step(iter)[{}] = 0
      <3> HIDE DEF iter
      <3> QED
        OBVIOUS
    <2> QED
      BY <1>4, <2>1, <2>2
  <1>8. ASSUME NEW t \in SUBSET S, t # {}, \A x \in t : t \ {x} \in Q PROVE t \in Q
    <2> DEFINE x == CHOOSE y \in t : TRUE
    <2>1. x \in t
      BY <1>8
    <2>2. iter[t \ {x}] = F[t \ {x}]
      BY <1>8, <2>1
    <2>3. iter[t] = Step(iter)[t]
      BY <1>6
    <2>4. Step(iter)[t] = f[x] + iter[t \ {x}]
      <3> HIDE DEF iter
      <3> QED
        BY <1>8
    <2>5. F[t] = f[x] + F[t \ {x}]
      BY <1>4, <2>1
    <2> QED
      BY <2>2, <2>3, <2>4, <2>5
  <1>9. S \in Q
    <2> HIDE DEF Q
    <2> QED
      BY <1>7, <1>8, SubsetSet
  <1>10. SumOf(f, S) = iter[S]
    BY DEF SumOf, MapThenSumSet, MapThenFoldSet
  <1> QED
    BY <1>4, <1>9, <1>10

\* The sum over nothing.
LEMMA SumEmpty ==
    ASSUME NEW f
    PROVE  SumOf(f, {}) = 0
  <1>1. \E F \in [SUBSET {} -> Nat] : F[{}] = 0 /\ F[{}] = SumOf(f, {})
    BY FS_EmptySet, PartSums
  <1> QED
    BY <1>1

\* A sum depends on the values over the set only.
LEMMA SumSame ==
    ASSUME NEW S, IsFiniteSet(S), NEW f, NEW g, \A x \in S : f[x] \in Nat /\ g[x] = f[x]
    PROVE  SumOf(f, S) = SumOf(g, S)
  <1>1. PICK F \in [SUBSET S -> Nat] :
            /\ F[{}] = 0 /\ \A t \in SUBSET S : \A x \in t : F[t] = f[x] + F[t \ {x}]
            /\ F[S] = SumOf(f, S)
    BY PartSums
  <1>2. PICK G \in [SUBSET S -> Nat] :
            /\ G[{}] = 0 /\ \A t \in SUBSET S : \A x \in t : G[t] = g[x] + G[t \ {x}]
            /\ G[S] = SumOf(g, S)
    BY PartSums
  <1> DEFINE P == {t \in SUBSET S : F[t] = G[t]}
  <1>3. {} \in P
    BY <1>1, <1>2
  <1>4. ASSUME NEW t \in SUBSET S, t # {}, \A x \in t : t \ {x} \in P PROVE t \in P
    <2>1. PICK x \in t : t \ {x} \in P
      BY <1>4
    <2>2. F[t] = f[x] + F[t \ {x}] /\ G[t] = g[x] + G[t \ {x}]
      BY <1>1, <1>2
    <2> QED
      BY <2>1, <2>2
  <1>5. S \in P
    <2> HIDE DEF P
    <2> QED
      BY <1>3, <1>4, SubsetSet
  <1> QED
    BY <1>1, <1>2, <1>5

\* One member taken out.
LEMMA SumRemove ==
    ASSUME NEW S, IsFiniteSet(S), NEW f, \A x \in S : f[x] \in Nat, NEW x \in S
    PROVE  /\ SumOf(f, S) = f[x] + SumOf(f, S \ {x})
           /\ SumOf(f, S \ {x}) \in Nat
  <1> DEFINE R == S \ {x}
  <1>1. PICK F \in [SUBSET S -> Nat] :
            /\ F[{}] = 0 /\ \A t \in SUBSET S : \A y \in t : F[t] = f[y] + F[t \ {y}]
            /\ F[S] = SumOf(f, S)
    BY PartSums
  <1>2. IsFiniteSet(R)
    BY FS_Subset
  <1>3. PICK G \in [SUBSET R -> Nat] :
            /\ G[{}] = 0 /\ \A t \in SUBSET R : \A y \in t : G[t] = f[y] + G[t \ {y}]
            /\ G[R] = SumOf(f, R)
    BY <1>2, PartSums
  <1> DEFINE P == {t \in SUBSET R : F[t] = G[t]}
  <1>4. {} \in P
    BY <1>1, <1>3
  <1>5. \A t \in SUBSET R : t # {} /\ (\A y \in t : t \ {y} \in P) => t \in P
    <2>1. SUFFICES ASSUME NEW t \in SUBSET R, t # {}, \A y \in t : t \ {y} \in P PROVE t \in P
      OBVIOUS
    <2>2. PICK y \in t : t \ {y} \in P
      BY <2>1
    <2>3. F[t] = f[y] + F[t \ {y}]
      BY <1>1
    <2>4. G[t] = f[y] + G[t \ {y}]
      BY <1>3
    <2> QED
      BY <2>2, <2>3, <2>4
  <1>6. R \in P
    <2> HIDE DEF P, R
    <2> QED
      BY <1>2, <1>4, <1>5, SubsetSet
  <1>7. F[S] = f[x] + F[R] /\ F[R] = G[R] /\ G[R] \in Nat
    BY <1>1, <1>3, <1>6
  <1> QED
    BY <1>1, <1>3, <1>7

\* A sum of natural numbers is one.
LEMMA SumType ==
    ASSUME NEW S, IsFiniteSet(S), NEW f, \A x \in S : f[x] \in Nat
    PROVE  SumOf(f, S) \in Nat
  <1>1. PICK F \in [SUBSET S -> Nat] :
            /\ F[{}] = 0 /\ \A t \in SUBSET S : \A x \in t : F[t] = f[x] + F[t \ {x}]
            /\ F[S] = SumOf(f, S)
    BY PartSums
  <1> QED
    BY <1>1

\* One member more.
LEMMA SumAdd ==
    ASSUME NEW S, IsFiniteSet(S), NEW x, x \notin S, NEW f, NEW g,
           \A y \in S : f[y] \in Nat /\ g[y] = f[y], g[x] \in Nat
    PROVE  SumOf(g, S \cup {x}) = SumOf(f, S) + g[x]
  <1> DEFINE T == S \cup {x}
  <1>1. IsFiniteSet(T) /\ x \in T /\ T \ {x} = S /\ \A y \in T : g[y] \in Nat
    BY FS_AddElement
  <1>2. SumOf(g, T) = g[x] + SumOf(g, T \ {x}) /\ SumOf(g, T \ {x}) \in Nat
    <2> HIDE DEF T
    <2> QED
      BY <1>1, SumRemove
  <1>3. SumOf(f, S) = SumOf(g, S)
    BY SumSame
  <1> QED
    BY <1>1, <1>2, <1>3

Total(s) == FoldSeq(+, 0, s)

\* The total of a sequence of numbers that grows.
LEMMA FoldAppend ==
    ASSUME NEW s \in Seq(Nat), NEW d \in Nat
    PROVE  /\ Total(s) \in Nat
           /\ Total(Append(s, d)) = Total(s) + d
  <1> DEFINE t == Append(s, d)
             n == Len(s)
  <1>1. /\ n \in Nat /\ DOMAIN s = 1..n /\ DOMAIN t = (1..n) \cup {n + 1} /\ t[n + 1] = d
        /\ n + 1 \notin 1..n /\ \A i \in 1..n : s[i] \in Nat /\ t[i] = s[i]
    OBVIOUS
  <1>2. IsFiniteSet(1..n)
    BY <1>1, FS_Interval
  <1>3. /\ Total(s) = SumOf(s, DOMAIN s)
        /\ Total(t) = SumOf(t, DOMAIN t)
    BY DEF Total, SumOf, FoldSeq, FoldFunction, FoldFunctionOnSet, MapThenSumSet
  <1> HIDE DEF t, n
  <1>4. SumOf(t, (1..n) \cup {n + 1}) = SumOf(s, 1..n) + t[n + 1]
    BY <1>1, <1>2, SumAdd
  <1>5. SumOf(s, 1..n) \in Nat
    BY <1>1, <1>2, SumType
  <1> QED
    BY <1>1, <1>3, <1>4, <1>5 DEF t

LEMMA FoldNothing == Total(<< >>) = 0
  <1>1. DOMAIN << >> = {}
    OBVIOUS
  <1>2. Total(<< >>) = SumOf(<< >>, DOMAIN << >>)
    BY DEF Total, SumOf, FoldSeq, FoldFunction, FoldFunctionOnSet, MapThenSumSet
  <1> QED
    BY <1>1, <1>2, SumEmpty

-----------------------------------------------------------------------------
(* Events.                                                                 *)

\* The events of n lines if those in B are blank, which may be one more: the end
\* of the input counts as a blank line if it completes an event.
EventsOf(n, B) ==
    {e \in (1..n) \X (1..n) :
        /\ e[1] <= e[2]
        /\ \A i \in e[1]..e[2] : i \notin B
        /\ e[1] > 1 => e[1] - 1 \in B
        /\ e[2] + 1 \in B}

\* The last m lines are those of an event that is not complete.
Open(n, B, m) ==
    /\ m \in 0..n
    /\ \A i \in (n - m + 1)..n : i \notin B
    /\ m < n => n - m \in B

\* Where an event begins and ends.
IsEvent(n, B, a, b) ==
    /\ a \in 1..n /\ b \in 1..n /\ a <= b
    /\ \A i \in a..b : i \notin B
    /\ a > 1 => a - 1 \in B
    /\ b + 1 \in B

LEMMA EventIs ==
    ASSUME NEW n \in Nat, NEW B
    PROVE  /\ \A a, b \in Nat : <<a, b>> \in EventsOf(n, B) <=> IsEvent(n, B, a, b)
           /\ \A e \in EventsOf(n, B) :
                 e = <<e[1], e[2]>> /\ e[1] \in Nat /\ e[2] \in Nat
  <1>1. ASSUME NEW a \in Nat, NEW b \in Nat, <<a, b>> \in EventsOf(n, B)
        PROVE  IsEvent(n, B, a, b)
    BY <1>1 DEF EventsOf, IsEvent
  <1>2. ASSUME NEW a \in Nat, NEW b \in Nat, IsEvent(n, B, a, b)
        PROVE  <<a, b>> \in EventsOf(n, B)
    BY <1>2 DEF EventsOf, IsEvent
  <1>3. ASSUME NEW e \in EventsOf(n, B)
        PROVE  e = <<e[1], e[2]>> /\ e[1] \in Nat /\ e[2] \in Nat
    <2>1. e \in (1..n) \X (1..n)
      BY DEF EventsOf
    <2> QED
      BY <2>1
  <1> QED
    BY <1>1, <1>2, <1>3

\* There are finitely many.
LEMMA EventsFinite ==
    ASSUME NEW n \in Nat, NEW B
    PROVE  IsFiniteSet(EventsOf(n, B))
  <1>1. IsFiniteSet((1..n) \X (1..n))
    <2>1. IsFiniteSet(1..n)
      BY FS_Interval
    <2> QED
      BY <2>1, FS_Product
  <1>2. EventsOf(n, B) \subseteq (1..n) \X (1..n)
    BY DEF EventsOf
  <1> QED
    BY <1>1, <1>2, FS_Subset

\* A line ends no event by being read: what a blank line completes, the end of the
\* input would have completed.
LEMMA LineRead ==
    ASSUME NEW n \in Nat, NEW B \in SUBSET (1..(n + 1))
    PROVE  EventsOf(n + 1, B) = EventsOf(n, B)
  <1>1. ASSUME NEW e \in EventsOf(n + 1, B) PROVE e \in EventsOf(n, B)
    <2>1. e = <<e[1], e[2]>> /\ e[1] \in Nat /\ e[2] \in Nat
      BY EventIs
    <2>2. IsEvent(n + 1, B, e[1], e[2])
      BY <2>1, EventIs
    <2>3. e[2] + 1 \in 1..(n + 1)
      BY <2>2 DEF IsEvent
    <2>4. IsEvent(n, B, e[1], e[2])
      BY <2>1, <2>2, <2>3 DEF IsEvent
    <2> QED
      BY <2>1, <2>4, EventIs
  <1>2. ASSUME NEW e \in EventsOf(n, B) PROVE e \in EventsOf(n + 1, B)
    <2>1. e = <<e[1], e[2]>> /\ e[1] \in Nat /\ e[2] \in Nat
      BY EventIs
    <2>2. IsEvent(n, B, e[1], e[2])
      BY <2>1, EventIs
    <2>3. IsEvent(n + 1, B, e[1], e[2])
      BY <2>1, <2>2 DEF IsEvent
    <2> QED
      BY <2>1, <2>3, EventIs
  <1> QED
    BY <1>1, <1>2

\* The end of the input, or a blank line, completes the open lines, if there are any.
LEMMA LinesComplete ==
    ASSUME NEW n \in Nat, NEW B \in SUBSET (1..n), NEW m, Open(n, B, m)
    PROVE  /\ m = 0 => EventsOf(n, B \cup {n + 1}) = EventsOf(n, B)
           /\ m > 0 => /\ EventsOf(n, B \cup {n + 1}) = EventsOf(n, B) \cup {<<n - m + 1, n>>}
                       /\ <<n - m + 1, n>> \notin EventsOf(n, B)
  <1>1. m \in 0..n /\ (m < n => n - m \in B) /\ \A i \in (n - m + 1)..n : i \notin B
    BY DEF Open
  <1> DEFINE k == n - m + 1
             C == B \cup {n + 1}
  <1>2. k \in Nat /\ k >= 1 /\ (m > 0 => k <= n) /\ (m = 0 => k = n + 1) /\ m \in Nat
    BY <1>1
  <1>3. k > 1 => k - 1 \in B
    BY <1>1
  <1>4. \A i \in k..n : i \notin B
    BY <1>1
  <1>5. n + 1 \in C /\ n + 1 \notin B /\ \A i \in 1..n : i \in C <=> i \in B
    OBVIOUS
  <1> HIDE DEF k, C
  <1>6. ASSUME NEW a \in Nat, NEW b \in Nat, IsEvent(n, B, a, b)
        PROVE  IsEvent(n, C, a, b) /\ b # n
    <2>1. /\ a \in 1..n /\ b \in 1..n /\ a <= b
          /\ \A i \in a..b : i \notin B
          /\ a > 1 => a - 1 \in B
          /\ b + 1 \in B
      BY <1>6 DEF IsEvent
    <2>2. b # n
      BY <1>5, <2>1
    <2>3. \A i \in a..b : i \notin C
      BY <1>5, <2>1
    <2>4. a > 1 => a - 1 \in C
      BY <1>5, <2>1
    <2>5. b + 1 \in 1..n
      BY <2>1, <2>2
    <2>6. b + 1 \in C
      BY <1>5, <2>1, <2>5
    <2> QED
      BY <2>1, <2>2, <2>3, <2>4, <2>6 DEF IsEvent
  <1>7. ASSUME NEW a \in Nat, NEW b \in Nat, IsEvent(n, C, a, b)
        PROVE  IsEvent(n, B, a, b) \/ (m > 0 /\ a = k /\ b = n)
    <2>1. /\ a \in 1..n /\ b \in 1..n /\ a <= b
          /\ \A i \in a..b : i \notin C
          /\ a > 1 => a - 1 \in C
          /\ b + 1 \in C
      BY <1>7 DEF IsEvent
    <2>2. (\A i \in a..b : i \notin B) /\ (a > 1 => a - 1 \in B)
      BY <1>5, <2>1
    <2>3. CASE b < n
      <3>1. b + 1 \in 1..n
        BY <2>1, <2>3
      <3>2. b + 1 \in B
        BY <1>5, <2>1, <3>1
      <3> QED
        BY <2>1, <2>2, <3>2 DEF IsEvent
    <2>4. CASE b = n
      <3>1. ~(a < k)
        <4>1. SUFFICES ASSUME a < k PROVE FALSE
          OBVIOUS
        <4>2. k > 1 /\ k - 1 \in a..n
          BY <1>2, <2>1, <4>1
        <4> QED
          BY <1>3, <2>2, <2>4, <4>2
      <3>2. ~(a > k)
        <4>1. SUFFICES ASSUME a > k PROVE FALSE
          OBVIOUS
        <4>2. a > 1 /\ a - 1 \in k..n
          BY <1>2, <2>1, <4>1
        <4> QED
          BY <1>4, <2>2, <4>2
      <3>3. a = k
        BY <1>2, <3>1, <3>2
      <3>4. m > 0
        BY <1>2, <2>1, <3>3
      <3> QED
        BY <2>4, <3>3, <3>4
    <2>5. b < n \/ b = n
      BY <2>1
    <2> QED
      BY <2>3, <2>4, <2>5
  <1>8. ASSUME m > 0 PROVE IsEvent(n, C, k, n)
    <2>1. k \in 1..n /\ n \in 1..n /\ k <= n
      BY <1>2, <1>8
    <2>2. \A i \in k..n : i \notin C
      BY <1>4, <1>5, <2>1
    <2>3. k > 1 => k - 1 \in C
      BY <1>3, <1>5, <2>1
    <2> QED
      BY <2>1, <2>2, <2>3, <1>5 DEF IsEvent
  <1>9. ASSUME NEW e \in EventsOf(n, B) PROVE e \in EventsOf(n, C)
    <2>1. e = <<e[1], e[2]>> /\ e[1] \in Nat /\ e[2] \in Nat
      BY EventIs
    <2>2. IsEvent(n, B, e[1], e[2])
      BY <2>1, EventIs
    <2>3. IsEvent(n, C, e[1], e[2])
      BY <1>6, <2>1, <2>2
    <2> QED
      BY <2>1, <2>3, EventIs
  <1>10. ASSUME NEW e \in EventsOf(n, C)
         PROVE  e \in EventsOf(n, B) \/ (m > 0 /\ e = <<k, n>>)
    <2>1. e = <<e[1], e[2]>> /\ e[1] \in Nat /\ e[2] \in Nat
      BY EventIs
    <2>2. IsEvent(n, C, e[1], e[2])
      BY <2>1, EventIs
    <2>3. CASE IsEvent(n, B, e[1], e[2])
      <3>1. <<e[1], e[2]>> \in EventsOf(n, B)
        BY <2>1, <2>3, EventIs
      <3> QED
        BY <2>1, <3>1
    <2>4. CASE m > 0 /\ e[1] = k /\ e[2] = n
      BY <2>1, <2>4
    <2> QED
      BY <1>7, <2>1, <2>2, <2>3, <2>4
  <1>11. ASSUME m = 0 PROVE EventsOf(n, C) = EventsOf(n, B)
    <2>1. ~(m > 0)
      BY <1>11
    <2> QED
      BY <1>9, <1>10, <2>1
  <1>12. ASSUME m > 0
         PROVE  /\ EventsOf(n, C) = EventsOf(n, B) \cup {<<k, n>>}
                /\ <<k, n>> \notin EventsOf(n, B)
    <2>1. <<k, n>> \in EventsOf(n, C)
      BY <1>2, <1>8, <1>12, EventIs
    <2>2. <<k, n>> \notin EventsOf(n, B)
      BY <1>2, <1>6, EventIs
    <2> QED
      BY <1>9, <1>10, <2>1, <2>2
  <1> QED
    BY <1>11, <1>12 DEF k, C

-----------------------------------------------------------------------------
(* What events say.                                                        *)

Chunks == [words : Nat, tokens : Nat, done : BOOLEAN]

\* The lines an event is made of.
EventLines == Payloads \cup {"other"}

LEMMA ChunkType ==
    /\ Payloads = {"done", "text", "phrase", "usage", "last"}
    /\ \A p \in Payloads : Chunk[p] \in Chunks /\ Spaces[p] \in Nat
    /\ Chunk.done = [words |-> 0, tokens |-> 0, done |-> TRUE]
    /\ Chunk["done"] = Chunk.done
    /\ NoChunk \in Chunks
  <1>1. Payloads = {"done", "text", "phrase", "usage", "last"}
    BY DEF Payloads, Chunk
  <1>2. /\ Chunk["done"] = [words |-> 0, tokens |-> 0, done |-> TRUE]
        /\ Chunk["text"] = [words |-> 1, tokens |-> 0, done |-> FALSE]
        /\ Chunk["phrase"] = [words |-> 2, tokens |-> 0, done |-> FALSE]
        /\ Chunk["usage"] = [words |-> 0, tokens |-> 2, done |-> FALSE]
        /\ Chunk["last"] = [words |-> 1, tokens |-> 1, done |-> TRUE]
    BY DEF Chunk
  <1>3. Chunk.done = Chunk["done"]
    OBVIOUS
  <1>4. NoChunk \in Chunks
    BY DEF NoChunk, Chunks
  <1>5. \A p \in Payloads : Chunk[p] \in Chunks
    <2>1. /\ Chunk["done"] \in Chunks /\ Chunk["text"] \in Chunks /\ Chunk["phrase"] \in Chunks
          /\ Chunk["usage"] \in Chunks /\ Chunk["last"] \in Chunks
      BY <1>2 DEF Chunks
    <2> QED
      BY <1>1, <2>1
  <1>6. \A p \in Payloads : Spaces[p] \in Nat
    BY <1>1 DEF Spaces
  <1> QED
    BY <1>1, <1>2, <1>3, <1>4, <1>5, <1>6

\* Joined payloads are a text.
LEMMA JoinedType ==
    ASSUME NEW s \in Seq(EventLines)
    PROVE  /\ Joined(s) \in Chunks
           /\ Joined(s) = [words |-> Joined(s).words, tokens |-> 0, done |-> FALSE]
  <1> DEFINE at == DataLines(s)
             spaces == [i \in at |-> Spaces[s[i]]]
             sum == SumOf(spaces, at)
  <1>1. IsFiniteSet(at)
    BY FS_Interval, FS_Subset DEF DataLines
  <1>2. \A i \in at : s[i] \in Payloads
    BY DEF DataLines, EventLines
  <1>3. \A i \in at : spaces[i] \in Nat
    BY <1>2, ChunkType
  <1>4. Joined(s) = [words |-> 1 + sum, tokens |-> 0, done |-> FALSE]
    BY DEF Joined, SumOf
  <1> HIDE DEF at, spaces
  <1>5. sum \in Nat
    BY <1>1, <1>3, SumType
  <1> HIDE DEF sum
  <1> QED
    BY <1>4, <1>5 DEF Chunks

\* The loop takes from an event what its lines say together.
LEMMA SaysChunk ==
    ASSUME NEW s \in Seq(EventLines)
    PROVE  Says(s) = EventChunk(s) /\ Says(s) \in Chunks
  <1> DEFINE at     == {n \in 1..Len(s) : s[n] # "other"}
             marked == \E n \in at : s[n] = "done"
             alone  == {Chunk[s[n]] : n \in {m \in at : at = {m}}}
             one    == CHOOSE c \in alone : TRUE
             words  == CASE marked \/ at = {} -> 0
                         [] ~marked /\ alone # {} -> one.words
                         [] OTHER -> Joined(s).words
  <1>1. DataLines(s) = at
    BY DEF DataLines
  <1>2. Says(s) = [words  |-> words,
                   tokens |-> IF alone = {} THEN 0 ELSE one.tokens,
                   done   |-> marked \/ \E c \in alone : c.done]
    BY DEF Says
  <1>3. EventChunk(s) = IF marked THEN Chunk.done
                        ELSE IF at = {} THEN NoChunk
                        ELSE IF at = {CHOOSE n \in at : TRUE} THEN Chunk[s[CHOOSE n \in at : TRUE]]
                        ELSE Joined(s)
    BY <1>1 DEF EventChunk
  <1>4. \A n \in at : s[n] \in Payloads
    BY DEF EventLines
  <1>5. (~\E m \in at : at = {m}) => alone = {}
    OBVIOUS
  <1>6. ASSUME NEW m \in at, at = {m} PROVE alone = {Chunk[s[m]]} /\ one = Chunk[s[m]]
    <2>1. {k \in at : at = {k}} = {m}
      BY <1>6
    <2>2. alone = {Chunk[s[m]]}
      BY <2>1
    <2> HIDE DEF alone
    <2>3. (CHOOSE c \in alone : TRUE) = Chunk[s[m]]
      BY <2>2
    <2> QED
      BY <2>2, <2>3
  <1>7. /\ marked \/ at = {} => words = 0
        /\ ~marked /\ at # {} /\ alone # {} => words = one.words
        /\ ~marked /\ at # {} /\ alone = {} => words = Joined(s).words
    <2> DEFINE silent == marked \/ at = {}
               single == ~marked /\ alone # {}
               look   == Joined(s).words
               many   == one.words
    <2>1. words = CASE silent -> 0 [] single -> many [] OTHER -> look
      OBVIOUS
    <2>2. (marked \/ at = {} <=> silent) /\ (~marked /\ alone # {} <=> single)
      OBVIOUS
    <2> HIDE DEF silent, single, look, many, words
    <2>3. silent /\ ~single => words = 0
      BY <2>1
    <2>4. single /\ ~silent => words = many
      BY <2>1
    <2>5. ~single /\ ~silent => words = look
      BY <2>1
    <2>6. silent => ~single
      BY DEF silent, single
    <2> QED
      BY <2>2, <2>3, <2>4, <2>5, <2>6 DEF look, many
  <1> HIDE DEF at, alone, one, words
  <1>8. CASE marked
    <2>1. at # {} /\ EventChunk(s) = [words |-> 0, tokens |-> 0, done |-> TRUE]
      BY <1>3, <1>8, ChunkType
    <2>2. (IF alone = {} THEN 0 ELSE one.tokens) = 0
      <3>1. CASE \E m \in at : at = {m}
        <4>1. PICK m \in at : at = {m}
          BY <3>1
        <4>2. s[m] = "done"
          BY <1>8, <4>1
        <4>3. one.tokens = 0
          BY <1>6, <4>1, <4>2, ChunkType
        <4> QED
          BY <4>3
      <3> QED
        BY <1>5, <3>1
    <2>3. Says(s) = [words |-> 0, tokens |-> 0, done |-> TRUE]
      BY <1>2, <1>7, <1>8, <2>2
    <2> QED
      BY <2>1, <2>3 DEF Chunks
  <1>9. CASE ~marked /\ at = {}
    <2>1. alone = {}
      BY <1>5, <1>9
    <2>2. (marked \/ \E c \in alone : c.done) = FALSE
      BY <1>9, <2>1
    <2>3. Says(s) = NoChunk
      BY <1>2, <1>7, <1>9, <2>1, <2>2 DEF NoChunk
    <2> QED
      BY <1>3, <1>9, <2>3, ChunkType
  <1>10. CASE ~marked /\ \E m \in at : at = {m}
    <2>1. PICK m \in at : at = {m}
      BY <1>10
    <2>2. alone = {Chunk[s[m]]} /\ one = Chunk[s[m]]
      BY <1>6, <2>1
    <2>3. (CHOOSE n \in at : TRUE) = m
      BY <2>1
    <2>4. EventChunk(s) = Chunk[s[m]]
      BY <1>3, <1>10, <2>1, <2>3
    <2>5. Chunk[s[m]] \in Chunks
      BY <1>4, ChunkType
    <2>6. Says(s) = [words |-> Chunk[s[m]].words, tokens |-> Chunk[s[m]].tokens, done |-> Chunk[s[m]].done]
      <3>1. words = Chunk[s[m]].words
        BY <1>7, <1>10, <2>2
      <3>2. (marked \/ \E c \in alone : c.done) = Chunk[s[m]].done
        BY <1>10, <2>2, <2>5 DEF Chunks
      <3>3. alone # {}
        BY <2>2
      <3> QED
        BY <1>2, <2>2, <3>1, <3>2, <3>3
    <2> QED
      BY <2>4, <2>5, <2>6 DEF Chunks
  <1>11. CASE ~marked /\ at # {} /\ ~\E m \in at : at = {m}
    <2>1. alone = {}
      BY <1>5, <1>11
    <2>2. Says(s) = [words |-> Joined(s).words, tokens |-> 0, done |-> FALSE]
      <3>1. (marked \/ \E c \in alone : c.done) = FALSE
        BY <1>11, <2>1
      <3> QED
        BY <1>2, <1>7, <1>11, <2>1, <3>1
    <2>3. at # {CHOOSE n \in at : TRUE}
      BY <1>11
    <2>4. EventChunk(s) = Joined(s)
      BY <1>3, <1>11, <2>3
    <2> QED
      BY <2>2, <2>4, JoinedType
  <1> QED
    BY <1>8, <1>9, <1>10, <1>11

SaidIn(s, e) == Says(SubSeq(s, e[1], e[2]))
TokensOf(I, s) == SumOf([e \in I |-> SaidIn(s, e).tokens], I)
WordsOf(I, s)  == SumOf([e \in I |-> SaidIn(s, e).words], I)
TextsOf(I, s)  == Cardinality({e \in I : SaidIn(s, e).words > 0})
DoneIn(I, s)   == \E e \in I : SaidIn(s, e).done

LEMMA ItemSums ==
    /\ Reported = TokensOf(Items, input)
    /\ Words = WordsOf(Items, input)
    /\ WithText = TextsOf(Items, input)
    /\ (\A e \in Items : ~Said(e).done) <=> ~DoneIn(Items, input)
  <1>1. Reported = TokensOf(Items, input)
    BY DEF Reported, TokensOf, SumOf, Said, SaidIn
  <1>2. WithText = TextsOf(Items, input)
    BY DEF WithText, TextsOf, Said, SaidIn
  <1>3. (\A e \in Items : ~Said(e).done) <=> ~DoneIn(Items, input)
    BY DEF DoneIn, Said, SaidIn
  <1>4. Words = WordsOf(Items, input)
    BY DEF Words, WordsOf, SumOf, Said, SaidIn
  <1> QED
    BY <1>1, <1>2, <1>3, <1>4

\* Items that are still the same say the same.
LEMMA ItemsKept ==
    ASSUME NEW I, NEW s, NEW t, \A e \in I : SaidIn(t, e) = SaidIn(s, e)
    PROVE  /\ TokensOf(I, t) = TokensOf(I, s)
           /\ WordsOf(I, t) = WordsOf(I, s)
           /\ TextsOf(I, t) = TextsOf(I, s)
           /\ DoneIn(I, t) <=> DoneIn(I, s)
  <1>1. [e \in I |-> SaidIn(t, e).tokens] = [e \in I |-> SaidIn(s, e).tokens]
    OBVIOUS
  <1>2. {e \in I : SaidIn(t, e).words > 0} = {e \in I : SaidIn(s, e).words > 0}
    OBVIOUS
  <1>3. [e \in I |-> SaidIn(t, e).words] = [e \in I |-> SaidIn(s, e).words]
    OBVIOUS
  <1> QED
    BY <1>1, <1>2, <1>3 DEF TokensOf, WordsOf, TextsOf, DoneIn

LEMMA NoItems ==
    ASSUME NEW s
    PROVE  /\ TokensOf({}, s) = 0 /\ WordsOf({}, s) = 0 /\ TextsOf({}, s) = 0
           /\ ~DoneIn({}, s)
  <1>1. {e \in {} : SaidIn(s, e).words > 0} = {}
    OBVIOUS
  <1> QED
    BY <1>1, SumEmpty, FS_EmptySet DEF TokensOf, WordsOf, TextsOf, DoneIn

\* An item more adds what it says.
LEMMA ItemAdded ==
    ASSUME NEW I, IsFiniteSet(I), NEW s, NEW t, NEW x, x \notin I, NEW c \in Chunks,
           \A e \in I : SaidIn(t, e) = SaidIn(s, e) /\ SaidIn(s, e) \in Chunks,
           SaidIn(t, x) = c
    PROVE  /\ TokensOf(I \cup {x}, t) = TokensOf(I, s) + c.tokens
           /\ WordsOf(I \cup {x}, t) = WordsOf(I, s) + c.words
           /\ TextsOf(I \cup {x}, t) = TextsOf(I, s) + (IF c.words > 0 THEN 1 ELSE 0)
           /\ DoneIn(I \cup {x}, t) <=> DoneIn(I, s) \/ c.done
  <1> DEFINE f == [e \in I |-> SaidIn(s, e).tokens]
             g == [e \in I \cup {x} |-> SaidIn(t, e).tokens]
             v == [e \in I |-> SaidIn(s, e).words]
             w == [e \in I \cup {x} |-> SaidIn(t, e).words]
  <1>1. TokensOf(I \cup {x}, t) = TokensOf(I, s) + c.tokens
    <2>1. \A e \in I : f[e] \in Nat /\ g[e] = f[e]
      BY DEF Chunks
    <2>2. g[x] = c.tokens /\ g[x] \in Nat
      BY DEF Chunks
    <2>3. TokensOf(I, s) = SumOf(f, I) /\ TokensOf(I \cup {x}, t) = SumOf(g, I \cup {x})
      BY DEF TokensOf
    <2> HIDE DEF f, g
    <2>4. SumOf(g, I \cup {x}) = SumOf(f, I) + g[x]
      <3>1. IsFiniteSet(I) /\ x \notin I
        OBVIOUS
      <3>2. g[x] \in Nat
        BY <2>2
      <3> QED
        BY ONLY <2>1, <3>1, <3>2, SumAdd
    <2> QED
      BY <2>2, <2>3, <2>4
  <1>2. TextsOf(I \cup {x}, t) = TextsOf(I, s) + (IF c.words > 0 THEN 1 ELSE 0)
    <2> DEFINE J == {e \in I : SaidIn(s, e).words > 0}
               K == {e \in I \cup {x} : SaidIn(t, e).words > 0}
    <2>1. IsFiniteSet(J) /\ x \notin J
      BY FS_Subset
    <2>2. Cardinality(J) \in Nat
      BY <2>1, FS_CardinalityType
    <2>3. CASE c.words > 0
      <3>1. K = J \cup {x}
        BY <2>3
      <3>2. Cardinality(J \cup {x}) = Cardinality(J) + 1
        BY <2>1, FS_AddElement
      <3> QED
        BY <2>3, <3>1, <3>2 DEF TextsOf
    <2>4. CASE ~(c.words > 0)
      <3>1. K = J
        BY <2>4
      <3>2. TextsOf(I \cup {x}, t) = Cardinality(K) /\ TextsOf(I, s) = Cardinality(J)
        BY DEF TextsOf
      <3> HIDE DEF J, K
      <3> QED
        BY <2>2, <2>4, <3>1, <3>2
    <2> QED
      BY <2>3, <2>4
  <1>3. DoneIn(I \cup {x}, t) <=> DoneIn(I, s) \/ c.done
    BY DEF DoneIn
  <1>4. WordsOf(I \cup {x}, t) = WordsOf(I, s) + c.words
    <2>1. \A e \in I : v[e] \in Nat /\ w[e] = v[e]
      BY DEF Chunks
    <2>2. w[x] = c.words /\ w[x] \in Nat
      BY DEF Chunks
    <2>3. WordsOf(I, s) = SumOf(v, I) /\ WordsOf(I \cup {x}, t) = SumOf(w, I \cup {x})
      BY DEF WordsOf
    <2> HIDE DEF v, w
    <2>4. SumOf(w, I \cup {x}) = SumOf(v, I) + w[x]
      <3>1. IsFiniteSet(I) /\ x \notin I
        OBVIOUS
      <3>2. w[x] \in Nat
        BY <2>2
      <3> QED
        BY ONLY <2>1, <3>1, <3>2, SumAdd
    <2> QED
      BY <2>2, <2>3, <2>4
  <1> QED
    BY <1>1, <1>2, <1>3, <1>4

\* Lines between two blank ones, and what they say.
LEMMA SaidInput ==
    ASSUME NEW s \in Seq(Lines), NEW a \in 1..Len(s), NEW b \in 1..Len(s), a <= b,
           \A i \in a..b : s[i] # "blank"
    PROVE  /\ SubSeq(s, a, b) \in Seq(EventLines)
           /\ SaidIn(s, <<a, b>>) \in Chunks
           /\ SaidIn(s, <<a, b>>) = EventChunk(SubSeq(s, a, b))
           /\ \A l : SaidIn(Append(s, l), <<a, b>>) = SaidIn(s, <<a, b>>)
  <1> DEFINE u == SubSeq(s, a, b)
  <1>1. u \in Seq(EventLines)
    <2>1. Len(u) = b - a + 1 /\ u = [i \in 1..(b - a + 1) |-> s[a + i - 1]]
      OBVIOUS
    <2>2. \A i \in 1..(b - a + 1) : a + i - 1 \in a..b /\ a + i - 1 \in 1..Len(s)
      OBVIOUS
    <2>3. \A i \in 1..(b - a + 1) : s[a + i - 1] \in EventLines
      BY <2>2 DEF Lines, EventLines
    <2>4. b - a + 1 \in Nat
      OBVIOUS
    <2> QED
      BY <2>1, <2>3, <2>4
  <1>2. Says(u) = EventChunk(u) /\ Says(u) \in Chunks
    <2> HIDE DEF u
    <2> QED
      BY <1>1, SaysChunk
  <1>3. ASSUME NEW l PROVE SubSeq(Append(s, l), a, b) = u
    <2>1. \A i \in 1..(b - a + 1) : Append(s, l)[a + i - 1] = s[a + i - 1]
      OBVIOUS
    <2>2. u = [i \in 1..(b - a + 1) |-> s[a + i - 1]]
      OBVIOUS
    <2>3. SubSeq(Append(s, l), a, b) = [i \in 1..(b - a + 1) |-> Append(s, l)[a + i - 1]]
      OBVIOUS
    <2> QED
      BY <2>1, <2>2, <2>3
  <1>4. <<a, b>>[1] = a /\ <<a, b>>[2] = b
    OBVIOUS
  <1> QED
    BY <1>1, <1>2, <1>3, <1>4 DEF SaidIn

-----------------------------------------------------------------------------
(* How the input and its items grow.                                       *)

BlanksOf(s) == {i \in 1..Len(s) : s[i] = "blank"}
Ends(s, how) == BlanksOf(s) \cup (IF how = "eof" THEN {Len(s) + 1} ELSE {})

EventsIn(s, how) ==
    {e \in (1..Len(s)) \X (1..Len(s)) :
        /\ e[1] <= e[2]
        /\ \A i \in e[1]..e[2] : s[i] # "blank"
        /\ e[1] > 1 => s[e[1] - 1] = "blank"
        /\ IF e[2] < Len(s) THEN s[e[2] + 1] = "blank" ELSE how = "eof"}

LinesIn(s) == {<<i, i>> : i \in {k \in 1..Len(s) : s[k] # "blank"}}

LEMMA EventsInAre ==
    ASSUME NEW s, Len(s) \in Nat, NEW how
    PROVE  EventsIn(s, how) = EventsOf(Len(s), Ends(s, how))
  <1> DEFINE n == Len(s)
             B == Ends(s, how)
  <1>1. \A i \in 1..n : i \in B <=> s[i] = "blank"
    BY DEF Ends, BlanksOf
  <1>2. n + 1 \in B <=> how = "eof"
    BY DEF Ends, BlanksOf
  <1> HIDE DEF B
  <1>3. ASSUME NEW a \in 1..n, NEW b \in 1..n, a <= b
        PROVE  /\ (\A i \in a..b : s[i] # "blank") <=> (\A i \in a..b : i \notin B)
               /\ (a > 1 => s[a - 1] = "blank") <=> (a > 1 => a - 1 \in B)
               /\ (IF b < n THEN s[b + 1] = "blank" ELSE how = "eof") <=> b + 1 \in B
    <2>1. \A i \in a..b : i \in 1..n
      BY <1>3
    <2>2. (\A i \in a..b : s[i] # "blank") <=> (\A i \in a..b : i \notin B)
      BY <1>1, <2>1
    <2>3. a > 1 => a - 1 \in 1..n
      OBVIOUS
    <2>4. (a > 1 => s[a - 1] = "blank") <=> (a > 1 => a - 1 \in B)
      BY <1>1, <2>3
    <2>5. CASE b < n
      <3>1. b + 1 \in 1..n
        BY <2>5
      <3> QED
        BY <1>1, <2>2, <2>4, <2>5, <3>1
    <2>6. CASE b = n
      <3>1. ~(b < n) /\ b + 1 = n + 1
        BY <2>6
      <3> QED
        BY <1>2, <2>2, <2>4, <3>1
    <2>7. b < n \/ b = n
      OBVIOUS
    <2> QED
      BY <2>5, <2>6, <2>7
  <1>4. ASSUME NEW e \in (1..n) \X (1..n)
        PROVE  e \in EventsIn(s, how) <=> e \in EventsOf(n, B)
    <2>1. e[1] \in 1..n /\ e[2] \in 1..n
      OBVIOUS
    <2>2. CASE e[1] <= e[2]
      <3>1. /\ (\A i \in e[1]..e[2] : s[i] # "blank") <=> (\A i \in e[1]..e[2] : i \notin B)
            /\ (e[1] > 1 => s[e[1] - 1] = "blank") <=> (e[1] > 1 => e[1] - 1 \in B)
            /\ (IF e[2] < n THEN s[e[2] + 1] = "blank" ELSE how = "eof") <=> e[2] + 1 \in B
        BY <1>3, <2>1, <2>2
      <3> QED
        BY <2>2, <3>1 DEF EventsIn, EventsOf
    <2>3. CASE ~(e[1] <= e[2])
      BY <2>3 DEF EventsIn, EventsOf
    <2> QED
      BY <2>2, <2>3
  <1>5. EventsIn(s, how) \subseteq (1..n) \X (1..n) /\ EventsOf(n, B) \subseteq (1..n) \X (1..n)
    BY DEF EventsIn, EventsOf
  <1>6. EventsIn(s, how) = EventsOf(n, B)
    BY <1>4, <1>5
  <1> QED
    BY <1>6 DEF B

\* Events and lines are finitely many, say something, and go on saying it.
LEMMA ItemsSay ==
    ASSUME NEW s \in Seq(Lines), NEW how, NEW I, I \in {EventsIn(s, how), LinesIn(s), {}}
    PROVE  /\ IsFiniteSet(I)
           /\ \A e \in I : SaidIn(s, e) \in Chunks /\ \A l : SaidIn(Append(s, l), e) = SaidIn(s, e)
  <1>1. Len(s) \in Nat
    OBVIOUS
  <1>2. I \subseteq (1..Len(s)) \X (1..Len(s))
    BY DEF EventsIn, LinesIn
  <1>3. IsFiniteSet(I)
    <2>1. IsFiniteSet(1..Len(s))
      BY <1>1, FS_Interval
    <2>2. IsFiniteSet((1..Len(s)) \X (1..Len(s)))
      BY <2>1, FS_Product
    <2> QED
      BY <1>2, <2>2, FS_Subset
  <1>4. ASSUME NEW e \in I
        PROVE  SaidIn(s, e) \in Chunks /\ \A l : SaidIn(Append(s, l), e) = SaidIn(s, e)
    <2> DEFINE a == e[1]
               b == e[2]
    <2>1. e = <<a, b>> /\ a \in 1..Len(s) /\ b \in 1..Len(s)
      BY <1>2
    <2>2. a <= b /\ \A i \in a..b : s[i] # "blank"
      <3>1. CASE I = EventsIn(s, how)
        BY <3>1 DEF EventsIn
      <3>2. CASE I = LinesIn(s)
        <4>1. PICK i \in 1..Len(s) : s[i] # "blank" /\ e = <<i, i>>
          BY <3>2 DEF LinesIn
        <4>2. a = i /\ b = i
          BY <4>1
        <4>3. \A j \in a..b : j = i
          BY <4>2
        <4> QED
          BY <4>1, <4>2, <4>3
      <3> QED
        BY <3>1, <3>2
    <2> HIDE DEF a, b
    <2>3. /\ SaidIn(s, <<a, b>>) \in Chunks
          /\ \A l : SaidIn(Append(s, l), <<a, b>>) = SaidIn(s, <<a, b>>)
      BY <2>1, <2>2, SaidInput
    <2> QED
      BY <2>1, <2>3
  <1> QED
    BY <1>3, <1>4

LEMMA BlanksAppend ==
    ASSUME NEW s \in Seq(Lines), NEW l \in Lines
    PROVE  BlanksOf(Append(s, l)) = BlanksOf(s) \cup (IF l = "blank" THEN {Len(s) + 1} ELSE {})
  <1> DEFINE n == Len(s)
             t == Append(s, l)
  <1>1. Len(t) = n + 1 /\ t[n + 1] = l /\ \A i \in 1..n : t[i] = s[i]
    OBVIOUS
  <1>2. 1..(n + 1) = (1..n) \cup {n + 1}
    OBVIOUS
  <1> HIDE DEF t
  <1>3. BlanksOf(t) = {i \in (1..n) \cup {n + 1} : t[i] = "blank"}
    BY <1>1, <1>2 DEF BlanksOf
  <1>4. BlanksOf(t) = BlanksOf(s) \cup {i \in {n + 1} : t[i] = "blank"}
    BY <1>1, <1>3 DEF BlanksOf
  <1>5. {i \in {n + 1} : t[i] = "blank"} = IF l = "blank" THEN {n + 1} ELSE {}
    BY <1>1
  <1> QED
    BY <1>4, <1>5 DEF t

\* A line that is not blank completes no event, even if the input ends in it.
LEMMA EventLineRead ==
    ASSUME NEW s \in Seq(Lines), NEW l \in Lines, l # "blank", NEW how, how # "eof"
    PROVE  EventsIn(Append(s, l), how) = EventsIn(s, "no")
  <1> DEFINE n == Len(s)
             B == BlanksOf(s)
             t == Append(s, l)
  <1>1. n \in Nat /\ Len(t) = n + 1 /\ B \subseteq 1..(n + 1)
    BY DEF BlanksOf
  <1>2. Ends(t, how) = B /\ Ends(s, "no") = B
    BY BlanksAppend DEF Ends
  <1> HIDE DEF n, B, t
  <1>3. EventsOf(n + 1, B) = EventsOf(n, B)
    BY <1>1, LineRead
  <1>4. EventsIn(t, how) = EventsOf(n + 1, B)
    BY <1>1, <1>2, EventsInAre
  <1>5. EventsIn(s, "no") = EventsOf(n, B)
    BY <1>1, <1>2, EventsInAre DEF n
  <1> QED
    BY <1>3, <1>4, <1>5 DEF t

\* A blank line and the end of the input complete the open lines.
LEMMA EventCompletes ==
    ASSUME NEW s \in Seq(Lines), NEW m, Open(Len(s), BlanksOf(s), m)
    PROVE  LET n == Len(s)
               I == EventsIn(s, "no")
           IN  /\ EventsIn(Append(s, "blank"), "no") = EventsIn(s, "eof")
               /\ m = 0 => EventsIn(s, "eof") = I
               /\ m > 0 => EventsIn(s, "eof") = I \cup {<<n - m + 1, n>>} /\ <<n - m + 1, n>> \notin I
  <1> DEFINE n == Len(s)
             B == BlanksOf(s)
             t == Append(s, "blank")
  <1>1. n \in Nat /\ Len(t) = n + 1 /\ B \in SUBSET (1..n)
    BY DEF BlanksOf
  <1>2. /\ Ends(t, "no") = B \cup {n + 1}
        /\ Ends(s, "eof") = B \cup {n + 1}
        /\ Ends(s, "no") = B
    <2>1. "blank" \in Lines
      BY DEF Lines
    <2>2. BlanksOf(t) = B \cup {n + 1}
      BY <2>1, BlanksAppend
    <2> QED
      BY <2>2 DEF Ends
  <1>3. Open(n, B, m)
    OBVIOUS
  <1> HIDE DEF t, B
  <1>4. /\ EventsIn(t, "no") = EventsOf(n + 1, B \cup {n + 1})
        /\ EventsIn(s, "eof") = EventsOf(n, B \cup {n + 1})
        /\ EventsIn(s, "no") = EventsOf(n, B)
    <2>1. Len(t) \in Nat /\ Len(s) \in Nat
      BY <1>1
    <2> QED
      BY <1>1, <1>2, <2>1, EventsInAre
  <1> HIDE DEF n
  <1>5. EventsOf(n + 1, B \cup {n + 1}) = EventsOf(n, B \cup {n + 1})
    <2>1. B \cup {n + 1} \in SUBSET (1..(n + 1))
      BY <1>1
    <2> QED
      BY <1>1, <2>1, LineRead
  <1>6. /\ m = 0 => EventsOf(n, B \cup {n + 1}) = EventsOf(n, B)
        /\ m > 0 => /\ EventsOf(n, B \cup {n + 1}) = EventsOf(n, B) \cup {<<n - m + 1, n>>}
                    /\ <<n - m + 1, n>> \notin EventsOf(n, B)
    BY <1>1, <1>3, LinesComplete
  <1> QED
    BY <1>4, <1>5, <1>6 DEF n, t

\* In the other formats every line that is not blank counts at once.
LEMMA PlainLineRead ==
    ASSUME NEW s \in Seq(Lines), NEW l \in Lines
    PROVE  /\ l = "blank" => LinesIn(Append(s, l)) = LinesIn(s)
           /\ l # "blank" => LET x == <<Len(s) + 1, Len(s) + 1>>
                             IN  LinesIn(Append(s, l)) = LinesIn(s) \cup {x} /\ x \notin LinesIn(s)
  <1> DEFINE n == Len(s)
             t == Append(s, l)
             Full(u) == {k \in 1..Len(u) : u[k] # "blank"}
  <1>1. Len(t) = n + 1 /\ t[n + 1] = l /\ (\A i \in 1..n : t[i] = s[i]) /\ n \in Nat
    OBVIOUS
  <1>2. 1..(n + 1) = (1..n) \cup {n + 1} /\ n + 1 \notin 1..n
    OBVIOUS
  <1> HIDE DEF t
  <1>3. Full(t) = Full(s) \cup {i \in {n + 1} : t[i] # "blank"}
    BY <1>1, <1>2
  <1>4. Full(s) \subseteq 1..n
    OBVIOUS
  <1>5. LinesIn(t) = {<<i, i>> : i \in Full(t)} /\ LinesIn(s) = {<<i, i>> : i \in Full(s)}
    BY DEF LinesIn
  <1> HIDE DEF Full, n
  <1>6. l = "blank" => Full(t) = Full(s)
    BY <1>1, <1>3
  <1>7. l # "blank" => Full(t) = Full(s) \cup {n + 1}
    BY <1>1, <1>3
  <1>8. ASSUME l # "blank"
        PROVE  LinesIn(t) = LinesIn(s) \cup {<<n + 1, n + 1>>} /\ <<n + 1, n + 1>> \notin LinesIn(s)
    BY <1>2, <1>4, <1>5, <1>7, <1>8
  <1> QED
    BY <1>5, <1>6, <1>8 DEF t, n

Accumulators == [first : Nat, last : Nat, itl : Seq(Nat), chunks : Nat, words : Nat,
                 tokens : Nat, done : BOOLEAN]

\* What a loop has counted after reading s, with the items I in it.
Counted(k, I, s, a) ==
    /\ a.tokens = TokensOf(I, s)
    /\ a.words = WordsOf(I, s)
    /\ a.chunks = TextsOf(I, s)
    /\ k = "sse" => (a.done <=> DoneIn(I, s))

LEMMA MarkIs ==
    ASSUME NEW a \in Accumulators, NEW t \in Nat, a.last <= t
    PROVE  /\ Mark(a, t) \in Accumulators
           /\ Mark(a, t).tokens = a.tokens /\ Mark(a, t).words = a.words
           /\ Mark(a, t).done = a.done
           /\ Mark(a, t).chunks = a.chunks + 1
           /\ Mark(a, t).last = t
           /\ Mark(a, t).first = IF a.first = 0 THEN t ELSE a.first
           /\ Mark(a, t).itl = IF a.first = 0 THEN a.itl ELSE Append(a.itl, t - a.last)
  <1> DEFINE first == IF a.first = 0 THEN t ELSE a.first
             itl   == IF a.first = 0 THEN a.itl ELSE Append(a.itl, t - a.last)
  <1>1. Mark(a, t) = [a EXCEPT !.first = first, !.itl = itl, !.last = t, !.chunks = a.chunks + 1]
    BY DEF Mark, Accumulators
  <1>2. a = [first |-> a.first, last |-> a.last, itl |-> a.itl, chunks |-> a.chunks,
             words |-> a.words, tokens |-> a.tokens, done |-> a.done]
    BY DEF Accumulators
  <1>3. Mark(a, t) = [first |-> first, last |-> t, itl |-> itl, chunks |-> a.chunks + 1,
                      words |-> a.words, tokens |-> a.tokens, done |-> a.done]
    BY <1>1, <1>2
  <1>4. /\ a.first \in Nat /\ a.last \in Nat /\ a.itl \in Seq(Nat) /\ a.chunks \in Nat
        /\ a.words \in Nat /\ a.tokens \in Nat /\ a.done \in BOOLEAN
    BY DEF Accumulators
  <1>5. first \in Nat /\ a.chunks + 1 \in Nat
    BY <1>4
  <1>6. itl \in Seq(Nat)
    <2>1. t - a.last \in Nat
      BY <1>4
    <2> QED
      BY <1>4, <2>1
  <1> HIDE DEF first, itl
  <1>7. Mark(a, t) \in Accumulators
    BY <1>3, <1>4, <1>5, <1>6 DEF Accumulators
  <1> QED
    BY <1>3, <1>7 DEF first, itl

LEMMA TakeIs ==
    ASSUME NEW a \in Accumulators, NEW c \in Chunks, NEW t \in Nat, a.last <= t
    PROVE  LET m == IF c.words > 0 THEN Mark(a, t) ELSE a
           IN  /\ Take(a, c, t) \in Accumulators
               /\ Take(a, c, t) = [m EXCEPT !.words = a.words + c.words,
                                            !.tokens = a.tokens + c.tokens,
                                            !.done = a.done \/ c.done]
  <1> DEFINE m == IF c.words > 0 THEN Mark(a, t) ELSE a
             w == a.words + c.words
             k == a.tokens + c.tokens
             d == a.done \/ c.done
  <1>1. c.words \in Nat /\ c.tokens \in Nat /\ c.done \in BOOLEAN
    BY DEF Chunks
  <1>2. /\ m \in Accumulators
        /\ m.tokens = a.tokens /\ m.words = a.words /\ m.done = a.done
    BY MarkIs
  <1>3. Take(a, c, t) = [m EXCEPT !.words = @ + c.words, !.tokens = @ + c.tokens, !.done = @ \/ c.done]
    BY DEF Take
  <1>4. w \in Nat /\ k \in Nat /\ d \in BOOLEAN
    <2>1. a.words \in Nat /\ a.tokens \in Nat /\ a.done \in BOOLEAN
      BY DEF Accumulators
    <2> QED
      BY <1>1, <2>1
  <1> HIDE DEF m
  <1>5. Take(a, c, t) = [m EXCEPT !.words = w, !.tokens = k, !.done = d]
    BY <1>2, <1>3 DEF Accumulators
  <1> HIDE DEF w, k, d
  <1>6. [m EXCEPT !.words = w, !.tokens = k, !.done = d] \in Accumulators
    BY <1>2, <1>4 DEF Accumulators
  <1> QED
    BY <1>5, <1>6 DEF m, w, k, d

\* The measured times at t: the clock has left its origin when a chunk comes, so
\* that a first time of zero means none, and the latencies are the steps from the
\* first chunk to the last.
Times(a, t) ==
    /\ a.first <= a.last /\ a.last <= t
    /\ a.first = 0 <=> a.chunks = 0
    /\ a.chunks = 0 => a.itl = << >> /\ a.last = 0
    /\ a.chunks > 0 => Len(a.itl) = a.chunks - 1
    /\ Total(a.itl) = a.last - a.first

LEMMA TimesKept ==
    ASSUME NEW a \in Accumulators, NEW b \in Accumulators, NEW t \in Nat, NEW u \in Nat, t <= u,
           Times(a, t), b.first = a.first, b.last = a.last, b.itl = a.itl, b.chunks = a.chunks
    PROVE  Times(b, u)
  <1>1. a.last \in Nat
    BY DEF Accumulators
  <1>2. a.last <= t
    BY DEF Times
  <1>3. a.last <= u
    BY <1>1, <1>2
  <1> QED
    BY <1>3 DEF Times

LEMMA MarkTimes ==
    ASSUME NEW a \in Accumulators, NEW t \in Nat, NEW u \in Nat, t <= u, u > 0, Times(a, t)
    PROVE  a.last <= u /\ Times(Mark(a, u), u)
  <1>1. /\ a.first \in Nat /\ a.last \in Nat /\ a.itl \in Seq(Nat) /\ a.chunks \in Nat
    BY DEF Accumulators
  <1>2. a.last <= u
    BY <1>1 DEF Times
  <1> DEFINE m     == Mark(a, u)
             first == IF a.first = 0 THEN u ELSE a.first
             itl   == IF a.first = 0 THEN a.itl ELSE Append(a.itl, u - a.last)
  <1>3. m.chunks = a.chunks + 1 /\ m.last = u /\ m.first = first /\ m.itl = itl
    BY <1>2, MarkIs
  <1>4. first <= u /\ first # 0
    BY <1>1, <1>2 DEF Times
  <1>5. Len(itl) = a.chunks /\ Total(itl) = u - first
    <2>1. CASE a.first = 0
      <3>1. a.chunks = 0 /\ itl = << >> /\ first = u
        BY <2>1 DEF Times
      <3> HIDE DEF itl, first
      <3>2. Total(itl) = 0
        BY <3>1, FoldNothing
      <3> QED
        BY <3>1, <3>2
    <2>2. CASE a.first # 0
      <3>1. a.chunks > 0 /\ itl = Append(a.itl, u - a.last) /\ first = a.first
        BY <1>1, <2>2 DEF Times
      <3>2. Len(a.itl) = a.chunks - 1 /\ Total(a.itl) = a.last - a.first
        BY <3>1 DEF Times
      <3>3. u - a.last \in Nat
        BY <1>1, <1>2
      <3>4. Total(Append(a.itl, u - a.last)) = Total(a.itl) + (u - a.last)
        BY <1>1, <3>3, FoldAppend
      <3>5. Len(Append(a.itl, u - a.last)) = Len(a.itl) + 1
        BY <1>1
      <3> HIDE DEF itl, first
      <3>6. Total(itl) = u - a.first
        BY <1>1, <3>1, <3>2, <3>4
      <3> QED
        BY <1>1, <3>1, <3>2, <3>5, <3>6
    <2> QED
      BY <2>1, <2>2
  <1> HIDE DEF m, first, itl
  <1>6. Times(m, u)
    BY <1>1, <1>3, <1>4, <1>5 DEF Times
  <1> QED
    BY <1>2, <1>6 DEF m

\* Taking a chunk keeps the times right.
LEMMA TakeTimes ==
    ASSUME NEW a \in Accumulators, NEW c \in Chunks, NEW t \in Nat, NEW u \in Nat, t <= u, u > 0,
           Times(a, t)
    PROVE  Times(Take(a, c, u), u) /\ Take(a, c, u) \in Accumulators
  <1> DEFINE m == IF c.words > 0 THEN Mark(a, u) ELSE a
             b == Take(a, c, u)
  <1>1. a.last <= u /\ Times(Mark(a, u), u)
    BY MarkTimes
  <1>2. b \in Accumulators
    BY <1>1, TakeIs
  <1>3. b = [m EXCEPT !.words = a.words + c.words,
                      !.tokens = a.tokens + c.tokens, !.done = a.done \/ c.done]
    BY <1>1, TakeIs
  <1>4. m \in Accumulators
    BY <1>1, MarkIs
  <1>5. Times(m, u)
    BY <1>1, TimesKept
  <1> HIDE DEF m, b
  <1>6. b.first = m.first /\ b.last = m.last /\ b.itl = m.itl /\ b.chunks = m.chunks
    BY <1>3, <1>4 DEF Accumulators
  <1>7. Times(b, u)
    BY <1>2, <1>4, <1>5, <1>6, TimesKept
  <1> QED
    BY <1>2, <1>7 DEF b

LEMMA FlushTimes ==
    ASSUME NEW a \in Accumulators, NEW s \in Seq(EventLines), NEW t \in Nat, NEW u \in Nat,
           t <= u, u > 0, Times(a, t)
    PROVE  Times(Flush(a, s, u), u) /\ Flush(a, s, u) \in Accumulators
  <1>1. CASE s = << >>
    <2>1. Flush(a, s, u) = a
      BY <1>1 DEF Flush
    <2>2. Times(a, u)
      BY TimesKept
    <2> QED
      BY <2>1, <2>2
  <1>2. CASE s # << >>
    <2>1. Flush(a, s, u) = Take(a, EventChunk(s), u)
      BY <1>2 DEF Flush
    <2>2. EventChunk(s) \in Chunks
      BY SaysChunk
    <2> QED
      BY <2>1, <2>2, TakeTimes
  <1> QED
    BY <1>1, <1>2

\* Taking the chunk of an item counts the item.
LEMMA TakeCounts ==
    ASSUME NEW k, NEW I, IsFiniteSet(I), NEW s, NEW t, NEW x, x \notin I, NEW c \in Chunks,
           \A e \in I : SaidIn(t, e) = SaidIn(s, e) /\ SaidIn(s, e) \in Chunks,
           SaidIn(t, x) = c,
           NEW a \in Accumulators, NEW u \in Nat, a.last <= u, Counted(k, I, s, a)
    PROVE  Counted(k, I \cup {x}, t, Take(a, c, u))
  <1> DEFINE m == IF c.words > 0 THEN Mark(a, u) ELSE a
             b == Take(a, c, u)
  <1>1. m \in Accumulators /\ m.chunks = a.chunks + (IF c.words > 0 THEN 1 ELSE 0)
    <2>1. a.chunks \in Nat
      BY DEF Accumulators
    <2> QED
      BY <2>1, MarkIs
  <1>2. b = [m EXCEPT !.words = a.words + c.words,
                      !.tokens = a.tokens + c.tokens, !.done = a.done \/ c.done]
    <2>1. a \in Accumulators /\ c \in Chunks /\ u \in Nat /\ a.last <= u
      OBVIOUS
    <2> QED
      BY ONLY <2>1, TakeIs
  <1> HIDE DEF m, b
  <1>3. /\ b.words = a.words + c.words
        /\ b.chunks = a.chunks + (IF c.words > 0 THEN 1 ELSE 0)
        /\ b.tokens = a.tokens + c.tokens
        /\ b.done = (a.done \/ c.done)
    BY <1>1, <1>2 DEF Accumulators
  <1>4. /\ TokensOf(I \cup {x}, t) = TokensOf(I, s) + c.tokens
        /\ WordsOf(I \cup {x}, t) = WordsOf(I, s) + c.words
        /\ TextsOf(I \cup {x}, t) = TextsOf(I, s) + (IF c.words > 0 THEN 1 ELSE 0)
        /\ DoneIn(I \cup {x}, t) <=> DoneIn(I, s) \/ c.done
    <2>1. /\ IsFiniteSet(I) /\ x \notin I /\ c \in Chunks /\ SaidIn(t, x) = c
          /\ \A e \in I : SaidIn(t, e) = SaidIn(s, e) /\ SaidIn(s, e) \in Chunks
      OBVIOUS
    <2> QED
      BY ONLY <2>1, ItemAdded
  <1>5. /\ a.tokens = TokensOf(I, s) /\ a.words = WordsOf(I, s) /\ a.chunks = TextsOf(I, s)
        /\ k = "sse" => (a.done <=> DoneIn(I, s))
    BY DEF Counted
  <1>6. /\ b.tokens = TokensOf(I \cup {x}, t) /\ b.words = WordsOf(I \cup {x}, t)
        /\ b.chunks = TextsOf(I \cup {x}, t)
    BY <1>3, <1>4, <1>5
  <1>7. k = "sse" => (b.done <=> DoneIn(I \cup {x}, t))
    BY <1>3, <1>4, <1>5
  <1> QED
    BY <1>6, <1>7 DEF Counted, b

-----------------------------------------------------------------------------
(* The inductive invariant.                                                *)

HeaderValues == [ttft : Nat, gen : Nat, tokens : Nat, rate : Nat, aborted : BOOLEAN,
                 aiTTFT : Nat, aiTokens : Nat]

Inputs == Lines \cup {"ping", "binary", "close"}

\* What each variable holds; an HTTP runner reads lines.
TypeInv ==
    /\ kind \in {"sse", "lines", "ws", "grpc", "http", "unary"}
    /\ header \in HeaderValues /\ (~HTTP => header = NoHeader)
    /\ now \in Nat
    /\ eventLines \in Seq(EventLines)
    /\ acc \in Accumulators
    /\ pc \in {"request", "read", "returned"}
    /\ pc # "returned" => ended = "no"
    /\ input \in Seq(Inputs)
    /\ HTTP => input \in Seq(Lines)

\* The lines kept are those of the event that is not complete.
LinesInv ==
    kind = "sse" /\ pc # "returned" =>
        /\ Open(Len(input), BlanksOf(input), Len(eventLines))
        /\ eventLines = SubSeq(input, Len(input) - Len(eventLines) + 1, Len(input))

\* An HTTP runner has counted what the complete events and lines say.
CountInv ==
    HTTP =>
        /\ Counted(kind, Items, input, acc)
        /\ kind = "lines" /\ Finished => acc.done

\* The times are right; except in an HTTP stream everything that comes is timed.
TimeInv ==
    /\ pc = "read" => now > start
    /\ Times(acc, now)
    /\ ~HTTP => acc.chunks = Len(input)

\* A normal end returns the result of what was accumulated.
ResultInv ==
    Finished =>
        /\ kind \in {"sse", "lines"} => result = HTTPResult(acc, now)
        /\ kind = "ws"    => result = WSResult(acc, now)
        /\ kind = "grpc"  => result = GRPCResult(acc, now)
        /\ kind = "http"  => result = PlainResult(now)
        /\ kind = "unary" => result = UnaryResult(now)

\* Only one answer comes to a unary call.
UnaryInv == kind = "unary" => input = << >>

StreamInv == TypeInv /\ LinesInv /\ CountInv /\ TimeInv /\ ResultInv /\ UnaryInv

\* What the items are, before a step and after it.
LEMMA ItemsAre ==
    /\ kind = "sse" => Items = EventsIn(input, ended)
    /\ kind = "lines" => Items = LinesIn(input)
    /\ kind \notin {"sse", "lines"} => Items = {}
    /\ kind' = "sse" => Items' = EventsIn(input', ended')
    /\ kind' = "lines" => Items' = LinesIn(input')
    /\ kind' \notin {"sse", "lines"} => Items' = {}
  BY DEF Items, Events, EventsIn, LinesIn

\* Where a turn of a read loop starts from.
LEMMA ReadFacts ==
    ASSUME TypeInv, TimeInv, NEW t \in now..MaxTime
    PROVE  /\ t \in Nat /\ now \in Nat /\ now <= t /\ acc \in Accumulators
           /\ Times(acc, now) /\ Times(acc, t) /\ acc.last <= t
           /\ Len(input) \in Nat
           /\ ~HTTP => acc.chunks = Len(input)
           /\ pc = "read" => t > 0
  <1>1. t \in Nat /\ now \in Nat /\ now <= t
    BY BoundsAssumption DEF TypeInv
  <1>2. acc \in Accumulators /\ Len(input) \in Nat
    BY DEF TypeInv
  <1>3. Times(acc, now) /\ Times(acc, t)
    BY <1>1, <1>2, TimesKept DEF TimeInv
  <1>4. acc.last <= t
    BY <1>3 DEF Times
  <1>5. ~HTTP => acc.chunks = Len(input)
    BY DEF TimeInv
  <1>6. pc = "read" => t > 0
    <2>1. pc = "read" => now > 0
      BY DEF TimeInv, start
    <2> QED
      BY <1>1, <2>1
  <1> QED
    BY <1>1, <1>2, <1>3, <1>4, <1>5, <1>6

LEMMA DoneIs ==
    ASSUME NEW a \in Accumulators
    PROVE  LET b == [a EXCEPT !.done = TRUE]
           IN  /\ b \in Accumulators /\ b.done
               /\ b.first = a.first /\ b.last = a.last /\ b.itl = a.itl
               /\ b.chunks = a.chunks /\ b.words = a.words /\ b.tokens = a.tokens
               /\ \A t \in Nat : Times(a, t) => Times(b, t)
  <1> DEFINE b == [a EXCEPT !.done = TRUE]
  <1>1. /\ b \in Accumulators /\ b.done
        /\ b.first = a.first /\ b.last = a.last /\ b.itl = a.itl
        /\ b.chunks = a.chunks /\ b.words = a.words /\ b.tokens = a.tokens
    BY DEF Accumulators
  <1> HIDE DEF b
  <1>2. ASSUME NEW t \in Nat, Times(a, t) PROVE Times(b, t)
    BY <1>1, <1>2 DEF Times
  <1> QED
    BY <1>1, <1>2 DEF b

\* What the two invariants ask of a step.
LEMMA TypeTimeFrom ==
    ASSUME TypeInv, NEW t \in Nat, now' = t, kind' = kind, header' = header,
           eventLines' \in Seq(EventLines), acc' \in Accumulators, Times(acc', t),
           ~HTTP => acc'.chunks = Len(input'),
           pc' \in {"request", "read", "returned"}, pc' # "returned" => ended' = "no",
           input' \in Seq(Inputs), HTTP => input' \in Seq(Lines), pc' = "read" => t > 0
    PROVE  TypeInv' /\ TimeInv'
  <1>1. HTTP' <=> HTTP
    BY DEF HTTP
  <1>2. TypeInv'
    BY <1>1 DEF TypeInv
  <1>3. /\ pc' = "read" => now' > start
        /\ Times(acc', now')
        /\ ~HTTP' => acc'.chunks = Len(input')
    BY <1>1 DEF start
  <1> QED
    BY <1>2, <1>3 DEF TimeInv

LEMMA InputTypes ==
    ASSUME TypeInv, NEW l
    PROVE  /\ l \in Inputs => Append(input, l) \in Seq(Inputs) /\ Len(Append(input, l)) = Len(input) + 1
           /\ HTTP /\ l \in Lines => Append(input, l) \in Seq(Lines)
           /\ Payloads \subseteq Lines /\ Lines \subseteq Inputs /\ "blank" \in Lines
           /\ l \in Lines /\ l # "blank" => l \in EventLines
           /\ Payloads \subseteq EventLines /\ "blank" \notin Payloads
           /\ {"text", "phrase", "ping", "binary", "close", "usage"} \subseteq Inputs
           /\ "other" \in EventLines
  BY ChunkType DEF TypeInv, Inputs, Lines, EventLines

\* Types and times are kept by each kind of runner.
LEMMA RequestTimes ==
    ASSUME TypeInv, TimeInv, NEW t \in now..MaxTime,
           Connected(t) \/ (\E sending \in BOOLEAN : RequestFails(sending, t)) \/ ReadError(t)
    PROVE  TypeInv' /\ TimeInv'
  <1>1. /\ now' = t /\ kind' = kind /\ header' = header /\ eventLines' = eventLines /\ acc' = acc
        /\ input' = input
    BY DEF Connected, RequestFails, ReadError, Read
  <1>2. pc' = "read" \/ (pc' = "returned")
    BY DEF Connected, RequestFails, ReadError, Return
  <1>3. pc' # "returned" => ended' = "no" /\ t > 0
    <2>1. CASE Connected(t)
      <3>1. ended' = ended /\ pc = "request" /\ t > start
        BY <2>1 DEF Connected
      <3> QED
        BY <3>1 DEF TypeInv, start
    <2>2. CASE (\E sending \in BOOLEAN : RequestFails(sending, t)) \/ ReadError(t)
      BY <2>2 DEF RequestFails, ReadError, Return
    <2> QED
      BY <2>1, <2>2
  <1>4. eventLines \in Seq(EventLines) /\ input \in Seq(Inputs) /\ (HTTP => input \in Seq(Lines))
    BY DEF TypeInv
  <1>5. ~HTTP => acc.chunks = Len(input)
    BY DEF TimeInv
  <1> QED
    BY <1>1, <1>2, <1>3, <1>4, <1>5, ReadFacts, TypeTimeFrom

LEMMA ReadEventLineTimes ==
    ASSUME TypeInv, TimeInv, NEW t \in now..MaxTime, NEW l \in Lines, ReadEventLine(l, t)
    PROVE  TypeInv' /\ TimeInv'
  <1>1. /\ kind = "sse" /\ pc = "read" /\ now' = t /\ kind' = kind /\ header' = header
        /\ input' = Append(input, l) /\ pc' = pc /\ ended' = ended
        /\ acc' = IF l = "blank" THEN Flush(acc, eventLines, t) ELSE acc
        /\ eventLines' = IF l = "blank" THEN << >> ELSE Append(eventLines, l)
    BY DEF ReadEventLine, Read, Continue
  <1>2. /\ t \in Nat /\ t > 0 /\ HTTP /\ eventLines \in Seq(EventLines)
        /\ ended = "no"
    <2>1. HTTP
      BY <1>1 DEF HTTP
    <2> QED
      BY <1>1, <2>1, ReadFacts DEF TypeInv
  <1>3. acc' \in Accumulators /\ Times(acc', t)
    <2>1. CASE l = "blank"
      <3>1. /\ Times(Flush(acc, eventLines, t), t)
            /\ Flush(acc, eventLines, t) \in Accumulators
        BY <1>2, ReadFacts, FlushTimes
      <3> QED
        BY <1>1, <2>1, <3>1
    <2>2. CASE l # "blank"
      BY <1>1, <1>2, <2>2, ReadFacts
    <2> QED
      BY <2>1, <2>2
  <1>4. eventLines' \in Seq(EventLines)
    BY <1>1, <1>2, InputTypes
  <1>5. input' \in Seq(Inputs) /\ input' \in Seq(Lines)
    BY <1>1, <1>2, InputTypes
  <1>6. ~HTTP => acc'.chunks = Len(input')
    BY <1>2, <1>3
  <1> QED
    BY <1>1, <1>2, <1>3, <1>4, <1>5, <1>6, TypeTimeFrom

LEMMA ReadPlainLineTimes ==
    ASSUME TypeInv, TimeInv, NEW t \in now..MaxTime, NEW l \in Payloads \cup {"blank"},
           ReadPlainLine(l, t)
    PROVE  TypeInv' /\ TimeInv'
  <1>1. /\ kind = "lines" /\ pc = "read" /\ now' = t /\ kind' = kind /\ header' = header
        /\ input' = Append(input, l) /\ pc' = pc /\ ended' = ended /\ eventLines' = eventLines
        /\ acc' = IF l = "blank" THEN acc ELSE Take(acc, Chunk[l], t)
    BY DEF ReadPlainLine, Read, Continue
  <1>2. /\ t \in Nat /\ t > 0 /\ HTTP /\ eventLines \in Seq(EventLines)
        /\ ended = "no"
    <2>1. HTTP
      BY <1>1 DEF HTTP
    <2> QED
      BY <1>1, <2>1, ReadFacts DEF TypeInv
  <1>3. acc' \in Accumulators /\ Times(acc', t)
    <2>1. CASE l # "blank"
      <3>1. Chunk[l] \in Chunks
        BY <2>1, ChunkType
      <3>2. /\ Times(Take(acc, Chunk[l], t), t)
            /\ Take(acc, Chunk[l], t) \in Accumulators
        BY <1>2, <3>1, ReadFacts, TakeTimes
      <3> QED
        BY <1>1, <2>1, <3>2
    <2>2. CASE l = "blank"
      BY <1>1, <1>2, <2>2, ReadFacts
    <2> QED
      BY <2>1, <2>2
  <1>4. input' \in Seq(Inputs) /\ input' \in Seq(Lines)
    BY <1>1, <1>2, InputTypes
  <1>5. ~HTTP => acc'.chunks = Len(input')
    BY <1>2, <1>3
  <1> QED
    BY <1>1, <1>2, <1>3, <1>4, <1>5, TypeTimeFrom

LEMMA EndOfBodyTimes ==
    ASSUME TypeInv, TimeInv, NEW t \in now..MaxTime, EndOfBody(t)
    PROVE  TypeInv' /\ TimeInv'
  <1>1. /\ kind \in {"sse", "lines"} /\ pc = "read" /\ now' = t /\ kind' = kind /\ header' = header
        /\ input' = input /\ pc' = "returned" /\ eventLines' = << >>
        /\ acc' = IF kind = "sse" THEN Flush(acc, eventLines, t) ELSE [acc EXCEPT !.done = TRUE]
    BY DEF EndOfBody, Read, Return
  <1>2. /\ t \in Nat /\ t > 0 /\ HTTP /\ eventLines \in Seq(EventLines)
        /\ input \in Seq(Inputs) /\ input \in Seq(Lines)
    <2>1. HTTP
      BY <1>1 DEF HTTP
    <2> QED
      BY <1>1, <2>1, ReadFacts DEF TypeInv
  <1>3. acc' \in Accumulators /\ Times(acc', t)
    <2>1. CASE kind = "sse"
      <3>1. /\ Times(Flush(acc, eventLines, t), t)
            /\ Flush(acc, eventLines, t) \in Accumulators
        BY <1>2, ReadFacts, FlushTimes
      <3> QED
        BY <1>1, <2>1, <3>1
    <2>2. CASE kind # "sse"
      BY <1>1, <1>2, <2>2, ReadFacts, DoneIs
    <2> QED
      BY <2>1, <2>2
  <1>4. ~HTTP => acc'.chunks = Len(input')
    BY <1>2, <1>3
  <1>5. eventLines' \in Seq(EventLines)
    BY <1>1
  <1> QED
    BY <1>1, <1>2, <1>3, <1>4, <1>5, TypeTimeFrom

LEMMA EndInLineTimes ==
    ASSUME TypeInv, TimeInv, NEW t \in now..MaxTime, NEW l \in Payloads, EndInLine(l, t)
    PROVE  TypeInv' /\ TimeInv'
  <1>1. /\ kind \in {"sse", "lines"} /\ pc = "read" /\ now' = t /\ kind' = kind /\ header' = header
        /\ input' = Append(input, l) /\ pc' = "returned" /\ eventLines' = eventLines
        /\ acc' = IF kind = "sse" THEN acc ELSE [Take(acc, Chunk[l], t) EXCEPT !.done = TRUE]
    BY DEF EndInLine, Read, Return
  <1>2. /\ t \in Nat /\ t > 0 /\ HTTP /\ eventLines \in Seq(EventLines)
    <2>1. HTTP
      BY <1>1 DEF HTTP
    <2> QED
      BY <1>1, <2>1, ReadFacts DEF TypeInv
  <1>3. acc' \in Accumulators /\ Times(acc', t)
    <2>1. CASE kind # "sse"
      <3>1. Chunk[l] \in Chunks
        BY ChunkType
      <3>2. /\ Times(Take(acc, Chunk[l], t), t)
            /\ Take(acc, Chunk[l], t) \in Accumulators
        BY <1>2, <3>1, ReadFacts, TakeTimes
      <3> QED
        BY <1>1, <1>2, <2>1, <3>2, DoneIs
    <2>2. CASE kind = "sse"
      BY <1>1, <1>2, <2>2, ReadFacts
    <2> QED
      BY <2>1, <2>2
  <1>4. input' \in Seq(Inputs) /\ input' \in Seq(Lines)
    BY <1>1, <1>2, InputTypes
  <1>5. ~HTTP => acc'.chunks = Len(input')
    BY <1>2, <1>3
  <1> QED
    BY <1>1, <1>2, <1>3, <1>4, <1>5, TypeTimeFrom

\* The actions of a WebSocket.
LEMMA WebSocketTimes ==
    ASSUME TypeInv, TimeInv, NEW t \in now..MaxTime,
           \/ \E f \in {"text", "phrase", "ping", "binary"} : ReadFrame(f, t)
           \/ CloseFrame(t) \/ EndOfConnection(t) \/ \E betweenFields \in BOOLEAN : EndInFrame(betweenFields, t)
    PROVE  TypeInv' /\ TimeInv'
  <1>1. /\ kind = "ws" /\ pc = "read" /\ now' = t /\ kind' = kind /\ header' = header
        /\ eventLines' = eventLines
    BY DEF ReadFrame, CloseFrame, EndOfConnection, EndInFrame, Read
  <1>2. ~HTTP
    BY <1>1 DEF HTTP
  <1>3. /\ t \in Nat /\ t > 0 /\ acc.chunks = Len(input) /\ eventLines \in Seq(EventLines)
        /\ input \in Seq(Inputs) /\ acc \in Accumulators /\ Times(acc, t)
    BY <1>1, <1>2, ReadFacts DEF TypeInv
  <1> DEFINE m == Mark(acc, t)
  <1>4. m \in Accumulators /\ Times(m, t) /\ m.chunks = acc.chunks + 1
    <2>1. Times(m, t)
      BY <1>1, ReadFacts, MarkTimes
    <2>2. m \in Accumulators /\ m.chunks = acc.chunks + 1
      BY ReadFacts, MarkIs
    <2> QED
      BY <2>1, <2>2
  <1> HIDE DEF m
  <1>5. CASE \E f \in {"text", "phrase", "ping", "binary"} : ReadFrame(f, t)
    <2>1. PICK f \in {"text", "phrase", "ping", "binary"} : ReadFrame(f, t)
      BY <1>5
    <2> DEFINE w == IF f \in Payloads THEN m.words + Chunk[f].words ELSE m.words
    <2>2. /\ acc' = [m EXCEPT !.words = w]
          /\ input' = Append(input, f) /\ pc' = pc /\ ended' = ended
      BY <2>1 DEF ReadFrame, Continue, m
    <2>8. w \in Nat
      <3>1. m.words \in Nat
        BY <1>4 DEF Accumulators
      <3>2. f \in Payloads => Chunk[f].words \in Nat
        BY ChunkType DEF Chunks
      <3> QED
        BY <3>1, <3>2
    <2> HIDE DEF w
    <2>3. /\ acc' \in Accumulators /\ acc'.first = m.first /\ acc'.last = m.last /\ acc'.itl = m.itl
          /\ acc'.chunks = m.chunks
      BY <1>4, <2>2, <2>8 DEF Accumulators
    <2>4. Times(acc', t)
      BY <1>3, <1>4, <2>3, TimesKept
    <2>5. input' \in Seq(Inputs) /\ Len(input') = Len(input) + 1
      BY <2>2, InputTypes
    <2>6. ~HTTP => acc'.chunks = Len(input')
      BY <1>2, <1>3, <1>4, <2>3, <2>5
    <2>7. ended' = "no"
      BY <1>1, <2>2 DEF TypeInv
    <2> QED
      BY <1>1, <1>2, <1>3, <2>2, <2>3, <2>4, <2>5, <2>6, <2>7, TypeTimeFrom
  <1>6. CASE CloseFrame(t)
    <2>1. acc' = [m EXCEPT !.done = TRUE] /\ input' = Append(input, "close") /\ pc' = "returned"
      BY <1>6 DEF CloseFrame, Return, m
    <2>2. acc' \in Accumulators /\ Times(acc', t) /\ acc'.chunks = m.chunks
      BY <1>3, <1>4, <2>1, DoneIs
    <2>3. input' \in Seq(Inputs) /\ Len(input') = Len(input) + 1
      BY <2>1, InputTypes
    <2>4. ~HTTP => acc'.chunks = Len(input')
      BY <1>2, <1>3, <1>4, <2>2, <2>3
    <2> QED
      BY <1>1, <1>2, <1>3, <2>1, <2>2, <2>3, <2>4, TypeTimeFrom
  <1>7. CASE EndOfConnection(t) \/ \E betweenFields \in BOOLEAN : EndInFrame(betweenFields, t)
    <2>1. (acc' = acc \/ acc' = [acc EXCEPT !.done = TRUE]) /\ input' = input /\ pc' = "returned"
      BY <1>7 DEF EndOfConnection, EndInFrame, Return
    <2>2. acc' \in Accumulators /\ Times(acc', t) /\ acc'.chunks = acc.chunks
      BY <1>3, <2>1, DoneIs
    <2>3. ~HTTP => acc'.chunks = Len(input')
      BY <1>2, <1>3, <2>1, <2>2
    <2> QED
      BY <1>1, <1>2, <1>3, <2>1, <2>2, <2>3, TypeTimeFrom
  <1> QED
    BY <1>5, <1>6, <1>7

\* The messages of a gRPC stream and the ends that leave everything else alone.
LEMMA MessageTimes ==
    ASSUME TypeInv, TimeInv, NEW t \in now..MaxTime,
           \/ \E m \in {"text", "usage"} : ReadMessage(m, t)
           \/ EndOfStream(t) \/ ReadBody(t) \/ UnaryAnswer(t)
    PROVE  TypeInv' /\ TimeInv'
  <1>1. /\ pc = "read" /\ now' = t /\ kind' = kind /\ header' = header /\ eventLines' = eventLines
    BY DEF ReadMessage, EndOfStream, ReadBody, UnaryAnswer, Read
  <1>2. /\ t \in Nat /\ t > 0 /\ eventLines \in Seq(EventLines) /\ input \in Seq(Inputs)
        /\ HTTP => input \in Seq(Lines)
        /\ acc \in Accumulators /\ Times(acc, t)
        /\ ~HTTP => acc.chunks = Len(input)
    BY <1>1, ReadFacts DEF TypeInv
  <1>3. CASE \E m \in {"text", "usage"} : ReadMessage(m, t)
    <2>1. PICK f \in {"text", "usage"} : ReadMessage(f, t)
      BY <1>3
    <2> DEFINE m == Mark(acc, t)
    <2>2. m \in Accumulators /\ Times(m, t) /\ m.chunks = acc.chunks + 1
      <3>1. Times(m, t)
        BY <1>1, ReadFacts, MarkTimes
      <3>2. m \in Accumulators /\ m.chunks = acc.chunks + 1
        BY ReadFacts, MarkIs
      <3> QED
        BY <3>1, <3>2
    <2>3. MessageTokens(f) \in Nat
      BY ChunkType DEF MessageTokens, Chunks
    <2>4. /\ acc' = [m EXCEPT !.tokens = @ + MessageTokens(f)] /\ kind = "grpc"
          /\ input' = Append(input, f) /\ pc' = pc /\ ended' = ended
      BY <2>1 DEF ReadMessage, Continue, m
    <2> HIDE DEF m
    <2>5. /\ acc' \in Accumulators /\ acc'.first = m.first /\ acc'.last = m.last /\ acc'.itl = m.itl
          /\ acc'.chunks = m.chunks
      <3> DEFINE k == m.tokens + MessageTokens(f)
      <3>1. k \in Nat
        <4>1. m.tokens \in Nat
          BY <2>2 DEF Accumulators
        <4> QED
          BY <2>3, <4>1
      <3>2. acc' = [m EXCEPT !.tokens = k]
        BY <2>4
      <3> HIDE DEF k
      <3> QED
        BY <2>2, <3>1, <3>2 DEF Accumulators
    <2>6. Times(acc', t)
      BY <1>2, <2>2, <2>5, TimesKept
    <2>7. input' \in Seq(Inputs) /\ Len(input') = Len(input) + 1
      BY <2>4, InputTypes
    <2>8. ~HTTP
      BY <2>4 DEF HTTP
    <2>9. ~HTTP => acc'.chunks = Len(input')
      BY <1>2, <2>2, <2>5, <2>7, <2>8
    <2>10. ended' = "no"
      BY <1>1, <2>4 DEF TypeInv
    <2> QED
      BY <1>1, <1>2, <2>4, <2>5, <2>6, <2>7, <2>8, <2>9, <2>10, TypeTimeFrom
  <1>4. CASE EndOfStream(t) \/ ReadBody(t) \/ UnaryAnswer(t)
    <2>1. acc' = acc /\ input' = input /\ pc' = "returned"
      BY <1>4 DEF EndOfStream, ReadBody, UnaryAnswer, Return
    <2> QED
      BY <1>1, <1>2, <2>1, TypeTimeFrom
  <1> QED
    BY <1>3, <1>4

LEMMA TypeTimeStep ==
    ASSUME TypeInv, TimeInv, [Next]_vars
    PROVE  TypeInv' /\ TimeInv'
  <1>1. CASE UNCHANGED vars
    BY <1>1 DEF vars, TypeInv, TimeInv, HTTP
  <1>2. CASE Next
    BY <1>2, RequestTimes, ReadEventLineTimes, ReadPlainLineTimes, EndOfBodyTimes, EndInLineTimes,
       WebSocketTimes, MessageTimes DEF Next
  <1> QED
    BY <1>1, <1>2

\* The last lines of an input that grows.
LEMMA TailGrows ==
    ASSUME NEW S, NEW s \in Seq(S), NEW l \in S, NEW m \in 0..Len(s)
    PROVE  LET n == Len(s)
           IN  SubSeq(Append(s, l), n - m + 1, n + 1) = Append(SubSeq(s, n - m + 1, n), l)
  <1> DEFINE n == Len(s)
             k == n - m
             u == Append(s, l)
             e == SubSeq(s, k + 1, n)
             v == SubSeq(u, k + 1, n + 1)
             w == Append(e, l)
  <1>1. /\ n \in Nat /\ m \in Nat /\ m <= n /\ \A i \in 1..n : s[i] \in S
        /\ u \in Seq(S) /\ u[n + 1] = l /\ \A i \in 1..n : u[i] = s[i]
    OBVIOUS
  <1> HIDE DEF n, u
  <1>2. k \in Nat /\ k <= n /\ n - (k + 1) + 1 = m /\ (n + 1) - (k + 1) + 1 = m + 1
    BY <1>1
  <1> HIDE DEF k
  <1>3. /\ e \in Seq(S) /\ Len(e) = m
        /\ \A i \in 1..m : e[i] = s[k + i]
    <2>1. \A i \in (k + 1)..n : s[i] \in S
      BY <1>1, <1>2
    <2>2. /\ e \in Seq(S) /\ Len(e) = (IF k + 1 <= n THEN n - (k + 1) + 1 ELSE 0)
          /\ \A i \in 1..(n - (k + 1) + 1) : e[i] = s[k + 1 + i - 1]
      BY <1>1, <1>2, <2>1, SubSeqProperties
    <2>3. \A i \in 1..m : k + 1 + i - 1 = k + i
      BY <1>1, <1>2
    <2> HIDE DEF e
    <2>4. Len(e) = m
      BY <1>1, <1>2, <2>2 DEF k
    <2> QED
      BY <1>2, <2>2, <2>3, <2>4
  <1>4. /\ v \in Seq(S) /\ Len(v) = m + 1
        /\ \A i \in 1..(m + 1) : v[i] = u[k + i]
    <2>1. \A i \in (k + 1)..(n + 1) : u[i] \in S
      BY <1>1, <1>2
    <2>2. /\ v \in Seq(S) /\ Len(v) = (IF k + 1 <= n + 1 THEN (n + 1) - (k + 1) + 1 ELSE 0)
          /\ \A i \in 1..((n + 1) - (k + 1) + 1) : v[i] = u[k + 1 + i - 1]
      BY <1>1, <1>2, <2>1, SubSeqProperties
    <2>3. \A i \in 1..(m + 1) : k + 1 + i - 1 = k + i
      BY <1>1, <1>2
    <2> HIDE DEF v
    <2> QED
      BY <1>1, <1>2, <2>2, <2>3
  <1> HIDE DEF e, v
  <1>5. /\ w \in Seq(S) /\ Len(w) = m + 1
        /\ w[m + 1] = l /\ \A i \in 1..m : w[i] = e[i]
    BY <1>3
  <1> HIDE DEF w
  <1>6. ASSUME NEW i \in 1..(m + 1) PROVE v[i] = w[i]
    <2>1. CASE i \in 1..m
      <3>1. k + i \in 1..n
        BY <1>1, <2>1 DEF k
      <3>2. v[i] = u[k + i] /\ u[k + i] = s[k + i]
        BY <1>1, <1>4, <3>1
      <3> QED
        BY <1>3, <1>5, <2>1, <3>2
    <2>2. CASE i = m + 1
      <3>1. k + i = n + 1
        BY <1>1, <2>2 DEF k
      <3> QED
        BY <1>1, <1>4, <1>5, <2>2, <3>1
    <2> QED
      BY <1>1, <2>1, <2>2
  <1>7. v = w
    BY <1>4, <1>5, <1>6, SeqEqual
  <1> QED
    BY <1>7 DEF n, k, u, v, w, e

\* The lines that are kept are those of the open event.
LEMMA LinesStep ==
    ASSUME TypeInv, LinesInv, [Next]_vars
    PROVE  LinesInv'
  <1>1. CASE UNCHANGED vars
    BY <1>1 DEF vars, LinesInv
  <1>2. ASSUME NEW t, Connected(t) PROVE LinesInv'
    <2>1. UNCHANGED <<kind, eventLines, input>> /\ pc # "returned"
      BY <1>2 DEF Connected
    <2> QED
      BY <2>1 DEF LinesInv
  <1>3. ASSUME NEW t, NEW l \in Lines, ReadEventLine(l, t) PROVE LinesInv'
    <2> DEFINE n == Len(input)
               m == Len(eventLines)
               B == BlanksOf(input)
               u == Append(input, l)
    <2>1. /\ kind = "sse" /\ pc = "read" /\ input' = u
          /\ eventLines' = IF l = "blank" THEN << >> ELSE Append(eventLines, l)
      BY <1>3 DEF ReadEventLine, Read, Continue
    <2>2. /\ n \in Nat /\ m \in Nat /\ eventLines \in Seq(EventLines) /\ input \in Seq(Lines)
          /\ Len(u) = n + 1 /\ u \in Seq(Lines)
      BY <2>1, InputTypes DEF TypeInv, HTTP
    <2>3. Open(n, B, m) /\ eventLines = SubSeq(input, n - m + 1, n)
      BY <2>1 DEF LinesInv
    <2>4. BlanksOf(u) = B \cup (IF l = "blank" THEN {n + 1} ELSE {}) /\ B \subseteq 1..n
      BY <2>2, BlanksAppend DEF BlanksOf
    <2>5. m \in 0..n /\ (\A i \in (n - m + 1)..n : i \notin B) /\ (m < n => n - m \in B)
      BY <2>3 DEF Open
    <2>6. CASE l = "blank"
      <3>1. eventLines' = << >> /\ Len(eventLines') = 0
        BY <2>1, <2>6
      <3>2. BlanksOf(u) = B \cup {n + 1}
        BY <2>4, <2>6
      <3> HIDE DEF B, n, m
      <3>3. Open(n + 1, BlanksOf(u), 0)
        BY <2>2, <3>2 DEF Open
      <3>4. SubSeq(u, n + 1 - 0 + 1, n + 1) = << >>
        BY <2>2
      <3>5. Open(Len(u), BlanksOf(u), Len(eventLines'))
        BY <2>2, <3>1, <3>3
      <3>6. eventLines' = SubSeq(u, Len(u) - Len(eventLines') + 1, Len(u))
        BY <2>2, <3>1, <3>4
      <3> QED
        BY <2>1, <3>5, <3>6 DEF LinesInv
    <2>7. CASE l # "blank"
      <3>1. eventLines' = Append(eventLines, l) /\ Len(eventLines') = m + 1
        BY <2>1, <2>2, <2>7
      <3>2. BlanksOf(u) = B
        BY <2>4, <2>7
      <3>3. SubSeq(u, n - m + 1, n + 1) = Append(eventLines, l)
        BY <2>2, <2>3, <2>5, TailGrows
      <3> HIDE DEF B, u, n, m
      <3>4. Open(n + 1, B, m + 1)
        <4>1. n + 1 - (m + 1) = n - m /\ m + 1 \in 0..(n + 1)
          BY <2>2, <2>5
        <4>2. \A i \in (n - m + 1)..(n + 1) : i \notin B
          BY <2>2, <2>4, <2>5
        <4> QED
          BY <2>2, <2>5, <4>1, <4>2 DEF Open
      <3>5. Open(Len(u), BlanksOf(u), Len(eventLines'))
        BY <2>2, <3>1, <3>2, <3>4
      <3>6. eventLines' = SubSeq(u, Len(u) - Len(eventLines') + 1, Len(u))
        <4> DEFINE e == Append(eventLines, l)
        <4>1. eventLines' = e /\ Len(eventLines') = m + 1 /\ SubSeq(u, n - m + 1, n + 1) = e
          BY <3>1, <3>3
        <4> HIDE DEF e
        <4>2. n + 1 - (m + 1) + 1 = n - m + 1
          BY <2>2
        <4>3. Len(u) - Len(eventLines') + 1 = n - m + 1
          BY <2>2, <4>1, <4>2
        <4> QED
          BY <2>2, <4>1, <4>3
      <3> QED
        BY <2>1, <3>5, <3>6 DEF LinesInv
    <2> QED
      BY <2>6, <2>7
  <1>4. CASE Next
    <2>1. PICK t \in now..MaxTime :
             \/ Connected(t) \/ (\E l \in Lines : ReadEventLine(l, t))
             \/ pc' = "returned" \/ kind' # "sse"
      BY <1>4 DEF Next, RequestFails, ReadPlainLine, EndInLine, ReadFrame, ReadMessage, EndInFrame,
                  ReadBody, UnaryAnswer, EndOfBody, CloseFrame, EndOfConnection, EndOfStream,
                  ReadError, Return, Read
    <2>2. ASSUME pc' = "returned" \/ kind' # "sse" PROVE LinesInv'
      BY <2>2 DEF LinesInv
    <2> QED
      BY <1>2, <1>3, <2>1, <2>2
  <1> QED
    BY <1>1, <1>4

LEMMA CountKept ==
    ASSUME NEW k, NEW I, NEW s, NEW t, NEW a, Counted(k, I, s, a),
           \A e \in I : SaidIn(t, e) = SaidIn(s, e)
    PROVE  Counted(k, I, t, a)
  <1>1. /\ TokensOf(I, t) = TokensOf(I, s) /\ WordsOf(I, t) = WordsOf(I, s)
        /\ TextsOf(I, t) = TextsOf(I, s)
        /\ DoneIn(I, t) <=> DoneIn(I, s)
    BY ItemsKept
  <1> QED
    BY <1>1 DEF Counted

\* Where a turn of the read loop of an HTTP stream starts from.
LEMMA CountFacts ==
    ASSUME TypeInv, CountInv, kind \in {"sse", "lines"}, pc # "returned"
    PROVE  LET I == IF kind = "sse" THEN EventsIn(input, "no") ELSE LinesIn(input)
           IN  /\ input \in Seq(Lines) /\ IsFiniteSet(I)
               /\ \A e \in I : /\ SaidIn(input, e) \in Chunks
                              /\ \A l : SaidIn(Append(input, l), e) = SaidIn(input, e)
               /\ Counted(kind, I, input, acc)
  <1> DEFINE I == IF kind = "sse" THEN EventsIn(input, "no") ELSE LinesIn(input)
  <1>1. input \in Seq(Lines) /\ HTTP /\ ended = "no"
    BY DEF TypeInv, HTTP
  <1>2. I = Items
    BY <1>1, ItemsAre
  <1>3. I \in {EventsIn(input, "no"), LinesIn(input), {}}
    OBVIOUS
  <1> HIDE DEF I
  <1>4. /\ IsFiniteSet(I)
        /\ \A e \in I : /\ SaidIn(input, e) \in Chunks
                       /\ \A l : SaidIn(Append(input, l), e) = SaidIn(input, e)
    BY <1>1, <1>3, ItemsSay
  <1>5. Counted(kind, I, input, acc)
    BY <1>1, <1>2 DEF CountInv
  <1> QED
    BY <1>1, <1>4, <1>5 DEF I

\* Completing the open lines counts them.
LEMMA FlushCounts ==
    ASSUME TypeInv, LinesInv, CountInv, TimeInv, kind = "sse", pc = "read",
           NEW t \in now..MaxTime, NEW u, u \in {input, Append(input, "blank")}
    PROVE  Counted("sse", EventsIn(input, "eof"), u, Flush(acc, eventLines, t))
  <1> DEFINE n == Len(input)
             m == Len(eventLines)
             I == EventsIn(input, "no")
             x == <<n - m + 1, n>>
             c == EventChunk(eventLines)
  <1>1. /\ input \in Seq(Lines) /\ IsFiniteSet(I) /\ Counted("sse", I, input, acc)
        /\ \A e \in I : /\ SaidIn(input, e) \in Chunks
                       /\ \A l : SaidIn(Append(input, l), e) = SaidIn(input, e)
    BY CountFacts
  <1>2. \A e \in I : SaidIn(u, e) = SaidIn(input, e) /\ SaidIn(input, e) \in Chunks
    BY <1>1
  <1>3. Open(n, BlanksOf(input), m) /\ eventLines = SubSeq(input, n - m + 1, n)
    BY DEF LinesInv
  <1>4. /\ m = 0 => EventsIn(input, "eof") = I
        /\ m > 0 => EventsIn(input, "eof") = I \cup {x} /\ x \notin I
    BY <1>1, <1>3, EventCompletes
  <1>5. eventLines \in Seq(EventLines) /\ m \in Nat /\ n \in Nat
    BY <1>1 DEF TypeInv
  <1>6. CASE m = 0
    <2>1. eventLines = << >>
      BY <1>5, <1>6
    <2>2. Flush(acc, eventLines, t) = acc
      BY <2>1 DEF Flush
    <2>3. EventsIn(input, "eof") = I
      BY <1>4, <1>6
    <2> HIDE DEF I, n, m
    <2>4. Counted("sse", I, u, acc)
      BY <1>1, <1>2, CountKept
    <2> QED
      BY <2>2, <2>3, <2>4
  <1>7. CASE m > 0
    <2>1. eventLines # << >>
      BY <1>5, <1>7
    <2>2. Flush(acc, eventLines, t) = Take(acc, c, t)
      BY <2>1 DEF Flush
    <2>3. EventsIn(input, "eof") = I \cup {x} /\ x \notin I
      BY <1>4, <1>7
    <2>4. c \in Chunks
      BY <1>5, SaysChunk
    <2>5. /\ n - m + 1 \in 1..n /\ n \in 1..n /\ n - m + 1 <= n
          /\ \A i \in (n - m + 1)..n : input[i] # "blank"
      <3>1. m \in 0..n /\ \A i \in (n - m + 1)..n : i \notin BlanksOf(input)
        BY <1>3 DEF Open
      <3>2. n - m + 1 \in 1..n /\ n \in 1..n /\ n - m + 1 <= n
        BY <1>5, <1>7, <3>1
      <3>3. \A i \in (n - m + 1)..n : i \in 1..n
        BY <1>5, <3>2
      <3>4. \A i \in (n - m + 1)..n : input[i] # "blank"
        BY <3>1, <3>3 DEF BlanksOf
      <3> QED
        BY <3>2, <3>4
    <2>6. /\ SaidIn(input, x) = EventChunk(SubSeq(input, n - m + 1, n))
          /\ \A l : SaidIn(Append(input, l), x) = SaidIn(input, x)
      BY <1>1, <2>5, SaidInput
    <2>7. SaidIn(u, x) = c
      BY <1>3, <2>6
    <2>8. acc \in Accumulators /\ t \in Nat /\ acc.last <= t
      BY ReadFacts
    <2> HIDE DEF I, n, m, x, c
    <2>9. Counted("sse", I \cup {x}, u, Take(acc, c, t))
      BY ONLY <1>1, <1>2, <2>3, <2>4, <2>7, <2>8, TakeCounts
    <2> QED
      BY <2>2, <2>3, <2>9
  <1>8. m = 0 \/ m > 0
    BY <1>5
  <1> QED
    BY <1>6, <1>7, <1>8

LEMMA ReadEventLineCounts ==
    ASSUME TypeInv, LinesInv, CountInv, TimeInv, NEW t \in now..MaxTime,
           NEW l \in Lines, ReadEventLine(l, t)
    PROVE  CountInv'
  <1> DEFINE u == Append(input, l)
  <1>1. /\ kind = "sse" /\ pc = "read" /\ kind' = kind /\ input' = u /\ pc' = pc /\ ended' = ended
        /\ acc' = IF l = "blank" THEN Flush(acc, eventLines, t) ELSE acc
    BY DEF ReadEventLine, Read, Continue
  <1>2. input \in Seq(Lines) /\ ended = "no"
    BY <1>1, CountFacts DEF TypeInv
  <1>3. Items' = EventsIn(u, "no")
    BY <1>1, <1>2, ItemsAre
  <1>4. Counted("sse", EventsIn(u, "no"), u, acc')
    <2>1. CASE l = "blank"
      <3>1. Open(Len(input), BlanksOf(input), Len(eventLines))
        BY <1>1 DEF LinesInv
      <3>2. EventsIn(u, "no") = EventsIn(input, "eof")
        BY <1>2, <2>1, <3>1, EventCompletes
      <3>3. u \in {input, Append(input, "blank")}
        BY <2>1
      <3> HIDE DEF u
      <3>4. Counted("sse", EventsIn(input, "eof"), u, Flush(acc, eventLines, t))
        BY <1>1, <3>3, FlushCounts
      <3> QED
        BY <1>1, <2>1, <3>2, <3>4
    <2>2. CASE l # "blank"
      <3>1. EventsIn(u, "no") = EventsIn(input, "no")
        BY <1>2, <2>2, EventLineRead
      <3>2. /\ Counted("sse", EventsIn(input, "no"), input, acc)
            /\ \A e \in EventsIn(input, "no") : SaidIn(u, e) = SaidIn(input, e)
        BY <1>1, CountFacts
      <3> HIDE DEF u
      <3>3. Counted("sse", EventsIn(input, "no"), u, acc)
        BY <3>2, CountKept
      <3> QED
        BY <1>1, <2>2, <3>1, <3>3
    <2> QED
      BY <2>1, <2>2
  <1> HIDE DEF u
  <1> QED
    BY <1>1, <1>3, <1>4 DEF CountInv, Finished

\* A line by itself says what its payload says.
LEMMA LineSays ==
    ASSUME NEW s \in Seq(Lines), NEW l \in Payloads
    PROVE  SaidIn(Append(s, l), <<Len(s) + 1, Len(s) + 1>>) = Chunk[l]
  <1> DEFINE n == Len(s)
             u == Append(s, l)
             e == << l >>
  <1>1. SubSeq(u, n + 1, n + 1) = e
    <2>1. n \in Nat /\ u[n + 1] = l /\ l \in Lines
      BY DEF Lines
    <2> HIDE DEF u, n
    <2>2. /\ SubSeq(u, n + 1, n + 1) \in Seq(Lines)
          /\ Len(SubSeq(u, n + 1, n + 1)) = (IF n + 1 <= n + 1 THEN (n + 1) - (n + 1) + 1 ELSE 0)
          /\ \A i \in 1..((n + 1) - (n + 1) + 1) : SubSeq(u, n + 1, n + 1)[i] = u[n + 1 + i - 1]
      <3>1. \A i \in (n + 1)..(n + 1) : u[i] \in Lines
        BY <2>1
      <3> QED
        BY <2>1, <3>1, SubSeqProperties
    <2> DEFINE v == SubSeq(u, n + 1, n + 1)
    <2>3. v \in Seq(Lines) /\ Len(v) = 1 /\ v[1] = l
      BY <2>1, <2>2
    <2>4. e \in Seq(Lines) /\ Len(e) = 1 /\ e[1] = l
      BY <2>1
    <2> HIDE DEF v, e
    <2>5. v = e
      BY <2>3, <2>4, SeqEqual
    <2> QED
      BY <2>5 DEF v
  <1>2. Says(e) = EventChunk(e)
    <2>1. e \in Seq(EventLines)
      BY DEF EventLines
    <2> HIDE DEF e
    <2> QED
      BY <2>1, SaysChunk
  <1>3. EventChunk(e) = Chunk[l]
    <2>1. l # "other"
      BY ChunkType
    <2>2. DataLines(e) = {1} /\ e[1] = l
      BY <2>1 DEF DataLines
    <2>3. (CHOOSE i \in {1} : TRUE) = 1
      OBVIOUS
    <2> HIDE DEF e
    <2> QED
      BY <2>2, <2>3, ChunkType DEF EventChunk
  <1> QED
    BY <1>1, <1>2, <1>3 DEF SaidIn

\* A line that is taken is counted.
LEMMA LineCounts ==
    ASSUME TypeInv, CountInv, TimeInv, kind = "lines", pc = "read",
           NEW t \in now..MaxTime, NEW l \in Payloads
    PROVE  Counted("lines", LinesIn(Append(input, l)), Append(input, l), Take(acc, Chunk[l], t))
  <1> DEFINE I == LinesIn(input)
             u == Append(input, l)
             c == Chunk[l]
             x == <<Len(input) + 1, Len(input) + 1>>
  <1>1. /\ input \in Seq(Lines) /\ IsFiniteSet(I) /\ Counted("lines", I, input, acc)
        /\ \A e \in I : SaidIn(u, e) = SaidIn(input, e) /\ SaidIn(input, e) \in Chunks
    BY CountFacts
  <1>2. LinesIn(u) = I \cup {x} /\ x \notin I
    <2>1. l \in Lines /\ l # "blank"
      BY ChunkType DEF Lines
    <2> QED
      BY <1>1, <2>1, PlainLineRead
  <1>3. SaidIn(u, x) = c /\ c \in Chunks
    BY <1>1, LineSays, ChunkType
  <1>4. acc \in Accumulators /\ t \in Nat /\ acc.last <= t
    BY ReadFacts
  <1> HIDE DEF I, u, c, x
  <1>5. Counted("lines", I \cup {x}, u, Take(acc, c, t))
    BY ONLY <1>1, <1>2, <1>3, <1>4, TakeCounts
  <1> QED
    BY <1>2, <1>5 DEF u, c

LEMMA ReadPlainLineCounts ==
    ASSUME TypeInv, CountInv, TimeInv, NEW t \in now..MaxTime,
           NEW l \in Payloads \cup {"blank"}, ReadPlainLine(l, t)
    PROVE  CountInv'
  <1> DEFINE u == Append(input, l)
  <1>1. /\ kind = "lines" /\ pc = "read" /\ kind' = kind /\ input' = u /\ pc' = pc /\ ended' = ended
        /\ acc' = IF l = "blank" THEN acc ELSE Take(acc, Chunk[l], t)
    BY DEF ReadPlainLine, Read, Continue
  <1>2. input \in Seq(Lines)
    BY <1>1, CountFacts
  <1>3. Items' = LinesIn(u)
    BY <1>1, ItemsAre
  <1>4. Counted("lines", LinesIn(u), u, acc')
    <2>1. CASE l = "blank"
      <3>1. LinesIn(u) = LinesIn(input)
        BY <1>2, <2>1, PlainLineRead, InputTypes
      <3>2. /\ Counted("lines", LinesIn(input), input, acc)
            /\ \A e \in LinesIn(input) : SaidIn(u, e) = SaidIn(input, e)
        BY <1>1, CountFacts
      <3> HIDE DEF u
      <3>3. Counted("lines", LinesIn(input), u, acc)
        BY <3>2, CountKept
      <3> QED
        BY <1>1, <2>1, <3>1, <3>3
    <2>2. CASE l # "blank"
      BY <1>1, <2>2, LineCounts
    <2> QED
      BY <2>1, <2>2
  <1> HIDE DEF u
  <1> QED
    BY <1>1, <1>3, <1>4 DEF CountInv, Finished

\* The mark of the end changes no count but the one of events that are done.
LEMMA DoneCounts ==
    ASSUME NEW I, NEW s, NEW a \in Accumulators, Counted("lines", I, s, a)
    PROVE  Counted("lines", I, s, [a EXCEPT !.done = TRUE])
  BY DoneIs DEF Counted

LEMMA EndOfBodyCounts ==
    ASSUME TypeInv, LinesInv, CountInv, TimeInv, NEW t \in now..MaxTime, EndOfBody(t)
    PROVE  CountInv'
  <1>1. /\ kind \in {"sse", "lines"} /\ pc = "read" /\ kind' = kind /\ input' = input
        /\ ended' = "eof"
        /\ acc' = IF kind = "sse" THEN Flush(acc, eventLines, t) ELSE [acc EXCEPT !.done = TRUE]
    BY DEF EndOfBody, Read, Return
  <1>2. acc \in Accumulators
    BY DEF TypeInv
  <1>3. CASE kind = "sse"
    <2>1. Items' = EventsIn(input, "eof")
      BY <1>1, <1>3, ItemsAre
    <2>2. Counted("sse", EventsIn(input, "eof"), input, Flush(acc, eventLines, t))
      BY <1>1, <1>3, FlushCounts
    <2> QED
      BY <1>1, <1>3, <2>1, <2>2 DEF CountInv
  <1>4. CASE kind = "lines"
    <2>1. Items' = LinesIn(input)
      BY <1>1, <1>4, ItemsAre
    <2>2. Counted("lines", LinesIn(input), input, acc)
      BY <1>1, <1>4, CountFacts
    <2>3. Counted("lines", LinesIn(input), input, acc') /\ acc'.done
      BY <1>1, <1>2, <1>4, <2>2, DoneCounts, DoneIs
    <2> QED
      BY <1>1, <1>4, <2>1, <2>3 DEF CountInv
  <1> QED
    BY <1>1, <1>3, <1>4

LEMMA EndInLineCounts ==
    ASSUME TypeInv, LinesInv, CountInv, TimeInv, NEW t \in now..MaxTime,
           NEW l \in Payloads, EndInLine(l, t)
    PROVE  CountInv'
  <1> DEFINE u == Append(input, l)
  <1>1. /\ kind \in {"sse", "lines"} /\ pc = "read" /\ kind' = kind /\ input' = u
        /\ ended' = "cut"
        /\ acc' = IF kind = "sse" THEN acc ELSE [Take(acc, Chunk[l], t) EXCEPT !.done = TRUE]
    BY DEF EndInLine, Read, Return
  <1>2. input \in Seq(Lines) /\ l \in Lines /\ l # "blank"
    BY <1>1, CountFacts, ChunkType DEF Lines
  <1>3. CASE kind = "sse"
    <2>1. Items' = EventsIn(u, "cut")
      BY <1>1, <1>3, ItemsAre
    <2>2. EventsIn(u, "cut") = EventsIn(input, "no")
      BY <1>2, EventLineRead
    <2>3. /\ Counted("sse", EventsIn(input, "no"), input, acc)
          /\ \A e \in EventsIn(input, "no") : SaidIn(u, e) = SaidIn(input, e)
      BY <1>1, <1>3, CountFacts
    <2> HIDE DEF u
    <2>4. Counted("sse", EventsIn(input, "no"), u, acc)
      BY <2>3, CountKept
    <2> QED
      BY <1>1, <1>3, <2>1, <2>2, <2>4 DEF CountInv
  <1>4. CASE kind = "lines"
    <2>1. Items' = LinesIn(u)
      BY <1>1, <1>4, ItemsAre
    <2> DEFINE b == Take(acc, Chunk[l], t)
    <2>2. Counted("lines", LinesIn(u), u, b)
      BY <1>1, <1>4, LineCounts
    <2>3. b \in Accumulators
      <3>1. Chunk[l] \in Chunks
        BY ChunkType
      <3> QED
        BY <3>1, ReadFacts, TakeIs
    <2>4. acc' = [b EXCEPT !.done = TRUE]
      BY <1>1, <1>4
    <2> HIDE DEF u, b
    <2>5. Counted("lines", LinesIn(u), u, acc') /\ acc'.done
      BY <2>2, <2>3, <2>4, DoneCounts, DoneIs
    <2> QED
      BY <1>1, <1>4, <2>1, <2>5 DEF CountInv
  <1> QED
    BY <1>1, <1>3, <1>4

\* Steps that read nothing: nothing ends normally here but a plain answer.
LEMMA QuietCounts ==
    ASSUME TypeInv, CountInv, kind' = kind, acc' = acc, input' = input, pc # "returned",
           \/ ended' = "error"
           \/ ended' = ended /\ pc' = "read"
           \/ kind \notin {"sse", "lines"}
    PROVE  CountInv'
  <1>1. CASE kind = "sse"
    <2>1. ended = "no" /\ (ended' = "no" \/ ended' = "error")
      BY <1>1 DEF TypeInv
    <2>2. EventsIn(input, ended') = EventsIn(input, "no")
      BY <2>1 DEF EventsIn
    <2>3. Items' = EventsIn(input, "no")
      BY <1>1, <2>2, ItemsAre
    <2>4. Counted("sse", EventsIn(input, "no"), input, acc)
      BY <1>1, CountFacts
    <2> QED
      BY <1>1, <2>3, <2>4 DEF CountInv
  <1>2. CASE kind = "lines"
    <2>1. Items' = LinesIn(input)
      BY <1>2, ItemsAre
    <2>2. Counted("lines", LinesIn(input), input, acc)
      BY <1>2, CountFacts
    <2>3. ~Finished'
      BY <1>2 DEF Finished
    <2> QED
      BY <1>2, <2>1, <2>2, <2>3 DEF CountInv
  <1>3. CASE kind \notin {"sse", "lines"}
    <2>1. Items' = {} /\ Items = {}
      BY <1>3, ItemsAre
    <2>2. HTTP' <=> HTTP
      BY DEF HTTP
    <2> QED
      BY <1>3, <2>1, <2>2 DEF CountInv
  <1> QED
    BY <1>1, <1>2, <1>3

LEMMA CountStep ==
    ASSUME TypeInv, LinesInv, CountInv, TimeInv, [Next]_vars
    PROVE  CountInv'
  <1>1. CASE UNCHANGED vars
    <2>1. Items' = Items
      BY <1>1 DEF vars, Items, Events
    <2> QED
      BY <1>1, <2>1 DEF vars, CountInv, HTTP, Finished
  <1>2. CASE Next
    <2>1. PICK t \in now..MaxTime :
             \/ Connected(t) \/ (\E sending \in BOOLEAN : RequestFails(sending, t))
             \/ ReadError(t) \/ ReadBody(t)
             \/ \E l \in Lines : ReadEventLine(l, t)
             \/ \E l \in Payloads \cup {"blank"} : ReadPlainLine(l, t)
             \/ \E l \in Payloads : EndInLine(l, t)
             \/ EndOfBody(t)
             \/ kind' \in {"ws", "grpc", "unary"}
      BY <1>2 DEF Next, ReadFrame, ReadMessage, EndInFrame, UnaryAnswer, CloseFrame,
                  EndOfConnection, EndOfStream, Read
    <2>2. ASSUME kind' \in {"ws", "grpc", "unary"} PROVE CountInv'
      BY <2>2 DEF CountInv, HTTP
    <2>3. ASSUME \/ Connected(t) \/ (\E sending \in BOOLEAN : RequestFails(sending, t))
                 \/ ReadError(t) \/ ReadBody(t)
          PROVE  CountInv'
      <3>1. kind' = kind /\ acc' = acc /\ input' = input /\ pc # "returned"
        BY <2>3 DEF Connected, RequestFails, ReadError, ReadBody, Read
      <3>2. \/ ended' = "error"
            \/ ended' = ended /\ pc' = "read"
            \/ kind \notin {"sse", "lines"}
        BY <2>3 DEF Connected, RequestFails, ReadError, ReadBody, Return
      <3> QED
        BY <3>1, <3>2, QuietCounts
    <2> QED
      BY <2>1, <2>2, <2>3, ReadEventLineCounts, ReadPlainLineCounts, EndInLineCounts, EndOfBodyCounts
  <1> QED
    BY <1>1, <1>2

LEMMA ResultStep ==
    ASSUME TypeInv, ResultInv, [Next]_vars
    PROVE  ResultInv'
  <1>1. CASE UNCHANGED vars
    BY <1>1 DEF vars, ResultInv, Finished, HTTPResult, PlainResult, EnrichInferenceMetrics,
                EnrichAIHeaders, WSResult, GRPCResult, UnaryResult
  <1>2. ASSUME NEW t, EndOfBody(t) \/ \E l \in Payloads : EndInLine(l, t) PROVE ResultInv'
    <2>1. /\ kind' \in {"sse", "lines"} /\ now' = t /\ result' = HTTPResult(acc', t)
          /\ header' = header /\ statusOK' = statusOK
      BY <1>2 DEF EndOfBody, EndInLine, Return, Read
    <2>2. HTTPResult(acc, now)' = HTTPResult(acc', t)
      BY <2>1 DEF HTTPResult, EnrichInferenceMetrics, EnrichAIHeaders
    <2> QED
      BY <2>1, <2>2 DEF ResultInv
  <1>3. ASSUME NEW t, CloseFrame(t) \/ EndOfConnection(t) \/ \E b \in BOOLEAN : EndInFrame(b, t)
        PROVE  ResultInv'
    <2>1. /\ kind' = "ws" /\ now' = t
          /\ result' = WSResult(acc', t) \/ ended' = "error"
      BY <1>3 DEF CloseFrame, EndOfConnection, EndInFrame, Return, Read
    <2> QED
      BY <2>1 DEF ResultInv, Finished
  <1>4. ASSUME NEW t, EndOfStream(t) PROVE ResultInv'
    <2>1. kind' = "grpc" /\ now' = t /\ result' = GRPCResult(acc', t)
      BY <1>4 DEF EndOfStream, Return, Read
    <2> QED
      BY <2>1 DEF ResultInv
  <1>5. ASSUME NEW t, ReadBody(t) PROVE ResultInv'
    <2>1. /\ kind' = "http" /\ now' = t /\ result' = PlainResult(t)
          /\ header' = header /\ statusOK' = statusOK /\ acc' = acc
      BY <1>5 DEF ReadBody, Return, Read
    <2>2. PlainResult(now)' = PlainResult(t)
      BY <2>1 DEF PlainResult, EnrichInferenceMetrics, EnrichAIHeaders
    <2> QED
      BY <2>1, <2>2 DEF ResultInv
  <1>6. ASSUME NEW t, UnaryAnswer(t) PROVE ResultInv'
    <2>1. kind' = "unary" /\ now' = t /\ result' = UnaryResult(t)
      BY <1>6 DEF UnaryAnswer, Return, Read
    <2> QED
      BY <2>1 DEF ResultInv
  <1>7. ASSUME ended' = "error" \/ pc' # "returned" PROVE ResultInv'
    BY <1>7 DEF ResultInv, Finished
  <1>8. CASE Next
    <2>1. PICK t \in now..MaxTime :
             \/ EndOfBody(t) \/ (\E l \in Payloads : EndInLine(l, t))
             \/ CloseFrame(t) \/ EndOfConnection(t) \/ (\E b \in BOOLEAN : EndInFrame(b, t))
             \/ EndOfStream(t) \/ ReadBody(t) \/ UnaryAnswer(t)
             \/ ended' = "error" \/ pc' # "returned"
      BY <1>8 DEF Next, Connected, RequestFails, ReadError, Return, ReadEventLine, ReadPlainLine,
                  ReadFrame, ReadMessage, Continue, Read
    <2> QED
      BY <1>2, <1>3, <1>4, <1>5, <1>6, <1>7, <2>1
  <1> QED
    BY <1>1, <1>8

LEMMA UnaryStep ==
    ASSUME UnaryInv, [Next]_vars
    PROVE  UnaryInv'
  <1>1. UNCHANGED vars => UNCHANGED <<kind, input>>
    BY DEF vars
  <1>2. Next => kind' = kind /\ (input' = input \/ kind # "unary")
    BY DEF Next, Connected, RequestFails, ReadEventLine, ReadPlainLine, EndInLine, ReadFrame, ReadMessage,
           EndInFrame, ReadBody, UnaryAnswer, EndOfBody, CloseFrame, EndOfConnection, EndOfStream,
           ReadError, Read, Continue
  <1> QED
    BY <1>1, <1>2 DEF UnaryInv

LEMMA InitHolds == Init => StreamInv
  <1> SUFFICES ASSUME Init PROVE StreamInv
    OBVIOUS
  <1>1. /\ kind \in Kinds /\ header \in (IF HTTP THEN Headers ELSE {NoHeader})
        /\ now = 0 /\ eventLines = << >> /\ pc = "request" /\ input = << >> /\ ended = "no"
        /\ acc = [first |-> 0, last |-> 0, itl |-> << >>, chunks |-> 0, words |-> 0,
                  tokens |-> 0, done |-> FALSE]
    BY DEF Init, start
  <1>2. acc \in Accumulators
    BY <1>1 DEF Accumulators
  <1>3. header \in HeaderValues
    <2>1. NoHeader \in HeaderValues
      BY DEF NoHeader, HeaderValues
    <2> QED
      BY <1>1, <2>1, HeadersAssumption DEF HeaderValues
  <1>4. TypeInv
    BY <1>1, <1>2, <1>3, KindsAssumption DEF TypeInv
  <1>5. LinesInv
    <2>1. BlanksOf(input) = {} /\ Len(input) = 0 /\ Len(eventLines) = 0
      BY <1>1 DEF BlanksOf
    <2>2. Open(0, {}, 0)
      BY DEF Open
    <2>3. eventLines = SubSeq(input, 0 - 0 + 1, 0)
      BY <1>1
    <2> QED
      BY <2>1, <2>2, <2>3 DEF LinesInv
  <1>6. CountInv
    <2>1. Items = {}
      <3>1. EventsIn(input, ended) = {} /\ LinesIn(input) = {}
        BY <1>1 DEF EventsIn, LinesIn
      <3> QED
        BY <3>1, ItemsAre
    <2>2. acc.tokens = 0 /\ acc.words = 0 /\ acc.chunks = 0 /\ ~acc.done
      BY <1>1
    <2>3. Counted(kind, {}, input, acc)
      BY <2>2, NoItems DEF Counted
    <2>4. ~Finished
      BY <1>1 DEF Finished
    <2> QED
      BY <2>1, <2>3, <2>4 DEF CountInv
  <1>7. TimeInv
    <2>1. /\ acc.first = 0 /\ acc.last = 0 /\ acc.itl = << >> /\ acc.chunks = 0 /\ acc.words = 0
          /\ Len(input) = 0
      BY <1>1
    <2>2. Times(acc, now)
      BY <1>1, <2>1, FoldNothing DEF Times
    <2>3. pc # "read"
      BY <1>1
    <2> QED
      BY <2>1, <2>2, <2>3 DEF TimeInv
  <1>8. ResultInv
    BY <1>1 DEF ResultInv, Finished
  <1>9. UnaryInv
    BY <1>1 DEF UnaryInv
  <1> QED
    BY <1>4, <1>5, <1>6, <1>7, <1>8, <1>9 DEF StreamInv

\* The inductive invariant of a request holds, for any headers, input and times.
THEOREM Invariant == Spec => []StreamInv
  <1>1. Init => StreamInv
    BY InitHolds
  <1>2. StreamInv /\ [Next]_vars => StreamInv'
    BY TypeTimeStep, LinesStep, CountStep, ResultStep, UnaryStep DEF StreamInv
  <1> QED
    BY <1>1, <1>2, PTL DEF Spec

-----------------------------------------------------------------------------
(* The properties.                                                         *)

\* The parts of a result of an HTTP stream and of a plain answer.
LEMMA HTTPResultIs ==
    ASSUME NEW a, NEW t
    PROVE  LET reported  == IF a.tokens > 0 THEN a.tokens ELSE header.tokens
               estimated == reported = 0 /\ a.words > 0
               tokens    == IF estimated THEN a.words ELSE reported
               gen       == IF a.first = 0 THEN header.gen ELSE a.last - a.first
               ttft      == IF a.first = 0 THEN header.ttft ELSE a.first - 0
               given     == IF header.rate > 0 THEN <<header.rate, 1>> ELSE Rate(reported, header.gen)
               r         == HTTPResult(a, t)
           IN  /\ r.tokens = IF tokens = 0 THEN header.aiTokens ELSE tokens
               /\ r.estimated = estimated
               /\ r.aborted = (header.aborted \/ ~a.done)
               /\ r.itl = a.itl /\ r.gen = gen /\ r.latency = t - 0
               /\ r.ttft = IF ttft = 0 THEN header.aiTTFT ELSE ttft
               /\ r.rate = IF given = NoRate THEN Rate(tokens, gen) ELSE given
  BY DEF HTTPResult, EnrichInferenceMetrics, EnrichAIHeaders, TTFT, GenerationTime, start

LEMMA PlainResultIs ==
    ASSUME NEW t
    PROVE  LET reported == IF acc.tokens > 0 THEN acc.tokens ELSE header.tokens
               r        == PlainResult(t)
           IN  /\ r.tokens = IF reported = 0 THEN header.aiTokens ELSE reported
               /\ r.estimated = FALSE
               /\ r.aborted = header.aborted
               /\ r.rate = IF header.rate > 0 THEN <<header.rate, 1>> ELSE Rate(reported, header.gen)
  BY DEF PlainResult, EnrichInferenceMetrics, EnrichAIHeaders

\* The kind of a request that has ended decides its result.
LEMMA ResultIs ==
    ASSUME StreamInv, Finished
    PROVE  /\ kind \in {"sse", "lines"} => result = HTTPResult(acc, now)
           /\ kind = "ws"    => result = WSResult(acc, now)
           /\ kind = "grpc"  => result = GRPCResult(acc, now)
           /\ kind = "http"  => result = PlainResult(now)
           /\ kind = "unary" => result = UnaryResult(now)
           /\ kind \in {"sse", "lines", "ws", "grpc", "http", "unary"}
           /\ acc \in Accumulators /\ header \in HeaderValues /\ now \in Nat
           /\ HTTP => acc.tokens = Reported /\ acc.words = Words /\ acc.chunks = WithText
           /\ kind = "sse" => (acc.done <=> ~\A e \in Items : ~Said(e).done)
           /\ kind = "lines" => acc.done
           /\ kind = "http" => Reported = 0 /\ Words = 0 /\ WithText = 0
  <1>1. /\ kind \in {"sse", "lines", "ws", "grpc", "http", "unary"}
        /\ acc \in Accumulators /\ header \in HeaderValues /\ now \in Nat
    BY DEF StreamInv, TypeInv
  <1>2. /\ kind \in {"sse", "lines"} => result = HTTPResult(acc, now)
        /\ kind = "ws"    => result = WSResult(acc, now)
        /\ kind = "grpc"  => result = GRPCResult(acc, now)
        /\ kind = "http"  => result = PlainResult(now)
        /\ kind = "unary" => result = UnaryResult(now)
    BY DEF StreamInv, ResultInv
  <1>3. HTTP => Counted(kind, Items, input, acc) /\ (kind = "lines" => acc.done)
    BY DEF StreamInv, CountInv
  <1>4. HTTP => acc.tokens = Reported /\ acc.words = Words /\ acc.chunks = WithText
    BY <1>3, ItemSums DEF Counted
  <1>5. kind = "sse" => (acc.done <=> ~\A e \in Items : ~Said(e).done)
    BY <1>3, ItemSums DEF Counted, HTTP
  <1>6. kind = "lines" => acc.done
    BY <1>3 DEF HTTP
  <1>7. kind = "http" => Reported = 0 /\ Words = 0 /\ WithText = 0
    BY ItemsAre, ItemSums, NoItems
  <1> QED
    BY <1>1, <1>2, <1>4, <1>5, <1>6, <1>7

\* The tokens of an HTTP stream are counted once: those its complete events report,
\* or else what takes their place, in the order of the code.
THEOREM TokensAreExact == Spec => []TokensExact
  <1>1. StreamInv => TokensExact
    <2> SUFFICES ASSUME StreamInv, Finished, HTTP
                 PROVE  LET reported == IF Reported > 0 THEN Reported ELSE header.tokens
                        IN  /\ result.tokens = CASE reported > 0 -> reported
                                                 [] reported = 0 /\ Words > 0 -> Words
                                                 [] OTHER -> header.aiTokens
                            /\ result.estimated <=> reported = 0 /\ Words > 0
      BY DEF TokensExact
    <2> DEFINE n == Reported
               w == Words
               h == header.tokens
               reported == IF n > 0 THEN n ELSE h
    <2>1. acc.tokens = n /\ acc.words = w
      BY ResultIs
    <2>2. n \in Nat /\ w \in Nat /\ h \in Nat
      BY <2>1, ResultIs DEF Accumulators, HeaderValues
    <2> HIDE DEF n, w, h
    <2>3. reported \in Nat
      BY <2>2
    <2>4. CASE kind \in {"sse", "lines"}
      <3> DEFINE tokens == IF reported = 0 /\ w > 0 THEN w ELSE reported
      <3>1. result = HTTPResult(acc, now)
        BY <2>4, ResultIs
      <3>2. /\ result.tokens = IF tokens = 0 THEN header.aiTokens ELSE tokens
            /\ result.estimated = (reported = 0 /\ w > 0)
        BY <2>1, <3>1, HTTPResultIs DEF h
      <3> HIDE DEF reported
      <3>3. result.tokens = CASE reported > 0 -> reported
                              [] reported = 0 /\ w > 0 -> w
                              [] OTHER -> header.aiTokens
        BY <2>2, <2>3, <3>2
      <3> QED
        BY <3>2, <3>3 DEF reported, n, w, h
    <2>5. CASE kind = "http"
      <3>1. result = PlainResult(now) /\ w = 0
        BY <2>5, ResultIs DEF w
      <3>2. /\ result.tokens = IF reported = 0 THEN header.aiTokens ELSE reported
            /\ result.estimated = FALSE
        BY <2>1, <3>1, PlainResultIs DEF h
      <3> HIDE DEF reported
      <3>3. ~(w > 0)
        BY <2>2, <3>1
      <3>4. result.tokens = CASE reported > 0 -> reported
                              [] reported = 0 /\ w > 0 -> w
                              [] OTHER -> header.aiTokens
        BY <2>3, <3>2, <3>3
      <3> QED
        BY <3>2, <3>3, <3>4 DEF reported, n, w, h
    <2> QED
      BY <2>4, <2>5 DEF HTTP
  <1> QED
    BY <1>1, Invariant, PTL

\* A stream is reported as aborted exactly when it is, or when the server says so.
THEOREM AbortsAreExact == Spec => []AbortedExact
  <1>1. StreamInv => AbortedExact
    <2> SUFFICES ASSUME StreamInv, Finished
                 PROVE  /\ kind = "sse" =>
                              (result.aborted <=> header.aborted \/ \A e \in Items : ~Said(e).done)
                        /\ kind \in {"lines", "http"} => result.aborted = header.aborted
      BY DEF AbortedExact
    <2>1. header.aborted \in BOOLEAN /\ acc.done \in BOOLEAN
      BY ResultIs DEF HeaderValues, Accumulators
    <2>2. ASSUME kind = "sse"
          PROVE  result.aborted <=> header.aborted \/ \A e \in Items : ~Said(e).done
      <3>1. result.aborted = (header.aborted \/ ~acc.done)
        BY <2>2, ResultIs, HTTPResultIs
      <3>2. acc.done <=> ~\A e \in Items : ~Said(e).done
        BY <2>2, ResultIs
      <3> QED
        BY <3>1, <3>2
    <2>3. ASSUME kind = "lines" PROVE result.aborted = header.aborted
      <3>1. result.aborted = (header.aborted \/ ~acc.done) /\ acc.done
        BY <2>3, ResultIs, HTTPResultIs
      <3> QED
        BY <2>1, <3>1
    <2>4. ASSUME kind = "http" PROVE result.aborted = header.aborted
      BY <2>4, ResultIs, PlainResultIs
    <2> QED
      BY <2>2, <2>3, <2>4
  <1> QED
    BY <1>1, Invariant, PTL

\* The latencies between chunks, the generation time and the latency agree.
THEOREM TimingIsExact == Spec => []TimingAddsUp
  <1>1. StreamInv => TimingAddsUp
    <2> SUFFICES ASSUME StreamInv, Finished, Timed > 0
                 PROVE  /\ Len(result.itl) = Timed - 1
                        /\ Total(result.itl) = result.gen
                        /\ result.ttft + result.gen <= result.latency
      BY DEF TimingAddsUp, Total
    <2>1. acc.chunks = Timed
      <3>1. ~HTTP => acc.chunks = Len(input)
        BY DEF StreamInv, TimeInv
      <3>2. Timed = IF HTTP THEN WithText ELSE Len(input)
        BY DEF Timed
      <3> QED
        BY <3>1, <3>2, ResultIs
    <2>2. Times(acc, now)
      BY DEF StreamInv, TimeInv
    <2>3. /\ acc.first \in Nat /\ acc.last \in Nat /\ acc.chunks \in Nat /\ now \in Nat
      BY ResultIs DEF Accumulators
    <2>4. /\ acc.first # 0 /\ acc.first <= acc.last /\ acc.last <= now
          /\ Len(acc.itl) = acc.chunks - 1
          /\ Total(acc.itl) = acc.last - acc.first
      BY <2>1, <2>2, <2>3 DEF Times
    <2>5. /\ result.itl = acc.itl /\ result.gen = acc.last - acc.first
          /\ result.ttft = acc.first /\ result.latency = now - 0
      <3>1. CASE kind \in {"sse", "lines"}
        <4>1. result = HTTPResult(acc, now)
          BY <3>1, ResultIs
        <4>2. /\ result.itl = acc.itl /\ result.gen = acc.last - acc.first
              /\ result.latency = now - 0
              /\ result.ttft = IF acc.first - 0 = 0 THEN header.aiTTFT ELSE acc.first - 0
          BY <2>4, <4>1, HTTPResultIs
        <4> QED
          BY <2>3, <2>4, <4>2
      <3>2. CASE kind = "ws"
        <4>1. result = WSResult(acc, now)
          BY <3>2, ResultIs
        <4>2. /\ result.itl = acc.itl /\ result.gen = acc.last - acc.first
              /\ result.latency = now - 0 /\ result.ttft = acc.first - 0
          BY <2>4, <4>1 DEF WSResult, TTFT, GenerationTime, start
        <4> QED
          BY <2>3, <4>2
      <3>3. CASE kind = "grpc"
        <4>1. result = GRPCResult(acc, now)
          BY <3>3, ResultIs
        <4>2. /\ result.itl = acc.itl /\ result.gen = acc.last - acc.first
              /\ result.latency = now - 0 /\ result.ttft = acc.first - 0
          BY <2>4, <4>1 DEF GRPCResult, TTFT, GenerationTime, start
        <4> QED
          BY <2>3, <4>2
      <3>4. kind # "http"
        <4>1. kind = "http" => Timed = 0
          BY ResultIs DEF Timed, HTTP
        <4> QED
          BY <4>1
      <3>5. kind # "unary"
        <4>1. kind = "unary" => Timed = 0
          BY DEF StreamInv, UnaryInv, Timed, HTTP
        <4> QED
          BY <4>1
      <3> QED
        BY <3>1, <3>2, <3>3, <3>4, <3>5, ResultIs
    <2>6. acc.first + (acc.last - acc.first) <= now - 0
      BY <2>3, <2>4
    <2> QED
      BY <2>1, <2>4, <2>5, <2>6
  <1> QED
    BY <1>1, Invariant, PTL

\* A rate is the header's, or that of the tokens and the generation time that are
\* reported with it, or of reported tokens and the header's generation time.
THEOREM RatesAgree == Spec => []RateAgrees
  <1> DEFINE Agrees == \/ result.rate \in {NoRate, <<result.tokens, result.gen>>}
                       \/ /\ header.gen > 0 /\ ~result.estimated
                          /\ result.rate = <<result.tokens, header.gen>>
  <1>1. ASSUME StreamInv, Finished, header.rate > 0 PROVE result.rate = <<header.rate, 1>>
    <2>1. <<header.rate, 1>> # NoRate
      BY <1>1 DEF NoRate
    <2>2. CASE kind \in {"sse", "lines"}
      BY <1>1, <2>1, <2>2, ResultIs, HTTPResultIs
    <2>3. CASE kind = "http"
      BY <1>1, <2>3, ResultIs, PlainResultIs
    <2>4. HTTP
      BY <1>1 DEF StreamInv, TypeInv, NoHeader
    <2> QED
      BY <2>2, <2>3, <2>4 DEF HTTP
  <1>2. ASSUME StreamInv, Finished, ~(header.rate > 0) PROVE Agrees
    <2>1. ASSUME NEW n, NEW g PROVE Rate(n, g) = NoRate \/ (Rate(n, g) = <<n, g>> /\ n > 0 /\ g > 0)
      BY DEF Rate
    <2> DEFINE reported == IF acc.tokens > 0 THEN acc.tokens ELSE header.tokens
               given    == Rate(reported, header.gen)
    <2>2. reported \in Nat
      BY <1>2, ResultIs DEF HeaderValues, Accumulators
    <2>3. given = NoRate \/ (given = <<reported, header.gen>> /\ reported > 0 /\ header.gen > 0)
      BY <2>1
    <2>4. CASE kind \in {"sse", "lines"}
      <3> DEFINE estimated == reported = 0 /\ acc.words > 0
                 tokens    == IF estimated THEN acc.words ELSE reported
                 gen       == IF acc.first = 0 THEN header.gen ELSE acc.last - acc.first
      <3>1. result = HTTPResult(acc, now)
        BY <1>2, <2>4, ResultIs
      <3>2. /\ result.tokens = IF tokens = 0 THEN header.aiTokens ELSE tokens
            /\ result.estimated = estimated /\ result.gen = gen
            /\ result.rate = IF given = NoRate THEN Rate(tokens, gen) ELSE given
        BY <1>2, <3>1, HTTPResultIs
      <3>3. estimated => reported = 0
        OBVIOUS
      <3>4. ~estimated => tokens = reported
        OBVIOUS
      <3> HIDE DEF reported, given, estimated, tokens, gen
      <3>5. CASE given = NoRate
        <4>1. Rate(tokens, gen) = NoRate \/ (Rate(tokens, gen) = <<tokens, gen>> /\ tokens > 0)
          BY <2>1
        <4>2. tokens > 0 => result.tokens = tokens
          BY <3>2
        <4> QED
          BY <3>2, <3>5, <4>1, <4>2
      <3>6. CASE given # NoRate
        <4>1. result.rate = <<reported, header.gen>> /\ reported > 0 /\ header.gen > 0
          BY <2>3, <3>2, <3>6
        <4>2. ~estimated
          BY <3>3, <4>1
        <4>3. tokens = reported /\ tokens # 0
          BY <2>2, <3>4, <4>1, <4>2
        <4> QED
          BY <3>2, <4>1, <4>2, <4>3
      <3> QED
        BY <3>5, <3>6
    <2>5. CASE kind = "ws"
      <3>1. /\ result.rate = Rate(acc.words, GenerationTime(acc))
            /\ result.tokens = acc.words /\ result.gen = GenerationTime(acc)
        BY <1>2, <2>5, ResultIs DEF WSResult
      <3> QED
        BY <2>1, <3>1
    <2>6. CASE kind = "grpc"
      <3>1. /\ result.rate = Rate(acc.tokens, GenerationTime(acc))
            /\ result.tokens = IF acc.tokens > 0 THEN acc.tokens ELSE acc.chunks
            /\ result.gen = GenerationTime(acc)
        BY <1>2, <2>6, ResultIs DEF GRPCResult
      <3> QED
        BY <2>1, <3>1
    <2>7. CASE kind = "http"
      <3>1. /\ result.tokens = IF reported = 0 THEN header.aiTokens ELSE reported
            /\ result.estimated = FALSE /\ result.rate = given
        BY <1>2, <2>7, ResultIs, PlainResultIs
      <3> HIDE DEF reported, given
      <3>2. CASE given = NoRate
        BY <3>1, <3>2
      <3>3. CASE given # NoRate
        <4>1. result.rate = <<reported, header.gen>> /\ reported # 0 /\ header.gen > 0
          BY <2>2, <2>3, <3>1, <3>3
        <4> QED
          BY <3>1, <4>1
      <3> QED
        BY <3>2, <3>3
    <2>8. CASE kind = "unary"
      <3>1. result.rate = NoRate
        BY <1>2, <2>8, ResultIs DEF UnaryResult, Pending, NoRate
      <3> QED
        BY <3>1
    <2> QED
      BY <1>2, <2>4, <2>5, <2>6, <2>7, <2>8, ResultIs
  <1>3. StreamInv => RateAgrees
    BY <1>1, <1>2 DEF RateAgrees
  <1> QED
    BY <1>3, Invariant, PTL
=============================================================================
