---------------------------- MODULE FiniteSums -----------------------------
(***************************************************************************)
(* Induction over numbers and over the subsets of a finite set, stated     *)
(* without operator parameters; from it folds over finite sets, the facts  *)
(* about sums that proofs about balances, ratings, counts and means need,  *)
(* and what it means to take the least, the k-th or the first few elements *)
(* of a finite set in some order, or to list all of them.                  *)
(***************************************************************************)
EXTENDS Integers, FiniteSetsExt, FiniteSetTheorems, SequenceTheorems,
        WellFoundedInduction, TLAPS

---------------------------------------------------------------------------
(* Induction *)

Less == {ss \in Nat \X Nat : ss[1] < ss[2]}

LEMMA LessIsWellFounded == IsWellFoundedOn(Less, Nat)
<1>1. OpToRel(<, Nat) = Less
  BY Zenon DEF OpToRel, Less
<1> QED
  BY <1>1, NatLessThanWellFounded, Zenon

\* A set of numbers that is not empty has a least element.
LEMMA LeastNumber ==
  ASSUME NEW T \in SUBSET Nat, T # {}
  PROVE  \E x \in T : \A y \in T : x <= y
<1>1. PICK x \in T : \A y \in T : <<y, x>> \notin Less
  <2>1. T \subseteq Nat
    OBVIOUS
  <2>2. QED
    BY <2>1, LessIsWellFounded, WFMin, Zenon
<1>2. ASSUME NEW y \in T PROVE x <= y
  <2>1. x \in Nat /\ y \in Nat
    OBVIOUS
  <2>2. ~ (y < x)
    <3>1. <<y, x>> \notin Less
      BY <1>1
    <3>2. QED
      BY <2>1, <3>1 DEF Less
  <2>3. QED
    BY <2>1, <2>2
<1>3. QED
  BY <1>2

LEMMA LeastElement ==
  ASSUME NEW T \in SUBSET Nat, T # {}
  PROVE  Min(T) \in T
<1>1. \E x \in T : \A y \in T : x =< y
  BY LeastNumber
<1>2. QED
  BY <1>1, Zenon DEF Min

\* A bounded one has a greatest.
LEMMA GreatestElement ==
  ASSUME NEW m \in Nat, NEW T \in SUBSET (0..m), T # {}
  PROVE  Max(T) \in T /\ \A y \in T : y <= Max(T)
<1> DEFINE R == {x \in 0..m : m - x \in T}
<1>1. PICK x \in R : \A y \in R : x <= y
  <2>1. R \in SUBSET Nat
    OBVIOUS
  <2>2. R # {}
    <3>1. PICK z \in T : TRUE
      OBVIOUS
    <3>2. m - z \in R
      OBVIOUS
    <3>3. QED
      BY <3>2
  <2>3. QED
    BY <2>1, <2>2, LeastNumber
<1>2. \A z \in T : m - z \in R
  OBVIOUS
<1>3. m - x \in T /\ \A z \in T : m - x >= z
  BY <1>1, <1>2
<1>4. Max(T) \in T /\ \A z \in T : Max(T) >= z
  BY <1>3, Zenon DEF Max
<1>5. QED
  BY <1>4

\* Induction over the natural numbers, for the numbers in a set.
LEMMA NumberInduction ==
  ASSUME NEW T \in SUBSET Nat, 0 \in T, \A n \in T : n + 1 \in T
  PROVE  T = Nat
<1> SUFFICES ASSUME T # Nat PROVE FALSE
  OBVIOUS
<1>1. PICK m \in Nat \ T : \A y \in Nat \ T : m <= y
  <2>1. (Nat \ T) \in SUBSET Nat /\ (Nat \ T) # {}
    OBVIOUS
  <2>2. QED
    BY <2>1, LeastNumber
<1>2. m # 0 /\ m - 1 \in Nat /\ ~ (m <= m - 1)
  OBVIOUS
<1>3. m - 1 \in T
  BY <1>1, <1>2
<1>4. QED
  BY <1>3, <1>1

\* The size of a subset of a finite set.
LEMMA SubsetSize ==
  ASSUME NEW S, IsFiniteSet(S), NEW s \in SUBSET S
  PROVE  /\ IsFiniteSet(s) /\ Cardinality(s) \in Nat
         /\ Cardinality(s) <= Cardinality(S) /\ Cardinality(S) \in Nat
         /\ \A x \in s : /\ s \ {x} \in SUBSET S
                         /\ Cardinality(s \ {x}) = Cardinality(s) - 1
         /\ Cardinality(s) = 0 <=> s = {}
<1>1. IsFiniteSet(s) /\ Cardinality(s) <= Cardinality(S)
  BY FS_Subset
<1>2. Cardinality(s) \in Nat /\ Cardinality(S) \in Nat
  BY <1>1, FS_CardinalityType
<1>3. \A x \in s : Cardinality(s \ {x}) = Cardinality(s) - 1
  BY <1>1, FS_RemoveElement
<1>4. Cardinality(s) = 0 <=> s = {}
  BY <1>1, FS_EmptySet
<1>5. QED
  BY <1>1, <1>2, <1>3, <1>4

\* Induction over the size of the subsets of a finite set.
LEMMA SubsetInduction ==
  ASSUME NEW S, IsFiniteSet(S), NEW G \in SUBSET SUBSET S,
         \A s \in SUBSET S :
           (\A t \in SUBSET S : Cardinality(t) < Cardinality(s) => t \in G) => s \in G
  PROVE  G = SUBSET S
<1> SUFFICES ASSUME G # SUBSET S PROVE FALSE
  OBVIOUS
<1> DEFINE Sizes == {Cardinality(s) : s \in (SUBSET S) \ G}
<1>1. Sizes \in SUBSET Nat
  BY SubsetSize
<1>2. Sizes # {}
  OBVIOUS
<1>3. PICK n \in Sizes : \A m \in Sizes : n <= m
  <2> HIDE DEF Sizes
  <2>1. QED
    BY <1>1, <1>2, LeastNumber
<1>4. PICK s \in (SUBSET S) \ G : Cardinality(s) = n
  BY <1>3
<1>5. \A t \in SUBSET S : Cardinality(t) < Cardinality(s) => t \in G
  <2> SUFFICES ASSUME NEW t \in SUBSET S, Cardinality(t) < Cardinality(s), t \notin G
               PROVE  FALSE
    OBVIOUS
  <2>1. Cardinality(t) \in Nat /\ Cardinality(s) \in Nat
    BY SubsetSize
  <2>2. Cardinality(s) <= Cardinality(t)
    BY <1>3, <1>4
  <2>3. QED
    BY <2>1, <2>2
<1>6. QED
  BY <1>4, <1>5

---------------------------------------------------------------------------
(* Folds *)

\* g folds h over every subset of S, taking the element c[s] of s last.
FoldAt(base, h, c, S, g) ==
  \A s \in SUBSET S : g[s] = IF s = {} THEN base ELSE h[<<c[s], g[s \ {c[s]}]>>]

\* A fold of values in V exists and stays in V: step by step for the subsets of
\* at most n elements.
LEMMA FoldExists ==
  ASSUME NEW S, IsFiniteSet(S), NEW V, NEW base \in V, NEW h \in [S \X V -> V],
         NEW c, \A s \in SUBSET S : s # {} => c[s] \in s
  PROVE  \E g \in [SUBSET S -> V] : FoldAt(base, h, c, S, g)
<1> DEFINE Upto(g, n) ==
      \A s \in SUBSET S : Cardinality(s) <= n =>
        g[s] = IF s = {} THEN base ELSE h[<<c[s], g[s \ {c[s]}]>>]
<1> DEFINE T == {n \in Nat : \E g \in [SUBSET S -> V] : Upto(g, n)}
<1>1. 0 \in T
  <2> DEFINE g == [s \in SUBSET S |-> base]
  <2>1. Upto(g, 0) /\ g \in [SUBSET S -> V]
    BY SubsetSize
  <2>2. \E d \in [SUBSET S -> V] : Upto(d, 0)
    <3> HIDE DEF Upto, g
    <3>1. QED
      BY <2>1
  <2>3. QED
    BY <2>2
<1>2. \A n \in T : n + 1 \in T
  <2> SUFFICES ASSUME NEW n \in T PROVE n + 1 \in T
    OBVIOUS
  <2>0. PICK g \in [SUBSET S -> V] : Upto(g, n)
    OBVIOUS
  <2> DEFINE e == [s \in SUBSET S |->
                     IF Cardinality(s) <= n THEN g[s] ELSE h[<<c[s], g[s \ {c[s]}]>>]]
  <2>1. \A s \in SUBSET S : /\ Cardinality(s) \in Nat
                            /\ Cardinality(s) = 0 <=> s = {}
    BY SubsetSize
  <2>2. \A s \in SUBSET S : s # {} =>
          /\ c[s] \in S
          /\ s \ {c[s]} \in SUBSET S
          /\ Cardinality(s \ {c[s]}) = Cardinality(s) - 1
    BY SubsetSize
  <2>3. e \in [SUBSET S -> V]
    <3>1. ASSUME NEW s \in SUBSET S PROVE e[s] \in V
      <4>1. CASE Cardinality(s) <= n
        BY <4>1
      <4>2. CASE ~(Cardinality(s) <= n)
        <5>1. s # {}
          BY <2>1, <4>2
        <5>2. <<c[s], g[s \ {c[s]}]>> \in S \X V
          BY <2>2, <5>1
        <5>3. QED
          BY <4>2, <5>2
      <4>3. QED
        BY <4>1, <4>2
    <3>2. QED
      BY <3>1
  <2>4. Upto(e, n + 1)
    <3> SUFFICES ASSUME NEW s \in SUBSET S, Cardinality(s) <= n + 1
                 PROVE  e[s] = IF s = {} THEN base ELSE h[<<c[s], e[s \ {c[s]}]>>]
      OBVIOUS
    <3>1. CASE s = {}
      <4>1. Cardinality(s) <= n /\ e[s] = g[s]
        BY <2>1, <3>1
      <4>2. QED
        BY <2>0, <3>1, <4>1
    <3>2. CASE s # {}
      <4> DEFINE t == s \ {c[s]}
      <4>1. t \in SUBSET S /\ Cardinality(t) <= n
        BY <2>1, <2>2, <3>2
      <4>2. e[t] = g[t]
        BY <4>1
      <4>3. e[s] = h[<<c[s], g[t]>>]
        BY <2>0, <3>2
      <4>4. QED
        BY <3>2, <4>2, <4>3
    <3>3. QED
      BY <3>1, <3>2
  <2>5. \E d \in [SUBSET S -> V] : Upto(d, n + 1)
    <3> HIDE DEF Upto, e
    <3>1. QED
      BY <2>3, <2>4
  <2>6. QED
    <3>1. n + 1 \in Nat
      OBVIOUS
    <3> HIDE DEF Upto, e
    <3>2. QED
      BY <2>5, <3>1, Zenon
<1>3. Cardinality(S) \in T
  <2> HIDE DEF T
  <2>1. T \in SUBSET Nat
    BY DEF T
  <2>2. Cardinality(S) \in Nat
    BY FS_CardinalityType
  <2>3. QED
    BY <1>1, <1>2, <2>1, <2>2, NumberInduction
<1>4. PICK g \in [SUBSET S -> V] : Upto(g, Cardinality(S))
  BY <1>3
<1>5. \A s \in SUBSET S : Cardinality(s) <= Cardinality(S)
  BY SubsetSize
<1>6. QED
  BY <1>4, <1>5 DEF FoldAt

\* Functions that agree on a set whenever they agree without the element taken
\* last agree on every subset.
SameStep(c, S, g, d) ==
  \A s \in SUBSET S : (s # {} => g[s \ {c[s]}] = d[s \ {c[s]}]) => g[s] = d[s]

LEMMA FoldUnique ==
  ASSUME NEW S, IsFiniteSet(S), NEW c, \A s \in SUBSET S : s # {} => c[s] \in s,
         NEW g, NEW d, SameStep(c, S, g, d)
  PROVE  \A s \in SUBSET S : g[s] = d[s]
<1> DEFINE G == {s \in SUBSET S : g[s] = d[s]}
<1>1. ASSUME NEW s \in SUBSET S,
             \A t \in SUBSET S : Cardinality(t) < Cardinality(s) => t \in G
      PROVE  s \in G
  <2>1. s # {} => g[s \ {c[s]}] = d[s \ {c[s]}]
    <3> SUFFICES ASSUME s # {} PROVE g[s \ {c[s]}] = d[s \ {c[s]}]
      OBVIOUS
    <3>1. s \ {c[s]} \in SUBSET S /\ Cardinality(s \ {c[s]}) < Cardinality(s)
      BY SubsetSize
    <3>2. QED
      BY <1>1, <3>1
  <2>2. QED
    BY <2>1 DEF SameStep
<1>2. G = SUBSET S
  <2> HIDE DEF G
  <2>1. G \in SUBSET SUBSET S
    BY DEF G
  <2>2. QED
    BY <1>1, <2>1, SubsetInduction
<1>3. QED
  BY <1>2

---------------------------------------------------------------------------
(* Sums *)

\* The sum of f[x] over the elements x of S, as the models write it.
SumOver(f, S) == MapThenSumSet(LAMBDA x : f[x], S)

\* g adds f up over every subset of S, one chosen element after the other.
Sums(f, S, g) ==
  g = [s \in SUBSET S |-> IF s = {} THEN 0
                          ELSE LET x == CHOOSE x \in s : TRUE
                               IN  f[x] + g[s \ {x}]]

Chosen(s) == CHOOSE x \in s : TRUE

LEMMA SumsAt ==
  ASSUME NEW S, NEW f, NEW g, Sums(f, S, g)
  PROVE  /\ g[{}] = 0
         /\ \A s \in SUBSET S : s # {} =>
              Chosen(s) \in s /\ g[s] = f[Chosen(s)] + g[s \ {Chosen(s)}]
<1>1. \A s \in SUBSET S : g[s] = IF s = {} THEN 0
                                 ELSE f[Chosen(s)] + g[s \ {Chosen(s)}]
  BY Zenon DEF Sums, Chosen
<1>2. \A s : s # {} => Chosen(s) \in s
  BY DEF Chosen
<1>3. QED
  BY <1>1, <1>2

\* Conversely, a function that adds up at every subset is one that Sums.
LEMMA SumsFrom ==
  ASSUME NEW S, NEW f, NEW g \in [SUBSET S -> Int],
         \A s \in SUBSET S : g[s] = IF s = {} THEN 0
                                   ELSE f[Chosen(s)] + g[s \ {Chosen(s)}]
  PROVE  Sums(f, S, g)
<1>1. g = [s \in SUBSET S |-> g[s]]
  OBVIOUS
<1>2. g = [s \in SUBSET S |-> IF s = {} THEN 0 ELSE f[Chosen(s)] + g[s \ {Chosen(s)}]]
  BY <1>1
<1>3. QED
  BY <1>2, Zenon DEF Sums, Chosen

\* A set of numbers can be added up.
LEMMA SumsExist ==
  ASSUME NEW S, IsFiniteSet(S), NEW f, \A x \in S : f[x] \in Int
  PROVE  \E g \in [SUBSET S -> Int] : Sums(f, S, g)
<1> DEFINE h == [p \in S \X Int |-> f[p[1]] + p[2]]
<1> DEFINE c == [s \in SUBSET S |-> Chosen(s)]
<1>1. h \in [S \X Int -> Int]
  OBVIOUS
<1>2. \A s \in SUBSET S : s # {} => c[s] \in s /\ c[s] = Chosen(s)
  BY DEF Chosen
<1>3. \E g \in [SUBSET S -> Int] : FoldAt(0, h, c, S, g)
  <2> HIDE DEF h, c
  <2>1. \A s \in SUBSET S : s # {} => c[s] \in s
    BY <1>2
  <2>2. 0 \in Int
    OBVIOUS
  <2>3. QED
    BY <1>1, <2>1, <2>2, FoldExists
<1>4. PICK g \in [SUBSET S -> Int] : FoldAt(0, h, c, S, g)
  BY <1>3
<1>5. ASSUME NEW s \in SUBSET S, s # {}
      PROVE  g[s] = f[Chosen(s)] + g[s \ {Chosen(s)}]
  <2>1. Chosen(s) \in S /\ g[s \ {Chosen(s)}] \in Int
    BY <1>2, <1>5
  <2>2. h[<<Chosen(s), g[s \ {Chosen(s)}]>>] = f[Chosen(s)] + g[s \ {Chosen(s)}]
    BY <2>1
  <2>3. g[s] = h[<<c[s], g[s \ {c[s]}]>>]
    BY <1>4, <1>5 DEF FoldAt
  <2>4. QED
    BY <1>2, <1>5, <2>2, <2>3
<1>6. g[{}] = 0
  BY <1>4 DEF FoldAt
<1>7. \A s \in SUBSET S : g[s] = IF s = {} THEN 0
                                 ELSE f[Chosen(s)] + g[s \ {Chosen(s)}]
  BY <1>5, <1>6
<1>8. QED
  BY <1>7, SumsFrom

\* Two functions that agree on a set have one sum over it.
LEMMA SumsAgree ==
  ASSUME NEW S, IsFiniteSet(S), NEW R \in SUBSET S, NEW f, NEW g, NEW e, NEW d,
         Sums(f, S, g), Sums(e, R, d), \A x \in R : f[x] = e[x]
  PROVE  \A s \in SUBSET R : g[s] = d[s]
<1> DEFINE G == {s \in SUBSET R : g[s] = d[s]}
<1>0. IsFiniteSet(R)
  BY FS_Subset
<1>1. ASSUME NEW s \in SUBSET R,
             \A t \in SUBSET R : Cardinality(t) < Cardinality(s) => t \in G
      PROVE  s \in G
  <2>1. CASE s = {}
    BY <2>1, SumsAt
  <2>2. CASE s # {}
    <3> DEFINE t == s \ {Chosen(s)}
    <3>1. Chosen(s) \in s /\ g[s] = f[Chosen(s)] + g[t] /\ d[s] = e[Chosen(s)] + d[t]
      <4>1. s \in SUBSET S
        OBVIOUS
      <4>2. QED
        BY <2>2, <4>1, SumsAt
    <3>2. t \in SUBSET R /\ Cardinality(t) < Cardinality(s)
      BY <1>0, <3>1, SubsetSize
    <3>3. g[t] = d[t]
      BY <1>1, <3>2
    <3>4. QED
      BY <3>1, <3>3
  <2>3. QED
    BY <2>1, <2>2
<1>2. G = SUBSET R
  <2> HIDE DEF G
  <2>1. G \in SUBSET SUBSET R
    BY DEF G
  <2>2. QED
    BY <1>0, <1>1, <2>1, SubsetInduction
<1>3. QED
  BY <1>2

\* Any element may be added last.
AnyLast(f, S, g) == \A s \in SUBSET S : \A x \in s : g[s] = f[x] + g[s \ {x}]

LEMMA SumsAny ==
  ASSUME NEW S, IsFiniteSet(S), NEW f, \A x \in S : f[x] \in Int,
         NEW g \in [SUBSET S -> Int], Sums(f, S, g)
  PROVE  AnyLast(f, S, g)
<1> DEFINE G == {s \in SUBSET S : \A x \in s : g[s] = f[x] + g[s \ {x}]}
<1>1. ASSUME NEW s \in SUBSET S,
             \A t \in SUBSET S : Cardinality(t) < Cardinality(s) => t \in G
      PROVE  s \in G
  <2> SUFFICES ASSUME NEW x \in s PROVE g[s] = f[x] + g[s \ {x}]
    OBVIOUS
  <2> DEFINE c == Chosen(s)
  <2>1. c \in s /\ g[s] = f[c] + g[s \ {c}]
    BY SumsAt
  <2>2. CASE x = c
    BY <2>1, <2>2
  <2>3. CASE x # c
    <3>1. /\ s \ {c} \in SUBSET S /\ Cardinality(s \ {c}) < Cardinality(s)
          /\ s \ {x} \in SUBSET S /\ Cardinality(s \ {x}) < Cardinality(s)
      BY <2>1, SubsetSize
    <3>2. x \in s \ {c} /\ c \in s \ {x} /\ (s \ {c}) \ {x} = (s \ {x}) \ {c}
      BY <2>1, <2>3
    <3>3. g[s \ {c}] = f[x] + g[(s \ {c}) \ {x}]
      BY <1>1, <3>1, <3>2
    <3>4. g[s \ {x}] = f[c] + g[(s \ {x}) \ {c}]
      BY <1>1, <3>1, <3>2
    <3>5. PICK r \in Int : r = g[(s \ {x}) \ {c}]
      OBVIOUS
    <3>6. g[s] = f[c] + (f[x] + r) /\ g[s \ {x}] = f[c] + r
      BY <2>1, <3>2, <3>3, <3>4, <3>5
    <3>7. f[c] \in Int /\ f[x] \in Int
      BY <2>1
    <3>8. \A p, q \in Int : p + (q + r) = q + (p + r)
      OBVIOUS
    <3>9. QED
      BY <3>6, <3>7, <3>8
  <2>4. QED
    BY <2>2, <2>3
<1>2. G = SUBSET S
  <2> HIDE DEF G
  <2>1. G \in SUBSET SUBSET S
    BY DEF G
  <2>2. QED
    BY <1>1, <2>1, SubsetInduction
<1>3. QED
  BY <1>2 DEF AnyLast

\* What SumOver chooses is a function that Sums.
LEMMA SumOverSums ==
  ASSUME NEW S, IsFiniteSet(S), NEW f, \A x \in S : f[x] \in Int
  PROVE  \E g \in [SUBSET S -> Int] :
           /\ Sums(f, S, g) /\ SumOver(f, S) = g[S]
           /\ AnyLast(f, S, g)
<1> DEFINE G == CHOOSE g : Sums(f, S, g)
<1>1. PICK g \in [SUBSET S -> Int] : Sums(f, S, g)
  BY SumsExist
<1>2. Sums(f, S, G)
  BY <1>1, Zenon
<1>3. \A s \in SUBSET S : G[s] = g[s]
  <2> HIDE DEF G
  <2>1. QED
    BY <1>1, <1>2, SumsAgree
<1>4. SumOver(f, S) = G[S]
  BY Zenon DEF SumOver, MapThenSumSet, MapThenFoldSet, Sums
<1>5. AnyLast(f, S, g)
  BY <1>1, SumsAny
<1>6. SumOver(f, S) = g[S]
  <2> HIDE DEF G
  <2>1. QED
    BY <1>3, <1>4
<1>7. QED
  BY <1>1, <1>5, <1>6

\* The facts to cite: a sum is a number, it depends on the values of the
\* function only, and a change of one value changes it by the difference.
LEMMA SumType ==
  ASSUME NEW S, IsFiniteSet(S), NEW f, \A x \in S : f[x] \in Int
  PROVE  SumOver(f, S) \in Int
<1>1. PICK g \in [SUBSET S -> Int] : Sums(f, S, g) /\ SumOver(f, S) = g[S]
  BY SumOverSums
<1>2. QED
  BY <1>1

LEMMA SumSame ==
  ASSUME NEW S, IsFiniteSet(S), NEW f, NEW e,
         \A x \in S : f[x] \in Int /\ e[x] = f[x]
  PROVE  SumOver(e, S) = SumOver(f, S)
<1>1. PICK g \in [SUBSET S -> Int] : Sums(f, S, g) /\ SumOver(f, S) = g[S]
  BY SumOverSums
<1>2. PICK d \in [SUBSET S -> Int] : Sums(e, S, d) /\ SumOver(e, S) = d[S]
  BY SumOverSums
<1>3. g[S] = d[S]
  <2>1. S \in SUBSET S
    OBVIOUS
  <2>2. QED
    BY <1>1, <1>2, <2>1, SumsAgree
<1>4. QED
  BY <1>1, <1>2, <1>3

LEMMA SumChange ==
  ASSUME NEW S, IsFiniteSet(S), NEW f, NEW e, NEW z \in S,
         \A x \in S : f[x] \in Int /\ e[x] \in Int,
         \A x \in S \ {z} : e[x] = f[x]
  PROVE  SumOver(e, S) = SumOver(f, S) + e[z] - f[z]
<1>0. (\A x \in S : f[x] \in Int) /\ (\A x \in S : e[x] \in Int)
  OBVIOUS
<1>1. PICK g \in [SUBSET S -> Int] :
             /\ Sums(f, S, g) /\ SumOver(f, S) = g[S]
             /\ AnyLast(f, S, g)
  BY <1>0, SumOverSums
<1>2. PICK d \in [SUBSET S -> Int] :
             /\ Sums(e, S, d) /\ SumOver(e, S) = d[S]
             /\ AnyLast(e, S, d)
  BY <1>0, SumOverSums
<1> DEFINE R == S \ {z}
<1>3. PICK b \in [SUBSET R -> Int] : Sums(f, R, b)
  <2>1. IsFiniteSet(R)
    BY FS_Subset
  <2>2. QED
    BY <2>1, SumsExist
<1>4. g[R] = b[R] /\ d[R] = b[R]
  <2>1. R \in SUBSET S /\ R \in SUBSET R
    OBVIOUS
  <2>2. g[R] = b[R]
    BY <1>1, <1>3, <2>1, SumsAgree
  <2>3. \A x \in R : e[x] = f[x]
    OBVIOUS
  <2>4. d[R] = b[R]
    BY <1>2, <1>3, <2>1, <2>3, SumsAgree
  <2>5. QED
    BY <2>2, <2>4
<1>5. g[S] = f[z] + g[R] /\ d[S] = e[z] + d[R]
  BY <1>1, <1>2 DEF AnyLast
<1>6. f[z] \in Int /\ e[z] \in Int /\ g[R] \in Int
  OBVIOUS
<1>7. QED
  BY <1>1, <1>2, <1>4, <1>5, <1>6

\* One more element adds its value.
LEMMA SumAdd ==
  ASSUME NEW S, IsFiniteSet(S), NEW z, z \notin S, NEW f,
         \A x \in S \cup {z} : f[x] \in Int
  PROVE  SumOver(f, S \cup {z}) = SumOver(f, S) + f[z]
<1> DEFINE R == S \cup {z}
<1>1. IsFiniteSet(R) /\ R \ {z} = S /\ S \in SUBSET R /\ z \in R
  BY FS_AddElement
<1>2. PICK g \in [SUBSET R -> Int] :
             Sums(f, R, g) /\ SumOver(f, R) = g[R] /\ AnyLast(f, R, g)
  BY <1>1, SumOverSums
<1>3. PICK d \in [SUBSET S -> Int] : Sums(f, S, d) /\ SumOver(f, S) = d[S]
  BY SumOverSums
<1>4. g[S] = d[S]
  <2>1. S \in SUBSET S
    OBVIOUS
  <2>2. QED
    BY <1>1, <1>2, <1>3, <2>1, SumsAgree
<1>5. g[R] = f[z] + g[S]
  BY <1>1, <1>2 DEF AnyLast
<1>6. f[z] \in Int /\ g[S] \in Int
  BY <1>1
<1>7. QED
  BY <1>2, <1>3, <1>4, <1>5, <1>6

\* Nothing adds up to nothing.
LEMMA SumZero ==
  ASSUME NEW S, IsFiniteSet(S), NEW f, \A x \in S : f[x] = 0
  PROVE  SumOver(f, S) = 0
<1>0. \A x \in S : f[x] \in Int
  OBVIOUS
<1>1. PICK g \in [SUBSET S -> Int] : Sums(f, S, g) /\ SumOver(f, S) = g[S]
  BY <1>0, SumOverSums
<1> DEFINE G == {s \in SUBSET S : g[s] = 0}
<1>2. ASSUME NEW s \in SUBSET S,
             \A t \in SUBSET S : Cardinality(t) < Cardinality(s) => t \in G
      PROVE  s \in G
  <2>1. CASE s = {}
    BY <1>1, <2>1, SumsAt
  <2>2. CASE s # {}
    <3>1. Chosen(s) \in s /\ g[s] = f[Chosen(s)] + g[s \ {Chosen(s)}]
      BY <1>1, <2>2, SumsAt
    <3>2. g[s \ {Chosen(s)}] = 0
      BY <1>2, <3>1, SubsetSize
    <3>3. QED
      BY <3>1, <3>2
  <2>3. QED
    BY <2>1, <2>2
<1>3. G = SUBSET S
  <2> HIDE DEF G
  <2>1. G \in SUBSET SUBSET S
    BY DEF G
  <2>2. QED
    BY <1>2, <2>1, SubsetInduction
<1>4. QED
  BY <1>1, <1>3

\* Two sets that share no element add up.
LEMMA SumUnion ==
  ASSUME NEW S, IsFiniteSet(S), NEW R, IsFiniteSet(R), S \cap R = {}, NEW f,
         \A x \in S \cup R : f[x] \in Int
  PROVE  SumOver(f, S \cup R) = SumOver(f, S) + SumOver(f, R)
<1> DEFINE G == {s \in SUBSET R : SumOver(f, S \cup s) = SumOver(f, S) + SumOver(f, s)}
<1>0. SumOver(f, S) \in Int
  BY SumType
<1>1. ASSUME NEW s \in SUBSET R,
             \A t \in SUBSET R : Cardinality(t) < Cardinality(s) => t \in G
      PROVE  s \in G
  <2>1. CASE s = {}
    <3>1. S \cup s = S
      BY <2>1
    <3>2. SumOver(f, s) = 0
      BY <2>1, FS_EmptySet, SumZero
    <3>3. SumOver(f, S \cup s) = SumOver(f, S) + SumOver(f, s)
      <4> HIDE DEF G
      <4>1. SumOver(f, S \cup s) = SumOver(f, S)
        BY <3>1, Zenon
      <4>2. QED
        BY <1>0, <3>2, <4>1
    <3>4. QED
      BY <3>3
  <2>2. CASE s # {}
    <3>1. PICK x \in s : TRUE
      BY <2>2
    <3> DEFINE t == s \ {x}
    <3>2. t \in SUBSET R /\ Cardinality(t) < Cardinality(s) /\ IsFiniteSet(t)
      <4>1. /\ t \in SUBSET R /\ Cardinality(t) = Cardinality(s) - 1
            /\ Cardinality(s) \in Nat
        BY SubsetSize
      <4>2. IsFiniteSet(t)
        BY <4>1, FS_Subset
      <4>3. QED
        BY <4>1, <4>2
    <3>3. SumOver(f, S \cup t) = SumOver(f, S) + SumOver(f, t)
      BY <1>1, <3>2
    <3>4. s = t \cup {x} /\ S \cup s = (S \cup t) \cup {x} /\ x \notin t /\ x \notin S \cup t
      OBVIOUS
    <3>5. IsFiniteSet(S \cup t)
      BY <3>2, FS_Union
    <3>6. SumOver(f, s) = SumOver(f, t) + f[x]
      <4>1. \A y \in t \cup {x} : f[y] \in Int
        OBVIOUS
      <4> HIDE DEF t
      <4>2. SumOver(f, t \cup {x}) = SumOver(f, t) + f[x]
        BY <3>2, <3>4, <4>1, SumAdd
      <4>3. QED
        BY <3>4, <4>2
    <3>7. SumOver(f, S \cup s) = SumOver(f, S \cup t) + f[x]
      <4>1. \A y \in (S \cup t) \cup {x} : f[y] \in Int
        OBVIOUS
      <4> HIDE DEF t
      <4>2. SumOver(f, (S \cup t) \cup {x}) = SumOver(f, S \cup t) + f[x]
        BY <3>4, <3>5, <4>1, SumAdd
      <4>3. QED
        BY <3>4, <4>2
    <3>8. SumOver(f, t) \in Int
      BY <3>2, SumType
    <3>9. f[x] \in Int
      OBVIOUS
    <3>10. QED
      <4> HIDE DEF t
      <4>1. SumOver(f, S \cup s) = SumOver(f, S) + SumOver(f, s)
        BY <1>0, <3>3, <3>6, <3>7, <3>8, <3>9
      <4>2. QED
        BY <4>1
  <2>3. QED
    BY <2>1, <2>2
<1>2. G = SUBSET R
  <2> HIDE DEF G
  <2>1. G \in SUBSET SUBSET R
    BY DEF G
  <2>2. QED
    BY <1>1, <2>1, SubsetInduction
<1>3. QED
  <2>1. R \in G
    <3> HIDE DEF G
    <3>1. QED
      BY <1>2
  <2>2. QED
    BY <2>1

\* Numbers that grow have a sum that grows.
LEMMA SumGrows ==
  ASSUME NEW S, IsFiniteSet(S), NEW f, NEW e,
         \A x \in S : f[x] \in Nat /\ e[x] \in Nat /\ f[x] <= e[x]
  PROVE  SumOver(f, S) <= SumOver(e, S) /\ SumOver(f, S) \in Nat
<1>0. (\A x \in S : f[x] \in Int) /\ (\A x \in S : e[x] \in Int)
  OBVIOUS
<1>1. PICK g \in [SUBSET S -> Int] : SumOver(f, S) = g[S] /\ Sums(f, S, g) /\ AnyLast(f, S, g)
  BY <1>0, SumOverSums
<1>2. PICK d \in [SUBSET S -> Int] : SumOver(e, S) = d[S] /\ Sums(e, S, d) /\ AnyLast(e, S, d)
  BY <1>0, SumOverSums
<1> DEFINE G == {s \in SUBSET S : g[s] <= d[s] /\ 0 <= g[s]}
<1>3. ASSUME NEW s \in SUBSET S,
             \A t \in SUBSET S : Cardinality(t) < Cardinality(s) => t \in G
      PROVE  s \in G
  <2>1. CASE s = {}
    BY <1>1, <1>2, <2>1, SumsAt
  <2>2. CASE s # {}
    <3>1. PICK x \in s : TRUE
      BY <2>2
    <3> DEFINE t == s \ {x}
    <3>2. t \in SUBSET S /\ Cardinality(t) < Cardinality(s)
      <4>1. /\ t \in SUBSET S /\ Cardinality(t) = Cardinality(s) - 1
            /\ Cardinality(s) \in Nat
        BY SubsetSize
      <4>2. QED
        BY <4>1
    <3>3. g[s] = f[x] + g[t] /\ d[s] = e[x] + d[t]
      BY <1>1, <1>2 DEF AnyLast
    <3>4. g[t] <= d[t] /\ 0 <= g[t] /\ g[t] \in Int /\ d[t] \in Int
      BY <1>3, <3>2
    <3>5. f[x] \in Nat /\ e[x] \in Nat /\ f[x] <= e[x]
      OBVIOUS
    <3>6. QED
      <4> HIDE DEF t
      <4>1. g[s] <= d[s] /\ 0 <= g[s]
        BY <3>3, <3>4, <3>5
      <4>2. QED
        BY <4>1
  <2>3. QED
    BY <2>1, <2>2
<1>4. G = SUBSET S
  <2> HIDE DEF G
  <2>1. G \in SUBSET SUBSET S
    BY DEF G
  <2>2. QED
    BY <1>3, <2>1, SubsetInduction
<1>5. S \in G
  <2> HIDE DEF G
  <2>1. QED
    BY <1>4
<1>6. QED
  BY <1>1, <1>2, <1>5

LEMMA SumWithin ==
  ASSUME NEW S, IsFiniteSet(S), NEW R \in SUBSET S, NEW f, NEW e,
         \A x \in S : f[x] \in Nat /\ e[x] \in Nat /\ f[x] <= e[x]
  PROVE  SumOver(f, R) <= SumOver(e, S) /\ SumOver(f, R) \in Nat
<1>1. IsFiniteSet(R) /\ IsFiniteSet(S \ R) /\ R \cup (S \ R) = S /\ R \cap (S \ R) = {}
  BY FS_Subset
<1>2. /\ \A x \in R \cup (S \ R) : e[x] \in Int
      /\ \A x \in S \ R : e[x] \in Nat /\ e[x] <= e[x]
      /\ \A x \in R : f[x] \in Nat /\ e[x] \in Nat /\ f[x] <= e[x]
  OBVIOUS
<1>3. SumOver(e, R \cup (S \ R)) = SumOver(e, R) + SumOver(e, S \ R)
  BY <1>1, <1>2, SumUnion
<1>4. SumOver(e, S \ R) \in Nat
  BY <1>1, <1>2, SumGrows
<1>5. SumOver(f, R) <= SumOver(e, R) /\ SumOver(f, R) \in Nat
  BY <1>1, <1>2, SumGrows
<1>6. SumOver(e, R) \in Int
  BY <1>1, <1>2, SumType
<1>7. SumOver(e, S) = SumOver(e, R) + SumOver(e, S \ R)
  BY <1>1, <1>3
<1>8. QED
  BY <1>4, <1>5, <1>6, <1>7

---------------------------------------------------------------------------
(* Least and greatest values of a function on a finite set *)

AtMost(v, S, l) == {i \in S : v[i] <= l}

LEMMA AtMostSize ==
  ASSUME NEW S, IsFiniteSet(S), NEW v
  PROVE  \A l : /\ AtMost(v, S, l) \in SUBSET S /\ IsFiniteSet(AtMost(v, S, l))
                /\ Cardinality(AtMost(v, S, l)) \in 0..Cardinality(S)
                /\ Cardinality(S) \in Nat
<1> TAKE l
<1>1. AtMost(v, S, l) \in SUBSET S
  BY DEF AtMost
<1>2. QED
  BY <1>1, SubsetSize

LEMMA ImageIsFinite ==
  ASSUME NEW S, IsFiniteSet(S), NEW f
  PROVE  IsFiniteSet({f[x] : x \in S})
<1> DEFINE g == [x \in S |-> f[x]]
           R == {f[x] : x \in S}
<1>1. g \in Surjection(S, R)
  BY DEF Surjection
<1>2. QED
  <2> HIDE DEF g, R
  <2>1. IsFiniteSet(R)
    BY <1>1, FS_Surjection
  <2>2. QED
    BY <2>1 DEF R

LEMMA Largest ==
  ASSUME NEW S, IsFiniteSet(S), S # {}, NEW v, \A x \in S : v[x] \in Int
  PROVE  \E x \in S : \A y \in S : v[y] <= v[x]
<1> DEFINE Counts == {Cardinality(AtMost(v, S, v[x])) : x \in S}
<1>1. Counts \in SUBSET (0..Cardinality(S)) /\ Counts # {} /\ Cardinality(S) \in Nat
  <2>1. \A x \in S : Cardinality(AtMost(v, S, v[x])) \in 0..Cardinality(S)
    BY AtMostSize
  <2>2. Cardinality(S) \in Nat
    BY FS_CardinalityType
  <2>3. QED
    BY <2>1, <2>2
<1>2. PICK x \in S : \A n \in Counts : n <= Cardinality(AtMost(v, S, v[x]))
  <2>1. Max(Counts) \in Counts /\ \A n \in Counts : n <= Max(Counts)
    <3> HIDE DEF Counts
    <3>1. QED
      BY <1>1, GreatestElement
  <2>2. QED
    BY <2>1
<1>3. ASSUME NEW y \in S, ~(v[y] <= v[x]) PROVE FALSE
  <2>1. v[x] \in Int /\ v[y] \in Int /\ v[x] < v[y] /\ v[y] <= v[y]
    BY <1>3
  <2>2. AtMost(v, S, v[x]) \in SUBSET AtMost(v, S, v[y])
    BY <2>1 DEF AtMost
  <2>3. y \in AtMost(v, S, v[y]) /\ y \notin AtMost(v, S, v[x])
    BY <1>3, <2>1 DEF AtMost
  <2>4. Cardinality(AtMost(v, S, v[y])) <= Cardinality(AtMost(v, S, v[x]))
    BY <1>2
  <2>5. /\ IsFiniteSet(AtMost(v, S, v[y]))
        /\ Cardinality(AtMost(v, S, v[y])) \in Nat /\ Cardinality(AtMost(v, S, v[x])) \in Nat
    BY AtMostSize, <1>1
  <2>6. /\ Cardinality(AtMost(v, S, v[x])) <= Cardinality(AtMost(v, S, v[y]))
        /\ Cardinality(AtMost(v, S, v[y])) = Cardinality(AtMost(v, S, v[x]))
             => AtMost(v, S, v[y]) = AtMost(v, S, v[x])
    BY <2>2, <2>5, FS_Subset
  <2>7. QED
    BY <2>3, <2>4, <2>5, <2>6
<1>4. QED
  BY <1>3

LEMMA Smallest ==
  ASSUME NEW S, IsFiniteSet(S), S # {}, NEW v, \A x \in S : v[x] \in Int
  PROVE  \E x \in S : \A y \in S : v[x] <= v[y]
<1> DEFINE w == [x \in S |-> -v[x]]
<1>1. \A x \in S : w[x] \in Int /\ w[x] = -v[x]
  OBVIOUS
<1>2. PICK x \in S : \A y \in S : w[y] <= w[x]
  <2> HIDE DEF w
  <2>1. QED
    BY <1>1, Largest
<1>3. QED
  <2> HIDE DEF w
  <2>1. \A y \in S : v[x] <= v[y]
    BY <1>1, <1>2
  <2>2. QED
    BY <2>1

\* The least of a finite set of numbers.
LEMMA LeastOf ==
  ASSUME NEW T \in SUBSET Int, IsFiniteSet(T), T # {}
  PROVE  Min(T) \in T /\ \A y \in T : Min(T) <= y
<1>1. \A x \in T : [y \in T |-> y][x] \in Int
  OBVIOUS
<1>2. PICK x \in T : \A y \in T : [z \in T |-> z][x] <= [z \in T |-> z][y]
  BY <1>1, Smallest
<1>3. \E z \in T : \A y \in T : z =< y
  BY <1>2
<1>4. QED
  BY <1>3, Zenon DEF Min

LEMMA MaxOfTwo ==
  ASSUME NEW a \in Int, NEW b \in Int
  PROVE  Max({a, b}) = IF a >= b THEN a ELSE b
<1>1. \E z \in {a, b} : \A y \in {a, b} : z >= y
  OBVIOUS
<1>2. Max({a, b}) \in {a, b} /\ \A y \in {a, b} : Max({a, b}) >= y
  BY <1>1, Zenon DEF Max
<1>3. QED
  BY <1>2

LEMMA MinOfTwo ==
  ASSUME NEW a \in Int, NEW b \in Int
  PROVE  Min({a, b}) = IF a <= b THEN a ELSE b
<1>1. \E z \in {a, b} : \A y \in {a, b} : z =< y
  OBVIOUS
<1>2. Min({a, b}) \in {a, b} /\ \A y \in {a, b} : Min({a, b}) =< y
  BY <1>1, Zenon DEF Min
<1>3. QED
  BY <1>2

---------------------------------------------------------------------------
(* The k-th value of a function on a finite set, in the order of size *)

Reaching(v, S, k) == {i \in S : Cardinality(AtMost(v, S, v[i])) >= k}
Kth(v, S, k) == Min({v[i] : i \in Reaching(v, S, k)})

LEMMA KthIs ==
  ASSUME NEW S, IsFiniteSet(S), NEW v, \A x \in S : v[x] \in Int,
         NEW k \in Nat, 1 <= k, k <= Cardinality(S)
  PROVE  /\ Kth(v, S, k) \in Int
         /\ \E i \in S : Kth(v, S, k) = v[i]
         /\ \A l \in Int : Kth(v, S, k) <= l <=> Cardinality(AtMost(v, S, l)) >= k
<1> DEFINE R == Reaching(v, S, k)
<1>1. R \in SUBSET S /\ IsFiniteSet(R)
  <2>1. R \in SUBSET S
    BY DEF Reaching
  <2>2. QED
    BY <2>1, FS_Subset
<1>2. ASSUME NEW l \in Int, Cardinality(AtMost(v, S, l)) >= k
      PROVE  \E j \in R : v[j] <= l
  <2>1. AtMost(v, S, l) \in SUBSET S /\ IsFiniteSet(AtMost(v, S, l)) /\ AtMost(v, S, l) # {}
    <3>1. AtMost(v, S, l) = {} => Cardinality(AtMost(v, S, l)) = 0
      BY FS_EmptySet
    <3>2. QED
      BY <1>2, <3>1, AtMostSize
  <2>2. \A x \in AtMost(v, S, l) : v[x] \in Int
    BY <2>1
  <2>3. PICK j \in AtMost(v, S, l) : \A y \in AtMost(v, S, l) : v[y] <= v[j]
    BY <2>1, <2>2, Largest
  <2>4. j \in S /\ v[j] <= l /\ v[j] \in Int
    BY <2>1, <2>3 DEF AtMost
  <2>5. AtMost(v, S, l) \in SUBSET AtMost(v, S, v[j])
    BY <2>1, <2>3 DEF AtMost
  <2>6. Cardinality(AtMost(v, S, l)) <= Cardinality(AtMost(v, S, v[j]))
    BY <2>5, AtMostSize, FS_Subset
  <2>7. Cardinality(AtMost(v, S, l)) \in Int /\ Cardinality(AtMost(v, S, v[j])) \in Int
    BY AtMostSize
  <2>8. Cardinality(AtMost(v, S, v[j])) >= k
    BY <1>2, <2>6, <2>7
  <2>9. QED
    BY <2>4, <2>8 DEF Reaching
<1>3. R # {}
  <2>1. S # {}
    BY FS_EmptySet
  <2>2. PICK x \in S : \A y \in S : v[y] <= v[x]
    BY <2>1, Largest
  <2>3. AtMost(v, S, v[x]) = S
    BY <2>2 DEF AtMost
  <2>4. Cardinality(AtMost(v, S, v[x])) >= k /\ v[x] \in Int
    <3>1. Cardinality(S) \in Nat
      BY FS_CardinalityType
    <3>2. QED
      BY <2>3, <3>1
  <2>5. QED
    BY <1>2, <2>4
<1>4. PICK i \in R : \A y \in R : v[i] <= v[y]
  <2>1. \A x \in R : v[x] \in Int
    BY <1>1
  <2> HIDE DEF R
  <2>2. QED
    BY <1>1, <1>3, <2>1, Smallest
<1>5. Kth(v, S, k) = v[i]
  <2> DEFINE V == {v[j] : j \in R}
  <2>1. v[i] \in V /\ \A y \in V : v[i] =< y
    BY <1>4
  <2>2. V \in SUBSET Int
    BY <1>1
  <2>3. \E z \in V : \A y \in V : z =< y
    BY <2>1
  <2>4. Min(V) \in V /\ \A y \in V : Min(V) =< y
    <3> HIDE DEF V
    <3>1. QED
      BY <2>3, Zenon DEF Min
  <2>5. Min(V) = v[i]
    <3> HIDE DEF V
    <3>1. Min(V) =< v[i] /\ v[i] =< Min(V) /\ Min(V) \in Int /\ v[i] \in Int
      BY <2>1, <2>2, <2>4
    <3>2. QED
      BY <3>1
  <2>6. QED
    BY <2>5, Zenon DEF Kth
<1>6. i \in S /\ v[i] \in Int
  BY <1>1
<1>7. ASSUME NEW l \in Int, v[i] <= l PROVE Cardinality(AtMost(v, S, l)) >= k
  <2>1. AtMost(v, S, v[i]) \in SUBSET AtMost(v, S, l)
    BY <1>6, <1>7 DEF AtMost
  <2>2. Cardinality(AtMost(v, S, v[i])) <= Cardinality(AtMost(v, S, l))
    BY <2>1, AtMostSize, FS_Subset
  <2>3. Cardinality(AtMost(v, S, l)) \in Int /\ Cardinality(AtMost(v, S, v[i])) \in Int
    BY AtMostSize
  <2>4. Cardinality(AtMost(v, S, v[i])) >= k
    BY DEF Reaching
  <2>5. QED
    BY <2>2, <2>3, <2>4
<1>8. ASSUME NEW l \in Int, Cardinality(AtMost(v, S, l)) >= k PROVE v[i] <= l
  <2>1. PICK j \in R : v[j] <= l
    BY <1>2, <1>8
  <2>2. v[i] <= v[j] /\ v[j] \in Int
    BY <1>1, <1>4
  <2>3. QED
    BY <1>6, <2>1, <2>2
<1>9. QED
  <2>1. \A l \in Int : v[i] <= l <=> Cardinality(AtMost(v, S, l)) >= k
    BY <1>7, <1>8
  <2>2. QED
    BY <1>5, <1>6, <2>1

\* Sums of values up to m.
LEMMA SumBounds ==
  ASSUME NEW S, IsFiniteSet(S), NEW m \in Nat, NEW f, \A x \in S : f[x] \in 0..m
  PROVE  SumOver(f, S) \in 0..(m * Cardinality(S))
<1> DEFINE G == {s \in SUBSET S : SumOver(f, s) \in 0..(m * Cardinality(s))}
<1>1. ASSUME NEW s \in SUBSET S,
             \A t \in SUBSET S : Cardinality(t) < Cardinality(s) => t \in G
      PROVE  s \in G
  <2>0. IsFiniteSet(s) /\ Cardinality(s) \in Nat
    BY SubsetSize
  <2>1. CASE s = {}
    <3>1. SumOver(f, s) = 0
      BY <2>0, <2>1, SumZero
    <3>2. Cardinality(s) = 0
      BY <2>1, FS_EmptySet
    <3>3. m * 0 = 0
      OBVIOUS
    <3>4. QED
      BY <3>1, <3>2, <3>3
  <2>2. CASE s # {}
    <3>1. PICK x \in s : TRUE
      BY <2>2
    <3>2. /\ s \ {x} \in SUBSET S /\ IsFiniteSet(s \ {x})
          /\ Cardinality(s \ {x}) = Cardinality(s) - 1 /\ (s \ {x}) \cup {x} = s
      BY <2>0, FS_RemoveElement, FS_Subset
    <3>3. SumOver(f, s \ {x}) \in 0..(m * (Cardinality(s) - 1))
      <4>1. Cardinality(s \ {x}) < Cardinality(s)
        BY <2>0, <3>2
      <4>2. s \ {x} \in G
        BY <1>1, <3>2, <4>1
      <4>3. QED
        BY <3>2, <4>2
    <3>4. SumOver(f, (s \ {x}) \cup {x}) = SumOver(f, s \ {x}) + f[x]
      <4>1. x \notin s \ {x} /\ \A y \in (s \ {x}) \cup {x} : f[y] \in Int
        OBVIOUS
      <4>2. QED
        BY <3>2, <4>1, SumAdd
    <3>5. f[x] \in 0..m
      OBVIOUS
    <3>6. SumOver(f, s) = SumOver(f, s \ {x}) + f[x]
      BY <3>2, <3>4
    <3>7. m * Cardinality(s) = m * (Cardinality(s) - 1) + m
      BY <2>0
    <3>8. m * (Cardinality(s) - 1) \in Int /\ m * Cardinality(s) \in Int
      BY <2>0
    <3> HIDE DEF G
    <3>9. SumOver(f, s) \in 0..(m * Cardinality(s))
      BY <3>3, <3>5, <3>6, <3>7, <3>8
    <3>10. QED
      BY <3>9 DEF G
  <2>3. QED
    BY <2>1, <2>2
<1>2. G = SUBSET S
  <2>1. G \in SUBSET SUBSET S
    OBVIOUS
  <2> HIDE DEF G
  <2>2. QED
    BY <1>1, <2>1, SubsetInduction
<1>3. S \in G
  <2> HIDE DEF G
  <2>1. QED
    BY <1>2
<1>4. QED
  BY <1>3

---------------------------------------------------------------------------
(* The elements of a finite set S in the order H *)

Above(H, S, e) == {f \in S : <<f, e>> \in H}
FirstOf(H, S, n) == {e \in S : Cardinality(Above(H, S, e)) < n}

IsOrder(H, S) ==
  /\ \A e \in S : <<e, e>> \notin H
  /\ \A e, f \in S : e = f \/ <<e, f>> \in H \/ <<f, e>> \in H
  /\ \A e, f, g \in S : <<e, f>> \in H /\ <<f, g>> \in H => <<e, g>> \in H

LEMMA AboveType ==
  ASSUME NEW S, IsFiniteSet(S), NEW H
  PROVE  \A e : /\ IsFiniteSet(Above(H, S, e)) /\ Cardinality(Above(H, S, e)) \in Nat
                /\ Above(H, S, e) \in SUBSET S
<1> TAKE e
<1>1. Above(H, S, e) \in SUBSET S
  BY DEF Above
<1>2. QED
  BY <1>1, FS_Subset, FS_CardinalityType

\* What is above an element has fewer elements above it.
LEMMA AboveIsLess ==
  ASSUME NEW S, IsFiniteSet(S), NEW H, IsOrder(H, S), NEW e \in S, NEW f \in S, <<f, e>> \in H
  PROVE  Cardinality(Above(H, S, f)) < Cardinality(Above(H, S, e))
<1>1. Above(H, S, f) \in SUBSET Above(H, S, e)
  BY DEF Above, IsOrder
<1>2. f \in Above(H, S, e) /\ f \notin Above(H, S, f)
  BY DEF Above, IsOrder
<1>3. IsFiniteSet(Above(H, S, e))
  BY AboveType
<1>4. /\ Cardinality(Above(H, S, f)) <= Cardinality(Above(H, S, e))
      /\ Cardinality(Above(H, S, e)) = Cardinality(Above(H, S, f)) =>
           Above(H, S, e) = Above(H, S, f)
  BY <1>1, <1>3, FS_Subset
<1>5. /\ Cardinality(Above(H, S, f)) \in Nat /\ Cardinality(Above(H, S, e)) \in Nat
  BY AboveType
<1>6. QED
  BY <1>2, <1>4, <1>5

\* The first n are n.
LEMMA FirstAreMany ==
  ASSUME NEW S, IsFiniteSet(S), NEW H, IsOrder(H, S), NEW m \in Nat, m <= Cardinality(S)
  PROVE  Cardinality(FirstOf(H, S, m)) = m
<1> DEFINE T == {n \in Nat : n <= Cardinality(S) => Cardinality(FirstOf(H, S, n)) = n}
<1>0. Cardinality(S) \in Nat
  BY FS_CardinalityType
<1>1. 0 \in T
  <2>1. FirstOf(H, S, 0) = {}
    BY AboveType DEF FirstOf
  <2>2. QED
    BY <2>1, FS_EmptySet
<1>2. ASSUME NEW n \in T, n + 1 <= Cardinality(S)
      PROVE  Cardinality(FirstOf(H, S, n + 1)) = n + 1
  <2> DEFINE Low == FirstOf(H, S, n)
             Rest == S \ Low
             Ranks == {Cardinality(Above(H, S, e)) : e \in Rest}
  <2>1. n \in Nat /\ Low \in SUBSET S /\ IsFiniteSet(Low) /\ Cardinality(Low) = n
    <3>1. n \in Nat /\ n <= Cardinality(S)
      BY <1>0, <1>2
    <3>2. Low \in SUBSET S
      BY DEF FirstOf
    <3>3. QED
      BY <3>1, <3>2, FS_Subset
  <2>2. Rest # {}
    <3>1. Low # S
      BY <1>0, <1>2, <2>1
    <3>2. QED
      BY <2>1, <3>1
  <2>3. PICK k \in Ranks : \A r \in Ranks : k <= r
    <3>1. Ranks \in SUBSET Nat /\ Ranks # {}
      <4> HIDE DEF Rest
      <4>1. QED
        BY <2>2, AboveType
    <3> HIDE DEF Ranks
    <3>2. QED
      BY <3>1, LeastNumber
  <2>4. PICK e \in Rest : Cardinality(Above(H, S, e)) = k
    BY <2>3
  <2>5. e \in S /\ e \notin Low /\ \A f \in Rest : k <= Cardinality(Above(H, S, f))
    BY <2>3, <2>4
  <2> HIDE DEF Ranks
  <2>6. ASSUME NEW f \in Rest, f # e PROVE <<e, f>> \in H
    <3>1. f \in S
      BY <2>6
    <3>2. <<f, e>> \notin H
      <4>1. <<f, e>> \in H => Cardinality(Above(H, S, f)) < k
        BY <2>4, <2>5, <3>1, AboveIsLess
      <4>2. k <= Cardinality(Above(H, S, f))
        BY <2>5
      <4>3. k \in Nat /\ Cardinality(Above(H, S, f)) \in Nat
        BY <2>4, AboveType
      <4>4. QED
        BY <4>1, <4>2, <4>3
    <3>3. QED
      BY <2>5, <2>6, <3>1, <3>2 DEF IsOrder
  <2>7. ASSUME NEW f \in Low, NEW g \in Rest PROVE <<f, g>> \in H
    <3>1. f \in S /\ g \in S /\ f # g
      BY <2>1
    <3>2. Cardinality(Above(H, S, f)) < n /\ ~(Cardinality(Above(H, S, g)) < n)
      BY <3>1 DEF FirstOf
    <3>3. <<g, f>> \notin H
      <4>1. <<g, f>> \in H => Cardinality(Above(H, S, g)) < Cardinality(Above(H, S, f))
        BY <3>1, AboveIsLess
      <4>2. Cardinality(Above(H, S, f)) \in Nat /\ Cardinality(Above(H, S, g)) \in Nat
        BY AboveType
      <4>3. QED
        BY <2>1, <3>2, <4>1, <4>2
    <3>4. QED
      BY <3>1, <3>3 DEF IsOrder
  <2>8. Above(H, S, e) = Low
    <3>1. ASSUME NEW f \in S PROVE <<f, e>> \in H <=> f \in Low
      <4>1. CASE f \in Low
        BY <2>4, <2>7, <4>1
      <4>2. CASE f = e
        BY <2>5, <4>2 DEF IsOrder
      <4>3. CASE f \notin Low /\ f # e
        <5>1. <<e, f>> \in H
          BY <2>6, <4>3
        <5>2. <<f, e>> \notin H
          BY <2>5, <5>1 DEF IsOrder
        <5>3. QED
          BY <4>3, <5>2
      <4>4. QED
        BY <4>1, <4>2, <4>3
    <3>2. QED
      <4> HIDE DEF Low
      <4>1. QED
        BY <2>1, <3>1 DEF Above
  <2>9. ASSUME NEW f \in S PROVE Cardinality(Above(H, S, f)) < n + 1 <=> f \in Low \cup {e}
    <3>0. Cardinality(Above(H, S, f)) \in Nat
      BY AboveType
    <3>1. CASE f \in Low
      <4>1. Cardinality(Above(H, S, f)) < n
        BY <3>1 DEF FirstOf
      <4>2. QED
        BY <2>1, <3>0, <3>1, <4>1
    <3>2. CASE f = e
      BY <2>1, <2>8, <3>2
    <3>3. CASE f \notin Low /\ f # e
      <4>1. <<e, f>> \in H
        BY <2>6, <3>3
      <4>2. Cardinality(Above(H, S, e)) < Cardinality(Above(H, S, f))
        BY <2>5, <4>1, AboveIsLess
      <4>3. n < Cardinality(Above(H, S, f))
        BY <2>1, <2>8, <4>2
      <4>4. QED
        BY <2>1, <3>0, <3>3, <4>3
    <3>4. QED
      BY <3>1, <3>2, <3>3
  <2>10. FirstOf(H, S, n + 1) = Low \cup {e}
    <3> HIDE DEF Low
    <3>1. QED
      BY <2>1, <2>5, <2>9 DEF FirstOf
  <2>11. QED
    <3> HIDE DEF Low
    <3>1. Cardinality(Low \cup {e}) = n + 1
      BY <2>1, <2>5, FS_AddElement
    <3>2. QED
      BY <2>10, <3>1
<1>3. \A n \in T : n + 1 \in T
  <2>1. \A n \in T : n \in Nat /\ n + 1 \in Nat
    OBVIOUS
  <2>2. QED
    BY <1>2, <2>1
<1>4. T = Nat
  <2> HIDE DEF T
  <2>1. T \in SUBSET Nat
    BY DEF T
  <2>2. QED
    BY <1>1, <1>3, <2>1, NumberInduction
<1>5. QED
  BY <1>4

\* When there are no more than n, the first n are all.
LEMMA FirstAreAll ==
  ASSUME NEW S, IsFiniteSet(S), NEW H, IsOrder(H, S), NEW m \in Nat, Cardinality(S) <= m
  PROVE  FirstOf(H, S, m) = S
<1>1. ASSUME NEW e \in S PROVE Cardinality(Above(H, S, e)) < m
  <2>1. Above(H, S, e) \in SUBSET (S \ {e})
    BY DEF Above, IsOrder
  <2>2. /\ IsFiniteSet(S \ {e}) /\ Cardinality(S \ {e}) = Cardinality(S) - 1
    BY FS_RemoveElement
  <2>3. Cardinality(Above(H, S, e)) <= Cardinality(S) - 1
    BY <2>1, <2>2, FS_Subset
  <2>4. Cardinality(S) \in Nat /\ Cardinality(Above(H, S, e)) \in Nat
    BY AboveType, FS_CardinalityType
  <2>5. QED
    BY <2>3, <2>4
<1>2. QED
  BY <1>1 DEF FirstOf

---------------------------------------------------------------------------
(* Numbers that are not 0 *)

Positive == Nat \ {0}

LEMMA PositiveProduct ==
  ASSUME NEW a \in Positive, NEW b \in Positive
  PROVE  a * b \in Positive
<1>1. a * b \in Nat
  BY DEF Positive
<1>2. a \in Int /\ b \in Int /\ a >= 1 /\ b >= 1
  BY DEF Positive
<1>3. a * b >= 1
  <2>1. (a - 1) * (b - 1) >= 0
    BY <1>2
  <2>2. a * b = (a - 1) * (b - 1) + (a - 1) + (b - 1) + 1
    BY <1>2
  <2>3. QED
    BY <1>2, <2>1, <2>2
<1>4. QED
  BY <1>1, <1>3 DEF Positive

---------------------------------------------------------------------------
(* Sums of multiples *)

LEMMA SumScale ==
  ASSUME NEW S, IsFiniteSet(S), NEW f, NEW e, NEW k \in Int,
         \A x \in S : f[x] \in Int /\ e[x] = k * f[x]
  PROVE  SumOver(e, S) = k * SumOver(f, S)
<1>0. (\A x \in S : f[x] \in Int) /\ (\A x \in S : e[x] \in Int)
  OBVIOUS
<1>1. PICK g \in [SUBSET S -> Int] : SumOver(f, S) = g[S] /\ Sums(f, S, g)
  BY <1>0, SumOverSums
<1>2. PICK d \in [SUBSET S -> Int] : SumOver(e, S) = d[S] /\ Sums(e, S, d)
  BY <1>0, SumOverSums
<1>c. \A s \in SUBSET S : s # {} => Chosen(s) \in s
  BY DEF Chosen
<1>a. \A s \in SUBSET S : s # {} => g[s] = f[Chosen(s)] + g[s \ {Chosen(s)}]
  BY <1>1, SumsAt
<1>b. \A s \in SUBSET S : s # {} => d[s] = e[Chosen(s)] + d[s \ {Chosen(s)}]
  BY <1>2, SumsAt
<1> DEFINE G == {s \in SUBSET S : d[s] = k * g[s]}
<1>3. ASSUME NEW s \in SUBSET S,
             \A t \in SUBSET S : Cardinality(t) < Cardinality(s) => t \in G
      PROVE  s \in G
  <2>1. CASE s = {}
    <3>1. g[s] = 0 /\ d[s] = 0
      BY <1>1, <1>2, <2>1, SumsAt
    <3>2. 0 = k * 0
      OBVIOUS
    <3>3. QED
      BY <3>1, <3>2
  <2>2. CASE s # {}
    <3> DEFINE x == Chosen(s)
               t == s \ {x}
    <3>1. x \in s /\ g[s] = f[x] + g[t] /\ d[s] = e[x] + d[t]
      <4>1. x \in s /\ g[s] = f[x] + g[t]
        BY <1>a, <1>c, <2>2
      <4>2. d[s] = e[x] + d[t]
        BY <1>b, <2>2
      <4>3. QED
        BY <4>1, <4>2
    <3>2. t \in SUBSET S /\ Cardinality(t) < Cardinality(s)
      BY <3>1, SubsetSize
    <3>3. d[t] = k * g[t] /\ g[t] \in Int
      BY <1>3, <3>2
    <3>4. f[x] \in Int /\ e[x] = k * f[x]
      BY <3>1
    <3> HIDE DEF x, t
    <3>5. \A p, q \in Int : k * p + k * q = k * (p + q)
      OBVIOUS
    <3>6. d[s] = k * f[x] + k * g[t]
      BY <3>1, <3>3, <3>4
    <3>7. d[s] = k * g[s]
      BY <3>1, <3>3, <3>4, <3>5, <3>6
    <3>8. QED
      BY <3>7
  <2>3. QED
    BY <2>1, <2>2
<1>4. G = SUBSET S
  <2> HIDE DEF G
  <2>1. G \in SUBSET SUBSET S
    BY DEF G
  <2>2. QED
    BY <1>3, <2>1, SubsetInduction
<1>5. S \in G
  <2> HIDE DEF G
  <2>1. QED
    BY <1>4
<1>6. QED
  BY <1>1, <1>2, <1>5

\* Numbers that are all larger have a larger sum.
LEMMA SumAbove ==
  ASSUME NEW S, IsFiniteSet(S), S # {}, NEW f, NEW b \in Int,
         \A x \in S : f[x] \in Int /\ f[x] > b
  PROVE  SumOver(f, S) \in Int /\ SumOver(f, S) > b * Cardinality(S)
<1>0. \A x \in S : f[x] \in Int
  OBVIOUS
<1>1. PICK g \in [SUBSET S -> Int] : SumOver(f, S) = g[S] /\ Sums(f, S, g)
  BY <1>0, SumOverSums
<1> DEFINE G == {s \in SUBSET S : g[s] >= (b + 1) * Cardinality(s)}
<1>2. ASSUME NEW s \in SUBSET S,
             \A t \in SUBSET S : Cardinality(t) < Cardinality(s) => t \in G
      PROVE  s \in G
  <2>1. CASE s = {}
    <3>1. g[s] = 0 /\ Cardinality(s) = 0
      BY <1>1, <2>1, SumsAt, FS_EmptySet
    <3>2. 0 >= (b + 1) * 0
      OBVIOUS
    <3>3. QED
      BY <3>1, <3>2
  <2>2. CASE s # {}
    <3> DEFINE x == Chosen(s)
               t == s \ {x}
    <3>1. x \in s /\ g[s] = f[x] + g[t]
      BY <1>1, <2>2, SumsAt
    <3>2. /\ t \in SUBSET S /\ Cardinality(t) < Cardinality(s)
          /\ Cardinality(t) = Cardinality(s) - 1 /\ Cardinality(s) \in Nat
      BY <3>1, SubsetSize
    <3>3. g[t] >= (b + 1) * Cardinality(t) /\ g[t] \in Int
      BY <1>2, <3>2
    <3>4. f[x] \in Int /\ f[x] >= b + 1
      BY <3>1
    <3> HIDE DEF x, t
    <3>5. \A m \in Nat : (b + 1) * m = (b + 1) * (m - 1) + (b + 1)
      OBVIOUS
    <3>. PICK m \in Nat : m = Cardinality(s)
      BY <3>2
    <3> DEFINE r == (b + 1) * (m - 1)
    <3>6. (b + 1) * m = r + (b + 1) /\ r \in Int
      BY <3>5
    <3>7. g[t] >= r
      BY <3>2, <3>3
    <3> HIDE DEF r
    <3>8. g[s] >= (b + 1) * m
      BY <3>1, <3>3, <3>4, <3>6, <3>7
    <3>9. QED
      BY <3>8
  <2>3. QED
    BY <2>1, <2>2
<1>3. G = SUBSET S
  <2> HIDE DEF G
  <2>1. G \in SUBSET SUBSET S
    BY DEF G
  <2>2. QED
    BY <1>2, <2>1, SubsetInduction
<1>4. S \in G
  <2> HIDE DEF G
  <2>1. QED
    BY <1>3
<1>5. Cardinality(S) \in Nat /\ Cardinality(S) >= 1
  <2>1. Cardinality(S) \in Nat /\ Cardinality(S) # 0
    BY FS_EmptySet, FS_CardinalityType
  <2>2. QED
    BY <2>1
<1>6. \A m \in Nat : m >= 1 => (b + 1) * m > b * m
  <2>1. \A m \in Nat : (b + 1) * m = b * m + m
    OBVIOUS
  <2>2. QED
    BY <2>1
<1>7. SumOver(f, S) >= (b + 1) * Cardinality(S) /\ SumOver(f, S) \in Int
  BY <1>1, <1>4
<1>8. QED
  BY <1>5, <1>6, <1>7

---------------------------------------------------------------------------
(* The elements of a finite set S, listed in the order H *)

Listing(H, S) == [k \in 1..Cardinality(S) |->
                    CHOOSE e \in S : Cardinality(Above(H, S, e)) = k - 1]

LEMMA RankExists ==
  ASSUME NEW S, IsFiniteSet(S), NEW H, IsOrder(H, S), NEW k \in 1..Cardinality(S)
  PROVE  \E e \in S : Cardinality(Above(H, S, e)) = k - 1
<1>1. Cardinality(S) \in Nat
  BY FS_CardinalityType
<1>2. k \in Nat /\ k - 1 \in Nat /\ k <= Cardinality(S) /\ k - 1 <= Cardinality(S)
  BY <1>1
<1>3. Cardinality(FirstOf(H, S, k)) = k /\ Cardinality(FirstOf(H, S, k - 1)) = k - 1
  BY <1>2, FirstAreMany
<1>4. PICK e \in FirstOf(H, S, k) : e \notin FirstOf(H, S, k - 1)
  <2>1. FirstOf(H, S, k) \in SUBSET S /\ FirstOf(H, S, k - 1) \in SUBSET S
    BY DEF FirstOf
  <2>2. IsFiniteSet(FirstOf(H, S, k - 1))
    BY <2>1, FS_Subset
  <2>3. ~(FirstOf(H, S, k) \subseteq FirstOf(H, S, k - 1))
    <3>1. FirstOf(H, S, k) \subseteq FirstOf(H, S, k - 1) =>
            Cardinality(FirstOf(H, S, k)) <= Cardinality(FirstOf(H, S, k - 1))
      BY <2>2, FS_Subset
    <3>2. ~(k <= k - 1)
      BY <1>2
    <3>3. QED
      BY <1>3, <3>1, <3>2
  <2>4. QED
    BY <2>3
<1>5. e \in S /\ Cardinality(Above(H, S, e)) < k /\ ~(Cardinality(Above(H, S, e)) < k - 1)
  BY <1>4 DEF FirstOf
<1>6. Cardinality(Above(H, S, e)) \in Nat
  BY AboveType
<1>7. Cardinality(Above(H, S, e)) = k - 1
  BY <1>2, <1>5, <1>6
<1>8. QED
  BY <1>5, <1>7

\* A listing lists every element once, in the order.
LEMMA ListingIs ==
  ASSUME NEW S, IsFiniteSet(S), NEW H, IsOrder(H, S), NEW s, s = Listing(H, S)
  PROVE  /\ s \in Seq(S) /\ Len(s) = Cardinality(S) /\ DOMAIN s = 1..Cardinality(S)
         /\ Cardinality(S) \in Nat
         /\ \A k \in 1..Cardinality(S) : s[k] \in S /\ Cardinality(Above(H, S, s[k])) = k - 1
         /\ \A j, k \in 1..Cardinality(S) : j < k => <<s[j], s[k]>> \in H
         /\ \A e \in S : \E k \in 1..Cardinality(S) : e = s[k]
<1> DEFINE n == Cardinality(S)
<1>1. n \in Nat
  BY FS_CardinalityType
<1>2. ASSUME NEW k \in 1..n
      PROVE  s[k] \in S /\ Cardinality(Above(H, S, s[k])) = k - 1
  <2>1. s[k] = CHOOSE e \in S : Cardinality(Above(H, S, e)) = k - 1
    BY Zenon DEF Listing
  <2>2. \E e \in S : Cardinality(Above(H, S, e)) = k - 1
    BY RankExists
  <2>3. QED
    BY <2>1, <2>2, Zenon
<1>3. s \in Seq(S) /\ Len(s) = n /\ DOMAIN s = 1..n
  <2>1. s = [k \in 1..n |-> s[k]]
    BY DEF Listing
  <2>2. \A g : g = [k \in 1..n |-> g[k]] /\ (\A k \in 1..n : g[k] \in S)
                 => g \in Seq(S) /\ Len(g) = n /\ DOMAIN g = 1..n
    BY <1>1
  <2> HIDE DEF n
  <2>3. QED
    BY <1>2, <2>1, <2>2
<1>4. ASSUME NEW j \in 1..n, NEW k \in 1..n, j < k PROVE <<s[j], s[k]>> \in H
  <2>1. s[j] \in S /\ s[k] \in S /\ j - 1 < k - 1
    BY <1>2, <1>4
  <2>2. Cardinality(Above(H, S, s[j])) < Cardinality(Above(H, S, s[k]))
    BY <1>2, <2>1
  <2>3. s[j] # s[k]
    BY <1>2, <2>1
  <2>4. <<s[k], s[j]>> \notin H
    <3>1. <<s[k], s[j]>> \in H => Cardinality(Above(H, S, s[k])) < Cardinality(Above(H, S, s[j]))
      BY <2>1, AboveIsLess
    <3>2. ~(k - 1 < j - 1)
      BY <1>4
    <3>3. QED
      BY <1>2, <3>1, <3>2
  <2>5. QED
    BY <2>1, <2>3, <2>4 DEF IsOrder
<1>5. ASSUME NEW e \in S PROVE \E k \in 1..n : e = s[k]
  <2> DEFINE r == Cardinality(Above(H, S, e))
  <2>1. r \in Nat /\ r < n
    <3>1. Above(H, S, e) \in SUBSET (S \ {e})
      BY DEF Above, IsOrder
    <3>2. IsFiniteSet(S \ {e}) /\ Cardinality(S \ {e}) = n - 1
      BY FS_RemoveElement
    <3>3. r <= n - 1 /\ r \in Nat
      BY <3>1, <3>2, FS_Subset, AboveType
    <3>4. QED
      BY <1>1, <3>3
  <2>2. r + 1 \in 1..n /\ (r + 1) - 1 = r
    BY <1>1, <2>1
  <2>3. s[r + 1] \in S /\ Cardinality(Above(H, S, s[r + 1])) = r
    <3> HIDE DEF r, n
    <3>1. QED
      BY <1>2, <2>2
  <2>4. e = s[r + 1]
    <3>1. <<e, s[r + 1]>> \in H => r < Cardinality(Above(H, S, s[r + 1]))
      BY <2>3, AboveIsLess
    <3>2. <<s[r + 1], e>> \in H => Cardinality(Above(H, S, s[r + 1])) < r
      BY <2>3, AboveIsLess
    <3>3. ~(r < r)
      BY <2>1
    <3>4. e = s[r + 1] \/ <<e, s[r + 1]>> \in H \/ <<s[r + 1], e>> \in H
      BY <2>3 DEF IsOrder
    <3> HIDE DEF r
    <3>5. QED
      BY <2>3, <3>1, <3>2, <3>3, <3>4
  <2>5. QED
    BY <2>2, <2>4
<1>6. QED
  BY <1>1, <1>2, <1>3, <1>4, <1>5

---------------------------------------------------------------------------
(* Products of numbers *)

LEMMA ScaleOrder ==
  ASSUME NEW k \in Positive, NEW a \in Int, NEW b \in Int
  PROVE  k * a <= k * b <=> a <= b
<1>1. k \in Int /\ k >= 1
  BY DEF Positive
<1>2. ASSUME a <= b PROVE k * a <= k * b
  <2>1. k * (b - a) >= 0
    BY <1>1, <1>2
  <2>2. k * (b - a) = k * b - k * a
    BY <1>1
  <2>3. k * a \in Int /\ k * b \in Int
    BY <1>1
  <2>4. QED
    BY <2>1, <2>2, <2>3
<1>3. ASSUME a > b PROVE k * a > k * b
  <2>1. (k - 1) * (a - b) >= 0
    BY <1>1, <1>3
  <2>2. k * a - k * b = (k - 1) * (a - b) + (a - b)
    BY <1>1
  <2>3. k * a \in Int /\ k * b \in Int /\ (k - 1) * (a - b) \in Int
    BY <1>1
  <2>4. QED
    BY <1>3, <2>1, <2>2, <2>3
<1>4. k * a \in Int /\ k * b \in Int
  BY <1>1
<1>5. QED
  BY <1>2, <1>3, <1>4

\* The difference of the means, when one more x is added to m of mean x.
LEMMA MeanStays ==
  ASSUME NEW m \in Positive, NEW k \in Positive, NEW x \in Int, NEW y \in Int
  PROVE  /\ m * (k * (x * m + x) - (m + 1) * y) = (m + 1) * (k * (x * m) - m * y)
         /\ m * ((m + 1) * k) = (m + 1) * (m * k)
<1>1. m \in Int /\ k \in Int
  BY DEF Positive
<1> DEFINE f == k * x - y
<1>2. k * (x * m + x) - (m + 1) * y = (m + 1) * f
  BY <1>1
<1>3. k * (x * m) - m * y = m * f
  BY <1>1
<1>4. f \in Int
  BY <1>1
<1> HIDE DEF f
<1>5. m * ((m + 1) * f) = (m + 1) * (m * f)
  BY <1>1, <1>4
<1>6. m * (k * (x * m + x) - (m + 1) * y) = (m + 1) * (k * (x * m) - m * y)
  BY <1>2, <1>3, <1>5, Zenon
<1>7. m * ((m + 1) * k) = (m + 1) * (m * k)
  BY <1>1
<1>8. QED
  BY <1>6, <1>7

---------------------------------------------------------------------------
(* Sums of two functions, counts as sums, and a partition's sizes *)

\* One element of a set that is not empty is added last.
LEMMA SumLast ==
  ASSUME NEW S, IsFiniteSet(S), NEW f, \A x \in S : f[x] \in Int, NEW x \in S
  PROVE  /\ SumOver(f, S) = SumOver(f, S \ {x}) + f[x]
         /\ SumOver(f, S \ {x}) \in Int /\ SumOver(f, S) \in Int /\ IsFiniteSet(S \ {x})
<1>1. IsFiniteSet(S \ {x}) /\ x \notin S \ {x} /\ (S \ {x}) \cup {x} = S
  BY FS_Subset
<1>2. \A y \in (S \ {x}) \cup {x} : f[y] \in Int
  OBVIOUS
<1>3. SumOver(f, (S \ {x}) \cup {x}) = SumOver(f, S \ {x}) + f[x]
  BY <1>1, <1>2, SumAdd
<1>4. SumOver(f, S \ {x}) \in Int /\ SumOver(f, S) \in Int
  BY <1>1, SumType
<1>5. QED
  BY <1>1, <1>3, <1>4

LEMMA SumPlus ==
  ASSUME NEW S, IsFiniteSet(S), NEW f, NEW e, NEW h,
         \A x \in S : f[x] \in Int /\ e[x] \in Int /\ h[x] = f[x] + e[x]
  PROVE  SumOver(h, S) = SumOver(f, S) + SumOver(e, S)
<1> DEFINE G == {s \in SUBSET S : SumOver(h, s) = SumOver(f, s) + SumOver(e, s)}
<1>1. ASSUME NEW s \in SUBSET S,
             \A t \in SUBSET S : Cardinality(t) < Cardinality(s) => t \in G
      PROVE  s \in G
  <2>0. IsFiniteSet(s)
    BY FS_Subset
  <2>1. CASE s = {}
    <3>1. SumOver(h, s) = 0 /\ SumOver(f, s) = 0 /\ SumOver(e, s) = 0
      BY <2>0, <2>1, SumZero
    <3>2. QED
      BY <3>1
  <2>2. CASE s # {}
    <3>1. PICK x \in s : TRUE
      BY <2>2
    <3>2. s \ {x} \in SUBSET S /\ Cardinality(s \ {x}) < Cardinality(s)
      BY SubsetSize
    <3>3. SumOver(h, s \ {x}) = SumOver(f, s \ {x}) + SumOver(e, s \ {x})
      BY <1>1, <3>2
    <3>4. SumOver(f, s) = SumOver(f, s \ {x}) + f[x] /\ SumOver(f, s \ {x}) \in Int
      BY <2>0, SumLast
    <3>5. SumOver(e, s) = SumOver(e, s \ {x}) + e[x] /\ SumOver(e, s \ {x}) \in Int
      BY <2>0, SumLast
    <3>6. SumOver(h, s) = SumOver(h, s \ {x}) + h[x]
      <4>1. \A y \in s : h[y] \in Int
        OBVIOUS
      <4>2. QED
        BY <2>0, <4>1, SumLast
    <3>7. h[x] = f[x] + e[x] /\ f[x] \in Int /\ e[x] \in Int
      OBVIOUS
    <3>8. SumOver(h, s) = SumOver(f, s) + SumOver(e, s)
      BY <3>3, <3>4, <3>5, <3>6, <3>7
    <3>9. QED
      BY <3>8
  <2>3. QED
    BY <2>1, <2>2
<1>2. G = SUBSET S
  <2> HIDE DEF G
  <2>1. G \in SUBSET SUBSET S
    BY DEF G
  <2>2. QED
    BY <1>1, <2>1, SubsetInduction
<1>3. S \in G
  <2> HIDE DEF G
  <2>1. QED
    BY <1>2
<1>4. QED
  BY <1>3

\* As many as there are.
LEMMA SumCounts ==
  ASSUME NEW S, IsFiniteSet(S), NEW R \in SUBSET S, NEW f,
         \A x \in R : f[x] = 1, \A x \in S \ R : f[x] = 0
  PROVE  SumOver(f, S) = Cardinality(R) /\ Cardinality(R) \in Nat
<1> DEFINE G == {s \in SUBSET S : SumOver(f, s) = Cardinality(s \cap R)}
<1>a. \A x \in S : f[x] \in Int /\ (x \in R => f[x] = 1) /\ (x \notin R => f[x] = 0)
  OBVIOUS
<1>1. ASSUME NEW s \in SUBSET S,
             \A t \in SUBSET S : Cardinality(t) < Cardinality(s) => t \in G
      PROVE  s \in G
  <2>0. IsFiniteSet(s) /\ IsFiniteSet(s \cap R)
    BY FS_Subset
  <2>1. CASE s = {}
    <3>1. SumOver(f, s) = 0
      BY <2>0, <2>1, SumZero
    <3>2. s \cap R = {}
      BY <2>1
    <3>3. QED
      BY <3>1, <3>2, FS_EmptySet
  <2>2. CASE s # {}
    <3>1. PICK x \in s : TRUE
      BY <2>2
    <3>2. s \ {x} \in SUBSET S /\ Cardinality(s \ {x}) < Cardinality(s)
      BY SubsetSize
    <3>3. SumOver(f, s \ {x}) = Cardinality((s \ {x}) \cap R)
      BY <1>1, <3>2
    <3>4. SumOver(f, s) = SumOver(f, s \ {x}) + f[x]
      <4>1. \A y \in s : f[y] \in Int
        BY <1>a
      <4>2. QED
        BY <2>0, <4>1, SumLast
    <3>5. IsFiniteSet((s \ {x}) \cap R) /\ Cardinality((s \ {x}) \cap R) \in Nat
      BY <2>0, FS_Subset, FS_CardinalityType
    <3>6. Cardinality(s \cap R) = Cardinality((s \ {x}) \cap R) + f[x]
      <4>1. CASE x \in R
        <5>1. s \cap R = ((s \ {x}) \cap R) \cup {x} /\ x \notin (s \ {x}) \cap R /\ f[x] = 1
          BY <1>a, <4>1
        <5>2. QED
          BY <3>5, <5>1, FS_AddElement
      <4>2. CASE x \notin R
        <5>1. s \cap R = (s \ {x}) \cap R /\ f[x] = 0
          BY <1>a, <4>2
        <5>2. QED
          BY <3>5, <5>1
      <4>3. QED
        BY <4>1, <4>2
    <3>7. SumOver(f, s) = Cardinality(s \cap R)
      BY <3>3, <3>4, <3>6
    <3>8. QED
      BY <3>7
  <2>3. QED
    BY <2>1, <2>2
<1>2. G = SUBSET S
  <2> HIDE DEF G
  <2>1. G \in SUBSET SUBSET S
    BY DEF G
  <2>2. QED
    BY <1>1, <2>1, SubsetInduction
<1>3. S \in G
  <2> HIDE DEF G
  <2>1. QED
    BY <1>2
<1>4. SumOver(f, S) = Cardinality(S \cap R)
  BY <1>3
<1>5. S \cap R = R
  OBVIOUS
<1>6. Cardinality(R) \in Nat
  BY FS_Subset, FS_CardinalityType
<1>7. QED
  BY <1>4, <1>5, <1>6

\* The size of a union of sets that do not meet.
LEMMA UnionSize ==
  ASSUME NEW S, IsFiniteSet(S), NEW F, NEW f,
         \A x \in S : IsFiniteSet(F[x]) /\ f[x] = Cardinality(F[x]),
         \A x, y \in S : x # y => F[x] \cap F[y] = {}
  PROVE  /\ IsFiniteSet(UNION {F[x] : x \in S})
         /\ Cardinality(UNION {F[x] : x \in S}) = SumOver(f, S)
<1> DEFINE In(s) == UNION {F[x] : x \in s}
           G == {s \in SUBSET S : IsFiniteSet(In(s)) /\ Cardinality(In(s)) = SumOver(f, s)}
<1>a. \A x \in S : f[x] \in Int
  BY FS_CardinalityType
<1>1. ASSUME NEW s \in SUBSET S,
             \A t \in SUBSET S : Cardinality(t) < Cardinality(s) => t \in G
      PROVE  s \in G
  <2>0. IsFiniteSet(s)
    BY FS_Subset
  <2>1. CASE s = {}
    <3>1. SumOver(f, s) = 0
      BY <2>0, <2>1, SumZero
    <3>2. In(s) = {}
      BY <2>1
    <3> HIDE DEF In
    <3>3. QED
      BY <3>1, <3>2, FS_EmptySet DEF G
  <2>2. CASE s # {}
    <3>1. PICK x \in s : TRUE
      BY <2>2
    <3> DEFINE t == s \ {x}
    <3>2. t \in SUBSET S /\ Cardinality(t) < Cardinality(s)
      BY SubsetSize
    <3>3. IsFiniteSet(In(t)) /\ Cardinality(In(t)) = SumOver(f, t)
      <4>1. t \in G
        <5> HIDE DEF t, G
        <5>1. QED
          BY <1>1, <3>2
      <4>2. t \in SUBSET S /\ IsFiniteSet(In(t)) /\ Cardinality(In(t)) = SumOver(f, t)
        BY <4>1, Zenon
      <4>3. QED
        BY <4>2, Zenon
    <3>4. SumOver(f, s) = SumOver(f, t) + f[x]
      <4>1. \A y \in s : f[y] \in Int
        BY <1>a
      <4>2. QED
        BY <2>0, <4>1, SumLast
    <3>5. In(s) = In(t) \cup F[x]
      OBVIOUS
    <3>6. In(t) \cap F[x] = {}
      OBVIOUS
    <3>7. IsFiniteSet(F[x]) /\ f[x] = Cardinality(F[x])
      OBVIOUS
    <3> HIDE DEF In, t
    <3>8. IsFiniteSet(In(s))
      <4>1. IsFiniteSet(In(t) \cup F[x])
        BY <3>3, <3>7, FS_Union
      <4>2. QED
        BY <3>5, <4>1, Zenon
    <3>9. Cardinality(In(t) \cup F[x]) = Cardinality(In(t)) + Cardinality(F[x]) - Cardinality(In(t) \cap F[x])
      BY <3>3, <3>7, FS_Union
    <3>10. Cardinality(In(t) \cap F[x]) = 0
      BY <3>6, FS_EmptySet
    <3>11. Cardinality(In(t)) \in Nat /\ Cardinality(F[x]) \in Nat
      BY <3>3, <3>7, FS_CardinalityType
    <3>12. Cardinality(In(s)) = Cardinality(In(t)) + Cardinality(F[x])
      <4>1. Cardinality(In(t) \cup F[x]) = Cardinality(In(t)) + Cardinality(F[x])
        BY <3>9, <3>10, <3>11
      <4>2. QED
        BY <3>5, <4>1, Zenon
    <3>13. Cardinality(In(s)) = SumOver(f, s)
      BY <3>3, <3>4, <3>7, <3>12
    <3>14. QED
      BY <3>8, <3>13
  <2>3. QED
    BY <2>1, <2>2
<1>2. G = SUBSET S
  <2> HIDE DEF G
  <2>1. G \in SUBSET SUBSET S
    BY DEF G
  <2>2. QED
    BY <1>1, <2>1, SubsetInduction
<1>3. S \in G
  <2> HIDE DEF G
  <2>1. QED
    BY <1>2
<1>4. QED
  BY <1>3
=============================================================================
