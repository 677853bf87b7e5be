------------------------------ MODULE Recursions ------------------------------
(***************************************************************************)
(* Facts about what is defined by recursion: SumFunctionOnSet, the sum of  *)
(* f[x] over a finite set, and the folds over a sequence.  They rest on    *)
(* induction over the natural numbers, stated for a set of numbers: a set  *)
(* can be named in a BY where an operator cannot.                          *)
(***************************************************************************)
EXTENDS Integers, Sequences, Functions, FiniteSetsExt, FiniteSetTheorems, SequenceTheorems,
        WellFoundedInduction, TLAPS

\* Induction: a set with zero and every successor has all natural numbers.
LEMMA InductionOnNat ==
  ASSUME NEW T, 0 \in T, \A n \in Nat : n \in T => n + 1 \in T
  PROVE  Nat \subseteq T
<1> DEFINE R == OpToRel(<, Nat)
           U == Nat \ T
<1>1. IsWellFoundedOn(R, Nat)
  BY NatLessThanWellFounded, Zenon
<1>2. \A x, y \in Nat : x < y => <<x, y>> \in R
  BY DEF OpToRel
<1> HIDE DEF R
<1> SUFFICES ASSUME U # {} PROVE FALSE
  OBVIOUS
<1>3. PICK n \in U : \A m \in U : ~(<<m, n>> \in R)
  <2>1. U \subseteq Nat
    OBVIOUS
  <2> HIDE DEF U
  <2> QED BY <1>1, <2>1, WFMin
<1>4. n \in Nat /\ n # 0 /\ n \notin T
  OBVIOUS
<1>5. n - 1 \in Nat /\ n - 1 < n /\ (n - 1) + 1 = n
  BY <1>4
<1>6. n - 1 \in T
  BY <1>2, <1>3, <1>4, <1>5
<1> QED BY <1>4, <1>5, <1>6

\* Induction over a finite set, element by element.
LEMMA InductionOnSet ==
  ASSUME NEW S, IsFiniteSet(S), NEW T, {} \in T,
         \A s \in SUBSET S, x \in S : s \in T /\ x \notin s => s \cup {x} \in T
  PROVE  SUBSET S \subseteq T
<1> DEFINE Below(n) == {s \in SUBSET S : Cardinality(s) = n}
           N == {n \in Nat : Below(n) \subseteq T}
<1>1. \A s \in SUBSET S : IsFiniteSet(s) /\ Cardinality(s) \in Nat
  BY FS_Subset, FS_CardinalityType
<1>2. 0 \in N
  <2>1. \A s \in Below(0) : s = {}
    BY <1>1, FS_EmptySet
  <2> QED BY <2>1
<1>3. ASSUME NEW n \in Nat, n \in N PROVE n + 1 \in N
  <2> SUFFICES ASSUME NEW s \in SUBSET S, Cardinality(s) = n + 1 PROVE s \in T
    OBVIOUS
  <2>1. PICK x : x \in s
    BY <1>3, FS_EmptySet
  <2>2. Cardinality(s \ {x}) = n
    <3>1. IsFiniteSet(s) /\ Cardinality(s) = n + 1
      BY <1>1
    <3>2. Cardinality(s \ {x}) = Cardinality(s) - 1
      BY <2>1, <3>1, FS_RemoveElement
    <3> QED BY <3>1, <3>2
  <2>3. s \ {x} \in T /\ s = (s \ {x}) \cup {x}
    BY <1>3, <2>1, <2>2
  <2> QED BY <2>1, <2>3
<1>4. Nat \subseteq N
  <2> HIDE DEF N
  <2> QED BY <1>2, <1>3, InductionOnNat
<1> QED BY <1>1, <1>4

(***************************************************************************)
(* The recursion                                                           *)
(***************************************************************************)
\* One step of the recursion, for the set s.
SumStep(f, g, s) ==
  IF s = {} THEN 0 ELSE LET x == CHOOSE x \in s : TRUE IN f[x] + g[s \ {x}]

\* g is the sum of f on every set of D.
IsSumOn(f, g, D) == g = [s \in D |-> SumStep(f, g, s)]

\* There is at most one such function on the subsets of a finite set.
LEMMA OneSum ==
  ASSUME NEW f, NEW S, NEW g, NEW R, NEW h,
         IsFiniteSet(S), R \subseteq S, IsSumOn(f, g, SUBSET S), IsSumOn(f, h, SUBSET R)
  PROVE  \A s \in SUBSET R : g[s] = h[s]
<1> DEFINE Same(n) == \A s \in SUBSET R : Cardinality(s) <= n => g[s] = h[s]
           N == {n \in Nat : Same(n)}
<1>1. \A s \in SUBSET R : IsFiniteSet(s) /\ Cardinality(s) \in Nat
  BY FS_Subset, FS_CardinalityType
<1>2. \A s \in SUBSET R : g[s] = SumStep(f, g, s) /\ h[s] = SumStep(f, h, s)
  BY DEF IsSumOn
<1>3. 0 \in N
  <2>1. \A s \in SUBSET R : Cardinality(s) <= 0 => s = {}
    BY <1>1, FS_EmptySet
  <2> QED BY <1>2, <2>1 DEF SumStep
<1>4. ASSUME NEW n \in Nat, n \in N PROVE n + 1 \in N
  <2> SUFFICES ASSUME NEW s \in SUBSET R, Cardinality(s) <= n + 1, s # {} PROVE g[s] = h[s]
    BY <1>2 DEF SumStep
  <2> DEFINE x == CHOOSE x \in s : TRUE
  <2>1. x \in s
    OBVIOUS
  <2> HIDE DEF x
  <2>2. Cardinality(s \ {x}) = Cardinality(s) - 1
    BY <1>1, <2>1, FS_RemoveElement
  <2>3. g[s \ {x}] = h[s \ {x}]
    BY <1>1, <1>4, <2>2
  <2> QED BY <1>2, <2>3 DEF SumStep, x
<1>5. Nat \subseteq N
  <2> HIDE DEF N
  <2> QED BY <1>3, <1>4, InductionOnNat
<1> QED BY <1>1, <1>5

\* And there is one.
LEMMA SomeSum ==
  ASSUME NEW f, NEW S, IsFiniteSet(S)
  PROVE  \E g : IsSumOn(f, g, SUBSET S)
<1> DEFINE Dom(n) == {s \in SUBSET S : Cardinality(s) <= n}
           N == {n \in Nat : \E g : IsSumOn(f, g, Dom(n))}
<1>1. \A s \in SUBSET S : IsFiniteSet(s) /\ Cardinality(s) \in Nat /\ Cardinality(s) <= Cardinality(S)
  BY FS_Subset, FS_CardinalityType
<1>2. 0 \in N
  <2> DEFINE g == [s \in Dom(0) |-> 0]
  <2>1. \A s \in Dom(0) : s = {}
    BY <1>1, FS_EmptySet
  <2>2. IsSumOn(f, g, Dom(0))
    BY <2>1 DEF IsSumOn, SumStep
  <2> QED BY <2>2
<1>3. ASSUME NEW n \in Nat, n \in N PROVE n + 1 \in N
  <2>1. PICK g : IsSumOn(f, g, Dom(n))
    BY <1>3
  <2> DEFINE h == [s \in Dom(n + 1) |-> SumStep(f, g, s)]
  <2>2. ASSUME NEW s \in Dom(n) PROVE h[s] = g[s]
    <3>1. s \in Dom(n + 1)
      BY <1>1
    <3> HIDE DEF Dom
    <3> QED BY <2>1, <3>1 DEF IsSumOn
  <2>3. ASSUME NEW s \in Dom(n + 1) PROVE SumStep(f, g, s) = SumStep(f, h, s)
    <3>1. CASE s = {}
      BY <3>1 DEF SumStep
    <3>2. CASE s # {}
      <4> DEFINE x == CHOOSE x \in s : TRUE
      <4>1. x \in s
        BY <3>2
      <4> HIDE DEF x
      <4>2. Cardinality(s \ {x}) = Cardinality(s) - 1
        BY <1>1, <4>1, FS_RemoveElement
      <4>3. s \ {x} \in Dom(n)
        BY <1>1, <4>2
      <4>4. g[s \ {x}] = h[s \ {x}]
        BY <2>2, <4>3
      <4> HIDE DEF h
      <4> QED BY <3>2, <4>4 DEF SumStep, x
    <3> QED BY <3>1, <3>2
  <2>4. IsSumOn(f, h, Dom(n + 1))
    <3>1. h = [s \in Dom(n + 1) |-> SumStep(f, h, s)]
      <4> DEFINE k == [s \in Dom(n + 1) |-> SumStep(f, h, s)]
      <4>1. \A s \in Dom(n + 1) : h[s] = k[s]
        BY <2>3
      <4> QED BY <4>1
    <3> QED BY <3>1 DEF IsSumOn
  <2> HIDE DEF h, Dom
  <2> QED BY <2>4
<1>4. Nat \subseteq N
  <2> HIDE DEF N
  <2> QED BY <1>2, <1>3, InductionOnNat
<1>5. Dom(Cardinality(S)) = SUBSET S /\ Cardinality(S) \in Nat
  BY <1>1
<1> QED BY <1>4, <1>5

\* The sum of a set obeys the recursion.
LEMMA SumRecursion ==
  ASSUME NEW f, NEW S, IsFiniteSet(S)
  PROVE  /\ SumFunctionOnSet(f, {}) = 0
         /\ S # {} => \E x \in S : SumFunctionOnSet(f, S) = f[x] + SumFunctionOnSet(f, S \ {x})
<1> DEFINE G(R) == CHOOSE g : IsSumOn(f, g, SUBSET R)
<1>1. \A R : SumFunctionOnSet(f, R) = G(R)[R]
  BY DEF SumFunctionOnSet, FoldFunctionOnSet, MapThenFoldSet, IsSumOn, SumStep
<1>2. \A R : IsFiniteSet(R) => IsSumOn(f, G(R), SUBSET R)
  BY SomeSum
<1> HIDE DEF G
<1>3. \A R : IsFiniteSet(R) => G(R)[R] = SumStep(f, G(R), R)
  BY <1>2 DEF IsSumOn
<1>4. SumFunctionOnSet(f, {}) = 0
  BY <1>1, <1>3, FS_EmptySet DEF SumStep
<1>5. ASSUME S # {} PROVE \E x \in S : SumFunctionOnSet(f, S) = f[x] + SumFunctionOnSet(f, S \ {x})
  <2> DEFINE x == CHOOSE x \in S : TRUE
  <2>1. x \in S
    BY <1>5
  <2> HIDE DEF x
  <2>2. IsFiniteSet(S \ {x}) /\ S \ {x} \in SUBSET S
    BY FS_Subset
  <2>3. G(S)[S \ {x}] = G(S \ {x})[S \ {x}]
    <3> DEFINE g == G(S)
               R == S \ {x}
               h == G(S \ {x})
    <3>1. IsSumOn(f, g, SUBSET S) /\ IsSumOn(f, h, SUBSET R) /\ R \subseteq S
      BY <1>2, <2>2
    <3> HIDE DEF g, R, h
    <3>2. \A s \in SUBSET R : g[s] = h[s]
      BY <3>1, OneSum
    <3> QED BY <3>2 DEF g, R, h
  <2>4. G(S)[S] = f[x] + G(S)[S \ {x}]
    BY <1>3, <1>5 DEF SumStep, x
  <2> QED BY <1>1, <2>1, <2>3, <2>4
<1> QED BY <1>4, <1>5

(***************************************************************************)
(* Facts about sums of natural numbers                                     *)
(***************************************************************************)
\* The sum is a natural number.
LEMMA SumType ==
  ASSUME NEW f, NEW S, IsFiniteSet(S), \A x \in S : f[x] \in Nat
  PROVE  \A R \in SUBSET S : SumFunctionOnSet(f, R) \in Nat
<1> DEFINE N == {n \in Nat : \A R \in SUBSET S : Cardinality(R) = n => SumFunctionOnSet(f, R) \in Nat}
<1>1. \A R \in SUBSET S : IsFiniteSet(R) /\ Cardinality(R) \in Nat
  BY FS_Subset, FS_CardinalityType
<1>2. 0 \in N
  BY <1>1, SumRecursion, FS_EmptySet
<1>3. ASSUME NEW n \in Nat, n \in N PROVE n + 1 \in N
  <2> SUFFICES ASSUME NEW R \in SUBSET S, Cardinality(R) = n + 1
               PROVE  SumFunctionOnSet(f, R) \in Nat
    OBVIOUS
  <2>1. IsFiniteSet(R) /\ R # {}
    BY <1>1, FS_EmptySet
  <2>2. PICK x \in R : SumFunctionOnSet(f, R) = f[x] + SumFunctionOnSet(f, R \ {x})
    BY <2>1, SumRecursion
  <2>3. Cardinality(R \ {x}) = Cardinality(R) - 1
    BY <2>1, FS_RemoveElement
  <2>4. SumFunctionOnSet(f, R \ {x}) \in Nat
    BY <1>3, <2>3
  <2>5. f[x] \in Nat
    OBVIOUS
  <2> QED BY <2>2, <2>4, <2>5
<1>4. Nat \subseteq N
  <2> HIDE DEF N
  <2> QED BY <1>2, <1>3, InductionOnNat
<1> QED BY <1>1, <1>4

\* Any element may be taken out first.
LEMMA SumTake ==
  ASSUME NEW f, NEW S, IsFiniteSet(S), \A x \in S : f[x] \in Nat
  PROVE  \A R \in SUBSET S : \A x \in R :
           SumFunctionOnSet(f, R) = f[x] + SumFunctionOnSet(f, R \ {x})
<1> DEFINE Takes(R) == \A x \in R : SumFunctionOnSet(f, R) = f[x] + SumFunctionOnSet(f, R \ {x})
           N == {n \in Nat : \A R \in SUBSET S : Cardinality(R) = n => Takes(R)}
<1>1. \A R \in SUBSET S : IsFiniteSet(R) /\ Cardinality(R) \in Nat
  BY FS_Subset, FS_CardinalityType
<1>2. \A R \in SUBSET S : SumFunctionOnSet(f, R) \in Nat
  BY SumType
<1>3. 0 \in N
  BY <1>1, FS_EmptySet
<1>4. ASSUME NEW n \in Nat, n \in N PROVE n + 1 \in N
  <2> SUFFICES ASSUME NEW R \in SUBSET S, Cardinality(R) = n + 1, NEW x \in R
               PROVE  SumFunctionOnSet(f, R) = f[x] + SumFunctionOnSet(f, R \ {x})
    OBVIOUS
  <2>1. IsFiniteSet(R) /\ R # {}
    BY <1>1
  <2>2. PICK y \in R : SumFunctionOnSet(f, R) = f[y] + SumFunctionOnSet(f, R \ {y})
    BY <2>1, SumRecursion
  <2>3. CASE x = y
    BY <2>2, <2>3
  <2>4. CASE x # y
    <3>1. Cardinality(R \ {x}) = n /\ Cardinality(R \ {y}) = n
      <4>1. /\ Cardinality(R \ {x}) = Cardinality(R) - 1
            /\ Cardinality(R \ {y}) = Cardinality(R) - 1
        BY <2>1, FS_RemoveElement
      <4> QED BY <4>1
    <3>2. Takes(R \ {x}) /\ Takes(R \ {y})
      BY <1>4, <3>1
    <3>3. /\ SumFunctionOnSet(f, R \ {x}) = f[y] + SumFunctionOnSet(f, (R \ {x}) \ {y})
          /\ SumFunctionOnSet(f, R \ {y}) = f[x] + SumFunctionOnSet(f, (R \ {y}) \ {x})
      BY <2>4, <3>2
    <3>4. (R \ {x}) \ {y} = (R \ {y}) \ {x}
      OBVIOUS
    <3>5. /\ f[x] \in Nat /\ f[y] \in Nat
          /\ SumFunctionOnSet(f, (R \ {x}) \ {y}) \in Nat
      BY <1>2
    <3> DEFINE u == SumFunctionOnSet(f, (R \ {x}) \ {y})
    <3>6. SumFunctionOnSet(f, R) = f[y] + (f[x] + u)
      BY <2>2, <3>3, <3>4
    <3>7. SumFunctionOnSet(f, R \ {x}) = f[y] + u /\ u \in Nat
      BY <3>3, <3>5
    <3> HIDE DEF u
    <3> QED BY <3>5, <3>6, <3>7
  <2> QED BY <2>3, <2>4
<1>5. Nat \subseteq N
  <2> HIDE DEF N
  <2> QED BY <1>3, <1>4, InductionOnNat
<1> QED BY <1>1, <1>5

\* An element more adds its value.
LEMMA SumAdd ==
  ASSUME NEW f, NEW S, IsFiniteSet(S), NEW x, x \notin S,
         \A y \in S \cup {x} : f[y] \in Nat
  PROVE  SumFunctionOnSet(f, S \cup {x}) = f[x] + SumFunctionOnSet(f, S)
<1> DEFINE R == S \cup {x}
<1>1. IsFiniteSet(R)
  BY FS_AddElement
<1>2. \A T \in SUBSET R : \A y \in T :
        SumFunctionOnSet(f, T) = f[y] + SumFunctionOnSet(f, T \ {y})
  <2> HIDE DEF R
  <2>1. \A y \in R : f[y] \in Nat
    BY DEF R
  <2> QED BY <1>1, <2>1, SumTake
<1>3. SumFunctionOnSet(f, R) = f[x] + SumFunctionOnSet(f, R \ {x})
  BY <1>2
<1>4. R \ {x} = S
  OBVIOUS
<1> QED BY <1>3, <1>4

\* Only the values on the set matter.
LEMMA SumSame ==
  ASSUME NEW f, NEW g, NEW S, IsFiniteSet(S), \A x \in S : f[x] \in Nat /\ g[x] = f[x]
  PROVE  SumFunctionOnSet(g, S) = SumFunctionOnSet(f, S)
<1> DEFINE T == {R \in SUBSET S : SumFunctionOnSet(g, R) = SumFunctionOnSet(f, R)}
<1>1. {} \in T
  BY SumRecursion, FS_EmptySet
<1>2. ASSUME NEW R \in SUBSET S, NEW x \in S, R \in T, x \notin R PROVE R \cup {x} \in T
  <2>1. IsFiniteSet(R)
    BY FS_Subset
  <2>2. \A y \in R \cup {x} : f[y] \in Nat /\ g[y] \in Nat
    OBVIOUS
  <2>3. /\ SumFunctionOnSet(f, R \cup {x}) = f[x] + SumFunctionOnSet(f, R)
        /\ SumFunctionOnSet(g, R \cup {x}) = g[x] + SumFunctionOnSet(g, R)
    BY <1>2, <2>1, <2>2, SumAdd
  <2> QED BY <1>2, <2>3
<1>3. SUBSET S \subseteq T
  <2> HIDE DEF T
  <2> QED BY <1>1, <1>2, InductionOnSet
<1> QED BY <1>3

\* The sum of two disjoint sets.
LEMMA SumUnion ==
  ASSUME NEW f, NEW S, NEW U, IsFiniteSet(S), IsFiniteSet(U), S \cap U = {},
         \A x \in S \cup U : f[x] \in Nat
  PROVE  SumFunctionOnSet(f, S \cup U) = SumFunctionOnSet(f, S) + SumFunctionOnSet(f, U)
<1> DEFINE Splits(R) == SumFunctionOnSet(f, S \cup R) = SumFunctionOnSet(f, S) + SumFunctionOnSet(f, R)
           T == {R \in SUBSET U : Splits(R)}
<1>1. SumFunctionOnSet(f, S) \in Nat /\ \A R \in SUBSET U : SumFunctionOnSet(f, R) \in Nat
  BY SumType
<1>2. {} \in T
  <2>1. SumFunctionOnSet(f, {}) = 0 /\ S \cup {} = S
    BY SumRecursion
  <2> QED BY <1>1, <2>1
<1>3. ASSUME NEW R \in SUBSET U, NEW x \in U, R \in T, x \notin R PROVE R \cup {x} \in T
  <2>1. IsFiniteSet(R) /\ IsFiniteSet(S \cup R)
    BY FS_Subset, FS_Union
  <2>2. x \notin S \cup R /\ (S \cup R) \cup {x} = S \cup (R \cup {x})
    BY <1>3
  <2>3. \A y \in R \cup {x} : f[y] \in Nat
    OBVIOUS
  <2>4. SumFunctionOnSet(f, R \cup {x}) = f[x] + SumFunctionOnSet(f, R)
    BY <1>3, <2>1, <2>3, SumAdd
  <2>5. SumFunctionOnSet(f, S \cup (R \cup {x})) = f[x] + SumFunctionOnSet(f, S \cup R)
    <3> DEFINE V == S \cup R
    <3>1. IsFiniteSet(V) /\ x \notin V /\ \A y \in V \cup {x} : f[y] \in Nat
      BY <2>1, <2>2
    <3> HIDE DEF V
    <3>2. SumFunctionOnSet(f, V \cup {x}) = f[x] + SumFunctionOnSet(f, V)
      BY <3>1, SumAdd
    <3> QED BY <2>2, <3>2 DEF V
  <2>6. /\ f[x] \in Nat /\ SumFunctionOnSet(f, R) \in Nat
        /\ SumFunctionOnSet(f, S \cup R) = SumFunctionOnSet(f, S) + SumFunctionOnSet(f, R)
    BY <1>1, <1>3
  <2>7. Splits(R \cup {x})
    BY <1>1, <2>4, <2>5, <2>6
  <2> QED BY <2>7
<1>4. SUBSET U \subseteq T
  <2>1. \A R \in SUBSET U, x \in U : R \in T /\ x \notin R => R \cup {x} \in T
    BY <1>3
  <2>2. {} \in T
    BY <1>2
  <2> HIDE DEF T
  <2>3. \A V : {} \in V /\ (\A R \in SUBSET U, x \in U : R \in V /\ x \notin R => R \cup {x} \in V)
              => SUBSET U \subseteq V
    BY InductionOnSet
  <2> QED BY <2>1, <2>2, <2>3
<1> QED BY <1>4

\* When the values of two functions always make up c, so do their sums for each element.
LEMMA SumPairs ==
  ASSUME NEW f, NEW g, NEW c \in Nat, NEW S, IsFiniteSet(S),
         \A x \in S : f[x] \in Nat /\ g[x] \in Nat /\ f[x] + g[x] = c
  PROVE  SumFunctionOnSet(f, S) + SumFunctionOnSet(g, S) = c * Cardinality(S)
<1> DEFINE Makes(R) == SumFunctionOnSet(f, R) + SumFunctionOnSet(g, R) = c * Cardinality(R)
           T == {R \in SUBSET S : Makes(R)}
<1>1. \A R \in SUBSET S : /\ SumFunctionOnSet(f, R) \in Nat /\ SumFunctionOnSet(g, R) \in Nat
                          /\ IsFiniteSet(R) /\ Cardinality(R) \in Nat
  BY SumType, FS_Subset, FS_CardinalityType
<1>2. {} \in T
  <2>1. SumFunctionOnSet(f, {}) = 0 /\ SumFunctionOnSet(g, {}) = 0 /\ Cardinality({}) = 0
    BY SumRecursion, FS_EmptySet
  <2>2. c * 0 = 0
    OBVIOUS
  <2> QED BY <2>1, <2>2
<1>3. ASSUME NEW R \in SUBSET S, NEW x \in S, R \in T, x \notin R PROVE R \cup {x} \in T
  <2>1. IsFiniteSet(R) /\ \A y \in R \cup {x} : f[y] \in Nat /\ g[y] \in Nat
    BY <1>1
  <2>2. /\ SumFunctionOnSet(f, R \cup {x}) = f[x] + SumFunctionOnSet(f, R)
        /\ SumFunctionOnSet(g, R \cup {x}) = g[x] + SumFunctionOnSet(g, R)
    BY <1>3, <2>1, SumAdd
  <2>3. Cardinality(R \cup {x}) = Cardinality(R) + 1
    BY <1>3, <2>1, FS_AddElement
  <2> DEFINE n == Cardinality(R)
             k == SumFunctionOnSet(f, R)
             l == SumFunctionOnSet(g, R)
  <2>4. n \in Nat /\ k \in Nat /\ l \in Nat /\ k + l = c * n
    BY <1>1, <1>3
  <2>5. f[x] \in Nat /\ g[x] \in Nat /\ f[x] + g[x] = c
    OBVIOUS
  <2> HIDE DEF n, k, l
  <2>6. c * (n + 1) = c * n + c
    BY <2>4
  <2>7. (f[x] + k) + (g[x] + l) = c * (n + 1)
    BY <2>4, <2>5, <2>6
  <2>8. Makes(R \cup {x})
    BY <2>2, <2>3, <2>7 DEF n, k, l
  <2> QED BY <2>8
<1>4. SUBSET S \subseteq T
  <2> HIDE DEF T
  <2> QED BY <1>2, <1>3, InductionOnSet
<1> QED BY <1>4

\* Nothing adds up to nothing.
LEMMA SumZero ==
  ASSUME NEW f, NEW S, IsFiniteSet(S), \A x \in S : f[x] = 0
  PROVE  SumFunctionOnSet(f, S) = 0
<1> DEFINE T == {R \in SUBSET S : SumFunctionOnSet(f, R) = 0}
<1>1. {} \in T
  BY SumRecursion, FS_EmptySet
<1>2. ASSUME NEW R \in SUBSET S, NEW x \in S, R \in T, x \notin R PROVE R \cup {x} \in T
  <2>1. IsFiniteSet(R) /\ \A y \in R \cup {x} : f[y] \in Nat
    BY FS_Subset
  <2>2. SumFunctionOnSet(f, R \cup {x}) = f[x] + SumFunctionOnSet(f, R)
    BY <1>2, <2>1, SumAdd
  <2> QED BY <1>2, <2>2
<1>3. SUBSET S \subseteq T
  <2> HIDE DEF T
  <2> QED BY <1>1, <1>2, InductionOnSet
<1> QED BY <1>3

\* Only elements with a value count.
LEMMA SumBelow ==
  ASSUME NEW f, NEW S, NEW T, IsFiniteSet(S), IsFiniteSet(T),
         \A x \in S \cup T : f[x] \in Nat,
         \A x \in S : f[x] # 0 => x \in T
  PROVE  SumFunctionOnSet(f, S) <= SumFunctionOnSet(f, T)
<1> DEFINE B == S \cap T
           U == S \ T
           V == T \ S
<1>1. IsFiniteSet(B) /\ IsFiniteSet(U) /\ IsFiniteSet(V)
  BY FS_Subset
<1>2. B \cup U = S /\ B \cup V = T /\ B \cap U = {} /\ B \cap V = {}
  OBVIOUS
<1>3. \A x \in B \cup U \cup V : f[x] \in Nat
  OBVIOUS
<1>4. \A x \in U : f[x] = 0
  OBVIOUS
<1> HIDE DEF B, U, V
<1>5. SumFunctionOnSet(f, U) = 0
  BY <1>1, <1>4, SumZero
<1>6. SumFunctionOnSet(f, V) \in Nat /\ SumFunctionOnSet(f, B) \in Nat
  BY <1>1, <1>3, SumType
<1>7. SumFunctionOnSet(f, B \cup U) = SumFunctionOnSet(f, B) + SumFunctionOnSet(f, U)
  BY <1>1, <1>2, <1>3, SumUnion
<1>8. SumFunctionOnSet(f, B \cup V) = SumFunctionOnSet(f, B) + SumFunctionOnSet(f, V)
  BY <1>1, <1>2, <1>3, SumUnion
<1> DEFINE b == SumFunctionOnSet(f, B)
           v == SumFunctionOnSet(f, V)
<1>9. SumFunctionOnSet(f, S) = b + 0
  BY <1>2, <1>5, <1>7
<1>10. SumFunctionOnSet(f, T) = b + v
  BY <1>2, <1>8
<1>11. b \in Nat /\ v \in Nat
  BY <1>6
<1> HIDE DEF b, v
<1> QED BY <1>9, <1>10, <1>11

\* One more at one place is one more in the sum.
LEMMA SumBump ==
  ASSUME NEW f, NEW g, NEW S, IsFiniteSet(S), NEW x \in S,
         \A y \in S : f[y] \in Nat,
         g[x] = f[x] + 1, \A y \in S : y # x => g[y] = f[y]
  PROVE  SumFunctionOnSet(g, S) = SumFunctionOnSet(f, S) + 1
<1> DEFINE R == S \ {x}
<1>1. IsFiniteSet(R)
  BY FS_Subset
<1>2. /\ SumFunctionOnSet(f, S) = f[x] + SumFunctionOnSet(f, R)
      /\ SumFunctionOnSet(f, R) \in Nat
  BY SumTake, SumType
<1>3. SumFunctionOnSet(g, S) = g[x] + SumFunctionOnSet(g, R)
  <2>1. \A y \in S : g[y] \in Nat
    OBVIOUS
  <2> QED BY <2>1, SumTake
<1>4. SumFunctionOnSet(g, R) = SumFunctionOnSet(f, R)
  <2>1. \A y \in R : f[y] \in Nat /\ g[y] = f[y]
    OBVIOUS
  <2> HIDE DEF R
  <2> QED BY <1>1, <2>1, SumSame
<1>5. f[x] \in Nat
  OBVIOUS
<1> QED BY <1>2, <1>3, <1>4, <1>5

\* Induction: a set with the empty sequence and every extension by one has all sequences.
LEMMA InductionOnSeq ==
  ASSUME NEW S, NEW T, <<>> \in T,
         \A s \in Seq(S), e \in S : s \in T => Append(s, e) \in T
  PROVE  Seq(S) \subseteq T
<1> DEFINE N == {n \in Nat : \A s \in Seq(S) : Len(s) = n => s \in T}
<1>1. 0 \in N
  <2> SUFFICES ASSUME NEW s \in Seq(S), Len(s) = 0 PROVE s \in T
    OBVIOUS
  <2>1. s = <<>>
    BY EmptySeq
  <2> QED BY <2>1
<1>2. ASSUME NEW n \in Nat, n \in N PROVE n + 1 \in N
  <2> SUFFICES ASSUME NEW s \in Seq(S), Len(s) = n + 1 PROVE s \in T
    OBVIOUS
  <2>1. s # <<>>
    BY EmptySeq
  <2>2. PICK r \in Seq(S), e \in S : s = Append(r, e)
    BY <2>1, SequenceEmptyOrAppend
  <2>3. Len(r) \in Nat /\ Len(s) = Len(r) + 1
    BY <2>2, LenProperties, AppendProperties
  <2>4. r \in T
    BY <1>2, <2>3
  <2> QED BY <2>2, <2>4
<1>3. Nat \subseteq N
  <2> HIDE DEF N
  <2> QED BY <1>1, <1>2, InductionOnNat
<1> QED BY <1>3, LenProperties

(***************************************************************************)
(* Folds over a sequence                                                   *)
(***************************************************************************)
\* What FoldLeft needs of the first i positions: they are taken from the last one on.
LEMMA Positions ==
  ASSUME NEW n \in Nat
  PROVE  /\ \A s \in SUBSET (1..n) : s # {} => Max(s) \in s
         /\ \A i \in 1..n : Max(1..i) = i /\ (1..i) \ {i} = 1..(i - 1) /\ 1..i # {}
         /\ \A i \in 0..n : 1..i \in SUBSET (1..n)
         /\ 1..0 = {}
<1>1. ASSUME NEW s \in SUBSET (1..n), s # {} PROVE Max(s) \in s
  <2> DEFINE Below(m) == \A y \in s : y <= m
             N == {m \in Nat : Below(m) => \E x \in s : \A y \in s : x >= y}
  <2>1. 0 \in N
    <3>1. PICK x : x \in s
      BY <1>1
    <3>2. x \in 1..n
      BY <3>1
    <3>3. ~(x <= 0)
      BY <3>2
    <3>4. ~Below(0)
      BY <3>1, <3>3
    <3> QED BY <3>4
  <2>2. ASSUME NEW m \in Nat, m \in N PROVE m + 1 \in N
    <3>1. CASE m + 1 \in s
      BY <3>1
    <3>2. CASE m + 1 \notin s
      <4>1. ASSUME Below(m + 1) PROVE Below(m)
        <5> SUFFICES ASSUME NEW y \in s PROVE y <= m
          OBVIOUS
        <5> QED BY <3>2, <4>1
      <4> QED BY <2>2, <4>1
    <3> QED BY <3>1, <3>2
  <2>3. n \in N
    <3> HIDE DEF N
    <3> QED BY <2>1, <2>2, InductionOnNat
  <2>4. \E x \in s : \A y \in s : x >= y
    BY <2>3
  <2> QED BY <2>4 DEF Max
<1>2. ASSUME NEW i \in 1..n PROVE Max(1..i) = i
  <2>1. i \in 1..i /\ \A y \in 1..i : i >= y
    OBVIOUS
  <2>2. \A x \in 1..i : x >= i => x = i
    OBVIOUS
  <2> QED BY <2>1, <2>2 DEF Max
<1>3. \A i \in 1..n : (1..i) \ {i} = 1..(i - 1) /\ 1..i # {}
  OBVIOUS
<1>4. \A i \in 0..n : 1..i \in SUBSET (1..n)
  OBVIOUS
<1> QED BY <1>1, <1>2, <1>3, <1>4

\* g is the state of a fold after the positions of a set: base at first, and after position i
\* step[<<a, i>>] when it was a before.
IsFold(n, base, step, g) ==
  g = [s \in SUBSET (1..n) |-> IF s = {} THEN base ELSE step[<<g[s \ {Max(s)}], Max(s)>>]]

\* There is such a function; a fold whose operator stays within A has it.
LEMMA SomeFold ==
  ASSUME NEW n \in Nat, NEW A, NEW base \in A, NEW step \in [A \X (1..n) -> A]
  PROVE  \E g \in [SUBSET (1..n) -> A] : IsFold(n, base, step, g)
<1> DEFINE S == 1..n
           Dom(k) == {s \in SUBSET S : Cardinality(s) <= k}
           Solves(g, D) == g = [s \in D |-> IF s = {} THEN base ELSE step[<<g[s \ {Max(s)}], Max(s)>>]]
           N == {k \in Nat : \E g \in [Dom(k) -> A] : Solves(g, Dom(k))}
<1>1. \A s \in SUBSET S : IsFiniteSet(s) /\ Cardinality(s) \in Nat /\ Cardinality(s) <= n
  <2>1. IsFiniteSet(S) /\ Cardinality(S) = n
    BY FS_Interval
  <2> HIDE DEF S
  <2>2. \A s \in SUBSET S : IsFiniteSet(s) /\ Cardinality(s) <= Cardinality(S)
    BY <2>1, FS_Subset
  <2>3. \A s \in SUBSET S : Cardinality(s) \in Nat
    BY <2>2, FS_CardinalityType
  <2> QED BY <2>1, <2>2, <2>3
<1>2. \A s \in SUBSET S : s # {} => Max(s) \in s
  BY Positions
<1>3. 0 \in N
  <2> DEFINE g == [s \in Dom(0) |-> base]
  <2>1. \A s \in Dom(0) : s = {}
    BY <1>1, FS_EmptySet
  <2>2. g \in [Dom(0) -> A] /\ Solves(g, Dom(0))
    BY <2>1
  <2> QED BY <2>2
<1>4. ASSUME NEW k \in Nat, k \in N PROVE k + 1 \in N
  <2>1. PICK g \in [Dom(k) -> A] : Solves(g, Dom(k))
    BY <1>4
  <2> DEFINE h == [s \in Dom(k + 1) |-> IF s = {} THEN base ELSE step[<<g[s \ {Max(s)}], Max(s)>>]]
  <2>2. ASSUME NEW s \in Dom(k + 1), s # {}
        PROVE  s \ {Max(s)} \in Dom(k) /\ Max(s) \in S
    <3>1. Max(s) \in s
      BY <1>2, <2>2
    <3> DEFINE m == Max(s)
    <3>2. m \in s
      BY <3>1
    <3> HIDE DEF m
    <3>3. Cardinality(s \ {m}) = Cardinality(s) - 1
      BY <1>1, <3>2, FS_RemoveElement
    <3>4. s \ {m} \in Dom(k) /\ m \in S
      BY <1>1, <3>2, <3>3
    <3> QED BY <3>4 DEF m
  <2>3. ASSUME NEW s \in Dom(k) PROVE h[s] = g[s]
    <3>1. s \in Dom(k + 1)
      BY <1>1
    <3> HIDE DEF Dom
    <3> QED BY <2>1, <3>1
  <2>4. h \in [Dom(k + 1) -> A]
    <3>1. ASSUME NEW s \in Dom(k + 1) PROVE h[s] \in A
      <4>1. CASE s = {}
        BY <4>1
      <4>2. CASE s # {}
        <5>1. g[s \ {Max(s)}] \in A /\ Max(s) \in S
          BY <2>2, <4>2
        <5> QED BY <4>2, <5>1
      <4> QED BY <4>1, <4>2
    <3> HIDE DEF Dom
    <3> QED BY <3>1
  <2>5. ASSUME NEW s \in Dom(k + 1), s # {} PROVE g[s \ {Max(s)}] = h[s \ {Max(s)}]
    BY <2>2, <2>3, <2>5
  <2>6. Solves(h, Dom(k + 1))
    <3> HIDE DEF Dom
    <3> DEFINE j == [s \in Dom(k + 1) |-> IF s = {} THEN base ELSE step[<<h[s \ {Max(s)}], Max(s)>>]]
    <3>1. ASSUME NEW s \in Dom(k + 1) PROVE h[s] = j[s]
      <4>1. CASE s = {}
        BY <4>1
      <4>2. CASE s # {}
        <5>1. g[s \ {Max(s)}] = h[s \ {Max(s)}]
          BY <2>5, <4>2
        <5> QED BY <4>2, <5>1
      <4> QED BY <4>1, <4>2
    <3>2. h = j
      BY <3>1
    <3> QED BY <3>2
  <2>7. \E f \in [Dom(k + 1) -> A] : Solves(f, Dom(k + 1))
    <3> HIDE DEF h, Dom, Solves
    <3> QED BY <2>4, <2>6
  <2>8. k + 1 \in Nat
    OBVIOUS
  <2> HIDE DEF Dom, Solves
  <2> QED BY <2>7, <2>8
<1>5. Nat \subseteq N
  <2> HIDE DEF N
  <2> QED BY <1>3, <1>4, InductionOnNat
<1>6. Dom(n) = SUBSET S
  BY <1>1
<1>7. PICK g \in [Dom(n) -> A] : Solves(g, Dom(n))
  BY <1>5
<1>8. g \in [SUBSET (1..n) -> A] /\ IsFold(n, base, step, g)
  BY <1>6, <1>7 DEF IsFold
<1> QED BY <1>8

===============================================================================
