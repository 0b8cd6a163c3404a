------------------------------ MODULE SumTheorems ------------------------------
(***************************************************************************)
(* Sums over finite sets, SumFunctionOnSet of the community modules: what  *)
(* the statistics of the super admin add up.  Induction is over a set of   *)
(* numbers or of sets, which the provers can instantiate, in place of the  *)
(* predicate that the library's induction theorems take.                   *)
(***************************************************************************)
EXTENDS Functions, FiniteSetTheorems, WellFoundedInduction, TLAPS

--------------------------------------------------------------------------------
\* Induction.

\* A set of numbers that has 0 and every successor has them all.
LEMMA InductionOnNat ==
    ASSUME NEW N \in SUBSET Nat, 0 \in N, \A n \in N : n + 1 \in N
    PROVE  N = Nat
  <1> DEFINE Less == OpToRel(<, Nat)
             Rest == Nat \ N
  <1> SUFFICES ASSUME Rest # {} PROVE FALSE
    OBVIOUS
  <1>1. PICK n \in Rest : \A m \in Rest : <<m, n>> \notin Less
    <2>1. IsWellFoundedOn(Less, Nat)
      BY NatLessThanWellFounded
    <2>2. Rest \subseteq Nat
      OBVIOUS
    <2> HIDE DEF Less, Rest
    <2> QED
      BY <2>1, <2>2, WFMin
  <1>2. n \in Nat \ {0} /\ n - 1 \in Nat /\ n - 1 < n
    <2>1. n \in Nat /\ n \notin N
      OBVIOUS
    <2> HIDE DEF Less, Rest
    <2> QED
      BY <2>1
  <1>3. <<n - 1, n>> \in Less
    BY <1>2 DEF OpToRel
  <1>4. n - 1 \in N
    BY <1>1, <1>2, <1>3
  <1>5. n - 1 + 1 \in N
    BY <1>4
  <1>6. n - 1 + 1 = n
    <2> HIDE DEF Less, Rest
    <2> QED
      BY <1>2
  <1>7. n \notin N
    OBVIOUS
  <1> QED
    BY ONLY <1>5, <1>6, <1>7

\* A collection of subsets of a finite set that has the empty set, and with a set
\* every set of one element more, has the whole set.
LEMMA InductionOnSets ==
    ASSUME NEW S, IsFiniteSet(S), NEW G, {} \in G,
           \A T \in SUBSET S, x \in S : T \in G /\ x \notin T => T \cup {x} \in G
    PROVE  S \in G
  <1> DEFINE N == {n \in Nat : \A T \in SUBSET S : Cardinality(T) = n => T \in G}
  <1>1. \A T \in SUBSET S : IsFiniteSet(T) /\ Cardinality(T) \in Nat
    BY FS_Subset, FS_CardinalityType
  <1>2. 0 \in N
    BY <1>1, FS_EmptySet
  <1>3. ASSUME NEW n \in N PROVE n + 1 \in N
    <2> SUFFICES ASSUME NEW T \in SUBSET S, Cardinality(T) = n + 1 PROVE T \in G
      OBVIOUS
    <2>1. T # {}
      BY FS_EmptySet, n + 1 # 0
    <2>2. PICK x \in T : TRUE
      BY <2>1
    <2>3. Cardinality(T \ {x}) = n
      BY <1>1, <2>2, FS_RemoveElement
    <2>4. T \ {x} \in G
      BY <2>3
    <2>5. (T \ {x}) \cup {x} = T
      BY <2>2
    <2> QED
      BY <2>2, <2>4, <2>5
  <1>4. N = Nat
    <2> HIDE DEF N
    <2> QED
      BY <1>2, <1>3, InductionOnNat DEF N
  <1> QED
    BY <1>1, <1>4

--------------------------------------------------------------------------------
\* The fold.

\* One step of the fold of f: from its sums over smaller sets, that over s.
Chosen(s) == CHOOSE x \in s : TRUE
SumOf(f, g, s) == IF s = {} THEN 0 ELSE f[Chosen(s)] + g[s \ {Chosen(s)}]

\* g has the sums of f over all subsets of S.
Sums(f, S, g) == g = [s \in SUBSET S |-> SumOf(f, g, s)]

\* The function that a fold computes exists.
LEMMA SumsExist ==
    ASSUME NEW S, IsFiniteSet(S), NEW f
    PROVE  \E g : Sums(f, S, g)
  <1> DEFINE Small(n) == {s \in SUBSET S : Cardinality(s) <= n}
             N == {n \in Nat : \E g : g = [s \in Small(n) |-> SumOf(f, g, s)]}
  <1>1. \A T \in SUBSET S : IsFiniteSet(T) /\ Cardinality(T) \in Nat
    BY FS_Subset, FS_CardinalityType
  <1>2. 0 \in N
    <2> DEFINE g == [s \in Small(0) |-> 0]
    <2>1. \A s \in Small(0) : s = {}
      BY <1>1, FS_EmptySet
    <2>2. \A s \in Small(0) : SumOf(f, g, s) = 0
      BY <2>1 DEF SumOf
    <2>3. g = [s \in Small(0) |-> SumOf(f, g, s)]
      BY <2>2
    <2> QED
      BY <2>3
  <1>3. ASSUME NEW n \in N PROVE n + 1 \in N
    <2>1. PICK g : g = [s \in Small(n) |-> SumOf(f, g, s)]
      OBVIOUS
    <2> DEFINE h == [s \in Small(n + 1) |-> SumOf(f, g, s)]
    <2>2. ASSUME NEW s \in Small(n + 1), s # {} PROVE h[s \ {Chosen(s)}] = g[s \ {Chosen(s)}]
      <3>1. Chosen(s) \in s
        BY <2>2 DEF Chosen
      <3>2. Cardinality(s \ {Chosen(s)}) = Cardinality(s) - 1
        BY <1>1, <3>1, FS_RemoveElement
      <3>3. s \ {Chosen(s)} \in Small(n) /\ s \ {Chosen(s)} \in Small(n + 1)
        BY <1>1, <3>2
      <3>4. g[s \ {Chosen(s)}] = SumOf(f, g, s \ {Chosen(s)})
        BY <2>1, <3>3
      <3> QED
        BY <3>3, <3>4
    <2>3. \A s \in Small(n + 1) : SumOf(f, h, s) = SumOf(f, g, s)
      <3> HIDE DEF h, Small
      <3> QED
        BY <2>2 DEF SumOf
    <2>4. h = [s \in Small(n + 1) |-> SumOf(f, h, s)]
      BY <2>3
    <2>5. n + 1 \in Nat
      OBVIOUS
    <2> HIDE DEF h
    <2> QED
      BY <2>4, <2>5
  <1>4. N = Nat
    <2> HIDE DEF N
    <2> QED
      BY <1>2, <1>3, InductionOnNat DEF N
  <1>5. Cardinality(S) \in N
    BY <1>1, <1>4
  <1>6. Small(Cardinality(S)) = SUBSET S
    BY FS_Subset
  <1> QED
    BY <1>5, <1>6 DEF Sums

\* And is what SumFunctionOnSet takes its value from.
LEMMA SumIsFold ==
    ASSUME NEW S, IsFiniteSet(S), NEW f
    PROVE  \E g : Sums(f, S, g) /\ SumFunctionOnSet(f, S) = g[S]
  <1> DEFINE g == CHOOSE h : Sums(f, S, h)
  <1>1. Sums(f, S, g)
    BY SumsExist
  <1>2. SumFunctionOnSet(f, S) = g[S]
    BY Zenon DEF SumFunctionOnSet, FoldFunctionOnSet, MapThenFoldSet, Sums, SumOf, Chosen
  <1> QED
    BY <1>1, <1>2

\* Folds over two sets agree on what both have.
LEMMA SumsAgree ==
    ASSUME NEW S, IsFiniteSet(S), NEW T \in SUBSET S, NEW f,
           NEW g, Sums(f, S, g), NEW h, Sums(f, T, h)
    PROVE  h[T] = g[T]
  <1> DEFINE N == {n \in Nat : \A U \in SUBSET T : Cardinality(U) = n => h[U] = g[U]}
  <1>1. \A U \in SUBSET T : IsFiniteSet(U) /\ Cardinality(U) \in Nat
    BY FS_Subset, FS_CardinalityType
  <1>2. \A U \in SUBSET T : h[U] = SumOf(f, h, U) /\ g[U] = SumOf(f, g, U)
    BY DEF Sums
  <1>3. 0 \in N
    <2>1. \A U \in SUBSET T : Cardinality(U) = 0 => U = {}
      BY <1>1, FS_EmptySet
    <2>2. h[{}] = 0 /\ g[{}] = 0
      BY <1>2 DEF SumOf
    <2> QED
      BY <2>1, <2>2
  <1>4. ASSUME NEW n \in N PROVE n + 1 \in N
    <2> SUFFICES ASSUME NEW U \in SUBSET T, Cardinality(U) = n + 1 PROVE h[U] = g[U]
      OBVIOUS
    <2>1. U # {}
      BY FS_EmptySet, n + 1 # 0
    <2>2. Chosen(U) \in U
      BY <2>1 DEF Chosen
    <2>3. Cardinality(U \ {Chosen(U)}) = n
      BY <1>1, <2>2, FS_RemoveElement
    <2>4. h[U \ {Chosen(U)}] = g[U \ {Chosen(U)}]
      BY <2>3
    <2> QED
      BY <1>2, <2>1, <2>4 DEF SumOf
  <1>5. N = Nat
    <2> HIDE DEF N
    <2> QED
      BY <1>3, <1>4, InductionOnNat DEF N
  <1> QED
    BY <1>1, <1>5

\* Nothing adds up to nothing.
LEMMA SumEmpty ==
    ASSUME NEW f
    PROVE  SumFunctionOnSet(f, {}) = 0
  BY FS_EmptySet, SumIsFold DEF Sums, SumOf

\* The sum with one summand, of the fold's choice, split off.
LEMMA SumAny ==
    ASSUME NEW S, IsFiniteSet(S), S # {}, NEW f
    PROVE  SumFunctionOnSet(f, S) = f[Chosen(S)] + SumFunctionOnSet(f, S \ {Chosen(S)})
  <1> DEFINE T == S \ {Chosen(S)}
  <1>1. PICK g : Sums(f, S, g) /\ SumFunctionOnSet(f, S) = g[S]
    BY SumIsFold
  <1>2. IsFiniteSet(T)
    BY FS_Subset
  <1>3. PICK h : Sums(f, T, h) /\ SumFunctionOnSet(f, T) = h[T]
    BY <1>2, SumIsFold
  <1>4. h[T] = g[T]
    BY <1>1, <1>3, SumsAgree
  <1>5. g[S] = f[Chosen(S)] + g[T]
    BY <1>1 DEF Sums, SumOf
  <1> QED
    BY <1>1, <1>3, <1>4, <1>5

\* A sum of numbers is a number.
LEMMA SumIsNat ==
    ASSUME NEW S, IsFiniteSet(S), NEW f, \A x \in S : f[x] \in Nat
    PROVE  SumFunctionOnSet(f, S) \in Nat
  <1> DEFINE Good(U) == SumFunctionOnSet(f, U) \in Nat
             N == {n \in Nat : \A U \in SUBSET S : Cardinality(U) = n => Good(U)}
  <1>1. \A U \in SUBSET S : IsFiniteSet(U) /\ Cardinality(U) \in Nat
    BY FS_Subset, FS_CardinalityType
  <1>2. 0 \in N
    <2>1. \A U \in SUBSET S : Cardinality(U) = 0 => U = {}
      BY <1>1, FS_EmptySet
    <2> QED
      BY <2>1, SumEmpty
  <1>3. ASSUME NEW n \in N PROVE n + 1 \in N
    <2> SUFFICES ASSUME NEW U \in SUBSET S, Cardinality(U) = n + 1 PROVE Good(U)
      OBVIOUS
    <2>1. U # {}
      BY FS_EmptySet, n + 1 # 0
    <2>2. Chosen(U) \in U
      BY <2>1 DEF Chosen
    <2>3. Cardinality(U \ {Chosen(U)}) = n
      <3>1. Cardinality(U \ {Chosen(U)}) = Cardinality(U) - 1
        BY <1>1, <2>2, FS_RemoveElement
      <3> QED
        BY <3>1
    <2>4. Good(U \ {Chosen(U)})
      BY <2>3
    <2>5. SumFunctionOnSet(f, U) = f[Chosen(U)] + SumFunctionOnSet(f, U \ {Chosen(U)})
      BY <1>1, <2>1, SumAny
    <2> QED
      BY <2>2, <2>4, <2>5
  <1>4. N = Nat
    <2> HIDE DEF N
    <2> QED
      BY <1>2, <1>3, InductionOnNat DEF N
  <1> QED
    BY <1>1, <1>4

\* Any element may be taken out of a sum.
LEMMA SumRemove ==
    ASSUME NEW S, IsFiniteSet(S), NEW f, \A y \in S : f[y] \in Nat, NEW x \in S
    PROVE  SumFunctionOnSet(f, S) = f[x] + SumFunctionOnSet(f, S \ {x})
  <1> DEFINE Sum(U) == SumFunctionOnSet(f, U)
             Good(U) == \A y \in U : Sum(U) = f[y] + Sum(U \ {y})
             N == {n \in Nat : \A U \in SUBSET S : Cardinality(U) = n => Good(U)}
  <1>1. \A U \in SUBSET S : IsFiniteSet(U) /\ Cardinality(U) \in Nat
    BY FS_Subset, FS_CardinalityType
  <1>2. 0 \in N
    <2>1. \A U \in SUBSET S : Cardinality(U) = 0 => U = {}
      BY <1>1, FS_EmptySet
    <2> QED
      BY <2>1
  <1>3. ASSUME NEW n \in N PROVE n + 1 \in N
    <2> SUFFICES ASSUME NEW U \in SUBSET S, Cardinality(U) = n + 1, NEW y \in U
                 PROVE  Sum(U) = f[y] + Sum(U \ {y})
      OBVIOUS
    <2> DEFINE a == Chosen(U)
    <2>1. a \in U
      BY DEF Chosen
    <2>2. Sum(U) = f[a] + Sum(U \ {a})
      BY <1>1, SumAny
    <2>3. ASSUME a # y PROVE Sum(U) = f[y] + Sum(U \ {y})
      <3> HIDE DEF a
      <3>1. Cardinality(U \ {a}) = n /\ Cardinality(U \ {y}) = n
        BY <1>1, <2>1, FS_RemoveElement
      <3>2. Sum(U \ {a}) = f[y] + Sum((U \ {a}) \ {y})
        BY <2>3, <3>1
      <3>3. Sum(U \ {y}) = f[a] + Sum((U \ {y}) \ {a})
        BY <2>1, <2>3, <3>1
      <3>4. (U \ {a}) \ {y} = (U \ {y}) \ {a}
        OBVIOUS
      <3>5. Sum((U \ {y}) \ {a}) \in Nat /\ f[a] \in Nat /\ f[y] \in Nat
        BY <1>1, <2>1, SumIsNat
      <3>6. \A i, j, k \in Nat : i + (j + k) = j + (i + k)
        OBVIOUS
      <3>7. f[a] + (f[y] + Sum((U \ {y}) \ {a})) = f[y] + (f[a] + Sum((U \ {y}) \ {a}))
        BY <3>5, <3>6
      <3> HIDE DEF Sum
      <3> QED
        BY <2>2, <3>2, <3>3, <3>4, <3>7
    <2> QED
      BY <2>2, <2>3
  <1>4. N = Nat
    <2> HIDE DEF N
    <2> QED
      BY <1>2, <1>3, InductionOnNat DEF N
  <1> QED
    BY <1>1, <1>4

\* The sum with one more summand.
LEMMA SumAdd ==
    ASSUME NEW S, IsFiniteSet(S), NEW x, x \notin S, NEW f, \A y \in S \cup {x} : f[y] \in Nat
    PROVE  SumFunctionOnSet(f, S \cup {x}) = SumFunctionOnSet(f, S) + f[x]
  <1>1. IsFiniteSet(S \cup {x})
    BY FS_AddElement
  <1>2. SumFunctionOnSet(f, S \cup {x}) = f[x] + SumFunctionOnSet(f, (S \cup {x}) \ {x})
    BY <1>1, SumRemove
  <1>3. (S \cup {x}) \ {x} = S
    OBVIOUS
  <1>4. SumFunctionOnSet(f, S) \in Nat /\ f[x] \in Nat
    BY SumIsNat
  <1> QED
    BY <1>2, <1>3, <1>4

--------------------------------------------------------------------------------
\* Comparing sums.

\* Nothing smaller than the other makes the sum larger.
LEMMA SumLessEqual ==
    ASSUME NEW S, IsFiniteSet(S), NEW f, NEW g,
           \A x \in S : f[x] \in Nat /\ g[x] \in Nat /\ f[x] <= g[x]
    PROVE  SumFunctionOnSet(f, S) <= SumFunctionOnSet(g, S)
  <1> DEFINE G == {T \in SUBSET S : SumFunctionOnSet(f, T) <= SumFunctionOnSet(g, T)}
  <1>1. {} \in G
    BY SumEmpty
  <1>2. ASSUME NEW T \in SUBSET S, NEW x \in S, T \in G, x \notin T PROVE T \cup {x} \in G
    <2>1. IsFiniteSet(T)
      BY FS_Subset
    <2>2. /\ SumFunctionOnSet(f, T \cup {x}) = SumFunctionOnSet(f, T) + f[x]
          /\ SumFunctionOnSet(g, T \cup {x}) = SumFunctionOnSet(g, T) + g[x]
      BY <1>2, <2>1, SumAdd
    <2>3. SumFunctionOnSet(f, T) \in Nat /\ SumFunctionOnSet(g, T) \in Nat
      BY <2>1, SumIsNat
    <2>4. SumFunctionOnSet(f, T) <= SumFunctionOnSet(g, T)
      BY <1>2
    <2>5. SumFunctionOnSet(f, T \cup {x}) <= SumFunctionOnSet(g, T \cup {x})
      BY <2>2, <2>3, <2>4
    <2> QED
      BY <2>5
  <1>3. S \in G
    <2> HIDE DEF G
    <2> QED
      BY <1>1, <1>2, InductionOnSets
  <1> QED
    BY <1>3

\* Nor does a part of a set have a larger sum than the whole.
LEMMA SumSubset ==
    ASSUME NEW S, IsFiniteSet(S), NEW T \in SUBSET S, NEW f, \A x \in S : f[x] \in Nat
    PROVE  SumFunctionOnSet(f, T) <= SumFunctionOnSet(f, S)
  <1> DEFINE Rest == S \ T
             G == {U \in SUBSET Rest : SumFunctionOnSet(f, T) <= SumFunctionOnSet(f, T \cup U)}
  <1>1. \A U \in SUBSET S : IsFiniteSet(U) /\ SumFunctionOnSet(f, U) \in Nat
    BY FS_Subset, SumIsNat
  <1>2. {} \in G
    <2>1. T \cup {} = T
      OBVIOUS
    <2> QED
      BY <1>1, <2>1
  <1>3. ASSUME NEW U \in SUBSET Rest, NEW x \in Rest, U \in G, x \notin U PROVE U \cup {x} \in G
    <2>1. T \cup U \in SUBSET S /\ x \notin T \cup U /\ x \in S
      BY <1>3
    <2>2. SumFunctionOnSet(f, (T \cup U) \cup {x}) = SumFunctionOnSet(f, T \cup U) + f[x]
      BY <1>1, <2>1, SumAdd
    <2>3. (T \cup U) \cup {x} = T \cup (U \cup {x})
      OBVIOUS
    <2>4. /\ SumFunctionOnSet(f, T) \in Nat
          /\ SumFunctionOnSet(f, T \cup U) \in Nat
          /\ f[x] \in Nat
      BY <1>1, <2>1
    <2>5. SumFunctionOnSet(f, T) <= SumFunctionOnSet(f, T \cup U)
      BY <1>3
    <2>6. SumFunctionOnSet(f, T) <= SumFunctionOnSet(f, T \cup (U \cup {x}))
      <3>1. \A i, j, k \in Nat : i <= j => i <= j + k
        OBVIOUS
      <3>2. SumFunctionOnSet(f, T) <= SumFunctionOnSet(f, T \cup U) + f[x]
        BY <2>4, <2>5, <3>1
      <3> QED
        BY ONLY <2>2, <2>3, <3>2, Zenon
    <2> QED
      BY <2>6
  <1>4. Rest \in G
    <2>1. IsFiniteSet(Rest)
      BY FS_Subset
    <2> HIDE DEF G
    <2> QED
      BY <1>2, <1>3, <2>1, InductionOnSets
  <1>5. T \cup Rest = S
    OBVIOUS
  <1> QED
    BY <1>4, <1>5

\* A sum of noughts and ones counts the ones.
LEMMA SumCounts ==
    ASSUME NEW S, IsFiniteSet(S), NEW f, \A x \in S : f[x] \in {0, 1}
    PROVE  SumFunctionOnSet(f, S) = Cardinality({x \in S : f[x] = 1})
  <1> DEFINE Ones(T) == {x \in T : f[x] = 1}
             G == {T \in SUBSET S : SumFunctionOnSet(f, T) = Cardinality(Ones(T))}
  <1>1. {} \in G
    <2>1. Ones({}) = {}
      OBVIOUS
    <2> QED
      BY <2>1, SumEmpty, FS_EmptySet
  <1>2. ASSUME NEW T \in SUBSET S, NEW x \in S, T \in G, x \notin T PROVE T \cup {x} \in G
    <2>1. IsFiniteSet(T) /\ IsFiniteSet(Ones(T))
      BY FS_Subset
    <2>2. Cardinality(Ones(T)) \in Nat
      BY <2>1, FS_CardinalityType
    <2>3. SumFunctionOnSet(f, T \cup {x}) = SumFunctionOnSet(f, T) + f[x]
      <3>1. \A y \in T \cup {x} : f[y] \in Nat
        OBVIOUS
      <3> QED
        BY <1>2, <2>1, <3>1, SumAdd
    <2>4. CASE f[x] = 1
      <3>1. Ones(T \cup {x}) = Ones(T) \cup {x} /\ x \notin Ones(T)
        BY <1>2, <2>4
      <3>2. Cardinality(Ones(T) \cup {x}) = Cardinality(Ones(T)) + 1
        BY <2>1, <3>1, FS_AddElement
      <3> QED
        BY <1>2, <2>3, <2>4, <3>1, <3>2
    <2>5. CASE f[x] = 0
      <3>1. Ones(T \cup {x}) = Ones(T)
        BY <2>5
      <3> QED
        BY <1>2, <2>2, <2>3, <2>5, <3>1
    <2> QED
      BY <2>4, <2>5
  <1>3. S \in G
    <2> HIDE DEF G
    <2> QED
      BY <1>1, <1>2, InductionOnSets
  <1> QED
    BY <1>3
================================================================================
