--------------------------- MODULE TenantReportsLists ---------------------------
(***************************************************************************)
(* Lemmas about the lists of TenantReports: what Sorted, Reverse, InsertAt *)
(* and Page do to a sequence, what a list that hides nothing is, and that  *)
(* such a list only grows, no row of it nearer to the front, while rows    *)
(* are added to the tables and, of units, none is given another number.    *)
(***************************************************************************)
EXTENDS TenantReports, SequenceTheorems, FiniteSetTheorems, TLAPS

--------------------------------------------------------------------------------
\* Lists.

\* Of a greater number there are more up to it.
LEMMA UptoGrows ==
    ASSUME NEW S \in SUBSET Nat, NEW m \in S, NEW n \in S, m <= n
    PROVE  {k \in S : k <= m} \subseteq {k \in S : k <= n}
  <1>1. \A k \in S : k \in Nat /\ (k <= m => k <= n)
    OBVIOUS
  <1> QED
    BY <1>1

\* Each number of a finite set has a rank of its own, and each rank its number.
LEMMA Ranks ==
    ASSUME NEW S \in SUBSET Nat, IsFiniteSet(S), NEW k \in 1..Cardinality(S)
    PROVE  \E n \in S : Cardinality({m \in S : m <= n}) = k
  <1> DEFINE Upto(n) == {m \in S : m <= n}
             rank == [n \in S |-> Cardinality(Upto(n))]
             I == 1..Cardinality(S)
  <1>1. Cardinality(S) \in Nat
    BY FS_CardinalityType
  <1>2. \A n \in S : IsFiniteSet(Upto(n)) /\ Cardinality(Upto(n)) \in Nat
                     /\ Cardinality(Upto(n)) <= Cardinality(S)
    BY FS_Subset, FS_CardinalityType
  <1>3. \A n \in S : Cardinality(Upto(n)) # 0
    <2> SUFFICES ASSUME NEW n \in S PROVE Upto(n) # {}
      BY <1>2, FS_EmptySet
    <2>1. n \in Upto(n)
      OBVIOUS
    <2> QED
      BY <2>1
  <1>4. rank \in [S -> I]
    <2>1. \A n \in S : Cardinality(Upto(n)) \in I
      BY <1>1, <1>2, <1>3
    <2> QED
      BY <2>1
  <1>5. ASSUME NEW m \in S, NEW n \in S, m < n PROVE rank[m] # rank[n]
    <2>0. m \in Nat /\ n \in Nat /\ m <= n /\ n <= n /\ ~(n <= m)
      BY <1>5
    <2>1. Upto(m) \subseteq Upto(n) /\ n \in Upto(n) /\ n \notin Upto(m)
      BY <2>0, UptoGrows
    <2>2. Upto(m) # Upto(n)
      BY <2>1
    <2> QED
      BY <1>2, <2>1, <2>2, FS_Subset
  <1>6. \A m, n \in S : rank[m] = rank[n] => m = n
    <2> SUFFICES ASSUME NEW m \in S, NEW n \in S, m # n PROVE rank[m] # rank[n]
      OBVIOUS
    <2>1. m < n \/ n < m
      OBVIOUS
    <2> HIDE DEF rank
    <2> QED
      BY <1>5, <2>1
  <1>7. rank \in Injection(S, I)
    BY <1>4, <1>6 DEF Injection, IsInjective
  <1>8. IsFiniteSet(I) /\ Cardinality(I) = Cardinality(S)
    BY <1>1, FS_Interval
  <1>9. rank \in Surjection(S, I)
    BY <1>7, <1>8, FS_Injection
  <1>10. \E n \in S : rank[n] = k
    <2> HIDE DEF rank, I
    <2> USE DEF I
    <2> QED
      BY <1>9 DEF Surjection
  <1> QED
    BY <1>10

\* The ascending enumeration of a set has each number of the set at its rank.
LEMMA SortedRanks ==
    ASSUME NEW S \in SUBSET Nat, IsFiniteSet(S)
    PROVE  /\ Cardinality(S) \in Nat
           /\ Sorted(S) \in [1..Cardinality(S) -> S]
           /\ \A k \in 1..Cardinality(S) : Cardinality({m \in S : m <= Sorted(S)[k]}) = k
           /\ \A n \in S : /\ Cardinality({m \in S : m <= n}) \in 1..Cardinality(S)
                           /\ Sorted(S)[Cardinality({m \in S : m <= n})] = n
  <1> DEFINE Upto(n) == {m \in S : m <= n}
  <1>1. Cardinality(S) \in Nat
    BY FS_CardinalityType
  <1>2. ASSUME NEW k \in 1..Cardinality(S)
        PROVE  Sorted(S)[k] \in S /\ Cardinality(Upto(Sorted(S)[k])) = k
    BY <1>2, Ranks DEF Sorted
  <1>3. Sorted(S) \in [1..Cardinality(S) -> S]
    BY <1>2 DEF Sorted
  <1>4. ASSUME NEW n \in S
        PROVE  Cardinality(Upto(n)) \in 1..Cardinality(S) /\ Sorted(S)[Cardinality(Upto(n))] = n
    <2> DEFINE k == Cardinality(Upto(n))
    <2>1. k \in Nat /\ k <= Cardinality(S)
      BY FS_Subset, FS_CardinalityType
    <2>2. k # 0
      <3>1. n \in Upto(n)
        OBVIOUS
      <3> QED
        BY <3>1, FS_Subset, FS_EmptySet
    <2>3. k \in 1..Cardinality(S)
      BY <1>1, <2>1, <2>2
    <2> DEFINE m == Sorted(S)[k]
    <2>4. m \in S /\ Cardinality(Upto(m)) = k
      BY <1>2, <2>3
    <2>5. Upto(m) \subseteq Upto(n) \/ Upto(n) \subseteq Upto(m)
      <3>1. m \in S
        BY <2>4
      <3> HIDE DEF m
      <3>2. m <= n \/ n <= m
        BY <3>1
      <3> QED
        BY <3>1, <3>2, UptoGrows
    <2>6. Upto(m) = Upto(n)
      <3>1. IsFiniteSet(Upto(m)) /\ IsFiniteSet(Upto(n))
        BY FS_Subset
      <3> HIDE DEF m
      <3> QED
        BY <2>4, <2>5, <3>1, FS_Subset
    <2>7. m \in Upto(m) /\ n \in Upto(n)
      <3> HIDE DEF m
      <3> QED
        BY <2>4
    <2>8. m <= n /\ n <= m
      <3> HIDE DEF m
      <3> QED
        BY <2>6, <2>7
    <2>9. m = n
      <3> HIDE DEF m
      <3> QED
        BY <2>4, <2>8
    <2> QED
      BY <2>3, <2>9
  <1> QED
    BY <1>1, <1>2, <1>3, <1>4

\* Sorted lists the set.
LEMMA SortedIsSeq ==
    ASSUME NEW S \in SUBSET Nat, IsFiniteSet(S)
    PROVE  Sorted(S) \in Seq(S) /\ Len(Sorted(S)) = Cardinality(S)
  BY SortedRanks

\* 1..n is sorted.
LEMMA SortedInterval ==
    ASSUME NEW n \in Nat
    PROVE  Sorted(1..n) = [i \in 1..n |-> i]
  <1>1. IsFiniteSet(1..n) /\ Cardinality(1..n) = n /\ 1..n \in SUBSET Nat
    BY FS_Interval
  <1>2. Sorted(1..n) \in [1..n -> 1..n]
    BY <1>1, SortedRanks
  <1>3. ASSUME NEW k \in 1..n PROVE Sorted(1..n)[k] = k
    <2>1. Cardinality({m \in 1..n : m <= k}) = k
      <3>1. {m \in 1..n : m <= k} = 1..k
        OBVIOUS
      <3>2. Cardinality(1..k) = k
        BY FS_Interval
      <3> QED
        BY <3>1, <3>2, Zenon
    <2> QED
      BY <1>1, <2>1, SortedRanks
  <1> QED
    BY <1>2, <1>3

\* Each row of L is in M, no nearer to the front.
Grows(L, M) == \A i \in 1..Len(L) : \E j \in 1..Len(M) : i <= j /\ M[j] = L[i]

\* A list that stays as it is.
LEMMA SameGrows ==
    ASSUME NEW S, NEW L \in Seq(S)
    PROVE  Grows(L, L)
  BY DEF Grows

\* More numbers take none of those before nearer to the front.
LEMMA SortedGrows ==
    ASSUME NEW T \in SUBSET Nat, IsFiniteSet(T), NEW S \in SUBSET T
    PROVE  Grows(Sorted(S), Sorted(T))
  <1>1. IsFiniteSet(S)
    BY FS_Subset
  <1>2. SUFFICES ASSUME NEW i \in 1..Cardinality(S)
                 PROVE  \E j \in 1..Cardinality(T) : i <= j /\ Sorted(T)[j] = Sorted(S)[i]
    BY <1>1, SortedIsSeq DEF Grows
  <1> DEFINE n == Sorted(S)[i]
             j == Cardinality({m \in T : m <= n})
  <1>3. n \in S /\ Cardinality({m \in S : m <= n}) = i
    BY <1>1, SortedRanks
  <1>4. j \in 1..Cardinality(T) /\ Sorted(T)[j] = n
    BY <1>3, SortedRanks
  <1>5. i <= j
    <2>1. {m \in S : m <= n} \in SUBSET {m \in T : m <= n}
      OBVIOUS
    <2>2. IsFiniteSet({m \in T : m <= n})
      BY FS_Subset
    <2> HIDE DEF n
    <2> QED
      BY <1>3, <2>1, <2>2, FS_Subset
  <1> QED
    BY <1>4, <1>5

\* The newest first.
LEMMA ReverseIsSeq ==
    ASSUME NEW S, NEW s \in Seq(S)
    PROVE  /\ Reverse(s) \in Seq(S) /\ Len(Reverse(s)) = Len(s)
           /\ \A i \in 1..Len(s) : Reverse(s)[i] = s[Len(s) - i + 1]
  <1>1. \A i \in 1..Len(s) : s[Len(s) - i + 1] \in S
    OBVIOUS
  <1> QED
    BY <1>1 DEF Reverse

\* A row that comes in anywhere takes no other nearer to the front.
LEMMA InsertGrows ==
    ASSUME NEW S, NEW s \in Seq(S), NEW x \in S, NEW k \in 1..Len(s) + 1
    PROVE  /\ InsertAt(s, k, x) \in Seq(S) /\ Len(InsertAt(s, k, x)) = Len(s) + 1
           /\ \A i \in 1..Len(s) + 1 :
                 InsertAt(s, k, x)[i] = IF i < k THEN s[i] ELSE IF i = k THEN x ELSE s[i - 1]
           /\ Grows(Reverse(s), Reverse(InsertAt(s, k, x)))
  <1> DEFINE t == InsertAt(s, k, x)
             a == SubSeq(s, 1, k - 1)
             b == SubSeq(s, k, Len(s))
  <1>1. a \in Seq(S) /\ Len(a) = k - 1 /\ \A i \in 1..k - 1 : a[i] = s[i]
    BY SubSeqProperties
  <1>2. b \in Seq(S) /\ Len(b) = Len(s) - k + 1 /\ \A i \in 1..Len(s) - k + 1 : b[i] = s[k + i - 1]
    BY SubSeqProperties
  <1>3. <<x>> \in Seq(S) /\ Len(<<x>>) = 1 /\ <<x>>[1] = x
    OBVIOUS
  <1>4. t = (a \o <<x>>) \o b
    BY DEF InsertAt
  <1> HIDE DEF a, b
  <1>5. /\ a \o <<x>> \in Seq(S) /\ Len(a \o <<x>>) = k
        /\ \A i \in 1..k : (a \o <<x>>)[i] = IF i <= k - 1 THEN a[i] ELSE <<x>>[i - (k - 1)]
    <2>1. k - 1 + 1 = k
      OBVIOUS
    <2> QED
      BY <1>1, <1>3, <2>1, ConcatProperties
  <1>6. /\ t \in Seq(S) /\ Len(t) = Len(s) + 1
        /\ \A i \in 1..Len(s) + 1 : t[i] = IF i <= k THEN (a \o <<x>>)[i] ELSE b[i - k]
    <2>1. k + (Len(s) - k + 1) = Len(s) + 1
      OBVIOUS
    <2> DEFINE c == a \o <<x>>
    <2>2. c \in Seq(S) /\ Len(c) = k
      BY <1>5
    <2>3. t = c \o b
      BY <1>4
    <2> HIDE DEF c, t
    <2>4. /\ c \o b \in Seq(S) /\ Len(c \o b) = Len(c) + Len(b)
          /\ \A i \in 1..Len(c) + Len(b) : (c \o b)[i] = IF i <= Len(c) THEN c[i] ELSE b[i - Len(c)]
      BY <1>2, <2>2, ConcatProperties
    <2> QED
      BY <1>2, <2>1, <2>2, <2>3, <2>4 DEF c
  <1>7. \A i \in 1..Len(s) + 1 : t[i] = IF i < k THEN s[i] ELSE IF i = k THEN x ELSE s[i - 1]
    <2> SUFFICES ASSUME NEW i \in 1..Len(s) + 1
                 PROVE  t[i] = IF i < k THEN s[i] ELSE IF i = k THEN x ELSE s[i - 1]
      OBVIOUS
    <2>1. CASE i < k
      BY <1>1, <1>5, <1>6, <2>1
    <2>2. CASE i = k
      BY <1>3, <1>5, <1>6, <2>2
    <2>3. CASE i > k
      <3>1. i - k \in 1..Len(s) - k + 1 /\ k + (i - k) - 1 = i - 1
        BY <2>3
      <3> QED
        BY <1>2, <1>6, <2>3, <3>1
    <2> QED
      BY <2>1, <2>2, <2>3
  <1>8. Grows(Reverse(s), Reverse(t))
    <2>1. /\ Len(Reverse(s)) = Len(s) /\ Len(Reverse(t)) = Len(s) + 1
          /\ \A i \in 1..Len(s) : Reverse(s)[i] = s[Len(s) - i + 1]
          /\ \A i \in 1..Len(s) + 1 : Reverse(t)[i] = t[Len(s) + 1 - i + 1]
      <3> HIDE DEF t
      <3>1. t \in Seq(S) /\ Len(t) = Len(s) + 1
        BY <1>6
      <3>2. Len(Reverse(s)) = Len(s) /\ \A i \in 1..Len(s) : Reverse(s)[i] = s[Len(s) - i + 1]
        BY ReverseIsSeq
      <3>3. Len(Reverse(t)) = Len(t) /\ \A i \in 1..Len(t) : Reverse(t)[i] = t[Len(t) - i + 1]
        BY <3>1, ReverseIsSeq
      <3>4. \A i \in 1..Len(s) + 1 : Reverse(t)[i] = t[Len(s) + 1 - i + 1]
        BY ONLY <3>1, <3>3, SMTT(30)
      <3>5. Len(Reverse(t)) = Len(s) + 1
        BY <3>1, <3>3
      <3> QED
        BY <3>2, <3>4, <3>5
    <2> SUFFICES ASSUME NEW i \in 1..Len(s)
                 PROVE  \E j \in 1..Len(s) + 1 : i <= j /\ Reverse(t)[j] = Reverse(s)[i]
      BY <2>1 DEF Grows
    <2> DEFINE n == Len(s) - i + 1
    <2>2. n \in 1..Len(s) /\ Reverse(s)[i] = s[n]
      BY <2>1
    <2> HIDE DEF t
    <2>3. CASE n < k
      <3>1. t[n] = s[n]
        BY <1>7, <2>2, <2>3
      <3>2. Reverse(t)[i + 1] = t[n]
        BY <2>1
      <3> QED
        BY <2>2, <3>1, <3>2
    <2>4. CASE n >= k
      <3>1. t[n + 1] = s[n]
        BY <1>7, <2>2, <2>4
      <3>2. Reverse(t)[i] = t[n + 1]
        BY <2>1
      <3> QED
        BY <2>2, <3>1, <3>2
    <2> QED
      BY <2>2, <2>3, <2>4
  <1> QED
    BY <1>6, <1>7, <1>8

\* An entry behind the others is in front of them in the reversed list.
LEMMA AppendGrows ==
    ASSUME NEW S, NEW s \in Seq(S), NEW x \in S
    PROVE  Grows(Reverse(s), Reverse(Append(s, x)))
  <1> DEFINE t == Append(s, x)
  <1>1. t \in Seq(S) /\ Len(t) = Len(s) + 1 /\ \A i \in 1..Len(s) : t[i] = s[i]
    BY AppendProperties
  <1> HIDE DEF t
  <1>2. /\ Len(Reverse(s)) = Len(s) /\ Len(Reverse(t)) = Len(s) + 1
        /\ \A i \in 1..Len(s) : Reverse(s)[i] = s[Len(s) - i + 1]
        /\ \A i \in 1..Len(s) + 1 : Reverse(t)[i] = t[Len(s) + 1 - i + 1]
    BY <1>1, ReverseIsSeq
  <1>3. ASSUME NEW i \in 1..Len(s) PROVE Reverse(t)[i + 1] = Reverse(s)[i]
    <2>1. i + 1 \in 1..Len(s) + 1 /\ Len(s) - i + 1 \in 1..Len(s)
      OBVIOUS
    <2>2. Len(s) + 1 - (i + 1) + 1 = Len(s) - i + 1
      OBVIOUS
    <2>3. Reverse(t)[i + 1] = t[Len(s) + 1 - (i + 1) + 1]
      BY <1>2, <2>1
    <2> QED
      BY <1>1, <1>2, <2>1, <2>2, <2>3
  <1>4. \A i \in 1..Len(s) : i + 1 \in 1..Len(s) + 1 /\ i <= i + 1
    OBVIOUS
  <1> QED
    BY <1>2, <1>3, <1>4 DEF Grows, t

\* Rows on a page: at most Limit, and with those before it no more than there are.
LEMMA PageRows ==
    ASSUME NEW S, NEW s \in Seq(S), NEW k \in Nat
    PROVE  /\ Page(s, k) \in Seq(S)
           /\ Len(Page(s, k)) <= Limit
           /\ Page(s, k) # <<>> => k + Len(Page(s, k)) <= Len(s)
           /\ ToSet(Page(s, k)) \subseteq ToSet(s)
           /\ \A i \in 1..Len(s) : k < i /\ i <= k + Limit => s[i] \in ToSet(Page(s, k))
  <1> DEFINE n == Least(k + Limit, Len(s))
             p == Page(s, k)
  <1>1. Limit \in Nat /\ n \in Nat /\ n <= k + Limit /\ n <= Len(s)
        /\ (n = k + Limit \/ n = Len(s))
    BY TenantReportsAssumption DEF Least
  <1>2. p = SubSeq(s, k + 1, n)
    BY DEF Page
  <1> HIDE DEF n, p
  <1>3. /\ p \in Seq(S)
        /\ Len(p) = IF k + 1 <= n THEN n - (k + 1) + 1 ELSE 0
        /\ \A i \in 1..n - (k + 1) + 1 : p[i] = s[k + 1 + i - 1]
    <2>1. \A i \in k + 1..n : s[i] \in S
      BY <1>1
    <2> QED
      BY <1>1, <1>2, <2>1, SubSeqProperties
  <1>4. Len(p) <= Limit
    BY <1>1, <1>3
  <1>5. p # <<>> => k + Len(p) <= Len(s)
    BY <1>1, <1>3
  <1>6. ToSet(p) \subseteq ToSet(s)
    <2> SUFFICES ASSUME NEW i \in 1..Len(p) PROVE \E j \in 1..Len(s) : s[j] = p[i]
      BY <1>3 DEF ToSet
    <2>1. p[i] = s[k + i] /\ k + i \in 1..Len(s)
      BY <1>1, <1>3
    <2> QED
      BY <2>1
  <1>7. ASSUME NEW i \in 1..Len(s), k < i, i <= k + Limit PROVE s[i] \in ToSet(p)
    <2>1. i <= n /\ i - k \in 1..Len(p) /\ k + 1 + (i - k) - 1 = i
      BY <1>1, <1>3, <1>7
    <2>2. p[i - k] = s[i]
      BY <1>1, <1>3, <2>1
    <2>3. i - k \in DOMAIN p
      BY <1>3, <2>1
    <2> QED
      BY <2>2, <2>3 DEF ToSet
  <1> QED
    BY <1>3, <1>4, <1>5, <1>6, <1>7 DEF p

\* A listing of a finite set has each of its members, once.
LEMMA ListedOnce ==
    ASSUME NEW S, IsFiniteSet(S), NEW seq \in SetToSeqs(S)
    PROVE  /\ seq \in Seq(S) /\ ToSet(seq) = S /\ Len(seq) = Cardinality(S)
           /\ \A i, j \in 1..Len(seq) : seq[i] = seq[j] => i = j
  <1> DEFINE D == 1..Cardinality(S)
  <1>1. Cardinality(S) \in Nat
    BY FS_CardinalityType
  <1>2. seq \in [D -> S] /\ \A i, j \in D : i # j => seq[i] # seq[j]
    BY DEF SetToSeqs
  <1>3. IsFiniteSet(D) /\ Cardinality(D) = Cardinality(S)
    BY <1>1, FS_Interval
  <1>4. seq \in Seq(S) /\ Len(seq) = Cardinality(S) /\ DOMAIN seq = D
    BY <1>1, <1>2
  <1> HIDE DEF D
  <1>5. seq \in Injection(D, S)
    BY <1>2 DEF Injection, IsInjective
  <1>6. seq \in Surjection(D, S)
    BY <1>3, <1>5, FS_Injection
  <1>7. ToSet(seq) = S
    BY <1>2, <1>4, <1>6 DEF Surjection, ToSet
  <1> QED
    BY <1>2, <1>4, <1>7 DEF D

--------------------------------------------------------------------------------
\* What is listed.

\* Places in a sequence are finitely many numbers.
LEMMA IntervalSubset ==
    ASSUME NEW n \in Nat, NEW S \in SUBSET (1..n)
    PROVE  S \in SUBSET Nat /\ IsFiniteSet(S)
  <1>1. IsFiniteSet(1..n)
    BY FS_Interval
  <1>2. IsFiniteSet(S)
    BY <1>1, FS_Subset
  <1> QED
    BY <1>2

\* Of the lists that have one order, each is a sequence of the rows it is about.
ListsAreSeqs == \A q \in Queries : q.of # "units" => Listed(q) \in Seq(RowIds)

\* Whichever of them is asked for.
LEMMA ListedIsSeq == TypeOK => ListsAreSeqs
  <1> SUFFICES ASSUME TypeOK, NEW q \in Queries, q.of # "units"
               PROVE  Listed(q) \in Seq(RowIds)
    BY DEF ListsAreSeqs
  <1> DEFINE t == q.tenant
             Shows(is_active) == q.activeOnly => is_active
  <1>1. q.of \in Lists /\ t \in Tenants
    BY DEF Queries
  <1>2. /\ projects[t] \in Seq(Row) /\ logs[t] \in Seq(Requests) /\ tenants \in Seq(Tenants)
        /\ Len(projects[t]) \in Nat /\ Len(tenants) \in Nat
    BY <1>1 DEF TypeOK, CatalogTypeOK
  <1>3. CASE q.of = "projects"
    <2> DEFINE S == {i \in 1..Len(projects[t]) : Shows(projects[t][i]["is_active"])}
    <2>1. S \in SUBSET Nat /\ IsFiniteSet(S)
      <3>1. S \in SUBSET (1..Len(projects[t]))
        OBVIOUS
      <3> HIDE DEF S
      <3> QED
        BY <1>2, <3>1, IntervalSubset
    <2>2. Listed(q) = Reverse(Sorted(S))
      BY <1>3 DEF Listed
    <2> HIDE DEF S
    <2>3. Sorted(S) \in Seq(S)
      BY <2>1, SortedIsSeq
    <2>4. Sorted(S) \in Seq(RowIds)
      BY <2>1, <2>3, SeqMonotonic DEF RowIds
    <2> QED
      BY <2>2, <2>4, ReverseIsSeq
  <1>5. CASE q.of = "logs"
    <2>1. Listed(q) = Reverse(logs[t])
      BY <1>5 DEF Listed
    <2>2. logs[t] \in Seq(RowIds)
      BY <1>2, SeqMonotonic DEF RowIds
    <2> QED
      BY <2>1, <2>2, ReverseIsSeq
  <1>6. CASE q.of = "tenants"
    <2> DEFINE S == {i \in 1..Len(tenants) : Shows(tenants[i] \in active)}
               s == [i \in DOMAIN Sorted(S) |-> tenants[Sorted(S)[i]]]
    <2>1. S \in SUBSET Nat /\ IsFiniteSet(S) /\ S \subseteq 1..Len(tenants)
      <3>1. S \in SUBSET (1..Len(tenants))
        OBVIOUS
      <3> HIDE DEF S
      <3> QED
        BY <1>2, <3>1, IntervalSubset
    <2>2. Listed(q) = Reverse(s)
      BY <1>6 DEF Listed
    <2> HIDE DEF S
    <2>3. Sorted(S) \in [1..Cardinality(S) -> S] /\ Cardinality(S) \in Nat
      BY <2>1, SortedRanks
    <2>4. s \in [1..Cardinality(S) -> Tenants]
      <3>1. \A i \in 1..Len(tenants) : tenants[i] \in Tenants
        BY <1>2
      <3> QED
        BY <2>1, <2>3, <3>1
    <2>5. s \in Seq(RowIds)
      <3> HIDE DEF s
      <3>1. s \in Seq(Tenants)
        BY <2>3, <2>4
      <3> QED
        BY <3>1, SeqMonotonic DEF RowIds
    <2> HIDE DEF s
    <2> QED
      BY <2>2, <2>5, ReverseIsSeq
  <1> QED
    BY <1>1, <1>3, <1>5, <1>6 DEF Lists

\* A list that hides nothing, without the filter that it does not have.
PlainLists ==
    \A q \in Queries : ~q.activeOnly =>
        /\ q.of = "projects" => Listed(q) = Reverse([i \in 1..Len(projects[q.tenant]) |-> i])
        /\ q.of = "logs" => Listed(q) = Reverse(logs[q.tenant])
        /\ q.of = "tenants" => Listed(q) = Reverse(tenants)

\* Without the filter nothing is left out.
LEMMA ListedPlain == TypeOK => PlainLists
  <1> SUFFICES
        ASSUME TypeOK, NEW q \in Queries, ~q.activeOnly
        PROVE  /\ q.of = "projects" =>
                     Listed(q) = Reverse([i \in 1..Len(projects[q.tenant]) |-> i])
               /\ q.of = "logs" => Listed(q) = Reverse(logs[q.tenant])
               /\ q.of = "tenants" => Listed(q) = Reverse(tenants)
    BY DEF PlainLists
  <1> DEFINE t == q.tenant
  <1>1. t \in Tenants
    BY DEF Queries
  <1>2. projects[t] \in Seq(Row) /\ tenants \in Seq(Tenants)
    BY <1>1 DEF TypeOK, CatalogTypeOK
  <1>3. ASSUME q.of = "projects" PROVE Listed(q) = Reverse([i \in 1..Len(projects[t]) |-> i])
    <2>1. Len(projects[t]) \in Nat
      BY <1>2
    <2>2. {i \in 1..Len(projects[t]) : q.activeOnly => projects[t][i]["is_active"]}
            = 1..Len(projects[t])
      OBVIOUS
    <2>3. Listed(q) = Reverse(Sorted(1..Len(projects[t])))
      BY <1>3, <2>2 DEF Listed
    <2> QED
      BY <2>1, <2>3, SortedInterval
  <1>5. ASSUME q.of = "logs" PROVE Listed(q) = Reverse(logs[t])
    BY <1>5 DEF Listed
  <1>6. ASSUME q.of = "tenants" PROVE Listed(q) = Reverse(tenants)
    <2> DEFINE n == Len(tenants)
               s == [i \in DOMAIN Sorted(1..n) |-> tenants[Sorted(1..n)[i]]]
    <2>1. n \in Nat
      BY <1>2
    <2>2. {i \in 1..n : q.activeOnly => tenants[i] \in active} = 1..n
      OBVIOUS
    <2>3. Listed(q) = Reverse(s)
      BY <1>6, <2>2 DEF Listed
    <2>4. Sorted(1..n) = [i \in 1..n |-> i]
      BY <2>1, SortedInterval
    <2>5. s = [i \in 1..n |-> tenants[i]]
      BY <2>4
    <2>6. s = tenants
      BY <1>2, <2>5
    <2> QED
      BY <2>3, <2>6
  <1> QED
    BY <1>3, <1>5, <1>6

--------------------------------------------------------------------------------
\* The list of units.

\* The units of t, and those of them up to the number of p.
StoredUnits(t) == {o \in UnitIds : Stored(t, o)}
Upto(t, p) == {o \in StoredUnits(t) : units[t][o].unit_number <= units[t][p].unit_number}

\* They are finitely many, and each has a number.
LEMMA UnitsFinite ==
    ASSUME TypeOK, NEW t \in Tenants
    PROVE  /\ StoredUnits(t) \in SUBSET RowIds
           /\ IsFiniteSet(StoredUnits(t)) /\ Cardinality(StoredUnits(t)) \in Nat
           /\ \A p \in StoredUnits(t) : units[t][p].unit_number \in Nat
           /\ \A p \in StoredUnits(t) : IsFiniteSet(Upto(t, p)) /\ Cardinality(Upto(t, p)) \in Nat
  <1>1. StoredUnits(t) \in SUBSET UnitIds
    BY DEF StoredUnits
  <1>2. IsFiniteSet(StoredUnits(t))
    BY <1>1, TenantReportsAssumption, FS_Subset
  <1>3. \A p \in StoredUnits(t) : units[t][p].unit_number \in Nat
    <2> SUFFICES ASSUME NEW p \in StoredUnits(t) PROVE units[t][p].unit_number \in Nat
      OBVIOUS
    <2>1. units[t][p] \in Unit
      BY DEF TypeOK, StoredUnits, Stored
    <2>2. units[t][p].unit_number \in Numbers
      BY <2>1 DEF Unit
    <2> QED
      BY <2>2, TenantReportsAssumption
  <1>4. \A p \in StoredUnits(t) : Upto(t, p) \in SUBSET StoredUnits(t)
    BY DEF Upto
  <1>5. \A p \in StoredUnits(t) : IsFiniteSet(Upto(t, p)) /\ Cardinality(Upto(t, p)) \in Nat
    BY <1>2, <1>4, FS_Subset, FS_CardinalityType
  <1>6. StoredUnits(t) \in SUBSET RowIds
    BY <1>1, TenantReportsAssumption DEF RowIds
  <1> QED
    BY <1>2, <1>3, <1>5, <1>6, FS_CardinalityType

\* The same of every tenant, in any state of the type.
CountableUnits ==
    \A t \in Tenants :
        /\ IsFiniteSet(StoredUnits(t)) /\ Cardinality(StoredUnits(t)) \in Nat
        /\ \A p \in StoredUnits(t) : IsFiniteSet(Upto(t, p)) /\ Cardinality(Upto(t, p)) \in Nat

LEMMA UnitsCountable == TypeOK => CountableUnits
  BY UnitsFinite DEF CountableUnits

\* Whatever order PostgreSQL chooses, a list of units has each of those it shows once.
LEMMA UnitListing ==
    ASSUME TypeOK, NEW q \in Queries, q.of = "units", NEW list \in Listings(q)
    PROVE  /\ list \in Seq(UnitsShown(q)) /\ UnitsShown(q) \in SUBSET StoredUnits(q.tenant)
           /\ ToSet(list) = UnitsShown(q) /\ Len(list) = Cardinality(UnitsShown(q))
           /\ \A i, j \in 1..Len(list) : list[i] = list[j] => i = j
           /\ \A i, j \in 1..Len(list) : i < j =>
                 units[q.tenant][list[i]].unit_number <= units[q.tenant][list[j]].unit_number
  <1>0. q.tenant \in Tenants
    BY DEF Queries
  <1>1. UnitsShown(q) \in SUBSET StoredUnits(q.tenant)
    BY DEF UnitsShown, StoredUnits
  <1>2. IsFiniteSet(UnitsShown(q))
    BY <1>0, <1>1, UnitsFinite, FS_Subset
  <1>3. /\ list \in SetToSeqs(UnitsShown(q))
        /\ \A i, j \in DOMAIN list : i < j =>
              units[q.tenant][list[i]].unit_number <= units[q.tenant][list[j]].unit_number
    BY DEF Listings, UnitLists
  <1>4. /\ list \in Seq(UnitsShown(q)) /\ ToSet(list) = UnitsShown(q)
        /\ Len(list) = Cardinality(UnitsShown(q))
        /\ \A i, j \in 1..Len(list) : list[i] = list[j] => i = j
    BY <1>2, <1>3, ListedOnce
  <1>5. DOMAIN list = 1..Len(list)
    BY <1>4
  <1> QED
    BY <1>1, <1>3, <1>4, <1>5

\* Without the filter all units are shown.
LEMMA UnitsPlain ==
    ASSUME NEW q \in Queries, ~q.activeOnly
    PROVE  UnitsShown(q) = StoredUnits(q.tenant)
  BY DEF UnitsShown, StoredUnits

\* Where no two units have one number, each is in the list behind as many as have a
\* smaller one.
LEMMA UnitPlace ==
    ASSUME TypeOK, NEW q \in Queries, q.of = "units", ~q.activeOnly, ~Tied(q.tenant),
           NEW list \in Listings(q), NEW i \in 1..Len(list)
    PROVE  Cardinality(Upto(q.tenant, list[i])) = i
  <1> DEFINE t == q.tenant
             S == StoredUnits(t)
             num(p) == units[t][p].unit_number
             U == Upto(t, list[i])
             g == [j \in 1..i |-> list[j]]
  <1>0. t \in Tenants
    BY DEF Queries
  <1>1. /\ list \in Seq(S) /\ ToSet(list) = S /\ Len(list) \in Nat
        /\ \A j, k \in 1..Len(list) : list[j] = list[k] => j = k
        /\ \A j, k \in 1..Len(list) : j < k => num(list[j]) <= num(list[k])
    BY UnitListing, UnitsPlain
  <1>2. \A p \in S : num(p) \in Nat
    BY <1>0, UnitsFinite
  <1>3. \A p, o \in S : num(p) = num(o) => p = o
    BY DEF Tied, StoredUnits
  <1>4. U = {p \in S : num(p) <= num(list[i])}
    BY DEF Upto
  <1>5. \A p \in S : \E j \in 1..Len(list) : list[j] = p
    BY <1>1 DEF ToSet
  <1> HIDE DEF S, num, U
  <1>6. ASSUME NEW p \in U PROVE \E j \in 1..i : list[j] = p
    <2>1. PICK j \in 1..Len(list) : list[j] = p
      BY <1>4, <1>5
    <2>2. list[i] \in S /\ p \in S /\ num(p) <= num(list[i])
      BY <1>1, <1>4
    <2>3. ASSUME i < j PROVE FALSE
      <3>1. num(list[i]) <= num(p)
        BY <1>1, <2>1, <2>3
      <3>2. num(list[i]) = num(p)
        BY <1>2, <2>2, <3>1
      <3>3. i = j
        BY <1>1, <1>3, <2>1, <2>2, <3>2
      <3> QED
        BY <2>3, <3>3
    <2> QED
      BY <1>1, <2>1, <2>3
  <1>7. \A j \in 1..i : j \in 1..Len(list) /\ list[j] \in U
    <2> SUFFICES ASSUME NEW j \in 1..i PROVE j \in 1..Len(list) /\ list[j] \in U
      OBVIOUS
    <2>1. j \in 1..Len(list) /\ list[j] \in S /\ list[i] \in S
      BY <1>1
    <2>2. num(list[j]) <= num(list[i])
      <3>1. CASE j = i
        BY <1>2, <2>1, <3>1
      <3>2. CASE j < i
        BY <1>1, <2>1, <3>2
      <3> QED
        BY <3>1, <3>2
    <2> QED
      BY <1>4, <2>1, <2>2
  <1>8. g \in Bijection(1..i, U)
    <2>1. g \in [1..i -> U]
      BY <1>7
    <2>2. \A j, k \in 1..i : g[j] = g[k] => j = k
      BY <1>1, <1>7
    <2>3. \A p \in U : \E j \in 1..i : g[j] = p
      BY <1>6
    <2> HIDE DEF g
    <2> QED
      BY <2>1, <2>2, <2>3 DEF Bijection, Injection, Surjection, IsInjective
  <1>9. ExistsBijection(1..i, U)
    BY <1>8 DEF ExistsBijection
  <1>10. i \in Nat
    BY <1>1
  <1> QED
    BY <1>9, <1>10, FS_CountingElements DEF U

--------------------------------------------------------------------------------
\* Any list.

\* Each is a sequence of the rows it is about.
ListingsAreSeqs == \A q \in Queries : \A list \in Listings(q) : list \in Seq(RowIds)

\* Whichever is asked for, whatever its order.
LEMMA ListingIsSeq == TypeOK => ListingsAreSeqs
  <1> SUFFICES ASSUME TypeOK, NEW q \in Queries, NEW list \in Listings(q)
               PROVE  list \in Seq(RowIds)
    BY DEF ListingsAreSeqs
  <1>1. CASE q.of = "units"
    <2>1. q.tenant \in Tenants
      BY DEF Queries
    <2>2. list \in Seq(UnitsShown(q)) /\ UnitsShown(q) \in SUBSET RowIds
      BY <1>1, <2>1, UnitListing, UnitsFinite
    <2> QED
      BY <2>2, SeqMonotonic
  <1>2. CASE q.of # "units"
    BY <1>2, ListedIsSeq DEF ListsAreSeqs, Listings
  <1> QED
    BY <1>1, <1>2

\* How many rows the list q has without the filter.
Size(q) == IF q.of = "units" THEN Cardinality(StoredUnits(q.tenant)) ELSE Len(Listed(q))

\* The row x of the list q is behind its first k.
Further(q, x, k) ==
    IF q.of = "units" THEN x \in StoredUnits(q.tenant) /\ k < Cardinality(Upto(q.tenant, x))
    ELSE \E i \in 1..Len(Listed(q)) : k < i /\ Listed(q)[i] = x

\* Each listing has that many, and all its rows are behind the first none.
LEMMA ListingFacts ==
    ASSUME TypeOK, NEW q \in Queries, ~q.activeOnly, NEW list \in Listings(q)
    PROVE  Len(list) = Size(q) /\ Size(q) \in Nat /\ \A x \in ToSet(list) : Further(q, x, 0)
  <1>0. q.tenant \in Tenants /\ list \in Seq(RowIds)
    BY ListingIsSeq DEF Queries, ListingsAreSeqs
  <1>1. CASE q.of = "units"
    <2>1. Len(list) = Size(q) /\ ToSet(list) = StoredUnits(q.tenant)
      BY <1>1, UnitListing, UnitsPlain DEF Size
    <2>2. ASSUME NEW x \in StoredUnits(q.tenant) PROVE 0 < Cardinality(Upto(q.tenant, x))
      <3>1. units[q.tenant][x].unit_number \in Nat
        BY <1>0, UnitsFinite
      <3>2. x \in Upto(q.tenant, x)
        BY <3>1 DEF Upto
      <3>3. IsFiniteSet(Upto(q.tenant, x)) /\ Cardinality(Upto(q.tenant, x)) \in Nat
        BY <1>0, UnitsFinite
      <3>4. Cardinality(Upto(q.tenant, x)) # 0
        BY <3>2, <3>3, FS_EmptySet
      <3> QED
        BY <3>3, <3>4
    <2> QED
      BY <1>0, <1>1, <2>1, <2>2 DEF Further
  <1>2. CASE q.of # "units"
    <2>1. list = Listed(q)
      BY <1>2 DEF Listings
    <2>2. Len(list) \in Nat /\ DOMAIN list = 1..Len(list)
      BY <1>0
    <2>3. \A x \in ToSet(list) : \E i \in 1..Len(list) : 0 < i /\ list[i] = x
      BY <2>2 DEF ToSet
    <2> QED
      BY <1>2, <2>1, <2>2, <2>3 DEF Further, Size
  <1> QED
    BY <1>1, <1>2

\* A row behind the first k is so in each listing, if the order is not open.
LEMMA FurtherListed ==
    ASSUME TypeOK, NEW q \in Queries, ~q.activeOnly, q.of = "units" => ~Tied(q.tenant),
           NEW list \in Listings(q), NEW k \in Nat, NEW x, Further(q, x, k)
    PROVE  \E i \in 1..Len(list) : k < i /\ list[i] = x
  <1>1. CASE q.of = "units"
    <2>1. x \in StoredUnits(q.tenant) /\ k < Cardinality(Upto(q.tenant, x))
      BY <1>1 DEF Further
    <2>2. list \in Seq(UnitsShown(q)) /\ ToSet(list) = StoredUnits(q.tenant)
      BY <1>1, UnitListing, UnitsPlain
    <2>3. PICK i \in 1..Len(list) : list[i] = x
      BY <2>1, <2>2 DEF ToSet
    <2>4. Cardinality(Upto(q.tenant, x)) = i
      BY <1>1, <2>3, UnitPlace
    <2> QED
      BY <2>1, <2>3, <2>4
  <1>2. CASE q.of # "units"
    BY <1>2 DEF Listings, Further
  <1> QED
    BY <1>1, <1>2

--------------------------------------------------------------------------------
\* How the tables change.

\* Rows are added and never removed: a project behind the others, an audit entry
\* likewise, a unit with an id that is free, a tenant anywhere.
TablesGrow ==
    /\ \A t \in Tenants : Len(projects[t]) <= Len(projects'[t])
    /\ \A t \in Tenants :
          logs'[t] = logs[t] \/ \E x \in Requests : logs'[t] = Append(logs[t], x)
    /\ \A t \in Tenants, p \in UnitIds : Stored(t, p) => Stored(t, p)'
    /\ \/ tenants' = tenants
       \/ \E t \in Tenants, k \in 1..Len(tenants) + 1 : tenants' = InsertAt(tenants, k, t)

\* A list of one order that hides nothing only grows.
LEMMA ListedGrows ==
    ASSUME TypeOK, TypeOK', TablesGrow, NEW q \in Queries, q.of # "units", ~q.activeOnly
    PROVE  Grows(Listed(q), Listed(q)')
  <1> DEFINE t == q.tenant
  <1>0. PlainLists /\ PlainLists'
    BY ListedPlain, PTL
  <1>1. q.of \in Lists /\ t \in Tenants
    BY DEF Queries
  <1>2. CASE q.of = "projects"
    <2> DEFINE m == Len(projects[t])
               n == Len(projects'[t])
               Ids(k) == [i \in 1..k |-> i]
    <2>1. m \in Nat /\ n \in Nat /\ m <= n
      BY <1>1 DEF TablesGrow, TypeOK, CatalogTypeOK
    <2>2. Listed(q) = Reverse(Ids(m)) /\ Listed(q)' = Reverse(Ids(n))
      BY <1>0, <1>2 DEF PlainLists
    <2> HIDE DEF m, n
    <2>3. \A k \in Nat : /\ Len(Reverse(Ids(k))) = k
                         /\ \A i \in 1..k : Reverse(Ids(k))[i] = k - i + 1
      <3> SUFFICES ASSUME NEW k \in Nat
                   PROVE  /\ Len(Reverse(Ids(k))) = k
                          /\ \A i \in 1..k : Reverse(Ids(k))[i] = k - i + 1
        OBVIOUS
      <3>1. Ids(k) \in Seq(Nat) /\ Len(Ids(k)) = k /\ \A i \in 1..k : Ids(k)[i] = i
        OBVIOUS
      <3>2. \A i \in 1..k : k - i + 1 \in 1..k
        OBVIOUS
      <3> HIDE DEF Ids
      <3>3. /\ Len(Reverse(Ids(k))) = Len(Ids(k))
            /\ \A i \in 1..Len(Ids(k)) : Reverse(Ids(k))[i] = Ids(k)[Len(Ids(k)) - i + 1]
        BY <3>1, ReverseIsSeq
      <3> QED
        BY <3>1, <3>2, <3>3
    <2>4. ASSUME NEW i \in 1..m
          PROVE  i + (n - m) \in 1..n /\ i <= i + (n - m) /\ n - (i + (n - m)) + 1 = m - i + 1
      BY <2>1
    <2> HIDE DEF Ids
    <2>5. Len(Reverse(Ids(m))) = m /\ Len(Reverse(Ids(n))) = n
      BY <2>1, <2>3
    <2>6. ASSUME NEW i \in 1..m
          PROVE  Reverse(Ids(n))[i + (n - m)] = Reverse(Ids(m))[i]
      BY <2>1, <2>3, <2>4
    <2>7. Grows(Reverse(Ids(m)), Reverse(Ids(n)))
      BY <2>4, <2>5, <2>6 DEF Grows
    <2> QED
      BY <2>2, <2>7
  <1>4. CASE q.of = "logs"
    <2>1. Listed(q) = Reverse(logs[t]) /\ Listed(q)' = Reverse(logs'[t])
      BY <1>0, <1>4 DEF PlainLists
    <2>2. logs[t] \in Seq(Requests)
      BY <1>1 DEF TypeOK, CatalogTypeOK
    <2>3. logs'[t] = logs[t] \/ \E x \in Requests : logs'[t] = Append(logs[t], x)
      BY <1>1 DEF TablesGrow
    <2>4. Reverse(logs[t]) \in Seq(Requests)
      BY <2>2, ReverseIsSeq
    <2> QED
      BY <2>1, <2>2, <2>3, <2>4, SameGrows, AppendGrows
  <1>5. CASE q.of = "tenants"
    <2>1. Listed(q) = Reverse(tenants) /\ Listed(q)' = Reverse(tenants')
      BY <1>0, <1>5 DEF PlainLists
    <2>2. tenants \in Seq(Tenants)
      BY DEF TypeOK
    <2>3. \/ tenants' = tenants
          \/ \E x \in Tenants, k \in 1..Len(tenants) + 1 : tenants' = InsertAt(tenants, k, x)
      BY DEF TablesGrow
    <2>4. Reverse(tenants) \in Seq(Tenants)
      BY <2>2, ReverseIsSeq
    <2> QED
      BY <2>1, <2>2, <2>3, <2>4, SameGrows, InsertGrows
  <1> QED
    BY <1>1, <1>2, <1>4, <1>5 DEF Lists

\* No unit of t is given another number.
KeepsNumbers(t) ==
    \A p \in StoredUnits(t) : units'[t][p].unit_number = units[t][p].unit_number

\* Then a row behind the first k stays behind as many, whatever is added.
LEMMA FurtherStays ==
    ASSUME TypeOK, TypeOK', TablesGrow, NEW q \in Queries, ~q.activeOnly,
           q.of = "units" => KeepsNumbers(q.tenant), NEW k \in Nat, NEW x, Further(q, x, k)
    PROVE  Further(q, x, k)'
  <1>0. q.tenant \in Tenants
    BY DEF Queries
  <1>1. CASE q.of = "units"
    <2> DEFINE t == q.tenant
               U == Upto(t, x)
               V == Upto(t, x)'
    <2>1. x \in StoredUnits(t) /\ k < Cardinality(U)
      BY <1>1 DEF Further
    <2>2. StoredUnits(t) \subseteq StoredUnits(t)'
      BY <1>0 DEF StoredUnits, TablesGrow
    <2>3. U \subseteq V
      BY <1>1, <2>1, <2>2 DEF KeepsNumbers, Upto
    <2>4. IsFiniteSet(V) /\ Cardinality(V) \in Nat
      <3>1. CountableUnits'
        BY UnitsCountable, PTL
      <3> QED
        BY <1>0, <2>1, <2>2, <3>1 DEF CountableUnits
    <2>5. Cardinality(U) \in Nat
      BY <1>0, <2>1, UnitsFinite
    <2>6. Cardinality(U) <= Cardinality(V)
      BY <2>3, <2>4, FS_Subset
    <2>7. k < Cardinality(V)
      <3> HIDE DEF U, V
      <3> QED
        BY <2>1, <2>4, <2>5, <2>6
    <2> QED
      BY <1>1, <2>1, <2>2, <2>7 DEF Further
  <1>2. CASE q.of # "units"
    <2> DEFINE L == Listed(q)
               M == Listed(q)'
    <2>1. Len(L) \in Nat /\ Len(M) \in Nat
      <3>1. ListsAreSeqs /\ ListsAreSeqs'
        BY ListedIsSeq, PTL
      <3> QED
        BY <1>2, <3>1 DEF ListsAreSeqs
    <2>2. Grows(L, M)
      BY <1>2, ListedGrows
    <2>3. PICK i \in 1..Len(L) : k < i /\ L[i] = x
      BY <1>2 DEF Further
    <2> HIDE DEF L, M
    <2>4. PICK j \in 1..Len(M) : i <= j /\ M[j] = L[i]
      BY <2>2 DEF Grows
    <2>5. k < j /\ M[j] = x
      BY <2>1, <2>3, <2>4
    <2> USE DEF M
    <2> QED
      BY <1>2, <2>5 DEF Further
  <1> QED
    BY <1>1, <1>2

\* There are no fewer rows than there were.
LEMMA SizeGrows ==
    ASSUME TypeOK, TypeOK', TablesGrow, NEW q \in Queries, ~q.activeOnly
    PROVE  Size(q) \in Nat /\ Size(q)' \in Nat /\ Size(q) <= Size(q)'
  <1>0. q.tenant \in Tenants
    BY DEF Queries
  <1>1. CASE q.of = "units"
    <2> DEFINE t == q.tenant
    <2>1. IsFiniteSet(StoredUnits(t)) /\ Cardinality(StoredUnits(t)) \in Nat
      BY <1>0, UnitsFinite
    <2>2. IsFiniteSet(StoredUnits(t)') /\ Cardinality(StoredUnits(t)') \in Nat
      <3>1. CountableUnits'
        BY UnitsCountable, PTL
      <3> QED
        BY <1>0, <3>1 DEF CountableUnits
    <2>3. StoredUnits(t) \in SUBSET StoredUnits(t)'
      BY <1>0 DEF StoredUnits, TablesGrow
    <2>4. Cardinality(StoredUnits(t)) <= Cardinality(StoredUnits(t)')
      BY <2>2, <2>3, FS_Subset
    <2> QED
      BY <1>1, <2>1, <2>2, <2>4 DEF Size
  <1>2. CASE q.of # "units"
    <2> DEFINE L == Listed(q)
               M == Listed(q)'
    <2>1. Len(L) \in Nat /\ Len(M) \in Nat
      <3>1. ListsAreSeqs /\ ListsAreSeqs'
        BY ListedIsSeq, PTL
      <3> QED
        BY <1>2, <3>1 DEF ListsAreSeqs
    <2>2. Grows(L, M)
      BY <1>2, ListedGrows
    <2> HIDE DEF L, M
    <2>3. Len(L) <= Len(M)
      <3>1. CASE Len(L) = 0
        BY <2>1, <3>1
      <3>2. CASE Len(L) # 0
        <4>1. Len(L) \in 1..Len(L)
          BY <2>1, <3>2
        <4>2. PICK j \in 1..Len(M) : Len(L) <= j
          BY <2>2, <4>1 DEF Grows
        <4> QED
          BY <2>1, <4>2
      <3> QED
        BY <3>1, <3>2
    <2> USE DEF L, M
    <2> QED
      BY <1>2, <2>1, <2>3 DEF Size
  <1> QED
    BY <1>1, <1>2
================================================================================
