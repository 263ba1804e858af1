------------------------ MODULE StatsCollectorProofs ------------------------
(***************************************************************************)
(* Theorems about percentiles and about StatsCollector, for windows of     *)
(* every length and for any number of gets that overlap: every window can  *)
(* be sorted, and the percentile of the sorted window is the nearest-rank  *)
(* percentile of the window; the types, what the windows hold, and, where  *)
(* every request is sampled, what the counters add up to.                  *)
(***************************************************************************)
EXTENDS StatsCollector, FiniteSetTheorems, FunctionTheorems, SequenceTheorems, TLAPS

(***************************************************************************)
(* The percentile of a window.                                             *)
(***************************************************************************)

Rank(sorted, p) == CeilPercent(p, Len(sorted))
UpTo(sorted, v) == {i \in DOMAIN sorted : sorted[i] <= v}

\* The division of the code rounds up: n / 100 lies above r - 1 and not above r.
LEMMA CeilingBounds ==
  ASSUME NEW n \in Nat, NEW r, r = (n + 99) \div 100
  PROVE  r \in Nat /\ n <= 100 * r /\ 100 * r < n + 100
BY SMT

\* The index of `percentile' is inside the window, and at least 1.
LEMMA RankInWindow ==
  ASSUME NEW sorted \in Seq(Nat), sorted # <<>>, NEW p \in Percents
  PROVE  /\ Rank(sorted, p) \in DOMAIN sorted
         /\ PercentileOf(sorted, p) = sorted[Rank(sorted, p)]
         /\ p * Len(sorted) <= 100 * Rank(sorted, p)
         /\ 100 * Rank(sorted, p) < p * Len(sorted) + 100
<1> DEFINE n == Len(sorted)
           m == p * n
           r == Rank(sorted, p)
<1>1. n \in Nat /\ n >= 1 /\ DOMAIN sorted = 1 .. n /\ p \in 1 .. 100
  BY DEF Percents
<1>2. m \in Nat /\ m >= 1 /\ m <= 100 * n
  <2>1. p * n \in Nat
    BY <1>1, SMT
  <2>2. p * n >= p
    BY <1>1, SMT
  <2>3. p * n <= 100 * n
    BY <1>1, SMT
  <2>4. p >= 1
    BY DEF Percents
  <2> QED BY <1>1, <2>1, <2>2, <2>3, <2>4
<1>3. r = (m + 99) \div 100
  BY DEF Rank, CeilPercent
<1>4. r \in Nat /\ m <= 100 * r /\ 100 * r < m + 100
  <2> HIDE DEF m, r
  <2> QED BY <1>2, <1>3, CeilingBounds
<1>5. r \in 1 .. n
  <2> HIDE DEF m, r, n
  <2> QED BY <1>1, <1>2, <1>4, SMT
<1>6. PercentileOf(sorted, p) = sorted[r]
  <2>1. r # 0
    BY <1>5
  <2> QED BY <2>1 DEF PercentileOf, Rank
<1> QED BY <1>1, <1>4, <1>5, <1>6

\* In a sorted window of any length, what `percentile' returns for 50, 95 and 99 is a
\* sample, at least p percent of the samples do not exceed it, and it is the least
\* sample of which that is so.
THEOREM PercentileIsNearestRank ==
  ASSUME NEW sorted \in Seq(Nat), sorted # <<>>, NEW p \in Percents,
         \A i, j \in DOMAIN sorted : i <= j => sorted[i] <= sorted[j]
  PROVE  IsPercentile(sorted, p, PercentileOf(sorted, p))
<1> DEFINE n == Len(sorted)
           m == p * n
           r == Rank(sorted, p)
           v == sorted[r]
<1>1. /\ r \in DOMAIN sorted
      /\ PercentileOf(sorted, p) = v
      /\ m <= 100 * r
      /\ 100 * r < m + 100
  BY RankInWindow
<1>2. n \in Nat /\ DOMAIN sorted = 1 .. n /\ r \in Nat /\ r >= 1 /\ r <= n
  BY <1>1
<1>3. m \in Nat
  BY <1>2, SMT DEF Percents
<1>4. \A w : IsFiniteSet(UpTo(sorted, w))
  <2>1. IsFiniteSet(1 .. n)
    BY <1>2, FS_Interval
  <2>2. \A w : UpTo(sorted, w) \in SUBSET (1 .. n)
    BY <1>2 DEF UpTo
  <2> HIDE DEF n
  <2> QED BY <2>1, <2>2, FS_Subset
<1> HIDE DEF m, r
\* r samples stand at or before the rank.
<1>5. Cardinality(UpTo(sorted, v)) >= r
  <2>1. 1 .. r \subseteq UpTo(sorted, v)
    BY <1>1, <1>2 DEF UpTo
  <2>2. Cardinality(1 .. r) = r
    BY <1>2, FS_Interval
  <2>3. Cardinality(1 .. r) <= Cardinality(UpTo(sorted, v))
    BY <2>1, <1>4, FS_Subset
  <2> QED BY <2>2, <2>3
<1>6. Covers(sorted, p, v)
  <2>1. Cardinality(UpTo(sorted, v)) \in Nat
    BY <1>4, FS_CardinalityType
  <2>2. 100 * Cardinality(UpTo(sorted, v)) >= m
    BY <2>1, <1>1, <1>2, <1>3, <1>5, SMT
  <2> QED BY <2>2 DEF Covers, UpTo, m
\* A smaller sample has fewer than r samples at or below it.
<1>7. ASSUME NEW i \in DOMAIN sorted, Covers(sorted, p, sorted[i])
      PROVE  v <= sorted[i]
  <2> SUFFICES ASSUME sorted[i] < v PROVE FALSE
    BY <1>1, <1>2
  <2>1. UpTo(sorted, sorted[i]) \subseteq 1 .. (r - 1)
    <3> SUFFICES ASSUME NEW j \in UpTo(sorted, sorted[i]), j >= r PROVE FALSE
      BY <1>2 DEF UpTo
    <3>1. v <= sorted[j] /\ sorted[j] <= sorted[i]
      BY <1>1, <1>2 DEF UpTo
    <3> QED BY <3>1, <1>1, <1>2 DEF UpTo
  <2>2. Cardinality(1 .. (r - 1)) = r - 1 /\ IsFiniteSet(1 .. (r - 1))
    <3> DEFINE q == r - 1
    <3>1. q \in Int /\ 1 \in Int /\ (IF 1 > q THEN 0 ELSE q - 1 + 1) = q
      BY <1>2
    <3> HIDE DEF q
    <3>2. Cardinality(1 .. q) = q /\ IsFiniteSet(1 .. q)
      BY <3>1, FS_Interval
    <3> QED BY <3>2 DEF q
  <2>3. Cardinality(UpTo(sorted, sorted[i])) <= r - 1
    BY <2>1, <2>2, FS_Subset
  <2>4. Cardinality(UpTo(sorted, sorted[i])) \in Nat
    BY <1>4, FS_CardinalityType
  <2>5. 100 * Cardinality(UpTo(sorted, sorted[i])) >= m
    BY <1>7 DEF Covers, UpTo, m
  <2> QED BY <2>3, <2>4, <2>5, <1>1, <1>2, <1>3, SMT
<1> QED BY <1>1, <1>6, <1>7 DEF IsPercentile

-----------------------------------------------------------------------------
(***************************************************************************)
(* Induction.  The inclusion of finite sets is well-founded, so the finite *)
(* sets and the numbers not in a given set have a least one.               *)
(***************************************************************************)

\* A set of finite sets is not empty only if it has a minimal one.
LEMMA MinimalSet ==
  ASSUME NEW S, NEW T, T \subseteq FiniteSubsetsOf(S), T # {}
  PROVE  \E X \in T : \A Y \in T : ~ (Y \subseteq X /\ Y # X)
<1>1. PICK X \in T : \A Y \in T : ~ (<<Y, X>> \in StrictSubsetOrdering(S))
  BY FS_StrictSubsetOrderingWellFounded, WFMin
<1>2. ASSUME NEW Y \in T, Y \subseteq X, Y # X
      PROVE  <<Y, X>> \in StrictSubsetOrdering(S)
  BY <1>2 DEF StrictSubsetOrdering, FiniteSubsetsOf
<1>3. \A Y \in T : ~ (Y \subseteq X /\ Y # X)
  BY <1>1, <1>2
<1> QED BY <1>3

\* A set of numbers that is not empty has a least one.
LEMMA LeastNumber ==
  ASSUME NEW T, T \subseteq Nat, T # {}
  PROVE  \E n \in T : \A m \in T : n <= m
<1> DEFINE Below == {1 .. n : n \in T}
<1>1. \A n \in Nat : 1 .. n \in FiniteSubsetsOf(Nat)
  BY FS_Interval DEF FiniteSubsetsOf
<1>2. Below \subseteq FiniteSubsetsOf(Nat) /\ Below # {}
  BY <1>1
<1>3. PICK X \in Below : \A Y \in Below : ~ (Y \subseteq X /\ Y # X)
  <2> HIDE DEF Below
  <2> QED BY <1>2, MinimalSet
<1>4. PICK n \in T : X = 1 .. n
  OBVIOUS
<1>5. ASSUME NEW m \in T, m < n
      PROVE  FALSE
  <2>1. m \in Nat /\ n \in Nat
    OBVIOUS
  <2>2. 1 .. m \subseteq 1 .. n /\ n \in 1 .. n /\ n \notin 1 .. m
    BY <1>5, <2>1
  <2> QED BY <2>2, <1>3, <1>4
<1>6. \A m \in T : n <= m
  BY <1>5
<1> QED BY <1>6

\* What holds of 0, and of each number if of the one before, holds of all.
LEMMA Counting ==
  ASSUME NEW G, 0 \in G, \A n \in Nat : n \in G => n + 1 \in G
  PROVE  Nat \subseteq G
<1> SUFFICES ASSUME Nat \ G # {} PROVE FALSE
  OBVIOUS
<1>1. PICK n \in Nat \ G : \A m \in Nat \ G : n <= m
  BY LeastNumber
<1>2. n # 0
  OBVIOUS
<1>3. n - 1 \in Nat /\ n - 1 \in G
  BY <1>1, <1>2
<1>4. (n - 1) + 1 \in G
  BY <1>3
<1> QED BY <1>1, <1>4

-----------------------------------------------------------------------------
(***************************************************************************)
(* Sorting.                                                                *)
(***************************************************************************)

\* An order of all but the last sample extends to one of all: the last one goes
\* before the first that exceeds it.
LEMMA OrderExtends ==
  ASSUME NEW arr \in Seq(Nat), NEW n \in Nat, Len(arr) = n + 1,
         NEW b \in Seq(Nat), Len(b) = n, \A i \in 1 .. n : b[i] = arr[i],
         NEW q \in Orders(b)
  PROVE  \E p : p \in Orders(arr)
<1> DEFINE D == 1 .. n
           E == 1 .. n + 1
           x == arr[n + 1]
           Over == {i \in E : i = n + 1 \/ arr[q[i]] > x}
<1>1. DOMAIN arr = E /\ DOMAIN b = D /\ (\A i \in E : arr[i] \in Nat) /\ x \in Nat
  OBVIOUS
<1>2. /\ q \in Bijection(D, D)
      /\ \A i, j \in D : i < j => b[q[i]] <= b[q[j]]
  BY <1>1 DEF Orders
<1>3. /\ q \in [D -> D]
      /\ \A i, j \in D : q[i] = q[j] => i = j
      /\ \A k \in D : \E i \in D : q[i] = k
  <2> HIDE DEF D
  <2> QED BY <1>2, Fun_BijectionProperties, Fun_InjectionProperties, Fun_SurjectionProperties
<1>4. \A i \in D : q[i] \in D /\ q[i] # n + 1 /\ q[i] \in E /\ i \in E
  BY <1>3
<1>5. \A i, j \in D : i < j => arr[q[i]] <= arr[q[j]]
  BY <1>2, <1>3
<1>6. PICK m \in Over : \A i \in Over : m <= i
  <2>1. Over \subseteq Nat /\ n + 1 \in Over
    OBVIOUS
  <2> HIDE DEF Over
  <2> QED BY <2>1, LeastNumber
<1>7. /\ m \in E
      /\ \A i \in D : i < m => arr[q[i]] <= x
      /\ \A i \in D : m <= i => arr[q[i]] > x
  <2>1. m \in E /\ (m = n + 1 \/ arr[q[m]] > x)
    OBVIOUS
  <2>2. ASSUME NEW i \in D, i < m PROVE arr[q[i]] <= x
    <3>1. i \notin Over /\ i \in E
      BY <1>6, <2>1, <2>2
    <3>2. q[i] \in E
      BY <1>3
    <3> QED BY <1>1, <3>1, <3>2
  <2>3. ASSUME NEW i \in D, m <= i PROVE arr[q[i]] > x
    <3>1. m \in D /\ arr[q[m]] > x
      BY <2>1, <2>3
    <3>2. arr[q[i]] \in Nat /\ arr[q[m]] \in Nat /\ arr[q[m]] <= arr[q[i]]
      <4>1. q[i] \in E /\ q[m] \in E
        BY <1>4, <3>1
      <4>2. m < i => arr[q[m]] <= arr[q[i]]
        BY <1>5, <3>1
      <4>3. m = i \/ m < i
        BY <2>3, <3>1
      <4> QED BY <1>1, <4>1, <4>2, <4>3
    <3> QED BY <1>1, <3>1, <3>2
  <2> QED BY <2>1, <2>2, <2>3
<1> DEFINE p == [i \in E |-> IF i < m THEN q[i] ELSE IF i = m THEN n + 1 ELSE q[i - 1]]
<1> HIDE DEF Over, x
<1>8. /\ \A i \in E : i < m => i \in D /\ p[i] = q[i]
      /\ p[m] = n + 1
      /\ \A i \in E : i > m => i - 1 \in D /\ m <= i - 1 /\ p[i] = q[i - 1]
      /\ \A i \in E : i < m \/ i = m \/ i > m
  BY <1>7
<1>9. p \in [E -> E]
  <2>1. \A i \in E : p[i] \in E
    BY <1>8, <1>4
  <2> QED BY <2>1
<1> HIDE DEF p
<1>10. ASSUME NEW i \in E, NEW j \in E, p[i] = p[j]
       PROVE  i = j
  <2>1. CASE i < m
    <3>1. i \in D /\ p[i] = q[i] /\ q[i] # n + 1
      BY <2>1, <1>8, <1>4
    <3>2. CASE j < m
      <4>1. j \in D /\ q[j] = q[i]
        BY <3>1, <3>2, <1>8, <1>10
      <4> QED BY <3>1, <4>1, <1>3
    <3>3. CASE j > m
      <4>1. j - 1 \in D /\ q[j - 1] = q[i] /\ m <= j - 1
        BY <3>1, <3>3, <1>8, <1>10
      <4>2. i = j - 1
        BY <3>1, <4>1, <1>3
      <4> QED BY <2>1, <4>1, <4>2, <1>7
    <3> QED BY <3>1, <3>2, <3>3, <1>8, <1>10
  <2>2. CASE i = m
    <3>1. p[j] = n + 1
      BY <2>2, <1>8, <1>10
    <3>2. ~(j < m)
      BY <3>1, <1>8, <1>4
    <3>3. ~(j > m)
      BY <3>1, <1>8, <1>4
    <3> QED BY <2>2, <3>2, <3>3, <1>8
  <2>3. CASE i > m
    <3>1. i - 1 \in D /\ p[i] = q[i - 1] /\ q[i - 1] # n + 1 /\ m <= i - 1
      BY <2>3, <1>8, <1>4
    <3>2. CASE j < m
      <4>1. j \in D /\ q[j] = q[i - 1]
        BY <3>1, <3>2, <1>8, <1>10
      <4>2. j = i - 1
        BY <3>1, <4>1, <1>3
      <4> QED BY <3>1, <3>2, <4>2, <1>7
    <3>3. CASE j > m
      <4>1. j - 1 \in D /\ q[j - 1] = q[i - 1]
        BY <3>1, <3>3, <1>8, <1>10
      <4>2. j - 1 = i - 1
        BY <3>1, <4>1, <1>3
      <4> QED BY <4>2
    <3> QED BY <3>1, <3>2, <3>3, <1>8, <1>10
  <2> QED BY <2>1, <2>2, <2>3, <1>8
<1>11. ASSUME NEW k \in E
       PROVE  \E i \in E : p[i] = k
  <2>1. CASE k = n + 1
    BY <2>1, <1>7, <1>8
  <2>2. CASE k \in D
    <3>1. PICK i \in D : q[i] = k
      BY <2>2, <1>3
    <3>2. CASE i < m
      <4>1. i \in E /\ p[i] = q[i]
        BY <3>2, <1>8, <1>4
      <4> QED BY <3>1, <4>1
    <3>3. CASE i >= m
      <4>1. i + 1 \in E /\ i + 1 > m /\ (i + 1) - 1 = i
        BY <3>3, <1>7
      <4>2. p[i + 1] = k
        BY <3>1, <4>1, <1>8
      <4> QED BY <4>1, <4>2
    <3> QED BY <3>2, <3>3, <1>7
  <2> QED BY <2>1, <2>2
<1>12. p \in Bijection(E, E)
  <2>1. p \in Injection(E, E)
    <3> HIDE DEF E
    <3> QED BY <1>9, <1>10, Fun_IsInj
  <2>2. p \in Surjection(E, E)
    <3> HIDE DEF E
    <3> QED BY <1>9, <1>11, Fun_IsSurj
  <2> QED BY <2>1, <2>2 DEF Bijection
<1>13. ASSUME NEW i \in E, NEW j \in E, i < j
       PROVE  arr[p[i]] <= arr[p[j]]
  <2>1. CASE j < m
    <3>1. i < m
      BY <2>1, <1>7, <1>13
    <3>2. i \in D /\ j \in D /\ p[i] = q[i] /\ p[j] = q[j]
      BY <2>1, <3>1, <1>8
    <3> QED BY <3>2, <1>5, <1>13
  <2>2. CASE j = m
    BY <2>2, <1>7, <1>8, <1>13 DEF x
  <2>3. CASE i < m /\ j > m
    <3>1. arr[q[i]] <= x /\ arr[q[j - 1]] > x /\ p[i] = q[i] /\ p[j] = q[j - 1]
      BY <2>3, <1>7, <1>8
    <3>2. arr[q[i]] \in Nat /\ arr[q[j - 1]] \in Nat
      BY <2>3, <1>1, <1>8, <1>4
    <3> QED BY <3>1, <3>2, <1>1
  <2>4. CASE i = m
    <3>1. j > m /\ arr[p[j]] > x /\ p[i] = n + 1
      BY <2>4, <1>7, <1>8, <1>13
    <3>2. arr[p[j]] \in Nat
      BY <1>1, <1>9
    <3> QED BY <3>1, <3>2, <1>1 DEF x
  <2>5. CASE i > m
    <3>1. i - 1 \in D /\ j - 1 \in D /\ i - 1 < j - 1 /\ p[i] = q[i - 1] /\ p[j] = q[j - 1]
      BY <2>5, <1>7, <1>8, <1>13
    <3> QED BY <3>1, <1>5
  <2> QED BY <2>1, <2>2, <2>3, <2>4, <2>5, <1>7, <1>13
<1> QED BY <1>1, <1>12, <1>13 DEF Orders

\* So every window can be sorted.
LEMMA HasOrder ==
  ASSUME NEW arr \in Seq(Nat)
  PROVE  \E p : p \in Orders(arr)
<1> DEFINE G == {n \in Nat : \A a \in Seq(Nat) : Len(a) = n => \E p : p \in Orders(a)}
<1>1. 0 \in G
  <2> SUFFICES ASSUME NEW a \in Seq(Nat), Len(a) = 0 PROVE \E p : p \in Orders(a)
    OBVIOUS
  <2> DEFINE f == [i \in {} |-> 0]
  <2>1. DOMAIN a = {} /\ f \in [{} -> {}]
    OBVIOUS
  <2> HIDE DEF f
  <2>2. f \in Bijection({}, {})
    <3>1. f \in Injection({}, {})
      BY <2>1, Fun_IsInj
    <3>2. f \in Surjection({}, {})
      BY <2>1, Fun_IsSurj
    <3> QED BY <3>1, <3>2 DEF Bijection
  <2> QED BY <2>1, <2>2 DEF Orders
<1>2. ASSUME NEW n \in Nat, n \in G
      PROVE  n + 1 \in G
  <2> SUFFICES ASSUME NEW a \in Seq(Nat), Len(a) = n + 1 PROVE \E p : p \in Orders(a)
    OBVIOUS
  <2> DEFINE b == [i \in 1 .. n |-> a[i]]
  <2>1. b \in Seq(Nat) /\ Len(b) = n /\ \A i \in 1 .. n : b[i] = a[i]
    OBVIOUS
  <2> HIDE DEF b
  <2>2. \E q : q \in Orders(b)
    BY <1>2, <2>1
  <2> QED BY <2>1, <2>2, OrderExtends
<1>3. Len(arr) \in G
  <2>1. Nat \subseteq G
    <3> HIDE DEF G
    <3> QED BY <1>1, <1>2, Counting
  <2> QED BY <2>1
<1> QED BY <1>3

\* The sorted window holds the same samples, as many of them up to each value,
\* in ascending order.
LEMMA SortedIs ==
  ASSUME NEW arr \in Seq(Nat)
  PROVE  /\ Sorted(arr) \in Seq(Nat) /\ Len(Sorted(arr)) = Len(arr)
         /\ \A i, j \in DOMAIN arr : i <= j => Sorted(arr)[i] <= Sorted(arr)[j]
         /\ \A i \in DOMAIN arr : \E j \in DOMAIN arr : Sorted(arr)[i] = arr[j]
         /\ \A j \in DOMAIN arr : \E i \in DOMAIN arr : Sorted(arr)[i] = arr[j]
         /\ \A v : Cardinality(UpTo(Sorted(arr), v)) = Cardinality(UpTo(arr, v))
<1> DEFINE p == CHOOSE q \in Orders(arr) : TRUE
           D == DOMAIN arr
           s == Sorted(arr)
<1>1. p \in Orders(arr)
  BY HasOrder
<1>2. s = [i \in D |-> arr[p[i]]]
  BY DEF Sorted
<1>3. Len(arr) \in Nat /\ D = 1 .. Len(arr) /\ \A i \in D : arr[i] \in Nat
  OBVIOUS
<1> HIDE DEF p, D, s
<1>4. p \in Bijection(D, D) /\ \A i, j \in D : i < j => arr[p[i]] <= arr[p[j]]
  BY <1>1 DEF Orders, D
<1>5. /\ p \in [D -> D]
      /\ \A i, j \in D : p[i] = p[j] => i = j
      /\ \A k \in D : \E i \in D : p[i] = k
  BY <1>4, Fun_BijectionProperties, Fun_InjectionProperties, Fun_SurjectionProperties
<1>6. \A i \in D : s[i] = arr[p[i]] /\ s[i] \in Nat
  BY <1>2, <1>3, <1>5
<1>7. s \in Seq(Nat) /\ Len(s) = Len(arr) /\ DOMAIN s = D
  BY <1>2, <1>3, <1>6
<1>8. ASSUME NEW i \in D, NEW j \in D, i <= j
      PROVE  s[i] <= s[j]
  <2>1. CASE i = j
    BY <2>1, <1>6
  <2>2. CASE i < j
    BY <2>2, <1>4, <1>6
  <2> QED BY <2>1, <2>2, <1>3, <1>8
<1>9. ASSUME NEW v
      PROVE  Cardinality(UpTo(s, v)) = Cardinality(UpTo(arr, v))
  <2> DEFINE A == UpTo(s, v)
             B == UpTo(arr, v)
             f == [i \in A |-> p[i]]
  <2>1. /\ A \in SUBSET D /\ B \in SUBSET D /\ IsFiniteSet(D)
        /\ \A i \in D : i \in A <=> p[i] \in B
    <3>1. IsFiniteSet(1 .. Len(arr))
      BY <1>3, FS_Interval
    <3> QED BY <3>1, <1>3, <1>5, <1>6, <1>7 DEF UpTo, D
  <2> HIDE DEF A, B
  <2>2. IsFiniteSet(A)
    BY <2>1, FS_Subset
  <2>3. f \in [A -> B]
    BY <2>1
  <2>4. (\A i, j \in A : f[i] = f[j] => i = j) /\ \A k \in B : \E i \in A : f[i] = k
    BY <2>1, <1>5
  <2> HIDE DEF f
  <2>5. f \in Bijection(A, B)
    <3>1. f \in Injection(A, B)
      BY <2>3, <2>4, Fun_IsInj
    <3>2. f \in Surjection(A, B)
      BY <2>3, <2>4, Fun_IsSurj
    <3> QED BY <3>1, <3>2 DEF Bijection
  <2>6. ExistsBijection(A, B)
    BY <2>5 DEF ExistsBijection
  <2>7. Cardinality(B) = Cardinality(A)
    BY <2>2, <2>6, FS_Bijection
  <2> QED BY <2>7 DEF A, B
<1>10. /\ \A i \in D : \E j \in D : s[i] = arr[j]
       /\ \A j \in D : \E i \in D : s[i] = arr[j]
  BY <1>5, <1>6
<1> QED BY <1>7, <1>8, <1>9, <1>10 DEF s, D

\* Of every window of any length, the p50, p95 and p99 of the sorted window are the
\* nearest-rank percentiles of the window as it was recorded.
THEOREM PercentileOfWindow ==
  ASSUME NEW arr \in Seq(Nat), arr # <<>>, NEW p \in Percents
  PROVE  IsPercentile(arr, p, PercentileOf(Sorted(arr), p))
<1> DEFINE s == Sorted(arr)
           v == PercentileOf(s, p)
<1>1. /\ s \in Seq(Nat) /\ Len(s) = Len(arr)
      /\ \A i, j \in DOMAIN arr : i <= j => s[i] <= s[j]
      /\ \A i \in DOMAIN arr : \E j \in DOMAIN arr : s[i] = arr[j]
      /\ \A j \in DOMAIN arr : \E i \in DOMAIN arr : s[i] = arr[j]
      /\ \A w : Cardinality(UpTo(s, w)) = Cardinality(UpTo(arr, w))
  BY SortedIs
<1> HIDE DEF s
<1>2. DOMAIN s = DOMAIN arr /\ s # <<>>
  BY <1>1
<1>3. IsPercentile(s, p, v)
  BY <1>1, <1>2, PercentileIsNearestRank
<1>4. \A w : Covers(s, p, w) <=> Covers(arr, p, w)
  BY <1>1 DEF Covers, UpTo
<1> HIDE DEF v
<1> QED BY <1>1, <1>2, <1>3, <1>4 DEF IsPercentile, v, s

-----------------------------------------------------------------------------
(***************************************************************************)
(* What is recorded, and when.                                             *)
(***************************************************************************)

Window == {arr \in Seq(Latency) : Len(arr) <= MaxSamples}
TypeStats == [hits : Nat, misses : Nat, latencies : Window]

\* The types, and what counting needs: finitely many gets wait, each for one layer.
Types ==
  /\ waiting \subseteq [call : Call, type : Type \cup {NoType}, on : Layer]
  /\ IsFiniteSet(waiting)
  /\ \A v, w \in waiting : v.call = w.call => v = w
  /\ count \in [Counter -> Nat]
  /\ byType \in [Type -> TypeStats]
  /\ latencies \in Window /\ l1Latencies \in Window /\ l2Latencies \in Window
  /\ recorded \in Seq(Layer \X Latency)
  /\ ops \in Nat /\ missed \in Nat /\ unasked \in Nat /\ rejected \in Nat
  /\ across \in [Layer -> Nat]

-----------------------------------------------------------------------------
(***************************************************************************)
(* Windows.                                                                *)
(***************************************************************************)

\* addLatency appends, and drops the oldest latency of a window that is full.
LEMMA AddedIs ==
  ASSUME NEW arr \in Window, NEW x \in Latency
  PROVE  /\ AddLatency(arr, x) \in Window
         /\ \/ /\ Len(arr) < MaxSamples
               /\ Len(AddLatency(arr, x)) = Len(arr) + 1
               /\ \A i \in DOMAIN arr : AddLatency(arr, x)[i] = arr[i]
               /\ AddLatency(arr, x)[Len(arr) + 1] = x
            \/ /\ Len(arr) = MaxSamples
               /\ Len(AddLatency(arr, x)) = Len(arr)
               /\ \A i \in 1 .. Len(arr) - 1 : AddLatency(arr, x)[i] = arr[i + 1]
               /\ AddLatency(arr, x)[Len(arr)] = x
<1> DEFINE a == Append(arr, x)
<1>1. arr \in Seq(Latency) /\ Len(arr) \in Nat /\ Len(arr) <= MaxSamples /\ MaxSamples \in Nat
  BY SampleAssumption DEF Window
<1>2. /\ a \in Seq(Latency) /\ Len(a) = Len(arr) + 1
      /\ \A i \in 1 .. Len(arr) : a[i] = arr[i]
      /\ a[Len(arr) + 1] = x
  BY <1>1
<1>3. AddLatency(arr, x) = IF Len(a) > MaxSamples THEN Tail(a) ELSE a
  BY DEF AddLatency
<1> HIDE DEF a
<1>4. a # <<>>
  BY <1>1, <1>2
<1>5. /\ Tail(a) \in Seq(Latency) /\ Len(Tail(a)) = Len(arr)
      /\ \A i \in 1 .. Len(arr) : Tail(a)[i] = a[i + 1]
  BY <1>1, <1>2, <1>4, HeadTailProperties
<1>6. CASE Len(arr) < MaxSamples
  BY <1>1, <1>2, <1>3, <1>6 DEF Window
<1>7. CASE Len(arr) = MaxSamples
  <2>1. AddLatency(arr, x) = Tail(a) /\ MaxSamples >= 1
    BY <1>1, <1>2, <1>3, <1>7, SampleAssumption
  <2>2. \A i \in 1 .. Len(arr) - 1 : a[i + 1] = arr[i + 1] /\ Tail(a)[i] = a[i + 1]
    BY <1>1, <1>2, <1>5
  <2>3. Tail(a)[Len(arr)] = x
    BY <1>1, <1>2, <1>5, <1>7, <2>1
  <2>4. Tail(a) \in Window
    BY <1>5, <1>7 DEF Window
  <2> QED BY <1>5, <1>7, <2>1, <2>2, <2>3, <2>4
<1> QED BY <1>1, <1>6, <1>7

-----------------------------------------------------------------------------
(***************************************************************************)
(* Types.                                                                  *)
(***************************************************************************)

\* Counting counts.
LEMMA CountTypes ==
  ASSUME NEW names, count \in [Counter -> Nat], Count(names)
  PROVE  count' \in [Counter -> Nat]
BY DEF Count

\* What a record call does to the windows, if it samples.
LEMMA RecordTypes ==
  ASSUME Types, NEW n, NEW t, RecordL1Hit(n, t) \/ RecordL2Hit(n, t) \/ RecordL2Miss(n, t)
  PROVE  /\ byType' \in [Type -> TypeStats]
         /\ latencies' \in Window /\ l1Latencies' \in Window /\ l2Latencies' \in Window
         /\ recorded' \in Seq(Layer \X Latency)
<1>1. ASSUME NEW x \in Latency, TypeHit(t, x)
      PROVE  byType' \in [Type -> TypeStats]
  <2> SUFFICES ASSUME NEW u \in Type
               PROVE  [byType[u] EXCEPT !.hits = @ + 1, !.latencies = AddLatency(@, x)] \in TypeStats
    BY <1>1 DEF TypeHit, Types
  <2> DEFINE b == byType[u]
             arr == AddLatency(b.latencies, x)
  <2>1. b \in TypeStats
    BY DEF Types
  <2>2. arr \in Window
    BY <2>1, AddedIs DEF TypeStats
  <2> HIDE DEF b, arr
  <2>3. [b EXCEPT !.hits = b.hits + 1] \in TypeStats
    BY <2>1 DEF TypeStats
  <2>4. ASSUME NEW a \in TypeStats PROVE [a EXCEPT !.latencies = arr] \in TypeStats
    BY <2>2 DEF TypeStats
  <2>5. [[b EXCEPT !.hits = b.hits + 1] EXCEPT !.latencies = arr] \in TypeStats
    BY <2>3, <2>4
  <2> QED BY <2>5 DEF b, arr
<1>2. ASSUME TypeMiss(t)
      PROVE  byType' \in [Type -> TypeStats]
  <2> SUFFICES ASSUME NEW u \in Type
               PROVE  [byType[u] EXCEPT !.misses = @ + 1] \in TypeStats
    BY <1>2 DEF TypeMiss, Types
  <2>1. byType[u] \in TypeStats
    BY DEF Types
  <2> QED BY <2>1 DEF TypeStats
<1>3. \A x \in Latency, l \in Layer : Append(recorded, <<l, x>>) \in Seq(Layer \X Latency)
  BY DEF Types
<1>4. CASE RecordL1Hit(n, t)
  BY <1>1, <1>3, <1>4, AddedIs DEF RecordL1Hit, Types, windows, Layer
<1>5. CASE RecordL2Hit(n, t)
  BY <1>1, <1>3, <1>5, AddedIs DEF RecordL2Hit, Types, windows, Layer
<1>6. CASE RecordL2Miss(n, t)
  BY <1>2, <1>6 DEF RecordL2Miss, Types
<1> QED BY <1>4, <1>5, <1>6

\* Initially every variable has its type.
LEMMA InitTypes == Init => Types
BY FS_EmptySet, SampleAssumption
   DEF Init, Types, Zero, NoStats, TypeStats, Window, Counter

\* Of no get are there two that wait, whether it begins, moves on to L2 or ends.
LEMMA WaitingTypes ==
  ASSUME Types,
         \/ \E c \in Call, t \in Type \cup {NoType} :
              /\ Asleep(c)
              /\ waiting' = waiting \cup {[call |-> c, type |-> t, on |-> "l1"]}
         \/ \E w \in waiting : \/ waiting' = waiting \ {w}
                               \/ waiting' = (waiting \ {w}) \cup {[w EXCEPT !.on = "l2"]}
  PROVE  /\ waiting' \subseteq [call : Call, type : Type \cup {NoType}, on : Layer]
         /\ IsFiniteSet(waiting')
         /\ \A v, w \in waiting' : v.call = w.call => v = w
<1>1. ASSUME NEW c \in Call, NEW t \in Type \cup {NoType}, Asleep(c),
             waiting' = waiting \cup {[call |-> c, type |-> t, on |-> "l1"]}
      PROVE  /\ waiting' \subseteq [call : Call, type : Type \cup {NoType}, on : Layer]
             /\ IsFiniteSet(waiting')
             /\ \A v, w \in waiting' : v.call = w.call => v = w
  <2> DEFINE n == [call |-> c, type |-> t, on |-> "l1"]
  <2>1. n \in [call : Call, type : Type \cup {NoType}, on : Layer] /\ n.call = c
    BY DEF Layer
  <2> HIDE DEF n
  <2>2. waiting' = waiting \cup {n}
    BY <1>1 DEF n
  <2>3. IsFiniteSet(waiting')
    BY <2>2, FS_AddElement DEF Types
  <2> QED BY <1>1, <2>1, <2>2, <2>3 DEF Types, Asleep
<1>2. ASSUME NEW w \in waiting, waiting' = waiting \ {w}
      PROVE  /\ waiting' \subseteq [call : Call, type : Type \cup {NoType}, on : Layer]
             /\ IsFiniteSet(waiting')
             /\ \A u, v \in waiting' : u.call = v.call => u = v
  BY <1>2, FS_RemoveElement DEF Types
<1>3. ASSUME NEW w \in waiting, waiting' = (waiting \ {w}) \cup {[w EXCEPT !.on = "l2"]}
      PROVE  /\ waiting' \subseteq [call : Call, type : Type \cup {NoType}, on : Layer]
             /\ IsFiniteSet(waiting')
             /\ \A u, v \in waiting' : u.call = v.call => u = v
  <2> DEFINE n == [w EXCEPT !.on = "l2"]
  <2>1. n \in [call : Call, type : Type \cup {NoType}, on : Layer] /\ n.call = w.call
    BY DEF Layer, Types
  <2> HIDE DEF n
  <2>2. waiting' = (waiting \ {w}) \cup {n}
    BY <1>3 DEF n
  <2>3. IsFiniteSet(waiting \ {w})
    BY FS_RemoveElement DEF Types
  <2>4. IsFiniteSet(waiting')
    BY <2>2, <2>3, FS_AddElement
  <2> QED BY <2>1, <2>2, <2>4 DEF Types
<1> QED BY <1>1, <1>2, <1>3

\* The gets that wait for a layer are finitely many.
LEMMA WaitingForFinite ==
  ASSUME Types, NEW l
  PROVE  IsFiniteSet(WaitingFor(l)) /\ Cardinality(WaitingFor(l)) \in Nat
<1>1. WaitingFor(l) \in SUBSET waiting
  BY DEF WaitingFor
<1> QED BY <1>1, FS_Subset, FS_CardinalityType DEF Types

\* Every step keeps the types.
LEMMA StepTypes == Types /\ [Next]_vars => Types'
<1> SUFFICES ASSUME Types, [Next]_vars PROVE Types'
  OBVIOUS
<1>1. ASSUME NEW c \in Call, NEW t \in Type \cup {NoType}, Get(c, t)
      PROVE  Types'
  <2>1. count' \in [Counter -> Nat]
    BY <1>1, CountTypes DEF Get, Types
  <2>2. /\ waiting' \subseteq [call : Call, type : Type \cup {NoType}, on : Layer]
        /\ IsFiniteSet(waiting')
        /\ \A v, w \in waiting' : v.call = w.call => v = w
    BY <1>1, WaitingTypes DEF Get
  <2> QED BY <2>1, <2>2, <1>1 DEF Get, Begin, Types, windows, history
<1>2. ASSUME NEW w \in waiting, AnswerL1(w)
      PROVE  Types'
  <2>1. /\ count' \in [Counter -> Nat]
        /\ (\E n : RecordL1Hit(n, w.type)) \/ UNCHANGED windows
    BY <1>2, CountTypes DEF AnswerL1, Types
  <2>2. /\ byType' \in [Type -> TypeStats]
        /\ latencies' \in Window /\ l1Latencies' \in Window /\ l2Latencies' \in Window
        /\ recorded' \in Seq(Layer \X Latency)
    BY <2>1, RecordTypes DEF Types, windows
  <2>3. /\ waiting' \subseteq [call : Call, type : Type \cup {NoType}, on : Layer]
        /\ IsFiniteSet(waiting')
        /\ \A u, v \in waiting' : u.call = v.call => u = v
    BY <1>2, WaitingTypes DEF AnswerL1
  <2>4. /\ ops' = ops /\ rejected' = rejected /\ across' = across
        /\ missed' \in {missed, missed + 1} /\ unasked' \in {unasked, unasked + 1}
    BY <1>2 DEF AnswerL1
  <2> QED BY <2>1, <2>2, <2>3, <2>4 DEF Types
<1>3. ASSUME NEW w \in waiting, AnswerL2(w)
      PROVE  Types'
  <2>1. /\ count' \in [Counter -> Nat]
        /\ \E n : RecordL2Hit(n, w.type) \/ RecordL2Miss(n, w.type)
    BY <1>3, CountTypes DEF AnswerL2, Types
  <2>2. /\ byType' \in [Type -> TypeStats]
        /\ latencies' \in Window /\ l1Latencies' \in Window /\ l2Latencies' \in Window
        /\ recorded' \in Seq(Layer \X Latency)
    BY <2>1, RecordTypes
  <2>3. /\ waiting' \subseteq [call : Call, type : Type \cup {NoType}, on : Layer]
        /\ IsFiniteSet(waiting')
        /\ \A u, v \in waiting' : u.call = v.call => u = v
    BY <1>3, WaitingTypes DEF AnswerL2
  <2>4. /\ UNCHANGED <<ops, unasked, rejected, across>>
        /\ missed' \in {missed, missed + 1}
    BY <1>3 DEF AnswerL2
  <2> QED BY <2>1, <2>2, <2>3, <2>4 DEF Types
<1>4. ASSUME NEW w \in waiting, RejectL2(w)
      PROVE  Types'
  <2>1. /\ waiting' \subseteq [call : Call, type : Type \cup {NoType}, on : Layer]
        /\ IsFiniteSet(waiting')
        /\ \A u, v \in waiting' : u.call = v.call => u = v
    BY <1>4, WaitingTypes DEF RejectL2
  <2> QED BY <2>1, <1>4 DEF RejectL2, Types, windows
<1>5. CASE SetOrDelete
  <2>1. count' \in [Counter -> Nat]
    BY <1>5, CountTypes DEF SetOrDelete, Types
  <2> QED BY <2>1, <1>5 DEF SetOrDelete, Begin, Types, windows, history
<1>6. CASE Reset
  <2>1. across' \in [Layer -> Nat]
    BY <1>6, WaitingForFinite DEF Reset, Forget
  <2>2. count' \in [Counter -> Nat] /\ byType' \in [Type -> TypeStats]
    BY <1>6, SampleAssumption DEF Reset, Zero, NoStats, TypeStats, Window, Counter
  <2>3. /\ latencies' \in Window /\ l1Latencies' \in Window /\ l2Latencies' \in Window
        /\ recorded' \in Seq(Layer \X Latency)
    BY <1>6, SampleAssumption DEF Reset, Window
  <2> QED BY <2>1, <2>2, <2>3, <1>6 DEF Reset, Forget, Types
<1>7. CASE UNCHANGED vars
  BY <1>7 DEF vars, Types
<1> QED BY <1>1, <1>2, <1>3, <1>4, <1>5, <1>6, <1>7 DEF Next

\* So the types always hold.
LEMMA Typed == Spec => []Types
BY InitTypes, StepTypes, PTL DEF Spec

\* Every variable has its type, and no window grows beyond maxLatencySamples.
THEOREM TypeCorrect == Spec => []TypeOK
<1>1. Types => TypeOK
  BY DEF Types, TypeOK, TypeStats, Window, IsWindow
<1> QED BY <1>1, Typed, PTL

-----------------------------------------------------------------------------
(***************************************************************************)
(* Counters, where every record call samples.                              *)
(***************************************************************************)

Balanced == Types /\ CountersAddUp

\* The two equations of CountersAddUp: what L1 was asked, and what L2 was.
L1Balance ==
  count["gets"] + across["l1"]
    = count["l1Hits"] + count["l1Misses"] + Cardinality(WaitingFor("l1"))
L2Balance ==
  count["l1Misses"] + across["l2"]
    = count["l2Hits"] + count["l2Misses"] + unasked + rejected
      + Cardinality(WaitingFor("l2"))

\* Where every call samples, the names counted are those of the calls.
LEMMA Counted ==
  ASSUME Sampled = {TRUE}
  PROVE  \A n : Sample(n) = {{n}}
BY DEF Sample

\* What the steps of a get count.
LEMMA GetCounts ==
  ASSUME Sampled = {TRUE}, NEW c, NEW t, Get(c, t)
  PROVE  Count({"gets"})
BY Counted, Zenon DEF Get

\* L1 answers with a hit or a miss; L2 is then there or not.
LEMMA L1Counts ==
  ASSUME Sampled = {TRUE}, NEW w, AnswerL1(w)
  PROVE  \/ /\ Count({"l1Hits"})
            /\ waiting' = waiting \ {w} /\ UNCHANGED <<missed, unasked>>
         \/ /\ Count({"l1Misses"})
            /\ waiting' = (waiting \ {w}) \cup {[w EXCEPT !.on = "l2"]}
            /\ UNCHANGED <<missed, unasked>>
         \/ /\ Count({"l1Misses"})
            /\ waiting' = waiting \ {w}
            /\ missed' = missed + 1 /\ unasked' = unasked + 1
<1>1. Sample("l1Hits") = {{"l1Hits"}} /\ Sample("l1Misses") = {{"l1Misses"}}
  BY Counted
<1> QED BY <1>1, Zenon DEF AnswerL1

\* L2 answers with a hit or a miss.
LEMMA L2Counts ==
  ASSUME Sampled = {TRUE}, NEW w, AnswerL2(w)
  PROVE  \/ Count({"l2Hits"}) /\ UNCHANGED missed
         \/ Count({"l2Misses"}) /\ missed' = missed + 1
<1>1. Sample("l2Hits") = {{"l2Hits"}} /\ Sample("l2Misses") = {{"l2Misses"}}
  BY Counted
<1> QED BY <1>1, Zenon DEF AnswerL2

\* What set and delete count.
LEMMA OthersCount ==
  ASSUME Sampled = {TRUE}, SetOrDelete
  PROVE  \E n \in {"sets", "deletes"} : Count({n})
<1>1. Sample("sets") = {{"sets"}} /\ Sample("deletes") = {{"deletes"}}
  BY Counted
<1>2. PICK n \in {"sets", "deletes"} : \E op \in Sample(n) : Count(op)
  BY DEF SetOrDelete
<1> QED BY <1>1, <1>2

\* What a step counts: the one name by one, the others not.
LEMMA CountedOnce ==
  ASSUME NEW m, Count({m})
  PROVE  \A n \in Counter : count'[n] = IF n = m THEN count[n] + 1 ELSE count[n]
BY DEF Count

\* The numbers that add up.
LEMMA CounterNames ==
  ASSUME Types
  PROVE  /\ count["gets"] \in Nat
         /\ count["l1Hits"] \in Nat /\ count["l1Misses"] \in Nat
         /\ count["l2Hits"] \in Nat /\ count["l2Misses"] \in Nat
         /\ across["l1"] \in Nat /\ Cardinality(WaitingFor("l1")) \in Nat
         /\ across["l2"] \in Nat /\ Cardinality(WaitingFor("l2")) \in Nat
         /\ missed \in Nat /\ unasked \in Nat /\ rejected \in Nat
BY WaitingForFinite DEF Types, Counter, Layer

\* A get that begins is one more that waits for L1.
LEMMA OneMoreWaits ==
  ASSUME Types, NEW c, NEW t, Asleep(c),
         waiting' = waiting \cup {[call |-> c, type |-> t, on |-> "l1"]}
  PROVE  /\ Cardinality(WaitingFor("l1")') = Cardinality(WaitingFor("l1")) + 1
         /\ Cardinality(WaitingFor("l2")') = Cardinality(WaitingFor("l2"))
<1> DEFINE n == [call |-> c, type |-> t, on |-> "l1"]
<1>1. n.on = "l1" /\ n.call = c
  OBVIOUS
<1> HIDE DEF n
<1>2. n \notin waiting /\ waiting' = waiting \cup {n}
  BY <1>1 DEF Asleep, n
<1>3. /\ WaitingFor("l1")' = WaitingFor("l1") \cup {n} /\ n \notin WaitingFor("l1")
      /\ WaitingFor("l2")' = WaitingFor("l2")
  BY <1>1, <1>2 DEF WaitingFor
<1> QED BY <1>3, WaitingForFinite, FS_AddElement

\* A get that ends is one less that waits for its layer.
LEMMA OneLessWaits ==
  ASSUME Types, NEW w \in waiting, waiting' = waiting \ {w}
  PROVE  \A l \in Layer :
           Cardinality(WaitingFor(l)')
             = IF l = w.on THEN Cardinality(WaitingFor(l)) - 1 ELSE Cardinality(WaitingFor(l))
<1> SUFFICES ASSUME NEW l \in Layer
             PROVE  Cardinality(WaitingFor(l)')
                      = IF l = w.on THEN Cardinality(WaitingFor(l)) - 1
                                    ELSE Cardinality(WaitingFor(l))
  OBVIOUS
<1>1. CASE l = w.on
  <2>1. WaitingFor(l)' = WaitingFor(l) \ {w} /\ w \in WaitingFor(l)
    BY <1>1 DEF WaitingFor
  <2>2. Cardinality(WaitingFor(l)') = Cardinality(WaitingFor(l)) - 1
    BY <2>1, WaitingForFinite, FS_RemoveElement
  <2> QED BY <2>2, <1>1
<1>2. CASE l # w.on
  <2>1. WaitingFor(l)' = WaitingFor(l)
    BY <1>2 DEF WaitingFor
  <2> QED BY <2>1, <1>2
<1> QED BY <1>1, <1>2

\* A get that L1 leaves to L2 is one less that waits there and one more here.
LEMMA OneMovesOn ==
  ASSUME Types, NEW w \in waiting, w.on = "l1",
         waiting' = (waiting \ {w}) \cup {[w EXCEPT !.on = "l2"]}
  PROVE  /\ Cardinality(WaitingFor("l1")') = Cardinality(WaitingFor("l1")) - 1
         /\ Cardinality(WaitingFor("l2")') = Cardinality(WaitingFor("l2")) + 1
<1> DEFINE n == [w EXCEPT !.on = "l2"]
<1>1. n.on = "l2" /\ n.call = w.call
  BY DEF Types
<1> HIDE DEF n
<1>2. n # w /\ n \notin waiting /\ waiting' = (waiting \ {w}) \cup {n}
  BY <1>1 DEF Types, n
<1>3. /\ WaitingFor("l1")' = WaitingFor("l1") \ {w} /\ w \in WaitingFor("l1")
      /\ WaitingFor("l2")' = WaitingFor("l2") \cup {n} /\ n \notin WaitingFor("l2")
  BY <1>1, <1>2 DEF WaitingFor
<1> QED BY <1>3, WaitingForFinite, FS_AddElement, FS_RemoveElement

\* A get counts itself and waits.
LEMMA GetBalances ==
  ASSUME Sampled = {TRUE}, Balanced, NEW c \in Call, NEW t \in Type \cup {NoType}, Get(c, t)
  PROVE  CountersAddUp'
<1>1. UNCHANGED <<unasked, rejected, across>>
  BY DEF Get, history
<1>2. /\ count'["gets"] = count["gets"] + 1
      /\ count'["l1Hits"] = count["l1Hits"]
      /\ count'["l1Misses"] = count["l1Misses"]
      /\ count'["l2Hits"] = count["l2Hits"]
      /\ count'["l2Misses"] = count["l2Misses"]
  BY GetCounts, CountedOnce DEF Counter
<1>3. /\ Cardinality(WaitingFor("l1")') = Cardinality(WaitingFor("l1")) + 1
      /\ Cardinality(WaitingFor("l2")') = Cardinality(WaitingFor("l2"))
  BY OneMoreWaits DEF Get, Balanced
<1> QED BY <1>1, <1>2, <1>3, CounterNames DEF Balanced, CountersAddUp

\* An answer of L1 counts its hit, or its miss, and then the get waits for L2 or
\* has found it not connected.
LEMMA L1Balances ==
  ASSUME Sampled = {TRUE}, Balanced, NEW w \in waiting, AnswerL1(w)
  PROVE  CountersAddUp'
<1>1. UNCHANGED <<rejected, across>> /\ w.on = "l1"
  BY DEF AnswerL1
<1>2. ASSUME waiting' = waiting \ {w}
      PROVE  /\ Cardinality(WaitingFor("l1")') = Cardinality(WaitingFor("l1")) - 1
             /\ Cardinality(WaitingFor("l2")') = Cardinality(WaitingFor("l2"))
  BY <1>1, <1>2, OneLessWaits DEF Balanced, Layer
<1>3. CASE Count({"l1Hits"}) /\ waiting' = waiting \ {w} /\ UNCHANGED unasked
  <2>1. /\ count'["l1Hits"] = count["l1Hits"] + 1
        /\ count'["gets"] = count["gets"]
        /\ count'["l1Misses"] = count["l1Misses"]
        /\ count'["l2Hits"] = count["l2Hits"]
        /\ count'["l2Misses"] = count["l2Misses"]
    BY <1>3, CountedOnce DEF Counter
  <2>2. /\ Cardinality(WaitingFor("l1")') = Cardinality(WaitingFor("l1")) - 1
        /\ Cardinality(WaitingFor("l2")') = Cardinality(WaitingFor("l2"))
    BY <1>2, <1>3
  <2>3. unasked' = unasked
    BY <1>3
  <2>4. L1Balance'
    BY <2>1, <2>2, <1>1, CounterNames DEF Balanced, CountersAddUp, L1Balance
  <2>5. L2Balance'
    BY <2>1, <2>2, <2>3, <1>1, CounterNames DEF Balanced, CountersAddUp, L2Balance
  <2> QED BY <2>4, <2>5 DEF CountersAddUp, L1Balance, L2Balance
<1>4. ASSUME Count({"l1Misses"})
      PROVE  /\ count'["l1Misses"] = count["l1Misses"] + 1
             /\ count'["gets"] = count["gets"]
             /\ count'["l1Hits"] = count["l1Hits"]
             /\ count'["l2Hits"] = count["l2Hits"]
             /\ count'["l2Misses"] = count["l2Misses"]
  BY <1>4, CountedOnce DEF Counter
<1>5. CASE /\ Count({"l1Misses"}) /\ UNCHANGED unasked
           /\ waiting' = (waiting \ {w}) \cup {[w EXCEPT !.on = "l2"]}
  <2>1. /\ Cardinality(WaitingFor("l1")') = Cardinality(WaitingFor("l1")) - 1
        /\ Cardinality(WaitingFor("l2")') = Cardinality(WaitingFor("l2")) + 1
    BY <1>1, <1>5, OneMovesOn DEF Balanced
  <2>2. /\ count'["l1Misses"] = count["l1Misses"] + 1
        /\ count'["gets"] = count["gets"]
        /\ count'["l1Hits"] = count["l1Hits"]
        /\ count'["l2Hits"] = count["l2Hits"]
        /\ count'["l2Misses"] = count["l2Misses"]
        /\ unasked' = unasked
    BY <1>4, <1>5
  <2> QED BY <2>1, <2>2, <1>1, CounterNames DEF Balanced, CountersAddUp
<1>6. CASE Count({"l1Misses"}) /\ waiting' = waiting \ {w} /\ unasked' = unasked + 1
  BY <1>1, <1>2, <1>4, <1>6, CounterNames DEF Balanced, CountersAddUp
<1> QED BY <1>3, <1>5, <1>6, L1Counts

\* An answer of L2 counts its hit or its miss, and one get less waits.
LEMMA L2Balances ==
  ASSUME Sampled = {TRUE}, Balanced, NEW w \in waiting, AnswerL2(w)
  PROVE  CountersAddUp'
<1>1. UNCHANGED <<unasked, rejected, across>> /\ w.on = "l2" /\ waiting' = waiting \ {w}
  BY DEF AnswerL2
<1>2. /\ Cardinality(WaitingFor("l1")') = Cardinality(WaitingFor("l1"))
      /\ Cardinality(WaitingFor("l2")') = Cardinality(WaitingFor("l2")) - 1
  BY <1>1, OneLessWaits DEF Balanced, Layer
<1>3. CASE Count({"l2Hits"})
  <2>1. /\ count'["l2Hits"] = count["l2Hits"] + 1
        /\ count'["gets"] = count["gets"]
        /\ count'["l1Hits"] = count["l1Hits"]
        /\ count'["l1Misses"] = count["l1Misses"]
        /\ count'["l2Misses"] = count["l2Misses"]
    BY <1>3, CountedOnce DEF Counter
  <2>2. L1Balance'
    BY <2>1, <1>1, <1>2, CounterNames DEF Balanced, CountersAddUp, L1Balance
  <2>3. L2Balance'
    <3>1. Types /\ L2Balance
      BY DEF Balanced, CountersAddUp, L2Balance
    <3>2. /\ count'["l1Misses"] = count["l1Misses"]
          /\ count'["l2Hits"] + Cardinality(WaitingFor("l2")')
               = count["l2Hits"] + Cardinality(WaitingFor("l2"))
      BY <2>1, <1>2, <3>1, CounterNames
    <3> QED BY <3>1, <3>2, <2>1, <1>1, <1>2, CounterNames DEF L2Balance
  <2> QED BY <2>2, <2>3 DEF CountersAddUp, L1Balance, L2Balance
<1>4. CASE Count({"l2Misses"})
  <2>1. /\ count'["l2Misses"] = count["l2Misses"] + 1
        /\ count'["gets"] = count["gets"]
        /\ count'["l1Hits"] = count["l1Hits"]
        /\ count'["l1Misses"] = count["l1Misses"]
        /\ count'["l2Hits"] = count["l2Hits"]
    BY <1>4, CountedOnce DEF Counter
  <2> QED BY <2>1, <1>1, <1>2, CounterNames DEF Balanced, CountersAddUp
<1> QED BY <1>3, <1>4, L2Counts

\* A get that L2 rejects is one that waits no longer and that nothing counts.
LEMMA RejectBalances ==
  ASSUME Balanced, NEW w \in waiting, RejectL2(w)
  PROVE  CountersAddUp'
<1>1. /\ UNCHANGED <<count, unasked, across>> /\ rejected' = rejected + 1
      /\ w.on = "l2" /\ waiting' = waiting \ {w}
  BY DEF RejectL2
<1>2. /\ Cardinality(WaitingFor("l1")') = Cardinality(WaitingFor("l1"))
      /\ Cardinality(WaitingFor("l2")') = Cardinality(WaitingFor("l2")) - 1
  BY <1>1, OneLessWaits DEF Balanced, Layer
<1> QED BY <1>1, <1>2, CounterNames DEF Balanced, CountersAddUp

\* set and delete count neither gets nor hits nor misses.
LEMMA OthersBalance ==
  ASSUME Sampled = {TRUE}, Balanced, SetOrDelete
  PROVE  CountersAddUp'
<1>1. PICK n \in {"sets", "deletes"} : Count({n})
  BY OthersCount
<1>2. \A m \in {"gets", "l1Hits", "l1Misses", "l2Hits", "l2Misses"} : count'[m] = count[m]
  BY <1>1, CountedOnce DEF Counter
<1>3. UNCHANGED <<unasked, rejected, across>> /\ \A l : WaitingFor(l)' = WaitingFor(l)
  BY DEF SetOrDelete, history, WaitingFor
<1> QED BY <1>2, <1>3 DEF Balanced, CountersAddUp

\* The gets that wait at a reset are those whose later half is all that counts.
LEMMA ResetBalances == Balanced /\ Reset => CountersAddUp'
<1> SUFFICES ASSUME Balanced, Reset PROVE CountersAddUp'
  OBVIOUS
<1>1. \A n \in Counter : count'[n] = 0
  BY DEF Reset, Zero
<1>2. /\ count'["gets"] = 0 /\ count'["l1Hits"] = 0 /\ count'["l1Misses"] = 0
      /\ count'["l2Hits"] = 0 /\ count'["l2Misses"] = 0
  BY <1>1 DEF Counter
<1>3. /\ unasked' = 0 /\ rejected' = 0
      /\ \A l \in Layer : across'[l] = Cardinality(WaitingFor(l))
  BY DEF Reset, Forget
<1>4. \A l : WaitingFor(l)' = WaitingFor(l)
  BY DEF Reset, WaitingFor
<1> QED BY <1>2, <1>3, <1>4, CounterNames DEF Balanced, CountersAddUp, Layer

\* If every request is sampled, each get is counted as a hit or a miss of L1 once L1
\* has answered, and each miss of L1 as a hit or a miss of L2 unless L2 was not there or
\* rejected; of the gets that a reset overtook, only what they do after it is counted.
\* So it is for any number of gets that overlap with each other and with resets.
THEOREM CountersBalance ==
  ASSUME Sampled = {TRUE}
  PROVE  Spec => []CountersAddUp
<1>1. Init => CountersAddUp
  <2> SUFFICES ASSUME Init PROVE CountersAddUp
    OBVIOUS
  <2>1. WaitingFor("l1") = {} /\ WaitingFor("l2") = {}
    BY DEF Init, WaitingFor
  <2>2. Cardinality(WaitingFor("l1")) = 0 /\ Cardinality(WaitingFor("l2")) = 0
    BY <2>1, FS_EmptySet
  <2>3. /\ count["gets"] = 0 /\ count["l1Hits"] = 0 /\ count["l1Misses"] = 0
        /\ count["l2Hits"] = 0 /\ count["l2Misses"] = 0
        /\ across["l1"] = 0 /\ across["l2"] = 0 /\ unasked = 0 /\ rejected = 0
    BY DEF Init, Zero, Counter, Layer
  <2> QED BY <2>2, <2>3 DEF CountersAddUp
<1>2. Balanced /\ [Next]_vars => CountersAddUp'
  <2>1. Balanced /\ UNCHANGED vars => CountersAddUp'
    BY DEF Balanced, vars, CountersAddUp, WaitingFor
  <2> QED BY <2>1, GetBalances, L1Balances, L2Balances, RejectBalances, OthersBalance,
             ResetBalances DEF Next
<1>3. Spec => [](Types /\ CountersAddUp)
  <2>1. Init => Balanced
    BY <1>1, InitTypes DEF Balanced
  <2>2. Balanced /\ [Next]_vars => Balanced'
    BY <1>2, StepTypes DEF Balanced
  <2>3. Spec => []Balanced
    BY <2>1, <2>2, PTL DEF Spec
  <2> QED BY <2>3, PTL DEF Balanced
<1> QED BY <1>3, PTL

\* With every request sampled, the misses of L2 and the gets that found L2 not connected
\* are the gets that found nothing, so while there are none of the latter the combined
\* hit rate is the share of the answered gets that found a value.
THEOREM HitRateIsOverall ==
  ASSUME Sampled = {TRUE}
  PROVE  Spec => []OverallHitRate
<1> DEFINE Final == Types /\ count["l2Misses"] + unasked = missed
<1>1. Init => Final
  BY InitTypes DEF Init, Zero, Counter
<1>2. Final /\ [Next]_vars => Final'
  <2> SUFFICES ASSUME Final, [Next]_vars PROVE count'["l2Misses"] + unasked' = missed'
    BY StepTypes
  <2>0. count["l2Misses"] \in Nat /\ missed \in Nat /\ unasked \in Nat
    BY CounterNames DEF Counter
  <2>1. ASSUME NEW n \in Counter, n # "l2Misses", Count({n})
        PROVE  count'["l2Misses"] = count["l2Misses"]
    BY <2>1, CountedOnce DEF Counter
  <2>2. ASSUME NEW c \in Call, NEW t \in Type \cup {NoType}, Get(c, t)
        PROVE  count'["l2Misses"] + unasked' = missed'
    BY <2>1, <2>2, GetCounts DEF Get, history, Counter
  <2>3. ASSUME NEW w \in waiting, AnswerL1(w)
        PROVE  count'["l2Misses"] + unasked' = missed'
    <3>1. count'["l2Misses"] = count["l2Misses"]
      BY <2>1, <2>3, L1Counts DEF Counter
    <3>2. UNCHANGED <<missed, unasked>> \/ (missed' = missed + 1 /\ unasked' = unasked + 1)
      BY <2>3, L1Counts
    <3> QED BY <3>1, <3>2, <2>0
  <2>4. ASSUME NEW w \in waiting, AnswerL2(w)
        PROVE  count'["l2Misses"] + unasked' = missed'
    <3>1. \/ Count({"l2Hits"}) /\ missed' = missed
          \/ Count({"l2Misses"}) /\ missed' = missed + 1
      BY <2>4, L2Counts
    <3>2. unasked' = unasked
      BY <2>4 DEF AnswerL2
    <3>3. CASE Count({"l2Hits"}) /\ missed' = missed
      BY <3>2, <3>3, <2>0, <2>1 DEF Counter
    <3>4. CASE Count({"l2Misses"}) /\ missed' = missed + 1
      <4>1. count'["l2Misses"] = count["l2Misses"] + 1
        BY <3>4, CountedOnce DEF Counter
      <4> QED BY <4>1, <3>2, <3>4, <2>0
    <3> QED BY <3>1, <3>3, <3>4
  <2>5. ASSUME NEW w \in waiting, RejectL2(w)
        PROVE  count'["l2Misses"] + unasked' = missed'
    BY <2>5 DEF RejectL2
  <2>6. CASE SetOrDelete
    <3>1. UNCHANGED <<missed, unasked>> /\ \E n \in {"sets", "deletes"} : Count({n})
      BY <2>6, OthersCount DEF SetOrDelete, history
    <3> QED BY <3>1, <2>1 DEF Counter
  <2>7. CASE Reset
    BY <2>7 DEF Reset, Forget, Zero, Counter
  <2>8. CASE UNCHANGED vars
    BY <2>8 DEF vars
  <2> QED BY <2>2, <2>3, <2>4, <2>5, <2>6, <2>7, <2>8 DEF Next
<1>3. Final => OverallHitRate
  <2> SUFFICES ASSUME Final, unasked = 0
               PROVE  SameRatio(CombinedHitRate, CalculateHitRate(TotalHits, missed))
    BY DEF OverallHitRate
  <2> DEFINE r == CalculateHitRate(TotalHits, missed)
  <2>0. TotalMisses = missed
    BY CounterNames DEF TotalMisses, Counter
  <2>1. CombinedHitRate = r
    BY <2>0 DEF CombinedHitRate
  <2>2. TotalHits \in Nat /\ missed \in Nat
    BY CounterNames DEF TotalHits, Counter
  <2>3. r[1] \in Nat /\ r[2] \in Nat
    BY <2>2 DEF CalculateHitRate, Ratio
  <2> HIDE DEF r
  <2>4. r[1] * r[2] = r[1] * r[2]
    OBVIOUS
  <2> QED BY <2>1, <2>4 DEF SameRatio, r
<1>4. Spec => []Final
  <2> HIDE DEF Final
  <2> QED BY <1>1, <1>2, PTL DEF Spec
<1> QED BY <1>3, <1>4, PTL

-----------------------------------------------------------------------------
(***************************************************************************)
(* What the windows hold.                                                  *)
(***************************************************************************)

Log == Seq(Layer \X Latency)
Of(log, layers) == {n \in DOMAIN log : log[n][1] \in layers}

\* f tells which entry of the log each latency of the window is.
Places(f, arr, log, layers) ==
  /\ f \in [DOMAIN arr -> Of(log, layers)]
  /\ \A i, j \in DOMAIN arr : i < j => f[i] < f[j]
  /\ \A i \in DOMAIN arr : arr[i] = log[f[i]][2]
  /\ \A n \in Of(log, layers) :
       (\E i \in DOMAIN arr : f[i] = n) \/ (Len(arr) = MaxSamples /\ \A i \in DOMAIN arr : n < f[i])

\* A window holds the last latencies if there are such places.
LEMMA HoldsPlaces ==
  ASSUME NEW arr \in Window, NEW log, NEW layers
  PROVE  HoldsLast(arr, log, layers) <=> \E f : Places(f, arr, log, layers)
BY DEF HoldsLast, Places, Of, Window

\* One more entry of a log.
LEMMA LongerLog ==
  ASSUME NEW log \in Log, NEW l \in Layer, NEW x \in Latency, NEW layers
  PROVE  /\ Append(log, <<l, x>>) \in Log
         /\ Len(log) \in Nat
         /\ \A n \in DOMAIN log : n \in 1 .. Len(log) /\ Append(log, <<l, x>>)[n] = log[n]
         /\ Append(log, <<l, x>>)[Len(log) + 1] = <<l, x>>
         /\ Of(Append(log, <<l, x>>), layers)
              = IF l \in layers THEN Of(log, layers) \cup {Len(log) + 1} ELSE Of(log, layers)
<1> DEFINE e == <<l, x>>
           m == Append(log, e)
<1>1. log \in Seq(Layer \X Latency) /\ e \in Layer \X Latency
  BY DEF Log
<1>2. e[1] = l
  OBVIOUS
<1> HIDE DEF e
<1>3. /\ m \in Seq(Layer \X Latency) /\ Len(m) = Len(log) + 1 /\ Len(log) \in Nat
      /\ \A n \in 1 .. Len(log) : m[n] = log[n]
      /\ m[Len(log) + 1] = e
      /\ DOMAIN m = 1 .. Len(log) + 1 /\ DOMAIN log = 1 .. Len(log)
  BY <1>1
<1> HIDE DEF m
<1>4. Of(m, layers) = IF l \in layers THEN Of(log, layers) \cup {Len(log) + 1} ELSE Of(log, layers)
  BY <1>2, <1>3 DEF Of
<1> QED BY <1>3, <1>4 DEF Log, m, e

\* An entry of another layer changes nothing about a window.
LEMMA OtherLayer ==
  ASSUME NEW arr \in Window, NEW log \in Log, NEW layers, HoldsLast(arr, log, layers),
         NEW l \in Layer, NEW x \in Latency, l \notin layers
  PROVE  HoldsLast(arr, Append(log, <<l, x>>), layers)
<1> DEFINE m == Append(log, <<l, x>>)
<1>1. PICK f : Places(f, arr, log, layers)
  BY HoldsPlaces
<1>2. Of(m, layers) = Of(log, layers) /\ \A n \in DOMAIN log : m[n] = log[n]
  <2>1. /\ \A n \in DOMAIN log : m[n] = log[n]
        /\ Of(m, layers) = IF l \in layers THEN Of(log, layers) \cup {Len(log) + 1} ELSE Of(log, layers)
    BY LongerLog DEF Of
  <2> QED BY <2>1
<1> HIDE DEF m
<1>3. Places(f, arr, m, layers)
  <2>1. \A i \in DOMAIN arr : m[f[i]] = log[f[i]]
    BY <1>1, <1>2 DEF Places, Of
  <2> QED BY <1>1, <1>2, <2>1 DEF Places
<1> QED BY <1>3, HoldsPlaces DEF m

\* addLatency keeps what the window holds: the entry it adds is the last, and the
\* one it drops was the oldest.
LEMMA SameLayer ==
  ASSUME NEW arr \in Window, NEW log \in Log, NEW layers, HoldsLast(arr, log, layers),
         NEW l \in Layer, NEW x \in Latency, l \in layers
  PROVE  HoldsLast(AddLatency(arr, x), Append(log, <<l, x>>), layers)
<1> DEFINE e == <<l, x>>
           m == Append(log, e)
           a == AddLatency(arr, x)
           n == Len(log) + 1
<1>1. PICK f : Places(f, arr, log, layers)
  BY HoldsPlaces
<1>2. /\ Of(m, layers) = Of(log, layers) \cup {n} /\ n \in Nat
      /\ \A k \in Of(log, layers) : k \in Nat /\ k < n /\ m[k] = log[k]
      /\ m[n][2] = x
  BY LongerLog DEF Of
<1>3. /\ arr \in Seq(Latency) /\ Len(arr) \in Nat /\ DOMAIN arr = 1 .. Len(arr)
      /\ a \in Window /\ Len(a) \in Nat /\ DOMAIN a = 1 .. Len(a)
      /\ MaxSamples \in Nat \ {0}
  BY AddedIs, SampleAssumption DEF Window
<1>4. \/ /\ Len(arr) < MaxSamples /\ Len(a) = Len(arr) + 1
         /\ \A i \in DOMAIN arr : a[i] = arr[i]
         /\ a[Len(arr) + 1] = x
      \/ /\ Len(arr) = MaxSamples /\ Len(a) = Len(arr)
         /\ \A i \in 1 .. Len(arr) - 1 : a[i] = arr[i + 1]
         /\ a[Len(arr)] = x
  BY AddedIs
<1>5. \A i \in DOMAIN arr : /\ f[i] \in Of(log, layers) /\ f[i] \in Nat /\ f[i] < n
                            /\ m[f[i]] = log[f[i]]
  BY <1>1, <1>2 DEF Places
<1> HIDE DEF m, a, n
<1>6. CASE Len(a) = Len(arr) + 1
  <2> DEFINE g == [i \in DOMAIN a |-> IF i = Len(a) THEN n ELSE f[i]]
  <2>1. Len(arr) < MaxSamples /\ (\A i \in DOMAIN arr : a[i] = arr[i]) /\ a[Len(a)] = x
    <3>1. \A k \in Nat : k + 1 # k
      OBVIOUS
    <3>2. Len(arr) + 1 # Len(arr)
      BY <3>1, <1>3, Zenon
    <3> QED BY <3>2, <1>4, <1>6, Zenon
  <2>2. \A i \in DOMAIN a : i \in DOMAIN arr \/ i = Len(a)
    BY <1>3, <1>6
  <2>3. g \in [DOMAIN a -> Of(m, layers)]
    BY <1>2, <1>5, <2>2
  <2>4. ASSUME NEW i \in DOMAIN a, NEW j \in DOMAIN a, i < j
        PROVE  g[i] < g[j]
    <3>1. i \in DOMAIN arr /\ i # Len(a)
      BY <1>3, <1>6, <2>4
    <3> QED BY <3>1, <1>1, <1>5, <2>2, <2>4 DEF Places
  <2>5. ASSUME NEW i \in DOMAIN a
        PROVE  a[i] = m[g[i]][2]
    BY <1>1, <1>2, <1>3, <1>5, <1>6, <2>1, <2>2 DEF Places
  <2>6. ASSUME NEW k \in Of(m, layers)
        PROVE  \E i \in DOMAIN a : g[i] = k
    <3>1. CASE k = n
      BY <3>1, <1>3, <1>6
    <3>2. CASE k \in Of(log, layers)
      <4>1. PICK i \in DOMAIN arr : f[i] = k
        <5>1. (\E i \in DOMAIN arr : f[i] = k) \/ Len(arr) = MaxSamples
          BY <3>2, <1>1 DEF Places
        <5>2. \A j, h \in Nat : j < h => j # h
          OBVIOUS
        <5>3. Len(arr) # MaxSamples
          BY <1>3, <2>1, <5>2, Zenon
        <5> QED BY <5>1, <5>3, Zenon
      <4> QED BY <4>1, <1>3, <1>6
    <3> QED BY <3>1, <3>2, <1>2
  <2> HIDE DEF g
  <2>7. Places(g, a, m, layers)
    BY <2>3, <2>4, <2>5, <2>6 DEF Places
  <2> QED BY <2>7, <1>3, HoldsPlaces DEF a, m
<1>7. CASE Len(arr) = MaxSamples /\ Len(a) = Len(arr)
  <2> DEFINE g == [i \in DOMAIN a |-> IF i = Len(a) THEN n ELSE f[i + 1]]
  <2>1. (\A i \in 1 .. Len(arr) - 1 : a[i] = arr[i + 1]) /\ a[Len(a)] = x /\ Len(a) >= 1
    BY <1>3, <1>4, <1>7
  <2>2. \A i \in DOMAIN a : i # Len(a) => i \in 1 .. Len(arr) - 1 /\ i + 1 \in DOMAIN arr
    BY <1>3, <1>7
  <2>3. g \in [DOMAIN a -> Of(m, layers)]
    BY <1>2, <1>5, <2>2
  <2>4. ASSUME NEW i \in DOMAIN a, NEW j \in DOMAIN a, i < j
        PROVE  g[i] < g[j]
    <3>1. i # Len(a) /\ i + 1 \in DOMAIN arr /\ f[i + 1] < n
      BY <1>3, <1>5, <2>2, <2>4
    <3>2. CASE j = Len(a)
      BY <3>1, <3>2
    <3>3. CASE j # Len(a)
      <4>1. j + 1 \in DOMAIN arr /\ i + 1 < j + 1
        BY <3>3, <1>3, <2>2, <2>4
      <4>2. f[i + 1] < f[j + 1]
        BY <3>1, <4>1, <1>1 DEF Places
      <4> QED BY <4>2, <3>1, <3>3
    <3> QED BY <3>2, <3>3
  <2>5. ASSUME NEW i \in DOMAIN a
        PROVE  a[i] = m[g[i]][2]
    <3>1. CASE i = Len(a)
      BY <3>1, <1>2, <2>1
    <3>2. CASE i # Len(a)
      <4>1. a[i] = arr[i + 1] /\ i + 1 \in DOMAIN arr
        BY <3>2, <2>1, <2>2
      <4>2. arr[i + 1] = log[f[i + 1]][2] /\ m[f[i + 1]] = log[f[i + 1]]
        BY <4>1, <1>1, <1>5 DEF Places
      <4> QED BY <4>1, <4>2, <3>2
    <3> QED BY <3>1, <3>2
  <2>6. ASSUME NEW k \in Of(m, layers)
        PROVE  (\E i \in DOMAIN a : g[i] = k) \/ (Len(a) = MaxSamples /\ \A i \in DOMAIN a : k < g[i])
    <3>1. CASE k = n
      <4>1. Len(a) \in DOMAIN a /\ g[Len(a)] = n
        BY <1>3, <2>1
      <4> QED BY <4>1, <3>1
    <3>2. CASE k \in Of(log, layers)
      <4>1. k \in Nat /\ k < n
        BY <3>2, <1>2
      <4>2. ASSUME NEW i \in DOMAIN arr, f[i] = k, i # 1
            PROVE  \E j \in DOMAIN a : g[j] = k
        <5>1. i - 1 \in DOMAIN a /\ i - 1 # Len(a) /\ (i - 1) + 1 = i
          BY <4>2, <1>3, <1>7
        <5>2. g[i - 1] = k
          BY <5>1, <4>2
        <5> QED BY <5>1, <5>2
      <4>3. ASSUME \A i \in DOMAIN arr : i # 1 => k < f[i]
            PROVE  \A i \in DOMAIN a : k < g[i]
        <5> TAKE i \in DOMAIN a
        <5>1. i # Len(a) => i + 1 \in DOMAIN arr /\ i + 1 # 1
          BY <2>2, <1>3
        <5> QED BY <5>1, <4>1, <4>3
      <4>4. CASE \E i \in DOMAIN arr : f[i] = k
        <5>1. PICK i \in DOMAIN arr : f[i] = k
          BY <4>4
        <5>2. CASE i = 1
          <6>1. \A j \in DOMAIN arr : j # 1 => f[i] < f[j]
            <7>1. \A j \in DOMAIN arr : j # 1 => 1 < j
              BY <1>3
            <7>2. \A h, j \in DOMAIN arr : h < j => f[h] < f[j]
              BY <1>1 DEF Places
            <7> QED BY <7>1, <7>2, <5>2
          <6> QED BY <6>1, <5>1, <4>3, <1>7
        <5> QED BY <5>1, <5>2, <4>2
      <4>5. CASE \A i \in DOMAIN arr : k < f[i]
        BY <4>5, <4>3, <1>7
      <4> QED BY <4>4, <4>5, <3>2, <1>1 DEF Places
    <3> QED BY <3>1, <3>2, <1>2
  <2> HIDE DEF g
  <2>7. Places(g, a, m, layers)
    BY <2>3, <2>4, <2>5, <2>6 DEF Places
  <2> QED BY <2>7, <1>3, HoldsPlaces DEF a, m
<1> QED BY <1>4, <1>6, <1>7

\* An empty window of an empty log.
LEMMA EmptyHolds == \A layers : HoldsLast(<<>>, <<>>, layers)
<1> SUFFICES ASSUME NEW layers PROVE HoldsLast(<<>>, <<>>, layers)
  OBVIOUS
<1>1. <<>> \in Window /\ DOMAIN <<>> = {}
  BY SampleAssumption DEF Window
<1>2. Places([i \in {} |-> 0], <<>>, <<>>, layers)
  BY <1>1 DEF Places, Of
<1> QED BY <1>1, <1>2, HoldsPlaces

\* Each record call adds the latency it measured to the windows it belongs to.
LEMMA RecordsRecent ==
  ASSUME Types, WindowsAreRecent, NEW n, NEW t,
         RecordL1Hit(n, t) \/ RecordL2Hit(n, t) \/ RecordL2Miss(n, t)
  PROVE  WindowsAreRecent'
<1>1. recorded \in Log /\ "l1" \in Layer /\ "l2" \in Layer
  BY DEF Types, Log, Layer
<1>2. CASE UNCHANGED <<latencies, l1Latencies, l2Latencies, recorded>>
  BY <1>2 DEF WindowsAreRecent
<1>3. ASSUME NEW x \in Latency, l1Latencies' = AddLatency(l1Latencies, x),
             latencies' = AddLatency(latencies, x), UNCHANGED l2Latencies,
             recorded' = Append(recorded, <<"l1", x>>)
      PROVE  WindowsAreRecent'
  BY <1>1, <1>3, SameLayer, OtherLayer DEF WindowsAreRecent, Types
<1>4. ASSUME NEW x \in Latency, l2Latencies' = AddLatency(l2Latencies, x),
             latencies' = AddLatency(latencies, x), UNCHANGED l1Latencies,
             recorded' = Append(recorded, <<"l2", x>>)
      PROVE  WindowsAreRecent'
  BY <1>1, <1>4, SameLayer, OtherLayer DEF WindowsAreRecent, Types
<1> QED BY <1>2, <1>3, <1>4 DEF RecordL1Hit, RecordL2Hit, RecordL2Miss, windows

\* Each latency window holds the last maxLatencySamples latencies recorded since
\* the last reset, of its layer or of both, in their order: for windows and runs
\* of every length.
THEOREM WindowsHoldTheLast == Spec => []WindowsAreRecent
<1> DEFINE Recent == Types /\ WindowsAreRecent
<1>1. Init => Recent
  BY InitTypes, EmptyHolds DEF Init, WindowsAreRecent
<1>2. Recent /\ [Next]_vars => WindowsAreRecent'
  <2> SUFFICES ASSUME Recent, [Next]_vars PROVE WindowsAreRecent'
    OBVIOUS
  <2>1. UNCHANGED windows => WindowsAreRecent'
    BY DEF windows, WindowsAreRecent
  <2>2. ASSUME NEW w \in waiting, AnswerL1(w)
        PROVE  WindowsAreRecent'
    <3>1. (\E n : RecordL1Hit(n, w.type)) \/ UNCHANGED windows
      BY <2>2 DEF AnswerL1
    <3> QED BY <3>1, <2>1, RecordsRecent
  <2>3. ASSUME NEW w \in waiting, AnswerL2(w)
        PROVE  WindowsAreRecent'
    <3>1. \E n : RecordL2Hit(n, w.type) \/ RecordL2Miss(n, w.type)
      BY <2>3 DEF AnswerL2
    <3> QED BY <3>1, RecordsRecent
  <2>4. ASSUME NEW w \in waiting, RejectL2(w)
        PROVE  WindowsAreRecent'
    BY <2>1, <2>4 DEF RejectL2
  <2>5. ASSUME NEW c \in Call, NEW t \in Type \cup {NoType}, Get(c, t)
        PROVE  WindowsAreRecent'
    BY <2>1, <2>5 DEF Get
  <2>6. CASE SetOrDelete
    BY <2>1, <2>6 DEF SetOrDelete
  <2>7. CASE Reset
    BY <2>7, EmptyHolds DEF Reset, WindowsAreRecent
  <2>8. CASE UNCHANGED vars
    BY <2>1, <2>8 DEF vars, windows
  <2> QED BY <2>2, <2>3, <2>4, <2>5, <2>6, <2>7, <2>8 DEF Next
<1>3. Spec => []Recent
  <2>1. Recent /\ [Next]_vars => Recent'
    BY <1>2, StepTypes
  <2> HIDE DEF Recent
  <2> QED BY <1>1, <2>1, PTL DEF Spec
<1>4. Recent => WindowsAreRecent
  OBVIOUS
<1> HIDE DEF Recent
<1> QED BY <1>3, <1>4, PTL

\* p50, p95 and p99 are the nearest-rank percentiles of the latencies in the
\* window, whatever the window holds.
THEOREM PercentilesAreNearestRank == Spec => []NearestRank
<1>1. Types => NearestRank
  <2> SUFFICES ASSUME Types, latencies # <<>>, NEW p \in Percents
               PROVE  IsPercentile(latencies, p, LatencyPercentile(p))
    BY DEF NearestRank
  <2>1. latencies \in Seq(Nat)
    <3>1. latencies \in Seq(Latency)
      BY DEF Types, Window
    <3>2. Latency \subseteq Nat
      BY LatencyAssumption
    <3> QED BY <3>1, <3>2, SeqMonotonic
  <2> QED BY <2>1, PercentileOfWindow DEF LatencyPercentile
<1> QED BY <1>1, Typed, PTL

=============================================================================
