----------------------------- MODULE Percentile -----------------------------
(***************************************************************************)
(* The figures the statistics collector reports: hit rates, each a pair,   *)
(* numerator first, and percentiles of a sorted window of latencies.       *)
(***************************************************************************)
EXTENDS Naturals, Sequences, FiniteSets, Functions

Ratio(n, d) == IF d = 0 THEN <<0, 1>> ELSE <<n, d>>
SameRatio(p, q) == p[1] * q[2] = q[1] * p[2]

CalculateHitRate(hits, misses) == Ratio(hits, hits + misses)

\* The orders of the indices in which the samples ascend; sort picks one.
Orders(arr) ==
  {p \in Bijection(DOMAIN arr, DOMAIN arr) :
     \A i, j \in DOMAIN arr : i < j => arr[p[i]] <= arr[p[j]]}
Sorted(arr) ==
  LET order == CHOOSE p \in Orders(arr) : TRUE
  IN  [i \in DOMAIN arr |-> arr[order[i]]]

\* The percentages that are asked for.
Percents == {50, 95, 99}

\* ceil(p / 100 * n).  The code divides and multiplies doubles: for these p that
\* yields the exact ceiling (0.5 is exact, and 0.95 and 0.99 are closer to their
\* doubles than the rounding of a whole product can tell), for others it may
\* not: 7 percent of 100 samples gives 8.
CeilPercent(p, n) == (p * n + 99) \div 100

\* Bug: the index is not brought back to base 0.
PercentileOneOff(sorted, p) ==
  LET index == CeilPercent(p, Len(sorted)) + 1
  IN  IF sorted = <<>> THEN 0
      ELSE sorted[IF index > Len(sorted) THEN Len(sorted) ELSE index]

\* sorted[max(0, ceil(p / 100 * length) - 1)], counted from 1 here, for p in Percents.
PercentileOf(sorted, p) ==
  LET index == CeilPercent(p, Len(sorted))
  IN  IF sorted = <<>> THEN 0 ELSE sorted[IF index = 0 THEN 1 ELSE index]

\* What a percentile is: the least sample that at least p percent of the
\* samples do not exceed.
Covers(arr, p, v) ==
  100 * Cardinality({i \in DOMAIN arr : arr[i] <= v}) >= p * Len(arr)
IsPercentile(arr, p, v) ==
  /\ \E i \in DOMAIN arr : arr[i] = v
  /\ Covers(arr, p, v)
  /\ \A i \in DOMAIN arr : Covers(arr, p, arr[i]) => v <= arr[i]

=============================================================================
