--------------------------- MODULE StatsCollector ---------------------------
(***************************************************************************)
(* The statistics of one CacheManager: the counters and latency windows    *)
(* StatsCollector keeps while gets, each waiting for L1 and some then for  *)
(* L2, sets, deletes and resets go on.                                     *)
(***************************************************************************)
EXTENDS Percentile

CONSTANTS
  Call,        \* gets that may be under way at once
  Type,        \* the types callers pass
  NoType,
  Connected,   \* whether a get may find L2 connected; {FALSE} in L1-only mode
  Rejects,     \* whether a GET of L2 may reject (failureStrategy 'throw')
  Latency,     \* the latencies measured, in milliseconds
  Sampled,     \* what shouldSample may answer
  MaxSamples,  \* maxLatencySamples
  MaxOps       \* bound on the operations counted

ASSUME SampleAssumption == Sampled \subseteq BOOLEAN /\ MaxSamples \in Nat \ {0}
ASSUME LatencyAssumption == Latency \subseteq Nat /\ MaxOps \in Nat
ASSUME L2Assumption == Connected \subseteq BOOLEAN /\ Rejects \in BOOLEAN
ASSUME TypeAssumption == NoType \notin Type

VARIABLES
  waiting,     \* the gets that wait, each with its type and the layer it waits for
  count,       \* the counters
  byType,
  latencies, l1Latencies, l2Latencies,
  recorded,    \* all latencies since the last reset (history)
  ops,         \* operations begun (bounded by MaxOps)
  \* History, since the last reset:
  missed,      \* gets that found nothing
  unasked,     \* those of them that found L2 not connected
  rejected,    \* gets that L2 rejected
  across       \* gets that were waiting for each layer at the reset

vars == <<waiting, count, byType, latencies, l1Latencies, l2Latencies,
          recorded, ops, missed, unasked, rejected, across>>
windows == <<byType, latencies, l1Latencies, l2Latencies, recorded>>
history == <<missed, unasked, rejected, across>>

Layer == {"l1", "l2"}
Counter == {"gets", "sets", "deletes", "l1Hits", "l1Misses", "l2Hits", "l2Misses"}
Zero == [n \in Counter |-> 0]
NoStats == [hits |-> 0, misses |-> 0, latencies |-> <<>>]

Init ==
  /\ waiting = {}
  /\ count = Zero
  /\ byType = [t \in Type |-> NoStats]
  /\ latencies = <<>> /\ l1Latencies = <<>> /\ l2Latencies = <<>>
  /\ recorded = <<>> /\ ops = 0
  /\ missed = 0 /\ unasked = 0 /\ rejected = 0 /\ across = [l \in Layer |-> 0]

\* Bug: the window never makes room.
AddLatencyUnbounded(arr, x) == Append(arr, x)

AddLatency(arr, x) ==
  LET longer == Append(arr, x) IN IF Len(longer) > MaxSamples THEN Tail(longer) ELSE longer

\* Each record call samples or not: it counts n, or nothing.
Sample(n) == {IF s THEN {n} ELSE {} : s \in Sampled}
Count(names) == count' = [n \in Counter |-> IF n \in names THEN count[n] + 1 ELSE count[n]]

TypeHit(t, x) ==
  byType' = [u \in Type |->
    IF u = t THEN [byType[u] EXCEPT !.hits = @ + 1, !.latencies = AddLatency(@, x)]
             ELSE byType[u]]
TypeMiss(t) ==
  byType' = [u \in Type |-> IF u = t THEN [byType[u] EXCEPT !.misses = @ + 1] ELSE byType[u]]

Begin == ops < MaxOps /\ ops' = ops + 1
Asleep(c) == \A w \in waiting : w.call # c
WaitingFor(l) == {w \in waiting : w.on = l}

\* A record call that does not sample changes nothing.
RecordL1Hit(hit, t) ==
  IF hit = {} THEN UNCHANGED windows ELSE
  /\ \E x \in Latency :
       /\ l1Latencies' = AddLatency(l1Latencies, x)
       /\ latencies' = AddLatency(latencies, x)
       /\ recorded' = Append(recorded, <<"l1", x>>)
       /\ TypeHit(t, x)
  /\ UNCHANGED l2Latencies

RecordL2Hit(hit, t) ==
  IF hit = {} THEN UNCHANGED windows ELSE
  /\ \E x \in Latency :
       /\ l2Latencies' = AddLatency(l2Latencies, x)
       /\ latencies' = AddLatency(latencies, x)
       /\ recorded' = Append(recorded, <<"l2", x>>)
       /\ TypeHit(t, x)
  /\ UNCHANGED l1Latencies

RecordL2Miss(miss, t) ==
  /\ IF miss = {} THEN UNCHANGED byType ELSE TypeMiss(t)
  /\ UNCHANGED <<latencies, l1Latencies, l2Latencies, recorded>>

\* CacheManager.get counts itself, then waits for L1.
Get(c, t) ==
  /\ Asleep(c)
  /\ Begin
  /\ \E get \in Sample("gets") : Count(get)
  /\ waiting' = waiting \cup {[call |-> c, type |-> t, on |-> "l1"]}
  /\ UNCHANGED <<windows, history>>

\* When L1 has answered: its hit ends the get, its miss asks L2, if that is there.
AnswerL1(w) ==
  /\ w \in waiting /\ w.on = "l1"
  /\ \/ \E hit \in Sample("l1Hits") :
          /\ Count(hit) /\ RecordL1Hit(hit, w.type)
          /\ waiting' = waiting \ {w}
          /\ UNCHANGED <<missed, unasked>>
     \/ /\ \E miss \in Sample("l1Misses") : Count(miss)
        /\ \/ /\ TRUE \in Connected
              /\ waiting' = (waiting \ {w}) \cup {[w EXCEPT !.on = "l2"]}
              /\ UNCHANGED <<missed, unasked>>
           \/ /\ FALSE \in Connected
              /\ waiting' = waiting \ {w}
              /\ missed' = missed + 1 /\ unasked' = unasked + 1
        /\ UNCHANGED windows
  /\ UNCHANGED <<ops, rejected, across>>

\* Bug: a miss of L2 is not counted.
AnswerL2IgnoresMiss(w) ==
  /\ w \in waiting /\ w.on = "l2"
  /\ waiting' = waiting \ {w}
  /\ \/ \E hit \in Sample("l2Hits") :
          Count(hit) /\ RecordL2Hit(hit, w.type) /\ UNCHANGED missed
     \/ UNCHANGED <<count, windows>> /\ missed' = missed + 1
  /\ UNCHANGED <<ops, unasked, rejected, across>>

\* The end of a get that L2 has answered.
AnswerL2(w) ==
  /\ w \in waiting /\ w.on = "l2"
  /\ waiting' = waiting \ {w}
  /\ \/ \E hit \in Sample("l2Hits") :
          Count(hit) /\ RecordL2Hit(hit, w.type) /\ UNCHANGED missed
     \/ \E miss \in Sample("l2Misses") :
          Count(miss) /\ RecordL2Miss(miss, w.type) /\ missed' = missed + 1
  /\ UNCHANGED <<ops, unasked, rejected, across>>

\* l2.get rejects, and get with it: nothing more is counted.
RejectL2(w) ==
  /\ Rejects
  /\ w \in waiting /\ w.on = "l2"
  /\ waiting' = waiting \ {w}
  /\ rejected' = rejected + 1
  /\ UNCHANGED <<count, windows, ops, missed, unasked, across>>

\* CacheManager.set and delete count themselves first.
SetOrDelete ==
  /\ Begin
  /\ \E n \in {"sets", "deletes"} : \E op \in Sample(n) : Count(op)
  /\ UNCHANGED <<waiting, windows, history>>

Forget ==
  /\ missed' = 0 /\ unasked' = 0 /\ rejected' = 0
  /\ across' = [l \in Layer |-> Cardinality(WaitingFor(l))]

\* Bug: the windows survive a reset.
ResetKeepsWindows ==
  /\ count' = Zero
  /\ recorded' = <<>> /\ Forget
  /\ UNCHANGED <<waiting, ops, byType, latencies, l1Latencies, l2Latencies>>

\* reset: a fresh tracker, while gets may be waiting.
Reset ==
  /\ count' = Zero
  /\ byType' = [t \in Type |-> NoStats]
  /\ latencies' = <<>> /\ l1Latencies' = <<>> /\ l2Latencies' = <<>>
  /\ recorded' = <<>> /\ Forget
  /\ UNCHANGED <<waiting, ops>>

Next ==
  \/ \E c \in Call, t \in Type \cup {NoType} : Get(c, t)
  \/ \E w \in waiting : AnswerL1(w) \/ AnswerL2(w) \/ RejectL2(w)
  \/ SetOrDelete
  \/ Reset

Spec == Init /\ [][Next]_vars

-----------------------------------------------------------------------------
(***************************************************************************)
(* What getStats reports.                                                  *)
(***************************************************************************)

TotalHits == count["l1Hits"] + count["l2Hits"]

\* Bug: the misses of L1 count as well, those that L2 answered included.
TotalMissesOfBoth == count["l1Misses"] + count["l2Misses"]

\* Only the misses of L2 are final.
TotalMisses == count["l2Misses"]

CombinedHitRate == CalculateHitRate(TotalHits, TotalMisses)

LatencyPercentile(p) == PercentileOf(Sorted(latencies), p)

-----------------------------------------------------------------------------
(***************************************************************************)
(* Properties.                                                             *)
(***************************************************************************)

IsWindow(arr) == Len(arr) <= MaxSamples /\ \A i \in DOMAIN arr : arr[i] \in Latency

\* Every variable has its type, and no window is longer than maxLatencySamples.
TypeOK ==
  /\ waiting \subseteq [call : Call, type : Type \cup {NoType}, on : Layer]
  /\ count \in [Counter -> Nat]
  /\ \A t \in Type : /\ {byType[t].hits, byType[t].misses} \subseteq Nat
                     /\ IsWindow(byType[t].latencies)
  /\ IsWindow(latencies) /\ IsWindow(l1Latencies) /\ IsWindow(l2Latencies)
  /\ {ops, missed, unasked, rejected} \subseteq Nat /\ across \in [Layer -> Nat]

\* arr holds the latencies in log of the layers, in their order, of which only
\* the oldest may be missing, and only when it is full.
HoldsLast(arr, log, layers) ==
  LET of == {n \in DOMAIN log : log[n][1] \in layers} IN
  /\ Len(arr) <= MaxSamples
  /\ \E f \in [DOMAIN arr -> of] :
       /\ \A i, j \in DOMAIN arr : i < j => f[i] < f[j]
       /\ \A i \in DOMAIN arr : arr[i] = log[f[i]][2]
       /\ \A n \in of : \/ \E i \in DOMAIN arr : f[i] = n
                        \/ Len(arr) = MaxSamples /\ \A i \in DOMAIN arr : n < f[i]

\* Each window holds the last maxLatencySamples latencies recorded since the
\* last reset, of its layer or of both, in the order they were recorded.
WindowsAreRecent ==
  /\ HoldsLast(latencies, recorded, Layer)
  /\ HoldsLast(l1Latencies, recorded, {"l1"})
  /\ HoldsLast(l2Latencies, recorded, {"l2"})

\* With every request sampled, no get is lost or counted twice, and a reset leaves
\* only the halves of gets it came between: each get becomes a hit or a miss of L1
\* once L1 has answered, each miss of L1 a hit or a miss of L2, unless L2 was not
\* there or rejected; what a reset overtook is counted by its later half only.
CountersAddUp ==
  /\ count["gets"] + across["l1"]
       = count["l1Hits"] + count["l1Misses"] + Cardinality(WaitingFor("l1"))
  /\ count["l1Misses"] + across["l2"]
       = count["l2Hits"] + count["l2Misses"] + unasked + rejected
         + Cardinality(WaitingFor("l2"))

\* p50, p95 and p99 are the nearest-rank percentiles of the latencies in the
\* window.
NearestRank ==
  latencies # <<>> =>
    \A p \in Percents : IsPercentile(latencies, p, LatencyPercentile(p))

\* `Overall hit rate' (stats.types.ts): the share of the answered gets that
\* found a value, unless a get has missed while L2 was not connected, which the
\* collector does not count as a miss.
OverallHitRate ==
  unasked = 0 => SameRatio(CombinedHitRate, CalculateHitRate(TotalHits, missed))

=============================================================================
