---------------------------- MODULE MonotonicReads ----------------------------
(***************************************************************************)
(* What the L1 of a server promises its readers: a copy is a value that    *)
(* was written, and never older than a shared value that was read there    *)
(* before.  A value written while the server was cut off is its own; it    *)
(* may give way to an older shared one.                                    *)
(***************************************************************************)
EXTENDS Naturals

CONSTANTS Server, Key

VARIABLES
  latest,    \* the number of writes so far; each is named by its rank
  offline,   \* the values written while a server was cut off
  copy,      \* what a reader of a server is given, 0 for nothing
  seen       \* the last shared value a server had

vars == <<latest, offline, copy, seen>>

Init ==
  /\ latest = 0 /\ offline = {}
  /\ copy = [s \in Server |-> [k \in Key |-> 0]]
  /\ seen = copy

\* The shared store takes another value.
Write == latest' = latest + 1 /\ UNCHANGED <<offline, copy, seen>>

WriteAlone(s, k) ==
  /\ latest' = latest + 1
  /\ offline' = offline \cup {latest + 1}
  /\ copy' = [copy EXCEPT ![s][k] = latest + 1]
  /\ UNCHANGED seen

\* A copy is taken of a shared value, never of one older than the last.
Take(s, k, r) ==
  /\ r \notin offline /\ seen[s][k] <= r
  /\ copy' = [copy EXCEPT ![s][k] = r]
  /\ seen' = [seen EXCEPT ![s][k] = r]
  /\ UNCHANGED <<latest, offline>>

Drop(s, keys) ==
  /\ copy' = [copy EXCEPT ![s] = [k \in Key |-> IF k \in keys THEN 0 ELSE @[k]]]
  /\ UNCHANGED <<latest, offline, seen>>

Next ==
  \/ Write
  \/ \E s \in Server :
       \/ \E k \in Key : WriteAlone(s, k) \/ \E r \in 1 .. latest : Take(s, k, r)
       \/ \E keys \in SUBSET Key : Drop(s, keys)

Spec == Init /\ [][Next]_vars

===============================================================================
