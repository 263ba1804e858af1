-------------------------- MODULE MCGetOrFetchOnce --------------------------
(***************************************************************************)
(* Both modes of GetOrFetch in one run, with a prompt origin and no        *)
(* faults: three calls of two keys, on two servers under the distributed   *)
(* lock, or on one server under its in-memory lock.  That server is named  *)
(* as the place of the distributed locks, so that in both modes the locks  *)
(* have the same names, and the properties of GetOrFetch speak of both.    *)
(***************************************************************************)
EXTENDS GetOrFetch, TLC

CONSTANTS c1, c2, c3, s1, s2

VARIABLE mode   \* "redis" or "memory", chosen once

TwoServers == [c \in Caller |-> IF c = c1 THEN s1 ELSE s2]

\* A shorter lease and the least wait that the theorems ask for.
InMemory == INSTANCE GetOrFetch WITH
  Server <- {Redis}, Home <- [c \in Caller |-> Redis], HasL2 <- FALSE,
  LockTtl <- 3, WaitTime <- 19, MaxFetch <- 2, MaxLosses <- 1

OnceInit ==
  \/ mode = "redis" /\ Init
  \/ mode = "memory" /\ InMemory!Init

OnceNext ==
  /\ UNCHANGED mode
  /\ \/ mode = "redis" /\ Next
     \/ mode = "memory" /\ InMemory!Next

OnceSpec == OnceInit /\ [][OnceNext]_<<mode, vars>>

\* Callers of the same server are interchangeable, in both modes, and so are keys.
Symmetry == Permutations({c2, c3}) \cup Permutations(Key)

=============================================================================
