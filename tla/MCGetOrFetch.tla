---------------------------- MODULE MCGetOrFetch ----------------------------
(***************************************************************************)
(* Small instances of GetOrFetch: three calls on two servers.              *)
(***************************************************************************)
EXTENDS GetOrFetch, TLC

CONSTANTS c1, c2, c3, s1, s2

TwoServers == [c \in Caller |-> IF c = c1 THEN s1 ELSE s2]

\* Callers of the same server are interchangeable.
TwoServersSymmetry == Permutations(Caller \ {c1})

=============================================================================
