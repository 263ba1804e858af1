---------------------------- MODULE MCCoherence ----------------------------
(***************************************************************************)
(* Small instances of Coherence: calls on one server, or one of them on a  *)
(* server of its own; key k1 is stored with type t1, other keys without.   *)
(***************************************************************************)
EXTENDS Coherence, TLC

CONSTANTS c1, c2, c3, s1, s2, k1, t1

OneServer == [c \in Call |-> s1]
TwoServers == [c \in Call |-> IF c = c1 THEN s1 ELSE s2]

OneType == [k \in Key |-> IF k = k1 THEN t1 ELSE NoType]

OneServerSymmetry == Permutations(Call)
TwoServersSymmetry == Permutations(Call \ {c1})

=============================================================================
