----------------------------- MODULE LRUPolicy -----------------------------
(***************************************************************************)
(* What the L1 store of the multi-level cache promises about WHICH keys it *)
(* keeps, with no linked list: a key that has to make room for another one *)
(* is always the key whose last use lies furthest back, it goes only when  *)
(* the store is full, an entry reported as expired has outlived its TTL,   *)
(* and a key leaves in no other way than by an announced eviction or by    *)
(* clear().  LRUCache implements this specification.                       *)
(*                                                                         *)
(* Values are left out: the policy never looks at them.                    *)
(***************************************************************************)
EXTENDS Naturals, FiniteSets

CONSTANTS Key,      \* the keys callers use
          MaxSize,  \* L1Config.maxSize
          TTL       \* the TTLs callers pass, in ticks of the clock

VARIABLES cached,   \* the keys the store holds
          left,     \* left[k]: ticks until k expires, 0 once it has
          used,     \* used[k]: the number of the operation that last used k
          uses,     \* operations that used a key so far
          emitted   \* the eviction events the last step announced

policyVars == <<cached, left, used, uses, emitted>>

Event(k, reason) == [key |-> k, reason |-> reason]

\* k was used before every other key of the store.
LeastRecentlyUsed(k) == \A j \in cached \ {k} : used[k] < used[j]

PolicyInit ==
  /\ cached = {}
  /\ left = [k \in Key |-> 0]
  /\ used = [k \in Key |-> 0]
  /\ uses = 0
  /\ emitted = {}

\* k becomes the most recently used key.
Use(k) ==
  /\ uses' = uses + 1
  /\ used' = [used EXCEPT ![k] = uses + 1]
  /\ emitted' = {}

\* k leaves the store, announced with a reason.
Leave(k, reason) ==
  /\ k \in cached
  /\ cached' = cached \ {k}
  /\ left' = [left EXCEPT ![k] = 0]
  /\ used' = [used EXCEPT ![k] = 0]
  /\ emitted' = {Event(k, reason)}
  /\ UNCHANGED uses

Touch(k) == k \in cached /\ left[k] > 0 /\ Use(k) /\ UNCHANGED <<cached, left>>

Renew(k, t) ==
  /\ k \in cached
  /\ Use(k)
  /\ left' = [left EXCEPT ![k] = t]
  /\ UNCHANGED cached

Add(k, t) ==
  /\ k \notin cached
  /\ Cardinality(cached) < MaxSize
  /\ cached' = cached \cup {k}
  /\ Use(k)
  /\ left' = [left EXCEPT ![k] = t]

MakeRoom(k) ==
  /\ Cardinality(cached) >= MaxSize
  /\ LeastRecentlyUsed(k)
  /\ Leave(k, "lru")

Expire(k) == left[k] = 0 /\ Leave(k, "ttl")

Remove(k) == Leave(k, "manual")

Empty ==
  /\ cached' = {}
  /\ left' = [k \in Key |-> 0]
  /\ used' = [k \in Key |-> 0]
  /\ emitted' = {}
  /\ UNCHANGED uses

Age ==
  /\ left' = [k \in Key |-> IF left[k] > 0 THEN left[k] - 1 ELSE 0]
  /\ UNCHANGED <<cached, used, uses, emitted>>

\* A step that changes no entry and announces nothing.
Quiet == emitted' = {} /\ UNCHANGED <<cached, left, used, uses>>

PolicyNext ==
  \/ \E k \in Key : \/ Touch(k)
                    \/ \E t \in TTL : Renew(k, t) \/ Add(k, t)
                    \/ MakeRoom(k)
                    \/ Expire(k)
                    \/ Remove(k)
  \/ Empty
  \/ Age
  \/ Quiet

PolicySpec == PolicyInit /\ [][PolicyNext]_policyVars

=============================================================================
