------------------------------ MODULE LRUCache ------------------------------
(***************************************************************************)
(* The L1 store, src/l1/lru-cache.ts: a Map from keys to nodes, and the    *)
(* nodes threaded on a doubly linked list from the most (head) to the      *)
(* least (tail) recently used one.  Every method is synchronous up to its  *)
(* last statement, so an operation is one step; the two loops (the         *)
(* eviction loop of set, the sweep of evictExpired) take one step per      *)
(* iteration, with `op' holding every other operation off meanwhile.       *)
(*                                                                         *)
(* Nodes are named by their key.  The pointers of a node that left the Map *)
(* are reset to Null: the node is garbage and nobody reads them.  Values   *)
(* are left out; time is counted down, so that expiresAt <= now reads      *)
(* left[k] = 0.  used and uses are history variables: no guard reads them  *)
(* but the bound MaxUses.                                                  *)
(***************************************************************************)
EXTENDS Naturals, FiniteSets

CONSTANTS Key, Null, MaxSize, TTL,
          MaxUses   \* bound on the history counter, for TLC

ASSUME NullAssumption == Null \notin Key
ASSUME SizeAssumption == MaxSize \in Nat
ASSUME TTLAssumption == TTL \subseteq Nat
ASSUME UsesAssumption == MaxUses \in Nat

VARIABLES cached,   \* the keys of `map'
          list,     \* head and tail, and the prev and next of every node
          left,     \* ticks until expiresAt
          op,       \* the loop that is running, if one is
          todo,     \* keysToDelete of a running evictExpired
          emitted,  \* events handed to the eviction listeners by the last step
          used, uses

vars == <<cached, list, left, op, todo, emitted, used, uses>>

Event(k, reason) == [key |-> k, reason |-> reason]

Idle == [kind |-> "idle", key |-> Null, ttl |-> 0]
Setting(k, t) == [kind |-> "set", key |-> k, ttl |-> t]
Sweeping == [kind |-> "sweep", key |-> Null, ttl |-> 0]

NoList == [head |-> Null, tail |-> Null,
           prev |-> [k \in Key |-> Null], next |-> [k \in Key |-> Null]]

-----------------------------------------------------------------------------
(***************************************************************************)
(* The list operations, as functions from list to list.                    *)
(***************************************************************************)

\* Bug: node.next.prev keeps pointing at the removed node.
RemoveNodeKeepsBackPointer(l, k) ==
  LET p == l.prev[k]
      n == l.next[k]
  IN  [head |-> IF p = Null THEN n ELSE l.head,
       tail |-> IF n = Null THEN p ELSE l.tail,
       prev |-> l.prev,
       next |-> IF p = Null THEN l.next ELSE [l.next EXCEPT ![p] = n]]

RemoveNode(l, k) ==
  LET p == l.prev[k]
      n == l.next[k]
  IN  [head |-> IF p = Null THEN n ELSE l.head,
       tail |-> IF n = Null THEN p ELSE l.tail,
       prev |-> IF n = Null THEN l.prev ELSE [l.prev EXCEPT ![n] = p],
       next |-> IF p = Null THEN l.next ELSE [l.next EXCEPT ![p] = n]]

AddToHead(l, k) ==
  [head |-> k,
   tail |-> IF l.tail = Null THEN k ELSE l.tail,
   prev |-> [j \in Key |-> IF j = k THEN Null
                           ELSE IF j = l.head THEN k ELSE l.prev[j]],
   next |-> [l.next EXCEPT ![k] = l.head]]

\* Bug: a use does not move the node, the list is a FIFO queue.
MoveToHeadNever(l, k) == l

MoveToHead(l, k) == IF k = l.head THEN l ELSE AddToHead(RemoveNode(l, k), k)

\* Called with l.tail # Null: `if (!node) return null' is in EvictTail.
RemoveTail(l) ==
  LET p == l.prev[l.tail]
  IN  IF p = Null
      THEN [l EXCEPT !.head = Null, !.tail = Null]
      ELSE [l EXCEPT !.tail = p, !.next = [l.next EXCEPT ![p] = Null]]

\* The pointers of a node nothing refers to any more.
Forget(l, k) == [l EXCEPT !.prev = [l.prev EXCEPT ![k] = Null],
                          !.next = [l.next EXCEPT ![k] = Null]]

-----------------------------------------------------------------------------

Init ==
  /\ cached = {}
  /\ list = NoList
  /\ left = [k \in Key |-> 0]
  /\ op = Idle
  /\ todo = {}
  /\ emitted = {}
  /\ used = [k \in Key |-> 0]
  /\ uses = 0

IsExpired(k) == left[k] = 0

\* The bound on the history counter.
MayUse == uses < MaxUses

\* k was used just now (history).
Use(k) ==
  /\ uses' = uses + 1
  /\ used' = [used EXCEPT ![k] = uses + 1]

\* map.delete(k) and emitEviction(k, reason), once the list is l.
Drop(k, l, reason) ==
  /\ cached' = cached \ {k}
  /\ list' = Forget(l, k)
  /\ left' = [left EXCEPT ![k] = 0]
  /\ used' = [used EXCEPT ![k] = 0]
  /\ emitted' = {Event(k, reason)}
  /\ UNCHANGED uses

Unlink(k, reason) == k \in cached /\ Drop(k, RemoveNode(list, k), reason)

\* The call returns without touching an entry.
NoEffect == emitted' = {} /\ UNCHANGED <<cached, list, left, op, todo, used, uses>>

Get(k) ==
  /\ op = Idle
  /\ \/ k \notin cached /\ NoEffect
     \/ IsExpired(k) /\ Unlink(k, "ttl") /\ UNCHANGED <<op, todo>>
     \/ /\ k \in cached
        /\ ~IsExpired(k)
        /\ MayUse
        /\ list' = MoveToHead(list, k)
        /\ Use(k)
        /\ emitted' = {}
        /\ UNCHANGED <<cached, left, op, todo>>

Has(k) ==
  /\ op = Idle
  /\ \/ k \notin cached /\ NoEffect
     \/ k \in cached /\ ~IsExpired(k) /\ NoEffect
     \/ IsExpired(k) /\ Unlink(k, "ttl") /\ UNCHANGED <<op, todo>>

Delete(k) ==
  /\ op = Idle
  /\ \/ k \notin cached /\ NoEffect
     \/ Unlink(k, "manual") /\ UNCHANGED <<op, todo>>

\* set() on a key the map holds: the node is updated where it is, even if it
\* has expired meanwhile.
SetExisting(k, t) ==
  /\ op = Idle
  /\ k \in cached
  /\ MayUse
  /\ left' = [left EXCEPT ![k] = t]
  /\ list' = MoveToHead(list, k)
  /\ Use(k)
  /\ emitted' = {}
  /\ UNCHANGED <<cached, op, todo>>

\* set() on a new key, up to the eviction loop.
BeginSet(k, t) ==
  /\ op = Idle
  /\ k \notin cached
  /\ MayUse
  /\ op' = Setting(k, t)
  /\ emitted' = {}
  /\ UNCHANGED <<cached, list, left, todo, used, uses>>

\* Bug: the loop stops one entry too late.
FullOffByOne == Cardinality(cached) > MaxSize

Full == Cardinality(cached) >= MaxSize

\* Bug: the evicted node leaves the list but not the map.
EvictTailKeepsMapEntry ==
  /\ op.kind = "set"
  /\ Full
  /\ list.tail # Null
  /\ list' = Forget(RemoveTail(list), list.tail)
  /\ emitted' = {Event(list.tail, "lru")}
  /\ UNCHANGED <<cached, left, used, uses, op, todo>>

\* One iteration of `while (this.map.size >= this.maxSize)'.  removeTail()
\* returns null on an empty list: with a maxSize of 0 the loop spins forever.
EvictTail ==
  /\ op.kind = "set"
  /\ Full
  /\ IF list.tail = Null THEN NoEffect
     ELSE Drop(list.tail, RemoveTail(list), "lru") /\ UNCHANGED <<op, todo>>

\* map.set and addToHead, after the loop.
Insert ==
  /\ op.kind = "set"
  /\ ~Full
  /\ cached' = cached \cup {op.key}
  /\ list' = AddToHead(list, op.key)
  /\ left' = [left EXCEPT ![op.key] = op.ttl]
  /\ Use(op.key)
  /\ op' = Idle
  /\ emitted' = {}
  /\ UNCHANGED todo

\* keys() and entries() start with evictExpired(): the expired keys are
\* collected first and removed one by one afterwards.
BeginSweep ==
  /\ op = Idle
  /\ op' = Sweeping
  /\ todo' = {k \in cached : IsExpired(k)}
  /\ emitted' = {}
  /\ UNCHANGED <<cached, list, left, used, uses>>

SweepOne(k) ==
  /\ op = Sweeping
  /\ k \in todo
  /\ todo' = todo \ {k}
  /\ Unlink(k, "ttl")
  /\ UNCHANGED op

EndSweep ==
  /\ op = Sweeping
  /\ todo = {}
  /\ op' = Idle
  /\ emitted' = {}
  /\ UNCHANGED <<cached, list, left, todo, used, uses>>

\* Bug: the map is emptied, head and tail keep the old nodes.
ClearKeepsList ==
  /\ op = Idle
  /\ cached' = {}
  /\ left' = [k \in Key |-> 0]
  /\ used' = [k \in Key |-> 0]
  /\ emitted' = {}
  /\ UNCHANGED <<list, op, todo, uses>>

Clear ==
  /\ op = Idle
  /\ cached' = {}
  /\ list' = NoList
  /\ left' = [k \in Key |-> 0]
  /\ used' = [k \in Key |-> 0]
  /\ emitted' = {}
  /\ UNCHANGED <<op, todo, uses>>

\* Time passes only between operations.
Tick ==
  /\ op = Idle
  /\ left' = [k \in Key |-> IF left[k] > 0 THEN left[k] - 1 ELSE 0]
  /\ UNCHANGED <<cached, list, op, todo, emitted, used, uses>>

Loop == EvictTail \/ Insert \/ (\E k \in Key : SweepOne(k)) \/ EndSweep

Next ==
  \/ \E k \in Key : \/ Get(k) \/ Has(k) \/ Delete(k)
                    \/ \E t \in TTL : SetExisting(k, t) \/ BeginSet(k, t)
  \/ BeginSweep
  \/ Clear
  \/ Tick
  \/ Loop

Spec == Init /\ [][Next]_vars

\* A call that has started runs on: JavaScript never suspends it.
FairSpec == Spec /\ WF_vars(Loop)

-----------------------------------------------------------------------------

ListOver(S) == [head : S \cup {Null}, tail : S \cup {Null},
                prev : [Key -> Key \cup {Null}], next : [Key -> Key \cup {Null}]]

\* l threads exactly the keys of S.
Threads(l, S) ==
  /\ l.head = Null <=> S = {}
  /\ l.tail = Null <=> S = {}
  /\ \A k \in S :
       /\ l.prev[k] = Null <=> k = l.head
       /\ l.next[k] = Null <=> k = l.tail
       /\ l.prev[k] # Null => l.prev[k] \in S /\ l.next[l.prev[k]] = k
       /\ l.next[k] # Null => l.next[k] \in S /\ l.prev[l.next[k]] = k

\* Along l, u decreases from each key of S to the next.
Decreasing(l, S, u) == \A k \in S : l.next[k] # Null => u[l.next[k]] < u[k]

StoreTypes ==
  /\ cached \subseteq Key
  /\ list \in ListOver(cached)
  /\ left \in [Key -> Nat]
  /\ used \in [Key -> Nat]
  /\ uses \in Nat
  /\ emitted \subseteq [key : Key, reason : {"lru", "ttl", "manual"}]

LoopTypes ==
  /\ \/ op \in {Idle, Sweeping}
     \/ \E k \in Key \ cached, t \in TTL : op = Setting(k, t)
  /\ op # Sweeping => todo = {}
  /\ todo \subseteq {k \in cached : IsExpired(k)}

\* Types; head and tail always name nodes of the map (clear and the removals
\* reset them), the loops work on keys they may work on.
TypeOK == StoreTypes /\ LoopTypes

\* The list and the map hold the same nodes: walking prev or next from a node
\* of the map stays in the map, prev undoes next, and exactly the head has no
\* predecessor and the tail no successor, whatever sequence of get, set,
\* delete, expiry and eviction came before.
Linked == Threads(list, cached)

\* The list is sorted by recency: each node was used later than its
\* successor, so the list has no cycle and its tail is the node removeTail
\* may evict.
RecencyOrder ==
  /\ \A k \in cached : used[k] \in 1 .. uses
  /\ \A j, k \in cached : used[j] = used[k] => j = k
  /\ Decreasing(list, cached, used)

\* L1Config.maxSize, `Maximum number of items in cache', holds in every state,
\* in the middle of a set included.
SizeBound == Cardinality(cached) <= MaxSize

\* The linked list implements least-recently-used eviction: what set evicts is
\* the key whose last get or set lies furthest back, and no entry leaves
\* unannounced except by clear.
Policy == INSTANCE LRUPolicy
ImplementsPolicy == Policy!PolicySpec

\* Every call that enters a loop gets out of it (the eviction loop of set, for
\* a maxSize of at least 1; the sweep of keys).
CallsTerminate == op # Idle ~> op = Idle

=============================================================================
