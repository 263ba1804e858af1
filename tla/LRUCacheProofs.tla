--------------------------- MODULE LRUCacheProofs ---------------------------
(***************************************************************************)
(* Proofs about LRUCache, for every set of keys and every maxSize.         *)
(*                                                                         *)
(* The list operations are pure functions, so the argument is made about   *)
(* them first: on a list that threads a set of keys in decreasing order of *)
(* last use, RemoveNode and AddToHead yield such a list again.  The order  *)
(* is what rules out cycles, and without it "the list is empty when head   *)
(* is null" could not be proved; that is why RecencyOrder is part of the   *)
(* invariant although Linked does not mention it.                          *)
(***************************************************************************)
EXTENDS LRUCache, FiniteSetTheorems, WellFoundedInduction, TLAPS

\* A non-empty set of keys has one used no later than the others.
LEMMA OldestExists ==
  ASSUME NEW S \in SUBSET Key, S # {}, NEW u \in [Key -> Nat]
  PROVE  \E x \in S : \A y \in S : u[x] <= u[y]
<1> DEFINE R == OpToRel(<, Nat)
           T == {u[k] : k \in S}
<1>1. IsWellFoundedOn(R, Nat)
  BY NatLessThanWellFounded
<1>2. T \subseteq Nat /\ T # {}
  OBVIOUS
<1>3. PICK n \in T : \A m \in T : ~(<<m, n>> \in R)
  BY <1>1, <1>2, WFMin, Zenon
<1>4. PICK x \in S : u[x] = n
  OBVIOUS
<1>5. ASSUME NEW y \in S PROVE u[x] <= u[y]
  <2>1. ~(<<u[y], u[x]>> \in R)
    BY <1>3, <1>4
  <2>2. ~(u[y] < u[x])
    BY <2>1 DEF OpToRel
  <2> QED BY <2>2
<1> QED BY <1>5

\* On a list in decreasing order of use, the tail is the oldest key.
LEMMA TailIsOldest ==
  ASSUME NEW S \in SUBSET Key, NEW l \in ListOver(S), NEW u \in [Key -> Nat],
         Threads(l, S), Decreasing(l, S, u), S # {}
  PROVE  l.tail \in S /\ \A k \in S : u[l.tail] <= u[k]
<1>1. PICK x \in S : \A y \in S : u[x] <= u[y]
  BY OldestExists
<1>2. l.next[x] = Null
  <2> SUFFICES ASSUME l.next[x] # Null PROVE FALSE
    OBVIOUS
  <2>1. l.next[x] \in S /\ u[l.next[x]] < u[x]
    BY DEF Threads, Decreasing
  <2>2. u[x] <= u[l.next[x]]
    BY <1>1, <2>1
  <2> QED BY <2>1, <2>2
<1>3. x = l.tail
  BY <1>2 DEF Threads
<1> QED BY <1>1, <1>3

\* A key without neighbours is alone on the list.
LEMMA LoneKey ==
  ASSUME NEW S \in SUBSET Key, NEW l \in ListOver(S), NEW u \in [Key -> Nat],
         Threads(l, S), Decreasing(l, S, u), NEW k \in S,
         l.head = k, l.tail = k
  PROVE  S = {k}
<1> SUFFICES ASSUME S \ {k} # {} PROVE FALSE
  OBVIOUS
<1>1. PICK x \in S \ {k} : \A y \in S \ {k} : u[x] <= u[y]
  <2>1. S \ {k} \in SUBSET Key
    OBVIOUS
  <2> QED BY <2>1, OldestExists
<1>2. l.next[x] # Null
  BY <1>1 DEF Threads
<1>3. l.next[x] \in S /\ u[l.next[x]] < u[x] /\ l.prev[l.next[x]] = x
  BY <1>1, <1>2 DEF Threads, Decreasing
<1>4. l.next[x] = k
  <2> SUFFICES ASSUME l.next[x] # k PROVE FALSE
    OBVIOUS
  <2>1. u[x] <= u[l.next[x]]
    BY <1>1, <1>3
  <2>2. u[x] \in Nat /\ u[l.next[x]] \in Nat
    BY <1>1, <1>3
  <2> QED BY <1>3, <2>1, <2>2
<1>5. l.prev[k] = Null
  BY DEF Threads
<1>6. x # Null
  BY <1>1, NullAssumption
<1> QED BY <1>3, <1>4, <1>5, <1>6

\* removeNode unthreads k and leaves the other keys threaded in their order.
LEMMA RemoveNodeThreads ==
  ASSUME NEW S \in SUBSET Key, NEW l \in ListOver(S), NEW u \in [Key -> Nat],
         Threads(l, S), Decreasing(l, S, u), NEW k \in S
  PROVE  /\ RemoveNode(l, k) \in ListOver(S \ {k})
         /\ Threads(RemoveNode(l, k), S \ {k})
         /\ Decreasing(RemoveNode(l, k), S \ {k}, u)
<1> DEFINE p == l.prev[k]
           n == l.next[k]
           m == RemoveNode(l, k)
<1>1. p # Null => p \in S \ {k} /\ l.next[p] = k /\ u[k] < u[p]
  <2> SUFFICES ASSUME p # Null PROVE p \in S \ {k} /\ l.next[p] = k /\ u[k] < u[p]
    OBVIOUS
  <2>1. p \in S /\ l.next[p] = k
    BY DEF Threads
  <2>2. k # Null
    BY NullAssumption
  <2>3. u[k] < u[p]
    BY <2>1, <2>2 DEF Decreasing
  <2>4. u[k] \in Nat
    OBVIOUS
  <2> QED BY <2>1, <2>3, <2>4
<1>2. n # Null => n \in S \ {k} /\ l.prev[n] = k /\ u[n] < u[k]
  <2> SUFFICES ASSUME n # Null PROVE n \in S \ {k} /\ l.prev[n] = k /\ u[n] < u[k]
    OBVIOUS
  <2>1. n \in S /\ l.prev[n] = k
    BY DEF Threads
  <2>2. u[n] < u[k]
    BY DEF Decreasing
  <2>3. u[k] \in Nat
    OBVIOUS
  <2> QED BY <2>1, <2>2, <2>3
<1>3. p # Null /\ n # Null => p # n
  BY <1>1, <1>2
<1>4. p = Null <=> k = l.head
  BY DEF Threads
<1>5. n = Null <=> k = l.tail
  BY DEF Threads
<1>6. /\ m.head = IF p = Null THEN n ELSE l.head
      /\ m.tail = IF n = Null THEN p ELSE l.tail
      /\ m.prev \in [Key -> Key \cup {Null}]
      /\ m.next \in [Key -> Key \cup {Null}]
      /\ \A j \in Key : m.prev[j] = IF n # Null /\ j = n THEN p ELSE l.prev[j]
      /\ \A j \in Key : m.next[j] = IF p # Null /\ j = p THEN n ELSE l.next[j]
  BY <1>1, <1>2 DEF RemoveNode, ListOver
<1>7. m.head \in (S \ {k}) \cup {Null} /\ m.tail \in (S \ {k}) \cup {Null}
  BY <1>1, <1>2, <1>4, <1>5, <1>6 DEF ListOver
<1>8. m \in ListOver(S \ {k})
  BY <1>6, <1>7 DEF RemoveNode, ListOver
<1>9. m.head = Null <=> S \ {k} = {}
  <2>1. CASE p = Null /\ n = Null
    <3>1. S = {k}
      BY <2>1, <1>4, <1>5, LoneKey
    <3> QED BY <3>1, <2>1, <1>6
  <2>2. CASE p # Null
    <3>1. l.head # Null
      BY DEF Threads
    <3> QED BY <2>2, <3>1, <1>1, <1>6
  <2>3. CASE n # Null
    <3>1. l.head # Null
      BY DEF Threads
    <3> QED BY <2>3, <3>1, <1>2, <1>6
  <2> QED BY <2>1, <2>2, <2>3
<1>10. m.tail = Null <=> S \ {k} = {}
  <2>1. CASE p = Null /\ n = Null
    <3>1. S = {k}
      BY <2>1, <1>4, <1>5, LoneKey
    <3> QED BY <3>1, <2>1, <1>6
  <2>2. CASE p # Null
    <3>1. l.tail # Null
      BY DEF Threads
    <3> QED BY <2>2, <3>1, <1>1, <1>6
  <2>3. CASE n # Null
    <3>1. l.tail # Null
      BY DEF Threads
    <3> QED BY <2>3, <3>1, <1>2, <1>6
  <2> QED BY <2>1, <2>2, <2>3
<1>11. ASSUME NEW j \in S \ {k}
       PROVE  /\ m.prev[j] = Null <=> j = m.head
              /\ m.prev[j] # Null => m.prev[j] \in S \ {k} /\ m.next[m.prev[j]] = j
  <2>1. /\ l.prev[j] = Null <=> j = l.head
        /\ l.prev[j] # Null => l.prev[j] \in S /\ l.next[l.prev[j]] = j
    BY DEF Threads
  <2>2. j \in Key /\ j # Null
    BY NullAssumption
  <2>3. CASE j = n
    <3>1. m.prev[j] = p
      BY <2>2, <2>3, <1>6
    <3>2. p = Null => m.head = j
      BY <2>3, <1>6
    <3>3. p # Null => j # m.head
      BY <1>2, <1>4, <1>6, <2>1, <2>2, <2>3, NullAssumption
    <3>4. p # Null => p \in S \ {k} /\ m.next[p] = j
      BY <1>1, <1>6, <2>3
    <3> QED BY <3>1, <3>2, <3>3, <3>4
  <2>4. CASE j # n
    <3>1. m.prev[j] = l.prev[j]
      BY <2>2, <2>4, <1>6
    <3>2. l.prev[j] # k
      BY <2>1, <2>2, <2>4, NullAssumption
    <3>3. l.prev[j] = Null <=> j = m.head
      BY <2>1, <2>2, <2>4, <1>4, <1>6
    <3>4. l.prev[j] # Null => l.prev[j] # p
      BY <1>1, <2>1
    <3>5. l.prev[j] # Null => l.prev[j] \in S \ {k} /\ m.next[l.prev[j]] = j
      BY <2>1, <3>2, <3>4, <1>6
    <3> QED BY <3>1, <3>3, <3>5
  <2> QED BY <2>3, <2>4
<1>12. ASSUME NEW j \in S \ {k}
       PROVE  /\ m.next[j] = Null <=> j = m.tail
              /\ m.next[j] # Null => /\ m.next[j] \in S \ {k}
                                     /\ m.prev[m.next[j]] = j
                                     /\ u[m.next[j]] < u[j]
  <2>1. /\ l.next[j] = Null <=> j = l.tail
        /\ l.next[j] # Null => /\ l.next[j] \in S
                               /\ l.prev[l.next[j]] = j
                               /\ u[l.next[j]] < u[j]
    BY DEF Threads, Decreasing
  <2>2. j \in Key /\ j # Null
    BY NullAssumption
  <2>3. CASE j = p
    <3>1. m.next[j] = n
      BY <2>2, <2>3, <1>6
    <3>2. n = Null => m.tail = j
      BY <2>3, <1>6
    <3>3. n # Null => j # m.tail
      BY <1>1, <1>5, <1>6, <2>1, <2>2, <2>3, NullAssumption
    <3>4. n # Null => n \in S \ {k} /\ m.prev[n] = j
      BY <1>2, <1>6, <2>3
    <3>5. n # Null => u[n] < u[j]
      <4>1. \/ n = Null
            \/ /\ u[n] < u[k] /\ u[k] < u[p]
               /\ u[k] \in Nat /\ u[p] \in Nat /\ u[n] \in Nat
        BY <1>1, <1>2, <2>2, <2>3
      <4> QED BY <4>1, <2>3
    <3> QED BY <3>1, <3>2, <3>3, <3>4, <3>5
  <2>4. CASE j # p
    <3>1. m.next[j] = l.next[j]
      BY <2>2, <2>4, <1>6
    <3>2. l.next[j] # k
      BY <2>1, <2>2, <2>4, NullAssumption
    <3>3. l.next[j] = Null <=> j = m.tail
      BY <2>1, <2>2, <2>4, <1>5, <1>6
    <3>4. l.next[j] # Null => l.next[j] # n
      BY <1>2, <2>1
    <3>5. l.next[j] # Null => l.next[j] \in S \ {k} /\ m.prev[l.next[j]] = j
      BY <2>1, <3>2, <3>4, <1>6
    <3> QED BY <2>1, <3>1, <3>3, <3>5
  <2> QED BY <2>3, <2>4
<1>13. Threads(m, S \ {k})
  BY <1>9, <1>10, <1>11, <1>12 DEF Threads
<1>14. Decreasing(m, S \ {k}, u)
  BY <1>12 DEF Decreasing
<1> QED BY <1>8, <1>13, <1>14

\* Resetting the pointers of keys that are not on the list changes nothing.
LEMMA ForgetThreads ==
  ASSUME NEW S \in SUBSET Key, NEW l \in ListOver(S), NEW u \in [Key -> Nat],
         Threads(l, S), Decreasing(l, S, u), NEW k \in Key \ S
  PROVE  /\ Forget(l, k) \in ListOver(S)
         /\ Threads(Forget(l, k), S)
         /\ Decreasing(Forget(l, k), S, u)
<1> DEFINE m == Forget(l, k)
<1>1. /\ m.head = l.head /\ m.tail = l.tail
      /\ m.prev \in [Key -> Key \cup {Null}]
      /\ m.next \in [Key -> Key \cup {Null}]
      /\ \A j \in S : m.prev[j] = l.prev[j] /\ m.next[j] = l.next[j]
  BY DEF Forget, ListOver
<1>2. m \in ListOver(S)
  BY DEF Forget, ListOver
<1>3. Threads(m, S)
  BY <1>1 DEF Threads
<1>4. Decreasing(m, S, u)
  BY <1>1 DEF Decreasing
<1> QED BY <1>2, <1>3, <1>4

\* addToHead puts a key that was not on the list in front of the others, in
\* order if its use (w) is later than theirs (u).
LEMMA AddToHeadThreads ==
  ASSUME NEW S \in SUBSET Key, NEW l \in ListOver(S), NEW u \in [Key -> Nat],
         Threads(l, S), Decreasing(l, S, u),
         NEW k \in Key \ S, NEW w \in [Key -> Nat],
         \A j \in S : w[j] = u[j] /\ w[j] < w[k]
  PROVE  /\ AddToHead(l, k) \in ListOver(S \cup {k})
         /\ Threads(AddToHead(l, k), S \cup {k})
         /\ Decreasing(AddToHead(l, k), S \cup {k}, w)
<1> DEFINE m == AddToHead(l, k)
<1>1. k # Null
  BY NullAssumption
<1>2. /\ m.head = k
      /\ m.tail = IF l.tail = Null THEN k ELSE l.tail
      /\ m.prev \in [Key -> Key \cup {Null}]
      /\ m.next \in [Key -> Key \cup {Null}]
      /\ m.prev[k] = Null
      /\ m.next[k] = l.head
      /\ \A j \in S : /\ m.prev[j] = IF j = l.head THEN k ELSE l.prev[j]
                      /\ m.next[j] = l.next[j]
  BY DEF AddToHead, ListOver
<1>3. m \in ListOver(S \cup {k})
  BY <1>2 DEF AddToHead, ListOver
<1>4. l.head = Null <=> S = {}
  BY DEF Threads
<1>5. l.tail = Null <=> S = {}
  BY DEF Threads
<1>6. l.head \in S \cup {Null} /\ l.tail \in S \cup {Null}
  BY DEF ListOver
<1>7. ASSUME NEW j \in S
      PROVE  /\ l.prev[j] = Null <=> j = l.head
             /\ l.next[j] = Null <=> j = l.tail
             /\ l.prev[j] # Null => l.prev[j] \in S /\ l.next[l.prev[j]] = j
             /\ l.next[j] # Null => /\ l.next[j] \in S
                                    /\ l.prev[l.next[j]] = j
                                    /\ u[l.next[j]] < u[j]
  BY DEF Threads, Decreasing
<1>8. ASSUME NEW j \in S \cup {k}
      PROVE  /\ m.prev[j] = Null <=> j = m.head
             /\ m.prev[j] # Null => m.prev[j] \in S \cup {k} /\ m.next[m.prev[j]] = j
  <2>1. CASE j = k
    BY <2>1, <1>2
  <2>2. CASE j # k /\ j = l.head
    BY <2>2, <1>1, <1>2
  <2>3. CASE j # k /\ j # l.head
    BY <2>3, <1>2, <1>7
  <2> QED BY <2>1, <2>2, <2>3
<1>9. ASSUME NEW j \in S \cup {k}
      PROVE  /\ m.next[j] = Null <=> j = m.tail
             /\ m.next[j] # Null => /\ m.next[j] \in S \cup {k}
                                    /\ m.prev[m.next[j]] = j
                                    /\ w[m.next[j]] < w[j]
  <2>1. CASE j = k
    <3>1. m.next[j] = l.head
      BY <2>1, <1>2
    <3>2. l.head = Null <=> j = m.tail
      BY <2>1, <1>2, <1>4, <1>5, <1>6
    <3>3. l.head # Null => l.head \in S /\ m.prev[l.head] = j
      BY <2>1, <1>2, <1>6
    <3>4. l.head # Null => w[l.head] < w[j]
      BY <2>1, <1>6
    <3> QED BY <3>1, <3>2, <3>3, <3>4
  <2>2. CASE j # k
    <3>1. j \in S
      BY <2>2
    <3>2. m.next[j] = l.next[j]
      BY <3>1, <1>2
    <3>3. l.next[j] = Null <=> j = m.tail
      BY <3>1, <1>1, <1>2, <1>5, <1>7
    <3>4. l.next[j] # Null => l.next[j] \in S /\ l.next[j] # l.head
      BY <3>1, <1>1, <1>7, NullAssumption
    <3>5. l.next[j] # Null => m.prev[l.next[j]] = j
      BY <3>1, <3>4, <1>2, <1>7
    <3>6. l.next[j] # Null => w[l.next[j]] < w[j]
      BY <3>1, <3>4, <1>7
    <3> QED BY <3>2, <3>3, <3>4, <3>5, <3>6
  <2> QED BY <2>1, <2>2
<1>10. m.head # Null /\ m.tail # Null
  BY <1>1, <1>2
<1>11. Threads(m, S \cup {k})
  BY <1>8, <1>9, <1>10 DEF Threads
<1>12. Decreasing(m, S \cup {k}, w)
  BY <1>9 DEF Decreasing
<1> QED BY <1>3, <1>11, <1>12

\* removeTail is removeNode of the tail.
LEMMA RemoveTailIsRemoveNode ==
  ASSUME NEW S \in SUBSET Key, NEW l \in ListOver(S), Threads(l, S), S # {}
  PROVE  RemoveTail(l) = RemoveNode(l, l.tail)
<1> DEFINE p == l.prev[l.tail]
<1>1. l.tail \in S /\ l.next[l.tail] = Null
  BY DEF Threads, ListOver
<1>2. p # Null => l.next[p] = l.tail
  BY <1>1 DEF Threads
<1>3. CASE p = Null
  BY <1>1, <1>3 DEF RemoveTail, RemoveNode, ListOver
<1>4. CASE p # Null
  BY <1>1, <1>4 DEF RemoveTail, RemoveNode, ListOver
<1> QED BY <1>3, <1>4

\* moveToHead puts a key of the list in front of the others.
LEMMA MoveToHeadThreads ==
  ASSUME NEW S \in SUBSET Key, NEW l \in ListOver(S), NEW u \in [Key -> Nat],
         Threads(l, S), Decreasing(l, S, u),
         NEW k \in S, NEW w \in [Key -> Nat],
         \A j \in S \ {k} : w[j] = u[j] /\ w[j] < w[k]
  PROVE  /\ MoveToHead(l, k) \in ListOver(S)
         /\ Threads(MoveToHead(l, k), S)
         /\ Decreasing(MoveToHead(l, k), S, w)
<1>1. CASE k = l.head
  <2>1. MoveToHead(l, k) = l
    BY <1>1 DEF MoveToHead
  <2>2. ASSUME NEW j \in S, l.next[j] # Null
        PROVE  w[l.next[j]] < w[j]
    <3>1. l.next[j] \in S /\ l.prev[l.next[j]] = j /\ u[l.next[j]] < u[j]
      BY <2>2 DEF Threads, Decreasing
    <3>2. l.next[j] # k
      BY <1>1, <3>1, NullAssumption DEF Threads
    <3> QED BY <3>1, <3>2
  <2> QED BY <2>1, <2>2 DEF Decreasing
<1>2. CASE k # l.head
  <2> DEFINE m == RemoveNode(l, k)
  <2>1. /\ m \in ListOver(S \ {k})
        /\ Threads(m, S \ {k})
        /\ Decreasing(m, S \ {k}, u)
    BY RemoveNodeThreads
  <2>2. (S \ {k}) \cup {k} = S
    OBVIOUS
  <2>3. S \ {k} \in SUBSET Key /\ k \in Key \ (S \ {k})
    OBVIOUS
  <2> HIDE DEF m
  <2>4. /\ AddToHead(m, k) \in ListOver((S \ {k}) \cup {k})
        /\ Threads(AddToHead(m, k), (S \ {k}) \cup {k})
        /\ Decreasing(AddToHead(m, k), (S \ {k}) \cup {k}, w)
    BY <2>1, <2>3, AddToHeadThreads
  <2>5. MoveToHead(l, k) = AddToHead(m, k)
    BY <1>2 DEF MoveToHead, m
  <2> QED BY <2>2, <2>4, <2>5
<1> QED BY <1>1, <1>2

-----------------------------------------------------------------------------
(***************************************************************************)
(* The inductive invariant.                                                *)
(***************************************************************************)

StoreOK == StoreTypes /\ Linked /\ RecencyOrder /\ IsFiniteSet(cached) /\ SizeBound

IInv == StoreOK /\ LoopTypes

Reasons == {"lru", "ttl", "manual"}

\* The empty store is well-formed.
LEMMA InitOK == Init => IInv
<1> SUFFICES ASSUME Init PROVE IInv
  OBVIOUS
<1> USE DEF Init
<1>1. StoreTypes
  BY UsesAssumption DEF StoreTypes, ListOver, NoList
<1>2. Linked
  BY DEF Linked, Threads, NoList
<1>3. RecencyOrder
  BY DEF RecencyOrder, Decreasing
<1>4. IsFiniteSet(cached) /\ SizeBound
  BY FS_EmptySet, SizeAssumption DEF SizeBound
<1>5. LoopTypes
  BY DEF LoopTypes
<1> QED BY <1>1, <1>2, <1>3, <1>4, <1>5 DEF IInv, StoreOK

\* Taking a key out of the list and the map leaves a well-formed store.
LEMMA DropOK ==
  ASSUME StoreOK, NEW k \in cached, NEW r \in Reasons,
         Drop(k, RemoveNode(list, k), r)
  PROVE  StoreOK'
<1> USE DEF StoreOK, StoreTypes, Drop
<1>1. cached' = cached \ {k} /\ cached' \in SUBSET Key /\ k \in Key \ cached'
  OBVIOUS
<1>2. /\ RemoveNode(list, k) \in ListOver(cached')
      /\ Threads(RemoveNode(list, k), cached')
      /\ Decreasing(RemoveNode(list, k), cached', used)
  BY <1>1, RemoveNodeThreads DEF Linked, RecencyOrder
<1>3. /\ list' \in ListOver(cached')
      /\ Threads(list', cached')
      /\ Decreasing(list', cached', used)
  BY <1>1, <1>2, ForgetThreads
<1>4. \A j \in cached' : used'[j] = used[j]
  BY <1>1
<1>5. used' \in [Key -> Nat] /\ left' \in [Key -> Nat] /\ uses' = uses
  OBVIOUS
<1>6. emitted' \subseteq [key : Key, reason : {"lru", "ttl", "manual"}]
  BY DEF Event, Reasons
<1>7. StoreTypes'
  BY <1>1, <1>3, <1>5, <1>6
<1>8. Linked'
  BY <1>3 DEF Linked
<1>9. Decreasing(list', cached', used')
  BY <1>3, <1>4 DEF Decreasing, Threads
<1>10. RecencyOrder'
  BY <1>1, <1>4, <1>5, <1>9 DEF RecencyOrder
<1>11. IsFiniteSet(cached') /\ Cardinality(cached') = Cardinality(cached) - 1
  BY <1>1, FS_RemoveElement
<1>12. SizeBound'
  BY <1>11, SizeAssumption, FS_CardinalityType DEF SizeBound
<1> QED BY <1>7, <1>8, <1>10, <1>11, <1>12

\* So does unlinking it, which may record an event.
LEMMA UnlinkOK ==
  ASSUME StoreOK, NEW k \in Key, NEW r \in Reasons, Unlink(k, r)
  PROVE  StoreOK' /\ cached' = cached \ {k}
BY DropOK DEF Unlink, Drop

\* A use of a key of the map leaves a well-formed store.
LEMMA UseOK ==
  ASSUME StoreOK, NEW k \in cached, Use(k),
         list' = MoveToHead(list, k), cached' = cached,
         left' \in [Key -> Nat], emitted' = {}
  PROVE  StoreOK'
<1> USE DEF StoreOK, StoreTypes, Use
<1>1. /\ used' \in [Key -> Nat] /\ uses' \in Nat /\ uses' = uses + 1
      /\ used'[k] = uses + 1
      /\ \A j \in cached \ {k} : used'[j] = used[j]
  OBVIOUS
<1>2. \A j \in cached : used[j] \in 1 .. uses
  BY DEF RecencyOrder
<1>3. \A j \in cached \ {k} : used'[j] < used'[k]
  BY <1>1, <1>2
<1>4. /\ list' \in ListOver(cached)
      /\ Threads(list', cached)
      /\ Decreasing(list', cached, used')
  BY <1>1, <1>3, MoveToHeadThreads DEF Linked, RecencyOrder
<1>5. StoreTypes'
  BY <1>1, <1>4
<1>6. \A j \in cached : used'[j] \in 1 .. uses'
  BY <1>1, <1>2
<1>7. \A i, j \in cached : used'[i] = used'[j] => i = j
  <2> SUFFICES ASSUME NEW i \in cached, NEW j \in cached, i # j
               PROVE  used'[i] # used'[j]
    OBVIOUS
  <2>1. CASE i # k /\ j # k
    BY <2>1, <1>1 DEF RecencyOrder
  <2>2. CASE i = k \/ j = k
    BY <2>2, <1>1, <1>3
  <2> QED BY <2>1, <2>2
<1>8. RecencyOrder'
  BY <1>4, <1>6, <1>7 DEF RecencyOrder
<1>9. Linked'
  BY <1>4 DEF Linked
<1>10. SizeBound' /\ IsFiniteSet(cached')
  BY DEF SizeBound
<1> QED BY <1>5, <1>8, <1>9, <1>10

\* Insert leaves a well-formed store: the loop has made room.
LEMMA InsertOK ==
  ASSUME StoreOK, NEW k \in Key \ cached, Use(k), ~Full,
         list' = AddToHead(list, k), cached' = cached \cup {k},
         left' \in [Key -> Nat], emitted' = {}
  PROVE  StoreOK'
<1> USE DEF StoreOK, StoreTypes, Use
<1>1. /\ used' \in [Key -> Nat] /\ uses' \in Nat /\ uses' = uses + 1
      /\ used'[k] = uses + 1
      /\ \A j \in cached : used'[j] = used[j]
  OBVIOUS
<1>2. \A j \in cached : used[j] \in 1 .. uses
  BY DEF RecencyOrder
<1>3. \A j \in cached : used'[j] < used'[k]
  BY <1>1, <1>2
<1>4. /\ list' \in ListOver(cached')
      /\ Threads(list', cached')
      /\ Decreasing(list', cached', used')
  BY <1>1, <1>3, AddToHeadThreads DEF Linked, RecencyOrder
<1>5. StoreTypes'
  BY <1>1, <1>4
<1>6. \A j \in cached' : used'[j] \in 1 .. uses'
  BY <1>1, <1>2
<1>7. \A i, j \in cached' : used'[i] = used'[j] => i = j
  <2> SUFFICES ASSUME NEW i \in cached', NEW j \in cached', i # j
               PROVE  used'[i] # used'[j]
    OBVIOUS
  <2>1. CASE i # k /\ j # k
    BY <2>1, <1>1 DEF RecencyOrder
  <2>2. CASE i = k \/ j = k
    BY <2>2, <1>1, <1>3
  <2> QED BY <2>1, <2>2
<1>8. RecencyOrder'
  BY <1>4, <1>6, <1>7 DEF RecencyOrder
<1>9. Linked'
  BY <1>4 DEF Linked
<1>10. IsFiniteSet(cached') /\ Cardinality(cached') = Cardinality(cached) + 1
  BY FS_AddElement
<1>11. SizeBound'
  BY <1>10, SizeAssumption, FS_CardinalityType DEF SizeBound, Full
<1> QED BY <1>5, <1>8, <1>9, <1>10, <1>11

\* A step that leaves the store's structure alone.
LEMMA SameStoreOK ==
  ASSUME StoreOK, UNCHANGED <<cached, list, used, uses>>,
         left' \in [Key -> Nat],
         emitted' \subseteq [key : Key, reason : Reasons]
  PROVE  StoreOK'
BY DEF StoreOK, StoreTypes, Linked, RecencyOrder, SizeBound, Reasons

\* A call without an effect leaves the store as it is.
LEMMA NoEffectOK == IInv /\ NoEffect => IInv'
BY SameStoreOK DEF IInv, NoEffect, LoopTypes, IsExpired, StoreOK, StoreTypes

\* Taking the tail out is taking any key out.
LEMMA EvictTailOK ==
  ASSUME StoreOK, list.tail # Null, Drop(list.tail, RemoveTail(list), "lru")
  PROVE  /\ list.tail \in cached
         /\ StoreOK'
         /\ \A j \in cached \ {list.tail} : used[list.tail] < used[j]
<1>1. list \in ListOver(cached) /\ Threads(list, cached) /\ cached \in SUBSET Key
  BY DEF StoreOK, StoreTypes, Linked
<1>2. cached # {} /\ list.tail \in cached
  BY <1>1 DEF Threads, ListOver
<1>3. RemoveTail(list) = RemoveNode(list, list.tail)
  BY <1>1, <1>2, RemoveTailIsRemoveNode
<1>4. StoreOK'
  BY <1>2, <1>3, DropOK DEF Reasons
<1>5. \A j \in cached : used[list.tail] <= used[j]
  BY <1>1, <1>2, TailIsOldest DEF StoreOK, StoreTypes, RecencyOrder
<1>6. \A j \in cached \ {list.tail} : used[list.tail] # used[j]
  BY <1>2 DEF StoreOK, RecencyOrder
<1>7. \A j \in cached : used[j] \in Nat
  BY DEF StoreOK, StoreTypes
<1> QED BY <1>2, <1>4, <1>5, <1>6, <1>7

\* Every operation and every sweep keep the invariant.
LEMMA StepOK == IInv /\ [Next]_vars => IInv'
<1> SUFFICES ASSUME IInv, [Next]_vars PROVE IInv'
  OBVIOUS
<1> USE DEF IInv
<1>0. /\ cached \subseteq Key
      /\ left \in [Key -> Nat]
      /\ Idle # Sweeping
      /\ \A k \in Key, t \in TTL : Setting(k, t) # Idle /\ Setting(k, t) # Sweeping
      /\ Idle.kind # "set" /\ Sweeping.kind # "set"
  BY DEF StoreOK, StoreTypes, Idle, Sweeping, Setting
<1>a. ASSUME NEW k \in Key, NEW r \in Reasons, op = Idle,
             Unlink(k, r), UNCHANGED <<op, todo>>
      PROVE  IInv'
  <2>1. StoreOK' /\ cached' = cached \ {k}
    BY <1>a, UnlinkOK
  <2>2. LoopTypes'
    BY <1>a, <1>0 DEF LoopTypes
  <2> QED BY <2>1, <2>2
<1>b. ASSUME NEW k \in cached, op = Idle, Use(k), list' = MoveToHead(list, k),
             left' \in [Key -> Nat], emitted' = {}, UNCHANGED <<cached, op, todo>>
      PROVE  IInv'
  <2>1. StoreOK'
    BY <1>b, UseOK
  <2>2. LoopTypes'
    BY <1>b, <1>0 DEF LoopTypes
  <2> QED BY <2>1, <2>2
<1>1. ASSUME NEW k \in Key, Get(k) PROVE IInv'
  <2>1. CASE NoEffect
    BY <2>1, NoEffectOK
  <2>2. CASE Unlink(k, "ttl") /\ UNCHANGED <<op, todo>>
    BY <1>1, <2>2, <1>a DEF Get, Reasons
  <2>3. CASE /\ k \in cached
             /\ list' = MoveToHead(list, k)
             /\ Use(k)
             /\ emitted' = {}
             /\ UNCHANGED <<cached, left, op, todo>>
    BY <1>0, <1>1, <2>3, <1>b DEF Get
  <2> QED BY <1>1, <2>1, <2>2, <2>3 DEF Get
<1>2. ASSUME NEW k \in Key, Has(k) PROVE IInv'
  <2>1. CASE NoEffect
    BY <2>1, NoEffectOK
  <2>2. CASE Unlink(k, "ttl") /\ UNCHANGED <<op, todo>>
    BY <1>2, <2>2, <1>a DEF Has, Reasons
  <2> QED BY <1>2, <2>1, <2>2 DEF Has
<1>3. ASSUME NEW k \in Key, Delete(k) PROVE IInv'
  <2>1. CASE NoEffect
    BY <2>1, NoEffectOK
  <2>2. CASE Unlink(k, "manual") /\ UNCHANGED <<op, todo>>
    BY <1>3, <2>2, <1>a DEF Delete, Reasons
  <2> QED BY <1>3, <2>1, <2>2 DEF Delete
<1>4. ASSUME NEW k \in Key, NEW t \in TTL, SetExisting(k, t) PROVE IInv'
  <2>1. left' \in [Key -> Nat]
    BY <1>0, <1>4, TTLAssumption DEF SetExisting
  <2> QED BY <2>1, <1>4, <1>b DEF SetExisting
<1>5. ASSUME NEW k \in Key, NEW t \in TTL, BeginSet(k, t) PROVE IInv'
  <2>1. StoreOK'
    BY <1>0, <1>5, SameStoreOK DEF BeginSet
  <2>2. LoopTypes'
    BY <1>0, <1>5 DEF BeginSet, LoopTypes
  <2> QED BY <2>1, <2>2
<1>6. ASSUME BeginSweep PROVE IInv'
  <2>1. StoreOK'
    BY <1>0, <1>6, SameStoreOK DEF BeginSweep
  <2>2. LoopTypes'
    BY <1>0, <1>6 DEF BeginSweep, LoopTypes, IsExpired
  <2> QED BY <2>1, <2>2
<1>7. ASSUME Clear PROVE IInv'
  <2> USE DEF Clear
  <2>1. cached' = {} /\ list' = NoList
    BY <1>7
  <2>2. StoreTypes'
    BY <1>7 DEF StoreTypes, StoreOK, ListOver, NoList
  <2>3. Linked'
    BY <2>1 DEF Linked, Threads, NoList
  <2>4. RecencyOrder'
    BY <2>1 DEF RecencyOrder, Decreasing
  <2>5. IsFiniteSet(cached') /\ SizeBound'
    BY <2>1, FS_EmptySet, SizeAssumption DEF SizeBound
  <2>6. LoopTypes'
    BY <1>0, <1>7 DEF LoopTypes
  <2> QED BY <2>2, <2>3, <2>4, <2>5, <2>6 DEF StoreOK
<1>8. ASSUME Tick PROVE IInv'
  <2>1. left' \in [Key -> Nat]
    BY <1>0, <1>8 DEF Tick
  <2>2. StoreOK'
    BY <2>1, <1>8, SameStoreOK DEF Tick, StoreOK, StoreTypes, Reasons
  <2>3. LoopTypes'
    BY <1>0, <1>8 DEF Tick, LoopTypes
  <2> QED BY <2>2, <2>3
<1>9. ASSUME EvictTail PROVE IInv'
  <2>1. CASE list.tail = Null
    BY <1>9, <2>1, NoEffectOK DEF EvictTail
  <2>2. CASE list.tail # Null
    <3>1. Drop(list.tail, RemoveTail(list), "lru") /\ UNCHANGED <<op, todo>>
      BY <1>9, <2>2 DEF EvictTail
    <3>2. StoreOK' /\ cached' \subseteq cached
      BY <2>2, <3>1, EvictTailOK DEF Drop
    <3>3. op # Idle /\ op # Sweeping
      BY <1>0, <1>9 DEF EvictTail
    <3>4. LoopTypes'
      BY <3>1, <3>2, <3>3 DEF LoopTypes
    <3> QED BY <3>2, <3>4
  <2> QED BY <2>1, <2>2
<1>10. ASSUME Insert PROVE IInv'
  <2>1. PICK k \in Key \ cached, t \in TTL : op = Setting(k, t)
    BY <1>0, <1>10 DEF Insert, LoopTypes
  <2>2. op.key = k /\ op.ttl = t
    BY <2>1 DEF Setting
  <2>3. left' \in [Key -> Nat]
    BY <1>0, <1>10, <2>2, TTLAssumption DEF Insert
  <2>4. StoreOK'
    BY <1>10, <2>2, <2>3, InsertOK DEF Insert
  <2>5. LoopTypes'
    BY <1>0, <1>10, <2>1 DEF Insert, LoopTypes
  <2> QED BY <2>4, <2>5
<1>11. ASSUME NEW k \in Key, SweepOne(k) PROVE IInv'
  <2>1. StoreOK' /\ cached' = cached \ {k}
    BY <1>11, UnlinkOK DEF SweepOne, Reasons
  <2>2. \A j \in cached' : left'[j] = left[j]
    BY <1>0, <1>11, <2>1 DEF SweepOne, Unlink, Drop
  <2>3. LoopTypes'
    BY <1>0, <1>11, <2>1, <2>2 DEF SweepOne, LoopTypes, IsExpired
  <2> QED BY <2>1, <2>3
<1>12. ASSUME EndSweep PROVE IInv'
  <2>1. StoreOK'
    BY <1>0, <1>12, SameStoreOK DEF EndSweep
  <2>2. LoopTypes'
    BY <1>0, <1>12 DEF EndSweep, LoopTypes
  <2> QED BY <2>1, <2>2
<1>13. CASE UNCHANGED vars
  BY <1>13 DEF vars, StoreOK, StoreTypes, Linked, RecencyOrder, SizeBound,
               LoopTypes, IsExpired
<1> QED BY <1>1, <1>2, <1>3, <1>4, <1>5, <1>6, <1>7, <1>8, <1>9, <1>10, <1>11,
           <1>12, <1>13 DEF Next, Loop

\* So it always holds.
LEMMA Invariance == Spec => []IInv
BY InitOK, StepOK, PTL DEF Spec

-----------------------------------------------------------------------------
(***************************************************************************)
(* The theorems.                                                           *)
(***************************************************************************)

\* Every reachable state is well typed: head and tail name nodes of the map,
\* whatever sequence of get, set, has, delete, clear, keys and clock ticks the
\* store has seen, and a running loop works on keys it may work on.
THEOREM TypeCorrect == Spec => []TypeOK
<1>1. IInv => TypeOK
  BY DEF IInv, StoreOK, TypeOK
<1> QED BY <1>1, Invariance, PTL

\* The pointer surgery of lru-cache.ts keeps the list and the map in step.
THEOREM ListMatchesMap == Spec => []Linked
<1>1. IInv => Linked
  BY DEF IInv, StoreOK
<1> QED BY <1>1, Invariance, PTL

\* The list is sorted by last use.
THEOREM ListIsByRecency == Spec => []RecencyOrder
<1>1. IInv => RecencyOrder
  BY DEF IInv, StoreOK
<1> QED BY <1>1, Invariance, PTL

\* The store never holds more than maxSize entries.
THEOREM NeverOversize == Spec => []SizeBound
<1>1. IInv => SizeBound
  BY DEF IInv, StoreOK
<1> QED BY <1>1, Invariance, PTL

\* The empty store is one of the policy.
LEMMA PolicyInitHolds == Init => Policy!PolicyInit
BY DEF Init, Policy!PolicyInit

\* An unlinked key leaves in the way the policy allows for its reason.
LEMMA UnlinkLeaves ==
  ASSUME NEW k \in Key, NEW r \in Reasons, Unlink(k, r)
  PROVE  Policy!Leave(k, r)
BY DEF Unlink, Drop, Policy!Leave, Event, Policy!Event

\* A use of a key is one of the policy.
LEMMA UseUses == ASSUME NEW k \in Key, Use(k), emitted' = {} PROVE Policy!Use(k)
BY DEF Use, Policy!Use

\* The policy counts as FiniteSets does.
LEMMA SameCardinality == \A S : Policy!Cardinality(S) = Cardinality(S)
BY Zenon DEF Cardinality, Policy!Cardinality

\* Every step is one of the policy, or changes nothing there.
LEMMA PolicyStep == IInv /\ [Next]_vars => [Policy!PolicyNext]_(Policy!policyVars)
<1> SUFFICES ASSUME IInv, [Next]_vars
             PROVE  Policy!PolicyNext \/ UNCHANGED Policy!policyVars
  OBVIOUS
<1>q. NoEffect => Policy!Quiet
  BY DEF NoEffect, Policy!Quiet
<1>t. ASSUME NEW k \in Key, IsExpired(k), Unlink(k, "ttl") PROVE Policy!Expire(k)
  BY <1>t, UnlinkLeaves DEF Reasons, IsExpired, Policy!Expire
<1>1. ASSUME NEW k \in Key, Get(k) PROVE Policy!PolicyNext
  <2>1. CASE NoEffect
    BY <2>1, <1>q DEF Policy!PolicyNext
  <2>2. CASE IsExpired(k) /\ Unlink(k, "ttl")
    BY <2>2, <1>t DEF Policy!PolicyNext
  <2>3. CASE /\ k \in cached
             /\ ~IsExpired(k)
             /\ Use(k)
             /\ emitted' = {}
             /\ UNCHANGED <<cached, left>>
    <3>1. left[k] > 0
      BY <2>3 DEF IInv, StoreOK, StoreTypes, IsExpired
    <3>2. Policy!Touch(k)
      BY <2>3, <3>1, UseUses DEF Policy!Touch
    <3> QED BY <3>2 DEF Policy!PolicyNext
  <2> QED BY <1>1, <2>1, <2>2, <2>3 DEF Get
<1>2. ASSUME NEW k \in Key, Has(k) PROVE Policy!PolicyNext
  <2>1. CASE NoEffect
    BY <2>1, <1>q DEF Policy!PolicyNext
  <2>2. CASE IsExpired(k) /\ Unlink(k, "ttl")
    BY <2>2, <1>t DEF Policy!PolicyNext
  <2> QED BY <1>2, <2>1, <2>2 DEF Has
<1>3. ASSUME NEW k \in Key, Delete(k) PROVE Policy!PolicyNext
  <2>1. CASE NoEffect
    BY <2>1, <1>q DEF Policy!PolicyNext
  <2>2. CASE Unlink(k, "manual")
    BY <2>2, UnlinkLeaves DEF Reasons, Policy!PolicyNext, Policy!Remove
  <2> QED BY <1>3, <2>1, <2>2 DEF Delete
<1>4. ASSUME NEW k \in Key, NEW t \in TTL, SetExisting(k, t)
      PROVE  Policy!PolicyNext
  <2>1. Policy!Renew(k, t)
    BY <1>4, UseUses DEF SetExisting, Policy!Renew
  <2> QED BY <2>1 DEF Policy!PolicyNext
<1>5. ASSUME NEW k \in Key, NEW t \in TTL, BeginSet(k, t)
      PROVE  Policy!PolicyNext
  BY <1>5 DEF BeginSet, Policy!PolicyNext, Policy!Quiet
<1>6. ASSUME BeginSweep PROVE Policy!PolicyNext
  BY <1>6 DEF BeginSweep, Policy!PolicyNext, Policy!Quiet
<1>7. ASSUME Clear PROVE Policy!PolicyNext
  BY <1>7 DEF Clear, Policy!PolicyNext, Policy!Empty
<1>8. ASSUME Tick PROVE Policy!PolicyNext
  BY <1>8 DEF Tick, Policy!PolicyNext, Policy!Age
<1>9. ASSUME EvictTail PROVE Policy!PolicyNext
  <2>1. CASE list.tail = Null
    BY <1>9, <2>1, <1>q DEF EvictTail, Policy!PolicyNext
  <2>2. CASE list.tail # Null
    <3> DEFINE k == list.tail
    <3>1. Drop(k, RemoveTail(list), "lru") /\ Full
      BY <1>9, <2>2 DEF EvictTail
    <3>2. k \in cached /\ \A j \in cached \ {k} : used[k] < used[j]
      BY <2>2, <3>1, EvictTailOK DEF IInv
    <3>3. k \in Key
      BY <3>2 DEF IInv, StoreOK, StoreTypes
    <3>4. Policy!Leave(k, "lru")
      BY <3>1, <3>2 DEF Drop, Policy!Leave, Event, Policy!Event
    <3>5. Policy!MakeRoom(k)
      BY SameCardinality, <3>1, <3>2, <3>4 DEF Full, Policy!MakeRoom, Policy!LeastRecentlyUsed
    <3> QED BY <3>3, <3>5 DEF Policy!PolicyNext
  <2> QED BY <2>1, <2>2
<1>10. ASSUME Insert PROVE Policy!PolicyNext
  <2>1. op.kind = "set" /\ Idle.kind # "set" /\ Sweeping.kind # "set"
    BY <1>10 DEF Insert, Idle, Sweeping
  <2>2. PICK k \in Key \ cached, t \in TTL : op = Setting(k, t)
    BY <2>1 DEF IInv, LoopTypes
  <2>3. op.key = k /\ op.ttl = t
    BY <2>2 DEF Setting
  <2>4. Cardinality(cached) < MaxSize
    BY <1>10, SizeAssumption, FS_CardinalityType DEF Insert, Full, IInv, StoreOK
  <2>5. Use(k) /\ emitted' = {}
    BY <1>10, <2>3 DEF Insert
  <2>6. Policy!Add(k, t)
    BY SameCardinality, <1>10, <2>3, <2>4, <2>5, UseUses DEF Insert, Policy!Add
  <2> QED BY <2>6 DEF Policy!PolicyNext
<1>11. ASSUME NEW k \in Key, SweepOne(k) PROVE Policy!PolicyNext
  <2>1. IsExpired(k) /\ Unlink(k, "ttl")
    BY <1>11 DEF SweepOne, IInv, LoopTypes
  <2> QED BY <2>1, <1>t DEF Policy!PolicyNext
<1>12. ASSUME EndSweep PROVE Policy!PolicyNext
  BY <1>12 DEF EndSweep, Policy!PolicyNext, Policy!Quiet
<1>13. CASE UNCHANGED vars
  BY <1>13 DEF vars, Policy!policyVars
<1> QED BY <1>1, <1>2, <1>3, <1>4, <1>5, <1>6, <1>7, <1>8, <1>9, <1>10, <1>11,
           <1>12, <1>13 DEF Next, Loop

\* The linked list of lru-cache.ts implements the abstract policy: the key set
\* evicts is the one whose last get or set lies furthest back, it does so only
\* when the store is full, a key announced as expired has outlived its TTL,
\* and no key leaves unannounced except by clear.
THEOREM ListImplementsLRU == Spec => ImplementsPolicy
<1>1. Init => Policy!PolicyInit
  BY PolicyInitHolds
<1>2. IInv /\ [Next]_vars => [Policy!PolicyNext]_(Policy!policyVars)
  BY PolicyStep
<1> QED BY <1>1, <1>2, Invariance, PTL DEF Spec, ImplementsPolicy, Policy!PolicySpec

=============================================================================
