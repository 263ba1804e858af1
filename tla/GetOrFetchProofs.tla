-------------------------- MODULE GetOrFetchProofs --------------------------
(***************************************************************************)
(* Proofs about GetOrFetch, for every number of callers, servers and keys, *)
(* both modes, every ttl and wait time, and with every fault the module    *)
(* knows.                                                                  *)
(*                                                                         *)
(* LockExclusion is not inductive: it says nothing of the lock, so a step  *)
(* that takes a free lock could break it.  LeaseHeld adds what the owner   *)
(* check of release and the PX of SET NX amount to: as long as the ttl of  *)
(* a call in the critical section has not run out, the lock of its key     *)
(* carries its name, and runs out when the call's own timer does.          *)
(***************************************************************************)
EXTENDS GetOrFetch, TLAPS

LeaseHeld ==
  \A c \in Caller :
    pc[c] \in Critical /\ timer[c] < LockTtl
      => lock[TheLock(c)] = [holder |-> c, left |-> LockTtl - timer[c]]

Lease == {Free} \cup [holder : Caller, left : 1 .. LockTtl]

\* The names of the lock and the history counter of a call are indices.
LEMMA LockIndex ==
  ASSUME TypeOK, NEW c \in Caller
  PROVE  /\ TheLock(c) \in Place \X Key
         /\ HeldBy(c) \in Lease
         /\ Home[c] \in Server
         /\ key[c] \in Key
<1>1. Home[c] \in Server /\ key[c] \in Key
  BY HomeAssumption DEF TypeOK
<1>2. LockPlace(c) \in Place
  BY <1>1 DEF LockPlace, Place
<1>3. HeldBy(c) \in Lease
  BY TimeAssumption DEF HeldBy, Lease
<1> QED BY <1>1, <1>2, <1>3 DEF TheLock

\* A lease that ages is a lease one tick shorter, or none.
LEMMA AgedLease ==
  ASSUME NEW e \in Lease
  PROVE  /\ Aged(e) \in Lease
         /\ \A c \in Caller, n \in 2 .. LockTtl :
              e = [holder |-> c, left |-> n] => Aged(e) = [holder |-> c, left |-> n - 1]
<1>1. CASE e = Free
  <2>1. Aged(e) = Free
    BY <1>1 DEF Aged, Free
  <2>2. \A c \in Caller, n \in 2 .. LockTtl : e # [holder |-> c, left |-> n]
    BY <1>1, NoneAssumption DEF Free
  <2> QED BY <2>1, <2>2 DEF Lease
<1>2. CASE e \in [holder : Caller, left : 1 .. LockTtl]
  BY <1>2, TimeAssumption DEF Aged, Lease
<1> QED BY <1>1, <1>2 DEF Lease

\* Initially every variable has its type.
LEMMA InitTypes == Init => TypeOK
BY HomeAssumption, LossAssumption, TimeAssumption
   DEF Init, TypeOK, PC, Free, Horizon

\* Every step keeps the types.
LEMMA StepTypes == TypeOK /\ [Next]_vars => TypeOK'
<1> SUFFICES ASSUME TypeOK, [Next]_vars PROVE TypeOK'
  OBVIOUS
<1> USE DEF TypeOK
<1>0. /\ LockTtl \in Nat \ {0} /\ Horizon \in Nat /\ MaxLosses \in Nat
      /\ Free \in Lease
      /\ lock \in [Place \X Key -> Lease]
  BY TimeAssumption, LossAssumption DEF Horizon, Lease
<1>i. \A c \in Caller : /\ TheLock(c) \in Place \X Key
                        /\ HeldBy(c) \in Lease
                        /\ Home[c] \in Server
                        /\ key[c] \in Key
  BY LockIndex
<1>g. ASSUME NEW c \in Caller, NEW p \in PC, Goto(c, p) PROVE pc' \in [Caller -> PC]
  BY <1>g DEF Goto
<1>d. ASSUME NEW c \in Caller, NEW r \in {"none", "value", "error"}, Decide(c, r)
      PROVE  outcome' \in [Caller -> {"none", "value", "error"}]
  BY <1>d DEF Decide
<1>r. ASSUME NEW c \in Caller, Restart(c) PROVE timer' \in [Caller -> 0 .. Horizon]
  BY <1>r, <1>0 DEF Restart
<1>e. ASSUME NEW c \in Caller, NEW r \in {"none", "value", "error"}, Return(c, r)
      PROVE  /\ pc' \in [Caller -> PC]
             /\ outcome' \in [Caller -> {"none", "value", "error"}]
             /\ timer' \in [Caller -> 0 .. Horizon]
  BY <1>e, <1>g, <1>d, <1>r DEF Return, PC
<1>l. \A s \in Server, k \in Key : /\ WithKey(s, k) \in [Server -> SUBSET Key]
                                   /\ WithoutKey(s, k) \in [Server -> SUBSET Key]
  BY DEF WithKey, WithoutKey
<1>s. ASSUME NEW c \in Caller, NEW null \in BOOLEAN, StoreL1(c, null)
      PROVE  l1' \in [Server -> SUBSET Key]
  BY <1>s, <1>i, <1>l DEF StoreL1
<1>z. ASSUME NEW c \in Caller, NEW null \in BOOLEAN, StoreL2(c, null)
      PROVE  l2' \subseteq Key
  BY <1>z, <1>i DEF StoreL2
<1>p. ASSUME NEW c \in Caller, NEW p \in Caller \cup {None}, EnterPending(c, p)
      PROVE  pending' \in [Server -> [Key -> Caller \cup {None}]]
  BY <1>p, <1>i DEF EnterPending
<1>h. \A i : \A n \in 0 .. 2 :
        [fetches EXCEPT ![i] = n] \in [Place \X Key -> 0 .. 2]
  OBVIOUS
<1>f. ASSUME NEW c \in Caller, CountFetch(c)
      PROVE  fetches' \in [Place \X Key -> 0 .. 2]
  BY <1>f, <1>h DEF CountFetch
<1>m. MaybeNull \subseteq BOOLEAN
  BY DEF MaybeNull
<1>t. ASSUME NEW c \in Caller, TakeOrSleep(c)
      PROVE  /\ lock' \in [Place \X Key -> Lease]
             /\ pc' \in [Caller -> PC]
             /\ timer' \in [Caller -> 0 .. Horizon]
  BY <1>t, <1>0, <1>i, <1>g, <1>r DEF TakeOrSleep, PC, Waiting, Critical
<1>a. ASSUME NEW c \in Caller, Attempt(c)
      PROVE  /\ lock' \in [Place \X Key -> Lease]
             /\ pc' \in [Caller -> PC]
             /\ timer' \in [Caller -> 0 .. Horizon]
  BY <1>a, <1>t, <1>0, <1>g DEF Attempt, PC, Waiting
<1>u. \A c \in Caller : Unlocked(c) \in [Place \X Key -> Lease]
  BY <1>0, <1>i DEF Unlocked
<1>k. ASSUME NEW c \in Caller, NEW hit \in PC, NEW asking \in PC, NEW miss \in PC,
             LookUp(c, hit, asking, miss), timer' \in [Caller -> 0 .. Horizon]
      PROVE  TypeOK'
  <2>1. pc' \in [Caller -> PC]
    BY <1>k, <1>g DEF LookUp
  <2>2. outcome' \in [Caller -> {"none", "value", "error"}]
    BY <1>k, <1>d DEF LookUp
  <2> QED BY <1>k, <2>1, <2>2 DEF LookUp, Shared
<1>n. ASSUME NEW c \in Caller, NEW hit \in PC, NEW miss \in PC,
             Answer(c, hit, miss), UNCHANGED timer
      PROVE  TypeOK'
  <2>1. pc' \in [Caller -> PC]
    BY <1>n, <1>g DEF Answer
  <2>2. outcome' \in [Caller -> {"none", "value", "error"}]
    BY <1>n, <1>d DEF Answer
  <2>3. l1' \in [Server -> SUBSET Key]
    BY <1>n, <1>i, <1>l DEF Answer
  <2> QED BY <1>n, <2>1, <2>2, <2>3 DEF Answer
<1>w. ASSUME NEW c \in Caller, NEW p \in PC, NEW r \in {"value", "error"}, Settle(c, p, r)
      PROVE  /\ pc' \in [Caller -> PC]
             /\ outcome' \in [Caller -> {"none", "value", "error"}]
             /\ leader' \in [Caller -> Caller \cup {None}]
  BY <1>w DEF Settle, PC
<1>1. ASSUME NEW c \in Caller, NEW k \in Key, Call(c, k) PROVE TypeOK'
  <2>1. pc' \in [Caller -> PC]
    BY <1>1, <1>g DEF Call, PC
  <2>2. outcome' \in [Caller -> {"none", "value", "error"}]
    BY <1>1, <1>d DEF Call
  <2> QED BY <1>1, <2>1, <2>2 DEF Call, Shared
<1>2. ASSUME NEW c \in Caller, FirstAnswer(c) PROVE TypeOK'
  BY <1>2, <1>n DEF FirstAnswer, PC
<1>3. ASSUME NEW c \in Caller, Check(c) PROVE TypeOK'
  <2> DEFINE p == pending[Home[c]][key[c]]
  <2>1. CASE p # None /\ Goto(c, "joined") /\ leader' = [leader EXCEPT ![c] = p]
             /\ UNCHANGED <<timer, outcome, lock>>
    <3>1. pc' \in [Caller -> PC]
      BY <2>1, <1>g DEF PC
    <3>2. leader' \in [Caller -> Caller \cup {None}]
      BY <2>1, <1>i
    <3> QED BY <1>3, <2>1, <3>1, <3>2 DEF Check, Caches
  <2>2. CASE Return(c, "value") /\ UNCHANGED <<leader, lock>>
    BY <1>3, <2>2, <1>e DEF Check, Caches
  <2>3. CASE Attempt(c) /\ UNCHANGED <<leader, outcome>>
    BY <1>3, <2>3, <1>a DEF Check, Caches, Lease
  <2> QED BY <1>3, <2>1, <2>2, <2>3 DEF Check
<1>4. ASSUME NEW c \in Caller, SetNX(c) PROVE TypeOK'
  BY <1>4, <1>t DEF SetNX, Caches, Lease
<1>5. ASSUME NEW c \in Caller, AcquireFails(c) PROVE TypeOK'
  <2>1. lock' \in [Place \X Key -> Lease]
    BY <1>5, <1>0, <1>i DEF AcquireFails
  <2> QED BY <1>5, <2>1, <1>e DEF AcquireFails, Caches, Lease
<1>6. ASSUME NEW c \in Caller, Wake(c) PROVE TypeOK'
  <2>1. CASE Attempt(c)
    BY <1>6, <2>1, <1>a DEF Wake, Caches, Lease
  <2>2. CASE Goto(c, "timedout") /\ UNCHANGED <<lock, timer>>
    BY <1>6, <2>2, <1>g DEF Wake, Caches, PC
  <2> QED BY <1>6, <2>1, <2>2 DEF Wake
<1>7. ASSUME NEW c \in Caller, Recheck(c) PROVE TypeOK'
  BY <1>7, <1>k DEF Recheck, PC, Critical
<1>8. ASSUME NEW c \in Caller, RecheckAnswer(c) PROVE TypeOK'
  BY <1>8, <1>n DEF RecheckAnswer, PC, Critical
<1>9. ASSUME NEW c \in Caller, Start(c) PROVE TypeOK'
  <2>1. pc' \in [Caller -> PC]
    BY <1>9, <1>g DEF Start, PC, Critical
  <2> QED BY <1>9, <2>1, <1>p, <1>f DEF Start
<1>10. ASSUME NEW c \in Caller, Fetched(c) PROVE TypeOK'
  <2>1. /\ pc' \in [Caller -> PC]
        /\ outcome' \in [Caller -> {"none", "value", "error"}]
        /\ leader' \in [Caller -> Caller \cup {None}]
    BY <1>10, <1>w DEF Fetched, PC, Critical
  <2>2. l1' \in [Server -> SUBSET Key]
    BY <1>10, <1>s, <1>m DEF Fetched
  <2> QED BY <1>10, <2>1, <2>2 DEF Fetched
<1>11. ASSUME NEW c \in Caller, FetchFails(c) PROVE TypeOK'
  <2>1. /\ pc' \in [Caller -> PC]
        /\ outcome' \in [Caller -> {"none", "value", "error"}]
        /\ leader' \in [Caller -> Caller \cup {None}]
    BY <1>11, <1>w DEF FetchFails, PC, Critical
  <2> QED BY <1>11, <2>1, <1>p DEF FetchFails, Caches
<1>12. ASSUME NEW c \in Caller, Store(c) PROVE TypeOK'
  <2>1. pc' \in [Caller -> PC]
    BY <1>12, <1>g DEF Store, PC, Critical
  <2>2. l1' \in [Server -> SUBSET Key] /\ l2' \subseteq Key
    BY <1>12, <1>s, <1>z, <1>m DEF Store
  <2> QED BY <1>12, <2>1, <2>2 DEF Store
<1>13. ASSUME NEW c \in Caller, StoreFails(c) PROVE TypeOK'
  <2>1. pc' \in [Caller -> PC]
    BY <1>13, <1>g DEF StoreFails, PC, Critical
  <2>2. outcome' \in [Caller -> {"none", "value", "error"}]
    BY <1>13, <1>d DEF StoreFails
  <2>3. l2' \subseteq Key
    BY <1>13, <1>z, <1>m DEF StoreFails
  <2> QED BY <1>13, <2>1, <2>2, <2>3, <1>p DEF StoreFails
<1>14. ASSUME NEW c \in Caller, Stored(c) PROVE TypeOK'
  <2>1. pc' \in [Caller -> PC]
    BY <1>14, <1>g DEF Stored, PC, Critical
  <2> QED BY <1>14, <2>1, <1>p DEF Stored, Caches
<1>15. ASSUME NEW c \in Caller, Release(c) PROVE TypeOK'
  BY <1>15, <1>e, <1>u DEF Release, Caches, Lease
<1>16. ASSUME NEW c \in Caller, ReleaseFails(c) PROVE TypeOK'
  <2>1. lock' \in [Place \X Key -> Lease]
    BY <1>16, <1>0, <1>u DEF ReleaseFails
  <2> QED BY <1>16, <2>1, <1>e DEF ReleaseFails, Caches, Lease
<1>17. ASSUME NEW c \in Caller, LastLookUp(c) PROVE TypeOK'
  BY <1>17, <1>k, <1>r DEF LastLookUp, PC
<1>18. ASSUME NEW c \in Caller, LastAnswer(c) PROVE TypeOK'
  BY <1>18, <1>n DEF LastAnswer, PC
<1>19. ASSUME NEW c \in Caller, StartAlone(c) PROVE TypeOK'
  <2>1. pc' \in [Caller -> PC]
    BY <1>19, <1>g DEF StartAlone, PC
  <2> QED BY <1>19, <2>1, <1>f DEF StartAlone
<1>20. ASSUME NEW c \in Caller, FetchedAlone(c) PROVE TypeOK'
  BY <1>20, <1>e DEF FetchedAlone, Shared
<1>21. ASSUME Tick PROVE TypeOK'
  <2>1. timer' \in [Caller -> 0 .. Horizon]
    BY <1>0, <1>21 DEF Tick
  <2>2. pc' \in [Caller -> PC]
    BY <1>21 DEF Tick, PC, Waiting
  <2>3. lock' \in [Place \X Key -> Lease]
    BY <1>0, <1>21, AgedLease DEF Tick
  <2> QED BY <1>21, <2>1, <2>2, <2>3 DEF Tick, Lease
<1>22. ASSUME NEW s \in Server, NEW k \in Key, LoseL1(s, k) PROVE TypeOK'
  <2>1. l1' \in [Server -> SUBSET Key]
    BY <1>22, <1>l DEF LoseL1
  <2>2. fetches' \in [Place \X Key -> 0 .. 2]
    <3>1. CASE HasL2
      BY <1>22, <3>1 DEF LoseL1
    <3>2. CASE ~HasL2
      <4>1. fetches' = [fetches EXCEPT ![<<s, k>>] = 0]
        BY <1>22, <3>2 DEF LoseL1
      <4> QED BY <4>1, <1>h
    <3> QED BY <3>1, <3>2
  <2>3. losses' \in 0 .. MaxLosses
    BY <1>0, <1>22 DEF LoseL1
  <2> QED BY <1>22, <2>1, <2>2, <2>3 DEF LoseL1
<1>23. ASSUME NEW k \in Key, LoseL2(k) PROVE TypeOK'
  <2>1. fetches' \in [Place \X Key -> 0 .. 2]
    BY <1>23, <1>h DEF LoseL2
  <2>2. losses' \in 0 .. MaxLosses
    BY <1>0, <1>23 DEF LoseL2
  <2> QED BY <1>23, <2>1, <2>2 DEF LoseL2
<1>24. CASE UNCHANGED vars
  BY <1>24 DEF vars
<1> QED BY <1>1, <1>2, <1>3, <1>4, <1>5, <1>6, <1>7, <1>8, <1>9, <1>10, <1>11,
           <1>12, <1>13, <1>14, <1>15, <1>16, <1>17, <1>18, <1>19, <1>20, <1>21,
           <1>22, <1>23, <1>24 DEF Next, Step

\* Every reachable state is well typed: no lease outlives its ttl, no free
\* lock has time left.
THEOREM TypeCorrect == Spec => []TypeOK
BY InitTypes, StepTypes, PTL DEF Spec

-----------------------------------------------------------------------------

\* What a step may do to the leases: the calls that stay where they are under
\* the lock keep their timer, their key and their lease.
LeaseKept(c) ==
  /\ pc'[c] \in Critical => pc[c] \in Critical
  /\ timer'[c] = timer[c]
  /\ key'[c] = key[c]
  /\ \/ lock'[TheLock(c)] = lock[TheLock(c)]
     \/ lock[TheLock(c)].holder # c

\* If every call keeps its lease or leaves or does not enter the critical
\* section, the leases are held after the step.
LEMMA KeepLeases ==
  ASSUME TypeOK, LeaseHeld,
         \A d \in Caller : LeaseKept(d) \/ pc'[d] \notin Critical
  PROVE  LeaseHeld'
<1> SUFFICES ASSUME NEW d \in Caller, pc'[d] \in Critical, timer'[d] < LockTtl
             PROVE  lock'[TheLock(d)'] = [holder |-> d, left |-> LockTtl - timer'[d]]
  BY DEF LeaseHeld
<1>1. LeaseKept(d)
  OBVIOUS
<1>2. TheLock(d)' = TheLock(d)
  BY <1>1 DEF LeaseKept, TheLock, LockPlace
<1>3. lock[TheLock(d)] = [holder |-> d, left |-> LockTtl - timer[d]]
  BY <1>1 DEF LeaseKept, LeaseHeld
<1> QED BY <1>1, <1>2, <1>3 DEF LeaseKept

\* Taking a free lock: whoever else is in the critical section with time left
\* holds another lock.
LEMMA TakeKeeps ==
  ASSUME TypeOK, LeaseHeld, NEW c \in Caller, pc[c] \notin Critical,
         TakeOrSleep(c), UNCHANGED key
  PROVE  LeaseHeld'
<1> SUFFICES ASSUME NEW d \in Caller, pc'[d] \in Critical, timer'[d] < LockTtl
             PROVE  lock'[TheLock(d)'] = [holder |-> d, left |-> LockTtl - timer'[d]]
  BY DEF LeaseHeld
<1>1. TheLock(d)' = TheLock(d) /\ TheLock(d) \in DOMAIN lock
  BY LockIndex DEF TheLock, LockPlace, TypeOK
<1>2. TheLock(c) \in DOMAIN lock
  BY LockIndex DEF TypeOK
<1>3. CASE d = c
  <2>1. lock'[TheLock(c)] = HeldBy(c) /\ timer'[c] = 0
    BY <1>2, <1>3 DEF TakeOrSleep, Goto, Restart, Critical, TypeOK
  <2> QED BY <1>1, <1>3, <2>1, TimeAssumption DEF HeldBy
<1>4. CASE d # c
  <2>1. pc[d] \in Critical /\ timer'[d] = timer[d]
    BY <1>4 DEF TakeOrSleep, Goto, Restart, TypeOK
  <2>2. lock[TheLock(d)] = [holder |-> d, left |-> LockTtl - timer[d]]
    BY <2>1 DEF LeaseHeld
  <2>3. lock[TheLock(d)] # Free
    BY <2>2, NoneAssumption DEF Free
  <2>4. lock'[TheLock(d)] = lock[TheLock(d)]
    BY <1>1, <2>3 DEF TakeOrSleep, TypeOK
  <2> QED BY <1>1, <2>1, <2>2, <2>4
<1> QED BY <1>3, <1>4

\* An attempt for the lock by a call that does not hold it keeps the leases.
LEMMA AttemptKeeps ==
  ASSUME TypeOK, LeaseHeld, NEW c \in Caller, pc[c] \notin Critical,
         Attempt(c), UNCHANGED key
  PROVE  LeaseHeld'
<1>1. CASE TakeOrSleep(c)
  BY <1>1, TakeKeeps
<1>2. CASE Goto(c, "acquire") /\ UNCHANGED <<lock, timer>>
  <2>1. \A d \in Caller : LeaseKept(d) \/ pc'[d] \notin Critical
    BY <1>2 DEF Goto, LeaseKept, Critical, TypeOK
  <2> QED BY <2>1, KeepLeases
<1> QED BY <1>1, <1>2 DEF Attempt

\* A release frees no lock but the caller's own.
LEMMA UnlockKeeps ==
  ASSUME TypeOK, LeaseHeld, NEW c \in Caller, NEW r,
         Return(c, r), lock' \in {lock, Unlocked(c)}, UNCHANGED key
  PROVE  LeaseHeld'
<1>1. ASSUME NEW d \in Caller, d # c PROVE LeaseKept(d)
  <2>1. pc'[d] = pc[d] /\ timer'[d] = timer[d] /\ key'[d] = key[d]
    BY <1>1 DEF Return, Goto, Restart, TypeOK
  <2>2. CASE lock' = lock
    BY <2>1, <2>2 DEF LeaseKept
  <2>3. CASE lock' = Unlocked(c)
    <3>1. TheLock(d) \in DOMAIN lock /\ TheLock(c) \in DOMAIN lock
      BY LockIndex DEF TypeOK
    <3>2. CASE TheLock(d) = TheLock(c) /\ lock[TheLock(c)].holder = c
      BY <1>1, <2>1, <3>2 DEF LeaseKept
    <3>3. CASE TheLock(d) # TheLock(c) \/ lock[TheLock(c)].holder # c
      BY <2>1, <2>3, <3>1, <3>3 DEF LeaseKept, Unlocked, TypeOK
    <3> QED BY <3>2, <3>3
  <2> QED BY <2>2, <2>3
<1>2. pc'[c] \notin Critical
  BY DEF Return, Goto, Critical, TypeOK
<1> QED BY <1>1, <1>2, KeepLeases

\* Timers and leases run together.
LEMMA TickKeeps == TypeOK /\ LeaseHeld /\ Tick => LeaseHeld'
<1> SUFFICES ASSUME TypeOK, LeaseHeld, Tick,
                    NEW d \in Caller, pc'[d] \in Critical, timer'[d] < LockTtl
             PROVE  lock'[TheLock(d)'] = [holder |-> d, left |-> LockTtl - timer'[d]]
  BY DEF LeaseHeld
<1>1. TheLock(d)' = TheLock(d) /\ TheLock(d) \in Place \X Key
  BY LockIndex DEF TheLock, LockPlace, Tick
<1>2. pc[d] \in Critical
  BY DEF Tick, TypeOK, Critical
<1>3. /\ timer[d] \in Nat /\ timer[d] <= Horizon
      /\ Horizon \in Nat /\ LockTtl \in Nat \ {0} /\ LockTtl <= Horizon
  BY TimeAssumption DEF TypeOK, Horizon
<1>4. timer'[d] = IF timer[d] < Horizon THEN timer[d] + 1 ELSE timer[d]
  BY <1>2 DEF Tick, Timed
<1>5. timer'[d] = timer[d] + 1 /\ LockTtl - timer[d] \in 2 .. LockTtl
  BY <1>3, <1>4
<1>6. lock[TheLock(d)] = [holder |-> d, left |-> LockTtl - timer[d]]
  BY <1>2, <1>3, <1>5 DEF LeaseHeld
<1>7. lock[TheLock(d)] \in Lease
  BY <1>1 DEF TypeOK, Lease
<1>8. Aged(lock[TheLock(d)]) = [holder |-> d, left |-> (LockTtl - timer[d]) - 1]
  BY <1>5, <1>6, <1>7, AgedLease
<1>9. lock'[TheLock(d)] = Aged(lock[TheLock(d)])
  BY <1>1 DEF Tick
<1> QED BY <1>1, <1>3, <1>5, <1>8, <1>9

\* Initially no call is inside the lock.
LEMMA InitLeases == Init => LeaseHeld
BY DEF Init, LeaseHeld, Critical

\* Every step keeps the lease of each call inside the lock, as long as it lasts.
LEMMA StepLeases == TypeOK /\ LeaseHeld /\ [Next]_vars => LeaseHeld'
<1> SUFFICES ASSUME TypeOK, LeaseHeld, [Next]_vars PROVE LeaseHeld'
  OBVIOUS
<1>g. ASSUME NEW c \in Caller, NEW p, Goto(c, p), pc[c] \in Critical \/ p \notin Critical,
             UNCHANGED <<key, timer, lock>>
      PROVE  LeaseHeld'
  <2>1. \A d \in Caller : LeaseKept(d) \/ pc'[d] \notin Critical
    BY <1>g DEF Goto, LeaseKept, TypeOK
  <2> QED BY <2>1, KeepLeases
<1>e. ASSUME NEW c \in Caller, NEW r, Return(c, r), UNCHANGED <<key, lock>>
      PROVE  LeaseHeld'
  BY <1>e, UnlockKeeps
<1>w. ASSUME NEW c \in Caller, pc[c] = "fetch", NEW p \in Critical, NEW r,
             Settle(c, p, r), UNCHANGED <<key, timer, lock>>
      PROVE  LeaseHeld'
  <2>1. \A d \in Caller : LeaseKept(d) \/ pc'[d] \notin Critical
    BY <1>w DEF Settle, LeaseKept, Critical, TypeOK
  <2> QED BY <2>1, KeepLeases
<1>1. ASSUME NEW c \in Caller, NEW k \in Key, Call(c, k) PROVE LeaseHeld'
  <2>1. \A d \in Caller : LeaseKept(d) \/ pc'[d] \notin Critical
    BY <1>1 DEF Call, Goto, LeaseKept, Critical, Shared, TypeOK
  <2> QED BY <2>1, KeepLeases
<1>2. ASSUME NEW c \in Caller, FirstAnswer(c) PROVE LeaseHeld'
  BY <1>2, <1>g DEF FirstAnswer, Answer, Critical
<1>3. ASSUME NEW c \in Caller, Check(c) PROVE LeaseHeld'
  <2>1. CASE Goto(c, "joined") /\ UNCHANGED <<timer, outcome, lock>>
    BY <1>3, <2>1, <1>g DEF Check, Critical
  <2>2. CASE Return(c, "value") /\ UNCHANGED <<leader, lock>>
    BY <1>3, <2>2, <1>e DEF Check
  <2>3. CASE Attempt(c)
    BY <1>3, <2>3, AttemptKeeps DEF Check, Critical
  <2> QED BY <1>3, <2>1, <2>2, <2>3 DEF Check
<1>4. ASSUME NEW c \in Caller, SetNX(c) PROVE LeaseHeld'
  BY <1>4, TakeKeeps DEF SetNX, Critical
<1>5. ASSUME NEW c \in Caller, AcquireFails(c) PROVE LeaseHeld'
  <2>1. CASE UNCHANGED lock
    BY <1>5, <2>1, <1>e DEF AcquireFails
  <2>2. CASE lock[TheLock(c)] = Free /\ lock' = [lock EXCEPT ![TheLock(c)] = HeldBy(c)]
    <3>1. ASSUME NEW d \in Caller, d # c PROVE LeaseKept(d)
      <4>1. pc'[d] = pc[d] /\ timer'[d] = timer[d] /\ key'[d] = key[d]
        BY <1>5, <3>1 DEF AcquireFails, Return, Goto, Restart, TypeOK
      <4>2. TheLock(d) \in DOMAIN lock /\ Free.holder # d
        BY LockIndex, NoneAssumption DEF TypeOK, Free
      <4> QED BY <2>2, <4>1, <4>2 DEF LeaseKept, TypeOK
    <3>2. pc'[c] \notin Critical
      BY <1>5 DEF AcquireFails, Return, Goto, Critical, TypeOK
    <3> QED BY <3>1, <3>2, KeepLeases
  <2> QED BY <1>5, <2>1, <2>2 DEF AcquireFails
<1>6. ASSUME NEW c \in Caller, Wake(c) PROVE LeaseHeld'
  <2>1. CASE Attempt(c)
    BY <1>6, <2>1, AttemptKeeps DEF Wake, Critical
  <2>2. CASE Goto(c, "timedout") /\ UNCHANGED <<lock, timer>>
    BY <1>6, <2>2, <1>g DEF Wake, Critical
  <2> QED BY <1>6, <2>1, <2>2 DEF Wake
<1>7. ASSUME NEW c \in Caller, Recheck(c) PROVE LeaseHeld'
  BY <1>7, <1>g DEF Recheck, LookUp, Shared, Critical
<1>8. ASSUME NEW c \in Caller, RecheckAnswer(c) PROVE LeaseHeld'
  BY <1>8, <1>g DEF RecheckAnswer, Answer, Critical
<1>9. ASSUME NEW c \in Caller, Start(c) PROVE LeaseHeld'
  BY <1>9, <1>g DEF Start, Critical
<1>10. ASSUME NEW c \in Caller, Fetched(c) PROVE LeaseHeld'
  BY <1>10, <1>w DEF Fetched, Critical
<1>11. ASSUME NEW c \in Caller, FetchFails(c) PROVE LeaseHeld'
  BY <1>11, <1>w DEF FetchFails, Critical
<1>12. ASSUME NEW c \in Caller, Store(c) PROVE LeaseHeld'
  BY <1>12, <1>g DEF Store, Critical
<1>13. ASSUME NEW c \in Caller, StoreFails(c) PROVE LeaseHeld'
  BY <1>13, <1>g DEF StoreFails, Critical
<1>14. ASSUME NEW c \in Caller, Stored(c) PROVE LeaseHeld'
  BY <1>14, <1>g DEF Stored, Critical
<1>15. ASSUME NEW c \in Caller, Release(c) PROVE LeaseHeld'
  BY <1>15, UnlockKeeps DEF Release
<1>16. ASSUME NEW c \in Caller, ReleaseFails(c) PROVE LeaseHeld'
  BY <1>16, UnlockKeeps DEF ReleaseFails
<1>17. ASSUME NEW c \in Caller, LastLookUp(c) PROVE LeaseHeld'
  <2>1. \A d \in Caller : LeaseKept(d) \/ pc'[d] \notin Critical
    BY <1>17 DEF LastLookUp, LookUp, Goto, Restart, LeaseKept, Critical, Shared, TypeOK
  <2> QED BY <2>1, KeepLeases
<1>18. ASSUME NEW c \in Caller, LastAnswer(c) PROVE LeaseHeld'
  BY <1>18, <1>g DEF LastAnswer, Answer, Critical
<1>19. ASSUME NEW c \in Caller, StartAlone(c) PROVE LeaseHeld'
  BY <1>19, <1>g DEF StartAlone, Critical
<1>20. ASSUME NEW c \in Caller, FetchedAlone(c) PROVE LeaseHeld'
  BY <1>20, <1>e DEF FetchedAlone, Shared
<1>21. ASSUME Tick PROVE LeaseHeld'
  BY <1>21, TickKeeps
<1>22. ASSUME NEW s \in Server, NEW k \in Key, LoseL1(s, k) PROVE LeaseHeld'
  BY <1>22, KeepLeases DEF LoseL1, LeaseKept
<1>23. ASSUME NEW k \in Key, LoseL2(k) PROVE LeaseHeld'
  BY <1>23, KeepLeases DEF LoseL2, LeaseKept
<1>24. CASE UNCHANGED vars
  BY <1>24, KeepLeases DEF vars, LeaseKept
<1> QED BY <1>1, <1>2, <1>3, <1>4, <1>5, <1>6, <1>7, <1>8, <1>9, <1>10, <1>11,
           <1>12, <1>13, <1>14, <1>15, <1>16, <1>17, <1>18, <1>19, <1>20, <1>21,
           <1>22, <1>23, <1>24 DEF Next, Step

\* Two calls under the lock of one key: at least one has outlived its ttlMs.
\* The owner check of release, NX and PX give this for every schedule, every
\* failing command and every number of callers.
THEOREM LeasesExclude == Spec => []LockExclusion
<1>1. TypeOK /\ LeaseHeld => LockExclusion
  <2> SUFFICES ASSUME TypeOK, LeaseHeld,
                      NEW c \in Caller, NEW d \in Caller, c # d,
                      pc[c] \in Critical, pc[d] \in Critical, TheLock(c) = TheLock(d),
                      timer[c] < LockTtl, timer[d] < LockTtl
               PROVE  FALSE
    BY TimeAssumption DEF LockExclusion, TypeOK, Horizon
  <2>1. /\ lock[TheLock(c)] = [holder |-> c, left |-> LockTtl - timer[c]]
        /\ lock[TheLock(d)] = [holder |-> d, left |-> LockTtl - timer[d]]
    BY DEF LeaseHeld
  <2>2. lock[TheLock(c)].holder = c /\ lock[TheLock(d)].holder = d
    BY <2>1
  <2> QED BY <2>2
<1>2. Init => TypeOK /\ LeaseHeld
  BY InitTypes, InitLeases
<1>3. TypeOK /\ LeaseHeld /\ [Next]_vars => TypeOK' /\ LeaseHeld'
  BY StepTypes, StepLeases
<1> QED BY <1>1, <1>2, <1>3, PTL DEF Spec

-----------------------------------------------------------------------------
(***************************************************************************)
(* PendingIsLive is inductive together with the types: its three parts,    *)
(* taken together, say who may refer to whose fetch.                       *)
(***************************************************************************)

Entered == {"fetch", "store", "stored"}

\* A call that nobody refers to, and that refers to nobody, moves on.
LEMMA AloneKeeps ==
  ASSUME TypeOK, PendingIsLive, NEW c \in Caller,
         pc[c] \notin {"fetch", "joined"}, UNCHANGED <<pending, leader, key>>,
         NEW p, p # "joined", pc[c] \in Entered => p \in Entered, Goto(c, p)
  PROVE  PendingIsLive'
<1>1. /\ pc'[c] = p
      /\ \A d \in Caller : d # c => pc'[d] = pc[d]
  BY DEF Goto, TypeOK
<1>2. ASSUME NEW s \in Server, NEW k \in Key, pending[s][k] # None
      PROVE  pc'[pending[s][k]] \in Entered
  <2>1. pending[s][k] \in Caller /\ pc[pending[s][k]] \in Entered
    BY <1>2 DEF TypeOK, PendingIsLive, Entered
  <2> QED BY <1>1, <2>1
<1>3. ASSUME NEW d \in Caller PROVE pc'[d] = "joined" <=> leader[d] # None
  BY <1>1 DEF PendingIsLive
<1>4. ASSUME NEW d \in Caller, pc'[d] = "joined" PROVE pc'[leader[d]] = "fetch"
  <2>1. pc[d] = "joined" /\ leader[d] \in Caller
    BY <1>1, <1>3, <1>4 DEF TypeOK
  <2>2. pc[leader[d]] = "fetch"
    BY <2>1 DEF PendingIsLive
  <2> QED BY <1>1, <2>1, <2>2
<1> QED BY <1>2, <1>3, <1>4 DEF PendingIsLive, Entered

\* A fetch that settles, with the entry left for the write or taken out.
LEMMA SettleKeeps ==
  ASSUME TypeOK, PendingIsLive, NEW c \in Caller, pc[c] = "fetch", NEW r,
         NEW p, p \notin {"fetch", "joined"}, Settle(c, p, r), UNCHANGED key,
         \/ p \in Entered /\ UNCHANGED pending
         \/ EnterPending(c, None)
  PROVE  PendingIsLive'
<1>1. Home[c] \in Server /\ key[c] \in Key /\ c # None
  BY LockIndex, NoneAssumption
<1>2. ASSUME NEW d \in Caller, leader[d] = c PROVE pc[d] = "joined" /\ d # c
  BY <1>1, <1>2 DEF PendingIsLive
<1>3. /\ pc'[c] = p
      /\ \A d \in Caller : d # c /\ leader[d] # c => pc'[d] = pc[d]
      /\ \A d \in Caller : d # c /\ leader[d] = c => pc'[d] = "idle"
      /\ \A d \in Caller : leader'[d] = IF leader[d] = c THEN None ELSE leader[d]
  BY DEF Settle
<1>4. ASSUME NEW s \in Server, NEW k \in Key, pending'[s][k] # None
      PROVE  /\ pc'[pending'[s][k]] \in Entered
             /\ Home[pending'[s][k]] = s
             /\ key[pending'[s][k]] = k
  <2>1. pending'[s][k] = pending[s][k]
    BY <1>1, <1>4 DEF EnterPending, TypeOK
  <2>2. /\ pending[s][k] \in Caller
        /\ pc[pending[s][k]] \in Entered
        /\ Home[pending[s][k]] = s
        /\ key[pending[s][k]] = k
    BY <1>4, <2>1 DEF TypeOK, PendingIsLive, Entered
  <2>3. CASE pending[s][k] = c
    <3>1. ~EnterPending(c, None)
      BY <1>1, <1>4, <2>2, <2>3 DEF EnterPending, TypeOK
    <3> QED BY <1>3, <2>1, <2>2, <2>3, <3>1
  <2>4. CASE pending[s][k] # c
    <3>1. leader[pending[s][k]] # c
      BY <1>2, <2>2 DEF Entered
    <3> QED BY <1>3, <2>1, <2>2, <2>4, <3>1
  <2> QED BY <2>3, <2>4
<1>5. ASSUME NEW d \in Caller PROVE pc'[d] = "joined" <=> leader'[d] # None
  <2>1. CASE d = c
    BY <1>1, <1>2, <1>3, <2>1 DEF PendingIsLive
  <2>2. CASE d # c
    BY <1>1, <1>3, <2>2 DEF PendingIsLive
  <2> QED BY <2>1, <2>2
<1>6. ASSUME NEW d \in Caller, pc'[d] = "joined" PROVE pc'[leader'[d]] = "fetch"
  <2>1. d # c /\ leader[d] # c /\ pc[d] = "joined" /\ leader'[d] = leader[d]
    BY <1>3, <1>6
  <2>2. leader[d] \in Caller /\ pc[leader[d]] = "fetch"
    BY <2>1 DEF PendingIsLive, TypeOK
  <2>3. leader[leader[d]] # c
    BY <1>2, <2>2
  <2> QED BY <1>3, <2>1, <2>2, <2>3
<1> QED BY <1>4, <1>5, <1>6 DEF PendingIsLive, Entered

\* A call that has not joined leaves the section of its entry, taking it out.
LEMMA LeaveKeeps ==
  ASSUME TypeOK, PendingIsLive, NEW c \in Caller, pc[c] \in {"store", "stored"},
         Goto(c, "release"), EnterPending(c, None), UNCHANGED <<key, leader>>
  PROVE  PendingIsLive'
<1>1. Home[c] \in Server /\ key[c] \in Key /\ c # None
  BY LockIndex, NoneAssumption
<1>2. /\ pc'[c] = "release"
      /\ \A d \in Caller : d # c => pc'[d] = pc[d]
  BY DEF Goto, TypeOK
<1>3. ASSUME NEW s \in Server, NEW k \in Key, pending'[s][k] # None
      PROVE  /\ pc'[pending'[s][k]] \in Entered
             /\ Home[pending'[s][k]] = s
             /\ key[pending'[s][k]] = k
  <2>1. pending'[s][k] = pending[s][k] /\ ~(s = Home[c] /\ k = key[c])
    BY <1>1, <1>3 DEF EnterPending, TypeOK
  <2>2. /\ pending[s][k] \in Caller
        /\ pc[pending[s][k]] \in Entered
        /\ Home[pending[s][k]] = s
        /\ key[pending[s][k]] = k
    BY <1>3, <2>1 DEF TypeOK, PendingIsLive, Entered
  <2>3. pending[s][k] # c
    BY <2>1, <2>2
  <2> QED BY <1>2, <2>1, <2>2, <2>3
<1>4. ASSUME NEW d \in Caller PROVE pc'[d] = "joined" <=> leader[d] # None
  BY <1>2 DEF PendingIsLive
<1>5. ASSUME NEW d \in Caller, pc'[d] = "joined" PROVE pc'[leader[d]] = "fetch"
  <2>1. pc[d] = "joined" /\ leader[d] \in Caller
    BY <1>2, <1>4, <1>5 DEF TypeOK
  <2>2. pc[leader[d]] = "fetch"
    BY <2>1 DEF PendingIsLive
  <2> QED BY <1>2, <2>1, <2>2
<1> QED BY <1>3, <1>4, <1>5 DEF PendingIsLive, Entered

\* fetchFn() is called and its promise entered.
LEMMA StartKeeps ==
  ASSUME TypeOK, PendingIsLive, NEW c \in Caller, Start(c)
  PROVE  PendingIsLive'
<1>1. Home[c] \in Server /\ key[c] \in Key
  BY LockIndex
<1>2. /\ pc[c] = "start" /\ pc'[c] = "fetch"
      /\ \A d \in Caller : d # c => pc'[d] = pc[d]
      /\ UNCHANGED <<key, leader>>
  BY DEF Start, Goto, TypeOK
<1>3. ASSUME NEW s \in Server, NEW k \in Key, pending'[s][k] # None
      PROVE  /\ pc'[pending'[s][k]] \in Entered
             /\ Home[pending'[s][k]] = s
             /\ key[pending'[s][k]] = k
  <2>1. CASE s = Home[c] /\ k = key[c]
    BY <1>1, <1>2, <2>1 DEF Start, EnterPending, TypeOK, Entered
  <2>2. CASE ~(s = Home[c] /\ k = key[c])
    <3>1. pending'[s][k] = pending[s][k]
      BY <1>1, <2>2 DEF Start, EnterPending, TypeOK
    <3>2. /\ pending[s][k] \in Caller
          /\ pc[pending[s][k]] \in Entered
          /\ Home[pending[s][k]] = s
          /\ key[pending[s][k]] = k
      BY <1>3, <3>1 DEF TypeOK, PendingIsLive, Entered
    <3> QED BY <1>2, <3>1, <3>2 DEF Entered
  <2> QED BY <2>1, <2>2
<1>4. ASSUME NEW d \in Caller PROVE pc'[d] = "joined" <=> leader[d] # None
  BY <1>2 DEF PendingIsLive
<1>5. ASSUME NEW d \in Caller, pc'[d] = "joined" PROVE pc'[leader[d]] = "fetch"
  <2>1. pc[d] = "joined" /\ leader[d] \in Caller
    BY <1>2, <1>4, <1>5 DEF TypeOK
  <2>2. pc[leader[d]] = "fetch"
    BY <2>1 DEF PendingIsLive
  <2> QED BY <1>2, <2>1, <2>2
<1> QED BY <1>2, <1>3, <1>4, <1>5 DEF PendingIsLive, Entered

\* A call joins the fetch entered for its key.
LEMMA JoinKeeps ==
  ASSUME TypeOK, PendingIsLive, NEW c \in Caller, pc[c] = "check",
         NEW p \in Caller, pc[p] = "fetch", Goto(c, "joined"),
         leader' = [leader EXCEPT ![c] = p], UNCHANGED <<key, pending>>
  PROVE  PendingIsLive'
<1>1. /\ pc'[c] = "joined" /\ leader'[c] = p /\ p # None
      /\ \A d \in Caller : d # c => pc'[d] = pc[d] /\ leader'[d] = leader[d]
  BY NoneAssumption DEF Goto, TypeOK
<1>2. ASSUME NEW s \in Server, NEW k \in Key, pending[s][k] # None
      PROVE  pc'[pending[s][k]] \in Entered
  <2>1. pending[s][k] \in Caller /\ pc[pending[s][k]] \in Entered
    BY <1>2 DEF TypeOK, PendingIsLive, Entered
  <2> QED BY <1>1, <2>1 DEF Entered
<1>3. ASSUME NEW d \in Caller PROVE pc'[d] = "joined" <=> leader'[d] # None
  BY <1>1 DEF PendingIsLive
<1>4. ASSUME NEW d \in Caller, pc'[d] = "joined" PROVE pc'[leader'[d]] = "fetch"
  <2>1. CASE d = c
    BY <1>1, <2>1
  <2>2. CASE d # c
    <3>1. pc[d] = "joined" /\ leader[d] \in Caller
      BY <1>1, <1>3, <1>4, <2>2 DEF TypeOK
    <3>2. pc[leader[d]] = "fetch"
      BY <3>1 DEF PendingIsLive
    <3> QED BY <1>1, <2>2, <3>1, <3>2
  <2> QED BY <2>1, <2>2
<1> QED BY <1>2, <1>3, <1>4 DEF PendingIsLive, Entered

\* Initially no request is pending.
LEMMA InitPending == Init => PendingIsLive
BY DEF Init, PendingIsLive

\* Every step keeps a live call behind each pending request and each joined call.
LEMMA StepPending == TypeOK /\ PendingIsLive /\ [Next]_vars => PendingIsLive'
<1> SUFFICES ASSUME TypeOK, PendingIsLive, [Next]_vars PROVE PendingIsLive'
  OBVIOUS
<1>a. ASSUME NEW c \in Caller, TakeOrSleep(c) \/ Attempt(c), pc[c] \in Waiting \cup {"check"},
             UNCHANGED <<pending, leader, key>>
      PROVE  PendingIsLive'
  <2>1. PICK p \in {"locked", "sleep", "acquire"} : Goto(c, p)
    BY <1>a DEF Attempt, TakeOrSleep
  <2> QED BY <1>a, <2>1, AloneKeeps DEF Waiting, Entered
<1>1. ASSUME NEW c \in Caller, NEW k \in Key, Call(c, k) PROVE PendingIsLive'
  <2>1. /\ pc[c] = "idle"
        /\ pc'[c] \in {"idle", "first", "check"}
        /\ \A d \in Caller : d # c => pc'[d] = pc[d] /\ key'[d] = key[d]
        /\ UNCHANGED <<pending, leader>>
    BY <1>1 DEF Call, Goto, TypeOK, Shared
  <2>2. ASSUME NEW s \in Server, NEW j \in Key, pending[s][j] # None
        PROVE  pending[s][j] \in Caller \ {c}
    <3>1. pc[pending[s][j]] \in {"fetch", "store", "stored"}
      BY <2>2 DEF PendingIsLive
    <3>2. pending[s][j] \in Caller \cup {None}
      BY DEF TypeOK
    <3> QED BY <3>1, <3>2, <2>1, <2>2
  <2>3. ASSUME NEW d \in Caller, pc'[d] = "joined"
        PROVE  leader[d] \in Caller \ {c} /\ pc[d] = "joined"
    <3>1. pc[d] = "joined"
      BY <2>1, <2>3
    <3>2. leader[d] \in Caller
      BY <3>1 DEF TypeOK, PendingIsLive
    <3> QED BY <2>1, <3>1, <3>2 DEF PendingIsLive
  <2>4. \A d \in Caller : pc'[d] = "joined" <=> leader[d] # None
    BY <2>1 DEF PendingIsLive
  <2> QED BY <2>1, <2>2, <2>3, <2>4 DEF PendingIsLive
<1>2. ASSUME NEW c \in Caller, FirstAnswer(c) PROVE PendingIsLive'
  BY <1>2, AloneKeeps DEF FirstAnswer, Answer, Entered
<1>3. ASSUME NEW c \in Caller, Check(c) PROVE PendingIsLive'
  <2> DEFINE p == pending[Home[c]][key[c]]
  <2>1. CASE p # None /\ pc[p] = "fetch" /\ Goto(c, "joined")
             /\ leader' = [leader EXCEPT ![c] = p]
    <3>1. p \in Caller
      BY <2>1, LockIndex DEF TypeOK
    <3> HIDE DEF p
    <3> QED BY <1>3, <2>1, <3>1, JoinKeeps DEF Check
  <2>2. CASE Return(c, "value") /\ UNCHANGED leader
    BY <1>3, <2>2, AloneKeeps DEF Check, Return, Entered
  <2>3. CASE Attempt(c) /\ UNCHANGED leader
    BY <1>3, <2>3, <1>a DEF Check
  <2> QED BY <1>3, <2>1, <2>2, <2>3 DEF Check
<1>4. ASSUME NEW c \in Caller, SetNX(c) PROVE PendingIsLive'
  BY <1>4, <1>a DEF SetNX, Waiting
<1>5. ASSUME NEW c \in Caller, AcquireFails(c) PROVE PendingIsLive'
  BY <1>5, AloneKeeps DEF AcquireFails, Return, Entered
<1>6. ASSUME NEW c \in Caller, Wake(c) PROVE PendingIsLive'
  <2>1. CASE Attempt(c)
    BY <1>6, <2>1, <1>a DEF Wake, Waiting
  <2>2. CASE Goto(c, "timedout")
    BY <1>6, <2>2, AloneKeeps DEF Wake, Entered
  <2> QED BY <1>6, <2>1, <2>2 DEF Wake
<1>7. ASSUME NEW c \in Caller, Recheck(c) PROVE PendingIsLive'
  BY <1>7, AloneKeeps DEF Recheck, LookUp, Shared, Entered
<1>8. ASSUME NEW c \in Caller, RecheckAnswer(c) PROVE PendingIsLive'
  BY <1>8, AloneKeeps DEF RecheckAnswer, Answer, Entered
<1>9. ASSUME NEW c \in Caller, Start(c) PROVE PendingIsLive'
  BY <1>9, StartKeeps
<1>10. ASSUME NEW c \in Caller, Fetched(c) PROVE PendingIsLive'
  BY <1>10, SettleKeeps DEF Fetched, Entered
<1>11. ASSUME NEW c \in Caller, FetchFails(c) PROVE PendingIsLive'
  BY <1>11, SettleKeeps DEF FetchFails
<1>12. ASSUME NEW c \in Caller, Store(c) PROVE PendingIsLive'
  BY <1>12, AloneKeeps DEF Store, Entered
<1>13. ASSUME NEW c \in Caller, StoreFails(c) PROVE PendingIsLive'
  BY <1>13, LeaveKeeps DEF StoreFails
<1>14. ASSUME NEW c \in Caller, Stored(c) PROVE PendingIsLive'
  BY <1>14, LeaveKeeps DEF Stored
<1>15. ASSUME NEW c \in Caller, Release(c) PROVE PendingIsLive'
  BY <1>15, AloneKeeps DEF Release, Return, Entered
<1>16. ASSUME NEW c \in Caller, ReleaseFails(c) PROVE PendingIsLive'
  BY <1>16, AloneKeeps DEF ReleaseFails, Return, Entered
<1>17. ASSUME NEW c \in Caller, LastLookUp(c) PROVE PendingIsLive'
  BY <1>17, AloneKeeps DEF LastLookUp, LookUp, Shared, Entered
<1>18. ASSUME NEW c \in Caller, LastAnswer(c) PROVE PendingIsLive'
  BY <1>18, AloneKeeps DEF LastAnswer, Answer, Entered
<1>19. ASSUME NEW c \in Caller, StartAlone(c) PROVE PendingIsLive'
  BY <1>19, AloneKeeps DEF StartAlone, Entered
<1>20. ASSUME NEW c \in Caller, FetchedAlone(c) PROVE PendingIsLive'
  BY <1>20, AloneKeeps DEF FetchedAlone, Return, Shared, Entered
<1>21. ASSUME Tick PROVE PendingIsLive'
  <2>1. /\ \A d \in Caller : pc[d] # "sleep" => pc'[d] = pc[d]
        /\ \A d \in Caller : pc[d] = "sleep" => pc'[d] = "wake"
        /\ UNCHANGED <<pending, leader, key>>
    BY <1>21 DEF Tick
  <2>2. ASSUME NEW s \in Server, NEW j \in Key, pending[s][j] # None
        PROVE  pc'[pending[s][j]] = pc[pending[s][j]]
    BY <2>1, <2>2 DEF TypeOK, PendingIsLive
  <2>3. ASSUME NEW d \in Caller, pc'[d] = "joined"
        PROVE  pc'[leader[d]] = "fetch"
    <3>1. pc[d] = "joined"
      BY <2>1, <2>3
    <3>2. leader[d] \in Caller /\ pc[leader[d]] = "fetch"
      BY <3>1 DEF TypeOK, PendingIsLive
    <3> QED BY <2>1, <3>2
  <2>4. \A d \in Caller : pc'[d] = "joined" <=> leader[d] # None
    BY <2>1 DEF PendingIsLive
  <2> QED BY <2>1, <2>2, <2>3, <2>4 DEF PendingIsLive
<1>22. ASSUME NEW s \in Server, NEW k \in Key, LoseL1(s, k) PROVE PendingIsLive'
  BY <1>22 DEF LoseL1, PendingIsLive
<1>23. ASSUME NEW k \in Key, LoseL2(k) PROVE PendingIsLive'
  BY <1>23 DEF LoseL2, PendingIsLive
<1>24. CASE UNCHANGED vars
  BY <1>24 DEF vars, PendingIsLive
<1> QED BY <1>1, <1>2, <1>3, <1>4, <1>5, <1>6, <1>7, <1>8, <1>9, <1>10, <1>11,
           <1>12, <1>13, <1>14, <1>15, <1>16, <1>17, <1>18, <1>19, <1>20, <1>21,
           <1>22, <1>23, <1>24 DEF Next, Step

\* An entry of pendingFetches always belongs to a call that is still fetching
\* or storing, and every call that joined one waits for a fetch that is still
\* to settle: the `finally' of getOrFetch covers every way out.
THEOREM PendingFetchesAreLive == Spec => []PendingIsLive
<1>1. Init => TypeOK /\ PendingIsLive
  BY InitTypes, InitPending
<1>2. TypeOK /\ PendingIsLive /\ [Next]_vars => TypeOK' /\ PendingIsLive'
  BY StepTypes, StepPending
<1> QED BY <1>1, <1>2, PTL DEF Spec

=============================================================================
