------------------------ MODULE GetOrFetchOnceProofs ------------------------
(***************************************************************************)
(* One fetch at a time, and one for every loss of the entry: where nothing *)
(* fails, the event loop is prompt, the origin answers within the lease,   *)
(* and calls wait long enough.  How long is enough is part of the theorem. *)
(*                                                                         *)
(* A call that polls for the lock does not know who else does, and may     *)
(* lose every poll.  It loses one to each tick of a fetch, and one to each *)
(* call that takes the lock between two ticks, looks into the cache again  *)
(* and leaves.  Such a call missed the cache before the value was stored,  *)
(* so it comes once for each time the entry was lost.  Spent counts these  *)
(* polls from the state alone: the calls that may still come, and how far  *)
(* the fetch is, are what is left of a round.                              *)
(***************************************************************************)
EXTENDS GetOrFetchProofs, FiniteSetTheorems

\* No more than so many polls are lost for each loss of the entry.
Round == 2 * Cardinality(Caller) + MaxFetch + 1

\* What the theorems assume: nothing fails, what is ready runs before time goes
\* on, the origin answers within the lease, and a wait outlasts the polls that
\* can be lost.
Calm ==
  /\ Prompt /\ Faults = {}
  /\ MaxFetch < LockTtl
  /\ IsFiniteSet(Caller)
  /\ (MaxLosses + 1) * Round < WaitTime

\* The value that the calls under lock i look for is where all of them find it.
There(i) == IF HasL2 THEN i[2] \in l2 ELSE i[2] \in l1[i[1]]

\* The calls that poll, or are about to; those that may find the value in L1
\* when they have the lock, though L2 has lost it.
Contending == {"check"} \cup Waiting
Waits(i) == {c \in Caller : pc[c] \in Contending /\ TheLock(c) = i}
Near(i) == {c \in Caller : pc[c] \in {"first"} \cup Contending /\ TheLock(c) = i /\ InL1(c)}

\* A call under the lock that is going to fetch, and the polls it has cost.
Busy(c) ==
  \/ pc[c] \in {"again", "start", "fetch", "store"}
  \/ pc[c] = "locked" /\ ~InL1(c)
Effort(i) == IF lock[i] # Free /\ Busy(lock[i].holder) THEN 1 + timer[lock[i].holder] ELSE 0

\* The polls under lock i that may have been lost since the last loss of an entry.
Spent(i) ==
  IF There(i) THEN Round - Cardinality(Waits(i))
  ELSE Cardinality(Caller) - Cardinality(Near(i)) + Effort(i)

\* The polls that c has lost, one it has lost already or will if it polls now
\* included.
Lost(c) == timer[c] + (IF pc[c] = "sleep" \/ lock[TheLock(c)] # Free THEN 1 ELSE 0)

Patient == \A c \in Caller : pc[c] \in Waiting => Lost(c) <= losses * Round + Spent(TheLock(c))

\* Without L2 its commands are not sent; no call gives up waiting; no lease
\* outlives the origin's answer.
Mode == ~HasL2 => l2 = {} /\ \A c \in Caller : pc[c] \notin {"first", "acquire", "again", "store"}
InTime ==
  \A c \in Caller :
    /\ pc[c] \notin {"timedout", "last", "alone", "direct"}
    /\ pc[c] \in {"idle", "first", "check", "joined"} => timer[c] = 0
    /\ pc[c] \in Critical => timer[c] <= MaxFetch

\* Who holds a lock is under it, and who fetches has found nothing.
Owned ==
  \A i \in Place \X Key : lock[i] # Free =>
    pc[lock[i].holder] \in Critical /\ TheLock(lock[i].holder) = i
Missing == \A c \in Caller : pc[c] \in {"start", "fetch", "store"} => ~There(TheLock(c))

\* A fetch since the last loss is under way, or has stored its value.
Accounted ==
  \A i \in Place \X Key :
    /\ fetches[i] <= 1
    /\ fetches[i] # 0 => \/ There(i)
                         \/ \E c \in Caller : TheLock(c) = i /\ pc[c] \in {"fetch", "store"}

Base == TypeOK /\ LeaseHeld /\ PendingIsLive
Orderly == Mode /\ InTime /\ Owned /\ Missing /\ Accounted

-----------------------------------------------------------------------------
(***************************************************************************)
(* What the numbers are.                                                   *)
(***************************************************************************)

\* Products of numbers.
LEMMA Products ==
  ASSUME NEW n \in Nat, NEW m \in Nat, NEW r \in Nat, n <= m
  PROVE  /\ n * r \in Nat /\ m * r \in Nat /\ n * r <= m * r
         /\ (n + 1) * r = n * r + r
<1>1. n * r \in Nat /\ m * r \in Nat /\ (m - n) * r \in Nat
  <2>1. \A a, b \in Nat : a * b \in Nat
    OBVIOUS
  <2>2. m - n \in Nat
    OBVIOUS
  <2> QED BY <2>1, <2>2
<1>2. m * r = n * r + (m - n) * r
  OBVIOUS
<1> QED BY <1>1, <1>2

\* Cardinality of sets of calls.
LEMMA Counts ==
  ASSUME IsFiniteSet(Caller), NEW S \in SUBSET Caller
  PROVE  /\ Cardinality(Caller) \in Nat /\ Cardinality(S) \in Nat
         /\ Cardinality(S) <= Cardinality(Caller)
         /\ \A T \in SUBSET S : /\ Cardinality(T) \in Nat /\ Cardinality(T) <= Cardinality(S)
                                /\ T # S => Cardinality(T) < Cardinality(S)
<1>1. IsFiniteSet(S) /\ Cardinality(S) <= Cardinality(Caller)
  BY FS_Subset
<1>2. \A T \in SUBSET S : Cardinality(T) <= Cardinality(S) /\ IsFiniteSet(T)
                           /\ (Cardinality(T) = Cardinality(S) => T = S)
  BY <1>1, FS_Subset
<1>3. \A T \in SUBSET S : Cardinality(T) \in Nat
  BY <1>2, FS_CardinalityType
<1> QED BY <1>1, <1>2, <1>3, FS_CardinalityType


\* What is known of the lock of a call.
LEMMA LockOf ==
  ASSUME TypeOK, NEW c \in Caller
  PROVE  /\ TheLock(c) \in Place \X Key /\ Home[c] \in Server /\ key[c] \in Key
         /\ There(TheLock(c)) <=> IF HasL2 THEN key[c] \in l2 ELSE InL1(c)
<1>1. TheLock(c)[2] = key[c] /\ (~HasL2 => TheLock(c)[1] = Home[c])
  BY DEF TheLock, LockPlace
<1> QED BY <1>1, LockIndex DEF There, InL1

\* A call under a lock holds it.
LEMMA Holds ==
  ASSUME Calm, Base, Orderly, NEW c \in Caller, pc[c] \in Critical
  PROVE  /\ lock[TheLock(c)] = [holder |-> c, left |-> LockTtl - timer[c]]
         /\ lock[TheLock(c)] # Free /\ lock[TheLock(c)].holder = c
<1>1. timer[c] < LockTtl
  BY TimeAssumption DEF Calm, Orderly, InTime, Base, TypeOK, Horizon
<1>2. lock[TheLock(c)] = [holder |-> c, left |-> LockTtl - timer[c]]
  BY <1>1 DEF Base, LeaseHeld
<1> QED BY <1>2, NoneAssumption DEF Free

\* No two calls are under one lock.
LEMMA Sole ==
  ASSUME Calm, Base, Orderly, NEW c \in Caller, NEW d \in Caller,
         pc[c] \in Critical, pc[d] \in Critical, TheLock(c) = TheLock(d)
  PROVE  c = d
BY Holds

\* The holder of a lock.
LEMMA HolderOf ==
  ASSUME TypeOK, Owned, NEW i \in Place \X Key, lock[i] # Free
  PROVE  /\ lock[i].holder \in Caller /\ pc[lock[i].holder] \in Critical
         /\ TheLock(lock[i].holder) = i
BY DEF TypeOK, Owned

\* A fetch costs at most MaxFetch polls and the first.
LEMMA EffortRange ==
  ASSUME Calm, Base, Orderly, NEW i \in Place \X Key
  PROVE  Effort(i) \in 0 .. MaxFetch + 1
<1>1. MaxFetch \in Nat
  BY TimeAssumption
<1>2. CASE lock[i] # Free /\ Busy(lock[i].holder)
  <2> DEFINE h == lock[i].holder
  <2>1. h \in Caller /\ pc[h] \in Critical
    BY <1>2, HolderOf DEF Base, Orderly
  <2>2. timer[h] \in Nat /\ timer[h] <= MaxFetch
    BY <2>1, TimeAssumption DEF Base, TypeOK, Orderly, InTime, Horizon
  <2>3. Effort(i) = 1 + timer[h]
    BY <1>2 DEF Effort
  <2> QED BY <1>1, <2>2, <2>3
<1>3. CASE ~(lock[i] # Free /\ Busy(lock[i].holder))
  <2>1. Effort(i) = 0
    BY <1>3 DEF Effort
  <2> QED BY <1>1, <2>1
<1> QED BY <1>2, <1>3

\* Spent stays within a round, and under a lock that is held it is not zero: its
\* holder is not one of those that may still come.
LEMMA SpentRange ==
  ASSUME Calm, Base, Orderly, NEW i \in Place \X Key
  PROVE  /\ Spent(i) \in Nat /\ Spent(i) <= Round /\ Round \in Nat
         /\ lock[i] # Free => 1 <= Spent(i)
<1> DEFINE N == Cardinality(Caller)
           W == Cardinality(Waits(i))
           M == Cardinality(Near(i))
<1>1. /\ MaxFetch \in Nat /\ N \in Nat /\ W \in Nat /\ M \in Nat /\ W <= N /\ M <= N
      /\ Near(i) # Caller => M < N
  <2>1. Waits(i) \in SUBSET Caller /\ Near(i) \in SUBSET Caller /\ Caller \in SUBSET Caller
    BY DEF Waits, Near
  <2> QED BY <2>1, Counts, TimeAssumption DEF Calm
<1>2. Effort(i) \in 0 .. MaxFetch + 1
  BY EffortRange
<1>3. Round = 2 * N + MaxFetch + 1
  BY DEF Round
<1>4. ASSUME lock[i] # Free
      PROVE  M < N
  <2>1. lock[i].holder \in Caller /\ pc[lock[i].holder] \in Critical
    BY <1>4, HolderOf DEF Base, Orderly
  <2>2. lock[i].holder \notin Near(i)
    BY <2>1 DEF Near, Critical, Contending, Waiting
  <2> QED BY <2>1, <2>2, <1>1
<1>5. CASE There(i)
  <2>1. Spent(i) = Round - W
    BY <1>5 DEF Spent
  <2> HIDE DEF N, W
  <2> QED BY <2>1, <1>1, <1>3
<1>6. CASE ~There(i)
  <2>1. Spent(i) = N - M + Effort(i)
    BY <1>6 DEF Spent
  <2> HIDE DEF N, M
  <2> QED BY <2>1, <1>1, <1>2, <1>3, <1>4
<1> QED BY <1>5, <1>6

-----------------------------------------------------------------------------
(***************************************************************************)
(* What the steps of a call do.                                            *)
(***************************************************************************)

\* Another call goes on only when the fetch it has joined settles; L1 and L2
\* gain nothing but the value of c's key.
Local(c) ==
  /\ \A d \in Caller \ {c} :
       /\ pc'[d] = pc[d] \/ (pc[d] = "joined" /\ pc'[d] = "idle")
       /\ timer'[d] = timer[d] /\ key'[d] = key[d]
  /\ key'[c] = key[c] \/ (pc[c] = "idle" /\ l1' = l1 /\ l2' = l2)
  /\ l1' = l1 \/ l1' = WithKey(Home[c], key[c])
  /\ l2' = l2 \/ l2' = l2 \cup {key[c]}
  /\ losses' = losses

Begins(c) ==
  /\ pc[c] = "idle" /\ timer'[c] = 0 /\ UNCHANGED <<lock, l1, l2, fetches>>
  /\ pc'[c] \in {"idle"} \cup (IF HasL2 THEN {"first"} ELSE {"check"})
  /\ pc'[c] # "idle" => ~InL1(c)'

Looks(c) ==
  /\ pc[c] = "first" /\ HasL2 /\ timer'[c] = 0 /\ UNCHANGED <<lock, l2, fetches, key>>
  /\ \/ pc'[c] = "idle" /\ There(TheLock(c))
     \/ pc'[c] = "check" /\ ~There(TheLock(c)) /\ l1' = l1

\* A turn of the loop without the lock, or none of it.
Turns(c) ==
  /\ UNCHANGED <<lock, l1, l2, fetches, key>> /\ timer'[c] = timer[c]
  /\ \/ pc[c] = "check" /\ pc'[c] \in {"joined", "idle"}
     \/ pc[c] \in {"check", "wake"} /\ pc'[c] = "acquire" /\ HasL2
     \/ pc[c] \in {"check", "wake", "acquire"} /\ pc'[c] = "sleep" /\ lock[TheLock(c)] # Free

Takes(c) ==
  /\ UNCHANGED <<l1, l2, fetches, key>> /\ timer'[c] = 0
  /\ pc[c] \in {"check", "wake", "acquire"} /\ pc'[c] = "locked"
  /\ lock[TheLock(c)] = Free /\ lock' = [lock EXCEPT ![TheLock(c)] = HeldBy(c)]

\* From the lock to the fetch, or back.
Rechecks(c) ==
  /\ UNCHANGED <<lock, l2, fetches, key>> /\ timer'[c] = timer[c]
  /\ \/ pc[c] = "locked" /\ pc'[c] = "release" /\ InL1(c) /\ l1' = l1
     \/ pc[c] = "locked" /\ pc'[c] = "again" /\ HasL2 /\ ~InL1(c) /\ l1' = l1
     \/ pc[c] = "locked" /\ pc'[c] = "start" /\ ~HasL2 /\ ~InL1(c) /\ l1' = l1
     \/ pc[c] = "again" /\ pc'[c] = "release" /\ HasL2 /\ There(TheLock(c))
     \/ pc[c] = "again" /\ pc'[c] = "start" /\ ~There(TheLock(c)) /\ l1' = l1

Starts(c) ==
  /\ UNCHANGED <<lock, l1, l2, key>> /\ timer'[c] = timer[c]
  /\ pc[c] = "start" /\ pc'[c] = "fetch" /\ CountFetch(c)

Answers(c) ==
  /\ UNCHANGED <<lock, l1, l2, fetches, key>> /\ timer'[c] = timer[c]
  /\ \/ pc[c] = "fetch" /\ pc'[c] = "store" /\ HasL2
     \/ pc[c] = "stored" /\ pc'[c] = "release"

Stores(c) ==
  /\ UNCHANGED <<lock, fetches, key>> /\ timer'[c] = timer[c]
  /\ pc[c] \in {"fetch", "store"} /\ pc'[c] = "stored"
  /\ IF HasL2 THEN l2' = l2 \cup {key[c]} ELSE l2' = l2
  /\ l1' = WithKey(Home[c], key[c])

Leaves(c) ==
  /\ UNCHANGED <<l1, l2, fetches, key>> /\ timer'[c] = 0
  /\ pc[c] = "release" /\ pc'[c] = "idle" /\ lock' = [lock EXCEPT ![TheLock(c)] = Free]

Kind(c) ==
  \/ Begins(c) \/ Looks(c) \/ Turns(c) \/ Takes(c) \/ Rechecks(c)
  \/ Starts(c) \/ Answers(c) \/ Stores(c) \/ Leaves(c)

\* One call moves, and nothing but its program counter and timer with it.
LEMMA OneMoves ==
  ASSUME TypeOK, NEW c \in Caller, NEW p, Goto(c, p), UNCHANGED <<key, losses>>,
         timer' = timer \/ Restart(c),
         l1' = l1 \/ l1' = WithKey(Home[c], key[c]), l2' = l2 \/ l2' = l2 \cup {key[c]}
  PROVE  /\ Local(c) /\ pc'[c] = p
         /\ timer' = timer => timer'[c] = timer[c]
         /\ Restart(c) => timer'[c] = 0
<1>1. pc'[c] = p /\ \A d \in Caller \ {c} : pc'[d] = pc[d]
  BY DEF Goto, TypeOK
<1>2. \A d \in Caller \ {c} : timer'[d] = timer[d]
  BY DEF Restart, TypeOK
<1>3. Restart(c) => timer'[c] = 0
  BY DEF Restart, TypeOK
<1> QED BY <1>1, <1>2, <1>3 DEF Local

\* Every step that a call takes is of one of these kinds, where nothing fails.
LEMMA StepKinds ==
  ASSUME Calm, Base, Orderly, Patient, NEW c \in Caller, Step(c) \/ \E k \in Key : Call(c, k)
  PROVE  Local(c) /\ Kind(c)
<1>1. /\ ~RedisFails /\ "reject" \notin Faults /\ MaybeNull = {FALSE}
  BY DEF Calm, RedisFails, MaybeNull
<1>2. TypeOK /\ PendingIsLive
  BY DEF Base
<1>3. ASSUME NEW k \in Key, Call(c, k)
      PROVE  Local(c) /\ Kind(c)
  <2>1. /\ pc[c] = "idle" /\ key' = [key EXCEPT ![c] = k] /\ timer' = timer
        /\ UNCHANGED <<lock, l1, l2, fetches, losses>>
    BY <1>3 DEF Call, Shared
  <2>2. timer[c] = 0
    BY <2>1 DEF Orderly, InTime
  <2>3. /\ key'[c] = k /\ \A d \in Caller \ {c} : key'[d] = key[d] /\ pc'[d] = pc[d]
    BY <1>2, <1>3, <2>1 DEF TypeOK, Call, Goto
  <2>4. Local(c)
    BY <2>1, <2>3 DEF Local
  <2>5. \/ pc'[c] = "idle"
        \/ k \notin l1[Home[c]] /\ pc'[c] = IF HasL2 THEN "first" ELSE "check"
    BY <1>2, <1>3, <2>1 DEF TypeOK, Call, Goto
  <2>6. pc'[c] # "idle" => ~InL1(c)'
    BY <2>1, <2>3, <2>5 DEF InL1
  <2>7. Begins(c)
    BY <2>1, <2>2, <2>5, <2>6 DEF Begins
  <2> QED BY <2>4, <2>7 DEF Kind
<1>4. CASE FirstAnswer(c)
  <2>1. pc[c] = "first" /\ HasL2 /\ timer' = timer /\ timer[c] = 0 /\ UNCHANGED <<lock, l2, fetches, key, losses>>
    BY <1>4 DEF FirstAnswer, Answer, Orderly, Mode, InTime
  <2>2. There(TheLock(c)) <=> key[c] \in l2
    BY <1>2, <2>1, LockOf
  <2>3. \/ key[c] \in l2 /\ l1' = WithKey(Home[c], key[c]) /\ Goto(c, "idle")
        \/ key[c] \notin l2 /\ l1' = l1 /\ Goto(c, "check")
    BY <1>1, <1>4 DEF FirstAnswer, Answer
  <2>4. CASE key[c] \in l2 /\ l1' = WithKey(Home[c], key[c]) /\ Goto(c, "idle")
    <3>1. Local(c) /\ pc'[c] = "idle" /\ timer'[c] = timer[c]
      BY <1>2, <2>1, <2>4, OneMoves
    <3> QED BY <2>1, <2>2, <2>4, <3>1 DEF Looks, Kind
  <2>5. CASE key[c] \notin l2 /\ l1' = l1 /\ Goto(c, "check")
    <3>1. Local(c) /\ pc'[c] = "check" /\ timer'[c] = timer[c]
      BY <1>2, <2>1, <2>5, OneMoves
    <3> QED BY <2>1, <2>2, <2>5, <3>1 DEF Looks, Kind
  <2> QED BY <2>3, <2>4, <2>5
<1>5. ASSUME TakeOrSleep(c), pc[c] \in {"check", "wake", "acquire"},
             UNCHANGED <<l1, l2, fetches, key, losses>>
      PROVE  Local(c) /\ Kind(c)
  <2>1. CASE lock[TheLock(c)] = Free
    <3>1. Goto(c, "locked") /\ Restart(c) /\ lock' = [lock EXCEPT ![TheLock(c)] = HeldBy(c)]
      BY <1>5, <2>1 DEF TakeOrSleep
    <3>2. Local(c) /\ pc'[c] = "locked" /\ timer'[c] = 0
      BY <1>2, <1>5, <3>1, OneMoves
    <3> QED BY <1>5, <2>1, <3>1, <3>2 DEF Takes, Kind
  <2>2. CASE lock[TheLock(c)] # Free
    <3>1. Goto(c, "sleep") /\ lock' = lock /\ timer' = timer
      BY <1>5, <2>2 DEF TakeOrSleep
    <3>2. Local(c) /\ pc'[c] = "sleep" /\ timer'[c] = timer[c]
      BY <1>2, <1>5, <3>1, OneMoves
    <3> QED BY <1>5, <2>2, <3>1, <3>2 DEF Turns, Kind
  <2> QED BY <2>1, <2>2
<1>6. ASSUME Attempt(c), pc[c] \in {"check", "wake"}, UNCHANGED <<l1, l2, fetches, key, losses>>
      PROVE  Local(c) /\ Kind(c)
  <2>1. CASE TakeOrSleep(c)
    BY <1>5, <1>6, <2>1
  <2>2. CASE HasL2 /\ Goto(c, "acquire") /\ UNCHANGED <<lock, timer>>
    <3>1. Local(c) /\ pc'[c] = "acquire" /\ timer'[c] = timer[c]
      BY <1>2, <1>6, <2>2, OneMoves
    <3> QED BY <1>6, <2>2, <3>1 DEF Turns, Kind
  <2> QED BY <1>6, <2>1, <2>2 DEF Attempt
<1>7. CASE Check(c)
  <2>1. pc[c] = "check" /\ timer[c] = 0 /\ UNCHANGED <<l1, l2, fetches, key, losses>>
    BY <1>7 DEF Check, Caches, Orderly, InTime
  <2>2. CASE Goto(c, "joined") /\ UNCHANGED <<lock, timer>>
    <3>1. Local(c) /\ pc'[c] = "joined" /\ timer'[c] = timer[c]
      BY <1>2, <2>1, <2>2, OneMoves
    <3> QED BY <2>1, <2>2, <3>1 DEF Turns, Kind
  <2>3. CASE Return(c, "value") /\ UNCHANGED lock
    <3>1. Goto(c, "idle") /\ Restart(c)
      BY <2>3 DEF Return
    <3>2. Local(c) /\ pc'[c] = "idle" /\ timer'[c] = 0
      BY <1>2, <2>1, <3>1, OneMoves
    <3> QED BY <2>1, <2>3, <3>2 DEF Turns, Kind
  <2> QED BY <1>6, <1>7, <2>1, <2>2, <2>3 DEF Check
<1>8. CASE SetNX(c)
  BY <1>5, <1>8 DEF SetNX, Caches
<1>9. CASE Wake(c)
  <2>1. pc[c] = "wake" /\ UNCHANGED <<l1, l2, fetches, key, losses>>
    BY <1>9 DEF Wake, Caches
  <2>2. timer[c] < WaitTime
    <3>1. Lost(c) <= losses * Round + Spent(TheLock(c))
      BY <2>1 DEF Patient, Waiting
    <3>2. timer[c] \in Nat /\ timer[c] <= Lost(c)
      BY <1>2, TimeAssumption DEF TypeOK, Horizon, Lost
    <3>3. Spent(TheLock(c)) \in Nat /\ Spent(TheLock(c)) <= Round /\ Round \in Nat
      BY <1>2, LockOf, SpentRange
    <3>4. /\ losses \in Nat /\ losses <= MaxLosses /\ MaxLosses \in Nat
      BY <1>2, LossAssumption DEF TypeOK
    <3>5. /\ losses * Round <= MaxLosses * Round /\ losses * Round \in Nat
          /\ MaxLosses * Round \in Nat
      BY <3>3, <3>4, Products
    <3>6. (MaxLosses + 1) * Round = MaxLosses * Round + Round
      BY <3>3, <3>4, Products
    <3>7. MaxLosses * Round + Round < WaitTime /\ WaitTime \in Nat
      BY <3>6, TimeAssumption DEF Calm
    <3>8. Lost(c) \in Nat
      BY <3>2 DEF Lost
    <3> HIDE DEF Lost, Spent, Round
    <3> QED BY <3>1, <3>2, <3>3, <3>5, <3>7, <3>8
  <2>3. Attempt(c)
    BY <1>2, <1>9, <2>2, TimeAssumption DEF Wake, TypeOK, Horizon
  <2> QED BY <1>6, <2>1, <2>3
<1>10. CASE Recheck(c)
  <2>1. pc[c] = "locked" /\ timer' = timer /\ UNCHANGED <<lock, l1, l2, fetches, key, losses>>
    BY <1>10 DEF Recheck, LookUp, Shared
  <2>2. \/ InL1(c) /\ Goto(c, "release")
        \/ ~InL1(c) /\ Goto(c, IF HasL2 THEN "again" ELSE "start")
    BY <1>10 DEF Recheck, LookUp
  <2>3. /\ Local(c) /\ timer'[c] = timer[c]
        /\ \/ InL1(c) /\ pc'[c] = "release"
           \/ ~InL1(c) /\ pc'[c] = IF HasL2 THEN "again" ELSE "start"
    BY <1>2, <2>1, <2>2, OneMoves
  <2>4. Rechecks(c)
    BY <2>1, <2>3 DEF Rechecks
  <2> QED BY <2>3, <2>4 DEF Kind
<1>11. CASE RecheckAnswer(c)
  <2>1. pc[c] = "again" /\ HasL2 /\ timer' = timer /\ UNCHANGED <<lock, l2, fetches, key, losses>>
    BY <1>11 DEF RecheckAnswer, Answer, Orderly, Mode
  <2>2. There(TheLock(c)) <=> key[c] \in l2
    BY <1>2, <2>1, LockOf
  <2>3. \/ key[c] \in l2 /\ l1' = WithKey(Home[c], key[c]) /\ Goto(c, "release")
        \/ key[c] \notin l2 /\ l1' = l1 /\ Goto(c, "start")
    BY <1>1, <1>11 DEF RecheckAnswer, Answer
  <2>4. CASE key[c] \in l2 /\ l1' = WithKey(Home[c], key[c]) /\ Goto(c, "release")
    <3>1. Local(c) /\ pc'[c] = "release" /\ timer'[c] = timer[c]
      BY <1>2, <2>1, <2>4, OneMoves
    <3> QED BY <2>1, <2>2, <2>4, <3>1 DEF Rechecks, Kind
  <2>5. CASE key[c] \notin l2 /\ l1' = l1 /\ Goto(c, "start")
    <3>1. Local(c) /\ pc'[c] = "start" /\ timer'[c] = timer[c]
      BY <1>2, <2>1, <2>5, OneMoves
    <3> QED BY <2>1, <2>2, <2>5, <3>1 DEF Rechecks, Kind
  <2> QED BY <2>3, <2>4, <2>5
<1>12. CASE Start(c)
  <2>1. Goto(c, "fetch") /\ UNCHANGED <<timer, lock, l1, l2, key, losses>>
    BY <1>12 DEF Start
  <2>2. Local(c) /\ pc'[c] = "fetch" /\ timer'[c] = timer[c]
    BY <1>2, <2>1, OneMoves
  <2> QED BY <1>12, <2>1, <2>2 DEF Start, Starts, Kind
<1>13. ASSUME NEW p, Settle(c, p, "value"), pc[c] = "fetch", UNCHANGED <<timer, key>>
       PROVE  /\ pc'[c] = p /\ timer'[c] = timer[c]
              /\ \A d \in Caller \ {c} :
                   /\ pc'[d] = pc[d] \/ (pc[d] = "joined" /\ pc'[d] = "idle")
                   /\ timer'[d] = timer[d] /\ key'[d] = key[d]
  <2>1. pc'[c] = p /\ \A d \in Caller \ {c} : pc'[d] = IF leader[d] = c THEN "idle" ELSE pc[d]
    BY <1>13 DEF Settle
  <2>2. \A d \in Caller : leader[d] = c => pc[d] = "joined"
    BY <1>2, NoneAssumption DEF PendingIsLive
  <2> QED BY <1>13, <2>1, <2>2
<1>14. CASE Fetched(c)
  <2>1. pc[c] = "fetch" /\ UNCHANGED <<timer, key, lock, l2, fetches, losses>>
    BY <1>14 DEF Fetched
  <2>2. CASE HasL2
    <3>1. Settle(c, "store", "value") /\ l1' = l1
      BY <1>1, <1>14, <2>2 DEF Fetched
    <3>2. Local(c) /\ Answers(c)
      BY <1>13, <2>1, <2>2, <3>1 DEF Local, Answers
    <3> QED BY <3>2 DEF Kind
  <2>3. CASE ~HasL2
    <3>1. Settle(c, "stored", "value") /\ l1' = WithKey(Home[c], key[c])
      BY <1>1, <1>14, <2>3 DEF Fetched, StoreL1
    <3>2. Local(c) /\ Stores(c)
      BY <1>13, <2>1, <2>3, <3>1 DEF Local, Stores
    <3> QED BY <3>2 DEF Kind
  <2> QED BY <2>2, <2>3
<1>15. CASE Store(c)
  <2>1. /\ pc[c] = "store" /\ Goto(c, "stored") /\ UNCHANGED <<timer, key, lock, fetches, losses>>
        /\ l1' = WithKey(Home[c], key[c]) /\ l2' = l2 \cup {key[c]}
    BY <1>1, <1>15 DEF Store, StoreL1, StoreL2
  <2>2. HasL2
    BY <2>1 DEF Orderly, Mode
  <2>3. Local(c) /\ pc'[c] = "stored" /\ timer'[c] = timer[c]
    BY <1>2, <2>1, OneMoves
  <2> QED BY <2>1, <2>2, <2>3 DEF Stores, Kind
<1>16. CASE Stored(c)
  <2>1. pc[c] = "stored" /\ Goto(c, "release") /\ UNCHANGED <<timer, key, lock, l1, l2, fetches, losses>>
    BY <1>16 DEF Stored, Caches
  <2>2. Local(c) /\ pc'[c] = "release" /\ timer'[c] = timer[c]
    BY <1>2, <2>1, OneMoves
  <2> QED BY <2>1, <2>2 DEF Answers, Kind
<1>17. CASE Release(c)
  <2>1. /\ pc[c] = "release" /\ Goto(c, "idle") /\ Restart(c) /\ lock' = Unlocked(c)
        /\ UNCHANGED <<key, l1, l2, fetches, losses>>
    BY <1>17 DEF Release, Return, Caches
  <2>2. lock' = [lock EXCEPT ![TheLock(c)] = Free]
    BY <2>1, Holds DEF Unlocked, Critical
  <2>3. Local(c) /\ pc'[c] = "idle" /\ timer'[c] = 0
    BY <1>2, <2>1, OneMoves
  <2> QED BY <2>1, <2>2, <2>3 DEF Leaves, Kind
<1>18. ~(LastLookUp(c) \/ LastAnswer(c) \/ StartAlone(c) \/ FetchedAlone(c))
  BY DEF LastLookUp, LastAnswer, StartAlone, FetchedAlone, Orderly, InTime
<1>19. ~(AcquireFails(c) \/ FetchFails(c) \/ StoreFails(c) \/ ReleaseFails(c))
  BY <1>1 DEF AcquireFails, FetchFails, StoreFails, ReleaseFails
<1> QED BY <1>3, <1>4, <1>7, <1>8, <1>9, <1>10, <1>11, <1>12, <1>14, <1>15, <1>16, <1>17,
           <1>18, <1>19 DEF Step

-----------------------------------------------------------------------------
(***************************************************************************)
(* What a call does to the rest of the state.                              *)
(***************************************************************************)

\* The other calls stay under their locks; they find the same in L1, if their
\* lock is another one or L1 stays as it is.
LEMMA Others ==
  ASSUME TypeOK, TypeOK', NEW c \in Caller, Local(c), NEW d \in Caller \ {c}
  PROVE  /\ TheLock(d)' = TheLock(d) /\ key'[d] = key[d] /\ timer'[d] = timer[d]
         /\ \A P \in SUBSET (PC \ {"joined", "idle"}) : pc'[d] \in P <=> pc[d] \in P
         /\ TheLock(d) # TheLock(c) \/ l1' = l1 => InL1(d)' = InL1(d)
<1>1. TheLock(d)' = TheLock(d) /\ key'[d] = key[d] /\ timer'[d] = timer[d]
  BY DEF Local, TheLock, LockPlace
<1>2. \A P \in SUBSET (PC \ {"joined", "idle"}) : pc'[d] \in P <=> pc[d] \in P
  BY DEF Local
<1>3. ASSUME TheLock(d) # TheLock(c)
      PROVE  ~(Home[d] = Home[c] /\ key[d] = key[c])
  BY <1>3 DEF TheLock, LockPlace
<1>4. ASSUME l1' = WithKey(Home[c], key[c]), TheLock(d) # TheLock(c)
      PROVE  InL1(d)' = InL1(d)
  <2>1. /\ Home[c] \in Server /\ Home[d] \in Server
        /\ l1' = [l1 EXCEPT ![Home[c]] = l1[Home[c]] \cup {key[c]}]
        /\ DOMAIN l1 = Server
    BY <1>4, HomeAssumption DEF WithKey, TypeOK
  <2>2. key[d] \in l1'[Home[d]] <=> key[d] \in l1[Home[d]]
    BY <1>3, <1>4, <2>1
  <2> QED BY <1>1, <2>2 DEF InL1
<1>5. ASSUME l1' = l1
      PROVE  InL1(d)' = InL1(d)
  BY <1>1, <1>5 DEF InL1
<1> QED BY <1>1, <1>2, <1>4, <1>5 DEF Local

\* The value comes to no lock but the call's, and goes from none.
LEMMA Comes ==
  ASSUME TypeOK, NEW c \in Caller, Local(c), Kind(c), Mode, NEW i \in Place \X Key
  PROVE  /\ There(i) => There(i)'
         /\ ~There(i) /\ There(i)' => i = TheLock(c) /\ Stores(c)
         /\ Stores(c) /\ i = TheLock(c) => There(i)'
<1>1. /\ TheLock(c) = <<LockPlace(c), key[c]>> /\ TheLock(c) \in Place \X Key
      /\ Home[c] \in Server /\ DOMAIN l1 = Server
  BY LockIndex DEF TheLock, TypeOK
<1>2. i = <<i[1], i[2]>> /\ i[1] \in Place
  OBVIOUS
<1>3. CASE HasL2
  <2>1. i[1] = LockPlace(c)
    BY <1>2, <1>3 DEF Place, LockPlace
  <2>2. There(i) <=> i[2] \in l2
    BY <1>3 DEF There
  <2>3. There(i)' <=> i[2] \in l2'
    BY <1>3 DEF There
  <2>4. l2' = l2 \/ (l2' = l2 \cup {key[c]} /\ Stores(c))
    BY <1>3 DEF Kind, Begins, Looks, Turns, Takes, Rechecks, Starts, Answers, Leaves, Stores
  <2>5. Stores(c) => l2' = l2 \cup {key[c]}
    BY <1>3 DEF Stores
  <2> QED BY <1>1, <1>2, <2>1, <2>2, <2>3, <2>4, <2>5
<1>4. CASE ~HasL2
  <2>1. i[1] \in Server /\ LockPlace(c) = Home[c]
    BY <1>2, <1>4 DEF Place, LockPlace
  <2>2. There(i) <=> i[2] \in l1[i[1]]
    BY <1>4 DEF There
  <2>3. There(i)' <=> i[2] \in l1'[i[1]]
    BY <1>4 DEF There
  <2>4. l1' = l1 \/ (l1' = WithKey(Home[c], key[c]) /\ Stores(c))
    <3>1. pc[c] \notin {"first", "again"}
      BY <1>4 DEF Mode
    <3> QED BY <3>1 DEF Kind, Begins, Looks, Turns, Takes, Rechecks, Starts, Answers, Leaves, Stores
  <2>5. Stores(c) => l1' = WithKey(Home[c], key[c])
    BY DEF Stores
  <2>6. CASE l1' = l1
    BY <2>2, <2>3, <2>5, <2>6, <1>1, <2>1, <1>2 DEF WithKey
  <2>7. CASE l1' = WithKey(Home[c], key[c]) /\ Stores(c)
    <3>1. /\ l1'[Home[c]] = l1[Home[c]] \cup {key[c]}
          /\ \A s \in Server \ {Home[c]} : l1'[s] = l1[s]
      BY <1>1, <2>7 DEF WithKey
    <3> QED BY <1>1, <1>2, <2>1, <2>2, <2>3, <2>7, <3>1
  <2> QED BY <2>4, <2>6, <2>7
<1> QED BY <1>3, <1>4

-----------------------------------------------------------------------------
(***************************************************************************)
(* A step of a call keeps the order.                                       *)
(***************************************************************************)

\* A name of the lock that a call has after the step.
LEMMA SameLock ==
  ASSUME NEW d \in Caller, NEW i, TheLock(d)' = i
  PROVE  There(TheLock(d))' <=> There(i)'
BY DEF There

\* Without L2 the place to look is the call's own L1.
LEMMA ThereNext ==
  ASSUME NEW d \in Caller, ~HasL2
  PROVE  There(TheLock(d))' <=> InL1(d)'
BY DEF There, InL1, TheLock, LockPlace

\* No step of a call breaks what Orderly says of the calls, the locks and the
\* history.
LEMMA OrderlyStep ==
  ASSUME Calm, Base, TypeOK', Orderly, Patient, NEW c \in Caller, Local(c), Kind(c)
  PROVE  Orderly'
<1>1. TypeOK /\ Mode /\ InTime /\ Owned /\ Missing /\ Accounted
  BY DEF Base, Orderly
<1>2. /\ TheLock(c) \in Place \X Key
      /\ pc[c] # "idle" => key'[c] = key[c] /\ TheLock(c)' = TheLock(c)
  BY <1>1, LockIndex DEF Local, TheLock, LockPlace
<1>3. pc[c] \in Critical => \A d \in Caller : pc[d] \in Critical /\ TheLock(d) = TheLock(c) => d = c
  BY Sole
<1>4. \A d \in Caller \ {c} :
        /\ TheLock(d)' = TheLock(d) /\ key'[d] = key[d] /\ timer'[d] = timer[d]
        /\ \A P \in SUBSET (PC \ {"joined", "idle"}) : pc'[d] \in P <=> pc[d] \in P
        /\ pc'[d] = pc[d] \/ (pc[d] = "joined" /\ pc'[d] = "idle")
  BY <1>1, Others DEF Local
<1>5. Mode'
  <2> SUFFICES ASSUME ~HasL2
               PROVE  l2' = {} /\ \A d \in Caller : pc'[d] \notin {"first", "acquire", "again", "store"}
    BY DEF Mode
  <2>1. l2 = {} /\ \A d \in Caller : pc[d] \notin {"first", "acquire", "again", "store"}
    BY <1>1 DEF Mode
  <2>2. l2' = l2 /\ pc'[c] \notin {"first", "acquire", "again", "store"}
    BY <2>1 DEF Kind, Begins, Looks, Turns, Takes, Rechecks, Starts, Answers, Stores, Leaves
  <2> QED BY <1>4, <2>1, <2>2
<1>6. InTime'
  <2>1. /\ pc[c] \notin {"timedout", "last", "alone", "direct"}
        /\ pc[c] \in {"idle", "first", "check", "joined"} => timer[c] = 0
        /\ pc[c] \in Critical => timer[c] <= MaxFetch
    BY <1>1 DEF InTime
  <2>2. MaxFetch \in Nat
    BY TimeAssumption
  <2>3. /\ pc'[c] \notin {"timedout", "last", "alone", "direct"}
        /\ pc'[c] \in {"idle", "first", "check", "joined"} => timer'[c] = 0
        /\ pc'[c] \in Critical => timer'[c] <= MaxFetch
    BY <2>1, <2>2 DEF Kind, Begins, Looks, Turns, Takes, Rechecks, Starts, Answers, Stores, Leaves, Critical
  <2>4. ASSUME NEW d \in Caller \ {c}
        PROVE  /\ pc'[d] \notin {"timedout", "last", "alone", "direct"}
               /\ pc'[d] \in {"idle", "first", "check", "joined"} => timer'[d] = 0
               /\ pc'[d] \in Critical => timer'[d] <= MaxFetch
    BY <1>1, <1>4 DEF InTime, Critical
  <2> QED BY <2>3, <2>4 DEF InTime
<1>7. Owned'
  <2> SUFFICES ASSUME NEW i \in Place \X Key, lock'[i] # Free
               PROVE  (pc[lock[i].holder] \in Critical /\ TheLock(lock[i].holder) = i)'
    BY DEF Owned
  <2>h. ASSUME NEW h, h = lock'[i].holder, pc'[h] \in Critical, TheLock(h)' = i
        PROVE  (pc[lock[i].holder] \in Critical /\ TheLock(lock[i].holder) = i)'
    BY <2>h DEF TheLock, LockPlace
  <2>1. CASE Takes(c) /\ i = TheLock(c)
    <3>1. lock'[i] = HeldBy(c) /\ pc'[c] = "locked" /\ pc[c] # "idle"
      BY <1>1, <1>2, <2>1 DEF Takes, TypeOK
    <3>2. c = lock'[i].holder /\ pc'[c] \in Critical /\ TheLock(c)' = i
      BY <1>2, <2>1, <3>1 DEF HeldBy, Critical
    <3> QED BY <2>h, <3>2
  <2>2. CASE lock'[i] = lock[i]
    <3>1. PICK h \in Caller : h = lock[i].holder /\ pc[h] \in Critical /\ TheLock(h) = i
      BY <1>1, <2>2, HolderOf
    <3>2. CASE h # c
      <4>1. Critical \in SUBSET (PC \ {"joined", "idle"})
        BY DEF Critical, PC
      <4>2. pc'[h] \in Critical /\ TheLock(h)' = i /\ h = lock'[i].holder
        BY <1>4, <2>2, <3>1, <3>2, <4>1
      <4> QED BY <2>h, <4>2
    <3>3. CASE h = c
      <4>1. pc'[c] \in Critical \/ Leaves(c)
        BY <3>1, <3>3 DEF Kind, Begins, Looks, Turns, Takes, Rechecks, Starts, Answers, Stores, Critical
      <4>2. ~Leaves(c)
        <5>1. Leaves(c) => lock'[TheLock(c)] = Free
          BY <1>1, <1>2 DEF Leaves, TypeOK
        <5> QED BY <3>1, <3>3, <5>1
      <4>3. pc[c] # "idle"
        BY <3>1, <3>3 DEF Critical
      <4>4. pc'[h] \in Critical /\ TheLock(h)' = i /\ h = lock'[i].holder
        BY <1>2, <2>2, <3>1, <3>3, <4>1, <4>2, <4>3
      <4> QED BY <2>h, <4>4
    <3> QED BY <3>2, <3>3
  <2>3. lock'[i] = lock[i] \/ (i = TheLock(c) /\ (Takes(c) \/ Leaves(c)))
    BY <1>1 DEF Kind, Begins, Looks, Turns, Takes, Rechecks, Starts, Answers, Stores, Leaves, TypeOK
  <2>4. Leaves(c) => i # TheLock(c)
    BY <1>1, <1>2 DEF Leaves, TypeOK
  <2> QED BY <2>1, <2>2, <2>3, <2>4
<1>8. Missing'
  <2> SUFFICES ASSUME NEW d \in Caller, pc'[d] \in {"start", "fetch", "store"}
               PROVE  ~There(TheLock(d))'
    BY DEF Missing
  <2>1. CASE d # c
    <3>1. pc[d] = pc'[d] /\ TheLock(d)' = TheLock(d) /\ TheLock(d) \in Place \X Key
      BY <1>1, <1>4, <2>1, LockIndex
    <3>2. ~There(TheLock(d))
      BY <1>1, <3>1 DEF Missing
    <3>3. ~(Stores(c) /\ TheLock(d) = TheLock(c))
      BY <1>3, <2>1, <3>1 DEF Stores, Critical
    <3>4. ASSUME NEW i \in Place \X Key, i = TheLock(d)
          PROVE  ~There(i)'
      BY <1>1, <3>2, <3>3, <3>4, Comes
    <3> QED BY <3>1, <3>4, SameLock
  <2>2. CASE d = c
    <3>1. pc[c] # "idle" /\ ~Stores(c) /\ (pc'[c] = "start" => Rechecks(c))
          /\ (pc'[c] \in {"fetch", "store"} => pc[c] \in {"start", "fetch"})
      BY <2>2 DEF Kind, Begins, Looks, Turns, Takes, Rechecks, Starts, Answers, Stores, Leaves
    <3>2. ~There(TheLock(c))
      <4>1. CASE pc'[c] = "start"
        BY <1>1, <3>1, <4>1, LockOf DEF Rechecks
      <4>2. CASE pc'[c] \in {"fetch", "store"}
        BY <1>1, <3>1, <4>2 DEF Missing
      <4> QED BY <2>2, <4>1, <4>2
    <3>3. ASSUME NEW i \in Place \X Key, i = TheLock(c)
          PROVE  ~There(i)'
      BY <1>1, <3>1, <3>2, <3>3, Comes
    <3> QED BY <1>2, <2>2, <3>1, <3>3, SameLock
  <2> QED BY <2>1, <2>2
<1>9. Accounted'
  <2> SUFFICES ASSUME NEW i \in Place \X Key
               PROVE  /\ fetches'[i] <= 1
                      /\ fetches'[i] # 0 => \/ There(i)'
                                            \/ \E d \in Caller : TheLock(d)' = i /\ pc'[d] \in {"fetch", "store"}
    BY DEF Accounted
  <2>1. /\ fetches[i] <= 1
        /\ fetches[i] # 0 => \/ There(i)
                             \/ \E d \in Caller : TheLock(d) = i /\ pc[d] \in {"fetch", "store"}
    BY <1>1 DEF Accounted
  <2>2. CASE Starts(c) /\ i = TheLock(c)
    <3>1. pc[c] = "start" /\ pc'[c] = "fetch" /\ TheLock(c)' = i
      BY <1>2, <2>2 DEF Starts
    <3>2. ~There(i)
      BY <1>1, <2>2, <3>1 DEF Missing
    <3>3. ~\E d \in Caller : TheLock(d) = i /\ pc[d] \in {"fetch", "store"}
      BY <1>3, <2>2, <3>1 DEF Critical
    <3>4. fetches[i] = 0 /\ i = <<LockPlace(c), key[c]>>
      BY <2>1, <2>2, <3>2, <3>3 DEF TheLock
    <3>5. fetches'[i] = 1
      BY <1>1, <2>2, <3>4 DEF Starts, CountFetch, TypeOK
    <3> QED BY <3>1, <3>5
  <2>3. CASE fetches'[i] = fetches[i]
    <3>1. CASE There(i)
      BY <1>1, <2>1, <2>3, <3>1, Comes
    <3>2. ASSUME NEW d \in Caller, TheLock(d) = i, pc[d] \in {"fetch", "store"}
          PROVE  There(i)' \/ (TheLock(d)' = i /\ pc'[d] \in {"fetch", "store"})
      <4>1. CASE d # c
        BY <1>4, <3>2, <4>1
      <4>2. CASE d = c
        <5>1. Stores(c) \/ pc'[c] = "store"
          BY <3>2, <4>2 DEF Kind, Begins, Looks, Turns, Takes, Rechecks, Starts, Answers, Leaves
        <5> QED BY <1>1, <1>2, <3>2, <4>2, <5>1, Comes
      <4> QED BY <4>1, <4>2
    <3> QED BY <2>1, <2>3, <3>1, <3>2
  <2>4. fetches'[i] = fetches[i] \/ (Starts(c) /\ i = TheLock(c))
    BY <1>1 DEF Kind, Begins, Looks, Turns, Takes, Rechecks, Starts, Answers, Stores, Leaves, CountFetch, TypeOK, TheLock
  <2> QED BY <2>2, <2>3, <2>4
<1> QED BY <1>5, <1>6, <1>7, <1>8, <1>9 DEF Orderly

-----------------------------------------------------------------------------
(***************************************************************************)
(* Time.                                                                   *)
(***************************************************************************)

\* While the clock ticks a lock that is held is held for a fetch, and goes on
\* to be: the origin answers before the lease runs out.
LEMMA Ticks ==
  ASSUME Calm, Base, TypeOK', Orderly, Tick
  PROVE  /\ \A d \in Caller :
              /\ pc[d] \in {"idle", "joined", "sleep", "fetch"}
              /\ pc'[d] = IF pc[d] = "sleep" THEN "wake" ELSE pc[d]
              /\ TheLock(d)' = TheLock(d) /\ InL1(d)' = InL1(d)
              /\ pc[d] \in {"idle", "joined"} => timer'[d] = timer[d]
              /\ pc[d] = "fetch" => timer'[d] = timer[d] + 1 /\ timer[d] < MaxFetch
              /\ timer'[d] <= timer[d] + 1
         /\ \A i \in Place \X Key :
              /\ There(i)' = There(i)
              /\ lock[i] = Free => lock'[i] = Free
              /\ lock[i] # Free => /\ pc[lock[i].holder] = "fetch"
                                   /\ lock'[i] # Free /\ lock'[i].holder = lock[i].holder
<1>1. TypeOK /\ InTime /\ Owned /\ Prompt /\ MaxFetch < LockTtl
  BY DEF Base, Orderly, Calm
<1>2. MaxFetch \in Nat /\ LockTtl \in Nat /\ Horizon \in Nat /\ LockTtl <= Horizon
  BY TimeAssumption DEF Horizon
<1>3. /\ UNCHANGED <<key, l1, l2>>
      /\ OriginInTime
      /\ pc' = [d \in Caller |-> IF pc[d] = "sleep" THEN "wake" ELSE pc[d]]
      /\ timer' = [d \in Caller |-> IF pc[d] \in Timed /\ timer[d] < Horizon
                                    THEN timer[d] + 1 ELSE timer[d]]
      /\ lock' = [i \in Place \X Key |-> Aged(lock[i])]
  BY DEF Tick
<1>4. ASSUME NEW d \in Caller
      PROVE  /\ pc[d] \in {"idle", "joined", "sleep", "fetch"}
             /\ pc'[d] = IF pc[d] = "sleep" THEN "wake" ELSE pc[d]
             /\ TheLock(d)' = TheLock(d) /\ InL1(d)' = InL1(d)
             /\ timer[d] \in Nat /\ timer'[d] <= timer[d] + 1
  <2>1. pc[d] \in Resting /\ pc[d] # "direct"
    BY <1>1 DEF Tick, InTime
  <2>2. timer[d] \in Nat
    BY <1>1, <1>2 DEF TypeOK
  <2> QED BY <1>3, <2>1, <2>2 DEF Resting, TheLock, LockPlace, InL1
<1>5. ASSUME NEW d \in Caller, pc[d] \in {"idle", "joined"}
      PROVE  timer'[d] = timer[d]
  BY <1>3, <1>5 DEF Timed, Waiting, Critical
<1>6. ASSUME NEW d \in Caller, pc[d] = "fetch"
      PROVE  timer'[d] = timer[d] + 1 /\ timer[d] < MaxFetch
  <2>1. timer[d] < MaxFetch
    BY <1>1, <1>2, <1>3, <1>6 DEF OriginInTime
  <2>2. timer[d] < Horizon
    BY <1>1, <1>2, <1>4, <2>1
  <2> QED BY <1>3, <1>6, <2>1, <2>2 DEF Timed, Critical
<1>7. ASSUME NEW i \in Place \X Key
      PROVE  There(i)' = There(i) /\ (lock[i] = Free => lock'[i] = Free)
  BY <1>3 DEF There, Aged, Free
<1>8. ASSUME NEW i \in Place \X Key, lock[i] # Free
      PROVE  /\ pc[lock[i].holder] = "fetch"
             /\ lock'[i] # Free /\ lock'[i].holder = lock[i].holder
  <2>1. PICK h \in Caller : h = lock[i].holder /\ pc[h] \in Critical /\ TheLock(h) = i
    BY <1>1, <1>8, HolderOf
  <2>2. pc[h] = "fetch"
    BY <1>4, <2>1 DEF Critical
  <2>3. lock[i] = [holder |-> h, left |-> LockTtl - timer[h]]
    BY <2>1, Holds
  <2>4. LockTtl - timer[h] > 1
    BY <1>1, <1>2, <1>4, <1>6, <2>2
  <2>5. lock'[i] = [holder |-> h, left |-> LockTtl - timer[h] - 1]
    BY <1>3, <2>3, <2>4 DEF Aged
  <2> QED BY <2>1, <2>2, <2>5, NoneAssumption DEF Free
<1> QED BY <1>4, <1>5, <1>6, <1>7, <1>8

\* A tick keeps the order.
LEMMA OrderlyTick ==
  ASSUME Calm, Base, TypeOK', Orderly, Tick
  PROVE  Orderly'
<1>1. Mode'
  <2>1. l2' = l2
    BY DEF Tick
  <2> QED BY <2>1, Ticks DEF Mode, Orderly
<1>2. InTime'
  <2> SUFFICES ASSUME NEW d \in Caller
               PROVE  /\ pc'[d] \notin {"timedout", "last", "alone", "direct"}
                      /\ pc'[d] \in {"idle", "first", "check", "joined"} => timer'[d] = 0
                      /\ pc'[d] \in Critical => timer'[d] <= MaxFetch
    BY DEF InTime
  <2>1. /\ pc[d] \in {"idle", "joined", "sleep", "fetch"}
        /\ pc'[d] = IF pc[d] = "sleep" THEN "wake" ELSE pc[d]
        /\ pc[d] \in {"idle", "joined"} => timer'[d] = timer[d]
        /\ pc[d] = "fetch" => timer'[d] = timer[d] + 1 /\ timer[d] < MaxFetch
    BY Ticks
  <2>2. timer[d] \in Nat /\ MaxFetch \in Nat /\ (pc[d] \in {"idle", "joined"} => timer[d] = 0)
    BY TimeAssumption DEF Orderly, InTime, Base, TypeOK, Horizon
  <2> QED BY <2>1, <2>2 DEF Critical
<1>3. Owned'
  <2> SUFFICES ASSUME NEW i \in Place \X Key, lock'[i] # Free
               PROVE  (pc[lock[i].holder] \in Critical /\ TheLock(lock[i].holder) = i)'
    BY DEF Owned
  <2>1. PICK h \in Caller : /\ h = lock[i].holder /\ TheLock(h) = i /\ pc[h] = "fetch"
                            /\ lock'[i].holder = h
    BY Ticks, HolderOf DEF Base, Orderly
  <2>2. pc'[h] = "fetch" /\ TheLock(h)' = i
    BY <2>1, Ticks
  <2> QED BY <2>1, <2>2 DEF Critical, TheLock, LockPlace
<1>4. Missing'
  <2> SUFFICES ASSUME NEW d \in Caller, pc'[d] \in {"start", "fetch", "store"}
               PROVE  ~There(TheLock(d))'
    BY DEF Missing
  <2>1. pc[d] = "fetch" /\ TheLock(d)' = TheLock(d) /\ TheLock(d) \in Place \X Key
    BY Ticks, LockIndex DEF Base
  <2>2. ~There(TheLock(d))
    BY <2>1 DEF Orderly, Missing
  <2>3. ASSUME NEW i \in Place \X Key, i = TheLock(d)
        PROVE  ~There(i)'
    BY <2>2, <2>3, Ticks
  <2> QED BY <2>1, <2>3, SameLock
<1>5. Accounted'
  <2> SUFFICES ASSUME NEW i \in Place \X Key
               PROVE  /\ fetches'[i] <= 1
                      /\ fetches'[i] # 0 => \/ There(i)'
                                            \/ \E d \in Caller : TheLock(d)' = i /\ pc'[d] \in {"fetch", "store"}
    BY DEF Accounted
  <2>1. /\ fetches[i] <= 1 /\ fetches' = fetches
        /\ fetches[i] # 0 => \/ There(i)
                             \/ \E d \in Caller : TheLock(d) = i /\ pc[d] \in {"fetch", "store"}
    BY DEF Orderly, Accounted, Tick
  <2>2. ASSUME NEW d \in Caller, pc[d] \in {"fetch", "store"}
        PROVE  TheLock(d)' = TheLock(d) /\ pc'[d] = pc[d]
    BY <2>2, Ticks
  <2>3. There(i)' = There(i)
    BY Ticks
  <2> QED BY <2>1, <2>2, <2>3
<1> QED BY <1>1, <1>2, <1>3, <1>4, <1>5 DEF Orderly

-----------------------------------------------------------------------------
(***************************************************************************)
(* Losses.                                                                 *)
(***************************************************************************)

\* A loss keeps the order: it takes the history of its lock with it.
LEMMA OrderlyLoss ==
  ASSUME Calm, Base, Orderly, NEW k \in Key,
         LoseL2(k) \/ \E s \in Server : LoseL1(s, k)
  PROVE  Orderly'
<1>1. TypeOK /\ Mode /\ InTime /\ Owned /\ Missing /\ Accounted
  BY DEF Base, Orderly
<1>2. UNCHANGED <<pc, key, timer, lock>>
  BY DEF LoseL1, LoseL2
<1>3. \A d \in Caller : TheLock(d)' = TheLock(d)
  BY <1>2 DEF TheLock, LockPlace
<1>4. Mode'
  BY <1>1, <1>2 DEF LoseL1, LoseL2, Mode
<1>5. InTime' /\ Owned'
  BY <1>1, <1>2 DEF InTime, Owned, TheLock, LockPlace
<1>6. ASSUME NEW i \in Place \X Key
      PROVE  /\ There(i)' => There(i)
             /\ \/ fetches'[i] = fetches[i] /\ (There(i) => There(i)')
                \/ fetches'[i] = 0
  <2>0. i = <<i[1], i[2]>> /\ i[1] \in Place /\ i[2] \in Key
    OBVIOUS
  <2>1. CASE LoseL2(k)
    <3>1. HasL2
      BY <1>1, <2>1 DEF LoseL2, Mode
    <3>2. i = <<Redis, i[2]>>
      BY <2>0, <3>1 DEF Place
    <3>3. /\ There(i) <=> i[2] \in l2
          /\ There(i)' <=> i[2] \in l2'
      BY <3>1 DEF There
    <3>4. /\ l2' = l2 \ {k} /\ fetches' = [fetches EXCEPT ![<<Redis, k>>] = 0]
          /\ DOMAIN fetches = Place \X Key
      BY <1>1, <2>1 DEF LoseL2, TypeOK
    <3>5. CASE i[2] = k
      BY <3>2, <3>3, <3>4, <3>5
    <3>6. CASE i[2] # k
      <4>1. i # <<Redis, k>>
        BY <3>6
      <4>2. fetches'[i] = fetches[i]
        BY <3>4, <4>1
      <4> QED BY <3>3, <3>4, <3>6, <4>2
    <3> QED BY <3>5, <3>6
  <2>2. ASSUME NEW s \in Server, LoseL1(s, k)
        PROVE  /\ There(i)' => There(i)
               /\ \/ fetches'[i] = fetches[i] /\ (There(i) => There(i)')
                  \/ fetches'[i] = 0
    <3>1. CASE HasL2
      <4>1. fetches' = fetches /\ l2' = l2
        BY <2>2, <3>1 DEF LoseL1
      <4> QED BY <3>1, <4>1 DEF There
    <3>2. CASE ~HasL2
      <4>1. /\ l1' = [l1 EXCEPT ![s] = l1[s] \ {k}] /\ DOMAIN l1 = Server
            /\ fetches' = [fetches EXCEPT ![<<s, k>>] = 0] /\ DOMAIN fetches = Place \X Key
        BY <1>1, <2>2, <3>2 DEF LoseL1, WithoutKey, TypeOK
      <4>2. /\ There(i) <=> i[2] \in l1[i[1]]
            /\ There(i)' <=> i[2] \in l1'[i[1]]
        BY <3>2 DEF There
      <4>3. i[1] \in Server
        BY <2>0, <3>2 DEF Place
      <4>4. CASE i = <<s, k>>
        BY <4>1, <4>2, <4>3, <4>4
      <4>5. CASE i # <<s, k>>
        <5>1. i[1] # s \/ i[2] # k
          BY <2>0, <4>5
        <5>2. fetches'[i] = fetches[i]
          BY <4>1, <4>5
        <5>3. l1'[i[1]] = IF i[1] = s THEN l1[i[1]] \ {k} ELSE l1[i[1]]
          BY <4>1, <4>3
        <5> QED BY <4>2, <5>1, <5>2, <5>3
      <4> QED BY <4>4, <4>5
    <3> QED BY <3>1, <3>2
  <2> QED BY <2>1, <2>2
<1>7. Missing'
  <2> SUFFICES ASSUME NEW d \in Caller, pc[d] \in {"start", "fetch", "store"}
               PROVE  ~There(TheLock(d))'
    BY <1>2 DEF Missing
  <2>1. TheLock(d) \in Place \X Key /\ ~There(TheLock(d))
    BY <1>1, LockIndex DEF Missing
  <2>2. ASSUME NEW i \in Place \X Key, i = TheLock(d)
        PROVE  ~There(i)'
    BY <1>6, <2>1, <2>2
  <2> QED BY <1>3, <2>1, <2>2, SameLock
<1>8. Accounted'
  <2> SUFFICES ASSUME NEW i \in Place \X Key
               PROVE  /\ fetches'[i] <= 1
                      /\ fetches'[i] # 0 => \/ There(i)'
                                            \/ \E d \in Caller : TheLock(d)' = i /\ pc'[d] \in {"fetch", "store"}
    BY DEF Accounted
  <2>1. /\ fetches[i] <= 1
        /\ fetches[i] # 0 => \/ There(i)
                             \/ \E d \in Caller : TheLock(d) = i /\ pc[d] \in {"fetch", "store"}
    BY <1>1 DEF Accounted
  <2> QED BY <1>2, <1>3, <1>6, <2>1
<1> QED BY <1>4, <1>5, <1>7, <1>8 DEF Orderly

\* Initially all is in order.
LEMMA OrderlyInit == Init => Orderly
BY DEF Init, Orderly, Mode, InTime, Owned, Missing, Accounted, Critical

-----------------------------------------------------------------------------
(***************************************************************************)
(* Spent grows.                                                            *)
(***************************************************************************)

\* The ranges of both counts, under all locks.
LEMMA Ranges ==
  Calm /\ Base /\ Orderly =>
    \A i \in Place \X Key : /\ Effort(i) \in 0 .. MaxFetch + 1
                            /\ Spent(i) \in Nat /\ Spent(i) <= Round
                            /\ lock[i] # Free => 1 <= Spent(i)
BY EffortRange, SpentRange

\* They are the same after a step.
LEMMA RangesPrimed ==
  (Calm /\ Base /\ Orderly)' =>
    (\A i \in Place \X Key : /\ Effort(i) \in 0 .. MaxFetch + 1
                             /\ Spent(i) \in Nat /\ Spent(i) <= Round
                             /\ lock[i] # Free => 1 <= Spent(i))'
BY Ranges, PTL

\* The same for one lock.
LEMMA RangesNext ==
  ASSUME Calm, Base', Orderly', NEW i \in Place \X Key
  PROVE  /\ Effort(i)' \in 0 .. MaxFetch + 1
         /\ Spent(i)' \in Nat /\ Spent(i)' <= Round
         /\ lock'[i] # Free => 1 <= Spent(i)'
BY RangesPrimed

\* Fewer calls to come and more effort are more polls spent.
LEMMA Grows ==
  ASSUME Calm, Base, Base', Orderly, Orderly', NEW i \in Place \X Key,
         There(i)' <=> There(i),
         There(i) => Waits(i)' \subseteq Waits(i),
         ~There(i) => Near(i)' \subseteq Near(i) /\ Effort(i) <= Effort(i)'
  PROVE  /\ Spent(i) <= Spent(i)'
         /\ \/ There(i) /\ Waits(i)' # Waits(i)
            \/ ~There(i) /\ Near(i)' # Near(i)
            \/ ~There(i) /\ Effort(i) # Effort(i)'
            => Spent(i) + 1 <= Spent(i)'
<1>1. /\ MaxFetch \in Nat /\ Cardinality(Caller) \in Nat /\ Round \in Nat
      /\ Cardinality(Waits(i)) \in Nat /\ Cardinality(Waits(i)) <= Cardinality(Caller)
      /\ Cardinality(Near(i)) \in Nat /\ Cardinality(Near(i)) <= Cardinality(Caller)
  <2>1. Waits(i) \in SUBSET Caller /\ Near(i) \in SUBSET Caller
    BY DEF Waits, Near
  <2>2. MaxFetch \in Nat
    BY TimeAssumption
  <2> QED BY <2>1, <2>2, Counts DEF Calm, Round
<1>2. Effort(i) \in Nat /\ Effort(i)' \in Nat
  BY <1>1, EffortRange, RangesNext
<1>3. CASE There(i)
  <2>1. /\ Cardinality(Waits(i)') \in Nat /\ Cardinality(Waits(i)') <= Cardinality(Waits(i))
        /\ Waits(i)' # Waits(i) => Cardinality(Waits(i)') < Cardinality(Waits(i))
    <3>1. Waits(i) \in SUBSET Caller /\ Waits(i)' \in SUBSET Waits(i)
      BY <1>3 DEF Waits
    <3> QED BY <3>1, Counts DEF Calm
  <2>2. Spent(i) = Round - Cardinality(Waits(i))
    BY <1>3 DEF Spent
  <2>3. Spent(i)' = Round - Cardinality(Waits(i)')
    BY <1>3 DEF Spent
  <2> QED BY <1>1, <1>3, <2>1, <2>2, <2>3
<1>4. CASE ~There(i)
  <2>1. /\ Cardinality(Near(i)') \in Nat /\ Cardinality(Near(i)') <= Cardinality(Near(i))
        /\ Near(i)' # Near(i) => Cardinality(Near(i)') < Cardinality(Near(i))
    <3>1. Near(i) \in SUBSET Caller /\ Near(i)' \in SUBSET Near(i)
      BY <1>4 DEF Near
    <3> QED BY <3>1, Counts DEF Calm
  <2>2. Spent(i) = Cardinality(Caller) - Cardinality(Near(i)) + Effort(i)
    BY <1>4 DEF Spent
  <2>3. Spent(i)' = Cardinality(Caller) - Cardinality(Near(i)') + Effort(i)'
    BY <1>4 DEF Spent
  <2> QED BY <1>1, <1>2, <1>4, <2>1, <2>2, <2>3
<1> QED BY <1>3, <1>4

\* Once the value has come, all that can have been lost before is little enough.
LEMMA Arrives ==
  ASSUME Calm, Base, Base', Orderly, Orderly', NEW i \in Place \X Key,
         ~There(i), There(i)'
  PROVE  Spent(i) <= Spent(i)'
<1>1. /\ MaxFetch \in Nat /\ Cardinality(Caller) \in Nat /\ Round = 2 * Cardinality(Caller) + MaxFetch + 1
      /\ Cardinality(Waits(i)') \in Nat /\ Cardinality(Waits(i)') <= Cardinality(Caller)
      /\ Cardinality(Near(i)) \in Nat
  <2>1. Waits(i)' \in SUBSET Caller /\ Near(i) \in SUBSET Caller
    BY DEF Waits, Near
  <2>2. MaxFetch \in Nat
    BY TimeAssumption
  <2> QED BY <2>1, <2>2, Counts DEF Calm, Round
<1>2. Effort(i) \in 0 .. MaxFetch + 1
  BY EffortRange
<1>3. /\ Spent(i) = Cardinality(Caller) - Cardinality(Near(i)) + Effort(i)
      /\ Spent(i)' = Round - Cardinality(Waits(i)')
  BY DEF Spent
<1> QED BY <1>1, <1>2, <1>3

\* A lock keeps its effort while its value is missing: who holds it goes on, or
\* leaves a lock that has cost nothing since.
LEMMA EffortStep ==
  ASSUME Calm, Base, Base', Orderly, Orderly', NEW c \in Caller, Local(c), Kind(c),
         NEW i \in Place \X Key, ~There(i)'
  PROVE  Effort(i) <= Effort(i)'
<1>1. TypeOK /\ TypeOK' /\ Owned /\ Mode /\ MaxFetch \in Nat
  BY TimeAssumption DEF Base, Orderly
<1>2. Effort(i) \in Nat /\ Effort(i)' \in Nat
  BY <1>1, EffortRange, RangesNext
<1>3. CASE ~(lock[i] # Free /\ Busy(lock[i].holder))
  <2>1. Effort(i) = 0
    BY <1>3 DEF Effort
  <2> QED BY <1>2, <2>1
<1>4. CASE lock[i] # Free /\ Busy(lock[i].holder)
  <2>1. PICK h \in Caller : h = lock[i].holder /\ pc[h] \in Critical /\ TheLock(h) = i
    BY <1>1, <1>4, HolderOf
  <2>2. Busy(h) /\ Effort(i) = 1 + timer[h]
    BY <1>4, <2>1 DEF Effort
  <2>3. ASSUME lock'[i] = lock[i], Busy(h)', timer'[h] = timer[h]
        PROVE  Effort(i)' = Effort(i)
    <3>1. Busy(lock[i].holder)'
      BY <2>1, <2>3 DEF Busy, InL1
    <3>2. Effort(i)' = 1 + timer'[lock'[i].holder]
      BY <1>4, <2>3, <3>1 DEF Effort
    <3> QED BY <2>1, <2>2, <2>3, <3>2
  <2>4. CASE h # c
    <3>1. /\ timer'[h] = timer[h]
          /\ \A P \in SUBSET (PC \ {"joined", "idle"}) : pc'[h] \in P <=> pc[h] \in P
          /\ TheLock(h) # TheLock(c) \/ l1' = l1 => InL1(h)' = InL1(h)
      BY <1>1, <2>4, Others
    <3>2. TheLock(h) # TheLock(c) \/ l1' = l1
      <4>1. i = TheLock(c) /\ l1' # l1 => There(i)'
        BY <1>1, Comes DEF Kind, Begins, Looks, Turns, Takes, Rechecks, Starts, Answers, Leaves
      <4> QED BY <2>1, <4>1
    <3>3. /\ {"again", "start", "fetch", "store"} \in SUBSET (PC \ {"joined", "idle"})
          /\ {"locked"} \in SUBSET (PC \ {"joined", "idle"})
      BY DEF PC, Critical
    <3>4. Busy(h)'
      <4>1. /\ pc'[h] \in {"again", "start", "fetch", "store"} <=> pc[h] \in {"again", "start", "fetch", "store"}
            /\ pc'[h] \in {"locked"} <=> pc[h] \in {"locked"}
            /\ InL1(h)' = InL1(h)
        BY <3>1, <3>2, <3>3
      <4> QED BY <2>2, <4>1 DEF Busy
    <3>5. lock'[i] = lock[i]
      <4>1. Leaves(c) => TheLock(c) # i
        BY <2>1, <2>4, Sole DEF Leaves, Critical
      <4>2. Takes(c) => TheLock(c) # i
        BY <1>4 DEF Takes
      <4> QED BY <1>1, <4>1, <4>2 DEF Kind, Begins, Looks, Turns, Takes, Rechecks, Starts, Answers, Stores, Leaves, TypeOK
    <3> QED BY <1>2, <2>3, <3>1, <3>4, <3>5
  <2>5. CASE h = c
    <3>1. ~There(i) /\ ~Stores(c) /\ pc[c] \in {"locked", "again", "start", "fetch", "store"}
      BY <1>1, <2>1, <2>2, <2>5, Comes DEF Busy
    <3>2. (Rechecks(c) /\ ~There(TheLock(c))) \/ Starts(c) \/ (Answers(c) /\ pc[c] = "fetch")
      BY <2>1, <2>5, <3>1 DEF Kind, Begins, Looks, Turns, Takes, Answers, Leaves
    <3>3. timer'[c] = timer[c] /\ lock' = lock
      BY <3>2 DEF Rechecks, Starts, Answers
    <3>4. pc'[c] \in {"again", "start", "fetch", "store"}
      <4>1. pc[c] = "locked" => ~InL1(c)
        BY <2>2, <2>5 DEF Busy
      <4> QED BY <3>2, <4>1 DEF Rechecks, Starts, Answers
    <3> QED BY <1>2, <2>3, <2>5, <3>3, <3>4 DEF Busy
  <2> QED BY <2>4, <2>5
<1> QED BY <1>3, <1>4

\* Nobody comes to wait who need not fetch, and no poll is forgotten.
LEMMA SpentStep ==
  ASSUME Calm, Base, Base', Orderly, Orderly', NEW c \in Caller, Local(c), Kind(c),
         NEW i \in Place \X Key
  PROVE  /\ Spent(i) <= Spent(i)'
         /\ Takes(c) /\ i = TheLock(c) => Spent(i) + 1 <= Spent(i)'
<1>1. TypeOK /\ TypeOK' /\ Mode
  BY DEF Base, Orderly
<1>2. /\ pc[c] # "idle" => key'[c] = key[c] /\ TheLock(c)' = TheLock(c)
      /\ TheLock(c) \in Place \X Key
  BY <1>1, LockIndex DEF Local, TheLock, LockPlace
<1>3. /\ Contending \in SUBSET (PC \ {"joined", "idle"})
      /\ {"first"} \cup Contending \in SUBSET (PC \ {"joined", "idle"})
  BY DEF PC, Contending, Waiting
<1>4. \A d \in Caller \ {c} : d \in Waits(i)' <=> d \in Waits(i)
  BY <1>1, <1>3, Others DEF Waits
<1>5. ASSUME ~There(i)', NEW d \in Caller \ {c}
      PROVE  d \in Near(i)' <=> d \in Near(i)
  <2>1. /\ TheLock(d)' = TheLock(d)
        /\ pc'[d] \in {"first"} \cup Contending <=> pc[d] \in {"first"} \cup Contending
        /\ TheLock(d) # TheLock(c) \/ l1' = l1 => InL1(d)' = InL1(d)
    BY <1>1, <1>3, Others
  <2>2. i = TheLock(c) /\ l1' # l1 => There(i)'
    BY <1>1, Comes DEF Kind, Begins, Looks, Turns, Takes, Rechecks, Starts, Answers, Leaves
  <2> QED BY <1>5, <2>1, <2>2 DEF Near
<1>6. ASSUME There(i), c \in Waits(i)'
      PROVE  c \in Waits(i)
  <2>1. pc'[c] \in Contending /\ TheLock(c)' = i
    BY <1>6 DEF Waits
  <2>2. ~Begins(c)
    <3>1. ASSUME Begins(c)
          PROVE  ~HasL2 /\ ~InL1(c)' /\ pc'[c] = "check"
      BY <2>1, <3>1 DEF Begins, Contending, Waiting
    <3>2. There(i)'
      BY <1>1, <1>6, Comes
    <3>3. There(TheLock(c))'
      BY <2>1, <3>2, SameLock
    <3> QED BY <1>1, <3>1, <3>3, ThereNext
  <2>3. ~Looks(c)
    BY <1>2, <1>6, <2>1 DEF Looks, Contending, Waiting
  <2>4. Turns(c)
    BY <2>1, <2>2, <2>3 DEF Kind, Takes, Rechecks, Starts, Answers, Stores, Leaves, Contending, Waiting
  <2> QED BY <1>2, <2>1, <2>4 DEF Turns, Waits, Contending, Waiting
<1>7. ASSUME ~There(i)', c \in Near(i)'
      PROVE  c \in Near(i)
  <2>1. pc'[c] \in {"first"} \cup Contending /\ TheLock(c)' = i /\ InL1(c)'
    BY <1>7 DEF Near
  <2>2. ~Begins(c)
    BY <2>1 DEF Begins, Contending, Waiting
  <2>3. /\ pc[c] \in {"first"} \cup Contending /\ pc[c] # "idle" /\ l1' = l1 /\ key'[c] = key[c]
    BY <2>1, <2>2 DEF Kind, Looks, Turns, Takes, Rechecks, Starts, Answers, Stores, Leaves, Contending, Waiting
  <2> QED BY <1>2, <2>1, <2>3 DEF Near, InL1
<1>8. CASE ~There(i) /\ There(i)'
  <2>1. Spent(i) <= Spent(i)'
    BY <1>8, Arrives
  <2>2. ~Takes(c)
    BY <1>1, <1>8, Comes DEF Takes, Stores
  <2> QED BY <2>1, <2>2
<1>9. CASE ~(~There(i) /\ There(i)')
  <2>1. There(i)' <=> There(i)
    BY <1>1, <1>9, Comes
  <2>2. There(i) => Waits(i)' \subseteq Waits(i)
    BY <1>4, <1>6 DEF Waits
  <2>3. ~There(i) => Near(i)' \subseteq Near(i) /\ Effort(i) <= Effort(i)'
    BY <2>1, <1>5, <1>7, EffortStep DEF Near
  <2>4. ASSUME Takes(c), i = TheLock(c)
        PROVE  \/ There(i) /\ Waits(i)' # Waits(i)
               \/ ~There(i) /\ Near(i)' # Near(i)
               \/ ~There(i) /\ Effort(i) # Effort(i)'
    <3>1. /\ pc[c] \in Contending /\ pc'[c] = "locked" /\ timer'[c] = 0 /\ lock[i] = Free
          /\ lock'[i] = HeldBy(c) /\ l1' = l1 /\ key' = key
      BY <1>1, <1>2, <2>4 DEF Takes, Contending, Waiting, TypeOK
    <3>2. c \in Waits(i) /\ c \notin Waits(i)' /\ c \notin Near(i)'
      BY <2>4, <3>1 DEF Waits, Near, Contending, Waiting
    <3>3. InL1(c) => c \in Near(i)
      BY <2>4, <3>1 DEF Near
    <3>4. ASSUME ~InL1(c)
          PROVE  Effort(i) = 0 /\ Effort(i)' = 1
      <4>1. HeldBy(c) # Free /\ HeldBy(c).holder = c
        BY NoneAssumption DEF HeldBy, Free
      <4>2. Busy(c)' /\ Busy(lock[i].holder)'
        BY <3>1, <3>4, <4>1 DEF Busy, InL1
      <4>3. Effort(i)' = 1 + timer'[c]
        BY <3>1, <4>1, <4>2 DEF Effort
      <4>4. Effort(i) = 0
        BY <3>1 DEF Effort
      <4> QED BY <3>1, <4>3, <4>4
    <3> QED BY <3>2, <3>3, <3>4
  <2> QED BY <2>1, <2>2, <2>3, <2>4, Grows
<1> QED BY <1>8, <1>9

-----------------------------------------------------------------------------
(***************************************************************************)
(* Patience.                                                               *)
(***************************************************************************)

\* A call that begins to poll has lost nothing yet, and one that goes on has lost
\* a poll more only when the lock went to another.
LEMMA PatientStep ==
  ASSUME Calm, Base, Base', Orderly, Orderly', Patient, NEW c \in Caller, Local(c), Kind(c)
  PROVE  Patient'
<1>1. TypeOK /\ TypeOK' /\ InTime
  BY DEF Base, Orderly
<1>2. SUFFICES ASSUME NEW d \in Caller, pc'[d] \in Waiting
               PROVE  Lost(d)' <= losses' * Round + Spent(TheLock(d))'
  BY DEF Patient
<1>3. PICK i \in Place \X Key : i = TheLock(d)
  BY <1>1, LockIndex
<1>4. /\ Spent(i) \in Nat /\ Spent(i)' \in Nat /\ losses * Round \in Nat /\ losses' = losses
      /\ timer[d] \in Nat
  <2>1. Spent(i) \in Nat /\ Spent(i)' \in Nat /\ Round \in Nat
    BY SpentRange, RangesNext
  <2>2. losses \in Nat /\ losses' = losses /\ timer[d] \in Nat
    BY <1>1, LossAssumption, TimeAssumption DEF TypeOK, Local, Horizon
  <2> QED BY <2>1, <2>2, Products
<1>5. /\ Spent(i) <= Spent(i)'
      /\ Takes(c) /\ i = TheLock(c) => Spent(i) + 1 <= Spent(i)'
  BY SpentStep
<1>6. ASSUME TheLock(d)' = i, timer'[d] = timer[d],
             timer[d] + (IF pc'[d] = "sleep" \/ lock'[i] # Free THEN 1 ELSE 0) <= losses * Round + Spent(i)'
      PROVE  Lost(d)' <= losses' * Round + Spent(TheLock(d))'
  <2>1. Lost(d)' = timer[d] + (IF pc'[d] = "sleep" \/ lock'[i] # Free THEN 1 ELSE 0)
    BY <1>6 DEF Lost
  <2>2. Spent(TheLock(d))' = Spent(i)'
    BY <1>6 DEF Spent, There, Waits, Near, Effort
  <2> QED BY <1>4, <1>6, <2>1, <2>2
<1>7. CASE d # c
  <2>1. /\ TheLock(d)' = i /\ timer'[d] = timer[d]
        /\ pc[d] = pc'[d]
    BY <1>1, <1>2, <1>3, <1>7, Others DEF Local, Waiting
  <2>2. timer[d] + (IF pc[d] = "sleep" \/ lock[i] # Free THEN 1 ELSE 0) <= losses * Round + Spent(i)
    BY <1>2, <1>3, <2>1 DEF Patient, Lost
  <2>3. lock'[i] # Free => lock[i] # Free \/ (Takes(c) /\ i = TheLock(c))
    BY <1>1 DEF Kind, Begins, Looks, Turns, Takes, Rechecks, Starts, Answers, Stores, Leaves, TypeOK
  <2>4. timer[d] + (IF pc'[d] = "sleep" \/ lock'[i] # Free THEN 1 ELSE 0) <= losses * Round + Spent(i)'
    <3>1. CASE lock'[i] # Free /\ lock[i] = Free
      <4>1. Spent(i) + 1 <= Spent(i)'
        BY <1>5, <2>3, <3>1
      <4>2. timer[d] <= losses * Round + Spent(i)
        BY <1>4, <2>2
      <4> QED BY <1>4, <4>1, <4>2
    <3>2. CASE ~(lock'[i] # Free /\ lock[i] = Free)
      <4>1. (pc'[d] = "sleep" \/ lock'[i] # Free) => (pc[d] = "sleep" \/ lock[i] # Free)
        BY <2>1, <3>2
      <4> QED BY <1>4, <1>5, <2>2, <4>1
    <3> QED BY <3>1, <3>2
  <2> QED BY <1>6, <2>1, <2>4
<1>8. CASE d = c
  <2>1. Turns(c)
    BY <1>2, <1>8 DEF Kind, Begins, Looks, Takes, Rechecks, Starts, Answers, Stores, Leaves, Waiting
  <2>2. /\ TheLock(c)' = i /\ timer'[c] = timer[c] /\ lock' = lock /\ pc[c] \in {"check"} \cup Waiting
        /\ pc'[c] = "sleep" => lock[i] # Free
    BY <1>2, <1>3, <1>8, <2>1 DEF Turns, Waiting, TheLock, LockPlace
  <2>3. CASE pc[c] = "check"
    <3>1. timer[c] = 0
      BY <1>1, <2>3 DEF InTime
    <3>2. lock'[i] # Free => 1 <= Spent(i)'
      BY RangesNext
    <3>3. timer[d] + (IF pc'[d] = "sleep" \/ lock'[i] # Free THEN 1 ELSE 0) <= losses * Round + Spent(i)'
      BY <1>4, <1>8, <2>2, <3>1, <3>2
    <3> QED BY <1>6, <1>8, <2>2, <3>3
  <2>4. CASE pc[c] \in Waiting
    <3>1. timer[d] + (IF pc[d] = "sleep" \/ lock[i] # Free THEN 1 ELSE 0) <= losses * Round + Spent(i)
      BY <1>3, <1>8, <2>4 DEF Patient, Lost
    <3>2. timer[d] + (IF pc'[d] = "sleep" \/ lock'[i] # Free THEN 1 ELSE 0) <= losses * Round + Spent(i)'
      BY <1>4, <1>5, <1>8, <2>2, <3>1
    <3> QED BY <1>6, <1>8, <2>2, <3>2
  <2> QED BY <2>2, <2>3, <2>4
<1> QED BY <1>7, <1>8

\* What all waiting calls lose to a tick the fetch they wait for has used.
LEMMA PatientTick ==
  ASSUME Calm, Base, Base', Orderly, Orderly', Patient, Tick
  PROVE  Patient'
<1>1. TypeOK /\ TypeOK'
  BY DEF Base
<1>2. SUFFICES ASSUME NEW d \in Caller, pc'[d] \in Waiting
               PROVE  Lost(d)' <= losses' * Round + Spent(TheLock(d))'
  BY DEF Patient
<1>3. PICK i \in Place \X Key : i = TheLock(d)
  BY <1>1, LockIndex
<1>4. /\ Spent(i) \in Nat /\ Spent(i)' \in Nat /\ losses * Round \in Nat /\ losses' = losses
      /\ timer[d] \in Nat /\ timer'[d] \in Nat
  <2>1. Spent(i) \in Nat /\ Spent(i)' \in Nat /\ Round \in Nat
    BY SpentRange, RangesNext
  <2>2. losses \in Nat /\ losses' = losses /\ timer[d] \in Nat /\ timer'[d] \in Nat
    BY <1>1, LossAssumption, TimeAssumption DEF TypeOK, Tick, Horizon
  <2> QED BY <2>1, <2>2, Products
<1>t. \A e \in Caller : /\ pc[e] \in {"idle", "joined", "sleep", "fetch"}
                        /\ pc'[e] = IF pc[e] = "sleep" THEN "wake" ELSE pc[e]
                        /\ TheLock(e)' = TheLock(e) /\ InL1(e)' = InL1(e)
                        /\ timer'[e] <= timer[e] + 1
  BY <1>1, Ticks
<1>5. pc[d] = "sleep" /\ pc'[d] = "wake" /\ TheLock(d)' = i /\ timer'[d] <= timer[d] + 1
  BY <1>2, <1>3, <1>t DEF Waiting
<1>6. timer[d] + 1 <= losses * Round + Spent(i)
  BY <1>3, <1>5 DEF Patient, Lost, Waiting
<1>7. /\ \A e \in Caller : /\ pc'[e] \in Contending <=> pc[e] \in Contending
                           /\ pc'[e] \in {"first"} \cup Contending <=> pc[e] \in {"first"} \cup Contending
                           /\ TheLock(e)' = TheLock(e) /\ InL1(e)' = InL1(e)
      /\ There(i)' <=> There(i)
  <2>1. There(i)' = There(i)
    BY <1>1, Ticks
  <2> QED BY <1>t, <2>1 DEF Contending, Waiting
<1>8. Waits(i)' = Waits(i) /\ Near(i)' = Near(i)
  BY <1>7 DEF Waits, Near
<1>9. Effort(i) \in Nat /\ Effort(i)' \in Nat /\ MaxFetch \in Nat
  BY EffortRange, RangesNext, TimeAssumption
<1>10. CASE lock[i] = Free
  <2>1. lock'[i] = Free
    <3>1. lock[i] = Free => lock'[i] = Free
      BY <1>1, Ticks
    <3> QED BY <1>10, <3>1
  <2>2. Effort(i) = 0
    BY <1>10 DEF Effort
  <2>3. Spent(i) <= Spent(i)'
    BY <1>7, <1>8, <1>9, <2>2, Grows
  <2>4. Lost(d)' = timer'[d]
    <3>1. Lost(d)' = timer'[d] + (IF pc'[d] = "sleep" \/ lock'[TheLock(d)'] # Free THEN 1 ELSE 0)
      BY DEF Lost
    <3> QED BY <1>4, <1>5, <2>1, <3>1
  <2>5. Spent(TheLock(d))' = Spent(i)'
    BY <1>5 DEF Spent, There, Waits, Near, Effort
  <2> QED BY <1>4, <1>5, <1>6, <2>3, <2>4, <2>5
<1>11. CASE lock[i] # Free
  <2>1. PICK h \in Caller : h = lock[i].holder /\ pc[h] = "fetch" /\ TheLock(h) = i
    BY <1>1, <1>11, Ticks, HolderOf DEF Orderly
  <2>2. /\ lock'[i] # Free /\ lock'[i].holder = h /\ pc'[h] = "fetch" /\ timer'[h] = timer[h] + 1
        /\ timer[h] \in Nat
    BY <1>1, <1>11, <2>1, Ticks, TimeAssumption DEF TypeOK, Horizon
  <2>3. Effort(i) = 1 + timer[h]
    BY <1>11, <2>1 DEF Effort, Busy
  <2>4. Effort(i)' = 1 + timer'[h]
    <3>1. Busy(lock[i].holder)'
      BY <2>2 DEF Busy
    <3> QED BY <2>2, <3>1 DEF Effort
  <2>5. ~There(i)
    BY <2>1 DEF Orderly, Missing
  <2>6. Spent(i) + 1 <= Spent(i)'
    BY <1>7, <1>8, <2>2, <2>3, <2>4, <2>5, Grows
  <2>7. Lost(d)' = timer'[d] + 1
    BY <1>5, <2>2 DEF Lost
  <2>8. Spent(TheLock(d))' = Spent(i)'
    BY <1>5 DEF Spent, There, Waits, Near, Effort
  <2> QED BY <1>4, <1>5, <1>6, <2>6, <2>7, <2>8
<1> QED BY <1>10, <1>11

\* A loss begins a new round.
LEMMA PatientLoss ==
  ASSUME Calm, Base, Base', Orderly, Orderly', Patient, NEW k \in Key,
         LoseL2(k) \/ \E s \in Server : LoseL1(s, k)
  PROVE  Patient'
<1>1. TypeOK /\ UNCHANGED <<pc, key, timer, lock>> /\ losses' = losses + 1
  BY DEF LoseL1, LoseL2, Base
<1>2. SUFFICES ASSUME NEW d \in Caller, pc[d] \in Waiting
               PROVE  Lost(d)' <= losses' * Round + Spent(TheLock(d))'
  BY <1>1 DEF Patient
<1>3. PICK i \in Place \X Key : i = TheLock(d) /\ TheLock(d)' = i
  BY <1>1, LockIndex DEF TheLock, LockPlace
<1>4. /\ Spent(i) \in Nat /\ Spent(i)' \in Nat /\ Round \in Nat /\ Spent(i) <= Round
      /\ losses \in Nat /\ timer[d] \in Nat
  BY <1>1, SpentRange, RangesNext, LossAssumption, TimeAssumption DEF TypeOK, Horizon
<1>5. losses * Round \in Nat /\ losses' * Round = losses * Round + Round
  BY <1>1, <1>4, Products
<1>6. Lost(d)' = Lost(d) /\ Lost(d) \in Nat /\ Lost(d) <= losses * Round + Spent(i)
  BY <1>1, <1>2, <1>3, <1>4 DEF Lost, Patient
<1>7. Spent(TheLock(d))' = Spent(i)'
  BY <1>3 DEF Spent, There, Waits, Near, Effort
<1> QED BY <1>4, <1>5, <1>6, <1>7

-----------------------------------------------------------------------------
(***************************************************************************)
(* The theorems.                                                           *)
(***************************************************************************)

\* The inductive invariant.
OnceInv == Base /\ Orderly /\ Patient

\* The invariant holds at first.
LEMMA OnceInit == Calm /\ Init => OnceInv
<1>1. Init => Patient
  BY DEF Init, Patient, Waiting
<1>2. Init => LeaseHeld
  BY InitLeases
<1> QED BY <1>1, <1>2, InitTypes, InitPending, OrderlyInit DEF OnceInv, Base

\* Every step keeps it.
LEMMA OnceStep == Calm /\ OnceInv /\ [Next]_vars => OnceInv'
<1> SUFFICES ASSUME Calm, Base, Orderly, Patient, [Next]_vars
             PROVE  OnceInv'
  BY DEF OnceInv
<1>1. TypeOK /\ LeaseHeld /\ PendingIsLive
  BY DEF Base
<1>2. Base' /\ TypeOK'
  BY <1>1, StepTypes, StepLeases, StepPending DEF Base
<1>3. ASSUME NEW c \in Caller, Step(c) \/ \E k \in Key : Call(c, k)
      PROVE  OnceInv'
  <2>1. Local(c) /\ Kind(c)
    BY <1>3, StepKinds
  <2>2. Orderly'
    BY <1>2, <2>1, OrderlyStep
  <2>3. Patient'
    BY <1>2, <2>1, <2>2, PatientStep
  <2> QED BY <1>2, <2>2, <2>3 DEF OnceInv
<1>4. CASE Tick
  <2>1. Orderly'
    BY <1>2, <1>4, OrderlyTick
  <2> QED BY <1>2, <1>4, <2>1, PatientTick DEF OnceInv
<1>5. ASSUME NEW k \in Key, LoseL2(k) \/ \E s \in Server : LoseL1(s, k)
      PROVE  OnceInv'
  <2>1. Orderly'
    BY <1>5, OrderlyLoss
  <2> QED BY <1>2, <1>5, <2>1, PatientLoss DEF OnceInv
<1>6. CASE UNCHANGED vars
  <2>1. UNCHANGED <<pc, key, timer, lock, l1, l2, losses, fetches>>
    BY <1>6 DEF vars
  <2>2. Orderly'
    BY <2>1 DEF Orderly, Mode, InTime, Owned, Missing, Accounted, There, TheLock, LockPlace
  <2>3. Patient'
    BY <2>1 DEF Patient, Lost, Spent, There, Waits, Near, Effort, Busy, InL1, TheLock, LockPlace
  <2> QED BY <1>2, <2>2, <2>3 DEF OnceInv
<1> QED BY <1>3, <1>4, <1>5, <1>6 DEF Next

\* It holds in every reachable state.
LEMMA OnceHolds == ASSUME Calm PROVE Spec => []OnceInv
<1>1. Init => OnceInv
  BY OnceInit
<1>2. OnceInv /\ [Next]_vars => OnceInv'
  BY OnceStep
<1> QED BY <1>1, <1>2, PTL DEF Spec

\* `Distributed lock ensures only one fetch per key under concurrent load'
\* (README): where nothing fails and calls wait long enough, no two origin
\* calls under one lock overlap.
THEOREM FetchesAlone == ASSUME Calm PROVE Spec => []SingleFlight
<1>1. OnceInv => SingleFlight
  <2> SUFFICES ASSUME Base, Orderly, NEW c \in Fetching, NEW d \in Fetching, TheLock(c) = TheLock(d)
               PROVE  c = d
    BY DEF OnceInv, SingleFlight
  <2>1. c \in Caller /\ d \in Caller /\ pc[c] = "fetch" /\ pc[d] = "fetch"
    BY DEF Fetching, Orderly, InTime
  <2> QED BY <2>1, Sole DEF Critical
<1> QED BY <1>1, OnceHolds, PTL

\* However many calls meet, the origin is asked once for every loss of the
\* entry: whoever has waited finds what the others have stored.
THEOREM FetchesOnce == ASSUME Calm PROVE Spec => []OneFetchPerMiss
<1>1. OnceInv => OneFetchPerMiss
  BY DEF OnceInv, Orderly, Accounted, OneFetchPerMiss
<1> QED BY <1>1, OnceHolds, PTL

=============================================================================
