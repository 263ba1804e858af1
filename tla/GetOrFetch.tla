----------------------------- MODULE GetOrFetch -----------------------------
(***************************************************************************)
(* CacheManager.getOrFetch and the two locks it runs under: N concurrent   *)
(* calls, on one or several servers, look a key up in L1 and L2, join a    *)
(* fetch of their own process that is under way, or take a lease on the    *)
(* key, look again, fetch from the origin, store and release.              *)
(*                                                                         *)
(* HasL2 = FALSE is the L1-only mode: one InMemoryLock per server, and     *)
(* checking pendingFetches and taking the lock are one synchronous         *)
(* stretch.  HasL2 = TRUE is the mode with Redis: one DistributedLock for  *)
(* all servers, and every L2 lookup, L2 write, SET NX and release script   *)
(* is a command in flight, with a program counter of its own.  A step is   *)
(* one stretch of code between two awaits.                                 *)
(*                                                                         *)
(* A value is only present or absent, l1 and l2 hold the keys that have a  *)
(* live non-null value.  One tick of the clock is one retryIntervalMs.     *)
(***************************************************************************)
EXTENDS Naturals, FiniteSets

CONSTANTS
  Caller,      \* calls of getOrFetch that may be under way at once
  Server,      \* processes with a CacheManager each
  Home,        \* Home[c]: the server caller c runs on
  Key, None,
  Redis,       \* the place where the distributed locks are kept
  HasL2,       \* L2 configured and connected once; else L1-only
  LockTtl,     \* ttlMs, in ticks
  WaitTime,    \* waitTimeMs, in ticks
  MaxFetch,    \* ticks after taking the lease the origin answers at the latest
  Prompt,      \* TRUE: a tick never overtakes a step that is ready to run
  Faults,      \* what may go wrong: "null", "reject", "redis"; with "throw",
               \* L2's failureStrategy, a GET that fails rejects
  MaxLosses    \* bound on entries that expire, are evicted or deleted

ASSUME HomeAssumption == Home \in [Caller -> Server]
ASSUME NoneAssumption == None \notin Caller
ASSUME TimeAssumption == LockTtl \in Nat \ {0} /\ WaitTime \in Nat /\ MaxFetch \in Nat
ASSUME LossAssumption == MaxLosses \in Nat
ASSUME ModeAssumption == HasL2 \in BOOLEAN /\ Prompt \in BOOLEAN
ASSUME FaultAssumption == Faults \subseteq {"null", "reject", "redis", "throw"}

VARIABLES
  pc,       \* where each call stands
  key,      \* the key it was called with
  timer,    \* ticks since it began to wait, since it took the lease, or since
            \* it went to the origin without one
  leader,   \* whose fetch it has joined
  outcome,  \* "value" or "error" once the call is decided
  pending,  \* pendingFetches: the caller whose fetch each server has entered
  lock,     \* the leases, per place and key
  l1, l2,
  losses,   \* entries lost so far (history)
  fetches   \* origin calls since the entry was last lost (history, up to 2)

vars == <<pc, key, timer, leader, outcome, pending, lock, l1, l2, losses, fetches>>

\* The lease is held in these places.
Critical == {"locked", "again", "start", "fetch", "store", "stored", "release"}
Waiting == {"acquire", "sleep", "wake"}
PC == {"idle", "first", "check", "joined", "timedout", "last", "alone", "direct"}
        \cup Waiting \cup Critical

\* Where a call waits for a timer or for the origin.
Resting == {"idle", "joined", "sleep", "fetch", "direct"}

Place == IF HasL2 THEN {Redis} ELSE Server
LockPlace(c) == IF HasL2 THEN Redis ELSE Home[c]
TheLock(c) == <<LockPlace(c), key[c]>>

Free == [holder |-> None, left |-> 0]
HeldBy(c) == [holder |-> c, left |-> LockTtl]

\* timer counts no further than anything it is compared with.
Horizon == IF LockTtl > WaitTime THEN LockTtl ELSE WaitTime

RedisFails == HasL2 /\ "redis" \in Faults

Init ==
  /\ pc = [c \in Caller |-> "idle"]
  /\ key \in [Caller -> Key]
  /\ timer = [c \in Caller |-> 0]
  /\ leader = [c \in Caller |-> None]
  /\ outcome = [c \in Caller |-> "none"]
  /\ pending = [s \in Server |-> [k \in Key |-> None]]
  /\ lock = [i \in Place \X Key |-> Free]
  /\ l1 = [s \in Server |-> {}]
  /\ l2 = {}
  /\ losses = 0
  /\ fetches = [i \in Place \X Key |-> 0]

-----------------------------------------------------------------------------

Goto(c, p) == pc' = [pc EXCEPT ![c] = p]
Decide(c, r) == outcome' = [outcome EXCEPT ![c] = r]
Restart(c) == timer' = [timer EXCEPT ![c] = 0]

Return(c, r) == Goto(c, "idle") /\ Decide(c, r) /\ Restart(c)

InL1(c) == key[c] \in l1[Home[c]]
WithKey(s, k) == [l1 EXCEPT ![s] = l1[s] \cup {k}]
WithoutKey(s, k) == [l1 EXCEPT ![s] = l1[s] \ {k}]

Shared == <<pending, lock, l1, l2, losses, fetches>>

\* this.get, the part before the await on L2: a hit in L1 decides the call.
LookUp(c, hit, asking, miss) ==
  /\ \/ InL1(c) /\ Goto(c, hit) /\ Decide(c, "value")
     \/ /\ ~InL1(c)
        /\ Goto(c, IF HasL2 THEN asking ELSE miss)
        /\ UNCHANGED outcome
  /\ UNCHANGED <<key, leader, Shared>>

\* this.get, L2's answer: a hit fills L1.  A failing Redis reads as a miss, unless
\* failures are thrown, and so does a connection that is down.
Answer(c, hit, miss) ==
  /\ \/ /\ key[c] \in l2
        /\ l1' = WithKey(Home[c], key[c])
        /\ Goto(c, hit)
        /\ Decide(c, "value")
     \/ /\ key[c] \notin l2 \/ RedisFails
        /\ Goto(c, miss)
        /\ UNCHANGED <<l1, outcome>>
     \/ /\ RedisFails /\ "throw" \in Faults
        /\ Goto(c, hit)
        /\ Decide(c, "error")
        /\ UNCHANGED l1
  /\ UNCHANGED <<key, leader, pending, lock, l2, losses, fetches>>

Call(c, k) ==
  /\ pc[c] = "idle"
  /\ key' = [key EXCEPT ![c] = k]
  /\ \/ k \in l1[Home[c]] /\ Decide(c, "value") /\ UNCHANGED pc
     \/ /\ k \notin l1[Home[c]]
        /\ Goto(c, IF HasL2 THEN "first" ELSE "check")
        /\ Decide(c, "none")
  /\ UNCHANGED <<timer, leader, Shared>>

FirstAnswer(c) == pc[c] = "first" /\ Answer(c, "idle", "check") /\ UNCHANGED timer

-----------------------------------------------------------------------------
(***************************************************************************)
(* The locks.                                                              *)
(***************************************************************************)

\* Bug: a lock that is held is taken over (SET without NX).
TakeAlways(c) ==
  /\ lock' = [lock EXCEPT ![TheLock(c)] = HeldBy(c)]
  /\ Goto(c, "locked")
  /\ Restart(c)

\* tryAcquire, as the place that keeps the lock executes it.
TakeOrSleep(c) ==
  \/ /\ lock[TheLock(c)] = Free
     /\ lock' = [lock EXCEPT ![TheLock(c)] = HeldBy(c)]
     /\ Goto(c, "locked")
     /\ Restart(c)
  \/ /\ lock[TheLock(c)] # Free
     /\ Goto(c, "sleep")
     /\ UNCHANGED <<lock, timer>>

\* One turn of the loop in acquire: InMemoryLock decides at once, DistributedLock
\* sends SET NX PX.
Attempt(c) ==
  \/ ~HasL2 /\ TakeOrSleep(c)
  \/ HasL2 /\ Goto(c, "acquire") /\ UNCHANGED <<lock, timer>>

Caches == <<l1, l2, losses, fetches>>

\* pendingFetches.get and, without an entry, the call of withLock.  A fetch
\* that has settled already is joined and returned at once.
Check(c) ==
  LET p == pending[Home[c]][key[c]] IN
  /\ pc[c] = "check"
  /\ \/ /\ p # None
        /\ pc[p] = "fetch"
        /\ Goto(c, "joined")
        /\ leader' = [leader EXCEPT ![c] = p]
        /\ UNCHANGED <<timer, outcome, lock>>
     \/ /\ p # None
        /\ pc[p] # "fetch"
        /\ Return(c, "value")
        /\ UNCHANGED <<leader, lock>>
     \/ /\ p = None
        /\ Attempt(c)
        /\ UNCHANGED <<leader, outcome>>
  /\ UNCHANGED <<key, pending, Caches>>

SetNX(c) ==
  /\ pc[c] = "acquire"
  /\ TakeOrSleep(c)
  /\ UNCHANGED <<key, leader, outcome, pending, Caches>>

\* SET NX rejects; Redis may have executed it or not.
AcquireFails(c) ==
  /\ RedisFails
  /\ pc[c] = "acquire"
  /\ \/ UNCHANGED lock
     \/ /\ lock[TheLock(c)] = Free
        /\ lock' = [lock EXCEPT ![TheLock(c)] = HeldBy(c)]
  /\ Return(c, "error")
  /\ UNCHANGED <<key, leader, pending, Caches>>

\* Bug: every turn of the loop waits the full time again.
WakeRestartsClock(c) ==
  /\ pc[c] = "wake"
  /\ lock[TheLock(c)] # Free
  /\ Goto(c, "sleep")
  /\ Restart(c)
  /\ UNCHANGED <<key, leader, outcome, pending, lock, Caches>>

\* sleep(retryIntervalMs) is over.
Wake(c) ==
  /\ pc[c] = "wake"
  /\ \/ timer[c] < WaitTime /\ Attempt(c)
     \/ timer[c] >= WaitTime /\ Goto(c, "timedout") /\ UNCHANGED <<lock, timer>>
  /\ UNCHANGED <<key, leader, outcome, pending, Caches>>

\* Bug: the lock is deleted without comparing its value.
ReleaseUnchecked(c) ==
  /\ pc[c] = "release"
  /\ lock' = [lock EXCEPT ![TheLock(c)] = Free]
  /\ Return(c, outcome[c])
  /\ UNCHANGED <<key, leader, pending, Caches>>

\* lock.release(): only if the lock is still this caller's.
Unlocked(c) ==
  IF lock[TheLock(c)].holder = c
  THEN [lock EXCEPT ![TheLock(c)] = Free]
  ELSE lock

Release(c) ==
  /\ pc[c] = "release"
  /\ lock' = Unlocked(c)
  /\ Return(c, outcome[c])
  /\ UNCHANGED <<key, leader, pending, Caches>>

\* The release script rejects, executed or not, and withLock with it.
ReleaseFails(c) ==
  /\ RedisFails
  /\ pc[c] = "release"
  /\ lock' \in {lock, Unlocked(c)}
  /\ Return(c, "error")
  /\ UNCHANGED <<key, leader, pending, Caches>>

-----------------------------------------------------------------------------
(***************************************************************************)
(* Under the lease.                                                        *)
(***************************************************************************)

\* Bug: the cache is not looked up again under the lock.
RecheckNot(c) ==
  /\ pc[c] = "locked"
  /\ Goto(c, "start")
  /\ UNCHANGED <<key, timer, leader, outcome, Shared>>

Recheck(c) == pc[c] = "locked" /\ LookUp(c, "release", "again", "start") /\ UNCHANGED timer

RecheckAnswer(c) == pc[c] = "again" /\ Answer(c, "release", "start") /\ UNCHANGED timer

\* One more call of fetchFn (history).
CountFetch(c) ==
  LET i == <<LockPlace(c), key[c]>>
  IN  fetches' = [fetches EXCEPT ![i] = IF fetches[i] = 0 THEN 1 ELSE 2]

EnterPending(c, p) ==
  pending' = [pending EXCEPT ![Home[c]] = [pending[Home[c]] EXCEPT ![key[c]] = p]]

\* fetchFn() and pendingFetches.set.
Start(c) ==
  /\ pc[c] = "start"
  /\ Goto(c, "fetch")
  /\ EnterPending(c, c)
  /\ CountFetch(c)
  /\ UNCHANGED <<key, timer, leader, outcome, lock, l1, l2, losses>>

\* The fetch of c has settled: c moves on to p, whoever joined it returns r.
Settle(c, p, r) ==
  /\ pc' = [d \in Caller |-> IF d = c THEN p
                             ELSE IF leader[d] = c THEN "idle" ELSE pc[d]]
  /\ outcome' = [d \in Caller |-> IF d = c \/ leader[d] = c THEN r ELSE outcome[d]]
  /\ leader' = [d \in Caller |-> IF leader[d] = c THEN None ELSE leader[d]]

\* l1.set of the fetched value.  A null is stored over whatever was there and
\* is never found again.
StoreL1(c, null) ==
  l1' = IF null THEN WithoutKey(Home[c], key[c]) ELSE WithKey(Home[c], key[c])
StoreL2(c, null) == l2' = IF null THEN l2 \ {key[c]} ELSE l2 \cup {key[c]}

MaybeNull == IF "null" \in Faults THEN BOOLEAN ELSE {FALSE}

\* The origin answers and this.set begins: without a connected L2 it runs to
\* the write of L1, else to the await on l2.set.
Fetched(c) ==
  /\ pc[c] = "fetch"
  /\ \/ HasL2 /\ Settle(c, "store", "value") /\ UNCHANGED l1
     \/ /\ ~HasL2 \/ RedisFails
        /\ Settle(c, "stored", "value")
        /\ \E null \in MaybeNull : StoreL1(c, null)
  /\ UNCHANGED <<key, timer, pending, lock, l2, losses, fetches>>

\* Bug: no finally around the fetch.
FetchFailsKeepsPending(c) ==
  /\ "reject" \in Faults
  /\ pc[c] = "fetch"
  /\ Settle(c, "release", "error")
  /\ UNCHANGED <<key, timer, pending, lock, Caches>>

\* The origin rejects; `finally' takes the entry out of pendingFetches.
FetchFails(c) ==
  /\ "reject" \in Faults
  /\ pc[c] = "fetch"
  /\ Settle(c, "release", "error")
  /\ EnterPending(c, None)
  /\ UNCHANGED <<key, timer, lock, Caches>>

\* l2.set is done, L1 follows.
Store(c) ==
  /\ pc[c] = "store"
  /\ \E null \in MaybeNull : StoreL2(c, null) /\ StoreL1(c, null)
  /\ Goto(c, "stored")
  /\ UNCHANGED <<key, timer, leader, outcome, pending, lock, losses, fetches>>

\* l2.set has no fallback: the value the origin delivered is thrown away.
StoreFails(c) ==
  /\ RedisFails
  /\ pc[c] = "store"
  /\ \/ UNCHANGED l2
     \/ \E null \in MaybeNull : StoreL2(c, null)
  /\ Goto(c, "release")
  /\ Decide(c, "error")
  /\ EnterPending(c, None)
  /\ UNCHANGED <<key, timer, leader, lock, l1, losses, fetches>>

\* The `finally' after a successful set.
Stored(c) ==
  /\ pc[c] = "stored"
  /\ EnterPending(c, None)
  /\ Goto(c, "release")
  /\ UNCHANGED <<key, timer, leader, outcome, lock, Caches>>

-----------------------------------------------------------------------------
(***************************************************************************)
(* Without the lease: after waitTimeMs the cache is looked up a last time, *)
(* then the call goes to the origin on its own and stores nothing.         *)
(***************************************************************************)

LastLookUp(c) ==
  /\ pc[c] = "timedout"
  /\ LookUp(c, "idle", "last", "alone")
  /\ Restart(c)

LastAnswer(c) == pc[c] = "last" /\ Answer(c, "idle", "alone") /\ UNCHANGED timer

StartAlone(c) ==
  /\ pc[c] = "alone"
  /\ Goto(c, "direct")
  /\ CountFetch(c)
  /\ UNCHANGED <<key, timer, leader, outcome, pending, lock, l1, l2, losses>>

FetchedAlone(c) ==
  /\ pc[c] = "direct"
  /\ \E r \in {"value"} \cup (IF "reject" \in Faults THEN {"error"} ELSE {}) : Return(c, r)
  /\ UNCHANGED <<key, leader, Shared>>

-----------------------------------------------------------------------------
(***************************************************************************)
(* Time, and what happens to the entries meanwhile.                        *)
(***************************************************************************)

\* Bug: a lease that has run out is still in the way.
AgedNeverDropped(e) ==
  [holder |-> e.holder, left |-> IF e.left > 0 THEN e.left - 1 ELSE 0]

\* A lease that has run out is gone: Redis drops it (PX), InMemoryLock before
\* anyone looks (cleanup).
Aged(e) == IF e.left > 1 THEN [holder |-> e.holder, left |-> e.left - 1] ELSE Free

\* The timers that run.
Timed == Waiting \cup Critical \cup {"timedout", "direct"}

\* The origin answers within MaxFetch ticks; a MaxFetch of at least Horizon
\* puts no bound on it.
OriginInTime ==
  \A c \in Caller :
    pc[c] \in {"fetch", "direct"} => timer[c] < MaxFetch \/ MaxFetch >= Horizon

Tick ==
  /\ Prompt => \A c \in Caller : pc[c] \in Resting
  /\ OriginInTime
  /\ timer' = [c \in Caller |-> IF pc[c] \in Timed /\ timer[c] < Horizon
                                THEN timer[c] + 1 ELSE timer[c]]
  /\ pc' = [c \in Caller |-> IF pc[c] = "sleep" THEN "wake" ELSE pc[c]]
  /\ lock' = [i \in Place \X Key |-> Aged(lock[i])]
  /\ UNCHANGED <<key, leader, outcome, pending, l1, l2, losses, fetches>>

\* An entry expires, is evicted or is deleted.  (External: LRUCache, Redis.)
LoseL1(s, k) ==
  /\ losses < MaxLosses
  /\ k \in l1[s]
  /\ l1' = WithoutKey(s, k)
  /\ losses' = losses + 1
  /\ fetches' = IF HasL2 THEN fetches ELSE [fetches EXCEPT ![<<s, k>>] = 0]
  /\ UNCHANGED <<pc, key, timer, leader, outcome, pending, lock, l2>>

LoseL2(k) ==
  /\ losses < MaxLosses
  /\ k \in l2
  /\ l2' = l2 \ {k}
  /\ losses' = losses + 1
  /\ fetches' = [fetches EXCEPT ![<<Redis, k>>] = 0]
  /\ UNCHANGED <<pc, key, timer, leader, outcome, pending, lock, l1>>

\* The steps a call takes by itself once it has been made.
Step(c) ==
  \/ FirstAnswer(c) \/ Check(c) \/ SetNX(c) \/ AcquireFails(c) \/ Wake(c)
  \/ Recheck(c) \/ RecheckAnswer(c) \/ Start(c)
  \/ Fetched(c) \/ FetchFails(c) \/ Store(c) \/ StoreFails(c) \/ Stored(c)
  \/ Release(c) \/ ReleaseFails(c)
  \/ LastLookUp(c) \/ LastAnswer(c) \/ StartAlone(c) \/ FetchedAlone(c)

Next ==
  \/ \E c \in Caller : Step(c) \/ \E k \in Key : Call(c, k)
  \/ \E k \in Key : LoseL2(k) \/ \E s \in Server : LoseL1(s, k)
  \/ Tick

Spec == Init /\ [][Next]_vars

\* The event loop runs what is ready, Redis answers or the client rejects, the
\* origin answers (assumed: getOrFetch puts no bound on it), time passes.
FairSpec == Spec /\ WF_vars(Tick) /\ \A c \in Caller : WF_vars(Step(c))

-----------------------------------------------------------------------------

TypeOK ==
  /\ pc \in [Caller -> PC]
  /\ key \in [Caller -> Key]
  /\ timer \in [Caller -> 0 .. Horizon]
  /\ leader \in [Caller -> Caller \cup {None}]
  /\ outcome \in [Caller -> {"none", "value", "error"}]
  /\ pending \in [Server -> [Key -> Caller \cup {None}]]
  /\ lock \in [Place \X Key -> {Free} \cup [holder : Caller, left : 1 .. LockTtl]]
  /\ l1 \in [Server -> SUBSET Key]
  /\ l2 \subseteq Key
  /\ losses \in 0 .. MaxLosses
  /\ fetches \in [Place \X Key -> 0 .. 2]

\* The lease is exclusive for as long as it runs: of two calls that both got
\* the lock of one key, at least one has outlived its ttlMs, whatever crashes
\* of commands, timeouts and late releases happened (a release by a call whose
\* lease ran out must not free the next one's).
LockExclusion ==
  \A c, d \in Caller :
    c # d /\ pc[c] \in Critical /\ pc[d] \in Critical /\ TheLock(c) = TheLock(d)
      => timer[c] >= LockTtl \/ timer[d] >= LockTtl

\* Nobody can join a fetch that is over: an entry of pendingFetches belongs to
\* a call that is fetching, or storing what it fetched, for this very key on
\* this very server; and whoever has joined a call waits for a fetch that is
\* still to settle.
PendingIsLive ==
  /\ \A s \in Server, k \in Key :
       pending[s][k] # None =>
         /\ pc[pending[s][k]] \in {"fetch", "store", "stored"}
         /\ Home[pending[s][k]] = s
         /\ key[pending[s][k]] = k
  /\ \A c \in Caller : pc[c] = "joined" <=> leader[c] # None
  /\ \A c \in Caller : pc[c] = "joined" => pc[leader[c]] = "fetch"

Fetching == {c \in Caller : pc[c] \in {"fetch", "direct"}}

\* `Distributed lock ensures only one fetch per key under concurrent load'
\* (README): no two origin calls for one key overlap, on any server.
SingleFlight == \A c, d \in Fetching : TheLock(c) = TheLock(d) => c = d

\* However many calls meet, the origin is asked once for every time the entry
\* was lost: whoever waited finds the value the others fetched.
OneFetchPerMiss == \A i \in Place \X Key : fetches[i] <= 1

\* `Graceful degradation -- continues on L1-only if Redis goes down' (README):
\* as long as the origin answers, no call of getOrFetch rejects.
Degrades == \A c \in Caller : outcome[c] # "error"

\* Every call of getOrFetch settles: waiting for the lock is bounded, the
\* fetch a call has joined is settled by its leader, and no pendingFetches
\* entry or orphaned lease keeps calls waiting for ever.
CallsSettle == \A c \in Caller : pc[c] # "idle" ~> pc[c] = "idle"

=============================================================================
