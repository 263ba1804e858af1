# A TLA+ development of multi-level-cache

This directory specifies the cache in `src/src`, model-checks it with TLC and proves
theorems about it with TLAPS. `PROJECT.json` lists the runs, the source lines behind
every definition, the hazards, the findings and the theorems. All paths below are
relative to `src/src`.

## 1. The system

| Component | State | Operations | Interacts with |
|---|---|---|---|
| `CacheManager` (`core/cache-manager.ts`) | `pendingFetches`, the choice of lock | `get`, `getOrFetch`, `set`, `delete`, `invalidate`, `deleteByPattern`, `deleteByType`, `refresh`, `has`, `clear`, `warmup`, `connect`, `disconnect` | calls everything below |
| `LRUCache`, L1 (`l1/lru-cache.ts`) | a `Map` and a doubly linked list, TTLs | `get`, `set`, `delete`, `has`, `clear`, `keys`, `entries`, `mget`, `mset` | eviction events to listeners |
| `RedisCache`, L2 (`l2/redis-cache.ts`) | connection, subscriber, listeners | the same, `deleteByPattern`, `subscribeToInvalidations`, `publishInvalidation`; `execute` decides between fallback and rejection | Redis; Pub/Sub to all servers |
| `RedisConnection` (`l2/redis-connection.ts`) | client, state | `connect`, `disconnect`, `ping`, events of the client | ioredis |
| `DistributedLock`, `InMemoryLock` (`strategies/stampede-protection.ts`) | leases with owner and expiry, in Redis or in a `Map` | `tryAcquire`, `acquire` (polling), `release`, `withLock` | Redis, timers |
| `InvalidationManager`, `TypeRegistry` (`strategies/invalidation.ts`) | keys registered per type, subscription | `invalidate`, `invalidateByPattern`, `invalidateByType`, `clear`, message handler | L1, L2, other servers |
| `StatsCollector` (`stats/collector.ts`) | counters, latency windows | one `record...` per event, `getStats`, `reset` | called by `CacheManager` |
| serializer, cache keys (`core/`) | none | pure functions | L2; decorators |
| decorators (`decorators/`) | none | compositions of `getOrFetch`, `set`, `invalidate` | `CacheManager` |

A server is one JavaScript process with one `CacheManager`: code runs without
interruption between two `await`s, and what can interleave are calls that wait for
Redis, for the origin or for a timer. Servers share Redis, as L2, as the place of the
distributed locks and as the channel of invalidation messages.

What is hard, and what makes each component correct:

* **L1.** Pointer surgery over long call sequences. List and map must agree, the list
  must be in order of use, the size bounded, the loops finite.
* **getOrFetch.** Reads before an `await` that are used after it; leases that run out
  under their holder; polling with a timeout; commands that fail half way. A running
  lease must be exclusive, a pending entry must stand for a live fetch, every call must
  settle, a miss should cost one fetch.
* **Reads and writes against deletions, over several servers.** Replies overtaken by
  messages, fills that race with deletions, registrations removed too late. L1 must not
  go back in time, a broadcast must reach what it can reach, deletion by type must be
  complete.
* **Connection.** A first `connect` that fails and a second that finds the leftover; a
  `quit` that rejects; late events of an old client; retries that end. The state must not
  claim a connection there is not, nothing may be left open, every call must settle.
* **Decorators, keys, values.** Each decorator makes its keys on its own, and what a
  change removes must be what a read is answered from; a read may be overtaken by a change.
  Keys of different methods and arguments must differ, both tiers must give one value.
* **Statistics.** Window bounds, percentile indices, counters that belong together but
  are counted in different steps of a call, with resets between.

`PROJECT.json` lists the single hazards with their source lines and properties.

## 2. Modules

| Module | Models | Shape |
|---|---|---|
| `LRUPolicy` | what L1 promises: which key leaves, when and announced how | abstract specification, no list |
| `LRUCache` | `l1/lru-cache.ts` | list operations are functions from list to list; a call is one step, each iteration of a loop one more. Nodes are named by keys, values left out, `used` and `uses` are history. Implements `LRUPolicy` |
| `GetOrFetch` | `getOrFetch` with both locks | one program counter per call; a step is one stretch of code between two `await`s, `HasL2` chooses the mode |
| `Coherence` | the other operations, on several servers | each server has one wire of commands (sent, executed, answered in order), an inbox of messages, its own L1 and registry |
| `MonotonicReads` | what `get` promises about the values of one L1 | abstract specification; `Coherence` implements it (`ReadsAreMonotonic`), `latest` being the number of writes and `copy` the L1s |
| `Connection` | `connect` and `disconnect` through `CacheManager`, `InvalidationManager`, `RedisCache` and `RedisConnection` | calls wait for numbered clients; a client connects, is ready, loses its connection, retries, ends. What a promise does when it resolves is part of the step that resolves it |
| `CacheKey` | `core/cache-key.ts` | a text is the sequence of its parts between colons |
| `Serializer` | `core/serializer.ts` | values are trees; `preProcess`, `JSON.stringify` and the reviver are recursive operators |
| `Methods` | the decorators, over `CacheKey` | a service with reading and changing methods over a database of versions; each cache operation is one step. What methods return and what serialization makes of it are constants |
| `Percentile`, `StatsCollector` | `stats/collector.ts` | pure figures, `sort` being any order of the indices in which the samples ascend; counters and windows under concurrent gets and resets |
| `MCLRUCache`, `MCGetOrFetch`, `MCCoherence`, `MCConnection`, `MCMethods` | instances for TLC | model values, homes of the calls, symmetry; `MCMethods` gives services, values and `Serializer` for their serialization |
| `MCGetOrFetchOnce` | both modes of `GetOrFetch` in one run | L1-only mode is an instance with other constants, over the same variables; the first state chooses |
| `LRUCacheProofs`, `GetOrFetchProofs`, `CoherenceProofs`, `ConnectionProofs`, `MethodsProofs`, `StatsCollectorProofs` | theorems about the module of that name | TLAPS |
| `GetOrFetchOnceProofs` | one fetch at a time and one per loss, where nothing fails | TLAPS, over `GetOrFetchProofs` |
| `CoherenceOneServerProofs` | what holds of `Coherence` on one server only | TLAPS, over `CoherenceProofs` |

Correspondences worth knowing:

* `LRUCache`: `left[k] = 0` reads `expiresAt <= now`. `EvictTail` is one turn of
  `while (this.map.size >= this.maxSize)`.
* `GetOrFetch`: values are present or absent. The clock ticks once per
  `retryIntervalMs`; `timer` counts from the start of waiting, from taking the lease, or
  from the direct fetch. With `Prompt`, a tick waits for everything that is ready to
  run, which is right where faults and slowness are not the question; without it,
  commands and the event loop may be arbitrarily slow. `LoseL1` and `LoseL2` stand for
  every way an entry goes (expiry, eviction, deletion).
* `Coherence`: a value is the rank of the write that stored it, in Redis's order.
  ioredis sends a server's commands over one connection and resolves their promises in
  order, and the continuations of `get` and `set` up to their write of L1 are equally
  long; so what a reply does to L1 is part of handling it. The subscriber is a second
  connection. `cut`, carried by a message, is the last rank before the broadcaster's
  `DEL`: the values the broadcast is meant to remove. `offline`, `seen`, `purged`,
  `overtaken` and `late` are history. Every key is stored with one type (`TypeOf`), as
  applications do; `"peek"` is a `get` without a type, `"put"` a broadcasting `@CachePut`
  (`invalidate`, then `set`). A closed connection puts commands without a reply
  back, those Redis has executed included (`autoResendUnfulfilledCommands`, the client's
  default); `"down"` marks a command issued while not connected, which fails at once.

* `Connection`: `retryStrategy` and `maxRetriesPerRequest` are numbers here. `on` is the
  client a call waits for, `turn` its place in that client's queue (`NextTurn`: one more
  than the greatest there, so that only finitely many calls may wait, `CallAssumption`). `tangled` records that
  calls overlapped, `stale` that an event of a client that is no longer the current one
  set the state last, `last` how the last call ended. A client is modelled as ioredis
  behaves with the given options: a first `connect()` rejects when the connection closes,
  and the client retries nevertheless; `quit` on a client without connection and without
  commands resolves at once, on one that ended it rejects; commands are flushed every
  `RequestRetries + 1` attempts and at the end.
* `GetOrFetch`: a GET that fails is answered as a miss, or, with the failure strategy
  `throw` (`"throw"` in `Faults`), rejects the lookup and the call with it.
* `StatsCollector`: a get is a step when it is called (`Get`, which counts it), one when L1
  has answered (`AnswerL1`) and, if it then finds L2 connected, one when L2 has answered or
  rejected (`AnswerL2`, `RejectL2`); a reset may come between any two. `missed`, `unasked`,
  `rejected` and `across` are history.
* `Percentile`: `percentile` computes `Math.ceil((p / 100) * length)` with doubles. For 50,
  95 and 99, the only values passed (`Percents`), that is the exact ceiling, which
  `CeilPercent` is: 0.5 is exact, 0.95 and 0.99 are closer to their doubles than rounding
  can make a whole product differ. For other percentages it need not be (7 of 100 samples
  gives the 8th), and nothing is claimed of them.
* `Methods`: `style` says which decorators the service has; `raced` are the keys last
  stored by a call that had its version before a change of its id had finished and stored
  it afterwards. `Query` and the steps of `getOrFetch` are coarse: their interleavings are
  those of `GetOrFetch`, and those of single commands those of `Coherence`.

How they would be composed: `GetOrFetch` and `Coherence` both look at L1 as a map from
keys to values, which is what `LRUCache` is shown to keep (`Linked`, `LRUPolicy`); an
eviction or expiry is their `LoseL1`.

## 3. Runs

| Run | Question | Result |
|---|---|---|
| `lru` | types, list against map, recency, size, LRU policy; loops end | holds; 4 keys, 3 entries, TTLs 0 and 1, 6 uses |
| `fetch_faults` | lease exclusion, live pending entries and settling of every call, under every fault, GETs that throw included | holds; lease 1 tick, wait 1, so leases run out and waiters give up; one loss |
| `fetch_once` | one fetch at a time, and per loss, in both modes | holds for a prompt origin; 3 calls, 2 keys, 2 servers and 3 losses, or one server and one loss |
| `fetch_outage` | degrading to L1 | violated: finding |
| `servers` | monotonic reads; what a broadcast removes; under one rejection, lost message or outage | holds; 3 calls, 2 servers, 2 writes |
| `one_server` | on one server, for all operations: L1 and L2 agree at rest, `deleteByType` finds every key but for the two excused causes, every call returns | holds; 2 calls, 2 keys, one typed |
| `delete_and_fill` | a deleted value is gone from the own L1 | violated: finding |
| `connection` | state, leftovers, clients lost sight of or mistaken across an await, equipment of a first connect; calls settle, the state comes back | holds; 2 calls at once, 4 in all, 4 clients, 2 faults |
| `connection_equipped` | any resolved connect leaves lock and subscriber | violated: finding |
| `methods` | right results, equal tiers, only races are stale, for decorators that match | holds; 3 calls, 3 services, 2 changes of each id, 2 losses |
| `methods_readme` | the same for the decorators of the README | violated: finding |
| `stats` | windows, percentiles, counters, combined hit rate | holds; 2 gets at once, 5 operations and any resets, L2 connected, not connected or rejecting |

**Bounds.** One key more than `maxSize` makes sets evict; three callers are a holder, one
that waits and one that comes when the lease has run out. In `fetch_faults` a lease
is as short as a wait, so that it runs out under its holder and waiters give up, and one
entry is lost; null values and failed writes keep the key absent besides. For its three
safety properties the theorems below need no bound. In
`fetch_once` `WaitTime` exceeds the polls a caller can lose to one fetch and to the
momentary locks of the others' rechecks: polling is unfair, and with enough losses of the
entry a caller would run into its timeout even with a prompt origin, and `SingleFlight`
would fail. `MaxLosses`, `MaxWrites`, `MaxMessages`, `MaxFaults`, `MaxOps` and `MaxUses`
bound what would grow without end; each appears as a guard. Two writes are an old and a
new value, and a broadcast starts only if its message will find room (`Quiet`). In
`Coherence` symmetric are only calls of one server. The windows of `stats` are two
latencies long: what matters at other lengths is the percentile's index, and that is
proved for all of them. Every request is sampled there, as it is by default; with a lower
rate the counters are estimates, and nothing exact holds between them. Two gets at once are
one that a reset overtakes and one that begins after it; every get finds L2 connected or not
anew. `CountersAddUp` counts the gets a reset overtook by the layer they waited for
(`across`): their later halves are counted and their earlier ones forgotten, and no other
imbalance exists. `OverallHitRate` excuses the time since a get has missed without L2
(`unasked`), and nothing else.

In `connection` a client gives up after two failed attempts and flushes its
commands every second one, so that both happen within two faults (Redis may also be down
from the start); every connect may make two clients. A second connect after a failed one,
a disconnect between, and a client that ends under either fit into four calls. In
`methods`, three calls are a reader that fetches, one that joins and a change; the three
services share arguments, have two methods, or cache under the id alone. Two changes of an
id are one that overtakes a read and one that overtakes the first. The results have dates, big integers, maps, sets and `undefined` where those survive.

**Fairness.** `LRUCache`: a loop that runs goes on, JavaScript does not suspend it.
`GetOrFetch`: time passes; each call makes the step it is ready for, which says that the
event loop runs, that Redis answers or the client rejects (`maxRetriesPerRequest`), and
that the origin answers. The last is an assumption: `getOrFetch` puts no bound on
`fetchFn`, and a `fetchFn` that never settles keeps all callers that joined it waiting.
`Coherence` (`one_server`): Redis executes, replies are handled, origins answer; nothing
says that entries are lost or that calls are made. `Connection`: a socket that opens is
answered or closed, timers fire, a ready client answers while Redis is up; Redis may stay
down for ever, and no further call needs to come.

## 4. Proofs

Every theorem is about `Spec` and all values of the constants that the named assumptions
admit (sets of the right kind, positive lease times, finitely many calls of `Connection`,
texts that are not empty in `Methods`);
the hypotheses some theorems add are given below. `PROJECT.json` lists the theorems with
the properties of the runs they state.

### `LRUCacheProofs`

The invariant `IInv` is `StoreTypes`, `LoopTypes`, `Linked`,
`RecencyOrder` and `SizeBound` together: none is inductive alone. A removal keeps the
list threaded only because predecessor and successor undo each other; the tail is the
least recently used key only because the list is in order and complete, by the lemma
`TailIsOldest`, which needs that a finite nonempty set of keys has an oldest one; the
size bound needs that a set in progress holds a key not yet in the map. Each list
operation has a lemma (`RemoveNodeThreads`, `AddToHeadThreads`, `MoveToHeadThreads`,
`RemoveTailIsRemoveNode`, `ForgetThreads`), and each action a step. From the invariant
follow the five theorems, among them the refinement: every step of the list is a step of
`LRUPolicy`, for every key set, `maxSize` and set of TTLs, with `maxSize = 0` included
(the loop then spins, safely).

### `GetOrFetchProofs`

`TypeCorrect`; `PendingFetchesAreLive`, by the invariant that an
entry names a call of that server and key that is fetching or storing, that no one joins
but a fetching call, and that entries are set only by a caller that holds a lease;
`LeasesExclude`, by the invariant `LeaseHeld`: a caller in the locked part whose lease
has not run out is the recorded holder, with exactly the time left that its timer says.
All hold for every number of callers, servers and keys, every lease and wait time, in
both modes and with all faults.

### `GetOrFetchOnceProofs`

`FetchesAlone` (`SingleFlight`) and `FetchesOnce` (`OneFetchPerMiss`), in both modes, for any
finite number of calls, servers and keys. The hypotheses are in `Calm`: no faults, a prompt
scheduler, an origin that answers before the lease runs out (`MaxFetch < LockTtl`), and

    (MaxLosses + 1) * (2 * Cardinality(Caller) + MaxFetch + 1) < WaitTime

in ticks of `retryIntervalMs`. Each is needed: without the first three a lease runs out
under its holder, or a call fails; and a caller whose wait is over goes to the origin
without the lock. Ten concurrent calls, an origin of 20 ticks and one loss while they wait
need a wait of 83 ticks.

The last hypothesis is the heart of the proof. The lock is not fair, so a caller may lose
every poll; that it does not lose too many must come from the others. It loses one to each
tick of a fetch, and one to each caller that takes the lock, finds the value and leaves.
Each of those missed the cache before the value was there, so within one round (between
two losses of the entry) it takes the lock once and never comes back. `Spent` counts these
polls from the state alone, without a history variable: while the value is missing, the
callers that are no longer to come and the age of the fetch; once it is there, the callers
that no longer wait. It is between 0 and `Round` (`SpentRange`), no step of a call makes it
less, one that takes a free lock makes it more (`SpentStep`), and so does a tick of a fetch
(`PatientTick`); a loss may put it back to 0, and begins a new round. The invariant
`Patient` bounds what each waiting caller has lost by the rounds that are over and `Spent`;
so its timer never reaches `WaitTime`. With nobody giving up, `Orderly` carries the rest: who
holds a lock is the only one under it, who fetches found nothing, and a fetch since the last
loss is under way or has left its value. TLC checked both invariants on small instances of
both modes first.

The bound is sufficient, not tight: in `fetch_once` L1-only mode has the shortest wait the
theorems admit, the mode with Redis a shorter one, and both hold.
`MaxLosses` bounds the losses of a whole behaviour; what delays a caller are those while it
waits.

### `CoherenceProofs`

For every number of servers, calls and keys, and with every fault: the types, what a
broadcast purges on any server (`BroadcastsPurge`) and on its own
(`OwnBroadcastPurgesAll`), and the refinement of `MonotonicReads`
(`EachL1ReadsMonotonically`).

The model has many actions, and few ways of moving values. So each action is first shown
to be of one of a few kinds (`StepKinds`): nothing moves, a reply is taken into L1, a
value is written to L1 alone, a message is delivered, an entry is lost, or Redis executes
a command. The invariant is then kept kind by kind. It follows a value on its way:

* `Marks`: only an executed command has a rank, and commands are executed in their order
  on the wire. Hence `InOrder`: a later reply brings no older value of a key than an
  earlier one, and none from before an earlier `DEL`.
* `Newest`: what Redis holds is no older than what anyone has read or is to read, and newer
  than what any `DEL` that is to be told of has deleted. It makes a reply that Redis gives
  now safe against all that happened before.
* `Replies`: what a reply on the wire brings is no older than what its server has seen, is
  from after the `DEL` the server is telling of, and if a message has purged it, that has
  been recorded (`overtaken`). It makes the step in which L1 takes it safe.
* `Copies`: a shared value in L1 is the last one seen. `Bounded`: no rank is from the
  future, so a new write is newer than everything.

`OwnBroadcastIsLast` needs the last part of `Replies`: a reply behind the server's own
`DEL` on the wire is from after it, so its own message, which comes later, removes nothing
newer and leaves nothing older.

### `CoherenceOneServerProofs`

Under the hypotheses that there is one server, that no command rejects and that its
connection stays up. They are needed: with two servers, a change by the other one leaves L1 behind until
the TTL, and a set made while Redis is down or rejects writes L1 only; the code promises
no agreement then.

`OneServerAgrees` (`CopiesAgree`): while calls are under way L1 may hold, and take, an older
value than L2's. The invariant `Agree` says that then a reply with the value of L2 is still
to come, and by `InOrder` it comes last. `OneServerRegisters` (`RegistryCovers`): the
invariant `Covers` says that a stored key of a type is registered, or excused by `late`, or
not in L1 and in the hands of a call on the wire that is yet to register or to delete it
(`Pending`).

### `ConnectionProofs`

For any finite set of calls, any number of retries, and all bounds. `Inv` ties calls,
clients and references together: a call under way waits for a client that was made, and
what it waits for is what `this.client` or `this.subscriber` refers to, or has gone
(`Holds`, which is `AwaitedIsHeld`); a client not referred to has gone (`NetsFit`, which
is `NoneLeaked`); at most one call has been answered at once; and there is room for the
subscribers of the connects that wait (`Room`). The first two rest on each other: a
disconnect sets a reference to null when the client it awaited has gone, which is safe only because that
client is the one referred to; and it is, because references change only when their
client has gone. Both hold however calls overlap: after two disconnects at once, for
example, the second drops the reference of a client that has gone already.

`StateIsTrue`: the handlers that set the state fire on the steps that change the
connection. `NothingLeft` and `FirstConnectEquips` speak of calls that never overlapped
(`~tangled`). They follow from `Lone`: then at most one call is under way, a connect that
subscribes has put the lock on the current client, a disconnect that waits for the client has
no subscriber left, and one that ended leaves neither. The client's own connection is
closed by `NetsFit`.

### `MethodsProofs`

For any number of calls, methods, arguments and ids, any texts of arguments, any values and
any serialization. `Typed` holds of every service: whatever the decorators, the key of every
copy begins with the type, which is why deletion by pattern and by type can reach it. For
this `buildKeyFromArgs` joins texts with the library's `FlattenSeq`, a recursive function
that had to be shown to exist (`FlattenUnfolds`, by the least index at which two attempts
differ); then `FlattenedParts` tells the parts of the text it makes.

What a service must have for the rest is stated as hypotheses on its values and
keys, and each theorem takes only those it needs:

* `ValuesSurvive`: results come back from serialization unchanged, so that it does not
  matter from which tier a copy is read. Both theorems below take it. That the library's
  serializer meets it is not proved: that is what the runs check (`TiersAgree`, with the
  `Serializer` module).
* `KeysTellApart`: whatever a call can store under the key of a read is of the same id and
  is what that read returns. Then every answer is a result of its own method and arguments
  (`AnswersAreResults`), by the invariant `Sourced`: each copy, in either tier, came from
  such a call.
* `ChangesReach`: a change goes by type or pattern, or makes the key of every read of its
  id. Then only races leave stale copies (`StaleByRacesOnly`).

The last is the hardest. A stale copy must be traced to a call, and a call knows only the
version it read. `CallsKnown` says that a call with an old version has been crossed, or
that the change which wrote the present version has yet to reach the cache (`Pending`);
so what a call stores is current, or marked `raced`, or will be followed by that change.
`Covered`, that every stored key is registered, is needed for deletion by type: otherwise it
would leave copies behind. (Here an operation is one step. Within one, the registry may
lag, which is the subject of `RegistryCovers`.) `OnlyRacesAreStale` is then kept read by
read (`FreshStep`).

The hypotheses are not left hanging. `BuiltKeysDiffer`: without colons in the texts,
`buildKeyFromArgs` is injective in method and arguments. `ServicesThatFit`: reads by built
keys with changes by type or pattern, and reads of one method by the id alone with changes of
that key, have `KeysTellApart` and `ChangesReach`; the three services of the run `methods`
are of these two kinds. `KeyedChangesMiss`: the combination of the README has not, for any
method and argument; finding 4 does not depend on the instance TLC found it in.

### `StatsCollectorProofs`

`PercentileIsNearestRank`: for `p` among 50, 95 and 99, `ceil(p n / 100)` is an index of the
window (`RankInWindow`); that many samples of a sorted window stand at or below the sample
there, so it covers `p` percent; and below a smaller sample there are fewer.
`PercentileOfWindow` says the same of a window as it is recorded, sorted first: an order
of any window exists (`HasOrder`), and sorting changes no count of samples (`SortedIs`).

The rest is for windows of any length and any number of gets that overlap with each other
and with resets. `WindowsHoldTheLast`: each window is the last `MaxSamples` entries of the log that
belong to its layers; the invariant is the property itself, and the work is in `HoldsLast`
under appending (`SameLayer`, `OtherLayer`). `PercentilesAreNearestRank` combines the types
with `PercentileOfWindow`. `CountersBalance` has the hypothesis that every request is
sampled. It needs that only finitely many gets wait, each with one record: a get that moves
on from L1 to L2 takes one from the first number and adds one to the other (`OneMovesOn`).
Each step then keeps the two equations, what L1 was asked and what L2 was asked; a reset makes
both anew from the gets that wait. `HitRateIsOverall` has the same hypothesis, and the
invariant that the misses of L2 and the gets that found L2 not connected are together the
gets that found nothing.

### What is not proved

Every safety property that a passing run checks is a theorem, `TiersAgree` excepted. What is
left to TLC:

* Liveness under fairness (`CallsTerminate`, `CallsSettle`, `CallsReturn`, `Reconnects`),
  which is out of the prover's reach.
* What `Serializer` computes: its operators are recursive over trees of values, and the
  prover has no induction over data. So `TiersAgree`, which is a matter of the serializer
  alone, is model-checked only, and in `MethodsProofs` it follows from the hypothesis
  `ValuesSurvive` (lemma `TiersAreEqual`). `RightResult` and `TiersAgree` fail in the run
  `methods` when a value comes back changed.
* That texts have no colons and tell arguments apart are facts about an application:
  `NoColons` and `TextsDiffer` are hypotheses, true of ids that are numbers or words.

Where a proof needs induction over data, it is one over the strict inclusion of finite subsets
of a fixed set, or over the order of the naturals, whose well-foundedness the library states
without an operator parameter (`FS_StrictSubsetOrderingWellFounded`,
`NatLessThanWellFounded`, `WFMin`): so a set of numbers has a least member, a finite one a
greatest (`Least`, `LeastNumber`, `MaxInSet`), every window has an order, and the texts of a
list are joined.

## 5. Findings

1. With Redis failing, `getOrFetch` rejects, and drops a value it has fetched
   (`core/cache-manager.ts:261`, `:286`), against "continues on L1-only".
2. On one server, a get that read L2 before the `DEL` restores the deleted value before
   `delete` or `invalidate` returns (`strategies/invalidation.ts:109`).
3. After a rejected first `connect`, a second one finds the client and resolves without
   upgrading the lock or subscribing; the client then connects in the background, and the
   cache stays with the in-memory lock and hears no invalidations
   (`l2/redis-connection.ts:76`).
4. The decorators as the README combines them do not meet: `getUser` is cached as
   `user-profile:getUser:1`, and `deleteUser` and `updateUser` touch `user-profile:1`
   (`decorators/cache-invalidate.ts:71`, `decorators/cache-put.ts:61`). So it is for all
   methods and arguments (`KeyedChangesMiss`).

Three more disagreements show up as the excuses of properties, without a run of their
own. A caller that has waited 10 s fetches beside a running fetch
(`core/cache-manager.ts:273`, whose comment says so, against "only one fetch per key" in
the README): `SingleFlight` holds only for a prompt origin. `invalidate` unregisters after
its awaits, so a copy cached meanwhile is unknown to `deleteByType`
(`strategies/invalidation.ts:124`): `late` in `RegistryCovers`. Without L2, or while it is not
connected, the combined hit rate counts no misses (`stats/collector.ts:257`), against
"overall hit rate" in `types/stats.types.ts`: `unasked` in `OverallHitRate`.

What holds in their neighbourhood: on the broadcaster's own server a broadcast leaves
nothing of what it purged (`OwnBroadcastIsLast`); on another server only a value whose
reply was under way when the message came survives it (`BroadcastPurges`), because `get`
fills L1 with what it read before the message (`core/cache-manager.ts:184`); and L1 never
returns to a value older than one it has held, values written without Redis aside
(`ReadsAreMonotonic`). A `connect` that makes its client and resolves equips the cache
(`FirstConnectEquips`), and with decorators whose keys match only overtaken calls leave
stale copies (`OnlyRacesAreStale`).

## 6. Not modelled

`skipL1`, `skipL2` and TTL values across tiers (an entry may go at any time); `mget`,
`mset`, `warmup` (loops over modelled operations) and `keys` of L2 (called by nothing);
throughput and averages; plain counters; eviction listeners that call back into the store;
`ping`, which only reads. The failure strategy `bypass` is treated by the code like
`use-l1`, and so it is here. Type and pattern messages have a handler, but `CacheManager`
never publishes them. Keys have one type each. Texts with colons in them collide in
`buildKey` by construction (`NoColons` excludes them), and objects that imitate a marker, and
fields that are `undefined`, change in the serializer (`ValuesSurvive` does, and the runs
cache none). Crashes of a server: nothing is persisted but L2 and leases, and a lease whose
holder vanished is covered by a lost reply to `SET NX`, which also leaves it to run out. `Connection` and
`Coherence` are not composed: `Coherence` knows only whether a server is connected, and
what `Connection` shows of the state (`ConnectedIsTrue`, `Reconnects`) is what it relies
on. Types and the public index have no behaviour.

## 7. Where to go on

* Compose `GetOrFetch` and `Coherence`: a fetch that stores beside deletions on other servers,
  where today each looks at the other's steps as losses of an entry.
* Prove that `Serializer` returns the trees without markers and undefined fields unchanged,
  once a prover with induction is at hand; `ValuesSurvive` would follow.
* Keys of several types, and messages for types and patterns, when the code publishes them.
