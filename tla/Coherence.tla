------------------------------ MODULE Coherence ------------------------------
(***************************************************************************)
(* Several servers with a CacheManager each, over one Redis: get, set,     *)
(* delete, invalidate (with and without broadcast), refresh, deleteByType, *)
(* deleteByPattern and clear, the write of @CachePut ("put": a broadcast   *)
(* and then a set), and the invalidation messages.                         *)
(*                                                                         *)
(* A server has one connection to Redis, used by all its calls: Redis      *)
(* executes its commands, and the server handles the replies, in the order *)
(* they were sent.  Messages come to a second connection, in no order with *)
(* the replies.  A step is one stretch of code between two awaits of a     *)
(* command, what L1 and the type registry do is part of it.                *)
(*                                                                         *)
(* A value is the rank of the write that stored it, counted over all keys  *)
(* in the order Redis executes them.                                       *)
(***************************************************************************)
EXTENDS Naturals, Sequences, FiniteSets, SequencesExt

CONSTANTS
  Call,       \* the calls that may be under way at once
  Server, Key,
  Home,       \* Home[c]: the server call c is made on
  Type, NoType,
  TypeOf,     \* the type the application stores each key with
  Operation,  \* the operations the application uses
  Strict,     \* fallback.onL2Failure is 'throw'
  Faults,     \* what may go wrong: "reject", "outage", "message", "origin"
  MaxFaults, MaxWrites, MaxLosses, MaxMessages   \* bounds

ASSUME HomeAssumption == Home \in [Call -> Server]
ASSUME TypeAssumption == NoType \notin Type /\ TypeOf \in [Key -> Type \cup {NoType}]
ASSUME BoundAssumption == {MaxFaults, MaxWrites, MaxLosses, MaxMessages} \subseteq Nat
ASSUME StrictAssumption == Strict \in BOOLEAN

VARIABLES
  call,       \* what each call does and waits for
  l1, l2,     \* the value of each key, 0 if there is none
  registry,   \* typeRegistry: the keys registered with their type
  up,         \* connection.isConnected()
  wire,       \* the commands of each server without a handled reply
  inbox,      \* the messages on their way to each subscriber
  writes, losses, faults,
  \* History:
  offline,    \* the values written while Redis was not connected, to L1 alone
  seen,       \* the last other value each L1 held
  purged,     \* the last write before the DEL of the messages handled
  overtaken,  \* values whose reply was on the wire when a message purged them
  late        \* keys stored, but unregistered after an await or read without their type

vars == <<call, l1, l2, registry, up, wire, inbox, writes, losses, faults,
          offline, seen, purged, overtaken, late>>

Command == {"GET", "SETEX", "EXISTS", "DEL", "PUBLISH", "SCAN"}
Status == {"sent", "ok", "failed", "down"}

\* keys: what the command is about; rest: keys still to delete or to scan;
\* cut: the last write before the DEL.
Idle == [op |-> "none", pc |-> "idle", keys |-> {}, rest |-> {}, type |-> NoType, cut |-> 0]
CallRec == [op : Operation \cup {"none"}, pc : Command \cup {"idle", "fetch", "return"},
            keys : SUBSET Key, rest : SUBSET Key, type : Type \cup {NoType}, cut : Nat]

Sent(c) == [call |-> c, status |-> IF up[Home[c]] THEN "sent" ELSE "down",
            rank |-> 0, keys |-> {}, rest |-> {}]
Entry == [call : Call, status : Status, rank : Nat, keys : SUBSET Key, rest : SUBSET Key]
Message == [key : Key, cut : Nat, from : Server]

Init ==
  /\ call = [c \in Call |-> Idle]
  /\ l1 = [s \in Server |-> [k \in Key |-> 0]]
  /\ l2 = [k \in Key |-> 0]
  /\ registry = [s \in Server |-> {}]
  /\ up = [s \in Server |-> TRUE]
  /\ wire = [s \in Server |-> <<>>]
  /\ inbox = [s \in Server |-> <<>>]
  /\ writes = 0 /\ losses = 0 /\ faults = 0
  /\ offline = {}
  /\ seen = [s \in Server |-> [k \in Key |-> 0]]
  /\ purged = [s \in Server |-> [k \in Key |-> 0]]
  /\ overtaken = [s \in Server |-> {}]
  /\ late = [s \in Server |-> {}]

-----------------------------------------------------------------------------

Fill(s, keys, r) == [l1 EXCEPT ![s] = [k \in Key |-> IF k \in keys THEN r ELSE @[k]]]
Forget(s, keys) == Fill(s, keys, 0)
Registered(s, keys) == [registry EXCEPT ![s] = @ \cup {k \in keys : TypeOf[k] # NoType}]
Unregistered(s, keys) == [registry EXCEPT ![s] = @ \ keys]

\* Call c goes on as r; if that means a command, it follows w on the wire.
Proceed(c, r, w) ==
  /\ call' = [call EXCEPT ![c] = r]
  /\ wire' = [wire EXCEPT ![Home[c]] = IF r.pc \in Command THEN Append(w, Sent(c)) ELSE w]

Begin(c, op, pc, keys, rest) ==
  /\ op \in Operation
  /\ call[c] = Idle
  /\ Proceed(c, [Idle EXCEPT !.op = op, !.pc = pc, !.keys = keys, !.rest = rest],
             wire[Home[c]])

Redis == <<l2, inbox, writes>>
Environment == <<up, losses, faults, offline, purged, overtaken>>

\* Bound: the writes of the calls under way have room left.
Room == writes + Cardinality({c \in Call : call[c].op \in {"set", "refresh", "put"}}) < MaxWrites

\* Bound: the broadcasts under way have room in every inbox.
Quiet == \A s \in Server :
  Len(inbox[s]) + Cardinality({c \in Call : call[c].op \in {"broadcast", "put"}}) < MaxMessages

\* get, with the key's type or without one ("peek").  A hit in L1, and a miss
\* while Redis is not connected, change nothing.
Get(c, k) ==
  \/ /\ l1[Home[c]][k] = 0
     /\ up[Home[c]]
     /\ \E op \in {"get", "peek"} : Begin(c, op, "GET", {k}, {})
     /\ UNCHANGED <<l1, registry, Redis, Environment>>
  \/ /\ call[c] = Idle
     /\ l1[Home[c]][k] # 0 \/ ~up[Home[c]]
     /\ UNCHANGED <<call, wire, l1, registry, Redis, Environment>>

\* The end of set, and all of it while Redis is not connected.
StoreL1(s, keys, r) ==
  /\ l1' = Fill(s, keys, r)
  /\ registry' = Registered(s, keys)

\* The writes of set: call c goes on as r to await L2, or writes only L1.
Store(c, r) ==
  \/ /\ up[Home[c]]
     /\ Proceed(c, r, wire[Home[c]])
     /\ UNCHANGED <<l1, registry, offline, Redis>>
  \/ /\ ~up[Home[c]]
     /\ writes' = writes + 1
     /\ offline' = offline \cup {writes + 1}
     /\ StoreL1(Home[c], r.keys, writes + 1)
     /\ Proceed(c, Idle, wire[Home[c]])
     /\ UNCHANGED <<l2, inbox>>

Set(c, k) ==
  /\ "set" \in Operation
  /\ call[c] = Idle
  /\ Room
  /\ Store(c, [Idle EXCEPT !.op = "set", !.pc = "SETEX", !.keys = {k}])
  /\ UNCHANGED <<up, losses, faults, purged, overtaken>>

\* invalidation.invalidate deletes from L1 and sends DEL; refresh begins with it.
Invalidate(c, k) ==
  /\ \/ Begin(c, "invalidate", "DEL", {k}, {})
     \/ Quiet /\ Begin(c, "broadcast", "DEL", {k}, {})
     \/ Room /\ Begin(c, "refresh", "DEL", {k}, {})
     \/ Room /\ Quiet /\ Begin(c, "put", "DEL", {k}, {})
  /\ l1' = Forget(Home[c], {k})
  /\ UNCHANGED <<registry, Redis, Environment>>

\* delete asks L2 first whether the key exists, unless L1 has it.
Delete(c, k) ==
  /\ \/ /\ l1[Home[c]][k] = 0 /\ up[Home[c]]
        /\ Begin(c, "delete", "EXISTS", {k}, {})
        /\ UNCHANGED l1
     \/ /\ l1[Home[c]][k] # 0 \/ ~up[Home[c]]
        /\ Begin(c, "delete", "DEL", {k}, {})
        /\ l1' = Forget(Home[c], {k})
  /\ UNCHANGED <<registry, Redis, Environment>>

\* deleteByType: the registered keys leave L1 and the registry, then DEL goes
\* out for one after the other.
DeleteByType(c, t) ==
  LET keys == {k \in registry[Home[c]] : TypeOf[k] = t}
      this == [Idle EXCEPT !.op = "byType", !.type = t]
  IN
  /\ "byType" \in Operation
  /\ call[c] = Idle
  /\ \/ /\ keys = {}
        /\ Proceed(c, [this EXCEPT !.pc = "return"], wire[Home[c]])
     \/ \E k \in keys :
          Proceed(c, [this EXCEPT !.pc = "DEL", !.keys = {k}, !.rest = keys \ {k}],
                  wire[Home[c]])
  /\ l1' = Forget(Home[c], keys)
  /\ registry' = Unregistered(Home[c], keys)
  /\ UNCHANGED <<Redis, Environment>>

\* deleteByPattern, for the keys that match: those in L1 go, then a SCAN.
DeleteByPattern(c, match) ==
  LET keys == {k \in match : l1[Home[c]][k] # 0} IN
  /\ Begin(c, "byPattern", "SCAN", {}, match)
  /\ l1' = Forget(Home[c], keys)
  /\ registry' = Unregistered(Home[c], keys)
  /\ UNCHANGED <<Redis, Environment>>

Clear(c) ==
  /\ Begin(c, "clear", "SCAN", {}, Key)
  /\ l1' = Forget(Home[c], Key)
  /\ UNCHANGED <<registry, Redis, Environment>>

-----------------------------------------------------------------------------
(***************************************************************************)
(* Redis executes the next command of a connection.                        *)
(***************************************************************************)

Foremost(s, i) ==
  /\ i \in DOMAIN wire[s]
  /\ wire[s][i].status = "sent"
  /\ \A j \in 1 .. i - 1 : wire[s][j].status # "sent"

Reply(s, i, r, keys, rest) ==
  wire' = [wire EXCEPT ![s][i] = [@ EXCEPT !.status = "ok", !.rank = r,
                                           !.keys = keys, !.rest = rest]]

\* A SCAN visits some of the keys not visited yet, and finds those stored.
Execute(s, i) ==
  LET w == call[wire[s][i].call] IN
  /\ up[s]
  /\ Foremost(s, i)
  /\ \/ /\ w.pc = "GET"
        /\ \E k \in w.keys : Reply(s, i, l2[k], {}, {})
        /\ UNCHANGED Redis
     \/ /\ w.pc = "SETEX"
        /\ writes' = writes + 1
        /\ l2' = [k \in Key |-> IF k \in w.keys THEN writes + 1 ELSE l2[k]]
        /\ Reply(s, i, writes + 1, {}, {})
        /\ UNCHANGED inbox
     \/ /\ w.pc = "EXISTS"
        /\ Reply(s, i, 0, {}, {})
        /\ UNCHANGED Redis
     \/ /\ w.pc = "DEL"
        /\ l2' = [k \in Key |-> IF k \in w.keys THEN 0 ELSE l2[k]]
        /\ Reply(s, i, writes, {}, {})
        /\ UNCHANGED <<inbox, writes>>
     \/ /\ w.pc = "PUBLISH"
        /\ \E k \in w.keys : inbox' =
             [t \in Server |-> Append(inbox[t], [key |-> k, cut |-> w.cut, from |-> s])]
        /\ Reply(s, i, 0, {}, {})
        /\ UNCHANGED <<l2, writes>>
     \/ /\ w.pc = "SCAN"
        /\ \E page \in SUBSET w.rest :
             /\ page # {} \/ w.rest = {}
             /\ Reply(s, i, 0, {k \in page : l2[k] # 0}, w.rest \ page)
        /\ UNCHANGED Redis
  /\ UNCHANGED <<call, l1, registry, Environment>>

-----------------------------------------------------------------------------
(***************************************************************************)
(* A server handles the reply to its oldest command, or a command that     *)
(* failed at once because Redis was not connected.                         *)
(***************************************************************************)

\* Bug: every command has a connection of its own, and replies come in any order.
ReadyInAnyOrder(s, i) == i \in DOMAIN wire[s] /\ wire[s][i].status # "sent"

Ready(s, i) ==
  /\ i \in DOMAIN wire[s]
  /\ \/ i = 1 /\ wire[s][i].status \in {"ok", "failed"}
     \/ wire[s][i].status = "down"

\* execute's fallback: these commands reject.
Rejects(w) ==
  \/ Strict
  \/ w.pc \in {"SETEX", "PUBLISH"}
  \/ w.op = "clear"

\* Bug: get caches what it read from L2, and registers it nowhere.
AnswerGetUnregistered(c, w, e, left) ==
  /\ w.pc = "GET"
  /\ l1' = IF e.status = "ok" /\ e.rank # 0 THEN Fill(Home[c], w.keys, e.rank) ELSE l1
  /\ Proceed(c, Idle, left)
  /\ UNCHANGED registry

\* A get whose command failed reads a miss.
AnswerGet(c, w, e, left) ==
  /\ w.pc = "GET"
  /\ \/ /\ e.status = "ok" /\ e.rank # 0
        /\ l1' = Fill(Home[c], w.keys, e.rank)
        /\ registry' = IF w.op = "get" THEN Registered(Home[c], w.keys) ELSE registry
     \/ /\ e.status # "ok" \/ e.rank = 0
        /\ UNCHANGED <<l1, registry>>
  /\ Proceed(c, Idle, left)

\* Bug: set writes L2 and leaves the copy in L1.
AnswerSetKeepsCopy(c, w, e, left) ==
  /\ w.pc = "SETEX"
  /\ Proceed(c, Idle, left)
  /\ UNCHANGED <<l1, registry>>

AnswerSet(c, w, e, left) ==
  /\ w.pc = "SETEX"
  /\ StoreL1(Home[c], w.keys, e.rank)
  /\ Proceed(c, Idle, left)

AnswerExists(c, w, left) ==
  /\ w.pc = "EXISTS"
  /\ l1' = Forget(Home[c], w.keys)
  /\ Proceed(c, [w EXCEPT !.pc = "DEL"], left)
  /\ UNCHANGED registry

\* The rest of invalidate after DEL.  Only without broadcast is the key
\* unregistered at once.
AnswerDel(c, w, e, left) ==
  /\ w.pc = "DEL"
  /\ \/ /\ w.op \in {"delete", "invalidate"}
        /\ registry' = Unregistered(Home[c], w.keys)
        /\ Proceed(c, Idle, left)
     \/ /\ w.op = "refresh"
        /\ registry' = Unregistered(Home[c], w.keys)
        /\ Proceed(c, [w EXCEPT !.pc = "fetch"], left)
     \/ /\ w.op \in {"broadcast", "put"}
        /\ Proceed(c, [w EXCEPT !.pc = "PUBLISH", !.cut = e.rank], left)
        /\ UNCHANGED registry
     \/ /\ w.op = "byType"
        /\ \/ w.rest = {} /\ Proceed(c, Idle, left)
           \/ \E k \in w.rest :
                Proceed(c, [w EXCEPT !.keys = {k}, !.rest = @ \ {k}], left)
        /\ UNCHANGED registry
  /\ UNCHANGED l1

\* The key is unregistered; @CachePut goes on with set.
AnswerPublish(c, w, left) ==
  /\ w.pc = "PUBLISH"
  /\ registry' = Unregistered(Home[c], w.keys)
  /\ \/ w.op = "broadcast" /\ Proceed(c, Idle, left)
     \/ w.op = "put" /\ Proceed(c, [w EXCEPT !.pc = "SETEX"], left)
  /\ UNCHANGED l1

\* Bug: the scan starts over with each turn of the loop, until it finds nothing.
AnswerScanFromStart(c, w, e, left) ==
  /\ w.op \in {"byPattern", "clear"}
  /\ \/ /\ w.pc = "SCAN" /\ e.keys # {}
        /\ Proceed(c, [w EXCEPT !.pc = "DEL", !.keys = e.keys], left)
     \/ /\ w.pc = "DEL" \/ e.keys = {}
        /\ w.rest # {}
        /\ Proceed(c, [w EXCEPT !.pc = "SCAN", !.keys = {}], left)
     \/ /\ w.rest = {} /\ e.keys = {}
        /\ Proceed(c, Idle, left)
  /\ UNCHANGED <<l1, registry>>

\* One turn of the scanning loop of deleteByPattern and clear.  A failure ends
\* deleteByPattern, which then counts 0.
AnswerScan(c, w, e, left) ==
  LET rest == IF w.pc = "SCAN" THEN e.rest ELSE w.rest IN
  /\ w.op \in {"byPattern", "clear"}
  /\ \/ /\ w.pc = "SCAN" /\ e.keys # {} /\ e.status = "ok"
        /\ Proceed(c, [w EXCEPT !.pc = "DEL", !.keys = e.keys, !.rest = rest], left)
        /\ UNCHANGED registry
     \/ /\ e.keys = {} \/ w.pc = "DEL"
        /\ e.status = "ok" /\ rest # {}
        /\ Proceed(c, [w EXCEPT !.pc = "SCAN", !.keys = {}, !.rest = rest], left)
        /\ UNCHANGED registry
     \/ /\ e.status # "ok" \/ (rest = {} /\ (e.keys = {} \/ w.pc = "DEL"))
        /\ registry' = IF w.op = "clear" THEN [registry EXCEPT ![Home[c]] = {}] ELSE registry
        /\ Proceed(c, Idle, left)
  /\ UNCHANGED l1

\* Bug: the command of a call that rejected stays on the wire.
RejectedStaysOnWire(c, left) ==
  /\ call' = [call EXCEPT ![c] = Idle]
  /\ UNCHANGED <<wire, l1, registry>>

Rejected(c, left) == Proceed(c, Idle, left) /\ UNCHANGED <<l1, registry>>

Handle(s, i) ==
  LET e == wire[s][i]
      c == e.call
      w == call[c]
      left == RemoveAt(wire[s], i)
  IN
  /\ Ready(s, i)
  /\ \/ e.status # "ok" /\ Rejects(w) /\ Rejected(c, left)
     \/ /\ e.status = "ok" \/ ~Rejects(w)
        /\ \/ AnswerGet(c, w, e, left)
           \/ AnswerSet(c, w, e, left)
           \/ AnswerExists(c, w, left)
           \/ AnswerDel(c, w, e, left)
           \/ AnswerPublish(c, w, left)
           \/ AnswerScan(c, w, e, left)
  /\ UNCHANGED <<Redis, Environment>>

\* refresh stores what fetchFn returned, or rejects with it.
Fetched(c) ==
  /\ call[c].pc = "fetch"
  /\ Store(c, [call[c] EXCEPT !.pc = "SETEX"])
  /\ UNCHANGED <<up, losses, faults, purged, overtaken>>

FetchFails(c) ==
  /\ call[c].pc = "fetch"
  /\ "origin" \in Faults
  /\ Proceed(c, Idle, wire[Home[c]])
  /\ UNCHANGED <<l1, registry, Redis, Environment>>

\* A deleteByType that found nothing registered.
Return(c) ==
  /\ call[c].pc = "return"
  /\ Proceed(c, Idle, wire[Home[c]])
  /\ UNCHANGED <<l1, registry, Redis, Environment>>

-----------------------------------------------------------------------------
(***************************************************************************)
(* Messages, expiry and failures.                                          *)
(***************************************************************************)

\* Values that message m purges, and that are yet to be handled.
Late(s, m) ==
  {r \in 1 .. m.cut : \E i \in DOMAIN wire[s] :
     /\ wire[s][i].status = "ok" /\ wire[s][i].rank = r
     /\ call[wire[s][i].call].pc \in {"GET", "SETEX"}
     /\ m.key \in call[wire[s][i].call].keys}

\* Bug: the handler unregisters the key and leaves it in L1.
DeliverOnlyUnregisters(s) ==
  LET m == Head(inbox[s]) IN
  /\ inbox[s] # <<>>
  /\ inbox' = [inbox EXCEPT ![s] = Tail(@)]
  /\ registry' = Unregistered(s, {m.key})
  /\ purged' = [purged EXCEPT ![s][m.key] = IF @ > m.cut THEN @ ELSE m.cut]
  /\ overtaken' = [overtaken EXCEPT ![s] = @ \cup Late(s, m)]
  /\ UNCHANGED <<call, wire, offline, l1, l2, up, writes, losses, faults>>

\* handleInvalidationMessage: the key leaves L1, and stays registered.
Deliver(s) ==
  LET m == Head(inbox[s]) IN
  /\ inbox[s] # <<>>
  /\ inbox' = [inbox EXCEPT ![s] = Tail(@)]
  /\ l1' = Forget(s, {m.key})
  /\ purged' = [purged EXCEPT ![s][m.key] = IF @ > m.cut THEN @ ELSE m.cut]
  /\ overtaken' = [overtaken EXCEPT ![s] = @ \cup Late(s, m)]
  /\ UNCHANGED <<call, wire, offline, l2, registry, up, writes, losses, faults>>

\* An entry expires or is evicted.
LoseL1(s, k) ==
  /\ losses < MaxLosses /\ losses' = losses + 1
  /\ l1[s][k] # 0
  /\ l1' = Forget(s, {k})
  /\ UNCHANGED <<call, wire, offline, registry, Redis, up, faults, purged, overtaken>>

LoseL2(k) ==
  /\ losses < MaxLosses /\ losses' = losses + 1
  /\ l2[k] # 0
  /\ l2' = [l2 EXCEPT ![k] = 0]
  /\ UNCHANGED <<call, wire, offline, l1, registry, inbox, writes, up, faults, purged, overtaken>>

Fault(f) == f \in Faults /\ faults < MaxFaults /\ faults' = faults + 1

\* A command rejects, before Redis executed it or after.
CommandFails(s, i) ==
  /\ Fault("reject")
  /\ i \in DOMAIN wire[s]
  /\ Foremost(s, i) \/ wire[s][i].status = "ok"
  /\ wire' = [wire EXCEPT ![s][i].status = "failed"]
  /\ UNCHANGED <<call, offline, l1, registry, Redis, up, losses, purged, overtaken>>

\* The connection closes: the commands without a reply are sent again later,
\* those that were executed too.
Disconnect(s) ==
  /\ Fault("outage")
  /\ up[s]
  /\ up' = [up EXCEPT ![s] = FALSE]
  /\ wire' = [wire EXCEPT ![s] = [i \in DOMAIN @ |->
       IF @[i].status = "ok" THEN Sent(@[i].call) ELSE @[i]]]
  /\ UNCHANGED <<call, offline, l1, registry, Redis, losses, purged, overtaken>>

Reconnect(s) ==
  /\ ~up[s]
  /\ up' = [up EXCEPT ![s] = TRUE]
  /\ UNCHANGED <<call, wire, offline, l1, registry, Redis, losses, faults, purged, overtaken>>

\* Messages to a subscriber that is not connected are lost.
LoseMessage(s) ==
  /\ Fault("message")
  /\ inbox[s] # <<>>
  /\ inbox' = [inbox EXCEPT ![s] = Tail(@)]
  /\ UNCHANGED <<call, wire, offline, l1, registry, l2, writes, up, losses, purged, overtaken>>

-----------------------------------------------------------------------------

Step ==
  \/ \E c \in Call :
       \/ \E k \in Key : Get(c, k) \/ Set(c, k) \/ Invalidate(c, k) \/ Delete(c, k)
       \/ \E t \in Type : DeleteByType(c, t)
       \/ \E match \in SUBSET Key : DeleteByPattern(c, match)
       \/ Clear(c) \/ Fetched(c) \/ FetchFails(c) \/ Return(c)
  \/ \E s \in Server :
       \/ \E i \in DOMAIN wire[s] : Execute(s, i) \/ Handle(s, i) \/ CommandFails(s, i)
       \/ \E k \in Key : LoseL1(s, k)
       \/ Deliver(s) \/ LoseMessage(s) \/ Disconnect(s) \/ Reconnect(s)
  \/ \E k \in Key : LoseL2(k)

Shared(v) == v # 0 /\ v \notin offline'
LateUnregister(s, k) ==
  \E c \in Call : /\ Home[c] = s /\ call[c].op \notin {"byType", "byPattern"}
                  /\ call[c].pc \in {"DEL", "PUBLISH", "SCAN"} /\ call'[c] # call[c]
                  /\ k \in registry[s]
LatePeek(s, k) ==
  \E c \in Call : /\ Home[c] = s /\ call[c].op = "peek" /\ call'[c] # call[c]
                  /\ k \in call[c].keys
Remember ==
  /\ seen' = [s \in Server |-> [k \in Key |->
             IF Shared(l1'[s][k]) THEN l1'[s][k] ELSE seen[s][k]]]
  /\ late' = [s \in Server |-> {k \in Key \ registry'[s] :
       /\ l1'[s][k] # 0 \/ l2'[k] # 0
       /\ k \in late[s] \/ LateUnregister(s, k) \/ LatePeek(s, k)}]

Next == Step /\ Remember

Spec == Init /\ [][Next]_vars

\* Redis answers, replies are handled and origins answer.
FairSpec ==
  /\ Spec
  /\ \A s \in Server :
       /\ WF_vars((\E i \in DOMAIN wire[s] : Execute(s, i)) /\ Remember)
       /\ WF_vars((\E i \in DOMAIN wire[s] : Handle(s, i)) /\ Remember)
  /\ \A c \in Call : WF_vars((Fetched(c) \/ FetchFails(c) \/ Return(c)) /\ Remember)

-----------------------------------------------------------------------------
(***************************************************************************)
(* Properties.                                                             *)
(***************************************************************************)

\* Each call that waits for a command has one on its server's wire, and no other
\* call has.
Waiting == {c \in Call : call[c].pc \in Command}
WireOK ==
  /\ \A s \in Server : \A i \in DOMAIN wire[s] :
       /\ wire[s][i].call \in Waiting /\ Home[wire[s][i].call] = s
       /\ \A j \in DOMAIN wire[s] : wire[s][i].call = wire[s][j].call => i = j
  /\ \A c \in Waiting : \E i \in DOMAIN wire[Home[c]] : wire[Home[c]][i].call = c

\* Every variable has its type, and calls and wires match.
TypeOK ==
  /\ call \in [Call -> CallRec]
  /\ l1 \in [Server -> [Key -> Nat]]
  /\ l2 \in [Key -> Nat]
  /\ registry \in [Server -> SUBSET Key]
  /\ up \in [Server -> BOOLEAN]
  /\ wire \in [Server -> Seq(Entry)]
  /\ inbox \in [Server -> Seq(Message)]
  /\ writes \in Nat /\ losses \in Nat /\ faults \in Nat
  /\ offline \subseteq Nat
  /\ seen \in [Server -> [Key -> Nat]]
  /\ purged \in [Server -> [Key -> Nat]]
  /\ overtaken \in [Server -> SUBSET Nat]
  /\ late \in [Server -> SUBSET Key]
  /\ WireOK

\* On a single server, once no call is under way, L1 and L2 do not hold
\* different values of a key.
Settled == \A c \in Call : call[c] = Idle
CopiesAgree ==
  Settled => \A s \in Server, k \in Key : l1[s][k] = 0 \/ l2[k] = 0 \/ l1[s][k] = l2[k]

\* After a server has handled a broadcast for a key, its L1 holds no value from
\* before the broadcaster's DEL, but for one whose reply from L2 it was yet to
\* handle.
BroadcastPurges ==
  \A s \in Server, k \in Key : l1[s][k] \in 1 .. purged[s][k] => l1[s][k] \in overtaken[s]

\* On the broadcaster's own server no such reply is left when its message comes.
OwnBroadcastIsLast ==
  \A s \in Server : \A i \in DOMAIN inbox[s] :
    inbox[s][i].from = s => Late(s, inbox[s][i]) = {}

\* On one server, once no call is under way, deleteByType finds each stored key of
\* a type, but for those that another call unregistered after it had awaited Redis,
\* or that were read without their type.
RegistryCovers ==
  Settled => \A s \in Server, k \in Key :
    TypeOf[k] # NoType /\ (l1[s][k] # 0 \/ l2[k] # 0) => k \in registry[s] \cup late[s]

\* Every call returns or rejects.
CallsReturn == \A c \in Call : call[c] # Idle ~> call[c] = Idle

\* Each L1 reads as MonotonicReads promises: L2 is written first, and replies are
\* handled in order.
Reads == INSTANCE MonotonicReads WITH latest <- writes, copy <- l1
ReadsAreMonotonic == Reads!Spec

\* When invalidate or delete returns, its server's L1 no longer holds a value
\* that L2 held before.
DeletedIsGone ==
  [][\A c \in Call : call[c].op \in {"invalidate", "delete"} /\ call'[c] = Idle =>
       \A k \in call[c].keys : l1'[Home[c]][k] \notin 1 .. Head(wire[Home[c]]).rank]_vars

=============================================================================
