------------------------------ MODULE Connection ------------------------------
(***************************************************************************)
(* CacheManager.connect and disconnect, down to RedisConnection, the       *)
(* upgrade of the lock and the invalidation subscriber, over ioredis       *)
(* clients that connect, lose their connection, retry and give up.         *)
(*                                                                         *)
(* A call runs until its next await; what it does when the awaited promise *)
(* resolves is part of the step that resolves it.  Clients, subscribers    *)
(* included, are numbered in the order they are made; 0 stands for null.   *)
(* The life of a client is ioredis', with the options the code gives it.   *)
(***************************************************************************)
EXTENDS Naturals, FiniteSets, FiniteSetsExt

CONSTANTS
  Call,            \* the calls that may be under way at once
  MaxRetries,      \* retryStrategy gives up after so many failed attempts
  RequestRetries,  \* maxRetriesPerRequest
  MaxClients, MaxCalls, MaxFaults   \* bounds

ASSUME CallAssumption == IsFiniteSet(Call)
ASSUME BoundAssumption ==
  {MaxRetries, RequestRetries, MaxClients, MaxCalls, MaxFaults} \subseteq Nat

Client == 1 .. MaxClients

VARIABLES
  call,         \* what each call waits for
  client,       \* RedisConnection.client
  state,        \* RedisConnection._state
  subscriber,   \* RedisCache.subscriber
  listeners,    \* RedisCache.invalidationListeners, named by the call that added them
  unsubscribe,  \* InvalidationManager.unsubscribe: the listener it removes, or 0
  lock,         \* CacheManager.lock: 0 in memory, otherwise distributed on a client
  handler,      \* the clients with a 'message' handler
  main,         \* the clients whose events set the state
  net, tries,   \* each client's connection, and its attempts since it was ready
  up,           \* Redis answers
  made, begun, faults,
  \* History:
  last,         \* how the last call ended
  tangled,      \* a call began while another was under way
  stale         \* the state was last set by another client than the current one

server == <<client, subscriber, listeners, unsubscribe, lock, handler, main, made>>
history == <<begun, tangled>>
vars == <<call, server, state, net, tries, up, faults, last, stale, history>>

\* on: the client the call waits for; turn: its place among the calls that do;
\* done: the client has answered already.
Idle == [op |-> "none", pc |-> "idle", on |-> 0, turn |-> 0, done |-> FALSE, id |-> 0]
Settled == \A c \in Call : call[c] = Idle

Init ==
  /\ call = [c \in Call |-> Idle]
  /\ client = 0 /\ subscriber = 0 /\ unsubscribe = 0 /\ lock = 0
  /\ state = "disconnected"
  /\ listeners = {} /\ handler = {} /\ main = {}
  /\ net = [i \in Client |-> "none"] /\ tries = [i \in Client |-> 0]
  /\ up \in BOOLEAN
  /\ made = 0 /\ begun = 0 /\ faults = 0
  /\ last = "none" /\ tangled = FALSE /\ stale = FALSE

-----------------------------------------------------------------------------
(***************************************************************************)
(* Parts of the steps.  w is what the call c has become.                   *)
(***************************************************************************)

Settle(c, how) == call' = [call EXCEPT ![c] = Idle] /\ last' = how
\* The commands of a client are answered in their order.
NextTurn(calls, i) == 1 + Max({calls[d].turn : d \in {e \in Call : calls[e].on = i}} \cup {0})
Wait(c, w, pc, i, done) ==
  /\ call' = [call EXCEPT ![c] =
       [op |-> w.op, pc |-> pc, on |-> i, done |-> done, id |-> w.id,
        turn |-> NextTurn([call EXCEPT ![c] = Idle], i)]]
  /\ UNCHANGED last

\* Bug: no handler for 'reconnecting', 'close' and 'end'.
EmitOpening(i, s) ==
  /\ state' = IF i \in main /\ s = "connected" THEN s ELSE state
  /\ stale' = IF i \in main THEN i # client ELSE stale

\* Bug: 'connect' and 'ready' are handled once, not each time.
EmitOnce(i, s) ==
  /\ state' = IF i \in main /\ (s # "connected" \/ tries[i] = 0) THEN s ELSE state
  /\ stale' = IF i \in main THEN i # client ELSE stale

\* The handlers of a client's events set the state, be it the current client or not.
Emit(i, s) ==
  /\ state' = IF i \in main THEN s ELSE state
  /\ stale' = IF i \in main THEN i # client ELSE stale

\* Bug: a lock that is distributed already is taken for the one of this client.
UpgradeOnce(st) == IF st = "connected" /\ lock = 0 THEN client ELSE lock
Upgrade(st) == IF st = "connected" THEN client ELSE lock

\* What connect does once l2.connect has resolved with the state st: it upgrades
\* the lock and subscribes to invalidations, each only when connected.
Equip(c, w, st, nets) ==
  /\ lock' = Upgrade(st)
  /\ listeners' = listeners \cup {w.id}
  /\ \/ /\ subscriber = 0 /\ st = "connected"
        /\ made' = made + 1
        /\ subscriber' = made'
        /\ net' = [nets EXCEPT ![made'] = "connecting"]
        /\ Wait(c, w, "subscribe", made', FALSE)
        /\ UNCHANGED unsubscribe
     \/ /\ subscriber # 0 \/ st # "connected"
        /\ unsubscribe' = w.id
        /\ net' = nets
        /\ Settle(c, "connect")
        /\ UNCHANGED <<subscriber, made>>
  /\ UNCHANGED <<client, handler, main>>

\* client.quit: rejects on a client that has ended, and resolves at once on one
\* without a connection and without commands to send.
Quit(c, w, pc, i, nets) ==
  LET atOnce == /\ net[i] \in {"connecting", "reconnecting", "leaving"}
                /\ \A d \in Call \ {c} : call[d].on = i => call[d].done \/ call[d].pc = "open"
  IN
  \/ net[i] = "end" /\ Settle(c, "rejected") /\ net' = nets
  \/ /\ atOnce
     /\ net' = [nets EXCEPT ![i] = IF @ = "reconnecting" THEN "end" ELSE "leaving"]
     /\ Wait(c, w, pc, i, TRUE)
  \/ net[i] # "end" /\ ~atOnce /\ Wait(c, w, pc, i, FALSE) /\ net' = nets

\* RedisConnection.disconnect.
QuitClient(c, w, nets) ==
  \/ client # 0 /\ Quit(c, w, "quit", client, nets)
  \/ client = 0 /\ Settle(c, "disconnect") /\ net' = nets

\* Bug: RedisCache.disconnect leaves the subscriber to unsubscribe.
QuitOnlyClient(c, w) == QuitClient(c, w, net)

\* RedisCache.disconnect.
QuitBoth(c, w) ==
  \/ subscriber # 0 /\ Quit(c, w, "quitSubscriber", subscriber, net)
  \/ subscriber = 0 /\ QuitClient(c, w, net)

-----------------------------------------------------------------------------
(***************************************************************************)
(* The steps of the calls.                                                 *)
(***************************************************************************)

\* A call is numbered, its listener with it.
Begun(op) == [op |-> op, id |-> begun + 1]
Begin(c) ==
  /\ call[c] = Idle
  /\ begun < MaxCalls /\ begun' = begun + 1
  /\ tangled' = (tangled \/ ~Settled)
  /\ UNCHANGED <<tries, up, faults>>

Connecting == {c \in Call : call[c].op = "connect"}

\* Bug: a connect that finds a client waits for it to be ready.
WaitForClient(c, w) ==
  /\ client # 0
  /\ \/ net[client] # "ready" /\ Wait(c, w, "open", client, FALSE) /\ UNCHANGED <<server, net>>
     \/ net[client] = "ready" /\ Equip(c, w, state, net)
  /\ UNCHANGED <<state, stale>>

\* RedisConnection.connect returns at once if there is a client, in whatever state.
FindClient(c, w) == client # 0 /\ Equip(c, w, state, net) /\ UNCHANGED <<state, stale>>

\* Bug: a connect makes a client although there is one.
MakeAnother(c, w) ==
  /\ made' = made + 1
  /\ client' = made'
  /\ main' = main \cup {made'}
  /\ net' = [net EXCEPT ![made'] = "connecting"]
  /\ Wait(c, w, "open", made', FALSE)
  /\ UNCHANGED <<state, stale, subscriber, listeners, unsubscribe, lock, handler>>

MakeClient(c, w) ==
  /\ client = 0
  /\ made' = made + 1
  /\ client' = made'
  /\ main' = main \cup {made'}
  /\ net' = [net EXCEPT ![made'] = "connecting"]
  /\ Wait(c, w, "open", made', FALSE)
  /\ UNCHANGED <<state, stale, subscriber, listeners, unsubscribe, lock, handler>>

Connect(c) ==
  /\ Begin(c)
  /\ made + 2 * (Cardinality(Connecting) + 1) <= MaxClients
  /\ FindClient(c, Begun("connect")) \/ MakeClient(c, Begun("connect"))

\* disconnect first removes the listener of the last init, and with the last
\* listener the subscriber.
Disconnect(c) ==
  LET w == Begun("disconnect")
      left == listeners \ {unsubscribe}
  IN
  /\ Begin(c)
  /\ listeners' = left
  /\ \/ /\ unsubscribe # 0 /\ left = {} /\ subscriber # 0
        /\ \/ net[subscriber] = "end" /\ Settle(c, "rejected")
           \/ net[subscriber] # "end" /\ Wait(c, w, "unsubscribe", subscriber, FALSE)
        /\ UNCHANGED <<net, unsubscribe>>
     \/ /\ unsubscribe = 0 \/ left # {} \/ subscriber = 0
        /\ unsubscribe' = 0
        /\ QuitBoth(c, w)
  /\ UNCHANGED <<client, subscriber, lock, handler, main, made, state, stale>>

\* The client answers the command the call waits for, commands in their order.
Answered(c, pc, connection) ==
  /\ call[c].pc = pc
  /\ \/ call[c].done
     \/ /\ up /\ net[call[c].on] \in connection
        /\ \A d \in Call : call[d].on = call[c].on => call[d].turn >= call[c].turn
  /\ UNCHANGED <<tries, up, faults, history>>

\* The handler is attached to the subscriber there is by then.
Subscribed(c) ==
  /\ Answered(c, "subscribe", {"ready"})
  /\ handler' = handler \cup {subscriber}
  /\ unsubscribe' = call[c].id
  /\ Settle(c, "connect")
  /\ UNCHANGED <<client, subscriber, listeners, lock, main, made, state, net, stale>>

\* Bug: the subscriber is dropped before it has quit.
UnsubscribedAtOnce(c) ==
  /\ Answered(c, "unsubscribe", {"ready"})
  /\ Quit(c, call[c], "quitUnsubscribed", subscriber, net)
  /\ subscriber' = 0
  /\ UNCHANGED <<client, listeners, unsubscribe, lock, handler, main, made, state, stale>>

Unsubscribed(c) ==
  /\ Answered(c, "unsubscribe", {"ready"})
  /\ Quit(c, call[c], "quitUnsubscribed", subscriber, net)
  /\ UNCHANGED <<server, state, stale>>

\* QUIT is answered, and Redis closes the connection.
QuitAnswered(c, pc) == Answered(c, pc, {"connect", "ready"})
Left(c) == IF call[c].done THEN net ELSE [net EXCEPT ![call[c].on] = "closing"]

\* Either way RedisCache.disconnect goes on with the client.
SubscriberGone(c) ==
  \E pc \in {"quitUnsubscribed", "quitSubscriber"} :
    /\ QuitAnswered(c, pc)
    /\ subscriber' = 0
    /\ unsubscribe' = IF pc = "quitUnsubscribed" THEN 0 ELSE unsubscribe
    /\ QuitClient(c, call[c], Left(c))
    /\ UNCHANGED <<client, listeners, lock, handler, main, made, state, stale>>

ClientGone(c) ==
  /\ QuitAnswered(c, "quit")
  /\ client' = 0
  /\ state' = "disconnected" /\ stale' = FALSE
  /\ net' = Left(c)
  /\ Settle(c, "disconnect")
  /\ UNCHANGED <<subscriber, listeners, unsubscribe, lock, handler, main, made>>

-----------------------------------------------------------------------------
(***************************************************************************)
(* The life of a client.                                                   *)
(***************************************************************************)

\* 'connect': the state is 'connected' before the ready check.
Open(i) ==
  /\ up
  /\ \/ net[i] = "connecting" /\ net' = [net EXCEPT ![i] = "connect"]
     \/ net[i] = "leaving" /\ net' = [net EXCEPT ![i] = "closing"]
  /\ Emit(i, "connected")
  /\ UNCHANGED <<call, server, tries, up, faults, last, history>>

\* 'ready': the connect that made the client goes on.
Ready(i) ==
  LET nets == [net EXCEPT ![i] = "ready"]
      waiting == {c \in Call : call[c].pc = "open" /\ call[c].on = i}
  IN
  /\ up
  /\ net[i] = "connect"
  /\ tries' = [tries EXCEPT ![i] = 0]
  /\ Emit(i, "connected")
  /\ \/ waiting = {} /\ net' = nets /\ UNCHANGED <<call, server, last>>
     \/ \E c \in waiting : Equip(c, call[c], "connected", nets)
  /\ UNCHANGED <<up, faults, history>>

\* A client that was told to quit, or has tried too often, does not try again.
Quitting == {"quit", "quitSubscriber", "quitUnsubscribed"}
ToldToQuit(i) ==
  \/ net[i] \in {"closing", "leaving"}
  \/ \E c \in Call : /\ call[c].on = i /\ call[c].pc \in Quitting /\ ~call[c].done
                     /\ net[i] \in {"connect", "ready"}
\* Bug: one attempt more than retryStrategy allows.
EndsLate(i) == ToldToQuit(i) \/ tries[i] > MaxRetries
Ends(i) == ToldToQuit(i) \/ tries[i] >= MaxRetries

\* 'close', and then 'reconnecting' or 'end'.  A first connect rejects, and
\* commands reject when there is no further attempt or this was one too many.
Lose(i) ==
  LET flushes == Ends(i) \/ (tries[i] + 1) % (RequestRetries + 1) = 0
      rejected == {c \in Call : /\ call[c].on = i /\ ~call[c].done
                                /\ call[c].pc = "open" \/ flushes}
  IN
  /\ net' = [net EXCEPT ![i] = IF Ends(i) THEN "end" ELSE "reconnecting"]
  /\ tries' = [tries EXCEPT ![i] = IF Ends(i) THEN @ ELSE @ + 1]
  /\ Emit(i, IF Ends(i) THEN "disconnected" ELSE "reconnecting")
  /\ call' = [c \in Call |-> IF c \in rejected THEN Idle ELSE call[c]]
  /\ last' = IF rejected = {} THEN last ELSE "rejected"
  /\ UNCHANGED <<server, up, history>>

\* Redis is down, or closes the connection of a client that quit.
Close(i) ==
  /\ \/ net[i] \in {"connecting", "connect", "ready"} /\ ~up
     \/ net[i] \in {"closing", "leaving"}
  /\ Lose(i)
  /\ UNCHANGED faults

Retry(i) ==
  /\ net[i] = "reconnecting"
  /\ net' = [net EXCEPT ![i] = "connecting"]
  /\ UNCHANGED <<call, server, state, tries, up, faults, last, stale, history>>

Fault == faults < MaxFaults /\ faults' = faults + 1

\* A single connection breaks.
Break(i) ==
  /\ Fault
  /\ net[i] \in {"connecting", "connect", "ready"}
  /\ Lose(i)

Down ==
  /\ Fault
  /\ up /\ up' = FALSE
  /\ UNCHANGED <<call, server, state, net, tries, last, stale, history>>

Up ==
  /\ ~up /\ up' = TRUE
  /\ UNCHANGED <<call, server, state, net, tries, faults, last, stale, history>>

-----------------------------------------------------------------------------

\* What waits for a client, and what clients do.
Answer(c) == Subscribed(c) \/ Unsubscribed(c) \/ SubscriberGone(c) \/ ClientGone(c)
Alive(i) == Open(i) \/ Ready(i) \/ Close(i) \/ Retry(i)

\* A promise that resolved at once is continued before anything else happens.
Prompt == {c \in Call : call[c].done}

Next ==
  \/ \E c \in Prompt : Answer(c)
  \/ /\ Prompt = {}
     /\ \/ \E c \in Call : Connect(c) \/ Disconnect(c) \/ Answer(c)
        \/ \E i \in Client : Alive(i) \/ Break(i)
        \/ Down \/ Up

\* Sockets open or close, ready checks and commands are answered or their
\* connection closes, and timers fire.  Redis may stay down.
Fairness == /\ \A c \in Call : WF_vars(Answer(c))
            /\ \A i \in Client : WF_vars(Alive(i))

Spec == Init /\ [][Next]_vars
FairSpec == Spec /\ Fairness

-----------------------------------------------------------------------------
(***************************************************************************)
(* Properties.                                                             *)
(***************************************************************************)

Pc == {"idle", "open", "subscribe", "unsubscribe"} \cup Quitting
Net == {"none", "connecting", "connect", "ready", "reconnecting", "closing", "leaving", "end"}
Ref == 0 .. made
Gone == {"closing", "leaving", "end"}

\* Every variable has its type, and every client referred to was made.
TypeOK ==
  /\ call \in [Call -> [op : {"none", "connect", "disconnect"}, pc : Pc, on : Ref,
                        turn : Nat, done : BOOLEAN, id : 0 .. begun]]
  /\ {client, subscriber, lock} \subseteq Ref
  /\ state \in {"connected", "reconnecting", "disconnected"}
  /\ unsubscribe \in 0 .. begun /\ listeners \subseteq 1 .. begun
  /\ handler \subseteq 1 .. made /\ main \subseteq 1 .. made
  /\ net \in [Client -> Net] /\ tries \in [Client -> 0 .. MaxRetries]
  /\ \A i \in Client : net[i] = "none" <=> i > made
  /\ up \in BOOLEAN /\ made \in 0 .. MaxClients
  /\ begun \in 0 .. MaxCalls /\ faults \in 0 .. MaxFaults
  /\ last \in {"none", "connect", "disconnect", "rejected"}
  /\ tangled \in BOOLEAN /\ stale \in BOOLEAN

\* The state is never 'connected' without a client whose socket is open.
ConnectedIsTrue ==
  state = "connected" => \E i \in main : net[i] \in {"connect", "ready", "closing"}

\* A disconnect that resolves has closed every connection its cache opened, and
\* no client is left for the next connect to find.
NothingLeft ==
  last = "disconnect" /\ Settled /\ ~tangled =>
    /\ client = 0 /\ subscriber = 0
    /\ \A i \in Client : net[i] \in Gone \cup {"none"}

\* A client the cache no longer refers to was told to quit or has ended, however
\* calls overlap: no connection is leaked.
NoneLeaked == \A i \in 1 .. made : i \in {client, subscriber} \/ net[i] \in Gone

\* What a call finds after an await in this.subscriber and this.client is what it
\* awaited, and not null or another client, unless that one has gone.
AwaitedIsHeld ==
  \A c \in Call :
    /\ call[c].pc \in {"subscribe", "unsubscribe", "quitUnsubscribed", "quitSubscriber"} =>
         call[c].on = subscriber \/ net[call[c].on] \in Gone
    /\ call[c].pc = "quit" => call[c].on = client \/ net[call[c].on] \in Gone

\* A connect that made its client and resolves leaves the lock distributed on
\* that client, and a subscriber that handles messages.
FirstConnectEquips ==
  [][\A c \in Call : call[c].pc = "subscribe" /\ call'[c] = Idle /\ last' = "connect" /\ ~tangled =>
       lock' = client' /\ subscriber' \in handler']_vars

\* Every connect and disconnect settles, also when Redis stays down.
CallsSettle == \A c \in Call : call[c] # Idle ~> call[c] = Idle

\* While Redis stays up, the state comes back to 'connected', unless the client
\* has given up or a late event of another client set the state.
Reconnects ==
  <>[]up => []<>(client = 0 \/ net[client] = "end" \/ state = "connected" \/ stale)

\* Once a connect has resolved and the state is 'connected', the lock is
\* distributed on the client and a subscriber handles messages.
Equipped ==
  last = "connect" /\ Settled /\ state = "connected" =>
    lock = client /\ subscriber \in handler

================================================================================
