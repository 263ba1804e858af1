---------------------- MODULE CoherenceOneServerProofs ----------------------
(***************************************************************************)
(* One server, whose connection stays and whose commands succeed: L1 and   *)
(* L2 agree once no call is under way.                                     *)
(*                                                                         *)
(* Type correctness and order alone do not carry this: while calls are     *)
(* under way L1 may well hold an older value than L2, and older ones may   *)
(* come.  Then the reply with the value of L2 is on its way too, behind    *)
(* them.                                                                   *)
(***************************************************************************)
EXTENDS CoherenceProofs

\* L1 holds, or is to take, another value of k than L2 has.
Differs(s, k) ==
  /\ l2[k] # 0
  /\ \/ l1[s][k] \notin {0, l2[k]}
     \/ \E i \in DOMAIN wire[s] : Reading(s, i, k) /\ wire[s][i].rank # l2[k]

\* The value that L2 has is in a reply that is yet to be handled.
Bringing(s, k) == \E i \in DOMAIN wire[s] : Reading(s, i, k) /\ wire[s][i].rank = l2[k]

Agree(s) == up[s] /\ \A k \in Key : Differs(s, k) => Bringing(s, k)

\* A reply that stays, stays one.
LEMMA StayReading ==
  ASSUME NEW s \in Server, NEW k \in Key, NEW i \in DOMAIN wire[s], Stays(s, i),
         Reading(s, i, k), wire[s][i].rank = l2[k], l2'[k] = l2[k]
  PROVE  Bringing(s, k)'
<1>1. PICK j \in DOMAIN wire'[s] : wire'[s][j] = wire[s][i]
  BY DEF Stays
<1>2. Reading(s, j, k)'
  BY <1>1 DEF Reading, Stays
<1> QED BY <1>1, <1>2 DEF Bringing

\* As long as the replies stay, and L1 takes nothing, they go on to bring the
\* value of L2.
LEMMA StayAgree ==
  ASSUME Inv, Passes, NEW s \in Server, Agree(s), NEW k \in Key,
         l1'[s][k] \in {0, l1[s][k]},
         \A i \in DOMAIN wire[s] : Reading(s, i, k) => Stays(s, i),
         Differs(s, k)'
  PROVE  Bringing(s, k)'
<1>1. l2'[k] # 0 /\ l2'[k] = l2[k]
  BY DEF Passes, Differs
<1>2. Differs(s, k)
  <2>1. CASE l1'[s][k] \notin {0, l2'[k]}
    BY <2>1, <1>1 DEF Differs
  <2>2. ASSUME NEW i \in DOMAIN wire'[s], Reading(s, i, k)', wire'[s][i].rank # l2'[k]
        PROVE  Differs(s, k)
    <3>1. \E j \in DOMAIN wire[s] : Reading(s, j, k) /\ wire'[s][i].rank = wire[s][j].rank
      BY <2>2, EntriesFrom DEF Reading
    <3> QED BY <3>1, <2>2, <1>1 DEF Differs
  <2> QED BY <2>1, <2>2 DEF Differs
<1>3. PICK i \in DOMAIN wire[s] : Reading(s, i, k) /\ wire[s][i].rank = l2[k]
  BY <1>2 DEF Agree, Bringing
<1> QED BY <1>1, <1>3, StayReading

\* When L1 takes a value other than that of L2, this one is behind it; when it
\* takes the value of L2, no other one is.
LEMMA TakesAgree ==
  ASSUME Inv, Passes, NEW s \in Server, Agree(s), NEW k \in Key, Takes(s, k)
  PROVE  Differs(s, k)' => Bringing(s, k)'
<1> SUFFICES ASSUME Differs(s, k)' PROVE Bringing(s, k)'
  OBVIOUS
<1> DEFINE r == wire[s][1].rank
<1>1. /\ 1 \in DOMAIN wire[s] /\ Reading(s, 1, k) /\ call'[wire[s][1].call] = Idle
      /\ \A i \in DOMAIN wire[s] : i # 1 => Stays(s, i)
      /\ l2'[k] = l2[k] /\ l2[k] # 0
  BY DEF Takes, Differs
<1>2. l1'[s][k] = r
  BY DEF Takes, Inv, TypeInv, TypeOK
<1> HIDE DEF r
<1>3. CASE r # l2[k]
  <2>1. Bringing(s, k)
    BY <1>1, <1>3 DEF Differs, Agree, r
  <2>2. PICK i \in DOMAIN wire[s] : Reading(s, i, k) /\ wire[s][i].rank = l2[k]
    BY <2>1 DEF Bringing
  <2> QED BY <1>1, <1>3, <2>2, StayReading DEF r
<1>4. CASE r = l2[k]
  <2>1. PICK i \in DOMAIN wire'[s] : Reading(s, i, k)' /\ wire'[s][i].rank # l2[k]
    BY <1>1, <1>2, <1>4 DEF Differs
  <2>2. PICK j \in DOMAIN wire[s] : Reading(s, j, k) /\ wire'[s][i].rank = wire[s][j].rank
    BY <2>1, EntriesFrom DEF Reading
  <2>3. j # 1 /\ j \in Nat \ {0}
    <3>1. wire[s] \in Seq(Entry)
      BY DEF Inv, TypeInv, TypeOK
    <3> QED BY <3>1, <2>1, <2>2, <1>4 DEF r
  <2>4. r <= wire[s][j].rank
    BY <2>2, <2>3, <1>1 DEF Inv, InOrder, r
  <2>5. wire[s][j].rank <= l2[k]
    BY <2>2, <1>1 DEF Inv, Newest
  <2>6. r \in Nat /\ wire[s][j].rank \in Nat
    BY <1>1, EntryTypes DEF Inv, r
  <2> QED BY <2>1, <2>2, <2>4, <2>5, <2>6, <1>4
<1> QED BY <1>3, <1>4

\* A value that Redis stores or reads comes back in the reply.
LEMMA AnswersAgree ==
  ASSUME Inv, NEW s \in Server, NEW i \in DOMAIN wire[s], Answers(s, i), Agree(s),
         NEW k \in Key
  PROVE  Differs(s, k)' => Bringing(s, k)'
<1> SUFFICES ASSUME Differs(s, k)' PROVE Bringing(s, k)'
  OBVIOUS
<1>1. /\ DOMAIN wire'[s] = DOMAIN wire[s] /\ UNCHANGED <<call, l1>>
      /\ \A j \in DOMAIN wire[s] : j # i => wire'[s][j] = wire[s][j]
      /\ wire[s][i].status = "sent"
      /\ Reading(s, i, k)' => wire'[s][i].rank = l2'[k]
      /\ l2'[k] = l2[k] \/ Reading(s, i, k)'
      /\ l2'[k] # 0
  BY DEF Answers, Differs, Foremost
<1>2. CASE Reading(s, i, k)'
  BY <1>1, <1>2 DEF Bringing
<1>3. CASE ~Reading(s, i, k)'
  <2>1. \A j \in DOMAIN wire[s] : Reading(s, j, k)' => j # i /\ Reading(s, j, k)
    BY <1>1, <1>3 DEF Reading
  <2>2. Differs(s, k)
    BY <1>1, <1>3, <2>1 DEF Differs
  <2>3. PICK j \in DOMAIN wire[s] : Reading(s, j, k) /\ wire[s][j].rank = l2[k]
    BY <2>2 DEF Agree, Bringing
  <2>4. j # i
    BY <2>3, <1>1 DEF Reading
  <2>5. Reading(s, j, k)' /\ wire'[s][j].rank = l2'[k]
    BY <2>3, <2>4, <1>1, <1>3 DEF Reading
  <2> QED BY <2>5, <1>1 DEF Bringing
<1> QED BY <1>2, <1>3

\* A step of a server whose commands succeed, on a connection that stays.
LEMMA AgreeKept ==
  ASSUME NEW s, Server = {s}, "reject" \notin Faults, "outage" \notin Faults
  PROVE  Inv /\ Agree(s) /\ [Next]_vars => Agree(s)'
<1> SUFFICES ASSUME Inv, Agree(s), [Next]_vars PROVE Agree(s)'
  OBVIOUS
<1> s \in Server
  OBVIOUS
<1>1. CASE UNCHANGED vars
  BY <1>1 DEF vars, Agree, Differs, Bringing, Reading
<1>2. CASE Next
  <2>1. Step /\ Remember
    BY <1>2 DEF Next
  <2>2. TypeInv' /\ Kinds /\ (Passes \/ \E i \in DOMAIN wire[s] : Execute(s, i))
    BY <2>1, KindPasses, StepKinds DEF Inv
  <2>3. ASSUME Passes, NEW k \in Key,
               l1'[s][k] \in {0, l1[s][k]},
               \A i \in DOMAIN wire[s] : Reading(s, i, k) => Stays(s, i)
        PROVE  Differs(s, k)' => Bringing(s, k)'
    BY <2>3, StayAgree
  <2>4. CASE Moves /\ Calm
    <3>1. Passes
      BY <2>1, <2>2, <2>4, CalmPasses
    <3>2. \A k \in Key : l1'[s][k] \in {0, l1[s][k]}
      BY <2>4, DropsLower DEF Calm, Inv, TypeInv, TypeOK, State
    <3>3. Keeps
      BY <2>4 DEF Calm, Faulty, Disconnect, CommandFails, Fault
    <3>4. up'[s]
      BY <3>3 DEF Keeps, Reconnect, Agree
    <3>5. \A k \in Key : \A i \in DOMAIN wire[s] : Reading(s, i, k) => Stays(s, i)
      BY <3>3 DEF Keeps
    <3> QED BY <3>1, <3>2, <3>4, <3>5, <2>3 DEF Agree
  <2>5. ASSUME NEW j \in Key, Moves, Takes(s, j)
        PROVE  Agree(s)'
    <3>1. Passes
      BY <2>1, <2>2, <2>5, TakesPasses
    <3>2. up'[s]
      BY <2>5 DEF Takes, Agree
    <3>3. ASSUME NEW k \in Key, k # j
          PROVE  Differs(s, k)' => Bringing(s, k)'
      <4>1. l1'[s][k] = l1[s][k]
        BY <2>5, <3>3 DEF Takes, Inv, TypeInv, TypeOK
      <4>2. ~Reading(s, 1, k)
        <5>1. 1 \in DOMAIN wire[s] /\ Reading(s, 1, j)
          BY <2>5 DEF Takes
        <5>2. call[wire[s][1].call] \in Rec
          BY <5>1, EntryTypes DEF Inv, TypeInv
        <5>3. \E m \in Key : call[wire[s][1].call].keys = {m}
          BY <5>1, <5>2, SingleKey DEF Single, Reading
        <5> QED BY <5>1, <5>3, <3>3 DEF Reading
      <4>3. \A i \in DOMAIN wire[s] : Reading(s, i, k) => Stays(s, i)
        BY <4>2, <2>5 DEF Takes
      <4> QED BY <4>1, <4>3, <3>1, <2>3
    <3>4. Differs(s, j)' => Bringing(s, j)'
      BY <3>1, <2>5, TakesAgree
    <3> QED BY <3>2, <3>3, <3>4 DEF Agree
  <2>6. ASSUME NEW j \in Key
        PROVE  ~Alone(s, j)
    BY DEF Alone, Agree
  <2>7. ASSUME Moves, Deliver(s) \/ LoseMessage(s) \/ \E k \in Key : LoseL2(k)
        PROVE  Agree(s)'
    <3>1. Passes
      BY <2>1, <2>2, <2>7, DeliverPasses, LosePasses
    <3>2. AllStay /\ up' = up
      <4>1. UNCHANGED <<call, wire, up>>
        BY <2>7 DEF Deliver, LoseMessage, LoseL2
      <4> QED BY <4>1, StillMoves DEF Inv
    <3>3. \A k \in Key : l1'[s][k] \in {0, l1[s][k]}
      <4>1. State
        BY DEF Inv, TypeInv, TypeOK, State
      <4>2. CASE l1' = l1
        BY <4>2
      <4>3. CASE Deliver(s)
        <5>1. inbox[s] \in Seq(Message) /\ inbox[s] # <<>>
          BY <4>3 DEF Deliver, Inv, TypeInv, TypeOK
        <5>2. Head(inbox[s]).key \in Key
          <6>1. Head(inbox[s]) \in Message
            BY <5>1, HeadTailProperties
          <6> QED BY <6>1 DEF Message
        <5>3. Drops
          BY <5>2, <4>3 DEF Deliver, Drops
        <5> QED BY <5>3, <4>1, DropsLower
      <4> QED BY <4>2, <4>3, <2>7 DEF LoseMessage, LoseL2
    <3>4. \A k \in Key : \A i \in DOMAIN wire[s] : Reading(s, i, k) => Stays(s, i)
      BY <3>2 DEF AllStay
    <3> QED BY <3>1, <3>2, <3>3, <3>4, <2>3 DEF Agree
  <2>8. ASSUME NEW i \in DOMAIN wire[s], Execute(s, i)
        PROVE  Agree(s)'
    <3>1. Answers(s, i)
      BY <2>1, <2>2, <2>8, ExecuteAnswers
    <3>2. up'[s]
      BY <2>8 DEF Execute, Environment, Agree
    <3> QED BY <3>1, <3>2, AnswersAgree DEF Agree
  <2> QED BY <2>2, <2>4, <2>5, <2>6, <2>7, <2>8 DEF Kinds
<1> QED BY <1>1, <1>2

\* On a single server, once no call is under way, L1 and L2 do not hold different
\* values of a key: for every number of calls and keys, whatever the calls do,
\* and with what expires or is evicted between them.
THEOREM OneServerAgrees ==
  ASSUME NEW s, Server = {s}, "reject" \notin Faults, "outage" \notin Faults
  PROVE  Spec => []CopiesAgree
<1>1. Init => Agree(s)
  BY DEF Init, Agree, Differs
<1>2. Inv /\ Agree(s) /\ [Next]_vars => Agree(s)'
  BY AgreeKept
<1>3. Inv /\ Agree(s) => CopiesAgree
  <2> SUFFICES ASSUME Inv, Agree(s), Settled, NEW k \in Key
               PROVE  l1[s][k] = 0 \/ l2[k] = 0 \/ l1[s][k] = l2[k]
    BY DEF CopiesAgree
  <2>1. ASSUME NEW i \in DOMAIN wire[s]
        PROVE  FALSE
    <3>1. wire[s][i].call \in Call /\ call[wire[s][i].call].pc \in Command
      BY DEF Inv, TypeInv, TypeOK, WireOK, Waiting
    <3>2. call[wire[s][i].call].pc = "idle"
      BY <3>1 DEF Settled, Idle
    <3> QED BY <3>1, <3>2 DEF Command
  <2>2. ~Bringing(s, k)
    BY <2>1 DEF Bringing
  <2> QED BY <2>2 DEF Agree, Differs
<1> QED BY <1>1, <1>2, <1>3, Invariance, PTL DEF Spec

-----------------------------------------------------------------------------
(***************************************************************************)
(* The type registry.  A stored key that is not registered is in the hands *)
(* of a call: of one that has stored it and is yet to register it, or of   *)
(* one that has unregistered it and is yet to delete it.                   *)
(***************************************************************************)

\* The call of entry i of the wire of s is to register k, or to delete it.
PendingAt(s, i, k) ==
  LET e == wire[s][i]
      w == call[e.call]
  IN
  \/ w.pc = "SETEX" /\ k \in w.keys /\ e.status = "ok"
  \/ /\ w.op \in {"byType", "byPattern"}
     /\ \/ w.pc = "DEL" /\ (k \in w.rest \/ (k \in w.keys /\ e.status = "sent"))
        \/ w.pc = "SCAN" /\ k \in (IF e.status = "sent" THEN w.rest ELSE e.keys \cup e.rest)
Pending(s, k) == \E i \in DOMAIN wire[s] : PendingAt(s, i, k)

Covered(s, k) ==
  \/ k \in registry[s] \cup late[s]
  \/ l1[s][k] = 0 /\ (l2[k] # 0 => Pending(s, k))
Covers(s) == \A k \in Key : TypeOf[k] # NoType => Covered(s, k)

\* No command has failed.
Healthy(s) == up[s] /\ \A i \in DOMAIN wire[s] : wire[s][i].status \in {"sent", "ok"}

\* What a call that goes on leaves on the wire.
LEMMA ProceedWire ==
  ASSUME TypeOK, NEW c \in Call, NEW r \in CallRec, NEW w, Without(c, w), Proceed(c, r, w)
  PROVE  /\ r.pc \in Command =>
              \E i \in DOMAIN wire'[Home[c]] : wire'[Home[c]][i] = Sent(c)
         /\ \A i \in DOMAIN wire'[Home[c]] :
              \/ r.pc \in Command /\ wire'[Home[c]][i] = Sent(c)
              \/ \E j \in DOMAIN wire[Home[c]] : wire'[Home[c]][i] = wire[Home[c]][j]
<1> DEFINE q == wire[Home[c]]
           v == IF r.pc \in Command THEN Append(w, Sent(c)) ELSE w
<1>1. /\ Home[c] \in Server /\ w \in Seq(Entry) /\ wire \in [Server -> Seq(Entry)]
      /\ \A i \in DOMAIN w : \E j \in DOMAIN q : w[i] = q[j]
  BY HomeAssumption DEF TypeOK, Without
<1>2. wire'[Home[c]] = v
  BY <1>1 DEF Proceed
<1>3. Sent(c) \in Entry
  BY DEF Sent, Entry, Status
<1>4. CASE r.pc \in Command
  <2>1. /\ v = Append(w, Sent(c)) /\ v \in Seq(Entry) /\ Len(v) = Len(w) + 1
        /\ \A i \in 1 .. Len(w) : v[i] = w[i]
        /\ v[Len(w) + 1] = Sent(c)
    BY <1>1, <1>3, <1>4, AppendProperties
  <2> HIDE DEF v
  <2>2. Len(w) + 1 \in DOMAIN v /\ \A i \in DOMAIN v : i \in DOMAIN w \/ i = Len(w) + 1
    BY <2>1, <1>1
  <2>3. \A i \in DOMAIN w : v[i] = w[i]
    BY <2>1, <1>1
  <2> QED BY <2>1, <2>2, <2>3, <1>1, <1>2, <1>4
<1>5. CASE r.pc \notin Command
  BY <1>1, <1>2, <1>5
<1> QED BY <1>4, <1>5

\* On one server, a call goes on with a command that Redis is to execute.
LEMMA GoesHealthy ==
  ASSUME TypeInv, NEW s, Server = {s}, Healthy(s), up' = up,
         NEW c \in Call, NEW r \in CallRec, NEW w, Without(c, w), Proceed(c, r, w)
  PROVE  /\ Healthy(s)' /\ call'[c] = r
         /\ \A i \in DOMAIN wire[s] : wire[s][i].call # c => Stays(s, i)
         /\ r.pc \in Command =>
              \E i \in DOMAIN wire'[s] : wire'[s][i].call = c /\ wire'[s][i].status = "sent"
<1>1. TypeOK /\ s \in Server /\ Home[c] = s /\ up[s]
  BY HomeAssumption DEF TypeInv, Healthy
<1>2. Sent(c).status = "sent" /\ Sent(c).call = c
  BY <1>1 DEF Sent
<1>3. /\ r.pc \in Command => \E i \in DOMAIN wire'[s] : wire'[s][i] = Sent(c)
      /\ \A i \in DOMAIN wire'[s] :
           \/ wire'[s][i] = Sent(c)
           \/ \E j \in DOMAIN wire[s] : wire'[s][i] = wire[s][j]
  BY <1>1, ProceedWire
<1>4. Healthy(s)'
  BY <1>1, <1>2, <1>3 DEF Healthy
<1>5. /\ call'[c] = r
      /\ \A i \in DOMAIN wire[s] : wire[s][i].call # c => Stays(s, i)
  BY <1>1, ProceedFollows
<1> QED BY <1>2, <1>3, <1>4, <1>5

\* A call that waited for no command goes on.
LEMMA WaitsForNone ==
  ASSUME TypeInv, NEW s, Server = {s}, Healthy(s), up' = up,
         NEW c \in Call, call[c].pc \notin Command,
         NEW r \in CallRec, Proceed(c, r, wire[Home[c]])
  PROVE  /\ Healthy(s)' /\ call'[c] = r /\ AllStay
         /\ r.pc \in Command =>
              \E i \in DOMAIN wire'[s] : wire'[s][i].call = c /\ wire'[s][i].status = "sent"
<1>1. TypeOK /\ Without(c, wire[Home[c]])
  BY IdleLeavesAll DEF TypeInv
<1> QED BY <1>1, GoesHealthy, ProceedStays

\* A call begins.
LEMMA BeginHealthy ==
  ASSUME TypeInv, NEW s, Server = {s}, Healthy(s), up' = up,
         NEW c \in Call, NEW op, NEW pc \in Command,
         NEW keys \in SUBSET Key, NEW rest \in SUBSET Key, Begin(c, op, pc, keys, rest)
  PROVE  /\ Healthy(s)' /\ AllStay
         /\ call'[c].op = op /\ call'[c].pc = pc
         /\ call'[c].keys = keys /\ call'[c].rest = rest
         /\ \E i \in DOMAIN wire'[s] : wire'[s][i].call = c /\ wire'[s][i].status = "sent"
<1> DEFINE r == [Idle EXCEPT !.op = op, !.pc = pc, !.keys = keys, !.rest = rest]
<1>1. op \in Operation /\ call[c] = Idle /\ Proceed(c, r, wire[Home[c]])
  BY DEF Begin
<1>2. /\ r \in CallRec
      /\ r.op = op /\ r.pc = pc /\ r.keys = keys /\ r.rest = rest
  BY <1>1 DEF Idle, CallRec
<1>3. call[c].pc \notin Command
  BY <1>1 DEF Idle, Command
<1> HIDE DEF r
<1> QED BY <1>1, <1>2, <1>3, WaitsForNone

\* Where the entry of a call stays, so does what it is to do.
LEMMA StayPending ==
  ASSUME NEW s \in Server, NEW k \in Key, NEW i \in DOMAIN wire[s], Stays(s, i),
         PendingAt(s, i, k)
  PROVE  Pending(s, k)'
<1>1. PICK j \in DOMAIN wire'[s] : wire'[s][j] = wire[s][i]
  BY DEF Stays
<1>2. PendingAt(s, j, k)'
  BY <1>1 DEF PendingAt, Stays
<1> QED BY <1>1, <1>2 DEF Pending

\* A key stays covered if L1 and Redis take nothing, if it is unregistered only as
\* Remember records it, and if a call that is to register or delete it does.
LEMMA StaysCovered ==
  ASSUME Remember, TypeInv, NEW s \in Server, NEW k \in Key, Covered(s, k),
         l1'[s][k] \in {0, l1[s][k]}, l2'[k] \in {0, l2[k]},
         k \in registry[s] => k \in registry'[s] \/ LateUnregister(s, k),
         Pending(s, k) /\ l2'[k] # 0 => Pending(s, k)' \/ k \in registry'[s]
  PROVE  Covered(s, k)'
<1>1. SUFFICES ASSUME k \notin registry'[s], k \notin late'[s] PROVE Covered(s, k)'
  BY DEF Covered
<1>2. CASE l1'[s][k] = 0 /\ l2'[k] = 0
  BY <1>2 DEF Covered
<1>3. CASE l1'[s][k] # 0 \/ l2'[k] # 0
  <2>1. k \notin late[s] /\ ~LateUnregister(s, k)
    BY <1>1, <1>3 DEF Remember
  <2>2. l1[s][k] = 0 /\ (l2[k] # 0 => Pending(s, k))
    BY <2>1, <1>1 DEF Covered
  <2> QED BY <2>2, <1>1 DEF Covered
<1> QED BY <1>2, <1>3

\* A step that leaves all entries where they are, and unregisters nothing.
LEMMA QuietCovers ==
  ASSUME Remember, TypeInv, NEW s \in Server, Covers(s), AllStay, Drops,
         \A k \in Key : l2'[k] \in {0, l2[k]},
         registry[s] \subseteq registry'[s]
  PROVE  Covers(s)'
<1> SUFFICES ASSUME NEW k \in Key, TypeOf[k] # NoType PROVE Covered(s, k)'
  BY DEF Covers
<1>1. l1'[s][k] \in {0, l1[s][k]}
  BY DropsLower DEF TypeInv, TypeOK, State
<1>2. Pending(s, k) => Pending(s, k)'
  BY StayPending DEF Pending, AllStay
<1> QED BY <1>1, <1>2, StaysCovered DEF Covers

\* The steps of a call that neither stores nor unregisters anything yet.
LEMMA CallCovers ==
  ASSUME Remember, TypeInv, NEW s, Server = {s}, Healthy(s), Covers(s), NEW c \in Call,
         \/ \E k \in Key : Get(c, k) \/ Set(c, k) \/ Invalidate(c, k) \/ Delete(c, k)
         \/ Clear(c) \/ Fetched(c) \/ FetchFails(c) \/ Return(c)
  PROVE  Healthy(s)' /\ Covers(s)'
<1>1. s \in Server /\ Home[c] = s /\ up[s] /\ State
  BY HomeAssumption DEF Healthy, TypeInv, TypeOK, State
<1>2. ASSUME Healthy(s)', AllStay, Drops, l2' = l2, registry' = registry
      PROVE  Healthy(s)' /\ Covers(s)'
  BY <1>1, <1>2, QuietCovers
<1>3. ASSUME NEW op, NEW pc \in Command, NEW keys \in SUBSET Key, NEW rest \in SUBSET Key,
             Begin(c, op, pc, keys, rest), Drops, UNCHANGED <<l2, registry, up>>
      PROVE  Healthy(s)' /\ Covers(s)'
  BY <1>2, <1>3, BeginHealthy
<1>4. ASSUME NEW r \in CallRec, call[c].pc \notin Command, Proceed(c, r, wire[Home[c]]),
             UNCHANGED <<l1, l2, registry, up>>
      PROVE  Healthy(s)' /\ Covers(s)'
  <2>1. Drops
    BY <1>4 DEF Drops
  <2> QED BY <1>2, <1>4, <2>1, WaitsForNone
<1>5. ASSUME NEW keys \in SUBSET Key, l1' = Forget(Home[c], keys)
      PROVE  Drops
  BY <1>1, <1>5 DEF Drops
<1>6. ASSUME NEW k \in Key, Get(c, k)
      PROVE  Healthy(s)' /\ Covers(s)'
  <2>1. Drops /\ UNCHANGED <<l2, registry, up>>
    BY <1>6 DEF Get, Drops, Redis, Environment
  <2>2. CASE UNCHANGED <<call, wire>>
    <3>1. AllStay /\ Healthy(s)'
      BY <2>1, <2>2, StillMoves, <1>1 DEF Healthy
    <3> QED BY <2>1, <3>1, <1>2
  <2>3. CASE \E op \in {"get", "peek"} : Begin(c, op, "GET", {k}, {})
    BY <2>1, <2>3, <1>3 DEF Command
  <2> QED BY <2>2, <2>3, <1>6 DEF Get
<1>7. ASSUME NEW r \in CallRec, call[c].pc \notin Command, Store(c, r), up' = up
      PROVE  Healthy(s)' /\ Covers(s)'
  <2>1. Proceed(c, r, wire[Home[c]]) /\ UNCHANGED <<l1, l2, registry>>
    BY <1>1, <1>7 DEF Store, Redis
  <2> QED BY <2>1, <1>4, <1>7
<1>8. ASSUME NEW k \in Key, Set(c, k)
      PROVE  Healthy(s)' /\ Covers(s)'
  <2> DEFINE r == [Idle EXCEPT !.op = "set", !.pc = "SETEX", !.keys = {k}]
  <2>1. "set" \in Operation /\ call[c] = Idle /\ Store(c, r) /\ up' = up
    BY <1>8 DEF Set
  <2>2. r \in CallRec
    BY <2>1 DEF Idle, CallRec, Command
  <2>3. call[c].pc \notin Command
    BY <2>1 DEF Idle, Command
  <2> HIDE DEF r
  <2> QED BY <2>1, <2>2, <2>3, <1>7
<1>9. ASSUME NEW k \in Key, Invalidate(c, k)
      PROVE  Healthy(s)' /\ Covers(s)'
  <2>1. Drops /\ UNCHANGED <<l2, registry, up>>
    BY <1>5, <1>9 DEF Invalidate, Redis, Environment
  <2>2. \E op : Begin(c, op, "DEL", {k}, {})
    BY <1>9 DEF Invalidate
  <2> QED BY <2>1, <2>2, <1>3 DEF Command
<1>10. ASSUME NEW k \in Key, Delete(c, k)
       PROVE  Healthy(s)' /\ Covers(s)'
  <2>1. Drops /\ UNCHANGED <<l2, registry, up>>
    <3>1. l1' = l1 \/ l1' = Forget(Home[c], {k})
      BY <1>10 DEF Delete
    <3> QED BY <3>1, <1>5, <1>10 DEF Delete, Redis, Environment, Drops
  <2>2. \E pc \in {"EXISTS", "DEL"} : Begin(c, "delete", pc, {k}, {})
    BY <1>10 DEF Delete
  <2> QED BY <2>1, <2>2, <1>3 DEF Command
<1>11. CASE Clear(c)
  <2>1. Drops /\ UNCHANGED <<l2, registry, up>>
    BY <1>5, <1>11 DEF Clear, Redis, Environment
  <2>2. Begin(c, "clear", "SCAN", {}, Key)
    BY <1>11 DEF Clear
  <2> QED BY <2>1, <2>2, <1>3 DEF Command
<1>12. CASE Fetched(c)
  <2> DEFINE r == [call[c] EXCEPT !.pc = "SETEX"]
  <2>1. call[c].pc = "fetch" /\ Store(c, r) /\ up' = up
    BY <1>12 DEF Fetched
  <2>2. r \in CallRec /\ call[c].pc \notin Command
    <3>1. call[c] \in CallRec
      BY DEF TypeInv, TypeOK
    <3> QED BY <2>1, <3>1 DEF CallRec, Command
  <2> HIDE DEF r
  <2> QED BY <2>1, <2>2, <1>7
<1>13. CASE FetchFails(c) \/ Return(c)
  <2>1. call[c].pc \notin Command /\ Proceed(c, Idle, wire[Home[c]])
        /\ UNCHANGED <<l1, l2, registry, up>>
    BY <1>13 DEF FetchFails, Return, Redis, Environment, Command
  <2> QED BY <2>1, <1>4, IdleRec
<1> QED BY <1>6, <1>8, <1>9, <1>10, <1>11, <1>12, <1>13

\* deleteByType and deleteByPattern unregister what they are to delete.
LEMMA UnregistersCover ==
  ASSUME Remember, TypeInv, NEW s, Server = {s}, Healthy(s), Covers(s), NEW c \in Call,
         \/ \E t \in Type : DeleteByType(c, t)
         \/ \E match \in SUBSET Key : DeleteByPattern(c, match)
  PROVE  Healthy(s)' /\ Covers(s)'
<1>1. s \in Server /\ Home[c] = s /\ up[s] /\ State
  BY HomeAssumption DEF Healthy, TypeInv, TypeOK, State
<1>2. ASSUME NEW keys \in SUBSET Key, l1' = Forget(s, keys), l2' = l2,
             registry' = Unregistered(s, keys), AllStay,
             \A k \in keys : l2[k] # 0 => Pending(s, k)'
      PROVE  Covers(s)'
  <2>1. /\ \A k \in Key : l1'[s][k] = IF k \in keys THEN 0 ELSE l1[s][k]
        /\ registry'[s] = registry[s] \ keys
    BY <1>1, <1>2, FillIs DEF Forget, Unregistered, State
  <2>2. ASSUME NEW k \in Key \ keys, TypeOf[k] # NoType
        PROVE  Covered(s, k)'
    <3>1. Pending(s, k) => Pending(s, k)'
      BY <1>1, <1>2, StayPending DEF Pending, AllStay
    <3>2. l1'[s][k] = l1[s][k] /\ (k \in registry[s] => k \in registry'[s])
      BY <2>1
    <3> QED BY <3>1, <3>2, <1>1, <1>2, <2>2, StaysCovered DEF Covers
  <2>3. ASSUME NEW k \in keys
        PROVE  Covered(s, k)'
    BY <2>1, <1>2 DEF Covered
  <2> QED BY <2>2, <2>3 DEF Covers
<1>3. ASSUME NEW t \in Type, DeleteByType(c, t)
      PROVE  Healthy(s)' /\ Covers(s)'
  <2> DEFINE keys == {k \in registry[s] : TypeOf[k] = t}
             this == [Idle EXCEPT !.op = "byType", !.type = t]
  <2>1. /\ "byType" \in Operation /\ call[c].pc \notin Command
        /\ l1' = Forget(s, keys) /\ registry' = Unregistered(s, keys)
        /\ UNCHANGED <<l2, up>>
    <3>1. "byType" \in Operation /\ call[c] = Idle /\ UNCHANGED <<l2, up>>
      BY <1>3 DEF DeleteByType, Redis, Environment
    <3>2. l1' = Forget(s, keys) /\ registry' = Unregistered(s, keys)
      BY <1>1, <1>3 DEF DeleteByType
    <3> QED BY <3>1, <3>2 DEF Idle, Command
  <2>2. keys \in SUBSET Key
    BY <1>1 DEF State
  <2>3. CASE keys = {} /\ Proceed(c, [this EXCEPT !.pc = "return"], wire[s])
    <3> DEFINE r == [this EXCEPT !.pc = "return"]
    <3>1. r \in CallRec
      BY <2>1 DEF Idle, CallRec
    <3> HIDE DEF r, this
    <3>2. Healthy(s)' /\ AllStay
      BY <1>1, <2>1, <2>3, <3>1, WaitsForNone DEF r
    <3> HIDE DEF keys
    <3> QED BY <2>1, <2>2, <2>3, <3>2, <1>2
  <2>4. ASSUME NEW k \in keys,
               Proceed(c, [this EXCEPT !.pc = "DEL", !.keys = {k}, !.rest = keys \ {k}], wire[s])
        PROVE  Healthy(s)' /\ Covers(s)'
    <3> DEFINE r == [this EXCEPT !.pc = "DEL", !.keys = {k}, !.rest = keys \ {k}]
    <3>1. /\ r \in CallRec
          /\ r.op = "byType" /\ r.pc = "DEL" /\ r.keys = {k} /\ r.rest = keys \ {k}
      BY <2>1, <2>2 DEF Idle, CallRec, Command
    <3> HIDE DEF r, this
    <3>2. /\ Healthy(s)' /\ AllStay /\ call'[c] = r
          /\ r.pc \in Command =>
               \E i \in DOMAIN wire'[s] : wire'[s][i].call = c /\ wire'[s][i].status = "sent"
      <4>1. Proceed(c, r, wire[Home[c]])
        BY <1>1, <2>4 DEF r
      <4> QED BY <4>1, <1>1, <2>1, <3>1, WaitsForNone
    <3>3. PICK i \in DOMAIN wire'[s] : wire'[s][i].call = c /\ wire'[s][i].status = "sent"
      BY <3>1, <3>2 DEF Command
    <3> HIDE DEF keys
    <3>4. \A n \in keys : PendingAt(s, i, n)'
      BY <3>1, <3>2, <3>3 DEF PendingAt
    <3> QED BY <2>1, <2>2, <3>2, <3>4, <1>2 DEF Pending
  <2> QED BY <1>1, <1>3, <2>3, <2>4 DEF DeleteByType
<1>4. ASSUME NEW match \in SUBSET Key, DeleteByPattern(c, match)
      PROVE  Healthy(s)' /\ Covers(s)'
  <2> DEFINE keys == {k \in match : l1[s][k] # 0}
  <2>1. /\ Begin(c, "byPattern", "SCAN", {}, match)
        /\ l1' = Forget(s, keys) /\ registry' = Unregistered(s, keys)
        /\ UNCHANGED <<l2, up>> /\ "SCAN" \in Command
    BY <1>1, <1>4 DEF DeleteByPattern, Redis, Environment, Command
  <2>2. keys \in SUBSET Key
    OBVIOUS
  <2>3. /\ Healthy(s)' /\ AllStay
        /\ call'[c].op = "byPattern" /\ call'[c].pc = "SCAN" /\ call'[c].rest = match
    BY <2>1, <1>1, BeginHealthy
  <2>4. PICK i \in DOMAIN wire'[s] : wire'[s][i].call = c /\ wire'[s][i].status = "sent"
    BY <2>1, <1>1, BeginHealthy
  <2>5. \A k \in keys : PendingAt(s, i, k)'
    BY <2>3, <2>4 DEF PendingAt
  <2> HIDE DEF keys
  <2> QED BY <2>1, <2>2, <2>3, <2>5, <1>2 DEF Pending
<1> QED BY <1>3, <1>4

\* What a reply holds.
LEMMA ReplyIs ==
  ASSUME TypeInv, NEW s \in Server, NEW i \in DOMAIN wire[s], NEW r, NEW keys, NEW rest,
         Reply(s, i, r, keys, rest)
  PROVE  wire'[s][i].keys = keys /\ wire'[s][i].rest = rest
<1> DEFINE e == [wire[s][i] EXCEPT !.status = "ok", !.rank = r, !.keys = keys, !.rest = rest]
<1>1. wire' = [wire EXCEPT ![s] = [@ EXCEPT ![i] = e]]
  BY DEF Reply
<1>2. e.keys = keys /\ e.rest = rest
  <2>1. wire[s][i] \in Entry
    BY EntryTypes
  <2> QED BY <2>1 DEF Entry
<1>3. wire \in [Server -> Seq(Entry)]
  BY DEF TypeInv, TypeOK
<1> HIDE DEF e
<1> QED BY <1>1, <1>2, <1>3

\* Redis stores a key for a call that is to register it, and finds or deletes
\* what a call is to delete.
LEMMA ExecuteCovers ==
  ASSUME Remember, TypeInv, NEW s, Server = {s}, Healthy(s), Covers(s),
         NEW i \in DOMAIN wire[s], Execute(s, i)
  PROVE  Healthy(s)' /\ Covers(s)'
<1> DEFINE c == wire[s][i].call
           w == call[c]
<1>1. /\ s \in Server /\ UNCHANGED <<call, up, l1, registry>>
      /\ wire[s][i].status = "sent"
  BY DEF Execute, Environment, Foremost
<1>2. /\ DOMAIN wire'[s] = DOMAIN wire[s]
      /\ \A j \in DOMAIN wire[s] : j # i => wire'[s][j] = wire[s][j]
      /\ wire'[s][i].call = c /\ wire'[s][i].status = "ok"
  BY <1>1, ExecuteTypes
<1>3. Healthy(s)'
  BY <1>1, <1>2 DEF Healthy
<1>4. \A j \in DOMAIN wire[s] : j # i => Stays(s, j)
  BY <1>1, <1>2 DEF Stays
<1> HIDE DEF c, w
<1>5. \A k \in Key : PendingAt(s, i, k)' <=>
        \/ w.pc = "SETEX" /\ k \in w.keys
        \/ /\ w.op \in {"byType", "byPattern"}
           /\ \/ w.pc = "DEL" /\ k \in w.rest
              \/ w.pc = "SCAN" /\ k \in wire'[s][i].keys \cup wire'[s][i].rest
  BY <1>1, <1>2 DEF PendingAt, w, c
<1>6. \A k \in Key : PendingAt(s, i, k) =>
        /\ w.op \in {"byType", "byPattern"}
        /\ \/ w.pc = "DEL" /\ k \in w.rest \cup w.keys
           \/ w.pc = "SCAN" /\ k \in w.rest
  BY <1>1 DEF PendingAt, w, c
<1>7. ASSUME NEW k \in Key, w.pc # "SETEX" \/ k \notin w.keys
      PROVE  l2'[k] = IF w.pc = "DEL" /\ k \in w.keys THEN 0 ELSE l2[k]
  BY <1>7 DEF Execute, Redis, w, c
<1>8. ASSUME NEW k \in Key, w.pc = "SCAN", k \in w.rest, l2[k] # 0
      PROVE  k \in wire'[s][i].keys \cup wire'[s][i].rest
  <2>1. PICK page \in SUBSET w.rest : Reply(s, i, 0, {n \in page : l2[n] # 0}, w.rest \ page)
    BY <1>8 DEF Execute, w, c
  <2>2. wire'[s][i].keys = {n \in page : l2[n] # 0} /\ wire'[s][i].rest = w.rest \ page
    BY <2>1, <1>1, ReplyIs
  <2> QED BY <2>2, <1>8
<1>9. ASSUME NEW k \in Key, TypeOf[k] # NoType
      PROVE  Covered(s, k)'
  <2>1. Covered(s, k)
    BY <1>9 DEF Covers
  <2>2. CASE w.pc = "SETEX" /\ k \in w.keys
    <3>1. Pending(s, k)'
      BY <2>2, <1>2, <1>5 DEF Pending
    <3>2. k \in registry[s] \cup late[s] => k \in registry'[s] \/ k \in late'[s]
      <4>1. l2'[k] # 0
        <5>1. l2' = [n \in Key |-> IF n \in w.keys THEN writes + 1 ELSE l2[n]]
          BY <2>2 DEF Execute, w, c
        <5> QED BY <5>1, <2>2 DEF TypeInv, TypeOK
      <4> QED BY <4>1, <1>1 DEF Remember
    <3> QED BY <3>1, <3>2, <2>1, <1>1 DEF Covered
  <2>3. CASE w.pc # "SETEX" \/ k \notin w.keys
    <3>1. l2'[k] = IF w.pc = "DEL" /\ k \in w.keys THEN 0 ELSE l2[k]
      BY <2>3, <1>7
    <3>2. ASSUME NEW j \in DOMAIN wire[s], PendingAt(s, j, k), l2'[k] # 0
          PROVE  Pending(s, k)'
      <4>1. CASE j # i
        BY <4>1, <3>2, <1>1, <1>4, StayPending
      <4>2. CASE j = i
        <5>1. PendingAt(s, i, k)'
          BY <4>2, <3>1, <3>2, <1>5, <1>6, <1>8
        <5> QED BY <5>1, <1>2 DEF Pending
      <4> QED BY <4>1, <4>2
    <3> QED BY <3>1, <3>2, <2>1, <1>1, StaysCovered DEF Pending
  <2> QED BY <2>2, <2>3
<1> QED BY <1>3, <1>9 DEF Covers

\* A reply is handled: a call that unregisters a key only then is one of those
\* that Remember records.
LEMMA HandleCovers ==
  ASSUME Remember, TypeInv, NEW s, Server = {s}, Healthy(s), Covers(s),
         NEW i \in DOMAIN wire[s], Handle(s, i)
  PROVE  Healthy(s)' /\ Covers(s)'
<1> DEFINE e == wire[s][i]
           c == e.call
           w == call[c]
           left == RemoveAt(wire[s], i)
<1>1. /\ s \in Server /\ up' = up /\ l2' = l2
      /\ c \in Call /\ Home[c] = s /\ Without(c, left)
      /\ w \in Rec /\ w \in CallRec /\ State /\ TypeOK
  BY HandledLeavesRest DEF Handle, Redis, Environment, TypeInv, TypeOK, State
<1>2. e.status = "ok"
  BY DEF Healthy, Handle, Ready
<1>3. \A j \in DOMAIN wire[s] : j # i => wire[s][j].call # c
  BY <1>1 DEF TypeOK, WireOK
<1>4. \/ AnswerGet(c, w, e, left) \/ AnswerSet(c, w, e, left) \/ AnswerExists(c, w, left)
      \/ AnswerDel(c, w, e, left) \/ AnswerPublish(c, w, left) \/ AnswerScan(c, w, e, left)
  BY <1>2 DEF Handle
<1>5. e.keys \in SUBSET Key /\ e.rest \in SUBSET Key /\ e.rank \in Nat
  BY <1>1, EntryTypes
<1> HIDE DEF left, w, c, e
<1>6. ASSUME NEW r \in CallRec, Proceed(c, r, left)
      PROVE  /\ Healthy(s)' /\ call'[c] = r
             /\ \A j \in DOMAIN wire[s] : j # i => Stays(s, j)
             /\ r.pc \in Command =>
                  \E j \in DOMAIN wire'[s] : wire'[s][j].call = c /\ wire'[s][j].status = "sent"
  BY <1>1, <1>3, <1>6, GoesHealthy
<1>7. ASSUME NEW r \in CallRec, Proceed(c, r, left), NEW k \in Key, TypeOf[k] # NoType,
             l1'[s][k] \in {0, l1[s][k]},
             k \in registry[s] => k \in registry'[s] \/ LateUnregister(s, k),
             PendingAt(s, i, k) => Pending(s, k)' \/ k \in registry'[s]
      PROVE  Covered(s, k)'
  <2>1. Pending(s, k) => Pending(s, k)' \/ k \in registry'[s]
    BY <1>1, <1>6, <1>7, StayPending DEF Pending
  <2> QED BY <2>1, <1>1, <1>7, StaysCovered DEF Covers
<1>8. \A k \in Key : PendingAt(s, i, k) <=>
        \/ w.pc = "SETEX" /\ k \in w.keys
        \/ /\ w.op \in {"byType", "byPattern"}
           /\ \/ w.pc = "DEL" /\ k \in w.rest
              \/ w.pc = "SCAN" /\ k \in e.keys \cup e.rest
  BY <1>2 DEF PendingAt, w, c, e
<1>9. Idle \in CallRec
  BY IdleRec
<1>10. CASE AnswerGet(c, w, e, left)
  <2>1. w.pc = "GET" /\ w.op \in {"get", "peek"} /\ Proceed(c, Idle, left)
    BY <1>1, <1>10 DEF AnswerGet, Rec, Fits
  <2>2. call'[c] = Idle /\ Idle # w
    BY <2>1, <1>6, <1>9 DEF Idle
  <2>3. ASSUME NEW k \in Key, TypeOf[k] # NoType
        PROVE  Covered(s, k)'
    <3>1. CASE UNCHANGED <<l1, registry>>
      <4>1. ~PendingAt(s, i, k)
        BY <2>1, <1>8
      <4> QED BY <4>1, <3>1, <2>1, <2>3, <1>7, <1>9
    <3>2. CASE /\ e.rank # 0 /\ l1' = Fill(s, w.keys, e.rank)
               /\ registry' = IF w.op = "get" THEN Registered(s, w.keys) ELSE registry
      <4>1. l1'[s][k] = IF k \in w.keys THEN e.rank ELSE l1[s][k]
        BY <3>2, <1>1, <1>5, FillIs
      <4>2. CASE k \notin w.keys
        <5>1. ~PendingAt(s, i, k) /\ (k \in registry[s] => k \in registry'[s])
          BY <2>1, <3>2, <1>1, <1>8 DEF Registered, State
        <5> QED BY <4>1, <4>2, <5>1, <2>1, <2>3, <1>7, <1>9
      <4>3. CASE k \in w.keys /\ w.op = "get"
        <5>1. k \in registry'[s]
          BY <4>3, <3>2, <2>3, <1>1 DEF Registered, State
        <5> QED BY <5>1 DEF Covered
      <4>4. CASE k \in w.keys /\ w.op = "peek"
        <5>1. LatePeek(s, k)
          BY <4>4, <2>2, <1>1 DEF LatePeek, w
        <5>2. k \in registry'[s] \/ k \in late'[s]
          BY <5>1, <4>1, <4>4, <3>2, <1>1 DEF Remember
        <5> QED BY <5>2 DEF Covered
      <4> QED BY <4>2, <4>3, <4>4, <2>1
    <3> QED BY <3>1, <3>2, <1>1, <1>10 DEF AnswerGet
  <2> QED BY <2>1, <2>3, <1>6, <1>9 DEF Covers
<1>11. CASE AnswerSet(c, w, e, left)
  <2>1. /\ Proceed(c, Idle, left) /\ w.pc = "SETEX"
        /\ l1' = Fill(s, w.keys, e.rank) /\ registry' = Registered(s, w.keys)
    BY <1>1, <1>11 DEF AnswerSet, StoreL1
  <2>2. ASSUME NEW k \in Key, TypeOf[k] # NoType
        PROVE  Covered(s, k)'
    <3>1. registry'[s] = registry[s] \cup {n \in w.keys : TypeOf[n] # NoType}
      BY <2>1, <1>1 DEF Registered, State
    <3>2. l1'[s][k] = IF k \in w.keys THEN e.rank ELSE l1[s][k]
      BY <2>1, <1>1, <1>5, FillIs
    <3>3. CASE k \in w.keys
      BY <3>1, <3>3, <2>2 DEF Covered
    <3>4. CASE k \notin w.keys
      <4>1. ~PendingAt(s, i, k)
        BY <3>4, <2>1, <1>8
      <4> QED BY <4>1, <3>1, <3>2, <3>4, <2>1, <2>2, <1>7, <1>9
    <3> QED BY <3>3, <3>4
  <2> QED BY <2>1, <2>2, <1>6, <1>9 DEF Covers
<1>12. CASE AnswerExists(c, w, left)
  <2> DEFINE r == [w EXCEPT !.pc = "DEL"]
  <2>1. /\ w.pc = "EXISTS" /\ Proceed(c, r, left)
        /\ l1' = Forget(s, w.keys) /\ registry' = registry
    BY <1>1, <1>12 DEF AnswerExists
  <2>2. r \in CallRec
    BY <1>1 DEF CallRec, Command
  <2> HIDE DEF r
  <2>3. ASSUME NEW k \in Key, TypeOf[k] # NoType
        PROVE  Covered(s, k)'
    <3>1. l1'[s][k] \in {0, l1[s][k]}
      BY <2>1, <1>1, FillIs DEF Forget
    <3>2. ~PendingAt(s, i, k)
      BY <2>1, <1>8
    <3> QED BY <3>1, <3>2, <2>1, <2>2, <2>3, <1>7
  <2> QED BY <2>1, <2>2, <2>3, <1>6 DEF Covers
<1>13. ASSUME NEW r \in CallRec, Proceed(c, r, left), r # w, l1' = l1,
              w.pc \in {"DEL", "PUBLISH", "SCAN"},
              \A k \in Key : PendingAt(s, i, k) => Pending(s, k)',
              \/ registry' = registry
              \/ /\ w.op \notin {"byType", "byPattern"}
                 /\ registry' = Unregistered(s, w.keys) \/ registry' = [registry EXCEPT ![s] = {}]
       PROVE  Healthy(s)' /\ Covers(s)'
  <2>1. Healthy(s)' /\ call'[c] # w
    BY <1>6, <1>13
  <2>2. ASSUME NEW k \in Key, TypeOf[k] # NoType
        PROVE  Covered(s, k)'
    <3>1. k \in registry[s] => k \in registry'[s] \/ LateUnregister(s, k)
      <4>1. CASE registry' = registry
        BY <4>1
      <4>2. CASE w.op \notin {"byType", "byPattern"}
        <5>1. k \in registry[s] => LateUnregister(s, k)
          BY <4>2, <2>1, <1>1, <1>13 DEF LateUnregister, w
        <5> QED BY <5>1
      <4> QED BY <4>1, <4>2, <1>13
    <3> QED BY <3>1, <2>2, <1>7, <1>13
  <2> QED BY <2>1, <2>2 DEF Covers
<1>14. ASSUME NEW r \in CallRec, Proceed(c, r, left), r.op = w.op, r.pc \in Command
       PROVE  \E j \in DOMAIN wire'[s] :
                \A k \in Key :
                  /\ w.op \in {"byType", "byPattern"} /\ r.pc = "DEL" /\ k \in r.keys \cup r.rest =>
                       PendingAt(s, j, k)'
                  /\ w.op \in {"byType", "byPattern"} /\ r.pc = "SCAN" /\ k \in r.rest =>
                       PendingAt(s, j, k)'
  <2>1. PICK j \in DOMAIN wire'[s] : wire'[s][j].call = c /\ wire'[s][j].status = "sent"
    BY <1>6, <1>14
  <2>2. call'[wire'[s][j].call] = r
    BY <2>1, <1>6, <1>14
  <2> QED BY <2>1, <2>2, <1>14 DEF PendingAt
<1>15. CASE AnswerPublish(c, w, left)
  <2>1. w.pc = "PUBLISH" /\ l1' = l1 /\ registry' = Unregistered(s, w.keys)
        /\ w.op \in {"broadcast", "put"}
    BY <1>1, <1>15 DEF AnswerPublish
  <2>2. \E r \in CallRec : Proceed(c, r, left) /\ r # w
    <3>1. CASE Proceed(c, Idle, left)
      BY <3>1, <2>1, <1>9 DEF Idle
    <3>2. CASE Proceed(c, [w EXCEPT !.pc = "SETEX"], left)
      <4>1. [w EXCEPT !.pc = "SETEX"] \in CallRec /\ [w EXCEPT !.pc = "SETEX"].pc = "SETEX"
        BY <1>1 DEF CallRec, Command
      <4> QED BY <4>1, <3>2, <2>1
    <3> QED BY <3>1, <3>2, <1>15 DEF AnswerPublish
  <2>3. \A k \in Key : ~PendingAt(s, i, k)
    BY <2>1, <1>8
  <2> QED BY <2>1, <2>2, <2>3, <1>13
<1>16. CASE AnswerDel(c, w, e, left)
  <2>1. w.pc = "DEL" /\ l1' = l1
    BY <1>16 DEF AnswerDel
  <2>2. CASE w.op = "byType"
    <3>1. registry' = registry
      BY <2>2, <1>16 DEF AnswerDel
    <3>2. CASE w.rest = {} /\ Proceed(c, Idle, left)
      <4>1. \A k \in Key : ~PendingAt(s, i, k)
        BY <3>2, <2>1, <1>8
      <4>2. Idle # w
        BY <2>1 DEF Idle
      <4> QED BY <4>1, <4>2, <3>1, <3>2, <2>1, <1>9, <1>13
    <3>3. ASSUME NEW n \in w.rest, Proceed(c, [w EXCEPT !.keys = {n}, !.rest = @ \ {n}], left)
          PROVE  Healthy(s)' /\ Covers(s)'
      <4> DEFINE r == [w EXCEPT !.keys = {n}, !.rest = @ \ {n}]
      <4>1. /\ r \in CallRec /\ r.op = w.op /\ r.pc = "DEL"
            /\ r.keys = {n} /\ r.rest = w.rest \ {n}
        BY <2>1, <1>1 DEF CallRec
      <4>2. Proceed(c, r, left)
        BY <3>3
      <4> HIDE DEF r
      <4>3. PICK j \in DOMAIN wire'[s] :
              \A k \in Key : k \in r.keys \cup r.rest => PendingAt(s, j, k)'
        BY <4>1, <4>2, <2>2, <1>14 DEF Command
      <4>4. \A k \in Key : PendingAt(s, i, k) => Pending(s, k)'
        BY <4>1, <4>3, <2>1, <1>8 DEF Pending
      <4>5. r # w
        BY <4>1, <3>3
      <4> QED BY <4>1, <4>2, <4>4, <4>5, <3>1, <2>1, <1>13
    <3> QED BY <3>2, <3>3, <2>2, <1>16 DEF AnswerDel
  <2>3. CASE w.op # "byType"
    <3>1. /\ w.op \in {"delete", "invalidate", "refresh", "broadcast", "put"}
          /\ registry' = registry \/ registry' = Unregistered(s, w.keys)
      BY <2>3, <1>1, <1>16 DEF AnswerDel
    <3>2. \E r \in CallRec : Proceed(c, r, left) /\ r # w
      <4>1. Idle.pc = "idle"
        BY DEF Idle
      <4>2. [w EXCEPT !.pc = "fetch"] \in CallRec /\ [w EXCEPT !.pc = "fetch"].pc = "fetch"
        BY <1>1 DEF CallRec
      <4>3. /\ [w EXCEPT !.pc = "PUBLISH", !.cut = e.rank] \in CallRec
            /\ [w EXCEPT !.pc = "PUBLISH", !.cut = e.rank].pc = "PUBLISH"
        BY <1>1, <1>5 DEF CallRec, Command
      <4>4. \/ Proceed(c, Idle, left) \/ Proceed(c, [w EXCEPT !.pc = "fetch"], left)
            \/ Proceed(c, [w EXCEPT !.pc = "PUBLISH", !.cut = e.rank], left)
        BY <2>3, <1>16 DEF AnswerDel
      <4> QED BY <4>1, <4>2, <4>3, <4>4, <2>1, <1>9
    <3>3. \A k \in Key : ~PendingAt(s, i, k)
      BY <3>1, <2>1, <1>8
    <3> QED BY <3>1, <3>2, <3>3, <2>1, <1>13
  <2> QED BY <2>2, <2>3
<1>17. CASE AnswerScan(c, w, e, left)
  <2> DEFINE rest == IF w.pc = "SCAN" THEN e.rest ELSE w.rest
  <2>1. w.op \in {"byPattern", "clear"} /\ w.pc \in {"SCAN", "DEL"} /\ l1' = l1
    BY <1>1, <1>17 DEF AnswerScan, Rec, Fits
  <2>2. rest \in SUBSET Key /\ w.rest \in SUBSET Key
    BY <1>1, <1>5 DEF CallRec
  <2>3. \A k \in Key : PendingAt(s, i, k) =>
          w.op = "byPattern" /\ (k \in rest \/ (w.pc = "SCAN" /\ k \in e.keys))
    BY <2>1, <1>8
  <2>4. CASE /\ w.pc = "SCAN" /\ e.keys # {}
             /\ Proceed(c, [w EXCEPT !.pc = "DEL", !.keys = e.keys, !.rest = rest], left)
             /\ UNCHANGED registry
    <3> DEFINE r == [w EXCEPT !.pc = "DEL", !.keys = e.keys, !.rest = rest]
    <3>1. /\ r \in CallRec /\ r.op = w.op /\ r.pc = "DEL" /\ r.keys = e.keys /\ r.rest = rest
      BY <2>2, <1>1, <1>5 DEF CallRec, Command
    <3>2. Proceed(c, r, left)
      BY <2>4
    <3> HIDE DEF r, rest
    <3>3. PICK j \in DOMAIN wire'[s] :
            \A k \in Key : w.op = "byPattern" /\ k \in r.keys \cup r.rest => PendingAt(s, j, k)'
      BY <3>1, <3>2, <1>14 DEF Command
    <3>4. \A k \in Key : PendingAt(s, i, k) => Pending(s, k)'
      BY <3>1, <3>3, <2>3 DEF Pending
    <3>5. r # w
      BY <3>1, <2>4
    <3> QED BY <3>1, <3>2, <3>4, <3>5, <2>1, <2>4, <1>13
  <2>5. CASE /\ e.keys = {} \/ w.pc = "DEL"
             /\ rest # {}
             /\ Proceed(c, [w EXCEPT !.pc = "SCAN", !.keys = {}, !.rest = rest], left)
             /\ UNCHANGED registry
    <3> DEFINE r == [w EXCEPT !.pc = "SCAN", !.keys = {}, !.rest = rest]
    <3>1. /\ r \in CallRec /\ r.op = w.op /\ r.pc = "SCAN" /\ r.rest = rest
      BY <2>2, <1>1 DEF CallRec, Command
    <3>2. Proceed(c, r, left)
      BY <2>5
    <3> HIDE DEF r, rest
    <3>3. PICK j \in DOMAIN wire'[s] :
            \A k \in Key : w.op = "byPattern" /\ k \in r.rest => PendingAt(s, j, k)'
      BY <3>1, <3>2, <1>14 DEF Command
    <3>4. \A k \in Key : PendingAt(s, i, k) => Pending(s, k)'
      BY <3>1, <3>3, <2>1, <2>3, <2>5 DEF Pending
    <3>5. Healthy(s)' /\ call'[c] = r
      BY <3>1, <3>2, <1>6
    <3>6. ASSUME NEW k \in Key, TypeOf[k] # NoType
          PROVE  Covered(s, k)'
      BY <3>1, <3>2, <3>4, <3>6, <2>1, <2>5, <1>7
    <3> QED BY <3>5, <3>6 DEF Covers
  <2>6. CASE /\ rest = {} /\ (e.keys = {} \/ w.pc = "DEL")
             /\ registry' = IF w.op = "clear" THEN [registry EXCEPT ![s] = {}] ELSE registry
             /\ Proceed(c, Idle, left)
    <3>1. \A k \in Key : ~PendingAt(s, i, k)
      BY <2>3, <2>6
    <3>2. Idle # w
      BY <2>1 DEF Idle
    <3> QED BY <3>1, <3>2, <2>1, <2>6, <1>9, <1>13
  <2> QED BY <2>4, <2>5, <2>6, <1>1, <1>2, <1>17 DEF AnswerScan
<1> QED BY <1>4, <1>10, <1>11, <1>12, <1>15, <1>16, <1>17

\* At first nothing is stored.
LEMMA InitCovers ==
  ASSUME NEW s \in Server
  PROVE  Init => Healthy(s) /\ Covers(s)
<1> SUFFICES ASSUME Init PROVE Healthy(s) /\ Covers(s)
  OBVIOUS
<1>1. up[s] /\ DOMAIN wire[s] = {}
  BY DEF Init
<1>2. \A k \in Key : l1[s][k] = 0 /\ l2[k] = 0
  BY DEF Init
<1> QED BY <1>1, <1>2 DEF Healthy, Covers, Covered

\* Every step of a server whose commands succeed keeps its keys covered.
LEMMA CoversKept ==
  ASSUME NEW s, Server = {s}, "reject" \notin Faults, "outage" \notin Faults
  PROVE  TypeInv /\ Healthy(s) /\ Covers(s) /\ [Next]_vars => Healthy(s)' /\ Covers(s)'
<1> SUFFICES ASSUME TypeInv, Healthy(s), Covers(s), [Next]_vars
             PROVE  Healthy(s)' /\ Covers(s)'
  OBVIOUS
<1>1. CASE UNCHANGED vars
  BY <1>1 DEF vars, Healthy, Covers, Covered, Pending, PendingAt
<1>2. CASE Next
  <2>1. Step /\ Remember /\ s \in Server /\ State
    BY <1>2 DEF Next, TypeInv, TypeOK, State
  <2>2. ASSUME NEW t \in Server
        PROVE  ~Disconnect(t) /\ \A i \in DOMAIN wire[t] : ~CommandFails(t, i)
    BY DEF Disconnect, CommandFails, Fault
  <2>3. ASSUME \/ \E k \in Key : LoseL1(s, k) \/ LoseL2(k)
               \/ Deliver(s) \/ LoseMessage(s) \/ Reconnect(s)
        PROVE  Healthy(s)' /\ Covers(s)'
    <3>1. UNCHANGED <<call, wire, registry>>
      BY <2>3 DEF LoseL1, LoseL2, Deliver, LoseMessage, Reconnect
    <3>2. up'[s]
      BY <2>3 DEF LoseL1, LoseL2, Deliver, LoseMessage, Reconnect, Healthy
    <3>3. \A k \in Key : l2'[k] \in {0, l2[k]}
      BY <2>1, <2>3 DEF LoseL1, LoseL2, Deliver, LoseMessage, Reconnect, Redis, State
    <3>4. Drops
      <4>1. CASE l1' = l1
        BY <4>1 DEF Drops
      <4>2. ASSUME NEW k \in Key, LoseL1(s, k)
            PROVE  Drops
        BY <4>2, <2>1 DEF LoseL1, Drops
      <4>3. CASE Deliver(s)
        <5>1. inbox[s] \in Seq(Message) /\ inbox[s] # <<>>
          BY <4>3, <2>1 DEF Deliver, State
        <5>2. Head(inbox[s]) \in Message
          BY <5>1, HeadTailProperties
        <5>3. Head(inbox[s]).key \in Key
          BY <5>2 DEF Message
        <5> QED BY <5>3, <4>3, <2>1 DEF Deliver, Drops
      <4> QED BY <4>1, <4>2, <4>3, <2>3 DEF LoseL2, LoseMessage, Reconnect
    <3>5. AllStay /\ Healthy(s)'
      BY <3>1, <3>2, StillMoves DEF Healthy
    <3> QED BY <3>1, <3>3, <3>4, <3>5, <2>1, QuietCovers
  <2>4. ASSUME NEW c \in Call,
               \/ \E k \in Key : Get(c, k) \/ Set(c, k) \/ Invalidate(c, k) \/ Delete(c, k)
               \/ \E t \in Type : DeleteByType(c, t)
               \/ \E match \in SUBSET Key : DeleteByPattern(c, match)
               \/ Clear(c) \/ Fetched(c) \/ FetchFails(c) \/ Return(c)
        PROVE  Healthy(s)' /\ Covers(s)'
    BY <2>1, <2>4, CallCovers, UnregistersCover
  <2>5. ASSUME NEW i \in DOMAIN wire[s], Execute(s, i) \/ Handle(s, i)
        PROVE  Healthy(s)' /\ Covers(s)'
    BY <2>1, <2>5, ExecuteCovers, HandleCovers
  <2> QED BY <2>1, <2>2, <2>3, <2>4, <2>5 DEF Step
<1> QED BY <1>1, <1>2

\* On one server, once no call is under way, deleteByType finds each stored key of
\* a type, but for those that another call unregistered after it had awaited Redis,
\* or that were read without their type: for every number of calls and keys, and
\* whatever the calls do.
THEOREM OneServerRegisters ==
  ASSUME NEW s, Server = {s}, "reject" \notin Faults, "outage" \notin Faults
  PROVE  Spec => []RegistryCovers
<1>1. Init => Healthy(s) /\ Covers(s)
  BY InitCovers
<1>2. TypeInv /\ Healthy(s) /\ Covers(s) /\ [Next]_vars => Healthy(s)' /\ Covers(s)'
  BY CoversKept
<1>3. TypeInv /\ Covers(s) => RegistryCovers
  <2> SUFFICES ASSUME TypeInv, Covers(s), Settled, NEW k \in Key,
                      TypeOf[k] # NoType, l1[s][k] # 0 \/ l2[k] # 0
               PROVE  k \in registry[s] \cup late[s]
    BY DEF RegistryCovers
  <2>1. ASSUME NEW i \in DOMAIN wire[s]
        PROVE  FALSE
    <3>1. wire[s][i].call \in Call /\ call[wire[s][i].call].pc \in Command
      BY DEF TypeInv, TypeOK, WireOK, Waiting
    <3>2. call[wire[s][i].call].pc = "idle"
      BY <3>1 DEF Settled, Idle
    <3> QED BY <3>1, <3>2 DEF Command
  <2>2. ~Pending(s, k)
    BY <2>1 DEF Pending
  <2> QED BY <2>2 DEF Covers, Covered
<1> QED BY <1>1, <1>2, <1>3, InitTypes, TypesKept, PTL DEF Spec

=============================================================================
