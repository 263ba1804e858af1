-------------------------- MODULE CoherenceProofs --------------------------
(***************************************************************************)
(* Theorems about Coherence, for every number of servers, calls and keys   *)
(* and with every fault: its types, what a broadcast purges, and that each *)
(* L1 implements MonotonicReads.  Each step is first classified (Kinds),   *)
(* by what it does to the values on their way; the invariant is then       *)
(* proved for each kind.                                                   *)
(***************************************************************************)
EXTENDS Coherence, SequenceTheorems, TLAPS

-----------------------------------------------------------------------------
(***************************************************************************)
(* The wires.  All steps but those of Redis only drop entries from a wire, *)
(* and append or leave on it commands without a reply.                     *)
(***************************************************************************)

\* What is left of a sequence without its i-th element.
LEMMA RemoveAtSkips ==
  ASSUME NEW S, NEW q \in Seq(S), NEW i \in DOMAIN q
  PROVE  /\ RemoveAt(q, i) \in Seq(S)
         /\ Len(RemoveAt(q, i)) = Len(q) - 1
         /\ \A j \in 1 .. Len(q) - 1 : RemoveAt(q, i)[j] = q[IF j < i THEN j ELSE j + 1]
<1> DEFINE a == SubSeq(q, 1, i - 1)
           b == SubSeq(q, i + 1, Len(q))
<1>1. Len(q) \in Nat /\ i \in 1 .. Len(q) /\ \A j \in 1 .. Len(q) : q[j] \in S
  OBVIOUS
<1>2. /\ a \in Seq(S) /\ Len(a) = i - 1
      /\ \A j \in 1 .. i - 1 : a[j] = q[j]
  <2>1. 1 \in Int /\ i - 1 \in Int /\ \A j \in 1 .. i - 1 : q[j] \in S
    BY <1>1
  <2>2. /\ a \in Seq(S)
        /\ Len(a) = IF 1 <= i - 1 THEN i - 1 - 1 + 1 ELSE 0
        /\ \A j \in 1 .. i - 1 - 1 + 1 : a[j] = q[1 + j - 1]
    BY <2>1, SubSeqProperties
  <2> QED BY <1>1, <2>2
<1>3. /\ b \in Seq(S) /\ Len(b) = Len(q) - i
      /\ \A j \in 1 .. Len(q) - i : b[j] = q[i + j]
  <2>1. i + 1 \in Int /\ Len(q) \in Int /\ \A j \in i + 1 .. Len(q) : q[j] \in S
    BY <1>1
  <2>2. /\ b \in Seq(S)
        /\ Len(b) = IF i + 1 <= Len(q) THEN Len(q) - (i + 1) + 1 ELSE 0
        /\ \A j \in 1 .. Len(q) - (i + 1) + 1 : b[j] = q[i + 1 + j - 1]
    BY <2>1, SubSeqProperties
  <2> QED BY <1>1, <2>2
<1>4. /\ a \o b \in Seq(S)
      /\ Len(a \o b) = Len(a) + Len(b)
      /\ \A j \in 1 .. Len(a) + Len(b) :
           (a \o b)[j] = IF j <= Len(a) THEN a[j] ELSE b[j - Len(a)]
  BY <1>2, <1>3, ConcatProperties
<1>5. RemoveAt(q, i) = a \o b
  BY DEF RemoveAt
<1> HIDE DEF a, b
<1>6. \A j \in 1 .. Len(q) - 1 : (a \o b)[j] = q[IF j < i THEN j ELSE j + 1]
  <2> TAKE j \in 1 .. Len(q) - 1
  <2>1. CASE j < i
    BY <2>1, <1>1, <1>2, <1>3, <1>4
  <2>2. CASE ~(j < i)
    <3>1. j - (i - 1) \in 1 .. Len(q) - i /\ j \in 1 .. Len(a) + Len(b) /\ ~(j <= Len(a))
      BY <2>2, <1>1, <1>2, <1>3
    <3>2. (a \o b)[j] = b[j - (i - 1)]
      BY <3>1, <1>2, <1>4
    <3>3. b[j - (i - 1)] = q[i + (j - (i - 1))] /\ i + (j - (i - 1)) = j + 1
      BY <3>1, <1>1, <1>3
    <3> QED BY <2>2, <3>2, <3>3
  <2> QED BY <2>1, <2>2
<1>7. Len(a \o b) = Len(q) - 1 /\ a \o b \in Seq(S)
  BY <1>1, <1>2, <1>3, <1>4
<1> QED BY <1>5, <1>6, <1>7

\* w is what the wire of c's server is without the entries of c.
Without(c, w) ==
  LET q == wire[Home[c]] IN
  /\ w \in Seq(Entry)
  /\ \E f \in [DOMAIN w -> DOMAIN q] :
       /\ \A i, j \in DOMAIN w : i < j => f[i] < f[j]
       /\ \A i \in DOMAIN w : w[i] = q[f[i]] /\ w[i].call # c
       /\ \A i \in DOMAIN q : q[i].call # c => \E j \in DOMAIN w : f[j] = i

\* A call without a command has no entry.
LEMMA IdleLeavesAll ==
  ASSUME TypeOK, NEW c \in Call, call[c].pc \notin Command
  PROVE  Without(c, wire[Home[c]])
<1> DEFINE q == wire[Home[c]]
<1>1. Home[c] \in Server /\ q \in Seq(Entry)
  BY HomeAssumption DEF TypeOK
<1>2. \A i \in DOMAIN q : q[i].call # c
  BY <1>1 DEF TypeOK, WireOK, Waiting
<1>3. [i \in DOMAIN q |-> i] \in [DOMAIN q -> DOMAIN q]
  OBVIOUS
<1> HIDE DEF q
<1>4. \E f \in [DOMAIN q -> DOMAIN q] :
       /\ \A i, j \in DOMAIN q : i < j => f[i] < f[j]
       /\ \A i \in DOMAIN q : q[i] = q[f[i]] /\ q[i].call # c
       /\ \A i \in DOMAIN q : q[i].call # c => \E j \in DOMAIN q : f[j] = i
  <2> WITNESS [i \in DOMAIN q |-> i] \in [DOMAIN q -> DOMAIN q]
  <2> QED BY <1>2
<1> QED BY <1>1, <1>4 DEF Without, q

\* A handled command leaves its wire, which held no other of the call.
LEMMA HandledLeavesRest ==
  ASSUME TypeOK, NEW s \in Server, NEW i \in DOMAIN wire[s]
  PROVE  /\ wire[s][i].call \in Call /\ Home[wire[s][i].call] = s
         /\ Without(wire[s][i].call, RemoveAt(wire[s], i))
<1> DEFINE q == wire[s]
           c == q[i].call
           w == RemoveAt(q, i)
           g == [j \in DOMAIN w |-> IF j < i THEN j ELSE j + 1]
<1>1. q \in Seq(Entry) /\ Len(q) \in Nat /\ DOMAIN q = 1 .. Len(q) /\ i \in 1 .. Len(q)
  BY DEF TypeOK
<1>2. c \in Call /\ Home[c] = s
  BY DEF TypeOK, WireOK, Waiting
<1>3. \A j \in DOMAIN q : q[j].call = c => j = i
  BY DEF TypeOK, WireOK
<1>4. /\ w \in Seq(Entry) /\ Len(w) = Len(q) - 1
      /\ \A j \in 1 .. Len(q) - 1 : w[j] = q[IF j < i THEN j ELSE j + 1]
  BY <1>1, RemoveAtSkips
<1>5. DOMAIN w = 1 .. Len(q) - 1
  BY <1>4
<1> HIDE DEF q, c, w
<1>6. g \in [DOMAIN w -> DOMAIN q]
  BY <1>1, <1>5
<1>7. \E f \in [DOMAIN w -> DOMAIN q] :
       /\ \A j, k \in DOMAIN w : j < k => f[j] < f[k]
       /\ \A j \in DOMAIN w : w[j] = q[f[j]] /\ w[j].call # c
       /\ \A j \in DOMAIN q : q[j].call # c => \E k \in DOMAIN w : f[k] = j
  <2> WITNESS g \in [DOMAIN w -> DOMAIN q]
  <2>1. \A j, k \in DOMAIN w : j < k => g[j] < g[k]
    BY <1>1, <1>5
  <2>2. \A j \in DOMAIN w : w[j] = q[g[j]] /\ w[j].call # c
    <3> TAKE j \in DOMAIN w
    <3>1. g[j] \in DOMAIN q /\ g[j] # i /\ w[j] = q[g[j]]
      BY <1>1, <1>4, <1>5
    <3> QED BY <3>1, <1>3
  <2>3. ASSUME NEW j \in DOMAIN q, q[j].call # c
        PROVE  \E k \in DOMAIN w : g[k] = j
    <3>1. j # i
      BY <2>3 DEF c
    <3>2. CASE j < i
      BY <3>2, <1>1, <1>5
    <3>3. CASE j > i
      <4>1. j - 1 \in DOMAIN w /\ g[j - 1] = j
        BY <3>3, <1>1, <1>5
      <4> QED BY <4>1
    <3> QED BY <3>1, <3>2, <3>3, <1>1
  <2> QED BY <2>1, <2>2, <2>3
<1> QED BY <1>2, <1>4, <1>7 DEF Without, q, c, w

\* Entry i of the wire of s was entry j, of a call that has not gone on since.
Kept(s, i, j) ==
  LET e == wire[s][j]
      f == wire'[s][i]
  IN
  /\ j \in DOMAIN wire[s]
  /\ f.call = e.call /\ f.rank = e.rank /\ call'[e.call] = call[e.call]
  /\ f.status \in {e.status, "failed"}

\* Entry i of the wire of s stays on it, and its call as it is.
Stays(s, i) ==
  /\ call'[wire[s][i].call] = call[wire[s][i].call]
  /\ \E j \in DOMAIN wire'[s] : wire'[s][j] = wire[s][i]
AllStay == \A s \in Server : \A i \in DOMAIN wire[s] : Stays(s, i)

\* Entry i of the wire of s has no reply, and no later one has.
Unanswered(s, i) ==
  /\ wire[s][i].status \in {"sent", "down"} /\ wire[s][i].rank = 0
  /\ \A j \in DOMAIN wire[s] : i < j => wire[s][j].status # "ok"

\* What every step but one of Redis does to the wire of s.
Follows(s) ==
  \E f \in [DOMAIN wire'[s] -> Nat] :
    /\ \A i, j \in DOMAIN wire'[s] : i < j => f[i] < f[j]
    /\ \A i \in DOMAIN wire'[s] : Unanswered(s, i)' \/ Kept(s, i, f[i])

\* A wire whose calls do not go on, and whose entries keep their ranks.
LEMMA SameFollows ==
  ASSUME TypeOK, NEW s \in Server,
         wire'[s] \in Seq(Entry), DOMAIN wire'[s] = DOMAIN wire[s],
         \A i \in DOMAIN wire[s] : Unanswered(s, i)' \/ Kept(s, i, i)
  PROVE  Follows(s)
<1> DEFINE g == [i \in DOMAIN wire'[s] |-> i]
<1>1. g \in [DOMAIN wire'[s] -> Nat]
  OBVIOUS
<1>2. \A i, j \in DOMAIN wire'[s] : i < j => g[i] < g[j]
  OBVIOUS
<1>3. \A i \in DOMAIN wire'[s] : Unanswered(s, i)' \/ Kept(s, i, g[i])
  OBVIOUS
<1> HIDE DEF g
<1> QED BY <1>1, <1>2, <1>3 DEF Follows

\* Nothing changes for the calls and the wires.
LEMMA StillFollows ==
  ASSUME TypeOK, UNCHANGED <<call, wire>>
  PROVE  /\ call' \in [Call -> CallRec] /\ wire' \in [Server -> Seq(Entry)] /\ WireOK'
         /\ \A s \in Server : Follows(s)
<1>1. call' \in [Call -> CallRec] /\ wire' \in [Server -> Seq(Entry)] /\ WireOK'
  BY DEF TypeOK, WireOK, Waiting
<1>2. ASSUME NEW s \in Server
      PROVE  Follows(s)
  <2>1. \A i \in DOMAIN wire[s] : Kept(s, i, i)
    BY DEF Kept
  <2> QED BY <2>1, <1>1, SameFollows
<1> QED BY <1>1, <1>2

\* A call that goes on leaves the entries of the other calls as they are.
LEMMA ProceedFollows ==
  ASSUME TypeOK, NEW c \in Call, NEW r \in CallRec, NEW w, Without(c, w), Proceed(c, r, w)
  PROVE  /\ call' \in [Call -> CallRec] /\ wire' \in [Server -> Seq(Entry)] /\ WireOK'
         /\ call'[c] = r /\ \A d \in Call : d # c => call'[d] = call[d]
         /\ \A s \in Server : Follows(s)
         /\ \A s \in Server : \A i \in DOMAIN wire[s] : wire[s][i].call # c => Stays(s, i)
<1> DEFINE s == Home[c]
           q == wire[s]
           v == IF r.pc \in Command THEN Append(w, Sent(c)) ELSE w
<1>1. /\ s \in Server /\ q \in Seq(Entry) /\ w \in Seq(Entry)
      /\ call \in [Call -> CallRec] /\ wire \in [Server -> Seq(Entry)] /\ WireOK
  BY HomeAssumption DEF TypeOK, Without
<1>2. /\ Sent(c) \in Entry /\ Sent(c).call = c /\ Sent(c).rank = 0
      /\ Sent(c).status \in {"sent", "down"}
  BY DEF Sent, Entry, Status
<1>3. call' = [call EXCEPT ![c] = r] /\ wire' = [wire EXCEPT ![s] = v]
  BY DEF Proceed
<1>4. call' \in [Call -> CallRec]
  BY <1>1, <1>3
<1>5. /\ v \in Seq(Entry) /\ Len(w) \in Nat /\ DOMAIN w = 1 .. Len(w)
      /\ \A i \in DOMAIN w : i \in DOMAIN v /\ v[i] = w[i]
      /\ \A i \in DOMAIN v \ DOMAIN w : r.pc \in Command /\ i = Len(w) + 1 /\ v[i] = Sent(c)
      /\ r.pc \in Command => Len(w) + 1 \in DOMAIN v
  <2>1. CASE r.pc \in Command
    <3>1. /\ v = Append(w, Sent(c)) /\ v \in Seq(Entry) /\ Len(v) = Len(w) + 1
          /\ \A i \in 1 .. Len(w) : v[i] = w[i]
          /\ v[Len(w) + 1] = Sent(c)
      BY <2>1, <1>1, <1>2, AppendProperties
    <3> HIDE DEF v
    <3> QED BY <2>1, <3>1, <1>1
  <2>2. CASE r.pc \notin Command
    BY <2>2, <1>1
  <2> QED BY <2>1, <2>2
<1> HIDE DEF v
<1>6. wire' \in [Server -> Seq(Entry)] /\ wire'[s] = v
  BY <1>1, <1>3, <1>5
<1>7. PICK f \in [DOMAIN w -> DOMAIN q] :
       /\ \A i, j \in DOMAIN w : i < j => f[i] < f[j]
       /\ \A i \in DOMAIN w : w[i] = q[f[i]] /\ w[i].call # c
       /\ \A i \in DOMAIN q : q[i].call # c => \E j \in DOMAIN w : f[j] = i
  BY DEF Without
<1>8. /\ \A d \in Call : d # c => call'[d] = call[d]
      /\ call'[c] = r
      /\ \A t \in Server : t # s => wire'[t] = wire[t]
  BY <1>1, <1>3
<1>9. WireOK'
  <2>1. ASSUME NEW t \in Server, NEW i \in DOMAIN wire'[t]
        PROVE  /\ wire'[t][i].call \in Waiting' /\ Home[wire'[t][i].call] = t
               /\ \A j \in DOMAIN wire'[t] : wire'[t][i].call = wire'[t][j].call => i = j
    <3>1. CASE t # s
      <4>1. i \in DOMAIN wire[t] /\ wire'[t] = wire[t]
        BY <3>1, <1>8
      <4>2. /\ wire[t][i].call \in Waiting /\ Home[wire[t][i].call] = t
            /\ \A j \in DOMAIN wire[t] : wire[t][i].call = wire[t][j].call => i = j
        BY <4>1, <1>1 DEF WireOK
      <4>3. wire[t][i].call \in Call /\ wire[t][i].call # c
        BY <4>2, <3>1 DEF Waiting
      <4> QED BY <4>1, <4>2, <4>3, <1>8 DEF Waiting
    <3>2. CASE t = s /\ i \in DOMAIN w
      <4>1. /\ f[i] \in DOMAIN q /\ v[i] = q[f[i]] /\ v[i].call # c
        BY <3>2, <1>5, <1>7
      <4>2. /\ q[f[i]].call \in Waiting /\ Home[q[f[i]].call] = s
            /\ \A j \in DOMAIN q : q[f[i]].call = q[j].call => f[i] = j
        BY <4>1, <1>1 DEF WireOK
      <4>3. v[i].call \in Waiting'
        BY <4>1, <4>2, <1>8 DEF Waiting
      <4>4. ASSUME NEW j \in DOMAIN v, v[i].call = v[j].call
            PROVE  i = j
        <5>1. j \in DOMAIN w
          BY <4>1, <4>4, <1>2, <1>5
        <5>2. f[j] \in DOMAIN q /\ v[j] = q[f[j]]
          BY <5>1, <1>5, <1>7
        <5>3. f[i] = f[j] /\ f[i] \in Nat
          BY <5>2, <4>1, <4>2, <4>4, <1>1
        <5>4. ~(i < j) /\ ~(j < i) /\ i \in Nat /\ j \in Nat
          BY <5>1, <5>3, <3>2, <1>5, <1>7
        <5> QED BY <5>4
      <4> QED BY <3>2, <4>1, <4>2, <4>3, <4>4, <1>6
    <3>3. CASE t = s /\ i \notin DOMAIN w
      <4>1. r.pc \in Command /\ i = Len(w) + 1 /\ v[i].call = c
        BY <3>3, <1>2, <1>5, <1>6
      <4>2. v[i].call \in Waiting'
        BY <4>1, <1>8 DEF Waiting
      <4>3. ASSUME NEW j \in DOMAIN v, v[i].call = v[j].call
            PROVE  i = j
        BY <4>1, <4>3, <1>5, <1>7
      <4> QED BY <3>3, <4>1, <4>2, <4>3, <1>6
    <3> QED BY <3>1, <3>2, <3>3
  <2>2. ASSUME NEW d \in Waiting'
        PROVE  \E i \in DOMAIN wire'[Home[d]] : wire'[Home[d]][i].call = d
    <3>1. d \in Call /\ call'[d].pc \in Command
      BY DEF Waiting
    <3>2. CASE d = c
      <4>1. Len(w) + 1 \in DOMAIN v /\ v[Len(w) + 1] = Sent(c)
        BY <3>1, <3>2, <1>5, <1>8
      <4> QED BY <3>2, <4>1, <1>2, <1>6
    <3>3. CASE d # c
      <4>1. d \in Waiting /\ Home[d] \in Server
        BY <3>1, <3>3, <1>8, HomeAssumption DEF Waiting
      <4>2. PICK i \in DOMAIN wire[Home[d]] : wire[Home[d]][i].call = d
        BY <4>1, <1>1 DEF WireOK
      <4>3. CASE Home[d] # s
        BY <4>1, <4>2, <4>3, <1>8
      <4>4. CASE Home[d] = s
        <5>1. PICK j \in DOMAIN w : f[j] = i
          BY <4>2, <4>4, <3>3, <1>7
        <5>2. j \in DOMAIN v /\ v[j].call = d
          BY <5>1, <4>2, <4>4, <1>5, <1>7
        <5> QED BY <5>2, <4>4, <1>6
      <4> QED BY <4>3, <4>4
    <3> QED BY <3>2, <3>3
  <2> QED BY <2>1, <2>2 DEF WireOK
<1>10. ASSUME NEW t \in Server, t # s
       PROVE  Follows(t)
  <2>1. wire'[t] = wire[t]
    BY <1>8, <1>10
  <2>2. ASSUME NEW i \in DOMAIN wire[t]
        PROVE  Kept(t, i, i)
    <3>1. wire[t][i].call \in Call /\ wire[t][i].call # c
      BY <1>1, <1>10 DEF WireOK, Waiting
    <3> QED BY <2>1, <3>1, <1>8 DEF Kept
  <2> QED BY <2>1, <2>2, <1>6, SameFollows
<1>11. Follows(s)
  <2> DEFINE g == [i \in DOMAIN v |-> IF i \in DOMAIN w THEN f[i] ELSE Len(q) + 1]
  <2>1. g \in [DOMAIN v -> Nat]
    BY <1>1, <1>7
  <2>2. \A i, j \in DOMAIN v : i < j => g[i] < g[j]
    <3> TAKE i, j \in DOMAIN v
    <3> HAVE i < j
    <3>1. i \in DOMAIN w
      BY <1>5
    <3>2. f[i] \in DOMAIN q /\ DOMAIN q = 1 .. Len(q) /\ Len(q) \in Nat
      BY <3>1, <1>1, <1>7
    <3> QED BY <3>1, <3>2, <1>7
  <2>3. ASSUME NEW i \in DOMAIN v
        PROVE  Unanswered(s, i)' \/ Kept(s, i, g[i])
    <3>1. CASE i \in DOMAIN w
      <4>1. g[i] \in DOMAIN q /\ v[i] = q[g[i]] /\ v[i].call # c
        BY <3>1, <1>5, <1>7
      <4>2. q[g[i]].call \in Call
        BY <4>1, <1>1 DEF WireOK, Waiting
      <4> QED BY <4>1, <4>2, <1>6, <1>8 DEF Kept
    <3>2. CASE i \notin DOMAIN w
      <4>1. i = Len(w) + 1 /\ v[i] = Sent(c)
        BY <3>2, <1>5
      <4>2. \A j \in DOMAIN v : ~(i < j)
        BY <4>1, <1>5
      <4> QED BY <4>1, <4>2, <1>2, <1>6 DEF Unanswered
    <3> QED BY <3>1, <3>2
  <2> HIDE DEF g
  <2>4. /\ g \in [DOMAIN wire'[s] -> Nat]
        /\ \A i, j \in DOMAIN wire'[s] : i < j => g[i] < g[j]
        /\ \A i \in DOMAIN wire'[s] : Unanswered(s, i)' \/ Kept(s, i, g[i])
    BY <2>1, <2>2, <2>3, <1>6
  <2> QED BY <2>4 DEF Follows
<1>12. ASSUME NEW t \in Server, NEW i \in DOMAIN wire[t], wire[t][i].call # c
       PROVE  Stays(t, i)
  <2>1. call'[wire[t][i].call] = call[wire[t][i].call]
    BY <1>1, <1>8, <1>12 DEF WireOK, Waiting
  <2>2. CASE t # s
    BY <2>1, <2>2, <1>8 DEF Stays
  <2>3. CASE t = s
    <3>1. PICK j \in DOMAIN w : f[j] = i
      BY <2>3, <1>7, <1>12
    <3>2. j \in DOMAIN v /\ v[j] = wire[t][i]
      BY <3>1, <2>3, <1>5, <1>7
    <3> QED BY <3>2, <2>1, <2>3, <1>6 DEF Stays
  <2> QED BY <2>2, <2>3
<1> QED BY <1>4, <1>6, <1>8, <1>9, <1>10, <1>11, <1>12

\* A call without a command goes on, and every entry stays on its wire.
LEMMA ProceedStays ==
  ASSUME TypeOK, NEW c \in Call, call[c].pc \notin Command, NEW r \in CallRec,
         Proceed(c, r, wire[Home[c]])
  PROVE  AllStay
<1>1. \A s \in Server : \A i \in DOMAIN wire[s] : wire[s][i].call # c
  BY DEF TypeOK, WireOK, Waiting
<1> QED BY <1>1, IdleLeavesAll, ProceedFollows DEF AllStay

-----------------------------------------------------------------------------
(***************************************************************************)
(* What each step does, and type correctness.                              *)
(***************************************************************************)

\* Only a call that deletes several keys, one after the other or at once, is
\* about other than one key while it waits.
Single(r) ==
  \/ r.pc \in {"GET", "SETEX", "EXISTS", "PUBLISH", "fetch"}
  \/ r.pc = "DEL" /\ r.op \notin {"byType", "byPattern", "clear"}

\* A scanning call only scans and deletes, and only a reading one reads.
Fits(r) ==
  /\ r.op \in {"byPattern", "clear"} => r.pc \in {"SCAN", "DEL"}
  /\ r.pc = "GET" => r.op \in {"get", "peek"}
Rec == {r \in CallRec : Fits(r) /\ (Single(r) => \E k \in Key : r.keys = {k})}

TypeInv == TypeOK /\ \A c \in Call : call[c] \in Rec

\* The types of the variables that Step gives a value, but for calls and wires.
State ==
  /\ l1 \in [Server -> [Key -> Nat]]
  /\ l2 \in [Key -> Nat]
  /\ registry \in [Server -> SUBSET Key]
  /\ up \in [Server -> BOOLEAN]
  /\ inbox \in [Server -> Seq(Message)]
  /\ writes \in Nat /\ losses \in Nat /\ faults \in Nat
  /\ offline \subseteq Nat
  /\ purged \in [Server -> [Key -> Nat]]
  /\ overtaken \in [Server -> SUBSET Nat]

\* A call comes to publish only by handling the reply to its DEL, whose rank
\* is its cut.
CutFollows(c) ==
  \/ call'[c].pc # "PUBLISH"
  \/ call'[c] = call[c]
  \/ /\ call[c].pc = "DEL" /\ call[c].op \in {"broadcast", "put"}
     /\ call'[c].keys = call[c].keys
     /\ \E i \in DOMAIN wire[Home[c]] :
          /\ wire[Home[c]][i].call = c /\ call'[c].cut = wire[Home[c]][i].rank
          /\ i = 1 \/ wire[Home[c]][i].status = "down"

\* What a step does to calls and wires, if it is not one of Redis.
Moves ==
  /\ \A c \in Call : call'[c] \in Rec /\ CutFollows(c)
  /\ call' \in [Call -> CallRec] /\ wire' \in [Server -> Seq(Entry)] /\ WireOK'
  /\ \A s \in Server : Follows(s)

\* Entry i of the wire of s brings a value of k.
Reading(s, i, k) ==
  /\ wire[s][i].status = "ok" /\ wire[s][i].rank # 0
  /\ call[wire[s][i].call].pc \in {"GET", "SETEX"}
  /\ k \in call[wire[s][i].call].keys

\* The kinds of steps.  A calm one takes nothing into an L1.
Drops == l1' = l1 \/ \E s \in Server, keys \in SUBSET Key : l1' = Forget(s, keys)
Keeps ==
  /\ \A s \in Server : \A i \in DOMAIN wire[s] :
       Stays(s, i) \/ \A k \in Key : ~Reading(s, i, k)
  /\ UNCHANGED up \/ \E s \in Server : Reconnect(s)
Faulty == \E s \in Server : Disconnect(s) \/ \E i \in DOMAIN wire[s] : CommandFails(s, i)
Calm ==
  /\ Drops
  /\ UNCHANGED <<l2, inbox, writes, offline, purged, overtaken>>
  /\ Keeps \/ Faulty

Takes(s, k) ==
  /\ 1 \in DOMAIN wire[s] /\ Reading(s, 1, k)
  /\ l1' = [l1 EXCEPT ![s] = [@ EXCEPT ![k] = wire[s][1].rank]]
  /\ call'[wire[s][1].call] = Idle
  /\ \A t \in Server : \A i \in DOMAIN wire[t] : t # s \/ i # 1 => Stays(t, i)
  /\ UNCHANGED <<l2, up, inbox, writes, offline, purged, overtaken>>

Alone(s, k) ==
  /\ ~up[s]
  /\ writes' = writes + 1 /\ offline' = offline \cup {writes + 1}
  /\ l1' = [l1 EXCEPT ![s] = [@ EXCEPT ![k] = writes + 1]]
  /\ UNCHANGED <<l2, inbox, purged, overtaken>>

Kinds ==
  \/ /\ Moves
     /\ \/ Calm
        \/ \E s \in Server, k \in Key : Takes(s, k) \/ Alone(s, k)
        \/ \E s \in Server : Deliver(s) \/ LoseMessage(s)
        \/ \E k \in Key : LoseL2(k)
  \/ \E s \in Server : \E i \in DOMAIN wire[s] : Execute(s, i)

\* Such a call is about one key.
LEMMA SingleKey ==
  ASSUME NEW r \in Rec, Single(r)
  PROVE  \E k \in Key : r.keys = {k}
BY DEF Rec

\* A call that waits for nothing has a well-formed record.
LEMMA IdleRec == Idle \in Rec /\ Idle \in CallRec /\ Idle.pc # "PUBLISH"
BY DEF Rec, Fits, Single, CallRec, Idle

\* So has a call that goes on about the same single key.
LEMMA RecFrom ==
  ASSUME NEW r \in CallRec, NEW w \in Rec, r.keys = w.keys, r.op = w.op,
         Single(w), w.op \notin {"byPattern", "clear"}, r.pc # "GET"
  PROVE  r \in Rec
BY DEF Rec, Fits

\* Where all entries stay, replies do.
LEMMA StayKeeps ==
  ASSUME AllStay, up' = up
  PROVE  Keeps
BY DEF AllStay, Keeps

\* What Fill returns, in general and for one key.
LEMMA FillIs ==
  ASSUME State, NEW s \in Server, NEW keys, NEW r \in Nat
  PROVE  /\ Fill(s, keys, r) \in [Server -> [Key -> Nat]]
         /\ \A t \in Server, k \in Key :
              Fill(s, keys, r)[t][k] = IF t = s /\ k \in keys THEN r ELSE l1[t][k]
         /\ \A k \in Key : keys = {k} =>
              Fill(s, keys, r) = [l1 EXCEPT ![s] = [@ EXCEPT ![k] = r]]
BY DEF Fill, State

\* Forgetting keys takes nothing into L1.
LEMMA DropsLower ==
  ASSUME State, Drops
  PROVE  /\ l1' \in [Server -> [Key -> Nat]]
         /\ \A t \in Server, k \in Key : l1'[t][k] \in {0, l1[t][k]}
<1>1. CASE l1' = l1
  BY <1>1 DEF State
<1>2. ASSUME NEW s \in Server, NEW keys \in SUBSET Key, l1' = Forget(s, keys)
      PROVE  /\ l1' \in [Server -> [Key -> Nat]]
             /\ \A t \in Server, k \in Key : l1'[t][k] \in {0, l1[t][k]}
  BY <1>2, FillIs DEF Forget
<1> QED BY <1>1, <1>2 DEF Drops

\* Deleting keys from an L1 only drops copies.
LEMMA ForgetDrops ==
  ASSUME State, NEW s \in Server, NEW keys \in SUBSET Key, l1' = Forget(s, keys)
  PROVE  Drops /\ l1' \in [Server -> [Key -> Nat]]
<1>1. Drops
  BY DEF Drops
<1> QED BY <1>1, DropsLower

\* The registry keeps its type.
LEMMA RegistryTypes ==
  ASSUME State, NEW s \in Server, NEW keys \in SUBSET Key
  PROVE  /\ Registered(s, keys) \in [Server -> SUBSET Key]
         /\ Unregistered(s, keys) \in [Server -> SUBSET Key]
         /\ [registry EXCEPT ![s] = {}] \in [Server -> SUBSET Key]
BY DEF Registered, Unregistered, State

\* The types that Step gives, with what it does to calls and wires, and what
\* Remember adds, are all the types.
LEMMA TypeFromParts ==
  ASSUME State', Remember, TypeInv,
         \A c \in Call : call'[c] \in Rec,
         call' \in [Call -> CallRec], wire' \in [Server -> Seq(Entry)], WireOK'
  PROVE  TypeInv'
<1>1. seen' \in [Server -> [Key -> Nat]] /\ late' \in [Server -> SUBSET Key]
  BY DEF State, Remember, TypeInv, TypeOK
<1> QED BY <1>1 DEF State, TypeInv, TypeOK

\* A call begins.
LEMMA BeginMoves ==
  ASSUME TypeInv, NEW c \in Call, NEW op, NEW pc \in Command \ {"PUBLISH"},
         NEW keys \in SUBSET Key, NEW rest \in SUBSET Key,
         pc # "SCAN" => \E k \in Key : keys = {k},
         pc = "SCAN" <=> op \in {"byPattern", "clear"},
         pc = "GET" => op \in {"get", "peek"},
         Begin(c, op, pc, keys, rest)
  PROVE  Moves /\ AllStay
<1> DEFINE r == [Idle EXCEPT !.op = op, !.pc = pc, !.keys = keys, !.rest = rest]
<1>1. op \in Operation /\ call[c] = Idle /\ Proceed(c, r, wire[Home[c]])
  BY DEF Begin
<1>2. r \in Rec /\ r.pc # "PUBLISH" /\ r \in CallRec
  <2>1. r \in CallRec /\ r.pc = pc /\ r.op = op /\ r.keys = keys
    BY <1>1 DEF Idle, CallRec, Command
  <2> HIDE DEF r
  <2> QED BY <2>1 DEF Rec, Fits, Single
<1>3. Without(c, wire[Home[c]])
  BY <1>1, IdleLeavesAll DEF TypeInv, Idle, Command
<1> HIDE DEF r
<1>4. Moves
  BY <1>1, <1>2, <1>3, ProceedFollows DEF Moves, CutFollows, TypeInv
<1>5. AllStay
  <2>1. call[c].pc \notin Command
    BY <1>1 DEF Idle, Command
  <2> QED BY <2>1, <1>1, <1>2, <1>3, ProceedStays DEF TypeInv
<1> QED BY <1>4, <1>5

\* Nothing changes for the calls and the wires.
LEMMA StillMoves ==
  ASSUME TypeInv, UNCHANGED <<call, wire>>
  PROVE  Moves /\ AllStay
BY StillFollows DEF Moves, CutFollows, TypeInv, AllStay, Stays

\* A get that hits or is disconnected changes nothing, another sends GET: calm.
LEMMA GetKind ==
  ASSUME TypeInv, NEW c \in Call, NEW k \in Key, Get(c, k)
  PROVE  State' /\ Moves /\ Calm
<1>1. State
  BY DEF TypeInv, TypeOK, State
<1>2. CASE UNCHANGED <<call, wire, l1, registry, Redis, Environment>>
  <2>1. Moves /\ Keeps
    BY <1>2, StillMoves, StayKeeps DEF Environment
  <2> QED BY <1>1, <1>2, <2>1 DEF Calm, Drops, State, Redis, Environment
<1>3. CASE /\ \E op \in {"get", "peek"} : Begin(c, op, "GET", {k}, {})
           /\ UNCHANGED <<l1, registry, Redis, Environment>>
  <2>1. Moves /\ Keeps
    BY <1>3, BeginMoves, StayKeeps DEF Command, Environment
  <2> QED BY <1>1, <1>3, <2>1 DEF Calm, Drops, State, Redis, Environment
<1> QED BY <1>2, <1>3 DEF Get

\* A call that waits for nothing goes on to store a value.
LEMMA StoreKind ==
  ASSUME TypeInv, NEW c \in Call, call[c].pc \notin Command,
         NEW r \in Rec, r.pc = "SETEX",
         Store(c, r), UNCHANGED <<up, losses, faults, purged, overtaken>>
  PROVE  State' /\ Moves /\ (Calm \/ \E k \in Key : Alone(Home[c], k))
<1>1. State /\ Home[c] \in Server /\ writes + 1 \in Nat
  BY HomeAssumption DEF TypeInv, TypeOK, State
<1>2. PICK k \in Key : r.keys = {k}
  BY SingleKey DEF Single
<1>3. Without(c, wire[Home[c]])
  BY IdleLeavesAll DEF TypeInv
<1>4. Idle \in Rec /\ Idle.pc # "PUBLISH"
  BY IdleRec
<1>5. ASSUME NEW q \in {r, Idle}, Proceed(c, q, wire[Home[c]])
      PROVE  Moves /\ Keeps
  <2>1. q \in Rec /\ q \in CallRec /\ q.pc # "PUBLISH"
    BY <1>4 DEF Rec
  <2>2. Moves
    BY <2>1, <1>3, <1>5, ProceedFollows DEF Moves, CutFollows, TypeInv
  <2>3. Keeps
    BY <2>1, <1>5, ProceedStays, StayKeeps DEF TypeInv
  <2> QED BY <2>2, <2>3
<1>6. CASE /\ Proceed(c, r, wire[Home[c]])
           /\ UNCHANGED <<l1, registry, offline, Redis>>
  BY <1>1, <1>5, <1>6 DEF Calm, Drops, State, Redis
<1>7. CASE /\ ~up[Home[c]]
           /\ writes' = writes + 1
           /\ offline' = offline \cup {writes + 1}
           /\ StoreL1(Home[c], r.keys, writes + 1)
           /\ Proceed(c, Idle, wire[Home[c]])
           /\ UNCHANGED <<l2, inbox>>
  <2>1. l1' = Fill(Home[c], r.keys, writes + 1) /\ registry' = Registered(Home[c], r.keys)
    BY <1>7 DEF StoreL1
  <2>2. /\ l1' = [l1 EXCEPT ![Home[c]] = [@ EXCEPT ![k] = writes + 1]]
        /\ l1' \in [Server -> [Key -> Nat]]
    BY <1>1, <1>2, <2>1, FillIs
  <2>3. registry' \in [Server -> SUBSET Key]
    BY <1>1, <1>2, <2>1, RegistryTypes
  <2>4. State'
    BY <1>1, <1>7, <2>2, <2>3 DEF State
  <2> QED BY <1>5, <1>7, <2>2, <2>4 DEF Alone
<1> QED BY <1>6, <1>7 DEF Store

\* set sends SETEX, or writes to an L1 alone while Redis is not connected.
LEMMA SetKind ==
  ASSUME TypeInv, NEW c \in Call, NEW k \in Key, Set(c, k)
  PROVE  State' /\ Moves /\ (Calm \/ \E j \in Key : Alone(Home[c], j))
<1> DEFINE r == [Idle EXCEPT !.op = "set", !.pc = "SETEX", !.keys = {k}]
<1>1. /\ "set" \in Operation /\ call[c] = Idle
      /\ Store(c, r) /\ UNCHANGED <<up, losses, faults, purged, overtaken>>
  BY DEF Set
<1>2. r \in CallRec /\ r.keys = {k} /\ r.pc = "SETEX"
  BY <1>1 DEF Idle, CallRec, Command
<1>3. call[c].pc \notin Command
  BY <1>1 DEF Idle, Command
<1> HIDE DEF r
<1>4. r \in Rec
  <2>1. r.op = "set"
    BY <1>2 DEF CallRec, Idle, r
  <2> QED BY <1>2, <2>1 DEF Rec, Fits
<1> QED BY <1>1, <1>2, <1>3, <1>4, StoreKind

\* So does refresh, once its value is there.
LEMMA FetchedKind ==
  ASSUME TypeInv, NEW c \in Call, Fetched(c)
  PROVE  State' /\ Moves /\ (Calm \/ \E j \in Key : Alone(Home[c], j))
<1> DEFINE r == [call[c] EXCEPT !.pc = "SETEX"]
<1>1. /\ call[c].pc = "fetch" /\ Store(c, r)
      /\ UNCHANGED <<up, losses, faults, purged, overtaken>>
  BY DEF Fetched
<1>2. call[c] \in Rec /\ call[c] \in CallRec
  BY DEF TypeInv, TypeOK
<1>3. r \in CallRec /\ r.pc = "SETEX" /\ r.keys = call[c].keys /\ r.op = call[c].op
  BY <1>2 DEF CallRec, Command
<1> HIDE DEF r
<1>4. r \in Rec /\ call[c].pc \notin Command
  <2>1. Single(call[c]) /\ call[c].op \notin {"byPattern", "clear"}
    BY <1>1, <1>2 DEF Rec, Single, Fits
  <2> QED BY <2>1, <1>1, <1>2, <1>3, RecFrom DEF Command
<1> QED BY <1>1, <1>3, <1>4, StoreKind DEF r

\* invalidate and what begins with it drop a key and send DEL.
LEMMA InvalidateKind ==
  ASSUME TypeInv, NEW c \in Call, NEW k \in Key, Invalidate(c, k)
  PROVE  State' /\ Moves /\ Calm
<1>1. State /\ Home[c] \in Server
  BY HomeAssumption DEF TypeInv, TypeOK, State
<1>2. PICK op \in {"invalidate", "broadcast", "refresh", "put"} : Begin(c, op, "DEL", {k}, {})
  BY DEF Invalidate
<1>3. Moves /\ Keeps
  <2>1. up' = up
    BY DEF Invalidate, Environment
  <2> QED BY <1>2, <2>1, BeginMoves, StayKeeps DEF Command
<1>4. l1' = Forget(Home[c], {k}) /\ UNCHANGED <<registry, Redis, Environment>>
  BY DEF Invalidate
<1>5. l1' \in [Server -> [Key -> Nat]] /\ Drops
  BY <1>1, <1>4, ForgetDrops
<1> QED BY <1>1, <1>3, <1>4, <1>5 DEF Calm, State, Redis, Environment

\* delete drops a key or asks L2 for it.
LEMMA DeleteKind ==
  ASSUME TypeInv, NEW c \in Call, NEW k \in Key, Delete(c, k)
  PROVE  State' /\ Moves /\ Calm
<1>1. State /\ Home[c] \in Server
  BY HomeAssumption DEF TypeInv, TypeOK, State
<1>2. PICK pc \in {"EXISTS", "DEL"} : Begin(c, "delete", pc, {k}, {})
  BY DEF Delete
<1>3. Moves /\ Keeps
  <2>1. up' = up
    BY DEF Delete, Environment
  <2> QED BY <1>2, <2>1, BeginMoves, StayKeeps DEF Command
<1>4. /\ l1' = l1 \/ l1' = Forget(Home[c], {k})
      /\ UNCHANGED <<registry, Redis, Environment>>
  BY DEF Delete
<1>5. /\ l1' \in [Server -> [Key -> Nat]]
      /\ Drops
  <2>1. CASE l1' = l1
    BY <2>1, <1>1 DEF State, Drops
  <2>2. CASE l1' = Forget(Home[c], {k})
    BY <2>2, <1>1, ForgetDrops
  <2> QED BY <2>1, <2>2, <1>4
<1> QED BY <1>1, <1>3, <1>4, <1>5 DEF Calm, State, Redis, Environment

\* deleteByType drops the keys registered and sends DEL for the first of them.
LEMMA DeleteByTypeKind ==
  ASSUME TypeInv, NEW c \in Call, NEW t \in Type, DeleteByType(c, t)
  PROVE  State' /\ Moves /\ Calm
<1> DEFINE keys == {k \in registry[Home[c]] : TypeOf[k] = t}
           this == [Idle EXCEPT !.op = "byType", !.type = t]
<1>1. State /\ Home[c] \in Server
  BY HomeAssumption DEF TypeInv, TypeOK, State
<1>2. keys \in SUBSET Key
  BY <1>1 DEF State
<1>3. /\ "byType" \in Operation /\ call[c] = Idle
      /\ l1' = Forget(Home[c], keys)
      /\ registry' = Unregistered(Home[c], keys)
      /\ UNCHANGED <<Redis, Environment>>
  BY DEF DeleteByType
<1>4. \E r \in Rec : r.pc # "PUBLISH" /\ Proceed(c, r, wire[Home[c]])
  <2>1. CASE Proceed(c, [this EXCEPT !.pc = "return"], wire[Home[c]])
    <3> DEFINE r == [this EXCEPT !.pc = "return"]
    <3>1. r \in CallRec /\ r.pc = "return" /\ r.op = "byType"
      BY <1>3 DEF Idle, CallRec
    <3> HIDE DEF r
    <3>2. r \in Rec
      BY <3>1 DEF Rec, Fits, Single
    <3> QED BY <2>1, <3>1, <3>2 DEF r
  <2>2. ASSUME NEW k \in keys,
               Proceed(c, [this EXCEPT !.pc = "DEL", !.keys = {k}, !.rest = keys \ {k}],
                       wire[Home[c]])
        PROVE  \E r \in Rec : r.pc # "PUBLISH" /\ Proceed(c, r, wire[Home[c]])
    <3> DEFINE r == [this EXCEPT !.pc = "DEL", !.keys = {k}, !.rest = keys \ {k}]
    <3>1. r \in CallRec /\ r.pc = "DEL" /\ r.op = "byType"
      BY <1>2, <1>3 DEF Idle, CallRec, Command
    <3> HIDE DEF r
    <3>2. r \in Rec
      BY <3>1 DEF Rec, Fits, Single
    <3> QED BY <2>2, <3>1, <3>2 DEF r
  <2> QED BY <2>1, <2>2 DEF DeleteByType
<1> HIDE DEF keys, this
<1>5. PICK r \in Rec : r.pc # "PUBLISH" /\ Proceed(c, r, wire[Home[c]])
  BY <1>4
<1>6. Moves /\ Keeps
  <2>1. Without(c, wire[Home[c]]) /\ call[c].pc \notin Command
    BY <1>3, IdleLeavesAll DEF TypeInv, Idle, Command
  <2>2. r \in CallRec
    BY DEF Rec
  <2>3. Moves
    BY <1>5, <2>1, <2>2, ProceedFollows DEF Moves, CutFollows, TypeInv
  <2>4. AllStay /\ up' = up
    BY <1>3, <1>5, <2>1, <2>2, ProceedStays DEF TypeInv, Environment
  <2> QED BY <2>3, <2>4, StayKeeps
<1>7. /\ l1' \in [Server -> [Key -> Nat]]
      /\ Drops
  BY <1>1, <1>2, <1>3, ForgetDrops
<1>8. registry' \in [Server -> SUBSET Key]
  BY <1>1, <1>2, <1>3, RegistryTypes
<1> QED BY <1>1, <1>3, <1>6, <1>7, <1>8 DEF Calm, State, Redis, Environment

\* deleteByPattern drops the keys that match and starts to scan.
LEMMA DeleteByPatternKind ==
  ASSUME TypeInv, NEW c \in Call, NEW match \in SUBSET Key, DeleteByPattern(c, match)
  PROVE  State' /\ Moves /\ Calm
<1> DEFINE keys == {k \in match : l1[Home[c]][k] # 0}
<1>1. State /\ Home[c] \in Server /\ keys \in SUBSET Key
  BY HomeAssumption DEF TypeInv, TypeOK, State
<1>2. /\ Begin(c, "byPattern", "SCAN", {}, match)
      /\ l1' = Forget(Home[c], keys)
      /\ registry' = Unregistered(Home[c], keys)
      /\ UNCHANGED <<Redis, Environment>>
  BY DEF DeleteByPattern
<1> HIDE DEF keys
<1>3. Moves /\ Keeps
  <2>1. up' = up
    BY DEF DeleteByPattern, Environment
  <2> QED BY <1>2, <2>1, BeginMoves, StayKeeps DEF Command
<1>4. l1' \in [Server -> [Key -> Nat]] /\ Drops
  BY <1>1, <1>2, ForgetDrops
<1>5. registry' \in [Server -> SUBSET Key]
  BY <1>1, <1>2, RegistryTypes
<1> QED BY <1>1, <1>2, <1>3, <1>4, <1>5 DEF Calm, State, Redis, Environment

\* clear drops all keys and starts to scan.
LEMMA ClearKind ==
  ASSUME TypeInv, NEW c \in Call, Clear(c)
  PROVE  State' /\ Moves /\ Calm
<1>1. State /\ Home[c] \in Server
  BY HomeAssumption DEF TypeInv, TypeOK, State
<1>2. /\ Begin(c, "clear", "SCAN", {}, Key)
      /\ l1' = Forget(Home[c], Key)
      /\ UNCHANGED <<registry, Redis, Environment>>
  BY DEF Clear
<1>3. Moves /\ Keeps
  <2>1. up' = up
    BY DEF Clear, Environment
  <2> QED BY <1>2, <2>1, BeginMoves, StayKeeps DEF Command
<1>4. /\ l1' \in [Server -> [Key -> Nat]]
      /\ Drops
  BY <1>1, <1>2, ForgetDrops
<1> QED BY <1>1, <1>2, <1>3, <1>4 DEF Calm, State, Redis, Environment

\* A call ends without a command of its own on the wire.
LEMMA EndKind ==
  ASSUME TypeInv, NEW c \in Call, FetchFails(c) \/ Return(c)
  PROVE  State' /\ Moves /\ Calm
<1>1. /\ call[c].pc \notin Command
      /\ Proceed(c, Idle, wire[Home[c]])
      /\ UNCHANGED <<l1, registry, Redis, Environment>>
  BY DEF FetchFails, Return, Command
<1>2. Idle \in Rec /\ Idle \in CallRec /\ Idle.pc # "PUBLISH"
  BY IdleRec
<1>3. Moves
  <2>1. Without(c, wire[Home[c]])
    BY <1>1, IdleLeavesAll DEF TypeInv
  <2> QED BY <1>1, <1>2, <2>1, ProceedFollows DEF Moves, CutFollows, TypeInv
<1>4. Keeps
  <2>1. AllStay /\ up' = up
    BY <1>1, <1>2, ProceedStays DEF TypeInv, Environment
  <2> QED BY <2>1, StayKeeps
<1> QED BY <1>1, <1>3, <1>4 DEF TypeInv, TypeOK, State, Calm, Drops, Redis, Environment

\* What an entry of a wire holds.
LEMMA EntryTypes ==
  ASSUME TypeInv, NEW s \in Server, NEW i \in DOMAIN wire[s]
  PROVE  /\ wire[s][i] \in Entry /\ wire[s][i].call \in Call /\ wire[s][i].rank \in Nat
         /\ wire[s][i].status \in Status
         /\ wire[s][i].keys \in SUBSET Key /\ wire[s][i].rest \in SUBSET Key
<1>1. wire[s] \in Seq(Entry)
  BY DEF TypeInv, TypeOK
<1>2. wire[s][i] \in Entry
  BY <1>1
<1> QED BY <1>2 DEF Entry

\* What a message on its way holds.
LEMMA MessageTypes ==
  ASSUME TypeInv, NEW s \in Server, NEW i \in DOMAIN inbox[s]
  PROVE  inbox[s][i] \in Message /\ inbox[s][i].key \in Key /\ inbox[s][i].cut \in Nat
<1>1. inbox[s] \in Seq(Message)
  BY DEF TypeInv, TypeOK
<1>2. inbox[s][i] \in Message
  BY <1>1
<1> QED BY <1>2 DEF Message

\* A call goes on after the reply to its command was handled.
LEMMA AnswerMoves ==
  ASSUME TypeInv, NEW s \in Server, NEW i \in DOMAIN wire[s], NEW c, c = wire[s][i].call,
         NEW r \in Rec, Proceed(c, r, RemoveAt(wire[s], i)),
         r.pc # "PUBLISH" \/ CutFollows(c)
  PROVE  /\ Moves
         /\ \A t \in Server : \A j \in DOMAIN wire[t] : t # s \/ j # i => Stays(t, j)
<1>1. c \in Call /\ Without(c, RemoveAt(wire[s], i))
  BY HandledLeavesRest DEF TypeInv
<1>2. r \in CallRec /\ TypeOK
  BY DEF Rec, TypeInv
<1>3. /\ call' \in [Call -> CallRec] /\ wire' \in [Server -> Seq(Entry)] /\ WireOK'
      /\ call'[c] = r /\ \A d \in Call : d # c => call'[d] = call[d]
      /\ \A t \in Server : Follows(t)
  BY <1>1, <1>2, ProceedFollows
<1>4. CutFollows(c)
  BY <1>3 DEF CutFollows
<1>5. ASSUME NEW d \in Call, d # c
      PROVE  CutFollows(d) /\ call'[d] \in Rec
  BY <1>3, <1>5 DEF CutFollows, TypeInv
<1>6. \A d \in Call : call'[d] \in Rec /\ CutFollows(d)
  BY <1>3, <1>4, <1>5
<1>7. ASSUME NEW t \in Server, NEW j \in DOMAIN wire[t], t # s \/ j # i
      PROVE  Stays(t, j)
  <2>1. /\ Home[wire[t][j].call] = t /\ Home[c] = s
        /\ \A m \in DOMAIN wire[s] : wire[s][i].call = wire[s][m].call => i = m
    BY <1>2 DEF TypeOK, WireOK
  <2>2. wire[t][j].call # c
    BY <2>1, <1>7
  <2>3. \A u \in Server : \A m \in DOMAIN wire[u] : wire[u][m].call # c => Stays(u, m)
    BY <1>1, <1>2, ProceedFollows
  <2> QED BY <2>2, <2>3
<1> QED BY <1>3, <1>6, <1>7 DEF Moves

\* The replies that bring a value.
LEMMA AnswerValueKind ==
  ASSUME TypeInv, NEW s \in Server, NEW i \in DOMAIN wire[s], Ready(s, i),
         NEW c, c = wire[s][i].call, NEW w, w = call[c], NEW e, e = wire[s][i],
         \/ AnswerGet(c, w, e, RemoveAt(wire[s], i))
         \/ e.status = "ok" /\ AnswerSet(c, w, e, RemoveAt(wire[s], i)),
         UNCHANGED <<Redis, Environment>>
  PROVE  State' /\ Moves /\ (Calm \/ \E k \in Key : Takes(s, k))
<1>1. State /\ c \in Call /\ Home[c] = s
  BY HandledLeavesRest DEF TypeInv, TypeOK, State
<1>2. Idle \in Rec /\ Idle.pc # "PUBLISH"
  BY IdleRec
<1>3. /\ Moves /\ call'[c] = Idle
      /\ \A t \in Server : \A j \in DOMAIN wire[t] : t # s \/ j # i => Stays(t, j)
  <2>1. Proceed(c, Idle, RemoveAt(wire[s], i))
    BY DEF AnswerGet, AnswerSet
  <2>2. call'[c] = Idle
    BY <2>1, <1>1 DEF Proceed, TypeInv, TypeOK
  <2> QED BY <2>1, <2>2, <1>1, <1>2, AnswerMoves
<1>4. w \in Rec /\ w \in CallRec /\ w.pc \in {"GET", "SETEX"}
  BY <1>1 DEF TypeInv, TypeOK, AnswerGet, AnswerSet
<1>5. PICK k \in Key : w.keys = {k}
  BY <1>4, SingleKey DEF Single
<1>6. e.rank \in Nat /\ e \in Entry
  BY EntryTypes
<1>7. registry' \in [Server -> SUBSET Key]
  <2>1. w.keys \in SUBSET Key
    BY <1>5
  <2>2. registry' = registry \/ registry' = Registered(s, w.keys)
    BY <1>1 DEF AnswerGet, AnswerSet, StoreL1
  <2> QED BY <2>1, <2>2, <1>1, RegistryTypes DEF State
<1>8. ASSUME e.status # "ok" \/ e.rank = 0
       PROVE  Keeps
  <2>1. \A x \in Key : ~Reading(s, i, x)
    BY <1>8 DEF Reading
  <2>2. up' = up
    BY DEF Environment
  <2>3. \A t \in Server : \A j \in DOMAIN wire[t] : Stays(t, j) \/ \A x \in Key : ~Reading(t, j, x)
    BY <2>1, <1>3
  <2> QED BY <2>2, <2>3 DEF Keeps
<1>9. CASE UNCHANGED l1 /\ (e.status # "ok" \/ e.rank = 0)
  BY <1>1, <1>3, <1>7, <1>9, <1>8 DEF State, Calm, Drops, Redis, Environment
<1>10. CASE e.status = "ok" /\ l1' = Fill(s, w.keys, e.rank)
  <2>1. /\ l1' = [l1 EXCEPT ![s] = [@ EXCEPT ![k] = e.rank]]
        /\ l1' \in [Server -> [Key -> Nat]]
    BY <1>1, <1>5, <1>6, <1>10, FillIs
  <2>2. State'
    BY <1>1, <1>7, <2>1 DEF State, Redis, Environment
  <2>3. UNCHANGED <<l2, inbox, writes, offline, purged, overtaken>>
    BY DEF Redis, Environment
  <2>4. CASE e.rank # 0
    <3>1. i = 1
      BY <1>10 DEF Ready
    <3>2. Reading(s, 1, k) /\ 1 \in DOMAIN wire[s]
      BY <3>1, <2>4, <1>4, <1>5, <1>10 DEF Reading
    <3>3. Takes(s, k)
      <4>1. up' = up
        BY DEF Environment
      <4> QED BY <3>1, <3>2, <2>1, <2>3, <1>3, <4>1 DEF Takes
    <3> QED BY <3>3, <2>2, <1>3
  <2>5. CASE e.rank = 0
    <3>1. l1' = Forget(s, w.keys) /\ w.keys \in SUBSET Key
      BY <2>5, <1>5, <1>10 DEF Forget
    <3>2. Drops
      BY <3>1, <1>1 DEF Drops
    <3> QED BY <3>2, <2>2, <2>3, <2>5, <1>3, <1>8 DEF Calm
  <2> QED BY <2>4, <2>5, <1>6
<1> QED BY <1>1, <1>9, <1>10 DEF AnswerGet, AnswerSet, StoreL1

\* The replies that only let the call go on, and L1 forget.
LEMMA AnswerOtherKind ==
  ASSUME TypeInv, NEW s \in Server, NEW i \in DOMAIN wire[s], Ready(s, i),
         NEW c, c = wire[s][i].call, NEW w, w = call[c], NEW e, e = wire[s][i],
         \/ e.status # "ok" /\ Rejected(c, RemoveAt(wire[s], i))
         \/ AnswerExists(c, w, RemoveAt(wire[s], i))
         \/ AnswerDel(c, w, e, RemoveAt(wire[s], i))
         \/ AnswerPublish(c, w, RemoveAt(wire[s], i))
         \/ AnswerScan(c, w, e, RemoveAt(wire[s], i)),
         UNCHANGED <<Redis, Environment>>
  PROVE  State' /\ Moves /\ Calm
<1> DEFINE left == RemoveAt(wire[s], i)
           Goes(r) == r \in Rec /\ (r.pc = "PUBLISH" => CutFollows(c)) /\ Proceed(c, r, left)
<1>1. State /\ s \in Server /\ c \in Call /\ Home[c] = s
  BY HandledLeavesRest DEF TypeInv, TypeOK, State
<1>2. Idle \in Rec /\ Idle.pc # "PUBLISH"
  BY IdleRec
<1>3. w \in Rec /\ w \in CallRec /\ w.keys \in SUBSET Key
  BY <1>1 DEF TypeInv, TypeOK, CallRec
<1>4. e.rank \in Nat /\ e.keys \in SUBSET Key /\ e.rest \in SUBSET Key
  BY EntryTypes
<1>5. \/ registry' = registry \/ registry' = Unregistered(s, w.keys)
      \/ registry' = [registry EXCEPT ![s] = {}]
  BY <1>1 DEF Rejected, AnswerExists, AnswerDel, AnswerPublish, AnswerScan
<1>6. l1' = l1 \/ l1' = Forget(s, w.keys)
  BY <1>1 DEF Rejected, AnswerExists, AnswerDel, AnswerPublish, AnswerScan
<1> HIDE DEF left
<1>7. \E r : Goes(r)
  <2>1. CASE Rejected(c, left)
    BY <2>1, <1>2 DEF Rejected
  <2>2. CASE AnswerExists(c, w, left)
    <3> DEFINE r == [w EXCEPT !.pc = "DEL"]
    <3>1. w.pc = "EXISTS" /\ Proceed(c, r, left)
      BY <2>2 DEF AnswerExists
    <3>2. r \in CallRec /\ r.pc = "DEL" /\ r.keys = w.keys
      BY <1>3 DEF CallRec, Command
    <3>3. r \in Rec
      <4>1. Single(w) /\ w.op \notin {"byPattern", "clear"} /\ r.op = w.op
        BY <3>1, <1>3 DEF Rec, Fits, Single, CallRec
      <4> HIDE DEF r
      <4> QED BY <4>1, <3>2, <1>3, RecFrom
    <3> HIDE DEF r
    <3> QED BY <3>1, <3>2, <3>3
  <2>3. CASE AnswerDel(c, w, e, left)
    <3>1. w.pc = "DEL"
      BY <2>3 DEF AnswerDel
    <3>2. CASE Proceed(c, Idle, left)
      BY <3>2, <1>2
    <3>3. CASE w.op = "refresh" /\ Proceed(c, [w EXCEPT !.pc = "fetch"], left)
      <4> DEFINE r == [w EXCEPT !.pc = "fetch"]
      <4>1. r \in CallRec /\ r.pc = "fetch" /\ r.keys = w.keys /\ r.op = w.op
        BY <1>3 DEF CallRec
      <4>2. r \in Rec
        BY <4>1, <3>1, <3>3, <1>3, RecFrom DEF Single
      <4> HIDE DEF r
      <4> QED BY <3>3, <4>1, <4>2 DEF r
    <3>4. CASE /\ w.op \in {"broadcast", "put"}
               /\ Proceed(c, [w EXCEPT !.pc = "PUBLISH", !.cut = e.rank], left)
      <4> DEFINE r == [w EXCEPT !.pc = "PUBLISH", !.cut = e.rank]
      <4>1. r \in CallRec /\ r.pc = "PUBLISH" /\ r.keys = w.keys /\ r.op = w.op /\ r.cut = e.rank
        BY <1>3, <1>4 DEF CallRec, Command
      <4>2. r \in Rec
        BY <4>1, <3>1, <3>4, <1>3, RecFrom DEF Single
      <4>3. call'[c] = r
        BY <3>4, <1>1 DEF Proceed, TypeInv, TypeOK
      <4>4. i = 1 \/ e.status = "down"
        BY DEF Ready
      <4> HIDE DEF r
      <4>5. CutFollows(c)
        BY <3>1, <3>4, <4>1, <4>3, <4>4, <1>1 DEF CutFollows
      <4> QED BY <3>4, <4>2, <4>5 DEF r
    <3>5. ASSUME NEW k \in w.rest, w.op = "byType",
                 Proceed(c, [w EXCEPT !.keys = {k}, !.rest = @ \ {k}], left)
          PROVE  \E r : Goes(r)
      <4> DEFINE r == [w EXCEPT !.keys = {k}, !.rest = @ \ {k}]
      <4>1. /\ r \in CallRec /\ r.pc = "DEL" /\ r.keys = {k} /\ k \in Key
            /\ r.op = "byType"
        BY <3>1, <3>5, <1>3 DEF CallRec
      <4> HIDE DEF r
      <4>2. r \in Rec
        BY <4>1 DEF Rec, Fits, Single
      <4> QED BY <3>5, <4>1, <4>2 DEF r
    <3> QED BY <2>3, <3>2, <3>3, <3>4, <3>5 DEF AnswerDel
  <2>4. CASE AnswerPublish(c, w, left)
    <3>1. CASE Proceed(c, Idle, left)
      BY <3>1, <1>2
    <3>2. CASE Proceed(c, [w EXCEPT !.pc = "SETEX"], left)
      <4> DEFINE r == [w EXCEPT !.pc = "SETEX"]
      <4>1. r \in CallRec /\ r.pc = "SETEX" /\ r.keys = w.keys /\ r.op = w.op
        BY <1>3 DEF CallRec, Command
      <4>2. r \in Rec
        <5>1. w.pc = "PUBLISH"
          BY <2>4 DEF AnswerPublish
        <5>2. Single(w) /\ w.op \notin {"byPattern", "clear"}
          BY <5>1, <1>3 DEF Rec, Single, Fits
        <5> QED BY <5>2, <4>1, <1>3, RecFrom
      <4> HIDE DEF r
      <4> QED BY <3>2, <4>1, <4>2 DEF r
    <3> QED BY <2>4, <3>1, <3>2 DEF AnswerPublish
  <2>5. CASE AnswerScan(c, w, e, left)
    <3> DEFINE rest == IF w.pc = "SCAN" THEN e.rest ELSE w.rest
               Del == [w EXCEPT !.pc = "DEL", !.keys = e.keys, !.rest = rest]
               Scan == [w EXCEPT !.pc = "SCAN", !.keys = {}, !.rest = rest]
    <3>1. rest \in SUBSET Key
      BY <1>3, <1>4 DEF CallRec
    <3>2. w.op \in {"byPattern", "clear"}
      BY <2>5 DEF AnswerScan
    <3>3. Del \in CallRec /\ Del.pc = "DEL" /\ Del.op = w.op
      BY <3>1, <1>3, <1>4 DEF CallRec, Command
    <3>4. Scan \in CallRec /\ Scan.pc = "SCAN" /\ Scan.op = w.op
      BY <3>1, <1>3 DEF CallRec, Command
    <3>5. Proceed(c, Del, left) \/ Proceed(c, Scan, left) \/ Proceed(c, Idle, left)
      BY <2>5 DEF AnswerScan
    <3> HIDE DEF Del, Scan
    <3>6. Del \in Rec /\ Scan \in Rec
      BY <3>2, <3>3, <3>4 DEF Rec, Fits, Single
    <3> QED BY <3>3, <3>4, <3>5, <3>6, <1>2
  <2> QED BY <2>1, <2>2, <2>3, <2>4, <2>5 DEF left
<1>8. Moves /\ Keeps
  <2>1. PICK r : Goes(r)
    BY <1>7
  <2>2. /\ Moves
        /\ \A t \in Server : \A j \in DOMAIN wire[t] : t # s \/ j # i => Stays(t, j)
    BY <2>1, <1>1, AnswerMoves DEF left
  <2>3. e.status # "ok" \/ w.pc \notin {"GET", "SETEX"}
    BY <1>3 DEF AnswerExists, AnswerDel, AnswerPublish, AnswerScan, Rec, Fits
  <2>4. \A k \in Key : ~Reading(s, i, k)
    BY <2>3 DEF Reading
  <2>5. up' = up
    BY DEF Environment
  <2>6. \A t \in Server : \A j \in DOMAIN wire[t] : Stays(t, j) \/ \A k \in Key : ~Reading(t, j, k)
    BY <2>2, <2>4
  <2> QED BY <2>2, <2>5, <2>6 DEF Keeps
<1>9. /\ l1' \in [Server -> [Key -> Nat]]
      /\ Drops
  <2>1. CASE l1' = l1
    BY <2>1, <1>1 DEF State, Drops
  <2>2. CASE l1' = Forget(s, w.keys)
    BY <2>2, <1>1, <1>3, ForgetDrops
  <2> QED BY <2>1, <2>2, <1>6
<1>10. registry' \in [Server -> SUBSET Key]
  <2>1. registry \in [Server -> SUBSET Key]
    BY <1>1 DEF State
  <2>2. /\ Unregistered(s, w.keys) \in [Server -> SUBSET Key]
        /\ [registry EXCEPT ![s] = {}] \in [Server -> SUBSET Key]
    BY <1>1, <1>3, RegistryTypes
  <2> QED BY <2>1, <2>2, <1>5
<1> QED BY <1>1, <1>8, <1>9, <1>10 DEF Calm, State, Redis, Environment

\* A reply handled brings one value into the L1 of its server, or none.
LEMMA HandleKind ==
  ASSUME TypeInv, NEW s \in Server, NEW i \in DOMAIN wire[s], Handle(s, i)
  PROVE  State' /\ Moves /\ (Calm \/ \E k \in Key : Takes(s, k))
<1> DEFINE e == wire[s][i]
           c == e.call
           w == call[c]
           left == RemoveAt(wire[s], i)
<1>1. Ready(s, i) /\ UNCHANGED <<Redis, Environment>>
  BY DEF Handle
<1>2. \/ AnswerGet(c, w, e, left)
      \/ e.status = "ok" /\ AnswerSet(c, w, e, left)
      \/ e.status # "ok" /\ Rejected(c, left)
      \/ AnswerExists(c, w, left) \/ AnswerDel(c, w, e, left)
      \/ AnswerPublish(c, w, left) \/ AnswerScan(c, w, e, left)
  BY DEF Handle, Rejects, AnswerSet
<1> HIDE DEF e, c, w, left
<1>3. c = wire[s][i].call /\ w = call[c] /\ e = wire[s][i] /\ left = RemoveAt(wire[s], i)
  BY DEF e, c, w, left
<1> QED BY <1>1, <1>2, <1>3, AnswerValueKind, AnswerOtherKind

\* Redis answers or fails a command; calls and wires keep matching.
LEMMA SameWireOK ==
  ASSUME TypeInv, wire' \in [Server -> Seq(Entry)], UNCHANGED call,
         \A s \in Server : /\ DOMAIN wire'[s] = DOMAIN wire[s]
                           /\ \A i \in DOMAIN wire[s] : wire'[s][i].call = wire[s][i].call
  PROVE  WireOK'
<1>1. WireOK /\ Waiting' = Waiting /\ \A c \in Waiting : Home[c] \in Server
  BY HomeAssumption DEF TypeInv, TypeOK, Waiting
<1> QED BY <1>1 DEF WireOK

\* An entry changes where it stands on its wire.
LEMMA SetEntry ==
  ASSUME TypeInv, NEW s \in Server, NEW i \in DOMAIN wire[s], NEW e \in Entry,
         wire' = [wire EXCEPT ![s] = [@ EXCEPT ![i] = e]]
  PROVE  /\ wire' \in [Server -> Seq(Entry)]
         /\ \A t \in Server : DOMAIN wire'[t] = DOMAIN wire[t]
         /\ \A t \in Server : \A j \in DOMAIN wire[t] :
              wire'[t][j] = IF t = s /\ j = i THEN e ELSE wire[t][j]
<1>1. wire \in [Server -> Seq(Entry)]
  BY DEF TypeInv, TypeOK
<1>2. wire[s] \in Seq(Entry)
  BY <1>1
<1>3. [wire[s] EXCEPT ![i] = e] \in Seq(Entry)
  BY <1>2
<1> QED BY <1>1, <1>3

\* A command that Redis executes is answered, and otherwise keeps its place.
LEMMA ExecuteTypes ==
  ASSUME TypeInv, NEW s \in Server, NEW i \in DOMAIN wire[s], Execute(s, i)
  PROVE  /\ State' /\ UNCHANGED call
         /\ wire' \in [Server -> Seq(Entry)] /\ WireOK'
         /\ \A t \in Server : DOMAIN wire'[t] = DOMAIN wire[t]
         /\ \A t \in Server : \A j \in DOMAIN wire[t] :
              t # s \/ j # i => wire'[t][j] = wire[t][j]
         /\ wire'[s][i].call = wire[s][i].call /\ wire'[s][i].status = "ok"
<1> DEFINE w == call[wire[s][i].call]
<1>1. State
  BY DEF TypeInv, TypeOK, State
<1>2. wire[s][i] \in Entry /\ w \in CallRec /\ w \in Rec
  BY EntryTypes DEF TypeInv, TypeOK
<1>3. w.pc \in {"GET", "SETEX", "EXISTS", "PUBLISH"} => \E k \in Key : w.keys = {k}
  BY <1>2, SingleKey DEF Single
<1>4. w.keys \subseteq Key /\ w.rest \subseteq Key /\ w.cut \in Nat
  BY <1>2 DEF CallRec
<1>5. /\ \A k \in Key : l2[k] \in Nat
      /\ writes \in Nat
  BY <1>1 DEF State
<1>6. \E r \in Nat, keys \in SUBSET Key, rest \in SUBSET Key : Reply(s, i, r, keys, rest)
  <2>1. CASE w.pc = "GET"
    BY <2>1, <1>3, <1>5 DEF Execute
  <2>2. CASE w.pc = "SETEX"
    BY <2>2, <1>5 DEF Execute
  <2>3. CASE w.pc \in {"EXISTS", "DEL", "PUBLISH"}
    BY <2>3, <1>5 DEF Execute
  <2>4. CASE w.pc = "SCAN"
    <3>1. PICK page \in SUBSET w.rest : Reply(s, i, 0, {k \in page : l2[k] # 0}, w.rest \ page)
      BY <2>4 DEF Execute
    <3>2. {k \in page : l2[k] # 0} \in SUBSET Key /\ w.rest \ page \in SUBSET Key /\ 0 \in Nat
      BY <1>4
    <3> QED BY <3>1, <3>2
  <2> QED BY <2>1, <2>2, <2>3, <2>4 DEF Execute
<1>7. PICK r \in Nat, keys \in SUBSET Key, rest \in SUBSET Key : Reply(s, i, r, keys, rest)
  BY <1>6
<1> DEFINE e == [wire[s][i] EXCEPT !.status = "ok", !.rank = r, !.keys = keys, !.rest = rest]
<1>8. e \in Entry /\ e.call = wire[s][i].call /\ e.status = "ok"
  BY <1>2 DEF Entry, Status
<1>9. wire' = [wire EXCEPT ![s] = [@ EXCEPT ![i] = e]]
  BY <1>7 DEF Reply
<1> HIDE DEF e
<1>10. /\ wire' \in [Server -> Seq(Entry)]
       /\ \A t \in Server : DOMAIN wire'[t] = DOMAIN wire[t]
       /\ \A t \in Server : \A j \in DOMAIN wire[t] :
            wire'[t][j] = IF t = s /\ j = i THEN e ELSE wire[t][j]
  BY <1>8, <1>9, SetEntry
<1>11. UNCHANGED <<call, l1, registry, Environment>>
  BY DEF Execute
<1>12. WireOK'
  BY <1>8, <1>10, <1>11, SameWireOK
<1>13. l2' \in [Key -> Nat] /\ writes' \in Nat /\ inbox' \in [Server -> Seq(Message)]
  <2>1. CASE UNCHANGED Redis
    BY <2>1, <1>1 DEF Redis, State
  <2>2. CASE /\ writes' = writes + 1
             /\ l2' = [k \in Key |-> IF k \in w.keys THEN writes + 1 ELSE l2[k]]
             /\ UNCHANGED inbox
    BY <2>2, <1>1 DEF State
  <2>3. CASE /\ l2' = [k \in Key |-> IF k \in w.keys THEN 0 ELSE l2[k]]
             /\ UNCHANGED <<inbox, writes>>
    BY <2>3, <1>1 DEF State
  <2>4. CASE /\ UNCHANGED <<l2, writes>>
             /\ \E k \in w.keys : inbox' =
                  [t \in Server |-> Append(inbox[t], [key |-> k, cut |-> w.cut, from |-> s])]
    <3>1. PICK k \in w.keys : inbox' =
            [t \in Server |-> Append(inbox[t], [key |-> k, cut |-> w.cut, from |-> s])]
      BY <2>4
    <3> DEFINE m == [key |-> k, cut |-> w.cut, from |-> s]
    <3>2. m \in Message
      BY <1>4 DEF Message
    <3> HIDE DEF m
    <3>3. \A t \in Server : Append(inbox[t], m) \in Seq(Message)
      BY <3>2, <1>1, AppendProperties DEF State
    <3>4. inbox' = [t \in Server |-> Append(inbox[t], m)]
      BY <3>1 DEF m
    <3> QED BY <2>4, <3>3, <3>4, <1>1 DEF State
  <2> QED BY <2>1, <2>2, <2>3, <2>4 DEF Execute
<1> QED BY <1>1, <1>8, <1>10, <1>11, <1>12, <1>13 DEF State, Environment

\* Calls do not go on when commands fail or are to be sent again.
LEMMA WireMoves ==
  ASSUME TypeInv, UNCHANGED call, wire' \in [Server -> Seq(Entry)],
         \A s \in Server :
           /\ DOMAIN wire'[s] = DOMAIN wire[s]
           /\ \A i \in DOMAIN wire[s] :
                /\ wire'[s][i].call = wire[s][i].call
                /\ Unanswered(s, i)' \/ Kept(s, i, i)
  PROVE  Moves
<1>1. WireOK'
  BY SameWireOK
<1>2. ASSUME NEW s \in Server
      PROVE  Follows(s)
  <2>1. wire'[s] \in Seq(Entry) /\ TypeOK
    BY DEF TypeInv
  <2> QED BY <2>1, SameFollows
<1>3. call' \in [Call -> CallRec] /\ \A c \in Call : call'[c] \in Rec /\ CutFollows(c)
  BY DEF TypeInv, TypeOK, CutFollows
<1> QED BY <1>1, <1>2, <1>3 DEF Moves

\* A command that fails loses the value it brought.
LEMMA CommandFailsKind ==
  ASSUME TypeInv, NEW s \in Server, NEW i \in DOMAIN wire[s], CommandFails(s, i)
  PROVE  State' /\ Moves /\ Calm
<1> DEFINE e == [wire[s][i] EXCEPT !.status = "failed"]
<1>1. /\ wire' = [wire EXCEPT ![s] = [@ EXCEPT ![i] = e]]
      /\ UNCHANGED <<call, offline, l1, registry, Redis, up, losses, purged, overtaken>>
      /\ faults' = faults + 1
  BY DEF CommandFails, Fault
<1>2. wire[s][i] \in Entry
  BY EntryTypes
<1>3. e \in Entry /\ e.call = wire[s][i].call /\ e.rank = wire[s][i].rank /\ e.status = "failed"
  BY <1>2 DEF Entry, Status
<1> HIDE DEF e
<1>4. /\ wire' \in [Server -> Seq(Entry)]
      /\ \A t \in Server : DOMAIN wire'[t] = DOMAIN wire[t]
      /\ \A t \in Server : \A j \in DOMAIN wire[t] :
           wire'[t][j] = IF t = s /\ j = i THEN e ELSE wire[t][j]
  BY <1>1, <1>3, SetEntry
<1>5. \A t \in Server : \A j \in DOMAIN wire[t] :
        wire'[t][j].call = wire[t][j].call /\ Kept(t, j, j)
  BY <1>1, <1>3, <1>4 DEF Kept
<1>6. Moves
  BY <1>1, <1>4, <1>5, WireMoves
<1>7. Faulty
  BY DEF Faulty
<1> QED BY <1>1, <1>6, <1>7 DEF TypeInv, TypeOK, State, Calm, Drops, Redis

\* So do all commands of a connection that closes.
LEMMA DisconnectKind ==
  ASSUME TypeInv, NEW s \in Server, Disconnect(s)
  PROVE  State' /\ Moves /\ Calm
<1> DEFINE q == wire[s]
           v == [i \in DOMAIN q |-> IF q[i].status = "ok" THEN Sent(q[i].call) ELSE q[i]]
<1>1. /\ wire' = [wire EXCEPT ![s] = v]
      /\ up' = [up EXCEPT ![s] = FALSE]
      /\ UNCHANGED <<call, offline, l1, registry, Redis, losses, purged, overtaken>>
      /\ faults' = faults + 1
  BY DEF Disconnect, Fault
<1>2. wire \in [Server -> Seq(Entry)] /\ q \in Seq(Entry)
  BY DEF TypeInv, TypeOK
<1>3. ASSUME NEW i \in DOMAIN q
      PROVE  /\ v[i] \in Entry /\ v[i].call = q[i].call /\ v[i].status # "ok"
             /\ \/ v[i] = q[i]
                \/ v[i].status \in {"sent", "down"} /\ v[i].rank = 0
  <2>1. q[i] \in Entry /\ q[i].call \in Call
    BY EntryTypes
  <2>2. /\ Sent(q[i].call) \in Entry /\ Sent(q[i].call).call = q[i].call
        /\ Sent(q[i].call).rank = 0 /\ Sent(q[i].call).status \in {"sent", "down"}
    BY <2>1 DEF Sent, Entry, Status
  <2> QED BY <2>1, <2>2
<1>4. v \in Seq(Entry) /\ DOMAIN v = DOMAIN q
  <2>1. v \in [1 .. Len(q) -> Entry] /\ Len(q) \in Nat
    BY <1>2, <1>3
  <2>2. v \in Seq(Entry)
    BY <2>1
  <2> QED BY <2>2
<1> HIDE DEF v
<1>5. wire' \in [Server -> Seq(Entry)] /\ \A t \in Server : wire'[t] = IF t = s THEN v ELSE wire[t]
  BY <1>1, <1>2, <1>4
<1>6. ASSUME NEW t \in Server, NEW i \in DOMAIN wire[t]
      PROVE  wire'[t][i].call = wire[t][i].call /\ (Unanswered(t, i)' \/ Kept(t, i, i))
  <2>1. CASE wire'[t][i] = wire[t][i]
    BY <2>1, <1>1 DEF Kept
  <2>2. CASE wire'[t][i] # wire[t][i]
    <3>1. t = s /\ v[i].call = q[i].call /\ v[i].status \in {"sent", "down"} /\ v[i].rank = 0
      BY <2>2, <1>3, <1>5
    <3>2. \A j \in DOMAIN v : v[j].status # "ok"
      BY <1>3, <1>4
    <3> QED BY <3>1, <3>2, <1>5 DEF Unanswered
  <2> QED BY <2>1, <2>2
<1>7. Moves
  BY <1>1, <1>4, <1>5, <1>6, WireMoves
<1>8. Faulty
  BY DEF Faulty
<1> QED BY <1>1, <1>7, <1>8 DEF TypeInv, TypeOK, State, Calm, Drops, Redis

\* The steps that leave calls and wires alone.
LEMMA ApartKind ==
  ASSUME TypeInv, NEW s \in Server,
         \/ \E k \in Key : LoseL1(s, k) \/ LoseL2(k)
         \/ Deliver(s) \/ LoseMessage(s) \/ Reconnect(s)
  PROVE  /\ State' /\ Moves
         /\ \/ Calm \/ Deliver(s) \/ LoseMessage(s)
            \/ \E k \in Key : LoseL2(k)
<1>1. State
  BY DEF TypeInv, TypeOK, State
<1>2. Moves /\ AllStay
  <2>1. UNCHANGED <<call, wire>>
    BY DEF LoseL1, LoseL2, Deliver, LoseMessage, Reconnect
  <2> QED BY <2>1, StillMoves
<1>3. ASSUME inbox[s] # <<>>
      PROVE  /\ Head(inbox[s]) \in Message
             /\ [inbox EXCEPT ![s] = Tail(@)] \in [Server -> Seq(Message)]
  <2>1. inbox[s] \in Seq(Message)
    BY <1>1 DEF State
  <2>2. Head(inbox[s]) \in Message /\ Tail(inbox[s]) \in Seq(Message)
    BY <2>1, <1>3, HeadTailProperties
  <2> QED BY <2>2, <1>1 DEF State
<1>4. ASSUME NEW k \in Key, LoseL1(s, k)
      PROVE  State' /\ Calm
  <2>1. /\ l1' = Forget(s, {k}) /\ losses' = losses + 1
        /\ UNCHANGED <<offline, registry, l2, inbox, writes, up, faults, purged, overtaken>>
    BY <1>4 DEF LoseL1, Redis
  <2>2. l1' \in [Server -> [Key -> Nat]] /\ Drops
    BY <2>1, <1>1, ForgetDrops
  <2>3. State'
    <3>1. losses' \in Nat
      BY <1>1, <2>1 DEF State
    <3> QED BY <1>1, <2>1, <2>2, <3>1 DEF State
  <2>4. Keeps
    BY <2>1, <1>2, StayKeeps
  <2> QED BY <2>1, <2>2, <2>3, <2>4 DEF Calm
<1>5. ASSUME NEW k \in Key, LoseL2(k)
      PROVE  State'
  BY <1>1, <1>5 DEF LoseL2, State
<1>6. CASE Deliver(s)
  <2> DEFINE m == Head(inbox[s])
  <2>1. /\ m \in Message /\ m.key \in Key /\ m.cut \in Nat
        /\ inbox' \in [Server -> Seq(Message)]
    BY <1>3, <1>6 DEF Deliver, Message
  <2>2. /\ l1' = Forget(s, {m.key})
        /\ purged' = [purged EXCEPT ![s][m.key] = IF @ > m.cut THEN @ ELSE m.cut]
        /\ overtaken' = [overtaken EXCEPT ![s] = @ \cup Late(s, m)]
        /\ UNCHANGED <<offline, l2, registry, up, writes, losses, faults>>
    BY <1>6 DEF Deliver
  <2> HIDE DEF m
  <2>3. Late(s, m) \in SUBSET Nat
    BY <2>1 DEF Late
  <2>4. l1' \in [Server -> [Key -> Nat]]
    <3>1. {m.key} \in SUBSET Key /\ l1' = Forget(s, {m.key}) /\ State
      BY <2>1, <2>2, <1>1
    <3> QED BY <3>1, ForgetDrops
  <2>5. purged' \in [Server -> [Key -> Nat]] /\ overtaken' \in [Server -> SUBSET Nat]
    BY <2>1, <2>2, <2>3, <1>1 DEF State
  <2>6. State'
    BY <2>1, <2>2, <2>4, <2>5, <1>1 DEF State
  <2> QED BY <2>6, <1>2, <1>6
<1>7. CASE LoseMessage(s)
  BY <1>1, <1>2, <1>3, <1>7 DEF LoseMessage, Fault, State
<1>8. CASE Reconnect(s)
  <2>1. Keeps
    BY <1>2, <1>8 DEF Keeps, AllStay
  <2> QED BY <2>1, <1>1, <1>2, <1>8 DEF Reconnect, State, Calm, Drops, Redis
<1> QED BY <1>2, <1>4, <1>5, <1>6, <1>7, <1>8

\* Every step has one of the kinds, and gives every variable its type.
LEMMA StepKinds ==
  ASSUME TypeInv, Step, Remember
  PROVE  TypeInv' /\ Kinds
<1>1. CASE State' /\ Moves /\ (Calm \/ \E s \in Server, k \in Key : Takes(s, k) \/ Alone(s, k))
  BY <1>1, TypeFromParts DEF Moves, Kinds
<1>2. ASSUME NEW c \in Call,
             \/ \E k \in Key : Get(c, k) \/ Set(c, k) \/ Invalidate(c, k) \/ Delete(c, k)
             \/ \E t \in Type : DeleteByType(c, t)
             \/ \E match \in SUBSET Key : DeleteByPattern(c, match)
             \/ Clear(c) \/ Fetched(c) \/ FetchFails(c) \/ Return(c)
      PROVE  TypeInv' /\ Kinds
  <2>1. Home[c] \in Server
    BY HomeAssumption
  <2> QED BY <1>1, <1>2, <2>1, GetKind, SetKind, InvalidateKind, DeleteKind, DeleteByTypeKind,
             DeleteByPatternKind, ClearKind, FetchedKind, EndKind
<1>3. ASSUME NEW s \in Server, NEW i \in DOMAIN wire[s], Execute(s, i)
      PROVE  TypeInv' /\ Kinds
  <2>1. /\ State' /\ UNCHANGED call /\ wire' \in [Server -> Seq(Entry)] /\ WireOK'
    BY <1>3, ExecuteTypes
  <2>2. TypeInv'
    BY <2>1, TypeFromParts DEF TypeInv, TypeOK
  <2> QED BY <2>2, <1>3 DEF Kinds
<1>4. ASSUME NEW s \in Server, NEW i \in DOMAIN wire[s], Handle(s, i) \/ CommandFails(s, i)
      PROVE  TypeInv' /\ Kinds
  BY <1>1, <1>4, HandleKind, CommandFailsKind
<1>5. ASSUME NEW s \in Server, Disconnect(s)
      PROVE  TypeInv' /\ Kinds
  BY <1>1, <1>5, DisconnectKind
<1>6. ASSUME NEW s \in Server,
             \/ \E k \in Key : LoseL1(s, k) \/ LoseL2(k)
             \/ Deliver(s) \/ LoseMessage(s) \/ Reconnect(s)
      PROVE  TypeInv' /\ Kinds
  BY <1>6, ApartKind, TypeFromParts DEF Moves, Kinds
<1>7. ASSUME NEW k \in Key, LoseL2(k)
      PROVE  TypeInv' /\ Kinds
  <2>1. State'
    BY <1>7 DEF TypeInv, TypeOK, State, LoseL2
  <2>2. Moves
    BY <1>7, StillMoves DEF LoseL2
  <2> QED BY <1>7, <2>1, <2>2, TypeFromParts DEF Moves, Kinds
<1> QED BY <1>2, <1>3, <1>4, <1>5, <1>6, <1>7 DEF Step

\* At first every variable has its type.
LEMMA InitTypes == Init => TypeInv
<1> SUFFICES ASSUME Init PROVE TypeInv
  OBVIOUS
<1>1. Idle \in CallRec /\ Idle \in Rec
  BY IdleRec
<1>2. WireOK
  BY DEF Init, WireOK, Waiting, Command, Idle
<1> QED BY <1>1, <1>2 DEF Init, TypeInv, TypeOK

\* Types are kept.
LEMMA TypesKept == TypeInv /\ [Next]_vars => TypeInv'
<1> SUFFICES ASSUME TypeInv, [Next]_vars PROVE TypeInv'
  OBVIOUS
<1>1. CASE Next
  BY <1>1, StepKinds DEF Next
<1>2. CASE UNCHANGED vars
  BY <1>2 DEF vars, TypeInv, TypeOK, WireOK, Waiting
<1> QED BY <1>1, <1>2

\* Type correctness, with the match of calls and wires: each call that waits for
\* a command has one on its server's wire, and no other call has, for every
\* number of servers, calls and keys and through all failures.
THEOREM TypeCorrect == Spec => []TypeOK
<1>1. Spec => []TypeInv
  BY InitTypes, TypesKept, PTL DEF Spec
<1>2. TypeInv => TypeOK
  BY DEF TypeInv
<1> QED BY <1>1, <1>2, PTL

-----------------------------------------------------------------------------
(***************************************************************************)
(* The inductive invariant.  Redis answers the commands of a wire in their *)
(* order, and marks the reply with the rank of what it read or wrote; the  *)
(* value it has in the end is newer than what it gave out and what was     *)
(* deleted before.                                                         *)
(***************************************************************************)

\* Entry i of the wire of s is a DEL for k that was executed, and a message
\* is to follow.
Deleting(s, i, k) ==
  /\ wire[s][i].rank # 0
  /\ call[wire[s][i].call].pc = "DEL"
  /\ call[wire[s][i].call].op \in {"broadcast", "put"}
  /\ k \in call[wire[s][i].call].keys

Publishing(c, k) == call[c].pc = "PUBLISH" /\ k \in call[c].keys

\* Only an executed command has a rank, and commands are executed in order.
Marks ==
  \A s \in Server : \A i \in DOMAIN wire[s] :
    /\ wire[s][i].status \in {"sent", "down"} => wire[s][i].rank = 0
    /\ wire[s][i].status = "sent" =>
         \A j \in DOMAIN wire[s] : i < j => wire[s][j].status # "ok"

\* No rank is of a write to come.
Bounded ==
  /\ \A k \in Key : l2[k] <= writes
  /\ \A s \in Server :
       /\ \A k \in Key : seen[s][k] <= writes /\ purged[s][k] <= writes
       /\ \A i \in DOMAIN wire[s] : wire[s][i].rank <= writes
       /\ \A i \in DOMAIN inbox[s] : inbox[s][i].cut <= writes
  /\ \A c \in Call : call[c].pc = "PUBLISH" => call[c].cut <= writes
  /\ \A r \in offline : r <= writes

\* A later reply brings no older value, and none from before an earlier DEL.
InOrder ==
  \A s \in Server, k \in Key : \A i, j \in DOMAIN wire[s] :
    i < j /\ Reading(s, j, k) =>
      /\ Reading(s, i, k) => wire[s][i].rank <= wire[s][j].rank
      /\ Deleting(s, i, k) => wire[s][i].rank < wire[s][j].rank

\* What Redis holds is no older than what anyone has read, or is to read, and
\* newer than what any DEL that a message tells of has deleted.
Newest ==
  \A k \in Key : l2[k] # 0 =>
    /\ l2[k] \notin offline
    /\ \A s \in Server :
         /\ seen[s][k] <= l2[k] /\ purged[s][k] < l2[k]
         /\ \A i \in DOMAIN wire[s] :
              /\ Reading(s, i, k) => wire[s][i].rank <= l2[k]
              /\ Deleting(s, i, k) => wire[s][i].rank < l2[k]
         /\ \A i \in DOMAIN inbox[s] : inbox[s][i].key = k => inbox[s][i].cut < l2[k]
    /\ \A c \in Call : Publishing(c, k) => call[c].cut < l2[k]

\* What a reply brings is no older than what its server has had, is from after
\* the DEL that its server tells of, and if a message has purged it, that is known.
Replies ==
  \A s \in Server, k \in Key : \A i \in DOMAIN wire[s] : Reading(s, i, k) =>
    /\ wire[s][i].rank \notin offline
    /\ seen[s][k] <= wire[s][i].rank
    /\ wire[s][i].rank <= purged[s][k] => wire[s][i].rank \in overtaken[s]
    /\ \A c \in Call : Publishing(c, k) /\ Home[c] = s => call[c].cut < wire[s][i].rank
    /\ \A j \in DOMAIN inbox[s] :
         inbox[s][j].key = k /\ inbox[s][j].from = s => inbox[s][j].cut < wire[s][i].rank

\* A copy of a shared value is the last one seen.
Copies ==
  \A s \in Server, k \in Key : l1[s][k] # 0 /\ l1[s][k] \notin offline => l1[s][k] = seen[s][k]

Inv == TypeInv /\ Marks /\ Bounded /\ InOrder /\ Newest /\ Replies /\ Copies /\ BroadcastPurges

(***************************************************************************)
(* What all steps but those of Redis do to the ranks: none appears but     *)
(* that of a write to L1 alone, and each goes the way from the wire to L1, *)
(* or from a DEL to the message and to the servers it reaches.             *)
(***************************************************************************)
Passes ==
  /\ Moves
  /\ writes <= writes' /\ offline \subseteq offline'
  /\ \A r \in offline' \ offline : r = writes' /\ writes < writes'
  /\ \A k \in Key : l2'[k] \in {0, l2[k]}
  /\ \A s \in Server :
       /\ overtaken[s] \subseteq overtaken'[s]
       /\ \A j \in DOMAIN inbox'[s] : \E i \in DOMAIN inbox[s] : inbox'[s][j] = inbox[s][i]
       /\ \A k \in Key :
            /\ \/ l1'[s][k] \in {0, l1[s][k]}
               \/ l1'[s][k] = writes' /\ writes < writes' /\ writes' \in offline'
               \/ 1 \in DOMAIN wire[s] /\ Reading(s, 1, k) /\ l1'[s][k] = wire[s][1].rank
            /\ \/ seen'[s][k] = seen[s][k]
               \/ /\ 1 \in DOMAIN wire[s] /\ Reading(s, 1, k) /\ seen'[s][k] = wire[s][1].rank
                  /\ call'[wire[s][1].call] = Idle
            /\ \/ purged'[s][k] = purged[s][k]
               \/ /\ \E i \in DOMAIN inbox[s] : inbox[s][i].key = k /\ purged'[s][k] = inbox[s][i].cut
                  /\ l1'[s][k] = 0
                  /\ \A i \in DOMAIN wire[s] :
                       Reading(s, i, k) /\ wire[s][i].rank <= purged'[s][k] =>
                         wire[s][i].rank \in overtaken'[s]

\* A copy that is not new has been seen before.
LEMMA SeenStays ==
  ASSUME Inv, Remember, TypeInv', offline \subseteq offline', NEW s \in Server, NEW k \in Key,
         l1'[s][k] \in {0, l1[s][k]} \cup offline'
  PROVE  seen'[s][k] = seen[s][k]
<1>1. seen'[s][k] = IF Shared(l1'[s][k]) THEN l1'[s][k] ELSE seen[s][k]
  BY DEF Remember
<1>2. CASE l1'[s][k] = 0 \/ l1'[s][k] \in offline'
  BY <1>1, <1>2 DEF Shared
<1>3. CASE l1'[s][k] = l1[s][k] /\ l1[s][k] # 0 /\ l1[s][k] \notin offline'
  BY <1>1, <1>3 DEF Inv, Copies
<1> QED BY <1>2, <1>3

\* A calm step passes the ranks on.
LEMMA CalmPasses ==
  ASSUME Inv, TypeInv', Remember, Moves, Calm
  PROVE  Passes
<1>1. /\ UNCHANGED <<l2, inbox, writes, offline, purged, overtaken>>
      /\ \A s \in Server, k \in Key : l1'[s][k] \in {0, l1[s][k]}
  <2>1. State
    BY DEF Inv, TypeInv, TypeOK, State
  <2> QED BY <2>1, DropsLower DEF Calm
<1>2. writes \in Nat
  BY DEF Inv, TypeInv, TypeOK
<1>3. \A s \in Server, k \in Key : seen'[s][k] = seen[s][k]
  BY <1>1, SeenStays
<1> QED BY <1>1, <1>2, <1>3 DEF Passes

\* The reply a server handles takes its rank into L1.
LEMMA TakesPasses ==
  ASSUME Inv, TypeInv', Remember, Moves, NEW s \in Server, NEW k \in Key, Takes(s, k)
  PROVE  Passes
<1> DEFINE r == wire[s][1].rank
<1>1. /\ UNCHANGED <<l2, inbox, writes, offline, purged, overtaken>>
      /\ 1 \in DOMAIN wire[s] /\ Reading(s, 1, k) /\ call'[wire[s][1].call] = Idle
      /\ l1' = [l1 EXCEPT ![s] = [@ EXCEPT ![k] = r]]
  BY DEF Takes
<1>2. writes \in Nat /\ l1 \in [Server -> [Key -> Nat]]
  BY DEF Inv, TypeInv, TypeOK
<1> HIDE DEF r
<1>3. /\ l1'[s][k] = r
      /\ \A t \in Server, j \in Key : t # s \/ j # k => l1'[t][j] = l1[t][j]
  BY <1>1, <1>2
<1>4. \A t \in Server, j \in Key : t # s \/ j # k => seen'[t][j] = seen[t][j]
  BY <1>1, <1>3, SeenStays
<1>5. seen'[s][k] = r
  <2>1. r # 0 /\ r \notin offline'
    BY <1>1 DEF r, Reading, Inv, Replies
  <2> QED BY <1>3, <2>1 DEF Remember, Shared
<1> QED BY <1>1, <1>2, <1>3, <1>4, <1>5 DEF Passes, r

\* A write to L1 alone has a new rank, which is offline.
LEMMA AlonePasses ==
  ASSUME Inv, TypeInv', Remember, Moves, NEW s \in Server, NEW k \in Key, Alone(s, k)
  PROVE  Passes
<1>1. /\ writes' = writes + 1 /\ offline' = offline \cup {writes + 1}
      /\ UNCHANGED <<l2, inbox, purged, overtaken>>
      /\ l1' = [l1 EXCEPT ![s] = [@ EXCEPT ![k] = writes + 1]]
  BY DEF Alone
<1>2. writes \in Nat /\ l1 \in [Server -> [Key -> Nat]]
  BY DEF Inv, TypeInv, TypeOK
<1>3. /\ l1'[s][k] = writes + 1
      /\ \A t \in Server, j \in Key : t # s \/ j # k => l1'[t][j] = l1[t][j]
  BY <1>1, <1>2
<1>4. \A t \in Server, j \in Key : seen'[t][j] = seen[t][j]
  BY <1>1, <1>3, SeenStays
<1> QED BY <1>1, <1>2, <1>3, <1>4 DEF Passes

\* What is left of an inbox without its first message.
LEMMA TailPasses ==
  ASSUME Inv, NEW s \in Server, inbox[s] # <<>>, inbox' = [inbox EXCEPT ![s] = Tail(@)]
  PROVE  /\ 1 \in DOMAIN inbox[s] /\ inbox[s][1] = Head(inbox[s])
         /\ \A t \in Server : \A j \in DOMAIN inbox'[t] :
              \E i \in DOMAIN inbox[t] : inbox'[t][j] = inbox[t][i]
<1>1. inbox \in [Server -> Seq(Message)] /\ inbox[s] \in Seq(Message)
  BY DEF Inv, TypeInv, TypeOK
<1>2. 1 \in DOMAIN inbox[s] /\ inbox[s][1] = Head(inbox[s])
  BY <1>1
<1>3. ASSUME NEW j \in DOMAIN Tail(inbox[s])
      PROVE  j + 1 \in DOMAIN inbox[s] /\ Tail(inbox[s])[j] = inbox[s][j + 1]
  BY <1>1, HeadTailProperties
<1> QED BY <1>1, <1>2, <1>3

\* A message takes its cut to the server that handles it.
LEMMA DeliverPasses ==
  ASSUME Inv, TypeInv', Remember, Moves, NEW s \in Server, Deliver(s)
  PROVE  Passes
<1> DEFINE m == Head(inbox[s])
<1>1. /\ inbox[s] # <<>> /\ inbox' = [inbox EXCEPT ![s] = Tail(@)]
      /\ l1' = Forget(s, {m.key})
      /\ purged' = [purged EXCEPT ![s][m.key] = IF @ > m.cut THEN @ ELSE m.cut]
      /\ overtaken' = [overtaken EXCEPT ![s] = @ \cup Late(s, m)]
      /\ UNCHANGED <<offline, l2, writes>>
  BY DEF Deliver
<1>2. /\ State /\ writes \in Nat /\ purged \in [Server -> [Key -> Nat]]
      /\ overtaken \in [Server -> SUBSET Nat]
  BY DEF Inv, TypeInv, TypeOK, State
<1>3. 1 \in DOMAIN inbox[s] /\ inbox[s][1] = m /\ inbox[s][1] \in Message
  <2>1. inbox[s] \in Seq(Message)
    BY DEF Inv, TypeInv, TypeOK
  <2> QED BY <2>1, <1>1, TailPasses
<1>4. \A t \in Server : \A j \in DOMAIN inbox'[t] :
        \E i \in DOMAIN inbox[t] : inbox'[t][j] = inbox[t][i]
  BY <1>1, TailPasses
<1>5. m.key \in Key /\ m.cut \in Nat
  BY <1>3 DEF Message
<1> HIDE DEF m
<1>6. /\ \A t \in Server, k \in Key : l1'[t][k] \in {0, l1[t][k]}
      /\ l1'[s][m.key] = 0
  <2>1. \A t \in Server, k \in Key : l1'[t][k] \in {0, l1[t][k]}
    <3>1. Drops
      BY <1>1, <1>2, <1>5, ForgetDrops
    <3> QED BY <3>1, <1>2, DropsLower
  <2>2. Fill(s, {m.key}, 0)[s][m.key] = 0
    BY <1>2, <1>5, FillIs
  <2> QED BY <2>1, <2>2, <1>1 DEF Forget
<1>7. \A t \in Server, k \in Key : seen'[t][k] = seen[t][k]
  BY <1>1, <1>6, SeenStays
<1>8. /\ \A t \in Server : overtaken[t] \subseteq overtaken'[t]
      /\ overtaken'[s] = overtaken[s] \cup Late(s, m)
  BY <1>1, <1>2
<1>9. /\ \A t \in Server, k \in Key : t # s \/ k # m.key => purged'[t][k] = purged[t][k]
      /\ purged'[s][m.key] \in {purged[s][m.key], m.cut}
  BY <1>1, <1>2, <1>5
<1>10. ASSUME NEW i \in DOMAIN wire[s], Reading(s, i, m.key), wire[s][i].rank <= m.cut
       PROVE  wire[s][i].rank \in Late(s, m)
  <2>1. wire[s][i].rank \in Nat
    BY EntryTypes DEF Inv
  <2>2. wire[s][i].rank \in 1 .. m.cut
    BY <1>5, <1>10, <2>1 DEF Reading
  <2> QED BY <1>10, <2>2 DEF Late, Reading
<1>11. ASSUME NEW t \in Server, NEW k \in Key
       PROVE  \/ purged'[t][k] = purged[t][k]
              \/ /\ \E i \in DOMAIN inbox[t] : inbox[t][i].key = k /\ purged'[t][k] = inbox[t][i].cut
                 /\ l1'[t][k] = 0
                 /\ \A i \in DOMAIN wire[t] :
                      Reading(t, i, k) /\ wire[t][i].rank <= purged'[t][k] =>
                        wire[t][i].rank \in overtaken'[t]
  <2>1. CASE t # s \/ k # m.key
    BY <2>1, <1>9
  <2>2. CASE t = s /\ k = m.key /\ purged'[s][k] = m.cut
    BY <2>2, <1>3, <1>6, <1>8, <1>10
  <2> QED BY <2>1, <2>2, <1>9
<1>12. /\ writes <= writes' /\ offline \subseteq offline'
       /\ \A r \in offline' \ offline : r = writes' /\ writes < writes'
       /\ \A k \in Key : l2'[k] \in {0, l2[k]}
  BY <1>1, <1>2
<1>13. \A t \in Server : overtaken[t] \subseteq overtaken'[t]
  BY <1>8
<1> QED BY <1>4, <1>6, <1>7, <1>11, <1>12, <1>13 DEF Passes

\* What Redis loses takes its rank along.
LEMMA LosePasses ==
  ASSUME Inv, TypeInv', Remember, Moves,
         (\E s \in Server : LoseMessage(s)) \/ (\E k \in Key : LoseL2(k))
  PROVE  Passes
<1>1. writes \in Nat /\ l2 \in [Key -> Nat]
  BY DEF Inv, TypeInv, TypeOK
<1>2. /\ UNCHANGED <<offline, writes, l1, purged, overtaken>>
      /\ \A k \in Key : l2'[k] \in {0, l2[k]}
  BY <1>1 DEF LoseMessage, LoseL2
<1>3. \A t \in Server : \A j \in DOMAIN inbox'[t] :
        \E i \in DOMAIN inbox[t] : inbox'[t][j] = inbox[t][i]
  BY TailPasses DEF LoseMessage, LoseL2
<1>4. \A t \in Server, k \in Key : seen'[t][k] = seen[t][k]
  BY <1>2, SeenStays
<1> QED BY <1>1, <1>2, <1>3, <1>4 DEF Passes

\* So every step but those of Redis passes the ranks on.
LEMMA KindPasses ==
  ASSUME Inv, Step, Remember
  PROVE  /\ TypeInv'
         /\ Passes \/ \E s \in Server : \E i \in DOMAIN wire[s] : Execute(s, i)
<1>1. TypeInv' /\ Kinds
  BY StepKinds DEF Inv
<1> QED BY <1>1, CalmPasses, TakesPasses, AlonePasses, DeliverPasses, LosePasses DEF Kinds

\* Where the entries with a rank come from.
LEMMA EntriesFrom ==
  ASSUME Passes, NEW s \in Server
  PROVE  \E f \in [DOMAIN wire'[s] -> Nat] :
           /\ \A i, j \in DOMAIN wire'[s] : i < j => f[i] < f[j]
           /\ \A i \in DOMAIN wire'[s] :
                wire'[s][i].rank # 0 =>
                  /\ f[i] \in DOMAIN wire[s] /\ wire'[s][i].rank = wire[s][f[i]].rank
                  /\ call'[wire[s][f[i]].call] = call[wire[s][f[i]].call]
                  /\ \A k \in Key : /\ Reading(s, i, k)' => Reading(s, f[i], k)
                                    /\ Deleting(s, i, k)' => Deleting(s, f[i], k)
<1>1. PICK f \in [DOMAIN wire'[s] -> Nat] :
        /\ \A i, j \in DOMAIN wire'[s] : i < j => f[i] < f[j]
        /\ \A i \in DOMAIN wire'[s] : Unanswered(s, i)' \/ Kept(s, i, f[i])
  BY DEF Passes, Moves, Follows
<1>2. ASSUME NEW i \in DOMAIN wire'[s], wire'[s][i].rank # 0
      PROVE  /\ f[i] \in DOMAIN wire[s] /\ wire'[s][i].rank = wire[s][f[i]].rank
             /\ call'[wire[s][f[i]].call] = call[wire[s][f[i]].call]
             /\ \A k \in Key : /\ Reading(s, i, k)' => Reading(s, f[i], k)
                               /\ Deleting(s, i, k)' => Deleting(s, f[i], k)
  <2>1. Kept(s, i, f[i])
    BY <1>1, <1>2 DEF Unanswered
  <2> QED BY <2>1 DEF Kept, Reading, Deleting
<1> QED BY <1>1, <1>2

\* Where the cut of a call that publishes comes from.
LEMMA CutsFrom ==
  ASSUME Inv, Passes, NEW c \in Call, NEW k \in Key, Publishing(c, k)'
  PROVE  \/ Publishing(c, k) /\ call'[c].cut = call[c].cut
         \/ call'[c].cut = 0
         \/ /\ 1 \in DOMAIN wire[Home[c]] /\ Deleting(Home[c], 1, k)
            /\ wire[Home[c]][1].call = c /\ call'[c] # call[c]
            /\ call'[c].cut = wire[Home[c]][1].rank
<1>1. CutFollows(c) /\ call'[c].pc = "PUBLISH" /\ k \in call'[c].keys
  BY DEF Passes, Moves, Publishing
<1>2. CASE call'[c] = call[c]
  BY <1>2 DEF Publishing
<1>3. CASE call'[c] # call[c]
  <2>1. /\ call[c].pc = "DEL" /\ call[c].op \in {"broadcast", "put"}
        /\ k \in call[c].keys
    BY <1>1, <1>3 DEF CutFollows
  <2>2. PICK i \in DOMAIN wire[Home[c]] :
          /\ wire[Home[c]][i].call = c /\ call'[c].cut = wire[Home[c]][i].rank
          /\ i = 1 \/ wire[Home[c]][i].status = "down"
    BY <1>1, <1>3 DEF CutFollows
  <2>3. Home[c] \in Server
    BY HomeAssumption
  <2>4. CASE wire[Home[c]][i].rank = 0
    BY <2>2, <2>4
  <2>5. CASE wire[Home[c]][i].rank # 0
    <3>1. i = 1
      BY <2>2, <2>3, <2>5 DEF Inv, Marks
    <3> QED BY <3>1, <2>1, <2>2, <2>5, <1>3 DEF Deleting
  <2> QED BY <2>4, <2>5
<1> QED BY <1>2, <1>3

\* Such a step keeps each part of the invariant: no rank without an execution ...
LEMMA PassesMarks == ASSUME Inv, Passes PROVE Marks'
<1> SUFFICES ASSUME NEW s \in Server, NEW i \in DOMAIN wire'[s]
             PROVE  /\ wire'[s][i].status \in {"sent", "down"} => wire'[s][i].rank = 0
                    /\ wire'[s][i].status = "sent" =>
                         \A j \in DOMAIN wire'[s] : i < j => wire'[s][j].status # "ok"
  BY DEF Marks
<1>1. PICK f \in [DOMAIN wire'[s] -> Nat] :
        /\ \A j, k \in DOMAIN wire'[s] : j < k => f[j] < f[k]
        /\ \A j \in DOMAIN wire'[s] : Unanswered(s, j)' \/ Kept(s, j, f[j])
  BY DEF Passes, Moves, Follows
<1>2. CASE Unanswered(s, i)'
  BY <1>2 DEF Unanswered
<1>3. CASE Kept(s, i, f[i]) /\ wire'[s][i].status \in {"sent", "down"}
  <2>1. /\ f[i] \in DOMAIN wire[s] /\ wire[s][f[i]].status = wire'[s][i].status
        /\ wire'[s][i].rank = wire[s][f[i]].rank
    BY <1>3 DEF Kept
  <2>2. ASSUME wire'[s][i].status = "sent", NEW j \in DOMAIN wire'[s], i < j
        PROVE  wire'[s][j].status # "ok"
    <3>1. SUFFICES ASSUME wire'[s][j].status = "ok" PROVE FALSE
      OBVIOUS
    <3>2. f[j] \in DOMAIN wire[s] /\ wire[s][f[j]].status = "ok" /\ f[i] < f[j]
      BY <3>1, <2>2, <1>1 DEF Kept, Unanswered
    <3> QED BY <3>2, <2>1, <2>2 DEF Inv, Marks
  <2> QED BY <2>1, <2>2 DEF Inv, Marks
<1> QED BY <1>1, <1>2, <1>3

\* ... the order of what the replies of a wire bring ...
LEMMA PassesInOrder == ASSUME Inv, Passes PROVE InOrder'
<1> SUFFICES ASSUME NEW s \in Server, NEW k \in Key,
                    NEW i \in DOMAIN wire'[s], NEW j \in DOMAIN wire'[s],
                    i < j, Reading(s, j, k)'
             PROVE  /\ Reading(s, i, k)' => wire'[s][i].rank <= wire'[s][j].rank
                    /\ Deleting(s, i, k)' => wire'[s][i].rank < wire'[s][j].rank
  BY DEF InOrder
<1>1. PICK f \in [DOMAIN wire'[s] -> Nat] :
           /\ \A a, b \in DOMAIN wire'[s] : a < b => f[a] < f[b]
           /\ \A a \in DOMAIN wire'[s] :
                wire'[s][a].rank # 0 =>
                  /\ f[a] \in DOMAIN wire[s] /\ wire'[s][a].rank = wire[s][f[a]].rank
                  /\ call'[wire[s][f[a]].call] = call[wire[s][f[a]].call]
                  /\ \A b \in Key : /\ Reading(s, a, b)' => Reading(s, f[a], b)
                                    /\ Deleting(s, a, b)' => Deleting(s, f[a], b)
  BY EntriesFrom
<1>2. /\ f[i] < f[j] /\ f[j] \in DOMAIN wire[s] /\ Reading(s, f[j], k)
      /\ wire'[s][j].rank = wire[s][f[j]].rank
  BY <1>1 DEF Reading
<1>3. CASE Reading(s, i, k)' \/ Deleting(s, i, k)'
  <2>1. /\ f[i] \in DOMAIN wire[s] /\ wire'[s][i].rank = wire[s][f[i]].rank
        /\ Reading(s, i, k)' => Reading(s, f[i], k)
        /\ Deleting(s, i, k)' => Deleting(s, f[i], k)
    BY <1>1, <1>3 DEF Reading, Deleting
  <2> QED BY <2>1, <1>2 DEF Inv, InOrder
<1> QED BY <1>3

\* ... the bound on ranks ...
LEMMA PassesBounded == ASSUME Inv, TypeInv', Passes PROVE Bounded'
<1>1. /\ writes \in Nat /\ writes' \in Nat /\ writes <= writes' /\ Bounded
      /\ \A s \in Server, k \in Key : seen[s][k] \in Nat /\ purged[s][k] \in Nat
      /\ \A k \in Key : l2[k] \in Nat
  BY DEF Inv, TypeInv, TypeOK, Passes
<1>2. \A s \in Server : \A i \in DOMAIN wire[s] : wire[s][i].rank \in Nat
  BY EntryTypes DEF Inv
<1>3. \A s \in Server : \A i \in DOMAIN inbox[s] : inbox[s][i].cut \in Nat
  BY MessageTypes DEF Inv
<1>4. \A k \in Key : l2'[k] <= writes'
  BY <1>1 DEF Passes, Bounded
<1>5. ASSUME NEW s \in Server, NEW k \in Key
      PROVE  seen'[s][k] <= writes' /\ purged'[s][k] <= writes'
  <2>1. seen'[s][k] \in Nat /\ seen'[s][k] <= writes
    BY <1>1, <1>2 DEF Passes, Bounded
  <2>2. purged'[s][k] \in Nat /\ purged'[s][k] <= writes
    BY <1>1, <1>3 DEF Passes, Bounded
  <2> QED BY <2>1, <2>2, <1>1
<1>6. ASSUME NEW s \in Server, NEW i \in DOMAIN wire'[s]
      PROVE  wire'[s][i].rank <= writes'
  <2>1. CASE wire'[s][i].rank # 0
    <3>1. PICK j \in DOMAIN wire[s] : wire'[s][i].rank = wire[s][j].rank
      BY <2>1, EntriesFrom
    <3> QED BY <3>1, <1>1, <1>2 DEF Bounded
  <2> QED BY <2>1, <1>1
<1>7. ASSUME NEW s \in Server, NEW i \in DOMAIN inbox'[s]
      PROVE  inbox'[s][i].cut <= writes'
  BY <1>1, <1>3 DEF Passes, Bounded
<1>8. ASSUME NEW c \in Call, call'[c].pc = "PUBLISH"
      PROVE  call'[c].cut <= writes'
  <2>1. Home[c] \in Server /\ call[c].cut \in Nat
    BY HomeAssumption DEF Inv, TypeInv, TypeOK, CallRec
  <2>2. PICK k \in Key : Publishing(c, k)'
    <3>1. call'[c] \in Rec /\ Single(call'[c])
      BY <1>8 DEF Passes, Moves, Single
    <3> QED BY <3>1, <1>8, SingleKey DEF Publishing
  <2>3. \/ call'[c].cut = call[c].cut /\ call[c].pc = "PUBLISH"
        \/ call'[c].cut = 0
        \/ \E i \in DOMAIN wire[Home[c]] : call'[c].cut = wire[Home[c]][i].rank
    BY <2>2, CutsFrom DEF Publishing
  <2> QED BY <2>1, <2>3, <1>1, <1>2 DEF Bounded
<1>9. \A r \in offline' : r <= writes'
  <2>1. offline \subseteq Nat /\ \A r \in offline : r <= writes
    BY <1>1 DEF Bounded, Inv, TypeInv, TypeOK
  <2>2. \A r \in offline' \ offline : r = writes'
    BY DEF Passes
  <2>3. writes \in Nat /\ writes' \in Nat /\ writes <= writes'
    BY <1>1
  <2>4. ASSUME NEW r \in offline
        PROVE  r <= writes'
    <3>1. r \in Nat /\ r <= writes
      BY <2>1
    <3> QED BY <3>1, <2>3
  <2> QED BY <2>2, <2>3, <2>4
<1> QED BY <1>4, <1>5, <1>6, <1>7, <1>8, <1>9 DEF Bounded

\* ... (the history is of what L1 holds, by its definition) ...
LEMMA RememberCopies == Remember => Copies'
BY DEF Remember, Copies, Shared

\* ... that Redis holds the newest value ...
LEMMA PassesNewest == ASSUME Inv, TypeInv', Passes PROVE Newest'
<1> SUFFICES ASSUME NEW k \in Key, l2'[k] # 0
             PROVE  /\ l2'[k] \notin offline'
                    /\ \A s \in Server :
                         /\ seen'[s][k] <= l2'[k] /\ purged'[s][k] < l2'[k]
                         /\ \A i \in DOMAIN wire'[s] :
                              /\ Reading(s, i, k)' => wire'[s][i].rank <= l2'[k]
                              /\ Deleting(s, i, k)' => wire'[s][i].rank < l2'[k]
                         /\ \A i \in DOMAIN inbox'[s] :
                              inbox'[s][i].key = k => inbox'[s][i].cut < l2'[k]
                    /\ \A c \in Call : Publishing(c, k)' => call'[c].cut < l2'[k]
  BY DEF Newest
<1>1. l2'[k] = l2[k] /\ l2[k] # 0 /\ l2[k] \in Nat /\ l2[k] <= writes /\ writes \in Nat
  BY DEF Passes, Inv, Bounded, TypeInv, TypeOK
<1>2. /\ l2[k] \notin offline
      /\ \A s \in Server :
           /\ seen[s][k] <= l2[k] /\ purged[s][k] < l2[k]
           /\ \A i \in DOMAIN wire[s] :
                /\ Reading(s, i, k) => wire[s][i].rank <= l2[k]
                /\ Deleting(s, i, k) => wire[s][i].rank < l2[k]
           /\ \A i \in DOMAIN inbox[s] : inbox[s][i].key = k => inbox[s][i].cut < l2[k]
      /\ \A c \in Call : Publishing(c, k) => call[c].cut < l2[k]
  BY <1>1 DEF Inv, Newest
<1>3. l2'[k] \notin offline'
  BY <1>1, <1>2 DEF Passes
<1>4. ASSUME NEW s \in Server
      PROVE  seen'[s][k] <= l2'[k] /\ purged'[s][k] < l2'[k]
  BY <1>1, <1>2 DEF Passes
<1>5. ASSUME NEW s \in Server, NEW i \in DOMAIN wire'[s], Reading(s, i, k)' \/ Deleting(s, i, k)'
      PROVE  \E j \in DOMAIN wire[s] :
               /\ wire'[s][i].rank = wire[s][j].rank
               /\ Reading(s, i, k)' => Reading(s, j, k)
               /\ Deleting(s, i, k)' => Deleting(s, j, k)
  BY <1>5, EntriesFrom DEF Reading, Deleting
<1>6. ASSUME NEW s \in Server, NEW i \in DOMAIN inbox'[s], inbox'[s][i].key = k
      PROVE  inbox'[s][i].cut < l2'[k]
  BY <1>1, <1>2, <1>6 DEF Passes
<1>7. ASSUME NEW c \in Call, Publishing(c, k)'
      PROVE  call'[c].cut < l2'[k]
  <2>1. Home[c] \in Server
    BY HomeAssumption
  <2> QED BY <2>1, <1>1, <1>2, <1>7, CutsFrom
<1> QED BY <1>1, <1>2, <1>3, <1>4, <1>5, <1>6, <1>7

\* ... that no reply is older than what its server has had ...
LEMMA PassesReplies == ASSUME Inv, TypeInv', Passes PROVE Replies'
<1> SUFFICES ASSUME NEW s \in Server, NEW k \in Key, NEW i \in DOMAIN wire'[s],
                    Reading(s, i, k)'
             PROVE  LET r == wire'[s][i].rank IN
                    /\ r \notin offline'
                    /\ seen'[s][k] <= r
                    /\ r <= purged'[s][k] => r \in overtaken'[s]
                    /\ \A c \in Call : Publishing(c, k)' /\ Home[c] = s => call'[c].cut < r
                    /\ \A j \in DOMAIN inbox'[s] :
                         inbox'[s][j].key = k /\ inbox'[s][j].from = s => inbox'[s][j].cut < r
  BY DEF Replies
<1> DEFINE r == wire'[s][i].rank
<1>1. PICK j \in DOMAIN wire[s] :
        /\ r = wire[s][j].rank /\ Reading(s, j, k)
        /\ call'[wire[s][j].call] = call[wire[s][j].call]
  <2>1. r # 0
    BY DEF Reading
  <2> QED BY <2>1, EntriesFrom
<1>2. r \in Nat /\ r # 0 /\ r <= writes /\ writes \in Nat
  <2>1. wire[s][j].rank \in Nat
    BY EntryTypes DEF Inv
  <2> QED BY <2>1, <1>1 DEF Reading, Inv, Bounded, TypeInv, TypeOK
<1> HIDE DEF r
<1>3. /\ r \notin offline
      /\ seen[s][k] <= r
      /\ r <= purged[s][k] => r \in overtaken[s]
      /\ \A c \in Call : Publishing(c, k) /\ Home[c] = s => call[c].cut < r
      /\ \A m \in DOMAIN inbox[s] :
           inbox[s][m].key = k /\ inbox[s][m].from = s => inbox[s][m].cut < r
  BY <1>1 DEF Inv, Replies
<1>4. r \notin offline'
  BY <1>2, <1>3 DEF Passes
<1>5. j \in Nat /\ j >= 1
  <2>1. wire[s] \in Seq(Entry)
    BY DEF Inv, TypeInv, TypeOK
  <2> QED BY <2>1
<1>6. ASSUME 1 \in DOMAIN wire[s], call'[wire[s][1].call] # call[wire[s][1].call]
      PROVE  /\ Reading(s, 1, k) => wire[s][1].rank <= r
             /\ Deleting(s, 1, k) => wire[s][1].rank < r
  <2>1. 1 < j
    BY <1>1, <1>5, <1>6
  <2> QED BY <2>1, <1>1, <1>6 DEF Inv, InOrder
<1>7. seen'[s][k] <= r
  <2>1. CASE seen'[s][k] = seen[s][k]
    BY <2>1, <1>3
  <2>2. CASE /\ 1 \in DOMAIN wire[s] /\ Reading(s, 1, k) /\ seen'[s][k] = wire[s][1].rank
             /\ call'[wire[s][1].call] = Idle
    <3>1. call'[wire[s][1].call] # call[wire[s][1].call]
      BY <2>2 DEF Reading, Idle
    <3> QED BY <3>1, <2>2, <1>6
  <2> QED BY <2>1, <2>2 DEF Passes
<1>8. r <= purged'[s][k] => r \in overtaken'[s]
  <2>1. CASE purged'[s][k] = purged[s][k]
    BY <2>1, <1>3 DEF Passes
  <2>2. CASE purged'[s][k] # purged[s][k]
    BY <2>2, <1>1 DEF Passes
  <2> QED BY <2>1, <2>2
<1>9. ASSUME NEW c \in Call, Publishing(c, k)', Home[c] = s
      PROVE  call'[c].cut < r
  <2>1. CASE call'[c].cut = 0
    BY <2>1, <1>2
  <2>2. CASE Publishing(c, k) /\ call'[c].cut = call[c].cut
    BY <2>2, <1>3, <1>9
  <2>3. CASE /\ 1 \in DOMAIN wire[s] /\ Deleting(s, 1, k)
             /\ wire[s][1].call = c /\ call'[c] # call[c]
             /\ call'[c].cut = wire[s][1].rank
    BY <2>3, <1>6
  <2> QED BY <2>1, <2>2, <2>3, <1>9, CutsFrom
<1>10. ASSUME NEW m \in DOMAIN inbox'[s], inbox'[s][m].key = k, inbox'[s][m].from = s
       PROVE  inbox'[s][m].cut < r
  BY <1>3, <1>10 DEF Passes
<1> QED BY <1>4, <1>7, <1>8, <1>9, <1>10 DEF r

\* ... and that what a message purged does not come back.
LEMMA PassesPurges == ASSUME Inv, TypeInv', Passes PROVE BroadcastPurges'
<1> SUFFICES ASSUME NEW s \in Server, NEW k \in Key, l1'[s][k] \in 1 .. purged'[s][k]
             PROVE  l1'[s][k] \in overtaken'[s]
  BY DEF BroadcastPurges
<1>1. /\ writes \in Nat /\ purged[s][k] \in Nat /\ purged[s][k] <= writes
      /\ l1'[s][k] # 0 /\ l1'[s][k] \in Nat
  BY DEF Inv, TypeInv, TypeOK, Bounded
<1>2. purged'[s][k] = purged[s][k] /\ overtaken[s] \subseteq overtaken'[s]
  BY <1>1 DEF Passes
<1>3. CASE l1'[s][k] = l1[s][k]
  BY <1>1, <1>2, <1>3 DEF Inv, BroadcastPurges
<1>4. CASE l1'[s][k] = writes' /\ writes < writes'
  BY <1>1, <1>2, <1>4
<1>5. CASE 1 \in DOMAIN wire[s] /\ Reading(s, 1, k) /\ l1'[s][k] = wire[s][1].rank
  BY <1>1, <1>2, <1>5 DEF Inv, Replies
<1> QED BY <1>1, <1>3, <1>4, <1>5 DEF Passes

(***************************************************************************)
(* What Redis does to the ranks when it executes entry i of the wire of s. *)
(***************************************************************************)
Answers(s, i) ==
  /\ UNCHANGED <<call, l1, offline, purged, overtaken>>
  /\ \A t \in Server, k \in Key : seen'[t][k] = seen[t][k]
  /\ \A t \in Server : DOMAIN wire'[t] = DOMAIN wire[t]
  /\ \A t \in Server : \A j \in DOMAIN wire[t] :
       t # s \/ j # i => wire'[t][j] = wire[t][j]
  /\ Foremost(s, i) /\ wire'[s][i].status = "ok"
  /\ writes <= writes' /\ wire'[s][i].rank <= writes'
  /\ \A k \in Key :
       /\ \/ l2'[k] \in {0, l2[k]}
          \/ l2'[k] = writes' /\ writes < writes' /\ Reading(s, i, k)'
       /\ Reading(s, i, k)' => wire'[s][i].rank = l2'[k]
       /\ Deleting(s, i, k)' => l2'[k] = 0
  /\ \A t \in Server : \A j \in DOMAIN inbox'[t] :
       \/ \E m \in DOMAIN inbox[t] : inbox'[t][j] = inbox[t][m]
       \/ \E c \in Call :
            /\ inbox'[t][j].from = Home[c] /\ inbox'[t][j].cut = call[c].cut
            /\ Publishing(c, inbox'[t][j].key)
            /\ UNCHANGED l2 /\ \A k \in Key : ~Reading(s, i, k)'

\* Redis does what Answers says, for each command.
LEMMA ExecuteAnswers ==
  ASSUME Inv, TypeInv', Remember, NEW s \in Server, NEW i \in DOMAIN wire[s], Execute(s, i)
  PROVE  Answers(s, i)
<1> DEFINE c == wire[s][i].call
           w == call[c]
<1>1. /\ UNCHANGED call
      /\ wire' \in [Server -> Seq(Entry)]
      /\ \A t \in Server : DOMAIN wire'[t] = DOMAIN wire[t]
      /\ \A t \in Server : \A j \in DOMAIN wire[t] :
           t # s \/ j # i => wire'[t][j] = wire[t][j]
      /\ wire'[s][i].call = c /\ wire'[s][i].status = "ok"
  BY ExecuteTypes DEF Inv
<1>2. Foremost(s, i) /\ UNCHANGED <<l1, offline, purged, overtaken>>
  BY DEF Execute, Environment
<1>3. \A t \in Server, k \in Key : seen'[t][k] = seen[t][k]
  BY <1>2, SeenStays
<1>4. /\ c \in Call /\ Home[c] = s /\ w \in Rec /\ w.keys \subseteq Key
  <2>1. c \in Call /\ Home[c] = s
    BY HandledLeavesRest DEF Inv, TypeInv
  <2> QED BY <2>1 DEF Inv, TypeInv, TypeOK, CallRec
<1>5. /\ writes \in Nat /\ l2 \in [Key -> Nat] /\ \A k \in Key : l2[k] <= writes
      /\ wire \in [Server -> Seq(Entry)] /\ inbox \in [Server -> Seq(Message)]
      /\ i \in DOMAIN wire[s] /\ wire[s] \in Seq(Entry) /\ wire[s][i] \in Entry
  BY EntryTypes DEF Inv, Bounded, TypeInv, TypeOK
<1>6. \A r, keys, rest : Reply(s, i, r, keys, rest) => wire'[s][i].rank = r
  <2> SUFFICES ASSUME NEW r, NEW keys, NEW rest, Reply(s, i, r, keys, rest)
               PROVE  wire'[s][i].rank = r
    OBVIOUS
  <2> DEFINE e == [wire[s][i] EXCEPT !.status = "ok", !.rank = r, !.keys = keys, !.rest = rest]
  <2>1. wire' = [wire EXCEPT ![s] = [@ EXCEPT ![i] = e]]
    BY DEF Reply
  <2>2. e.rank = r
    BY <1>5 DEF Entry
  <2> HIDE DEF e
  <2> QED BY <2>1, <2>2, <1>5
<1> HIDE DEF c, w
<1>7. /\ \A k \in Key : Reading(s, i, k)' => w.pc \in {"GET", "SETEX"} /\ k \in w.keys
      /\ \A k \in Key : Deleting(s, i, k)' => w.pc = "DEL" /\ k \in w.keys
  BY <1>1 DEF Reading, Deleting, w
<1> DEFINE Ranks ==
             /\ writes <= writes' /\ wire'[s][i].rank <= writes'
             /\ \A k \in Key :
                  /\ \/ l2'[k] \in {0, l2[k]}
                     \/ l2'[k] = writes' /\ writes < writes' /\ Reading(s, i, k)'
                  /\ Reading(s, i, k)' => wire'[s][i].rank = l2'[k]
                  /\ Deleting(s, i, k)' => l2'[k] = 0
<1>8. ASSUME Ranks, UNCHANGED inbox
       PROVE  Answers(s, i)
  BY <1>1, <1>2, <1>3, <1>8 DEF Answers
<1>9. CASE w.pc = "GET"
  <2>1. PICK k \in Key : w.keys = {k}
    BY <1>4, <1>9, SingleKey DEF Single
  <2>2. wire'[s][i].rank = l2[k] /\ UNCHANGED <<l2, inbox, writes>>
    BY <2>1, <1>6, <1>9 DEF Execute, Redis, w, c
  <2>3. Ranks
    <3>1. writes <= writes' /\ wire'[s][i].rank <= writes'
      BY <2>1, <2>2, <1>5
    <3>2. \A n \in Key : /\ Reading(s, i, n)' => n = k
                         /\ ~Deleting(s, i, n)'
      BY <2>1, <1>7, <1>9
    <3> QED BY <3>1, <3>2, <2>2
  <2> QED BY <2>2, <2>3, <1>8
<1>10. CASE w.pc = "SETEX"
  <2>1. /\ wire'[s][i].rank = writes + 1 /\ writes' = writes + 1 /\ UNCHANGED inbox
        /\ \A k \in Key : l2'[k] = IF k \in w.keys THEN writes + 1 ELSE l2[k]
    BY <1>6, <1>10 DEF Execute, w, c
  <2>2. \A k \in w.keys : Reading(s, i, k)'
    <3>1. writes + 1 # 0
      BY <1>5
    <3> QED BY <3>1, <2>1, <1>1, <1>10 DEF Reading, w
  <2>3. Ranks
    BY <2>1, <2>2, <1>5, <1>7, <1>10
  <2> QED BY <2>1, <2>3, <1>8
<1>11. CASE w.pc = "DEL"
  <2>1. /\ wire'[s][i].rank = writes /\ UNCHANGED <<inbox, writes>>
        /\ \A k \in Key : l2'[k] = IF k \in w.keys THEN 0 ELSE l2[k]
    BY <1>6, <1>11 DEF Execute, w, c
  <2>2. Ranks
    <3>1. writes <= writes' /\ wire'[s][i].rank <= writes'
      BY <2>1, <1>5
    <3>2. \A n \in Key : ~Reading(s, i, n)' /\ (Deleting(s, i, n)' => n \in w.keys)
      BY <1>7, <1>11
    <3> QED BY <3>1, <3>2, <2>1
  <2> QED BY <2>1, <2>2, <1>8
<1>12. CASE w.pc \in {"EXISTS", "SCAN"}
  <2>1. wire'[s][i].rank = 0 /\ UNCHANGED <<l2, inbox, writes>>
    BY <1>6, <1>12 DEF Execute, Redis, w, c
  <2>2. Ranks
    <3>1. writes <= writes' /\ wire'[s][i].rank <= writes'
      BY <2>1, <1>5
    <3>2. \A n \in Key : ~Reading(s, i, n)' /\ ~Deleting(s, i, n)'
      BY <1>7, <1>12
    <3> QED BY <3>1, <3>2, <2>1
  <2> QED BY <2>1, <2>2, <1>8
<1>13. CASE w.pc = "PUBLISH"
  <2>1. wire'[s][i].rank = 0 /\ UNCHANGED <<l2, writes>>
    BY <1>6, <1>13 DEF Execute, w, c
  <2>2. PICK k \in w.keys : inbox' =
          [t \in Server |-> Append(inbox[t], [key |-> k, cut |-> w.cut, from |-> s])]
    BY <1>13 DEF Execute, w, c
  <2> DEFINE m == [key |-> k, cut |-> w.cut, from |-> s]
  <2>3. /\ m.from = Home[c] /\ m.cut = call[c].cut /\ Publishing(c, m.key)
        /\ m \in Message
    <3>1. w.cut \in Nat /\ k \in Key
      BY <1>4 DEF Rec, CallRec
    <3> QED BY <3>1, <1>4, <1>13 DEF Publishing, w, Message
  <2>4. \A t \in Server : inbox'[t] = Append(inbox[t], m)
    BY <2>2
  <2> HIDE DEF m
  <2>5. ASSUME NEW t \in Server, NEW j \in DOMAIN inbox'[t]
        PROVE  inbox'[t][j] = m \/ \E n \in DOMAIN inbox[t] : inbox'[t][j] = inbox[t][n]
    <3>1. inbox[t] \in Seq(Message) /\ inbox'[t] = Append(inbox[t], m)
      BY <1>5, <2>4
    <3>2. /\ Len(inbox'[t]) = Len(inbox[t]) + 1 /\ inbox'[t] \in Seq(Message)
          /\ \A n \in 1 .. Len(inbox[t]) : inbox'[t][n] = inbox[t][n]
          /\ inbox'[t][Len(inbox[t]) + 1] = m
      BY <3>1, <2>3, AppendProperties
    <3>3. /\ DOMAIN inbox[t] = 1 .. Len(inbox[t]) /\ Len(inbox[t]) \in Nat
          /\ j \in 1 .. Len(inbox[t]) + 1
      BY <3>1, <3>2
    <3> QED BY <3>2, <3>3
  <2>6. ASSUME NEW t \in Server, NEW j \in DOMAIN inbox'[t]
        PROVE  \/ \E n \in DOMAIN inbox[t] : inbox'[t][j] = inbox[t][n]
               \/ \E d \in Call :
                    /\ inbox'[t][j].from = Home[d] /\ inbox'[t][j].cut = call[d].cut
                    /\ Publishing(d, inbox'[t][j].key)
                    /\ UNCHANGED l2 /\ \A n \in Key : ~Reading(s, i, n)'
    <3>1. \A n \in Key : ~Reading(s, i, n)'
      BY <1>7, <1>13
    <3>2. CASE inbox'[t][j] = m
      BY <3>1, <3>2, <2>1, <2>3, <1>4
    <3> QED BY <3>2, <2>5
  <2>7. Ranks
    <3>1. writes <= writes' /\ wire'[s][i].rank <= writes'
      BY <2>1, <1>5
    <3>2. \A n \in Key : ~Reading(s, i, n)' /\ ~Deleting(s, i, n)'
      BY <1>7, <1>13
    <3> QED BY <3>1, <3>2, <2>1
  <2> QED BY <2>6, <2>7, <1>1, <1>2, <1>3 DEF Answers
<1>14. w.pc \in Command
  BY DEF Execute, w, c, Command
<1> QED BY <1>9, <1>10, <1>11, <1>12, <1>13, <1>14 DEF Command

\* An answer keeps each part of the invariant: the entry was the foremost ...
LEMMA AnswersMarks ==
  ASSUME Inv, NEW s \in Server, NEW i \in DOMAIN wire[s], Answers(s, i)
  PROVE  Marks'
<1>1. wire[s] \in Seq(Entry)
  BY DEF Inv, TypeInv, TypeOK
<1>2. \A j \in DOMAIN wire[s] : j < i => wire[s][j].status # "sent"
  BY <1>1 DEF Answers, Foremost
<1> QED BY <1>2 DEF Answers, Inv, Marks

\* ... a write is the last one so far ...
LEMMA AnswersBounded ==
  ASSUME Inv, TypeInv', NEW s \in Server, NEW i \in DOMAIN wire[s], Answers(s, i)
  PROVE  Bounded'
<1>1. /\ writes \in Nat /\ writes' \in Nat /\ writes <= writes' /\ Bounded
      /\ \A t \in Server, k \in Key : seen[t][k] \in Nat /\ purged[t][k] \in Nat
      /\ \A k \in Key : l2[k] \in Nat
      /\ \A r \in offline : r \in Nat
      /\ \A c \in Call : call[c].cut \in Nat
  BY DEF Inv, TypeInv, TypeOK, CallRec, Answers
<1>2. \A t \in Server : \A j \in DOMAIN wire[t] : wire[t][j].rank \in Nat
  BY EntryTypes DEF Inv
<1>3. \A t \in Server : \A j \in DOMAIN inbox[t] : inbox[t][j].cut \in Nat
  BY MessageTypes DEF Inv
<1>4. \A k \in Key : l2'[k] <= writes'
  BY <1>1 DEF Answers, Bounded
<1>5. \A t \in Server : \A j \in DOMAIN wire'[t] : wire'[t][j].rank <= writes'
  BY <1>1, <1>2 DEF Answers, Bounded
<1>6. ASSUME NEW t \in Server, NEW j \in DOMAIN inbox'[t]
      PROVE  inbox'[t][j].cut <= writes'
  <2>1. CASE \E m \in DOMAIN inbox[t] : inbox'[t][j] = inbox[t][m]
    BY <2>1, <1>1, <1>3 DEF Bounded
  <2>2. CASE \E c \in Call : inbox'[t][j].cut = call[c].cut /\ call[c].pc = "PUBLISH"
    BY <2>2, <1>1 DEF Bounded
  <2> QED BY <2>1, <2>2 DEF Answers, Publishing
<1>7. \A t \in Server, k \in Key : seen'[t][k] <= writes' /\ purged'[t][k] <= writes'
  BY <1>1 DEF Answers, Bounded
<1>8. \A c \in Call : call'[c].pc = "PUBLISH" => call'[c].cut <= writes'
  BY <1>1 DEF Answers, Bounded
<1>9. \A r \in offline' : r <= writes'
  BY <1>1 DEF Answers, Bounded
<1> QED BY <1>4, <1>5, <1>6, <1>7, <1>8, <1>9 DEF Bounded

\* ... and newer than all others, and a deletion leaves nothing ...
LEMMA AnswersNewest ==
  ASSUME Inv, TypeInv', NEW s \in Server, NEW i \in DOMAIN wire[s], Answers(s, i)
  PROVE  Newest'
<1> SUFFICES ASSUME NEW k \in Key, l2'[k] # 0
             PROVE  /\ l2'[k] \notin offline'
                    /\ \A t \in Server :
                         /\ seen'[t][k] <= l2'[k] /\ purged'[t][k] < l2'[k]
                         /\ \A j \in DOMAIN wire'[t] :
                              /\ Reading(t, j, k)' => wire'[t][j].rank <= l2'[k]
                              /\ Deleting(t, j, k)' => wire'[t][j].rank < l2'[k]
                         /\ \A j \in DOMAIN inbox'[t] :
                              inbox'[t][j].key = k => inbox'[t][j].cut < l2'[k]
                    /\ \A c \in Call : Publishing(c, k)' => call'[c].cut < l2'[k]
  BY DEF Newest
<1>1. /\ UNCHANGED <<call, offline, purged>>
      /\ \A t \in Server : seen'[t][k] = seen[t][k]
  BY DEF Answers
<1>2. /\ writes \in Nat /\ writes' \in Nat /\ l2'[k] \in Nat /\ l2[k] \in Nat
      /\ \A t \in Server : seen[t][k] \in Nat /\ purged[t][k] \in Nat
      /\ \A c \in Call : call[c].cut \in Nat
  BY DEF Inv, TypeInv, TypeOK, CallRec
<1>3. \A t \in Server : \A j \in DOMAIN wire[t] : wire[t][j].rank \in Nat
  BY EntryTypes DEF Inv
<1>4. \A t \in Server : \A j \in DOMAIN inbox[t] : inbox[t][j].cut \in Nat
  BY MessageTypes DEF Inv
\* What there was before is no newer than what Redis has now.
<1>5. /\ l2'[k] \notin offline
      /\ \A t \in Server :
           /\ seen[t][k] <= l2'[k] /\ purged[t][k] < l2'[k]
           /\ \A j \in DOMAIN wire[t] :
                /\ Reading(t, j, k) => wire[t][j].rank <= l2'[k]
                /\ Deleting(t, j, k) => wire[t][j].rank < l2'[k]
           /\ \A j \in DOMAIN inbox[t] : inbox[t][j].key = k => inbox[t][j].cut < l2'[k]
      /\ \A c \in Call : Publishing(c, k) => call[c].cut < l2'[k]
  <2>1. CASE l2'[k] = l2[k]
    BY <2>1 DEF Inv, Newest
  <2>2. CASE l2'[k] = writes' /\ writes < writes'
    BY <2>2, <1>2, <1>3, <1>4 DEF Inv, Bounded, Publishing
  <2> QED BY <2>1, <2>2 DEF Answers
<1>6. ASSUME NEW t \in Server, NEW j \in DOMAIN wire'[t]
      PROVE  /\ Reading(t, j, k)' => wire'[t][j].rank <= l2'[k]
             /\ Deleting(t, j, k)' => wire'[t][j].rank < l2'[k]
  <2>1. CASE t # s \/ j # i
    <3>1. j \in DOMAIN wire[t] /\ wire'[t][j] = wire[t][j]
      BY <2>1 DEF Answers
    <3> QED BY <3>1, <1>1, <1>5 DEF Reading, Deleting
  <2>2. CASE t = s /\ j = i
    BY <2>2, <1>2 DEF Answers
  <2> QED BY <2>1, <2>2
<1>7. ASSUME NEW t \in Server, NEW j \in DOMAIN inbox'[t], inbox'[t][j].key = k
      PROVE  inbox'[t][j].cut < l2'[k]
  <2>1. CASE \E m \in DOMAIN inbox[t] : inbox'[t][j] = inbox[t][m]
    BY <2>1, <1>5, <1>7
  <2>2. CASE \E c \in Call : inbox'[t][j].cut = call[c].cut /\ Publishing(c, inbox'[t][j].key)
    BY <2>2, <1>5, <1>7
  <2> QED BY <2>1, <2>2 DEF Answers
<1> QED BY <1>1, <1>5, <1>6, <1>7 DEF Publishing

\* ... so no later reply brings something older ...
LEMMA AnswersInOrder ==
  ASSUME Inv, Newest', NEW s \in Server, NEW i \in DOMAIN wire[s], Answers(s, i)
  PROVE  InOrder'
<1> SUFFICES ASSUME NEW t \in Server, NEW k \in Key,
                    NEW a \in DOMAIN wire'[t], NEW b \in DOMAIN wire'[t],
                    a < b, Reading(t, b, k)'
             PROVE  /\ Reading(t, a, k)' => wire'[t][a].rank <= wire'[t][b].rank
                    /\ Deleting(t, a, k)' => wire'[t][a].rank < wire'[t][b].rank
  BY DEF InOrder
<1>1. a \in DOMAIN wire[t] /\ b \in DOMAIN wire[t] /\ call' = call
  BY DEF Answers
<1>2. CASE (t # s \/ a # i) /\ (t # s \/ b # i)
  <2>1. wire'[t][a] = wire[t][a] /\ wire'[t][b] = wire[t][b]
    BY <1>1, <1>2 DEF Answers
  <2> QED BY <2>1, <1>1 DEF Inv, InOrder, Reading, Deleting
<1>3. CASE t = s /\ b = i
  <2>1. wire'[t][b].rank = l2'[k] /\ l2'[k] # 0
    BY <1>3 DEF Answers, Reading
  <2> QED BY <2>1 DEF Newest
<1>4. CASE t = s /\ a = i
  <2>1. wire'[t][b] = wire[t][b] /\ wire[t][b].status = "ok"
    <3>1. wire[s] \in Seq(Entry)
      BY DEF Inv, TypeInv, TypeOK
    <3>2. b # i
      BY <3>1, <1>1, <1>4
    <3> QED BY <3>2, <1>1, <1>4 DEF Answers, Reading
  <2>2. wire[s][i].status = "sent"
    BY DEF Answers, Foremost
  <2> QED BY <2>1, <2>2, <1>1, <1>4 DEF Inv, Marks
<1> QED BY <1>2, <1>3, <1>4

\* ... and what is read now is newer than what was had or deleted before.
LEMMA AnswersReplies ==
  ASSUME Inv, TypeInv', Newest', NEW s \in Server, NEW i \in DOMAIN wire[s], Answers(s, i)
  PROVE  Replies'
<1> SUFFICES ASSUME NEW t \in Server, NEW k \in Key, NEW j \in DOMAIN wire'[t],
                    Reading(t, j, k)'
             PROVE  LET r == wire'[t][j].rank IN
                    /\ r \notin offline'
                    /\ seen'[t][k] <= r
                    /\ r <= purged'[t][k] => r \in overtaken'[t]
                    /\ \A c \in Call : Publishing(c, k)' /\ Home[c] = t => call'[c].cut < r
                    /\ \A m \in DOMAIN inbox'[t] :
                         inbox'[t][m].key = k /\ inbox'[t][m].from = t => inbox'[t][m].cut < r
  BY DEF Replies
<1>1. CASE t = s /\ j = i
  <2>1. wire'[t][j].rank = l2'[k] /\ l2'[k] # 0 /\ l2'[k] \in Nat /\ purged'[t][k] \in Nat
    BY <1>1 DEF Answers, Reading, TypeInv, TypeOK
  <2> QED BY <2>1 DEF Newest
<1>2. CASE t # s \/ j # i
  <2>1. /\ j \in DOMAIN wire[t] /\ wire'[t][j] = wire[t][j]
        /\ UNCHANGED <<call, offline, purged, overtaken>>
        /\ seen'[t][k] = seen[t][k]
    BY <1>2 DEF Answers
  <2>2. Reading(t, j, k)
    BY <2>1 DEF Reading
  <2>3. ASSUME NEW m \in DOMAIN inbox'[t], inbox'[t][m].key = k, inbox'[t][m].from = t
        PROVE  inbox'[t][m].cut < wire[t][j].rank
    BY <2>1, <2>2, <2>3 DEF Answers, Inv, Replies
  <2> QED BY <2>1, <2>2, <2>3 DEF Inv, Replies, Publishing
<1> QED BY <1>1, <1>2

\* Initially nothing is stored and nothing is on its way.
LEMMA InitInv == Init => Inv
<1> SUFFICES ASSUME Init PROVE Inv
  OBVIOUS
<1>1. TypeInv
  BY InitTypes
<1>2. \A s \in Server : DOMAIN wire[s] = {} /\ DOMAIN inbox[s] = {}
  BY DEF Init
<1>3. /\ \A c \in Call : call[c].pc = "idle"
      /\ \A k \in Key : l2[k] = 0
      /\ \A s \in Server, k \in Key : l1[s][k] = 0 /\ seen[s][k] = 0 /\ purged[s][k] = 0
      /\ writes = 0 /\ offline = {}
  BY DEF Init, Idle
<1> QED BY <1>1, <1>2, <1>3
    DEF Inv, Marks, Bounded, InOrder, Newest, Replies, Copies, BroadcastPurges, Publishing

\* Every step keeps the invariant.
LEMMA InvKept == Inv /\ [Next]_vars => Inv'
<1> SUFFICES ASSUME Inv, [Next]_vars PROVE Inv'
  OBVIOUS
<1>1. CASE UNCHANGED vars
  <2>1. TypeInv'
    BY <1>1, TypesKept DEF Inv
  <2> QED BY <1>1, <2>1
      DEF vars, Inv, Marks, Bounded, InOrder, Newest, Replies, Copies, BroadcastPurges,
          Reading, Deleting, Publishing
<1>2. CASE Next
  <2>1. Step /\ Remember
    BY <1>2 DEF Next
  <2>2. /\ TypeInv' /\ Copies'
        /\ Passes \/ \E s \in Server : \E i \in DOMAIN wire[s] : Execute(s, i)
    BY <2>1, KindPasses, RememberCopies
  <2>3. CASE Passes
    BY <2>2, <2>3, PassesMarks, PassesBounded, PassesInOrder, PassesNewest, PassesReplies,
       PassesPurges DEF Inv
  <2>4. ASSUME NEW s \in Server, NEW i \in DOMAIN wire[s], Execute(s, i)
        PROVE  Inv'
    <3>1. Answers(s, i)
      BY <2>1, <2>2, <2>4, ExecuteAnswers
    <3>2. Newest'
      BY <2>2, <3>1, AnswersNewest
    <3>3. BroadcastPurges'
      BY <3>1 DEF Answers, Inv, BroadcastPurges
    <3> QED BY <2>2, <3>1, <3>2, <3>3, AnswersMarks, AnswersBounded, AnswersInOrder,
               AnswersReplies DEF Inv
  <2> QED BY <2>2, <2>3, <2>4
<1> QED BY <1>1, <1>2

\* So it always holds.
LEMMA Invariance == Spec => []Inv
BY InitInv, InvKept, PTL DEF Spec

\* After a server has handled a broadcast for a key, its L1 holds no value from
\* before the broadcaster's DEL, but for one whose reply from L2 was on the wire
\* then: for every number of servers and calls, through failed commands, outages
\* and lost messages.
THEOREM BroadcastsPurge == Spec => []BroadcastPurges
<1>1. Inv => BroadcastPurges
  BY DEF Inv
<1> QED BY <1>1, Invariance, PTL

\* On the broadcaster's own server no such reply is left: the replies to what was
\* sent before its DEL are handled before it publishes.
THEOREM OwnBroadcastPurgesAll == Spec => []OwnBroadcastIsLast
<1>1. ASSUME Inv, NEW s \in Server, NEW i \in DOMAIN inbox[s], inbox[s][i].from = s
      PROVE  Late(s, inbox[s][i]) = {}
  <2> DEFINE m == inbox[s][i]
  <2>1. m.key \in Key /\ m.cut \in Nat
    BY <1>1, MessageTypes DEF Inv
  <2>2. ASSUME NEW r \in Late(s, m)
        PROVE  FALSE
    <3>1. r \in 1 .. m.cut
      BY DEF Late
    <3>2. PICK j \in DOMAIN wire[s] :
            /\ wire[s][j].status = "ok" /\ wire[s][j].rank = r
            /\ call[wire[s][j].call].pc \in {"GET", "SETEX"}
            /\ m.key \in call[wire[s][j].call].keys
      BY DEF Late
    <3>3. Reading(s, j, m.key)
      BY <3>1, <3>2, <2>1 DEF Reading
    <3>4. m.cut < r
      BY <3>2, <3>3, <2>1, <1>1 DEF Inv, Replies
    <3> QED BY <3>1, <3>4, <2>1
  <2> QED BY <2>2
<1>2. Inv => OwnBroadcastIsLast
  BY <1>1 DEF OwnBroadcastIsLast
<1> QED BY <1>2, Invariance, PTL

-----------------------------------------------------------------------------
(***************************************************************************)
(* Every L1 implements MonotonicReads.                                     *)
(***************************************************************************)

\* Steps that only drop copies.
LEMMA DropRefines ==
  ASSUME Inv, TypeInv', Remember, Drops, UNCHANGED <<writes, offline>>
  PROVE  [Reads!Next]_(Reads!vars)
<1>1. State
  BY DEF Inv, TypeInv, TypeOK, State
<1>2. seen' = seen
  <2>1. \A s \in Server, k \in Key : seen'[s][k] = seen[s][k]
    BY <1>1, DropsLower, SeenStays
  <2>2. seen \in [Server -> [Key -> Nat]] /\ seen' \in [Server -> [Key -> Nat]]
    BY DEF Inv, TypeInv, TypeOK
  <2>3. \A s \in Server : seen'[s] = seen[s]
    BY <2>1, <2>2
  <2> QED BY <2>2, <2>3
<1>3. CASE l1' = l1
  BY <1>2, <1>3 DEF Reads!vars
<1>4. ASSUME NEW s \in Server, NEW keys \in SUBSET Key, l1' = Forget(s, keys)
      PROVE  Reads!Drop(s, keys)
  BY <1>2, <1>4 DEF Reads!Drop, Forget, Fill
<1> QED BY <1>3, <1>4 DEF Drops, Reads!Next

\* A reply that is handled is a Take of its value.
LEMMA TakesRefines ==
  ASSUME Inv, TypeInv', Remember, NEW s \in Server, NEW k \in Key, Takes(s, k)
  PROVE  Reads!Next
<1> DEFINE r == wire[s][1].rank
<1>1. /\ UNCHANGED <<writes, offline>>
      /\ 1 \in DOMAIN wire[s] /\ Reading(s, 1, k)
      /\ l1' = [l1 EXCEPT ![s] = [@ EXCEPT ![k] = r]]
  BY DEF Takes
<1>2. /\ writes \in Nat /\ r \in Nat
      /\ l1 \in [Server -> [Key -> Nat]]
      /\ seen \in [Server -> [Key -> Nat]] /\ seen' \in [Server -> [Key -> Nat]]
  BY <1>1, EntryTypes DEF Inv, TypeInv, TypeOK
<1>3. r \in 1 .. writes /\ r \notin offline /\ seen[s][k] <= r
  BY <1>1, <1>2 DEF Inv, Bounded, Replies, Reading
<1> HIDE DEF r
<1>4. seen' = [seen EXCEPT ![s] = [@ EXCEPT ![k] = r]]
  <2>1. seen'[s][k] = r
    BY <1>1, <1>2, <1>3 DEF Remember, Shared
  <2>2. \A t \in Server, j \in Key : t # s \/ j # k => seen'[t][j] = seen[t][j]
    <3>1. \A t \in Server, j \in Key : t # s \/ j # k => l1'[t][j] = l1[t][j]
      BY <1>1, <1>2
    <3> QED BY <3>1, <1>1, SeenStays
  <2>3. \A t \in Server : seen'[t] = [seen EXCEPT ![s] = [@ EXCEPT ![k] = r]][t]
    BY <2>1, <2>2, <1>2
  <2> QED BY <2>3, <1>2
<1>5. Reads!Take(s, k, r)
  BY <1>1, <1>3, <1>4 DEF Reads!Take
<1> QED BY <1>3, <1>5 DEF Reads!Next

\* A write to L1 alone is a WriteAlone.
LEMMA AloneRefines ==
  ASSUME Inv, TypeInv', Remember, NEW s \in Server, NEW k \in Key, Alone(s, k)
  PROVE  Reads!Next
<1>1. /\ writes' = writes + 1 /\ offline' = offline \cup {writes + 1}
      /\ l1' = [l1 EXCEPT ![s] = [@ EXCEPT ![k] = writes + 1]]
  BY DEF Alone
<1>2. /\ l1 \in [Server -> [Key -> Nat]]
      /\ seen \in [Server -> [Key -> Nat]] /\ seen' \in [Server -> [Key -> Nat]]
  BY DEF Inv, TypeInv, TypeOK
<1>3. seen' = seen
  <2>1. \A t \in Server, j \in Key :
          l1'[t][j] = IF t = s /\ j = k THEN writes + 1 ELSE l1[t][j]
    BY <1>1, <1>2
  <2>2. \A t \in Server, j \in Key : seen'[t][j] = seen[t][j]
    BY <2>1, <1>1, SeenStays
  <2>3. \A t \in Server : seen'[t] = seen[t]
    BY <2>2, <1>2
  <2> QED BY <2>3, <1>2
<1>4. Reads!WriteAlone(s, k)
  BY <1>1, <1>3 DEF Reads!WriteAlone
<1> QED BY <1>4 DEF Reads!Next

\* Redis writes, or does what no L1 shows.
LEMMA ExecuteRefines ==
  ASSUME Inv, TypeInv', Remember, NEW s \in Server, NEW i \in DOMAIN wire[s], Execute(s, i)
  PROVE  [Reads!Next]_(Reads!vars)
<1>1. UNCHANGED <<l1, offline>> /\ (writes' = writes \/ writes' = writes + 1)
  BY DEF Execute, Environment, Redis
<1>2. seen' = seen
  <2>1. \A t \in Server, k \in Key : seen'[t][k] = seen[t][k]
    BY <1>1, SeenStays
  <2>2. seen \in [Server -> [Key -> Nat]] /\ seen' \in [Server -> [Key -> Nat]]
    BY DEF Inv, TypeInv, TypeOK
  <2>3. \A t \in Server : seen'[t] = seen[t]
    BY <2>1, <2>2
  <2> QED BY <2>2, <2>3
<1>3. CASE writes' = writes
  BY <1>1, <1>2, <1>3 DEF Reads!vars
<1>4. CASE writes' = writes + 1
  BY <1>1, <1>2, <1>4 DEF Reads!Write, Reads!Next
<1> QED BY <1>1, <1>3, <1>4

\* Every step is one of MonotonicReads, or changes nothing there.
LEMMA StepRefines == Inv /\ [Next]_vars => [Reads!Next]_(Reads!vars)
<1> SUFFICES ASSUME Inv, [Next]_vars PROVE [Reads!Next]_(Reads!vars)
  OBVIOUS
<1>1. CASE UNCHANGED vars
  BY <1>1 DEF vars, Reads!vars
<1>2. CASE Next
  <2>1. Step /\ Remember
    BY <1>2 DEF Next
  <2>2. TypeInv' /\ Kinds
    BY <2>1, StepKinds DEF Inv
  <2>3. CASE Calm
    BY <2>1, <2>2, <2>3, DropRefines DEF Calm
  <2>4. ASSUME NEW s \in Server, NEW k \in Key, Takes(s, k) \/ Alone(s, k)
        PROVE  Reads!Next
    BY <2>1, <2>2, <2>4, TakesRefines, AloneRefines
  <2>5. ASSUME NEW s \in Server, Deliver(s)
        PROVE  [Reads!Next]_(Reads!vars)
    <3>1. Head(inbox[s]).key \in Key
      <4>1. inbox[s] \in Seq(Message) /\ inbox[s] # <<>>
        BY <2>5 DEF Deliver, Inv, TypeInv, TypeOK
      <4>2. Head(inbox[s]) \in Message
        BY <4>1, HeadTailProperties
      <4> QED BY <4>2 DEF Message
    <3>2. Drops /\ UNCHANGED <<writes, offline>>
      BY <3>1, <2>5 DEF Deliver, Drops
    <3> QED BY <3>2, <2>1, <2>2, DropRefines
  <2>6. ASSUME \/ \E s \in Server : LoseMessage(s)
               \/ \E k \in Key : LoseL2(k)
        PROVE  [Reads!Next]_(Reads!vars)
    <3>1. Drops /\ UNCHANGED <<writes, offline>>
      BY <2>6 DEF LoseMessage, LoseL2, Drops
    <3> QED BY <3>1, <2>1, <2>2, DropRefines
  <2>7. ASSUME NEW s \in Server, NEW i \in DOMAIN wire[s], Execute(s, i)
        PROVE  [Reads!Next]_(Reads!vars)
    BY <2>1, <2>2, <2>7, ExecuteRefines
  <2> QED BY <2>2, <2>3, <2>4, <2>5, <2>6, <2>7 DEF Kinds
<1> QED BY <1>1, <1>2

\* What a server reads from its L1 never goes back to an older shared value, for
\* every number of servers, calls and keys and through all failures.
THEOREM EachL1ReadsMonotonically == Spec => ReadsAreMonotonic
<1>1. Init => Reads!Init
  BY DEF Init, Reads!Init
<1> QED BY <1>1, StepRefines, Invariance, PTL DEF Spec, ReadsAreMonotonic, Reads!Spec

=============================================================================
