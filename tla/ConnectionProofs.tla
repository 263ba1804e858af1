-------------------------- MODULE ConnectionProofs --------------------------
(***************************************************************************)
(* Theorems about Connection, for any finite set of calls and all bounds.  *)
(*                                                                         *)
(* Inv says how calls, clients and references belong together: a client    *)
(* was made or is "none"; a call under way waits for a client that was     *)
(* made; what it waits for is what this.client or this.subscriber refers   *)
(* to, or has gone (Holds); what is not referred to has gone (NetsFit);    *)
(* at most one call has been answered at once; and there is room for the   *)
(* subscribers that waiting connects will make (Room, which the guard of   *)
(* Connect provides).  Each needs the others: a disconnect may drop its    *)
(* reference because the client it awaited is the one referred to, and it  *)
(* is that one because references change only when their client has gone.  *)
(*                                                                         *)
(* Inv is a conjunction of constant-level operators on the state, so that  *)
(* the lemmas about records and functions apply to all actions alike.      *)
(***************************************************************************)
EXTENDS Connection, FiniteSetTheorems, FunctionTheorems, WellFoundedInduction, TLAPS

-----------------------------------------------------------------------------
(***************************************************************************)
(* Turns are numbers.                                                      *)
(***************************************************************************)

Record == [op : {"none", "connect", "disconnect"}, pc : Pc, on : Nat, turn : Nat,
           done : BOOLEAN, id : Nat]

\* A finite set of numbers that is not empty has a greatest one, and Max is it:
\* no strictly descending chain of finite sets {y \in S : y > x} goes on for ever.
LEMMA MaxInSet ==
  ASSUME NEW S \in SUBSET Nat, IsFiniteSet(S), S # {}
  PROVE  Max(S) \in S
<1> DEFINE Above(x) == {y \in S : y > x}
           T == {Above(x) : x \in S}
<1>1. \A x \in S : Above(x) \in FiniteSubsetsOf(S)
  BY FS_Subset DEF FiniteSubsetsOf
<1>2. T \subseteq FiniteSubsetsOf(S) /\ T # {}
  <2> HIDE DEF Above
  <2> QED BY <1>1
<1>3. PICK X \in T : \A Y \in T : ~ (<<Y, X>> \in StrictSubsetOrdering(S))
  <2> HIDE DEF T
  <2> QED BY <1>2, FS_StrictSubsetOrderingWellFounded, WFMin
<1>4. PICK x \in S : X = Above(x)
  OBVIOUS
<1>5. ASSUME NEW y \in S, y > x
      PROVE  FALSE
  <2>1. x \in Nat /\ y \in Nat
    OBVIOUS
  <2>2. Above(y) \subseteq X /\ Above(y) # X
    <3>1. y \in Above(x) /\ y \notin Above(y)
      BY <1>5, <2>1
    <3>2. \A z \in S : z > y => z > x
      BY <1>5, <2>1
    <3>3. Above(y) \subseteq Above(x)
      BY <3>2
    <3> QED BY <3>1, <3>3, <1>4
  <2>3. Above(y) \in T /\ Above(y) \subseteq S /\ X \subseteq S
    BY <1>4
  <2>4. <<Above(y), X>> \in StrictSubsetOrdering(S)
    <3> HIDE DEF Above
    <3>1. X \in FiniteSubsetsOf(S) /\ Above(y) \in FiniteSubsetsOf(S)
      BY <1>1, <1>4
    <3> QED BY <2>2, <2>3, <3>1 DEF StrictSubsetOrdering, FiniteSubsetsOf
  <2> QED BY <1>3, <2>3, <2>4
<1>6. \A y \in S : x >= y
  BY <1>5
<1> QED BY <1>4, <1>6 DEF Max

\* The place of a command after those that wait is a number.
LEMMA TurnIsNumber ==
  ASSUME NEW calls \in [Call -> Record], NEW i
  PROVE  NextTurn(calls, i) \in Nat
<1> DEFINE D == {e \in Call : calls[e].on = i}
           A == {calls[d].turn : d \in D}
           f == [d \in D |-> calls[d].turn]
<1>1. IsFiniteSet(D)
  BY CallAssumption, FS_Subset
<1>2. f \in Surjection(D, A)
  <2>1. f \in [D -> A] /\ \A a \in A : \E d \in D : f[d] = a
    OBVIOUS
  <2> HIDE DEF D, A, f
  <2> QED BY <2>1, Fun_IsSurj
<1>3. IsFiniteSet(A)
  <2> HIDE DEF D, A, f
  <2> QED BY <1>1, <1>2, FS_Surjection
<1>4. A \subseteq Nat
  BY DEF Record
<1>5. IsFiniteSet(A \cup {0}) /\ A \cup {0} \in SUBSET Nat
  <2> HIDE DEF A
  <2> QED BY <1>3, <1>4, FS_AddElement
<1>6. Max(A \cup {0}) \in Nat
  <2> HIDE DEF A
  <2> QED BY <1>5, MaxInSet
<1> QED BY <1>6 DEF NextTurn

-----------------------------------------------------------------------------
(***************************************************************************)
(* The invariant.  Its parts are operators of the state, so that the       *)
(* lemmas on them can be used before and after a step.                     *)
(***************************************************************************)

OnSubscriber == {"subscribe", "unsubscribe", "quitUnsubscribed", "quitSubscriber"}

\* A call is idle, or waits for one of m clients, and is one of b calls.
Fits(r, m, b) ==
  /\ r \in Record
  /\ \/ r = Idle
     \/ /\ r.pc # "idle" /\ r.on \in 1 .. m /\ r.id \in 1 .. b
        /\ r.op # "none" /\ (r.op = "connect" <=> r.pc \in {"open", "subscribe"})
        /\ r.done => r.pc \in Quitting

\* A call waits for the client cl or the subscriber su there is, or for one that
\* has gone; one that was answered at once waits for the one there is.
Holds(r, nets, cl, su) ==
  /\ r.done => nets[r.on] \in Gone
  /\ r.pc = "quit" => r.on = cl \/ (nets[r.on] \in Gone /\ ~r.done)
  /\ r.pc \in OnSubscriber => r.on = su \/ (nets[r.on] \in Gone /\ ~r.done)

CallsFit(calls, m, b, nets, cl, su) ==
  /\ calls \in [Call -> Record]
  /\ \A c \in Call : Fits(calls[c], m, b) /\ Holds(calls[c], nets, cl, su)
  /\ \A c, d \in Call : calls[c].done /\ calls[d].done => c = d

NetsFit(nets, m, cl, su) ==
  /\ nets \in [Client -> Net]
  /\ \A i \in Client : nets[i] = "none" <=> i > m
  /\ \A i \in 1 .. m : i \in {cl, su} \/ nets[i] \in Gone

\* The connects that wait for their client may each make a subscriber.
Opening(calls) == {c \in Call : calls[c].pc = "open"}
Room(calls, m) == m + Cardinality(Opening(calls)) <= MaxClients

Whole(calls, m, b, nets, cl, su) ==
  CallsFit(calls, m, b, nets, cl, su) /\ NetsFit(nets, m, cl, su) /\ Room(calls, m)

\* Clients that have gone do not come back.
Onward(nets, nets2, m) == \A i \in 1 .. m : nets[i] \in Gone => nets2[i] \in Gone
\* A reference is dropped only from a client that has gone.
Drops(nets2, ref, ref2) == ref2 = ref \/ ref = 0 \/ nets2[ref] \in Gone

Rest ==
  /\ {client, subscriber, lock} \subseteq 0 .. made
  /\ state \in {"connected", "reconnecting", "disconnected"}
  /\ unsubscribe \in 0 .. begun /\ listeners \subseteq 1 .. begun
  /\ handler \subseteq 1 .. made /\ main \subseteq 1 .. made
  /\ tries \in [Client -> 0 .. MaxRetries]
  /\ up \in BOOLEAN /\ made \in 0 .. MaxClients
  /\ begun \in 0 .. MaxCalls /\ faults \in 0 .. MaxFaults
  /\ last \in {"none", "connect", "disconnect", "rejected"}
  /\ tangled \in BOOLEAN /\ stale \in BOOLEAN

Inv == Rest /\ Whole(call, made, begun, net, client, subscriber)

\* The record of a call that does nothing.
LEMMA IdleRecord ==
  /\ Idle \in Record /\ Idle.pc = "idle" /\ ~Idle.done /\ Idle.op = "none"
  /\ \A m, b, nets, cl, su : Fits(Idle, m, b) /\ Holds(Idle, nets, cl, su)
BY DEF Idle, Record, Pc, Fits, Holds, OnSubscriber

\* A step of one call, while no other has been answered at once.
LEMMA CallMoves ==
  ASSUME NEW m \in Nat, NEW m2 \in Nat, NEW b \in Nat, NEW b2 \in Nat, m <= m2, b <= b2,
         NEW calls, NEW nets, NEW nets2, NEW cl, NEW cl2, NEW su, NEW su2,
         CallsFit(calls, m, b, nets, cl, su),
         Onward(nets, nets2, m), Drops(nets2, cl, cl2), Drops(nets2, su, su2),
         NEW c \in Call, \A d \in Call \ {c} : ~calls[d].done,
         NEW r, Fits(r, m2, b2), Holds(r, nets2, cl2, su2)
  PROVE  CallsFit([calls EXCEPT ![c] = r], m2, b2, nets2, cl2, su2)
<1> DEFINE calls2 == [calls EXCEPT ![c] = r]
<1>1. /\ calls \in [Call -> Record] /\ r \in Record
      /\ \A d \in Call : Fits(calls[d], m, b) /\ Holds(calls[d], nets, cl, su)
  BY DEF CallsFit, Fits
<1>2. /\ calls2 \in [Call -> Record] /\ calls2[c] = r
      /\ \A d \in Call \ {c} : calls2[d] = calls[d]
  BY <1>1
<1>3. ASSUME NEW d \in Call \ {c}
      PROVE  Fits(calls[d], m2, b2) /\ Holds(calls[d], nets2, cl2, su2)
  <2> DEFINE s == calls[d]
  <2>1. s \in Record /\ ~s.done /\ Fits(s, m, b) /\ Holds(s, nets, cl, su)
    BY <1>1
  <2> HIDE DEF s
  <2>2. CASE s = Idle
    BY <2>2, IdleRecord DEF s
  <2>3. CASE s # Idle
    <3>1. s.on \in 1 .. m /\ s.id \in 1 .. b
      BY <2>1, <2>3 DEF Fits
    <3>2. s.on \in 1 .. m2 /\ s.id \in 1 .. b2 /\ s.on # 0
      BY <3>1
    <3>3. Fits(s, m2, b2)
      BY <2>1, <2>3, <3>2 DEF Fits
    <3>4. nets[s.on] \in Gone => nets2[s.on] \in Gone
      BY <3>1 DEF Onward
    <3>5. s.on = cl => s.on = cl2 \/ nets2[s.on] \in Gone
      BY <3>2 DEF Drops
    <3>6. s.on = su => s.on = su2 \/ nets2[s.on] \in Gone
      BY <3>2 DEF Drops
    <3>7. Holds(s, nets2, cl2, su2)
      BY <2>1, <3>4, <3>5, <3>6 DEF Holds
    <3> QED BY <3>3, <3>7 DEF s
  <2> QED BY <2>2, <2>3
<1> HIDE DEF calls2
<1>4. \A d \in Call : Fits(calls2[d], m2, b2) /\ Holds(calls2[d], nets2, cl2, su2)
  BY <1>2, <1>3
<1>5. \A d, e \in Call : calls2[d].done /\ calls2[e].done => d = e
  BY <1>2
<1>6. CallsFit(calls2, m2, b2, nets2, cl2, su2)
  BY <1>2, <1>4, <1>5 DEF CallsFit
<1> QED BY <1>6 DEF calls2

\* A step that changes no call, or ends some, while none has been answered at once.
LEMMA CallsEnd ==
  ASSUME NEW m \in Nat, NEW b \in Nat,
         NEW calls, NEW calls2 \in [Call -> Record], NEW nets, NEW nets2, NEW cl, NEW su,
         CallsFit(calls, m, b, nets, cl, su), Onward(nets, nets2, m),
         \A d \in Call : ~calls[d].done,
         \A d \in Call : calls2[d] = calls[d] \/ calls2[d] = Idle
  PROVE  CallsFit(calls2, m, b, nets2, cl, su)
<1>1. ASSUME NEW d \in Call
      PROVE  Fits(calls2[d], m, b) /\ Holds(calls2[d], nets2, cl, su) /\ ~calls2[d].done
  <2>1. CASE calls2[d] = Idle
    BY <2>1, IdleRecord
  <2>2. CASE calls2[d] = calls[d] /\ calls[d] # Idle
    <3> DEFINE s == calls[d]
    <3>1. s \in Record /\ ~s.done /\ Fits(s, m, b) /\ Holds(s, nets, cl, su)
      BY DEF CallsFit
    <3> HIDE DEF s
    <3>2. s # Idle
      BY <2>2 DEF s
    <3>3. s.on \in 1 .. m
      BY <3>1, <3>2 DEF Fits
    <3>4. Holds(s, nets2, cl, su)
      BY <3>1, <3>3 DEF Holds, Onward
    <3> QED BY <2>2, <3>1, <3>4 DEF s
  <2> QED BY <2>1, <2>2
<1> QED BY <1>1 DEF CallsFit

\* The connection of a client changes, and references are dropped.
LEMMA NetMoves ==
  ASSUME NEW m \in 0 .. MaxClients, NEW nets, NEW cl, NEW cl2, NEW su, NEW su2,
         NetsFit(nets, m, cl, su),
         NEW i \in 1 .. m, NEW s \in Net \ {"none"}, nets[i] \in Gone => s \in Gone,
         NEW nets2, nets2 = [nets EXCEPT ![i] = s],
         Drops(nets2, cl, cl2), Drops(nets2, su, su2)
  PROVE  NetsFit(nets2, m, cl2, su2) /\ Onward(nets, nets2, m)
<1>1. MaxClients \in Nat /\ 1 .. m \subseteq Client /\ i \in Client /\ ~(i > m)
  BY BoundAssumption DEF Client
<1>2. nets \in [Client -> Net] /\ nets2 \in [Client -> Net] /\ nets2[i] = s
  BY <1>1 DEF NetsFit
<1>3. \A j \in Client \ {i} : nets2[j] = nets[j]
  BY <1>2
<1>4. \A j \in Client : nets2[j] = "none" <=> j > m
  BY <1>1, <1>2, <1>3 DEF NetsFit
<1>5. Onward(nets, nets2, m)
  BY <1>1, <1>2, <1>3 DEF Onward
<1>6. \A j \in 1 .. m : j \in {cl2, su2} \/ nets2[j] \in Gone
  BY <1>5 DEF NetsFit, Onward, Drops
<1> QED BY <1>2, <1>4, <1>5, <1>6 DEF NetsFit

\* A client is made where there is none.
LEMMA NetMade ==
  ASSUME NEW m \in 0 .. MaxClients, m + 1 <= MaxClients,
         NEW nets, NEW cl, NEW cl2, NEW su, NEW su2, NetsFit(nets, m, cl, su),
         NEW nets2, nets2 = [nets EXCEPT ![m + 1] = "connecting"],
         \/ cl = 0 /\ cl2 = m + 1 /\ su2 = su
         \/ su = 0 /\ su2 = m + 1 /\ cl2 = cl
  PROVE  NetsFit(nets2, m + 1, cl2, su2) /\ Onward(nets, nets2, m)
<1>1. /\ MaxClients \in Nat /\ m \in Nat /\ m + 1 \in Client
      /\ 1 .. m \subseteq Client /\ m + 1 \notin 1 .. m
      /\ 1 .. m + 1 = 1 .. m \cup {m + 1} /\ 0 \notin 1 .. m
  BY BoundAssumption DEF Client
<1>2. "connecting" \in Net
  BY DEF Net
<1>3. nets \in [Client -> Net] /\ nets2 \in [Client -> Net] /\ nets2[m + 1] = "connecting"
  BY <1>1, <1>2 DEF NetsFit
<1>4. \A j \in Client \ {m + 1} : nets2[j] = nets[j]
  BY <1>3
<1>5. \A j \in Client : nets2[j] = "none" <=> j > m + 1
  <2> SUFFICES ASSUME NEW j \in Client PROVE nets2[j] = "none" <=> j > m + 1
    OBVIOUS
  <2>1. CASE j = m + 1
    BY <2>1, <1>3, <1>1
  <2>2. CASE j # m + 1
    <3>1. j \in Nat /\ (j > m <=> j > m + 1)
      BY <2>2, <1>1 DEF Client
    <3> QED BY <2>2, <3>1, <1>4 DEF NetsFit
  <2> QED BY <2>1, <2>2
<1>6. \A j \in 1 .. m : nets2[j] = nets[j]
  BY <1>1, <1>4
<1>7. Onward(nets, nets2, m)
  BY <1>6 DEF Onward
<1>8. \A j \in 1 .. m + 1 : j \in {cl2, su2} \/ nets2[j] \in Gone
  BY <1>1, <1>6 DEF NetsFit
<1> QED BY <1>3, <1>5, <1>7, <1>8 DEF NetsFit

\* The connects that wait for their client are so many, and no more than the connects.
LEMMA OpeningCount ==
  ASSUME NEW calls
  PROVE  /\ IsFiniteSet(Opening(calls)) /\ Cardinality(Opening(calls)) \in Nat
         /\ \A T \in SUBSET Opening(calls) : Cardinality(T) \in Nat /\ Cardinality(T) <= Cardinality(Opening(calls))
         /\ \A c \in Opening(calls), T \in SUBSET Opening(calls) :
              c \notin T => Cardinality(T) + 1 <= Cardinality(Opening(calls))
<1>1. IsFiniteSet(Opening(calls))
  BY CallAssumption, FS_Subset DEF Opening
<1>2. \A T \in SUBSET Opening(calls) : /\ IsFiniteSet(T) /\ Cardinality(T) \in Nat
                                        /\ Cardinality(T) <= Cardinality(Opening(calls))
  BY <1>1, FS_Subset, FS_CardinalityType
<1>3. ASSUME NEW c \in Opening(calls), NEW T \in SUBSET Opening(calls), c \notin T
      PROVE  Cardinality(T) + 1 <= Cardinality(Opening(calls))
  <2>1. T \cup {c} \in SUBSET Opening(calls)
    OBVIOUS
  <2>2. Cardinality(T \cup {c}) = Cardinality(T) + 1
    BY <1>2, <1>3, FS_AddElement
  <2>3. Cardinality(T \cup {c}) <= Cardinality(Opening(calls))
    BY <1>2, <2>1
  <2> QED BY <2>2, <2>3
<1>4. Opening(calls) \in SUBSET Opening(calls)
  OBVIOUS
<1> QED BY <1>1, <1>2, <1>3, <1>4

\* A connect that goes on with its client frees the room of a subscriber, and a
\* call that does not wait for a new client needs none.
LEMMA RoomMoves ==
  ASSUME NEW m \in Nat, NEW calls \in [Call -> Record], Room(calls, m),
         NEW c \in Call, NEW r \in Record, r.pc # "open"
  PROVE  /\ Room([calls EXCEPT ![c] = r], m)
         /\ calls[c].pc = "open" => m + 1 <= MaxClients /\ Room([calls EXCEPT ![c] = r], m + 1)
<1> DEFINE calls2 == [calls EXCEPT ![c] = r]
           T == Opening(calls2)
           S == Opening(calls)
<1>1. T \in SUBSET S /\ c \notin T /\ (calls[c].pc = "open" => c \in S)
  BY DEF Opening
<1> HIDE DEF T, S
<1>2. Cardinality(T) \in Nat /\ Cardinality(S) \in Nat /\ Cardinality(T) <= Cardinality(S)
  BY <1>1, OpeningCount DEF S
<1>3. calls[c].pc = "open" => Cardinality(T) + 1 <= Cardinality(S)
  BY <1>1, OpeningCount DEF S
<1>4. m + Cardinality(S) <= MaxClients /\ MaxClients \in Nat
  BY BoundAssumption DEF Room, S
<1>5. m + Cardinality(T) <= MaxClients
  BY <1>2, <1>4
<1>6. calls[c].pc = "open" => m + 1 <= MaxClients /\ m + 1 + Cardinality(T) <= MaxClients
  BY <1>2, <1>3, <1>4
<1> QED BY <1>5, <1>6 DEF Room, T

\* Calls that end need no room.
LEMMA RoomEnds ==
  ASSUME NEW m \in Nat, NEW calls, NEW calls2, Room(calls, m),
         \A c \in Call : calls2[c] = calls[c] \/ calls2[c] = Idle
  PROVE  Room(calls2, m)
<1>1. Opening(calls2) \in SUBSET Opening(calls)
  BY IdleRecord DEF Opening
<1>2. /\ Cardinality(Opening(calls2)) <= Cardinality(Opening(calls))
      /\ Cardinality(Opening(calls2)) \in Nat /\ Cardinality(Opening(calls)) \in Nat
  BY <1>1, OpeningCount
<1>3. m + Cardinality(Opening(calls)) <= MaxClients /\ MaxClients \in Nat
  BY BoundAssumption DEF Room
<1> QED BY <1>2, <1>3 DEF Room

\* connect begins only where it, and every connect under way, has room for two clients.
LEMMA RoomBegins ==
  ASSUME NEW m \in Nat, NEW b, NEW calls \in [Call -> Record],
         \A c \in Call : Fits(calls[c], m, b),
         m + 2 * (Cardinality({c \in Call : calls[c].op = "connect"}) + 1) <= MaxClients,
         NEW c \in Call, NEW r \in Record
  PROVE  m + 1 <= MaxClients /\ Room([calls EXCEPT ![c] = r], m + 1)
<1> DEFINE calls2 == [calls EXCEPT ![c] = r]
           T == Opening(calls2)
           S == {d \in Call : calls[d].op = "connect"}
<1>1. T \ {c} \subseteq S
  BY IdleRecord DEF Opening, Fits
<1>2. IsFiniteSet(S) /\ IsFiniteSet(T) /\ IsFiniteSet(T \ {c})
  BY CallAssumption, FS_Subset DEF Opening
<1> HIDE DEF T, S
<1>3. Cardinality(S) \in Nat /\ Cardinality(T) \in Nat /\ Cardinality(T \ {c}) <= Cardinality(S)
  BY <1>1, <1>2, FS_Subset, FS_CardinalityType
<1>4. Cardinality(T) <= Cardinality(T \ {c}) + 1 /\ Cardinality(T \ {c}) \in Nat
  <2>1. Cardinality(T \ {c}) = IF c \in T THEN Cardinality(T) - 1 ELSE Cardinality(T)
    BY <1>2, FS_RemoveElement
  <2>2. Cardinality(T \ {c}) \in Nat
    BY <1>2, FS_CardinalityType
  <2> QED BY <2>1, <2>2, <1>3
<1>5. m + 2 * (Cardinality(S) + 1) <= MaxClients /\ MaxClients \in Nat
  BY BoundAssumption DEF S
<1>6. m + 1 <= MaxClients /\ m + 1 + Cardinality(T) <= MaxClients
  BY <1>3, <1>4, <1>5
<1> QED BY <1>6 DEF Room, T

-----------------------------------------------------------------------------
(***************************************************************************)
(* What the parts of the steps do.                                         *)
(***************************************************************************)

Socket == {"connect", "ready", "closing"}
Kept(nets, nets2) == \A j \in Client : nets[j] \in Socket => nets2[j] \in Socket

\* The call c comes to wait for the client i.
Waits(calls, calls2, c, op, id, pc, i, done) ==
  \E r \in Record :
    /\ calls2 = [calls EXCEPT ![c] = r]
    /\ r.op = op /\ r.id = id /\ r.pc = pc /\ r.on = i /\ r.done = done

Ended(calls, calls2, c, l2, how) == calls2 = [calls EXCEPT ![c] = Idle] /\ l2 = how

\* The call c, a disconnect, asks the client i to quit.
Asks(calls, calls2, nets, nets2, l, l2, c, id, pc, i) ==
  \/ Ended(calls, calls2, c, l2, "rejected") /\ nets2 = nets
  \/ l2 = l /\ nets2 = nets /\ Waits(calls, calls2, c, "disconnect", id, pc, i, FALSE)
  \/ /\ l2 = l /\ Waits(calls, calls2, c, "disconnect", id, pc, i, TRUE)
     /\ nets[i] \notin Socket
     /\ \E s \in {"leaving", "end"} : nets2 = [nets EXCEPT ![i] = s]

\* A record with the fields that Wait gives it.
LEMMA WaitRecord ==
  ASSUME NEW calls \in [Call -> Record], NEW c \in Call, NEW i \in Nat,
         NEW op \in {"connect", "disconnect"}, NEW id \in Nat, NEW pc \in Pc, NEW done \in BOOLEAN,
         NEW calls2,
         calls2 = [calls EXCEPT ![c] =
           [op |-> op, pc |-> pc, on |-> i, done |-> done, id |-> id,
            turn |-> NextTurn([calls EXCEPT ![c] = Idle], i)]]
  PROVE  Waits(calls, calls2, c, op, id, pc, i, done)
<1> DEFINE n == NextTurn([calls EXCEPT ![c] = Idle], i)
           r == [op |-> op, pc |-> pc, on |-> i, done |-> done, id |-> id, turn |-> n]
<1>1. n \in Nat
  <2>1. [calls EXCEPT ![c] = Idle] \in [Call -> Record]
    BY IdleRecord
  <2> QED BY <2>1, TurnIsNumber
<1> HIDE DEF n
<1>2. r \in Record
  BY <1>1 DEF Record
<1>3. r.op = op /\ r.id = id /\ r.pc = pc /\ r.on = i /\ r.done = done
  OBVIOUS
<1>4. calls2 = [calls EXCEPT ![c] = r]
  BY DEF n
<1> HIDE DEF r
<1> QED BY <1>2, <1>3, <1>4 DEF Waits

\* A call that ends or comes to wait keeps the calls' part of the invariant.
LEMMA WaitsFit ==
  ASSUME NEW m \in Nat, NEW m2 \in Nat, NEW b \in Nat, NEW b2 \in Nat, m <= m2, b <= b2,
         NEW calls, NEW nets, NEW nets2, NEW cl, NEW cl2, NEW su, NEW su2,
         CallsFit(calls, m, b, nets, cl, su),
         Onward(nets, nets2, m), Drops(nets2, cl, cl2), Drops(nets2, su, su2),
         NEW c \in Call, \A d \in Call \ {c} : ~calls[d].done,
         NEW calls2, NEW op \in {"connect", "disconnect"}, NEW id \in 1 .. b2, NEW pc \in Pc \ {"idle"}, NEW i \in 1 .. m2,
         NEW done,
         Waits(calls, calls2, c, op, id, pc, i, done),
         op = "connect" <=> pc \in {"open", "subscribe"},
         pc = "quit" => i = cl2, pc \in OnSubscriber => i = su2,
         done => pc \in Quitting /\ nets2[i] \in Gone
  PROVE  CallsFit(calls2, m2, b2, nets2, cl2, su2)
<1>1. PICK r \in Record :
        /\ calls2 = [calls EXCEPT ![c] = r]
        /\ r.op = op /\ r.id = id /\ r.pc = pc /\ r.on = i /\ r.done = done
  BY DEF Waits
<1>2. Fits(r, m2, b2)
  BY <1>1 DEF Fits
<1>3. Holds(r, nets2, cl2, su2)
  BY <1>1 DEF Holds
<1>4. CallsFit([calls EXCEPT ![c] = r], m2, b2, nets2, cl2, su2)
  BY <1>2, <1>3, CallMoves
<1> QED BY <1>1, <1>4

\* A call that comes to wait, but not for a new client, needs no room.
LEMMA WaitsRoom ==
  ASSUME NEW m \in Nat, NEW calls \in [Call -> Record], Room(calls, m), NEW c \in Call,
         NEW calls2, NEW op, NEW id, NEW pc, pc # "open", NEW i, NEW done \in BOOLEAN,
         Waits(calls, calls2, c, op, id, pc, i, done)
  PROVE  /\ Room(calls2, m)
         /\ calls[c].pc = "open" => m + 1 <= MaxClients /\ Room(calls2, m + 1)
<1>1. PICK r \in Record : calls2 = [calls EXCEPT ![c] = r] /\ r.pc # "open"
  BY DEF Waits
<1> QED BY <1>1, RoomMoves

\* The same for a call that asks a client to quit, with the clients' part.
LEMMA AsksFit ==
  ASSUME NEW m \in 0 .. MaxClients, NEW b \in Nat, NEW b2 \in Nat, b <= b2,
         NEW calls, NEW nets, NEW cl, NEW su,
         Whole(calls, m, b, nets, cl, su),
         NEW c \in Call, \A d \in Call \ {c} : ~calls[d].done,
         NEW calls2, NEW nets2, NEW l, NEW l2,
         NEW id \in 1 .. b2, NEW pc \in Quitting, NEW i \in 1 .. m,
         pc = "quit" => i = cl, pc # "quit" => i = su,
         Asks(calls, calls2, nets, nets2, l, l2, c, id, pc, i)
  PROVE  Whole(calls2, m, b2, nets2, cl, su) /\ Kept(nets, nets2)
<1>0. CallsFit(calls, m, b, nets, cl, su) /\ NetsFit(nets, m, cl, su) /\ Room(calls, m)
  BY DEF Whole
<1>1. /\ m \in Nat /\ calls \in [Call -> Record] /\ Drops(nets, cl, cl) /\ Drops(nets, su, su)
      /\ Drops(nets2, cl, cl) /\ Drops(nets2, su, su) /\ Onward(nets, nets, m)
  BY <1>0, BoundAssumption DEF CallsFit, Drops, Onward
<1>2. pc \in Pc \ {"idle"} /\ pc # "open" /\ "disconnect" # "connect" /\ pc \notin {"open", "subscribe"}
  BY DEF Pc, Quitting
<1>3. pc \in OnSubscriber => i = su
  BY DEF OnSubscriber
<1>4. CASE Ended(calls, calls2, c, l2, "rejected") /\ nets2 = nets
  <2>1. Fits(Idle, m, b2) /\ Holds(Idle, nets, cl, su) /\ m <= m
    BY <1>0, <1>1, IdleRecord
  <2>2. CallsFit([calls EXCEPT ![c] = Idle], m, b2, nets, cl, su)
    BY <1>0, <1>1, <2>1, CallMoves
  <2>3. CallsFit(calls2, m, b2, nets2, cl, su)
    BY <1>4, <2>2 DEF Ended
  <2>4. Room(calls2, m)
    BY <1>0, <1>1, <1>4, IdleRecord, RoomMoves DEF Ended
  <2> QED BY <2>3, <2>4, <1>4, <1>1 DEF Ended, Kept, Whole
<1>5. CASE nets2 = nets /\ Waits(calls, calls2, c, "disconnect", id, pc, i, FALSE)
  <2>1. m <= m /\ (FALSE => pc \in Quitting /\ nets[i] \in Gone)
    BY <1>1
  <2>2. Waits(calls, calls2, c, "disconnect", id, pc, i, FALSE)
    BY <1>5
  <2>3. CallsFit(calls2, m, b2, nets, cl, su)
    BY <1>0, <1>1, <1>2, <1>3, <2>1, <2>2, WaitsFit
  <2>4. Room(calls2, m)
    <3>1. pc # "open" /\ m \in Nat /\ calls \in [Call -> Record] /\ Room(calls, m)
      BY <1>0, <1>1, <1>2
    <3> QED BY <3>1, <2>2, WaitsRoom
  <2> QED BY <2>3, <2>4, <1>5, <1>0 DEF Kept, Whole
<1>6. CASE /\ Waits(calls, calls2, c, "disconnect", id, pc, i, TRUE)
           /\ nets[i] \notin Socket
           /\ \E s \in {"leaving", "end"} : nets2 = [nets EXCEPT ![i] = s]
  <2>1. PICK s \in {"leaving", "end"} : nets2 = [nets EXCEPT ![i] = s]
    BY <1>6
  <2>2. s \in Net \ {"none"} /\ s \in Gone
    BY DEF Net, Gone
  <2>3. NetsFit(nets2, m, cl, su) /\ Onward(nets, nets2, m)
    BY <1>0, <1>1, <2>1, <2>2, <1>0, NetMoves
  <2>4. i \in Client /\ nets \in [Client -> Net]
    BY <1>0, BoundAssumption DEF Client, NetsFit
  <2>5. nets2[i] = s /\ \A j \in Client \ {i} : nets2[j] = nets[j]
    BY <2>1, <2>4
  <2>6. nets2[i] \in Gone
    BY <2>2, <2>5
  <2>7. CallsFit(calls2, m, b2, nets2, cl, su)
    <3>1. m <= m /\ (TRUE => pc \in Quitting /\ nets2[i] \in Gone)
      BY <1>0, <1>1, <2>6
    <3>2. Waits(calls, calls2, c, "disconnect", id, pc, i, TRUE)
      BY <1>6
    <3> QED BY <1>0, <1>1, <1>2, <1>3, <2>3, <3>1, <3>2, WaitsFit
  <2>8. Room(calls2, m)
    <3>1. pc # "open" /\ m \in Nat /\ calls \in [Call -> Record] /\ Room(calls, m)
      BY <1>0, <1>1, <1>2
    <3>2. Waits(calls, calls2, c, "disconnect", id, pc, i, TRUE)
      BY <1>6
    <3> QED BY <3>1, <3>2, WaitsRoom
  <2>9. Kept(nets, nets2)
    BY <1>6, <2>5 DEF Kept
  <2> QED BY <2>3, <2>7, <2>8, <2>9 DEF Whole
<1> QED BY <1>4, <1>5, <1>6 DEF Asks

\* A call that ends keeps the calls' part of the invariant.
LEMMA EndFits ==
  ASSUME NEW m \in Nat, NEW b \in Nat, NEW b2 \in Nat, b <= b2,
         NEW calls, NEW nets, NEW nets2, NEW cl, NEW cl2, NEW su, NEW su2,
         CallsFit(calls, m, b, nets, cl, su), Room(calls, m),
         Onward(nets, nets2, m), Drops(nets2, cl, cl2), Drops(nets2, su, su2),
         NEW c \in Call, \A d \in Call \ {c} : ~calls[d].done
  PROVE  /\ CallsFit([calls EXCEPT ![c] = Idle], m, b2, nets2, cl2, su2)
         /\ Room([calls EXCEPT ![c] = Idle], m)
<1>1. Fits(Idle, m, b2) /\ Holds(Idle, nets2, cl2, su2) /\ m <= m
  BY IdleRecord
<1>2. CallsFit([calls EXCEPT ![c] = Idle], m, b2, nets2, cl2, su2)
  BY <1>1, CallMoves
<1>3. Idle \in Record /\ Idle.pc # "open" /\ calls \in [Call -> Record]
  BY IdleRecord DEF CallsFit
<1>4. Room([calls EXCEPT ![c] = Idle], m)
  BY <1>3, RoomMoves
<1> QED BY <1>2, <1>4

\* A connect goes on: it makes the subscriber and waits, or ends.
Equips(calls, calls2, nets, nets2, l, l2, c, id, m, m2, su, su2) ==
  \/ /\ su = 0 /\ m2 = m + 1 /\ su2 = m + 1 /\ l2 = l
     /\ nets2 = [nets EXCEPT ![m + 1] = "connecting"]
     /\ Waits(calls, calls2, c, "connect", id, "subscribe", m + 1, FALSE)
  \/ m2 = m /\ su2 = su /\ nets2 = nets /\ Ended(calls, calls2, c, l2, "connect")

\* It keeps the calls' and the clients' part of the invariant.
LEMMA EquipsFit ==
  ASSUME NEW m \in 0 .. MaxClients, m + 1 <= MaxClients,
         NEW b \in Nat, NEW b2 \in Nat, b <= b2,
         NEW calls, NEW nets, NEW cl, NEW su,
         CallsFit(calls, m, b, nets, cl, su), NetsFit(nets, m, cl, su), Room(calls, m),
         NEW c \in Call, \A d \in Call \ {c} : ~calls[d].done,
         NEW calls2, NEW nets2, NEW l, NEW l2, NEW id \in 1 .. b2, NEW m2, NEW su2,
         Equips(calls, calls2, nets, nets2, l, l2, c, id, m, m2, su, su2)
  PROVE  /\ CallsFit(calls2, m2, b2, nets2, cl, su2) /\ NetsFit(nets2, m2, cl, su2)
         /\ Kept(nets, nets2)
<1>1. /\ m \in Nat /\ m + 1 \in Nat /\ m <= m + 1 /\ m + 1 \in 1 .. m + 1 /\ m + 1 > m
      /\ m + 1 \in Client /\ calls \in [Call -> Record] /\ nets \in [Client -> Net]
      /\ Drops(nets, cl, cl) /\ Drops(nets, su, su) /\ Onward(nets, nets, m)
  BY BoundAssumption DEF CallsFit, NetsFit, Drops, Onward, Client
<1>2. CASE /\ su = 0 /\ m2 = m + 1 /\ su2 = m + 1 /\ l2 = l
           /\ nets2 = [nets EXCEPT ![m + 1] = "connecting"]
           /\ Waits(calls, calls2, c, "connect", id, "subscribe", m + 1, FALSE)
  <2>1. NetsFit(nets2, m + 1, cl, su2) /\ Onward(nets, nets2, m)
    <3>1. su = 0 /\ su2 = m + 1 /\ cl = cl
      BY <1>2
    <3>2. nets2 = [nets EXCEPT ![m + 1] = "connecting"]
      BY <1>2
    <3> QED BY <3>1, <3>2, NetMade
  <2>2. /\ Drops(nets2, cl, cl) /\ Drops(nets2, su, su2)
        /\ "subscribe" \in Pc \ {"idle"} /\ ("connect" = "connect" <=> "subscribe" \in {"open", "subscribe"})
        /\ ("subscribe" = "quit" => m + 1 = cl) /\ ("subscribe" \in OnSubscriber => m + 1 = su2)
        /\ (FALSE => "subscribe" \in Quitting /\ nets2[m + 1] \in Gone)
    BY <1>2 DEF Drops, Pc
  <2>3. Waits(calls, calls2, c, "connect", id, "subscribe", m + 1, FALSE)
    BY <1>2
  <2>4. CallsFit(calls2, m + 1, b2, nets2, cl, su2)
    BY <1>1, <2>1, <2>2, <2>3, WaitsFit
  <2>5. nets[m + 1] \notin Socket
    BY <1>1 DEF NetsFit, Socket
  <2>6. Kept(nets, nets2)
    BY <1>1, <1>2, <2>5 DEF Kept
  <2> QED BY <1>2, <2>1, <2>4, <2>6
<1>3. CASE m2 = m /\ su2 = su /\ nets2 = nets /\ Ended(calls, calls2, c, l2, "connect")
  <2>1. CallsFit([calls EXCEPT ![c] = Idle], m, b2, nets, cl, su)
    BY <1>1, EndFits
  <2> QED BY <1>1, <1>3, <2>1 DEF Ended, Kept
<1> QED BY <1>2, <1>3 DEF Equips

-----------------------------------------------------------------------------
(***************************************************************************)
(* The steps of the calls.                                                 *)
(***************************************************************************)

Others(c) == \A d \in Call \ {c} : ~call[d].done
NetKept == Kept(net, net')

\* Plain consequences of the invariant.
LEMMA Plain ==
  ASSUME Inv
  PROVE  /\ made \in Nat /\ begun \in Nat /\ MaxCalls \in Nat /\ made \in 0 .. MaxClients
         /\ client \in 0 .. made /\ subscriber \in 0 .. made /\ lock \in 0 .. made
         /\ client \in Nat /\ subscriber \in Nat
         /\ call \in [Call -> Record] /\ net \in [Client -> Net]
         /\ CallsFit(call, made, begun, net, client, subscriber)
         /\ NetsFit(net, made, client, subscriber) /\ Room(call, made)
         /\ Whole(call, made, begun, net, client, subscriber)
         /\ \A c \in Call : /\ Fits(call[c], made, begun)
                            /\ Holds(call[c], net, client, subscriber)
BY BoundAssumption DEF Inv, Rest, Whole, CallsFit, NetsFit

\* A connect that finds a client.
LEMMA FindDoes ==
  ASSUME Inv, NEW c \in Call, FindClient(c, Begun("connect"))
  PROVE  /\ Equips(call, call', net, net', last, last', c, begun + 1, made, made',
                   subscriber, subscriber')
         /\ subscriber' = subscriber \/ lock' = client
         /\ lock' \in {lock, client} /\ listeners' = listeners \cup {begun + 1}
         /\ unsubscribe' \in {unsubscribe, begun + 1} /\ last' \in {last, "connect"}
         /\ UNCHANGED <<client, handler, main, state, stale>>
<1>1. Begun("connect").op = "connect" /\ Begun("connect").id = begun + 1
  BY DEF Begun
<1>2. Equip(c, Begun("connect"), state, net) /\ UNCHANGED <<state, stale>>
  BY DEF FindClient
<1>3. /\ lock' \in {lock, client} /\ listeners' = listeners \cup {begun + 1}
      /\ unsubscribe' \in {unsubscribe, begun + 1} /\ last' \in {last, "connect"}
      /\ UNCHANGED <<client, handler, main, state, stale>>
      /\ subscriber' = subscriber \/ lock' = client
  BY <1>1, <1>2 DEF Equip, Upgrade, Wait, Settle
<1>4. CASE subscriber # 0 \/ state # "connected"
  <2>1. /\ made' = made /\ subscriber' = subscriber /\ net' = net
        /\ Settle(c, "connect")
    BY <1>2, <1>4 DEF Equip
  <2>2. Ended(call, call', c, last', "connect")
    BY <2>1 DEF Settle, Ended
  <2>3. Equips(call, call', net, net', last, last', c, begun + 1, made, made',
               subscriber, subscriber')
    BY <2>1, <2>2 DEF Equips
  <2> QED BY <1>3, <2>3
<1>5. CASE subscriber = 0 /\ state = "connected"
  <2>1. /\ made' = made + 1 /\ subscriber' = made + 1 /\ last' = last
        /\ net' = [net EXCEPT ![made + 1] = "connecting"]
        /\ Wait(c, Begun("connect"), "subscribe", made', FALSE)
    BY <1>2, <1>5 DEF Equip, Wait
  <2>2. Waits(call, call', c, "connect", begun + 1, "subscribe", made + 1, FALSE)
    <3>1. made + 1 \in Nat /\ begun + 1 \in Nat /\ "subscribe" \in Pc /\ call \in [Call -> Record]
      BY Plain DEF Pc
    <3>2. call' = [call EXCEPT ![c] =
            [op |-> "connect", pc |-> "subscribe", on |-> made + 1, done |-> FALSE,
             id |-> begun + 1, turn |-> NextTurn([call EXCEPT ![c] = Idle], made + 1)]]
      BY <1>1, <2>1 DEF Wait
    <3> QED BY <3>1, <3>2, WaitRecord
  <2> QED BY <1>3, <1>5, <2>1, <2>2 DEF Equips
<1> QED BY <1>3, <1>4, <1>5

\* A connect that makes the client.
LEMMA MakeDoes ==
  ASSUME Inv, NEW c \in Call, MakeClient(c, Begun("connect"))
  PROVE  /\ Waits(call, call', c, "connect", begun + 1, "open", made + 1, FALSE)
         /\ client = 0 /\ made' = made + 1 /\ client' = made + 1 /\ main' = main \cup {made + 1}
         /\ net' = [net EXCEPT ![made + 1] = "connecting"] /\ last' = last
         /\ UNCHANGED <<state, stale, subscriber, listeners, unsubscribe, lock, handler>>
<1>1. Begun("connect").op = "connect" /\ Begun("connect").id = begun + 1
  BY DEF Begun
<1>2. made + 1 \in Nat /\ begun + 1 \in Nat /\ "open" \in Pc /\ call \in [Call -> Record]
  BY Plain DEF Pc
<1>3. call' = [call EXCEPT ![c] =
        [op |-> "connect", pc |-> "open", on |-> made + 1, done |-> FALSE,
         id |-> begun + 1, turn |-> NextTurn([call EXCEPT ![c] = Idle], made + 1)]]
  BY <1>1 DEF Wait, MakeClient
<1>4. Waits(call, call', c, "connect", begun + 1, "open", made + 1, FALSE)
  BY <1>2, <1>3, WaitRecord
<1> QED BY <1>4 DEF MakeClient, Wait

\* A connect finds the client there is, and may make its subscriber, or makes a client.
LEMMA ConnectFits ==
  ASSUME Inv, NEW c \in Call, Connect(c), Others(c)
  PROVE  Inv' /\ NetKept
<1>1. /\ begun' = begun + 1 /\ begun + 1 \in 0 .. MaxCalls /\ begun + 1 \in Nat
      /\ begun <= begun + 1 /\ begun + 1 \in 1 .. begun + 1
      /\ tangled' \in BOOLEAN /\ UNCHANGED <<tries, up, faults>>
  BY Plain DEF Connect, Begin, Inv, Rest
<1>2. \A r \in Record : made + 1 <= MaxClients /\ Room([call EXCEPT ![c] = r], made + 1)
  <2>1. made + 2 * (Cardinality({d \in Call : call[d].op = "connect"}) + 1) <= MaxClients
    BY DEF Connect, Connecting
  <2> QED BY <2>1, Plain, RoomBegins
<1>3. made + 1 <= MaxClients /\ made + 1 \in 0 .. MaxClients /\ made + 1 \in Nat
      /\ MaxClients \in Nat
  BY <1>2, IdleRecord, Plain, BoundAssumption
<1>4. CASE FindClient(c, Begun("connect"))
  <2>1. /\ Equips(call, call', net, net', last, last', c, begun + 1, made, made',
                  subscriber, subscriber')
        /\ lock' \in {lock, client} /\ listeners' = listeners \cup {begun + 1}
        /\ unsubscribe' \in {unsubscribe, begun + 1} /\ last' \in {last, "connect"}
        /\ UNCHANGED <<client, handler, main, state, stale>>
    BY <1>4, FindDoes
  <2>2. /\ CallsFit(call', made', begun', net', client, subscriber')
        /\ NetsFit(net', made', client, subscriber')
        /\ NetKept
    <3>1. /\ made \in 0 .. MaxClients /\ begun \in Nat /\ \A d \in Call \ {c} : ~call[d].done
          /\ CallsFit(call, made, begun, net, client, subscriber)
          /\ NetsFit(net, made, client, subscriber) /\ Room(call, made)
      BY Plain DEF Others
    <3>2. Equips(call, call', net, net', last, last', c, begun + 1, made, made',
                 subscriber, subscriber')
      BY <2>1
    <3>3. /\ CallsFit(call', made', begun + 1, net', client, subscriber')
          /\ NetsFit(net', made', client, subscriber')
          /\ NetKept
      <4>1. begun + 1 \in Nat /\ begun <= begun + 1 /\ begun + 1 \in 1 .. begun + 1
        BY <1>1
      <4>2. made + 1 <= MaxClients
        BY <1>3
      <4>3. CallsFit(call', made', begun + 1, net', client, subscriber')
        BY <4>1, <4>2, <3>1, <3>2, EquipsFit
      <4>4. NetsFit(net', made', client, subscriber')
        BY <4>1, <4>2, <3>1, <3>2, EquipsFit
      <4>5. Kept(net, net')
        BY <4>1, <4>2, <3>1, <3>2, EquipsFit
      <4> QED BY <4>3, <4>4, <4>5 DEF NetKept
    <3> QED BY <3>3, <1>1
  <2>3. Room(call', made')
    <3>1. CASE made' = made + 1
      <4>1. PICK r \in Record : call' = [call EXCEPT ![c] = r]
        BY <2>1, IdleRecord DEF Equips, Waits, Ended
      <4> QED BY <3>1, <4>1, <1>2
    <3>2. CASE made' # made + 1
      <4>1. made' = made /\ call' = [call EXCEPT ![c] = Idle]
        BY <2>1, <3>2 DEF Equips, Ended
      <4> QED BY <4>1, Plain, IdleRecord, RoomMoves
    <3> QED BY <3>1, <3>2
  <2>4. made' \in {made, made + 1} /\ subscriber' \in {subscriber, made + 1} /\ (subscriber' = subscriber \/ made' = made + 1)
    BY <2>1 DEF Equips
  <2>5. Rest'
    <3>1. /\ made' \in 0 .. MaxClients /\ made <= made' /\ made' \in Nat
          /\ subscriber' \in 0 .. made'
      BY <1>3, <2>4, Plain
    <3>2. /\ client' \in 0 .. made' /\ lock' \in 0 .. made'
          /\ handler' \subseteq 1 .. made' /\ main' \subseteq 1 .. made'
      BY <2>1, <3>1, Plain DEF Inv, Rest
    <3>3. unsubscribe' \in 0 .. begun' /\ listeners' \subseteq 1 .. begun'
      <4>1. unsubscribe \in 0 .. begun /\ listeners \subseteq 1 .. begun /\ begun \in Nat
        BY Plain DEF Inv, Rest
      <4>2. 0 .. begun \cup {begun + 1} \subseteq 0 .. begun + 1
        BY <4>1
      <4>3. 1 .. begun \cup {begun + 1} \subseteq 1 .. begun + 1
        BY <4>1
      <4> QED BY <1>1, <2>1, <4>1, <4>2, <4>3
    <3>4. last' \in {"none", "connect", "disconnect", "rejected"}
      BY <2>1 DEF Inv, Rest
    <3> QED BY <1>1, <2>1, <3>1, <3>2, <3>3, <3>4 DEF Inv, Rest
  <2> QED BY <2>1, <2>2, <2>3, <2>5 DEF Inv, Whole
<1>5. CASE MakeClient(c, Begun("connect"))
  <2>1. /\ Waits(call, call', c, "connect", begun + 1, "open", made + 1, FALSE)
        /\ client = 0 /\ made' = made + 1 /\ client' = made + 1 /\ main' = main \cup {made + 1}
        /\ net' = [net EXCEPT ![made + 1] = "connecting"] /\ last' = last
        /\ UNCHANGED <<state, stale, subscriber, listeners, unsubscribe, lock, handler>>
    BY <1>5, MakeDoes
  <2>2. NetsFit(net', made + 1, client', subscriber) /\ Onward(net, net', made)
    BY <1>3, <2>1, Plain, NetMade
  <2>3. CallsFit(call', made + 1, begun + 1, net', client', subscriber)
    <3>1. /\ Drops(net', client, client') /\ Drops(net', subscriber, subscriber)
          /\ made <= made + 1 /\ made + 1 \in 1 .. made + 1
          /\ "open" \in Pc \ {"idle"} /\ ("connect" = "connect" <=> "open" \in {"open", "subscribe"})
          /\ ("open" = "quit" => made + 1 = client') /\ ("open" \in OnSubscriber => made + 1 = subscriber)
          /\ (FALSE => "open" \in Quitting /\ net'[made + 1] \in Gone)
      BY <2>1, Plain DEF Drops, Pc, OnSubscriber
    <3>2. /\ made \in Nat /\ begun \in Nat /\ \A d \in Call \ {c} : ~call[d].done
          /\ CallsFit(call, made, begun, net, client, subscriber)
      BY Plain DEF Others
    <3>3. /\ Waits(call, call', c, "connect", begun + 1, "open", made + 1, FALSE)
          /\ Onward(net, net', made)
      BY <2>1, <2>2
    <3> QED BY <1>1, <1>3, <3>1, <3>2, <3>3, WaitsFit
  <2>4. Room(call', made + 1)
    BY <1>2, <2>1 DEF Waits
  <2>5. Rest'
    BY <1>1, <1>3, <2>1, Plain DEF Inv, Rest
  <2>6. NetKept
    <3>1. net[made + 1] \notin Socket
      BY <1>3, Plain DEF NetsFit, Socket, Client
    <3> QED BY <2>1, <3>1, Plain DEF NetKept, Kept
  <2> QED BY <1>1, <2>1, <2>2, <2>3, <2>4, <2>5, <2>6 DEF Inv, Whole
<1> QED BY <1>4, <1>5 DEF Connect

\* The record that Wait gives a call.
Waiting(calls, c, op, id, pc, i, done) ==
  [calls EXCEPT ![c] = [op |-> op, pc |-> pc, on |-> i, done |-> done, id |-> id,
                        turn |-> NextTurn([calls EXCEPT ![c] = Idle], i)]]

\* What Quit does, with the record that Wait gives the call.
Quits(calls, calls2, nets, nets2, l, l2, c, id, pc, i) ==
  \/ calls2 = [calls EXCEPT ![c] = Idle] /\ l2 = "rejected" /\ nets2 = nets
  \/ /\ calls2 = Waiting(calls, c, "disconnect", id, pc, i, TRUE) /\ l2 = l
     /\ nets[i] \notin Socket
     /\ nets2 = [nets EXCEPT ![i] = IF nets[i] = "reconnecting" THEN "end" ELSE "leaving"]
  \/ calls2 = Waiting(calls, c, "disconnect", id, pc, i, FALSE) /\ l2 = l /\ nets2 = nets

\* A step that does what Quit does asks the client to quit.
LEMMA QuitsAsks ==
  ASSUME NEW calls \in [Call -> Record], NEW calls2, NEW nets, NEW nets2, NEW l, NEW l2,
         NEW c \in Call, NEW id \in Nat, NEW pc \in Quitting, NEW i \in Nat,
         Quits(calls, calls2, nets, nets2, l, l2, c, id, pc, i)
  PROVE  Asks(calls, calls2, nets, nets2, l, l2, c, id, pc, i)
<1>1. pc \in Pc
  BY DEF Pc
<1>2. CASE calls2 = [calls EXCEPT ![c] = Idle] /\ l2 = "rejected" /\ nets2 = nets
  BY <1>2 DEF Asks, Ended
<1>3. CASE /\ calls2 = Waiting(calls, c, "disconnect", id, pc, i, TRUE) /\ l2 = l
           /\ nets[i] \notin Socket
           /\ nets2 = [nets EXCEPT ![i] = IF nets[i] = "reconnecting" THEN "end" ELSE "leaving"]
  <2>1. Waits(calls, calls2, c, "disconnect", id, pc, i, TRUE)
    BY <1>1, <1>3, WaitRecord DEF Waiting
  <2>2. \E s \in {"leaving", "end"} : nets2 = [nets EXCEPT ![i] = s]
    <3> DEFINE s == IF nets[i] = "reconnecting" THEN "end" ELSE "leaving"
    <3>1. s \in {"leaving", "end"} /\ nets2 = [nets EXCEPT ![i] = s]
      BY <1>3
    <3> HIDE DEF s
    <3> QED BY <3>1
  <2> QED BY <1>3, <2>1, <2>2 DEF Asks
<1>4. CASE calls2 = Waiting(calls, c, "disconnect", id, pc, i, FALSE) /\ l2 = l /\ nets2 = nets
  <2>1. Waits(calls, calls2, c, "disconnect", id, pc, i, FALSE)
    BY <1>1, <1>4, WaitRecord DEF Waiting
  <2> QED BY <1>4, <2>1 DEF Asks
<1> QED BY <1>2, <1>3, <1>4 DEF Quits

\* RedisCache.disconnect, in a disconnect that has nothing to unsubscribe.
LEMMA QuitBothDoes ==
  ASSUME Inv, NEW c \in Call, QuitBoth(c, Begun("disconnect"))
  PROVE  \/ Ended(call, call', c, last', "disconnect") /\ net' = net /\ client = 0 /\ subscriber = 0
         \/ /\ subscriber # 0
            /\ Asks(call, call', net, net', last, last', c, begun + 1, "quitSubscriber", subscriber)
         \/ /\ subscriber = 0 /\ client # 0
            /\ Asks(call, call', net, net', last, last', c, begun + 1, "quit", client)
<1>1. Begun("disconnect").op = "disconnect" /\ Begun("disconnect").id = begun + 1
  BY DEF Begun
<1>2. /\ call \in [Call -> Record] /\ begun + 1 \in Nat /\ client \in Nat /\ subscriber \in Nat
      /\ "quit" \in Quitting /\ "quitSubscriber" \in Quitting
  BY Plain DEF Quitting
<1>3. ASSUME Quit(c, Begun("disconnect"), "quitSubscriber", subscriber, net)
      PROVE  Asks(call, call', net, net', last, last', c, begun + 1, "quitSubscriber", subscriber)
  <2>1. Quits(call, call', net, net', last, last', c, begun + 1, "quitSubscriber", subscriber)
    BY <1>1, <1>3 DEF Quit, Quits, Settle, Wait, Waiting, Socket
  <2> QED BY <1>2, <2>1, QuitsAsks
<1>4. ASSUME Quit(c, Begun("disconnect"), "quit", client, net)
      PROVE  Asks(call, call', net, net', last, last', c, begun + 1, "quit", client)
  <2>1. Quits(call, call', net, net', last, last', c, begun + 1, "quit", client)
    BY <1>1, <1>4 DEF Quit, Quits, Settle, Wait, Waiting, Socket
  <2> QED BY <1>2, <2>1, QuitsAsks
<1> QED BY <1>3, <1>4 DEF QuitBoth, QuitClient, Settle, Ended

\* A disconnect rejects, ends, or asks the subscriber or, without one, the client to go;
\* it asks the client only when there is no subscriber.
LEMMA DisconnectDoes ==
  ASSUME Inv, NEW c \in Call, Disconnect(c)
  PROVE  /\ listeners' \subseteq listeners /\ unsubscribe' \in {0, unsubscribe}
         /\ UNCHANGED <<client, subscriber, lock, handler, main, made, state, stale>>
         /\ \/ Ended(call, call', c, last', "rejected") /\ net' = net
            \/ /\ Ended(call, call', c, last', "disconnect") /\ net' = net
               /\ client = 0 /\ subscriber = 0
            \/ /\ subscriber # 0 /\ net' = net /\ last' = last
               /\ Waits(call, call', c, "disconnect", begun + 1, "unsubscribe", subscriber, FALSE)
            \/ /\ subscriber # 0
               /\ Asks(call, call', net, net', last, last', c, begun + 1, "quitSubscriber", subscriber)
            \/ /\ subscriber = 0 /\ client # 0
               /\ Asks(call, call', net, net', last, last', c, begun + 1, "quit", client)
<1>1. /\ listeners' \subseteq listeners /\ unsubscribe' \in {0, unsubscribe}
      /\ UNCHANGED <<client, subscriber, lock, handler, main, made, state, stale>>
  BY DEF Disconnect
<1>2. \/ /\ subscriber # 0 /\ net' = net
         /\ \/ Settle(c, "rejected")
            \/ Wait(c, Begun("disconnect"), "unsubscribe", subscriber, FALSE)
      \/ QuitBoth(c, Begun("disconnect"))
  BY DEF Disconnect
<1>3. ASSUME Wait(c, Begun("disconnect"), "unsubscribe", subscriber, FALSE)
      PROVE  /\ Waits(call, call', c, "disconnect", begun + 1, "unsubscribe", subscriber, FALSE)
             /\ last' = last
  <2>1. /\ call \in [Call -> Record] /\ begun + 1 \in Nat /\ subscriber \in Nat
        /\ "unsubscribe" \in Pc
    BY Plain DEF Pc
  <2>2. call' = Waiting(call, c, "disconnect", begun + 1, "unsubscribe", subscriber, FALSE)
    BY <1>3 DEF Wait, Waiting, Begun
  <2>3. Waits(call, call', c, "disconnect", begun + 1, "unsubscribe", subscriber, FALSE)
    BY <2>1, <2>2, WaitRecord DEF Waiting
  <2> QED BY <1>3, <2>3 DEF Wait
<1>4. Settle(c, "rejected") => Ended(call, call', c, last', "rejected")
  BY DEF Settle, Ended
<1>5. QuitBoth(c, Begun("disconnect")) =>
         \/ Ended(call, call', c, last', "disconnect") /\ net' = net /\ client = 0 /\ subscriber = 0
         \/ /\ subscriber # 0
            /\ Asks(call, call', net, net', last, last', c, begun + 1, "quitSubscriber", subscriber)
         \/ /\ subscriber = 0 /\ client # 0
            /\ Asks(call, call', net, net', last, last', c, begun + 1, "quit", client)
  BY QuitBothDoes
<1> QED BY <1>1, <1>2, <1>3, <1>4, <1>5

\* None of these breaks the invariant: what is asked to go is still referred to.
LEMMA DisconnectFits ==
  ASSUME Inv, NEW c \in Call, Disconnect(c), Others(c)
  PROVE  Inv' /\ NetKept
<1>1. /\ begun' = begun + 1 /\ begun + 1 \in 0 .. MaxCalls /\ begun + 1 \in Nat
      /\ begun <= begun + 1 /\ begun + 1 \in 1 .. begun + 1
      /\ tangled' \in BOOLEAN /\ UNCHANGED <<tries, up, faults>>
  BY Plain DEF Disconnect, Begin, Inv, Rest
<1>2. /\ listeners' \subseteq listeners /\ unsubscribe' \in {0, unsubscribe}
      /\ UNCHANGED <<client, subscriber, lock, handler, main, made, state, stale>>
  BY DisconnectDoes
<1>3. /\ made \in Nat /\ made \in 0 .. MaxClients /\ begun \in Nat
      /\ \A d \in Call \ {c} : ~call[d].done
      /\ call \in [Call -> Record] /\ CallsFit(call, made, begun, net, client, subscriber)
      /\ NetsFit(net, made, client, subscriber) /\ Room(call, made)
      /\ Whole(call, made, begun, net, client, subscriber)
      /\ Drops(net, client, client) /\ Drops(net, subscriber, subscriber) /\ Onward(net, net, made)
      /\ Kept(net, net) /\ made <= made
      /\ (subscriber # 0 => subscriber \in 1 .. made) /\ (client # 0 => client \in 1 .. made)
  BY Plain DEF Others, Drops, Onward, Kept
<1> DEFINE Goal == /\ Whole(call', made, begun + 1, net', client, subscriber) /\ Kept(net, net')
                   /\ last' \in {last, "disconnect", "rejected"}
<1>4. ASSUME \/ Ended(call, call', c, last', "rejected") /\ net' = net
             \/ Ended(call, call', c, last', "disconnect") /\ net' = net
      PROVE  Goal
  <2>1. /\ CallsFit([call EXCEPT ![c] = Idle], made, begun + 1, net, client, subscriber)
        /\ Room([call EXCEPT ![c] = Idle], made)
    BY <1>1, <1>3, EndFits
  <2> QED BY <1>3, <1>4, <2>1 DEF Ended, Whole
<1>5. ASSUME /\ subscriber # 0 /\ net' = net /\ last' = last
             /\ Waits(call, call', c, "disconnect", begun + 1, "unsubscribe", subscriber, FALSE)
      PROVE  Goal
  <2>1. /\ "unsubscribe" \in Pc \ {"idle"} /\ "unsubscribe" # "open"
        /\ ("disconnect" = "connect" <=> "unsubscribe" \in {"open", "subscribe"})
        /\ ("unsubscribe" = "quit" => subscriber = client)
        /\ (FALSE => "unsubscribe" \in Quitting /\ net[subscriber] \in Gone)
    BY DEF Pc
  <2>2. subscriber \in 1 .. made /\ ("unsubscribe" \in OnSubscriber => subscriber = subscriber)
    BY <1>3, <1>5
  <2>3. Waits(call, call', c, "disconnect", begun + 1, "unsubscribe", subscriber, FALSE)
    BY <1>5
  <2>4. CallsFit(call', made, begun + 1, net, client, subscriber)
    BY <1>1, <1>3, <2>1, <2>2, <2>3, WaitsFit
  <2>5. Room(call', made)
    BY <1>3, <2>1, <2>3, WaitsRoom
  <2> QED BY <1>3, <1>5, <2>4, <2>5 DEF Whole
<1>6. ASSUME /\ subscriber # 0
             /\ Asks(call, call', net, net', last, last', c, begun + 1, "quitSubscriber", subscriber)
      PROVE  Goal
  <2>1. /\ "quitSubscriber" \in Quitting /\ ("quitSubscriber" = "quit" => subscriber = client)
        /\ ("quitSubscriber" # "quit" => subscriber = subscriber) /\ subscriber \in 1 .. made
    BY <1>3, <1>6 DEF Quitting
  <2>2. Asks(call, call', net, net', last, last', c, begun + 1, "quitSubscriber", subscriber)
    BY <1>6
  <2>3. Whole(call', made, begun + 1, net', client, subscriber) /\ Kept(net, net')
    BY <1>1, <1>3, <2>1, <2>2, AsksFit
  <2>4. last' \in {last, "rejected"}
    BY <2>2 DEF Asks, Ended
  <2> QED BY <2>3, <2>4
<1>7. ASSUME /\ client # 0
             /\ Asks(call, call', net, net', last, last', c, begun + 1, "quit", client)
      PROVE  Goal
  <2>1. "quit" \in Quitting /\ ("quit" # "quit" => client = subscriber) /\ client \in 1 .. made
    BY <1>3, <1>7 DEF Quitting
  <2>2. Asks(call, call', net, net', last, last', c, begun + 1, "quit", client)
    BY <1>7
  <2>3. Whole(call', made, begun + 1, net', client, subscriber) /\ Kept(net, net')
    BY <1>1, <1>3, <2>1, <2>2, AsksFit
  <2>4. last' \in {last, "rejected"}
    BY <2>2 DEF Asks, Ended
  <2> QED BY <2>3, <2>4
<1>8. Goal
  <2> HIDE DEF Goal
  <2> QED BY <1>4, <1>5, <1>6, <1>7, DisconnectDoes
<1>9. Rest'
  <2>1. unsubscribe' \in 0 .. begun' /\ listeners' \subseteq 1 .. begun'
    <3>1. unsubscribe \in 0 .. begun /\ listeners \subseteq 1 .. begun
      BY DEF Inv, Rest
    <3>2. 0 .. begun \subseteq 0 .. begun + 1 /\ 1 .. begun \subseteq 1 .. begun + 1
          /\ 0 \in 0 .. begun + 1
      BY <1>1, <1>3
    <3> QED BY <1>1, <1>2, <3>1, <3>2
  <2>2. last' \in {"none", "connect", "disconnect", "rejected"}
    BY <1>8 DEF Inv, Rest
  <2> QED BY <1>1, <1>2, <2>1, <2>2 DEF Inv, Rest
<1> QED BY <1>1, <1>2, <1>8, <1>9 DEF Inv, NetKept

\* A call that is answered waits for a client that was made.
LEMMA Awaited ==
  ASSUME Inv, NEW c \in Call, NEW pc \in Pc \ {"idle"}, NEW connection, Answered(c, pc, connection)
  PROVE  /\ call[c].pc = pc /\ call[c] # Idle
         /\ call[c].on \in 1 .. made /\ call[c].id \in 1 .. begun
         /\ call[c].done \/ net[call[c].on] \in connection
         /\ call[c].done => pc \in Quitting /\ net[call[c].on] \in Gone
         /\ pc \in {"open", "subscribe"} \/ call[c].op = "disconnect"
         /\ UNCHANGED <<tries, up, faults, begun, tangled>>
<1> DEFINE r == call[c]
<1>1. /\ r.pc = pc /\ UNCHANGED <<tries, up, faults, begun, tangled>>
      /\ r.done \/ net[r.on] \in connection
  BY DEF Answered, history
<1>2. Fits(r, made, begun) /\ Holds(r, net, client, subscriber)
  BY Plain
<1> HIDE DEF r
<1>3. r # Idle
  BY <1>1, IdleRecord
<1>4. /\ r \in Record /\ r.on \in 1 .. made /\ r.id \in 1 .. begun
      /\ r.op = "connect" <=> r.pc \in {"open", "subscribe"}
      /\ r.done => r.pc \in Quitting
  BY <1>2, <1>3 DEF Fits
<1>5. r.done => net[r.on] \in Gone
  BY <1>2 DEF Holds
<1>6. r.pc # "idle" /\ r.op \in {"none", "connect", "disconnect"}
  BY <1>1, <1>4 DEF Record
<1>7. pc \in {"open", "subscribe"} \/ r.op = "disconnect"
  BY <1>1, <1>2, <1>3, <1>4, <1>6 DEF Fits
<1> QED BY <1>1, <1>3, <1>4, <1>5, <1>7 DEF r

\* The subscriber awaited was ready, so it is the one there is: the handler goes on it.
LEMMA SubscribedFits ==
  ASSUME Inv, NEW c \in Call, Subscribed(c), Others(c)
  PROVE  Inv' /\ NetKept
<1>1. /\ call[c].pc = "subscribe" /\ call[c].on \in 1 .. made /\ call[c].id \in 1 .. begun
      /\ net[call[c].on] = "ready" /\ UNCHANGED <<tries, up, faults, begun, tangled>>
  <2>1. Answered(c, "subscribe", {"ready"}) /\ "subscribe" \in Pc \ {"idle"} /\ "subscribe" \notin Quitting
    BY DEF Subscribed, Pc, Quitting
  <2> QED BY <2>1, Awaited
<1>2. subscriber \in 1 .. made
  <2>1. Holds(call[c], net, client, subscriber)
    BY Plain
  <2> QED BY <1>1, <2>1 DEF Holds, OnSubscriber, Gone
<1>3. /\ handler' = handler \cup {subscriber} /\ unsubscribe' = call[c].id
      /\ call' = [call EXCEPT ![c] = Idle] /\ last' = "connect"
      /\ UNCHANGED <<client, subscriber, listeners, lock, main, made, state, net, stale>>
  BY DEF Subscribed, Settle
<1>4. Whole(call', made, begun, net, client, subscriber)
  <2>1. /\ begun <= begun /\ \A d \in Call \ {c} : ~call[d].done
        /\ Drops(net, client, client) /\ Drops(net, subscriber, subscriber) /\ Onward(net, net, made)
    BY Plain DEF Others, Drops, Onward
  <2>2. /\ CallsFit([call EXCEPT ![c] = Idle], made, begun, net, client, subscriber)
        /\ Room([call EXCEPT ![c] = Idle], made)
    BY <2>1, Plain, EndFits
  <2> QED BY <1>3, <2>2, Plain DEF Whole
<1>5. Rest'
  <2>1. unsubscribe' \in 0 .. begun /\ handler' \subseteq 1 .. made
    BY <1>1, <1>2, <1>3, Plain DEF Inv, Rest
  <2> QED BY <1>1, <1>3, <2>1 DEF Inv, Rest
<1>6. NetKept
  BY <1>3 DEF NetKept, Kept
<1> QED BY <1>1, <1>3, <1>4, <1>5, <1>6 DEF Inv

\* UNSUBSCRIBE was answered by the subscriber there is, and it is that one that is told to quit.
LEMMA UnsubscribedDoes ==
  ASSUME Inv, NEW c \in Call, Unsubscribed(c)
  PROVE  /\ call[c].pc = "unsubscribe" /\ call[c] # Idle /\ call[c].id \in 1 .. begun
         /\ subscriber \in 1 .. made
         /\ Asks(call, call', net, net', last, last', c, call[c].id, "quitUnsubscribed", subscriber)
         /\ UNCHANGED <<tries, up, faults, begun, tangled, client, subscriber, listeners,
                        unsubscribe, lock, handler, main, made, state, stale>>
<1>1. /\ call[c].pc = "unsubscribe" /\ call[c] # Idle
      /\ call[c].on \in 1 .. made /\ call[c].id \in 1 .. begun
      /\ net[call[c].on] = "ready" /\ call[c].op = "disconnect"
      /\ UNCHANGED <<tries, up, faults, begun, tangled>>
  <2>1. /\ Answered(c, "unsubscribe", {"ready"}) /\ "unsubscribe" \in Pc \ {"idle"}
        /\ "unsubscribe" \notin Quitting /\ "unsubscribe" \notin {"open", "subscribe"}
    BY DEF Unsubscribed, Pc, Quitting
  <2> QED BY <2>1, Awaited
<1>2. subscriber \in 1 .. made
  <2>1. Holds(call[c], net, client, subscriber)
    BY Plain
  <2> QED BY <1>1, <2>1 DEF Holds, OnSubscriber, Gone
<1>3. Asks(call, call', net, net', last, last', c, call[c].id, "quitUnsubscribed", subscriber)
  <2>1. Quit(c, call[c], "quitUnsubscribed", subscriber, net)
    BY DEF Unsubscribed
  <2>2. Quits(call, call', net, net', last, last', c, call[c].id, "quitUnsubscribed", subscriber)
    BY <1>1, <2>1 DEF Quit, Quits, Settle, Wait, Waiting, Socket
  <2>3. "quitUnsubscribed" \in Quitting /\ subscriber \in Nat /\ call[c].id \in Nat
        /\ call \in [Call -> Record]
    BY <1>1, Plain DEF Quitting
  <2> QED BY <2>2, <2>3, QuitsAsks
<1> QED BY <1>1, <1>2, <1>3 DEF Unsubscribed, server

\* The call now waits for the subscriber to quit.
LEMMA UnsubscribedFits ==
  ASSUME Inv, NEW c \in Call, Unsubscribed(c), Others(c)
  PROVE  Inv' /\ NetKept
<1>1. /\ call[c].id \in 1 .. begun /\ subscriber \in 1 .. made
      /\ Asks(call, call', net, net', last, last', c, call[c].id, "quitUnsubscribed", subscriber)
      /\ UNCHANGED <<tries, up, faults, begun, tangled, client, subscriber, listeners,
                     unsubscribe, lock, handler, main, made, state, stale>>
  BY UnsubscribedDoes
<1>2. /\ begun <= begun /\ begun \in Nat /\ made \in 0 .. MaxClients
      /\ \A d \in Call \ {c} : ~call[d].done
      /\ "quitUnsubscribed" \in Quitting /\ ("quitUnsubscribed" = "quit" => subscriber = client)
      /\ ("quitUnsubscribed" # "quit" => subscriber = subscriber)
      /\ Whole(call, made, begun, net, client, subscriber)
  BY Plain DEF Others, Quitting
<1>3. Whole(call', made, begun, net', client, subscriber) /\ Kept(net, net')
  BY <1>1, <1>2, AsksFit
<1>4. last' \in {last, "rejected"}
  BY <1>1 DEF Asks, Ended
<1>5. Rest'
  BY <1>1, <1>4 DEF Inv, Rest
<1> QED BY <1>1, <1>3, <1>5 DEF Inv, NetKept

\* The client that answered QUIT has gone, and no other client has changed.
LEMMA LeftGone ==
  ASSUME Inv, NEW c \in Call, NEW pc \in Quitting, QuitAnswered(c, pc)
  PROVE  /\ call[c].pc = pc /\ call[c] # Idle /\ call[c].id \in 1 .. begun
         /\ call[c].op = "disconnect" /\ call[c].on \in 1 .. made
         /\ pc = "quit" => call[c].on = client
         /\ pc # "quit" => call[c].on = subscriber
         /\ Onward(net, Left(c), made) /\ Kept(net, Left(c))
         /\ Left(c) \in [Client -> Net] /\ Left(c)[call[c].on] \in Gone
         /\ \A i \in Client : Left(c)[i] = "none" <=> i > made
         /\ \A i \in Client : net[i] \notin Socket => Left(c)[i] = net[i]
         /\ UNCHANGED <<tries, up, faults, begun, tangled>>
<1> DEFINE i == call[c].on
           nets == Left(c)
<1>1. /\ call[c].pc = pc /\ call[c] # Idle /\ i \in 1 .. made /\ call[c].id \in 1 .. begun
      /\ call[c].done \/ net[i] \in {"connect", "ready"}
      /\ call[c].done => net[i] \in Gone
      /\ call[c].op = "disconnect"
      /\ UNCHANGED <<tries, up, faults, begun, tangled>>
  <2>1. pc \in Pc \ {"idle"} /\ pc \notin {"open", "subscribe"} /\ Answered(c, pc, {"connect", "ready"})
    BY DEF QuitAnswered, Pc, Quitting
  <2> QED BY <2>1, Awaited
<1>2. /\ pc = "quit" => i = client
      /\ pc # "quit" => i = subscriber
  <2>1. Holds(call[c], net, client, subscriber)
    BY Plain
  <2> QED BY <1>1, <2>1 DEF Holds, OnSubscriber, Gone, Quitting
<1>3. /\ net \in [Client -> Net] /\ i \in Client /\ made \in Nat /\ MaxClients \in Nat
      /\ 1 .. made \subseteq Client /\ "closing" \in Net /\ ~(i > made)
      /\ \A j \in Client : net[j] = "none" <=> j > made
  BY <1>1, Plain, BoundAssumption DEF Client, Net, NetsFit
<1>4. CASE call[c].done
  <2>1. nets = net
    BY <1>4 DEF Left
  <2> HIDE DEF nets, i
  <2>2. /\ Onward(net, nets, made) /\ Kept(net, nets) /\ nets \in [Client -> Net] /\ nets[i] \in Gone
        /\ \A j \in Client : nets[j] = "none" <=> j > made
        /\ \A j \in Client : net[j] \notin Socket => nets[j] = net[j]
    BY <1>1, <1>3, <1>4, <2>1 DEF Onward, Kept
  <2> QED BY <1>1, <1>2, <2>2 DEF nets, i
<1>5. CASE ~call[c].done
  <2>1. nets = [net EXCEPT ![i] = "closing"] /\ net[i] \in {"connect", "ready"}
    BY <1>1, <1>5 DEF Left
  <2> HIDE DEF nets, i
  <2>2. nets \in [Client -> Net] /\ nets[i] = "closing" /\ \A j \in Client \ {i} : nets[j] = net[j]
    BY <1>3, <2>1
  <2>3. /\ Onward(net, nets, made) /\ Kept(net, nets) /\ nets[i] \in Gone
        /\ \A j \in Client : nets[j] = "none" <=> j > made
        /\ \A j \in Client : net[j] \notin Socket => nets[j] = net[j]
    BY <1>3, <2>1, <2>2 DEF Onward, Kept, Gone, Socket
  <2> QED BY <1>1, <1>2, <2>2, <2>3 DEF nets, i
<1> QED BY <1>4, <1>5

\* The client that answered QUIT has gone, so the reference to it may be dropped.
LEMMA ClientGoneFits ==
  ASSUME Inv, NEW c \in Call, ClientGone(c), Others(c)
  PROVE  Inv' /\ NetKept
<1>1. QuitAnswered(c, "quit") /\ "quit" \in Quitting
  BY DEF ClientGone, Quitting
<1>2. /\ client' = 0 /\ state' = "disconnected" /\ stale' = FALSE /\ net' = Left(c)
      /\ call' = [call EXCEPT ![c] = Idle] /\ last' = "disconnect"
      /\ UNCHANGED <<subscriber, listeners, unsubscribe, lock, handler, main, made>>
  BY DEF ClientGone, Settle
<1>3. /\ call[c].on = client /\ Onward(net, net', made) /\ Kept(net, net')
      /\ net' \in [Client -> Net] /\ net'[client] \in Gone
      /\ \A i \in Client : net'[i] = "none" <=> i > made
      /\ UNCHANGED <<tries, up, faults, begun, tangled>>
  BY <1>1, <1>2, LeftGone
<1>4. Drops(net', client, 0) /\ Drops(net', subscriber, subscriber)
  BY <1>3 DEF Drops
<1>5. NetsFit(net', made, 0, subscriber)
  <2>1. \A i \in 1 .. made : i \in {0, subscriber} \/ net'[i] \in Gone
    BY <1>3, Plain DEF NetsFit, Onward
  <2> QED BY <1>3, <2>1 DEF NetsFit
<1>6. /\ CallsFit([call EXCEPT ![c] = Idle], made, begun, net', 0, subscriber)
      /\ Room([call EXCEPT ![c] = Idle], made)
  <2>1. begun <= begun /\ \A d \in Call \ {c} : ~call[d].done
    BY Plain DEF Others
  <2> QED BY <1>3, <1>4, <2>1, Plain, EndFits
<1>7. Rest'
  <2>1. 0 \in 0 .. made
    BY Plain
  <2> QED BY <1>2, <1>3, <2>1 DEF Inv, Rest
<1>8. Whole(call', made', begun', net', client', subscriber')
  BY <1>2, <1>3, <1>5, <1>6 DEF Whole
<1> QED BY <1>3, <1>7, <1>8 DEF Inv, NetKept

\* With the subscriber gone disconnect goes on with the client, or ends without one.
LEMMA SubscriberGoneDoes ==
  ASSUME Inv, NEW c \in Call, SubscriberGone(c)
  PROVE  /\ call[c].pc \in {"quitUnsubscribed", "quitSubscriber"} /\ call[c] # Idle
         /\ call[c].id \in 1 .. begun /\ QuitAnswered(c, call[c].pc)
         /\ subscriber' = 0 /\ unsubscribe' \in {0, unsubscribe}
         /\ UNCHANGED <<client, listeners, lock, handler, main, made, state, stale>>
         /\ \/ client = 0 /\ Ended(call, call', c, last', "disconnect") /\ net' = Left(c)
            \/ /\ client # 0
               /\ Asks(call, call', Left(c), net', last, last', c, call[c].id, "quit", client)
<1>1. PICK pc \in {"quitUnsubscribed", "quitSubscriber"} :
        /\ QuitAnswered(c, pc)
        /\ subscriber' = 0 /\ unsubscribe' \in {0, unsubscribe}
        /\ QuitClient(c, call[c], Left(c))
        /\ UNCHANGED <<client, listeners, lock, handler, main, made, state, stale>>
  BY DEF SubscriberGone
<1>2. /\ call[c].pc = pc /\ call[c] # Idle /\ call[c].id \in 1 .. begun
      /\ call[c].op = "disconnect"
      /\ \A i \in Client : net[i] \notin Socket => Left(c)[i] = net[i]
  <2>1. pc \in Quitting
    BY DEF Quitting
  <2> QED BY <1>1, <2>1, LeftGone
<1>3. ASSUME client # 0, Quit(c, call[c], "quit", client, Left(c))
      PROVE  Asks(call, call', Left(c), net', last, last', c, call[c].id, "quit", client)
  <2>1. client \in Client /\ client \in Nat /\ call[c].id \in Nat /\ "quit" \in Quitting
        /\ call \in [Call -> Record]
    BY <1>2, <1>3, Plain, BoundAssumption DEF Client, Quitting
  <2>2. net[client] \in {"connecting", "reconnecting", "leaving"} => Left(c)[client] \notin Socket
    BY <1>2, <2>1 DEF Socket
  <2>3. Quits(call, call', Left(c), net', last, last', c, call[c].id, "quit", client)
    BY <1>2, <1>3, <2>2 DEF Quit, Quits, Settle, Wait, Waiting
  <2> QED BY <2>1, <2>3, QuitsAsks
<1>4. \/ client = 0 /\ Ended(call, call', c, last', "disconnect") /\ net' = Left(c)
      \/ client # 0 /\ Quit(c, call[c], "quit", client, Left(c))
  BY <1>1 DEF QuitClient, Settle, Ended
<1> QED BY <1>1, <1>2, <1>3, <1>4

\* A call that asks a client to quit does the same if it had ended before.
LEMMA AsksAfresh ==
  ASSUME NEW calls \in [Call -> Record], NEW c \in Call, NEW calls2, NEW nets, NEW nets2,
         NEW l, NEW l2, NEW id, NEW pc, NEW i,
         Asks(calls, calls2, nets, nets2, l, l2, c, id, pc, i)
  PROVE  Asks([calls EXCEPT ![c] = Idle], calls2, nets, nets2, l, l2, c, id, pc, i)
<1> DEFINE calls1 == [calls EXCEPT ![c] = Idle]
<1>1. \A r : [calls1 EXCEPT ![c] = r] = [calls EXCEPT ![c] = r]
  OBVIOUS
<1> HIDE DEF calls1
<1>2. Ended(calls, calls2, c, l2, "rejected") => Ended(calls1, calls2, c, l2, "rejected")
  BY <1>1 DEF Ended
<1>3. ASSUME NEW done, Waits(calls, calls2, c, "disconnect", id, pc, i, done)
      PROVE  Waits(calls1, calls2, c, "disconnect", id, pc, i, done)
  BY <1>1, <1>3 DEF Waits
<1>4. Asks(calls1, calls2, nets, nets2, l, l2, c, id, pc, i)
  BY <1>2, <1>3 DEF Asks
<1> QED BY <1>4 DEF calls1

\* The reference to the subscriber is dropped from a client that has gone, and the
\* call then waits for the client.
LEMMA SubscriberGoneFits ==
  ASSUME Inv, NEW c \in Call, SubscriberGone(c), Others(c)
  PROVE  Inv' /\ NetKept
<1> DEFINE nets == Left(c)
           calls == [call EXCEPT ![c] = Idle]
<1>1. /\ call[c].pc \in {"quitUnsubscribed", "quitSubscriber"} /\ call[c].id \in 1 .. begun
      /\ QuitAnswered(c, call[c].pc)
      /\ subscriber' = 0 /\ unsubscribe' \in {0, unsubscribe}
      /\ UNCHANGED <<client, listeners, lock, handler, main, made, state, stale>>
      /\ \/ client = 0 /\ Ended(call, call', c, last', "disconnect") /\ net' = nets
         \/ client # 0 /\ Asks(call, call', nets, net', last, last', c, call[c].id, "quit", client)
  BY SubscriberGoneDoes
<1>2. /\ call[c].on = subscriber /\ Onward(net, nets, made) /\ Kept(net, nets)
      /\ nets \in [Client -> Net] /\ nets[call[c].on] \in Gone
      /\ \A i \in Client : nets[i] = "none" <=> i > made
      /\ UNCHANGED <<tries, up, faults, begun, tangled>>
  <2>1. call[c].pc \in Quitting /\ call[c].pc # "quit"
    BY <1>1 DEF Quitting
  <2> QED BY <1>1, <2>1, LeftGone
<1> HIDE DEF nets
<1>3. Drops(nets, client, client) /\ Drops(nets, subscriber, 0)
  BY <1>2 DEF Drops
<1>4. NetsFit(nets, made, client, 0)
  <2>1. \A i \in 1 .. made : i \in {client, 0} \/ nets[i] \in Gone
    BY <1>2, Plain DEF NetsFit, Onward
  <2> QED BY <1>2, <2>1 DEF NetsFit
<1>5. Whole(calls, made, begun, nets, client, 0)
  <2>1. begun <= begun /\ \A d \in Call \ {c} : ~call[d].done
    BY Plain DEF Others
  <2>2. CallsFit(calls, made, begun, nets, client, 0) /\ Room(calls, made)
    BY <1>2, <1>3, <2>1, Plain, EndFits
  <2> QED BY <1>4, <2>2 DEF Whole
<1>6. Whole(call', made, begun, net', client, 0) /\ Kept(nets, net')
  <2>1. CASE client = 0 /\ Ended(call, call', c, last', "disconnect") /\ net' = nets
    BY <1>5, <2>1 DEF Ended, Kept
  <2>2. CASE client # 0 /\ Asks(call, call', nets, net', last, last', c, call[c].id, "quit", client)
    <3>1. Asks(calls, call', nets, net', last, last', c, call[c].id, "quit", client)
      BY <2>2, Plain, AsksAfresh
    <3>2. /\ begun <= begun /\ begun \in Nat /\ made \in 0 .. MaxClients
          /\ \A d \in Call \ {c} : ~calls[d].done
          /\ "quit" \in Quitting /\ ("quit" # "quit" => client = 0) /\ client \in 1 .. made
      BY <2>2, Plain DEF Others, Quitting
    <3> HIDE DEF calls
    <3> QED BY <1>1, <1>5, <3>1, <3>2, AsksFit
  <2> QED BY <1>1, <2>1, <2>2
<1>7. last' \in {last, "rejected", "disconnect"}
  BY <1>1 DEF Asks, Ended
<1>8. Rest'
  <2>1. 0 \in 0 .. made /\ unsubscribe' \in 0 .. begun
    BY <1>1, Plain DEF Inv, Rest
  <2> QED BY <1>1, <1>2, <1>7, <2>1 DEF Inv, Rest
<1>9. NetKept
  BY <1>2, <1>6 DEF NetKept, Kept
<1> QED BY <1>1, <1>2, <1>6, <1>8, <1>9 DEF Inv

-----------------------------------------------------------------------------
(***************************************************************************)
(* The steps of the clients.                                               *)
(***************************************************************************)

\* The connection of a client changes, no reference is dropped, and no call moves.
LEMMA NetStep ==
  ASSUME Inv, Prompt = {}, NEW i \in 1 .. made, NEW s \in Net \ {"none"},
         net[i] \in Gone => s \in Gone,
         NEW nets, nets = [net EXCEPT ![i] = s]
  PROVE  /\ Whole(call, made, begun, nets, client, subscriber)
         /\ Onward(net, nets, made) /\ NetsFit(nets, made, client, subscriber)
<1>1. Drops(nets, client, client) /\ Drops(nets, subscriber, subscriber)
  BY DEF Drops
<1>2. NetsFit(nets, made, client, subscriber) /\ Onward(net, nets, made)
  BY <1>1, Plain, NetMoves
<1>3. (\A d \in Call : ~call[d].done) /\ \A d \in Call : call[d] = call[d] \/ call[d] = Idle
  BY DEF Prompt
<1>4. CallsFit(call, made, begun, nets, client, subscriber)
  BY <1>2, <1>3, Plain, CallsEnd
<1> QED BY <1>2, <1>4, Plain DEF Whole

\* A client with a connection was made.
LEMMA MadeClients ==
  ASSUME Inv, NEW i \in Client, net[i] # "none"
  PROVE  i \in 1 .. made
BY Plain, BoundAssumption DEF NetsFit, Client

\* A socket opens: the client stays what it was for the calls, a leaving one closes.
LEMMA OpenFits ==
  ASSUME Inv, NEW i \in Client, Open(i), Prompt = {}
  PROVE  Inv' /\ NetKept
<1>1. /\ state' \in {state, "connected"} /\ stale' \in BOOLEAN
      /\ UNCHANGED <<call, server, tries, up, faults, last, history>>
  BY DEF Open, Emit, Inv, Rest
<1>2. PICK s \in {"connect", "closing"} :
        /\ net' = [net EXCEPT ![i] = s] /\ net[i] \in {"connecting", "leaving"}
        /\ net[i] = "leaving" => s = "closing"
  BY DEF Open
<1>3. /\ i \in 1 .. made /\ s \in Net \ {"none"} /\ (net[i] \in Gone => s \in Gone)
      /\ net[i] \notin Socket
  BY <1>2, MadeClients DEF Net, Gone, Socket
<1>4. Whole(call, made, begun, net', client, subscriber)
  BY <1>2, <1>3, NetStep
<1>5. NetKept
  BY <1>2, <1>3, Plain DEF NetKept, Kept
<1>6. Rest'
  BY <1>1 DEF Inv, Rest, server, history
<1> QED BY <1>1, <1>4, <1>5, <1>6 DEF Inv, server, history

\* A client that tries again has not gone.
LEMMA RetryFits ==
  ASSUME Inv, NEW i \in Client, Retry(i), Prompt = {}
  PROVE  Inv' /\ NetKept
<1>1. /\ net[i] = "reconnecting" /\ net' = [net EXCEPT ![i] = "connecting"]
      /\ UNCHANGED <<call, server, state, tries, up, faults, last, stale, history>>
  BY DEF Retry
<1>2. /\ i \in 1 .. made /\ "connecting" \in Net \ {"none"}
      /\ (net[i] \in Gone => "connecting" \in Gone) /\ net[i] \notin Socket
  BY <1>1, MadeClients DEF Net, Gone, Socket
<1>3. Whole(call, made, begun, net', client, subscriber)
  BY <1>1, <1>2, NetStep
<1>4. NetKept
  BY <1>1, <1>2, Plain DEF NetKept, Kept
<1>5. Rest'
  BY <1>1 DEF Inv, Rest, server, history
<1> QED BY <1>1, <1>3, <1>4, <1>5 DEF Inv, server, history

\* The connect that waited for a client goes on when it is ready.
LEMMA ReadyEquips ==
  ASSUME Inv, NEW i \in Client, NEW c \in Call, call[c].pc = "open", NEW nets,
         Equip(c, call[c], "connected", nets)
  PROVE  /\ Equips(call, call', nets, net', last, last', c, call[c].id, made, made',
                   subscriber, subscriber')
         /\ lock' = client /\ listeners' = listeners \cup {call[c].id}
         /\ unsubscribe' \in {unsubscribe, call[c].id} /\ last' \in {last, "connect"}
         /\ call[c].id \in 1 .. begun
         /\ UNCHANGED <<client, handler, main>>
<1>1. call[c].op = "connect" /\ call[c].id \in 1 .. begun
  <2>1. Fits(call[c], made, begun)
    BY Plain
  <2> QED BY <2>1, IdleRecord DEF Fits
<1>2. /\ lock' = client /\ listeners' = listeners \cup {call[c].id}
      /\ unsubscribe' \in {unsubscribe, call[c].id} /\ last' \in {last, "connect"}
      /\ UNCHANGED <<client, handler, main>>
  BY DEF Equip, Upgrade, Wait, Settle
<1>3. CASE subscriber # 0
  <2>1. /\ made' = made /\ subscriber' = subscriber /\ net' = nets
        /\ Settle(c, "connect")
    BY <1>3 DEF Equip
  <2>2. Ended(call, call', c, last', "connect")
    BY <2>1 DEF Settle, Ended
  <2> QED BY <1>1, <1>2, <2>1, <2>2 DEF Equips
<1>4. CASE subscriber = 0
  <2>1. /\ made' = made + 1 /\ subscriber' = made + 1 /\ last' = last
        /\ net' = [nets EXCEPT ![made + 1] = "connecting"]
        /\ Wait(c, call[c], "subscribe", made', FALSE)
    BY <1>4 DEF Equip, Wait
  <2>2. Waits(call, call', c, "connect", call[c].id, "subscribe", made + 1, FALSE)
    <3>1. made + 1 \in Nat /\ call[c].id \in Nat /\ "subscribe" \in Pc /\ call \in [Call -> Record]
      BY <1>1, Plain DEF Pc
    <3>2. call' = Waiting(call, c, "connect", call[c].id, "subscribe", made + 1, FALSE)
      BY <1>1, <2>1 DEF Wait, Waiting
    <3> QED BY <3>1, <3>2, WaitRecord DEF Waiting
  <2> QED BY <1>1, <1>2, <1>4, <2>1, <2>2 DEF Equips
<1> QED BY <1>1, <1>3, <1>4, Plain

\* A client that is ready lets the connect that made it go on to make the subscriber.
LEMMA ReadyFits ==
  ASSUME Inv, NEW i \in Client, Ready(i), Prompt = {}
  PROVE  Inv' /\ NetKept
<1> DEFINE nets == [net EXCEPT ![i] = "ready"]
<1>1. /\ net[i] = "connect" /\ tries' = [tries EXCEPT ![i] = 0]
      /\ state' \in {state, "connected"} /\ stale' \in BOOLEAN
      /\ UNCHANGED <<up, faults, begun, tangled>>
      /\ \/ net' = nets /\ UNCHANGED <<call, server, last>>
         \/ \E c \in Call : call[c].pc = "open" /\ Equip(c, call[c], "connected", nets)
  BY DEF Ready, Emit, Inv, Rest, history
<1>2. /\ i \in 1 .. made /\ "ready" \in Net \ {"none"} /\ (net[i] \in Gone => "ready" \in Gone)
  BY <1>1, MadeClients DEF Net, Gone
<1>3. /\ Whole(call, made, begun, nets, client, subscriber)
      /\ NetsFit(nets, made, client, subscriber)
  BY <1>2, NetStep
<1>4. Kept(net, nets)
  BY <1>1, Plain DEF Kept, Socket
<1>5. tries' \in [Client -> 0 .. MaxRetries]
  BY <1>1, BoundAssumption DEF Inv, Rest
<1>6. CASE net' = nets /\ UNCHANGED <<call, server, last>>
  <2>1. Rest'
    BY <1>1, <1>5, <1>6 DEF Inv, Rest, server
  <2> QED BY <1>1, <1>3, <1>4, <1>6, <2>1 DEF Inv, NetKept, server
<1>7. CASE \E c \in Call : call[c].pc = "open" /\ Equip(c, call[c], "connected", nets)
  <2> HIDE DEF nets
  <2>1. PICK c \in Call : call[c].pc = "open" /\ Equip(c, call[c], "connected", nets)
    BY <1>7
  <2>2. /\ Equips(call, call', nets, net', last, last', c, call[c].id, made, made',
                  subscriber, subscriber')
        /\ lock' = client /\ listeners' = listeners \cup {call[c].id}
        /\ unsubscribe' \in {unsubscribe, call[c].id} /\ last' \in {last, "connect"}
        /\ call[c].id \in 1 .. begun
        /\ UNCHANGED <<client, handler, main>>
    BY <2>1, ReadyEquips
  <2>3. made + 1 <= MaxClients /\ \A r \in Record : r.pc # "open" => Room([call EXCEPT ![c] = r], made + 1)
    BY <2>1, Plain, IdleRecord, RoomMoves
  <2>4. /\ made \in 0 .. MaxClients /\ begun \in Nat /\ begun <= begun
        /\ \A d \in Call \ {c} : ~call[d].done
        /\ CallsFit(call, made, begun, nets, client, subscriber) /\ Room(call, made)
    BY <1>3, Plain DEF Prompt, Whole
  <2>5. CallsFit(call', made', begun, net', client, subscriber')
    BY <1>3, <2>2, <2>3, <2>4, EquipsFit
  <2>6. NetsFit(net', made', client, subscriber')
    BY <1>3, <2>2, <2>3, <2>4, EquipsFit
  <2>7. Kept(nets, net')
    BY <1>3, <2>2, <2>3, <2>4, EquipsFit
  <2>8. Room(call', made')
    <3>1. CASE made' = made + 1
      <4>1. PICK r \in Record : call' = [call EXCEPT ![c] = r] /\ r.pc # "open"
        BY <2>2, IdleRecord DEF Equips, Waits, Ended
      <4> QED BY <3>1, <4>1, <2>3
    <3>2. CASE made' # made + 1
      <4>1. made' = made /\ call' = [call EXCEPT ![c] = Idle]
        BY <2>2, <3>2 DEF Equips, Ended
      <4> QED BY <4>1, Plain, IdleRecord, RoomMoves
    <3> QED BY <3>1, <3>2
  <2>9. Rest'
    <3>1. /\ made' \in 0 .. MaxClients /\ made <= made' /\ made' \in Nat
          /\ subscriber' \in 0 .. made'
      <4>1. /\ made' \in {made, made + 1} /\ subscriber' \in {subscriber, made + 1}
            /\ (subscriber' = subscriber \/ made' = made + 1)
        BY <2>2 DEF Equips
      <4> QED BY <2>3, <4>1, Plain, BoundAssumption
    <3>2. /\ client' \in 0 .. made' /\ lock' \in 0 .. made'
          /\ handler' \subseteq 1 .. made' /\ main' \subseteq 1 .. made'
      BY <2>2, <3>1, Plain DEF Inv, Rest
    <3>3. unsubscribe' \in 0 .. begun /\ listeners' \subseteq 1 .. begun
      BY <2>2, Plain DEF Inv, Rest
    <3> QED BY <1>1, <1>5, <2>2, <3>1, <3>2, <3>3 DEF Inv, Rest
  <2>10. NetKept
    BY <1>4, <2>7 DEF NetKept, Kept
  <2> QED BY <1>1, <2>2, <2>5, <2>6, <2>8, <2>9, <2>10 DEF Inv, Whole
<1> QED BY <1>1, <1>6, <1>7

\* A client that loses its connection has gone if it had before, and is none of
\* those whose events make the state `connected'.
LEMMA LoseFits ==
  ASSUME Inv, NEW i \in Client, Lose(i), net[i] \notin {"none", "end"}, Prompt = {}, faults' \in 0 .. MaxFaults
  PROVE  /\ Inv'
         /\ \A j \in Client : net[j] \in Socket => net'[j] \in Socket \/ j = i
         /\ main' = main
         /\ IF i \in main THEN state' # "connected" ELSE state' = state
<1> DEFINE s == IF Ends(i) THEN "end" ELSE "reconnecting"
<1>1. /\ net' = [net EXCEPT ![i] = s]
      /\ UNCHANGED <<server, up, history>> /\ stale' \in BOOLEAN
      /\ last' \in {last, "rejected"}
      /\ state' \in {state, "reconnecting", "disconnected"}
      /\ IF i \in main THEN state' # "connected" ELSE state' = state
  BY DEF Lose, Emit, Inv, Rest
<1>2. call' \in [Call -> Record] /\ \A d \in Call : call'[d] = call[d] \/ call'[d] = Idle
  BY Plain, IdleRecord DEF Lose
<1>3. tries' \in [Client -> 0 .. MaxRetries]
  <2>1. tries \in [Client -> 0 .. MaxRetries] /\ MaxRetries \in Nat
    BY BoundAssumption DEF Inv, Rest
  <2>2. tries' = [tries EXCEPT ![i] = IF Ends(i) THEN tries[i] ELSE tries[i] + 1]
    BY DEF Lose
  <2>3. ~Ends(i) => tries[i] + 1 \in 0 .. MaxRetries
    BY <2>1 DEF Ends
  <2> QED BY <2>1, <2>2, <2>3
<1>4. /\ i \in 1 .. made /\ s \in Net \ {"none"} /\ (net[i] \in Gone => s \in Gone)
  <2>1. i \in 1 .. made
    BY MadeClients
  <2>2. net[i] \in Gone => Ends(i)
    BY DEF Gone, Ends, ToldToQuit
  <2>3. s \in {"end", "reconnecting"} /\ (Ends(i) => s = "end")
    OBVIOUS
  <2> HIDE DEF s
  <2> QED BY <2>1, <2>2, <2>3 DEF Net, Gone
<1> HIDE DEF s
<1>5. Whole(call', made, begun, net', client, subscriber)
  <2>1. NetsFit(net', made, client, subscriber) /\ Onward(net, net', made)
    BY <1>1, <1>4, NetStep
  <2>2. CallsFit(call', made, begun, net', client, subscriber)
    <3>1. \A d \in Call : ~call[d].done
      BY DEF Prompt
    <3> QED BY <1>2, <2>1, <3>1, Plain, CallsEnd
  <2>3. Room(call', made)
    BY <1>2, Plain, RoomEnds
  <2> QED BY <2>1, <2>2, <2>3 DEF Whole
<1>6. Rest'
  BY <1>1, <1>3 DEF Inv, Rest, server, history
<1>7. \A j \in Client : net[j] \in Socket => net'[j] \in Socket \/ j = i
  BY <1>1, Plain
<1>8. main' = main
  BY <1>1 DEF server
<1> QED BY <1>1, <1>5, <1>6, <1>7, <1>8 DEF Inv, server, history

-----------------------------------------------------------------------------
(***************************************************************************)
(* The invariant holds.                                                    *)
(***************************************************************************)

Truth == ConnectedIsTrue

\* Nothing is made and no call is under way at first.
LEMMA Start ==
  ASSUME Init
  PROVE  Inv /\ Truth
<1>1. /\ call \in [Call -> Record] /\ \A c \in Call : call[c] = Idle
      /\ made = 0 /\ begun = 0 /\ client = 0 /\ subscriber = 0
      /\ net = [i \in Client |-> "none"] /\ tries = [i \in Client |-> 0]
  BY IdleRecord DEF Init
<1>2. CallsFit(call, made, begun, net, client, subscriber)
  BY <1>1, IdleRecord DEF CallsFit
<1>3. NetsFit(net, made, client, subscriber)
  <2>1. net \in [Client -> Net] /\ (\A i \in Client : net[i] = "none" /\ i > made) /\ 1 .. made = {}
    BY <1>1, BoundAssumption DEF Client, Net
  <2> QED BY <2>1 DEF NetsFit
<1>4. Room(call, made)
  <2>1. Opening(call) = {}
    BY <1>1, IdleRecord DEF Opening
  <2>2. Cardinality(Opening(call)) = 0
    BY <2>1, FS_EmptySet
  <2> QED BY <1>1, <2>2, BoundAssumption DEF Room
<1>5. Rest
  <2>1. {MaxRetries, MaxClients, MaxCalls, MaxFaults} \subseteq Nat
    BY BoundAssumption
  <2>2. tries \in [Client -> 0 .. MaxRetries] /\ up \in BOOLEAN
    BY <1>1, <2>1 DEF Init
  <2>3. /\ {client, subscriber, lock} \subseteq 0 .. made /\ made \in 0 .. MaxClients
        /\ begun \in 0 .. MaxCalls /\ faults \in 0 .. MaxFaults /\ unsubscribe \in 0 .. begun
    BY <2>1 DEF Init
  <2>4. /\ listeners \subseteq 1 .. begun /\ handler \subseteq 1 .. made /\ main \subseteq 1 .. made
        /\ state \in {"connected", "reconnecting", "disconnected"}
        /\ last \in {"none", "connect", "disconnect", "rejected"}
        /\ tangled \in BOOLEAN /\ stale \in BOOLEAN
    BY DEF Init
  <2> QED BY <2>2, <2>3, <2>4 DEF Rest
<1>6. Truth
  BY DEF Init, Truth, ConnectedIsTrue
<1> QED BY <1>2, <1>3, <1>4, <1>5, <1>6 DEF Inv, Whole

\* A step that leaves the state alone leaves it true.
LEMMA TruthKept ==
  ASSUME Truth, NetKept, state' = state, main \subseteq main', main \subseteq Client
  PROVE  Truth'
BY DEF Truth, ConnectedIsTrue, NetKept, Kept, Socket

\* Every step of a call.
LEMMA CallSteps ==
  ASSUME Inv, Truth, NEW c \in Call, Others(c), Connect(c) \/ Disconnect(c) \/ Answer(c)
  PROVE  Inv' /\ Truth'
<1>1. main \subseteq Client
  BY Plain, BoundAssumption DEF Inv, Rest, Client
<1>2. CASE Connect(c)
  <2>1. Inv' /\ NetKept
    BY <1>2, ConnectFits
  <2>2. state' = state /\ main \subseteq main'
    BY <1>2 DEF Connect, FindClient, MakeClient, Equip
  <2> QED BY <1>1, <2>1, <2>2, TruthKept
<1>3. CASE Disconnect(c)
  <2>1. Inv' /\ NetKept
    BY <1>3, DisconnectFits
  <2>2. state' = state /\ main \subseteq main'
    BY <1>3 DEF Disconnect
  <2> QED BY <1>1, <2>1, <2>2, TruthKept
<1>4. CASE Subscribed(c)
  <2>1. Inv' /\ NetKept
    BY <1>4, SubscribedFits
  <2>2. state' = state /\ main \subseteq main'
    BY <1>4 DEF Subscribed
  <2> QED BY <1>1, <2>1, <2>2, TruthKept
<1>5. CASE Unsubscribed(c)
  <2>1. Inv' /\ NetKept
    BY <1>5, UnsubscribedFits
  <2>2. state' = state /\ main \subseteq main'
    BY <1>5 DEF Unsubscribed, server
  <2> QED BY <1>1, <2>1, <2>2, TruthKept
<1>6. CASE SubscriberGone(c)
  <2>1. Inv' /\ NetKept
    BY <1>6, SubscriberGoneFits
  <2>2. state' = state /\ main \subseteq main'
    BY <1>6 DEF SubscriberGone
  <2> QED BY <1>1, <2>1, <2>2, TruthKept
<1>7. CASE ClientGone(c)
  <2>1. Inv'
    BY <1>7, ClientGoneFits
  <2>2. state' = "disconnected"
    BY <1>7 DEF ClientGone
  <2> QED BY <2>1, <2>2 DEF Truth, ConnectedIsTrue
<1> QED BY <1>2, <1>3, <1>4, <1>5, <1>6, <1>7 DEF Answer

\* Every step of a client.
LEMMA ClientSteps ==
  ASSUME Inv, Truth, NEW i \in Client, Prompt = {}, Alive(i) \/ Break(i)
  PROVE  Inv' /\ Truth'
<1>1. main \subseteq Client
  BY Plain, BoundAssumption DEF Inv, Rest, Client
<1>2. CASE Open(i)
  <2>1. Inv' /\ NetKept
    BY <1>2, OpenFits
  <2>2. main' = main /\ net'[i] \in {"connect", "closing"}
    BY <1>2, Plain DEF Open, server
  <2>3. state' = IF i \in main THEN "connected" ELSE state
    BY <1>2 DEF Open, Emit
  <2>4. CASE i \in main
    <3>1. i \in main' /\ net'[i] \in {"connect", "ready", "closing"}
      BY <2>2, <2>4
    <3>2. Truth'
      BY <3>1 DEF Truth, ConnectedIsTrue
    <3> QED BY <2>1, <3>2
  <2>5. CASE i \notin main
    BY <1>1, <2>1, <2>2, <2>3, <2>5, TruthKept
  <2> QED BY <2>1, <2>4, <2>5
<1>3. CASE Ready(i)
  <2>1. Inv' /\ NetKept
    BY <1>3, ReadyFits
  <2>2. main' = main /\ net[i] = "connect"
    BY <1>3 DEF Ready, server, Equip
  <2>3. state' = IF i \in main THEN "connected" ELSE state
    BY <1>3 DEF Ready, Emit
  <2>4. CASE i \in main
    BY <2>1, <2>2, <2>4 DEF Truth, ConnectedIsTrue, NetKept, Kept, Socket
  <2>5. CASE i \notin main
    BY <1>1, <2>1, <2>2, <2>3, <2>5, TruthKept
  <2> QED BY <2>1, <2>4, <2>5
<1>4. CASE Close(i) \/ Break(i)
  <2>1. Lose(i) /\ net[i] \notin {"none", "end"} /\ faults' \in 0 .. MaxFaults
    BY <1>4, BoundAssumption DEF Close, Break, Fault, Inv, Rest
  <2>2. /\ Inv'
        /\ \A j \in Client : net[j] \in Socket => net'[j] \in Socket \/ j = i
        /\ main' = main
        /\ IF i \in main THEN state' # "connected" ELSE state' = state
    BY <2>1, LoseFits
  <2>3. Truth'
    BY <1>1, <2>2 DEF Truth, ConnectedIsTrue, Socket
  <2> QED BY <2>2, <2>3
<1>5. CASE Retry(i)
  <2>1. Inv' /\ NetKept
    BY <1>5, RetryFits
  <2>2. state' = state /\ main \subseteq main'
    BY <1>5 DEF Retry, server
  <2> QED BY <1>1, <2>1, <2>2, TruthKept
<1> QED BY <1>2, <1>3, <1>4, <1>5 DEF Alive

\* Every step keeps the invariant.
LEMMA Step ==
  ASSUME Inv, Truth, [Next]_vars
  PROVE  Inv' /\ Truth'
<1>1. ASSUME NEW c \in Prompt, Answer(c)
      PROVE  Inv' /\ Truth'
  <2>1. c \in Call /\ Others(c)
    BY Plain DEF Prompt, Others, CallsFit
  <2> QED BY <1>1, <2>1, CallSteps
<1>2. ASSUME Prompt = {}, NEW c \in Call, Connect(c) \/ Disconnect(c) \/ Answer(c)
      PROVE  Inv' /\ Truth'
  <2>1. Others(c)
    BY <1>2 DEF Prompt, Others
  <2> QED BY <1>2, <2>1, CallSteps
<1>3. ASSUME Prompt = {}, NEW i \in Client, Alive(i) \/ Break(i)
      PROVE  Inv' /\ Truth'
  BY <1>3, ClientSteps
<1>4. CASE Down \/ Up
  <2>1. /\ UNCHANGED <<call, server, state, net, tries, last, stale, history>>
        /\ up' \in BOOLEAN /\ faults' \in 0 .. MaxFaults
    <3>1. UNCHANGED <<call, server, state, net, tries, last, stale, history>> /\ up' \in BOOLEAN
      BY <1>4 DEF Down, Up
    <3>2. faults \in 0 .. MaxFaults /\ MaxFaults \in Nat
      BY BoundAssumption DEF Inv, Rest
    <3>3. faults' = faults \/ (faults < MaxFaults /\ faults' = faults + 1)
      BY <1>4 DEF Down, Up, Fault
    <3> QED BY <3>1, <3>2, <3>3
  <2>2. Rest'
    BY <2>1 DEF Inv, Rest, server, history
  <2> QED BY <2>1, <2>2 DEF Inv, server, history, Truth, ConnectedIsTrue
<1>5. CASE UNCHANGED vars
  BY <1>5 DEF Inv, Rest, vars, server, history, Truth, ConnectedIsTrue
<1> QED BY <1>1, <1>2, <1>3, <1>4, <1>5 DEF Next

\* The invariant, and the state's truth, hold in every behaviour.
LEMMA Safe == Spec => [](Inv /\ Truth)
<1>1. Init => Inv /\ Truth
  BY Start
<1>2. Inv /\ Truth /\ [Next]_vars => Inv' /\ Truth'
  BY Step
<1> QED BY <1>1, <1>2, PTL DEF Spec

\* Every variable has its type: the clients referred to were made, the counters
\* stay in their bounds, and no client tries more often than retryStrategy allows.
THEOREM TypeCorrect == Spec => []TypeOK
<1>1. ASSUME Inv
      PROVE  TypeOK
  <2>1. ASSUME NEW c \in Call
        PROVE  call[c].on \in Ref /\ call[c].id \in 0 .. begun
    <3> DEFINE r == call[c]
    <3>1. Fits(r, made, begun) /\ made \in Nat /\ begun \in Nat
      BY <1>1, Plain
    <3> HIDE DEF r
    <3>2. r.on \in Ref /\ r.id \in 0 .. begun
      <4>1. CASE r = Idle
        BY <3>1, <4>1 DEF Idle, Ref
      <4>2. CASE r # Idle
        BY <3>1, <4>2 DEF Fits, Ref
      <4> QED BY <4>1, <4>2
    <3> QED BY <3>2 DEF r
  <2>2. call \in [Call -> [op : {"none", "connect", "disconnect"}, pc : Pc, on : Ref,
                           turn : Nat, done : BOOLEAN, id : 0 .. begun]]
    <3>1. ASSUME NEW c \in Call
          PROVE  call[c] \in [op : {"none", "connect", "disconnect"}, pc : Pc, on : Ref,
                              turn : Nat, done : BOOLEAN, id : 0 .. begun]
      <4>1. call[c] \in Record
        BY <1>1, Plain
      <4> QED BY <2>1, <4>1 DEF Record
    <3> QED BY <1>1, <3>1, Plain
  <2>3. net \in [Client -> Net] /\ \A i \in Client : net[i] = "none" <=> i > made
    BY <1>1, Plain DEF NetsFit
  <2> QED BY <1>1, <2>2, <2>3 DEF Inv, Rest, TypeOK, Ref
<1> QED BY <1>1, Safe, PTL

\* The state is `connected' only while a client whose events set it has an open
\* socket, however calls overlap and connections break.
THEOREM StateIsTrue == Spec => []ConnectedIsTrue
<1>1. Truth => ConnectedIsTrue
  BY DEF Truth
<1> QED BY <1>1, Safe, PTL

\* Overlapping connects and disconnects leak no connection: a client that neither
\* this.client nor this.subscriber refers to was told to quit or has ended.
THEOREM NoConnectionLeaks == Spec => []NoneLeaked
<1>1. Inv => NoneLeaked
  BY Plain DEF NetsFit, NoneLeaked
<1> QED BY <1>1, Safe, PTL

\* A continuation after an await finds the client it awaited in this.client, and
\* the subscriber it awaited in this.subscriber, unless that one has gone.
THEOREM ContinuationsFindTheirClient == Spec => []AwaitedIsHeld
<1>1. Inv => AwaitedIsHeld
  BY Plain DEF Holds, OnSubscriber, AwaitedIsHeld
<1> QED BY <1>1, Safe, PTL

-----------------------------------------------------------------------------
(***************************************************************************)
(* One call at a time.                                                     *)
(***************************************************************************)

\* While no call began during another, at most one is under way; it subscribes
\* when the lock is on the client, and quits the client when the subscriber is
\* gone; and a disconnect that ended leaves neither.
Lone ==
  ~tangled =>
    /\ \A c, d \in Call : call[c] # Idle /\ call[d] # Idle => c = d
    /\ \A c \in Call : /\ call[c].pc = "subscribe" => lock = client
                       /\ call[c].pc = "quit" => subscriber = 0
    /\ last = "disconnect" /\ Settled => client = 0 /\ subscriber = 0

\* A step of the only call.
LEMMA LoneMoves ==
  ASSUME Inv, NEW c \in Call, \A d \in Call \ {c} : call[d] = Idle,
         NEW r, call' = [call EXCEPT ![c] = r],
         r.pc = "subscribe" => lock' = client', r.pc = "quit" => subscriber' = 0,
         r = Idle /\ last' = "disconnect" => client' = 0 /\ subscriber' = 0
  PROVE  Lone'
<1>1. call'[c] = r /\ \A d \in Call \ {c} : call'[d] = Idle
  BY Plain
<1>2. \A d, e \in Call : call'[d] # Idle /\ call'[e] # Idle => d = e
  BY <1>1
<1>3. \A d \in Call : /\ call'[d].pc = "subscribe" => lock' = client'
                      /\ call'[d].pc = "quit" => subscriber' = 0
  BY <1>1, IdleRecord
<1>4. last' = "disconnect" /\ Settled' => client' = 0 /\ subscriber' = 0
  BY <1>1 DEF Settled
<1> QED BY <1>2, <1>3, <1>4 DEF Lone

\* The only call asks a client to quit, and quits the client without a subscriber.
LEMMA LoneAsks ==
  ASSUME Inv, NEW c \in Call, \A d \in Call \ {c} : call[d] = Idle,
         NEW nets, NEW id, NEW pc \in Quitting, NEW i,
         Asks(call, call', nets, net', last, last', c, id, pc, i),
         pc = "quit" => subscriber' = 0
  PROVE  Lone'
<1>1. PICK r : /\ call' = [call EXCEPT ![c] = r]
               /\ (r = Idle /\ last' = "rejected") \/ r.pc = pc
  BY DEF Asks, Ended, Waits
<1>2. CASE r = Idle /\ last' = "rejected"
  BY <1>1, <1>2, IdleRecord, LoneMoves
<1>3. CASE r.pc = pc
  <2>1. r # Idle /\ r.pc # "subscribe"
    BY <1>3, IdleRecord DEF Quitting
  <2> QED BY <1>1, <1>3, <2>1, LoneMoves
<1> QED BY <1>1, <1>2, <1>3

\* The only call ends.
LEMMA LoneEnds ==
  ASSUME Inv, NEW c \in Call, \A d \in Call \ {c} : call[d] = Idle,
         call' = [call EXCEPT ![c] = Idle],
         last' = "disconnect" => client' = 0 /\ subscriber' = 0
  PROVE  Lone'
BY IdleRecord, LoneMoves

\* A call begins while no other is under way.
LEMMA LoneBegins ==
  ASSUME Inv, Lone, NEW c \in Call, Connect(c) \/ Disconnect(c)
  PROVE  Lone'
<1> SUFFICES ASSUME ~tangled' PROVE Lone'
  BY DEF Lone
<1>1. \A d \in Call \ {c} : call[d] = Idle
  BY DEF Connect, Disconnect, Begin, Settled
<1>2. CASE FindClient(c, Begun("connect"))
  <2>1. /\ Equips(call, call', net, net', last, last', c, begun + 1, made, made',
                  subscriber, subscriber')
        /\ subscriber' = subscriber \/ lock' = client
        /\ client' = client
    BY <1>2, FindDoes
  <2>2. CASE Ended(call, call', c, last', "connect")
    BY <1>1, <2>2, LoneEnds DEF Ended
  <2>3. CASE /\ subscriber = 0 /\ subscriber' = made + 1
             /\ Waits(call, call', c, "connect", begun + 1, "subscribe", made + 1, FALSE)
    <3>1. lock' = client'
      BY <2>1, <2>3, Plain
    <3>2. PICK r : call' = [call EXCEPT ![c] = r] /\ r.pc = "subscribe"
      BY <2>3 DEF Waits
    <3>3. r # Idle /\ r.pc # "quit"
      BY <3>2, IdleRecord
    <3> QED BY <1>1, <3>1, <3>2, <3>3, LoneMoves
  <2> QED BY <2>1, <2>2, <2>3 DEF Equips
<1>3. CASE MakeClient(c, Begun("connect"))
  <2>1. Waits(call, call', c, "connect", begun + 1, "open", made + 1, FALSE)
    BY <1>3, MakeDoes
  <2>2. PICK r : call' = [call EXCEPT ![c] = r] /\ r.pc = "open"
    BY <2>1 DEF Waits
  <2>3. r # Idle /\ r.pc # "quit" /\ r.pc # "subscribe"
    BY <2>2, IdleRecord
  <2> QED BY <1>1, <2>2, <2>3, LoneMoves
<1>4. CASE Disconnect(c)
  <2>1. client' = client /\ subscriber' = subscriber
    BY <1>4, DisconnectDoes
  <2>2. CASE Ended(call, call', c, last', "rejected")
    BY <1>1, <2>2, LoneEnds DEF Ended
  <2>3. CASE Ended(call, call', c, last', "disconnect") /\ client = 0 /\ subscriber = 0
    BY <1>1, <2>1, <2>3, LoneEnds DEF Ended
  <2>4. CASE Waits(call, call', c, "disconnect", begun + 1, "unsubscribe", subscriber, FALSE)
    <3>1. PICK r : call' = [call EXCEPT ![c] = r] /\ r.pc = "unsubscribe"
      BY <2>4 DEF Waits
    <3>2. r # Idle /\ r.pc # "quit" /\ r.pc # "subscribe"
      BY <3>1, IdleRecord
    <3> QED BY <1>1, <3>1, <3>2, LoneMoves
  <2>5. CASE Asks(call, call', net, net', last, last', c, begun + 1, "quitSubscriber", subscriber)
    <3>1. "quitSubscriber" \in Quitting /\ "quitSubscriber" # "quit"
      BY DEF Quitting
    <3> QED BY <1>1, <2>5, <3>1, LoneAsks
  <2>6. CASE /\ subscriber = 0
             /\ Asks(call, call', net, net', last, last', c, begun + 1, "quit", client)
    <3>1. "quit" \in Quitting
      BY DEF Quitting
    <3> QED BY <1>1, <2>1, <2>6, <3>1, LoneAsks
  <2> QED BY <1>4, <2>2, <2>3, <2>4, <2>5, <2>6, DisconnectDoes
<1> QED BY <1>2, <1>3, <1>4 DEF Connect

\* The only call goes on.
LEMMA LoneAnswers ==
  ASSUME Inv, Lone, NEW c \in Call, Answer(c)
  PROVE  Lone'
<1>1. call[c] # Idle /\ tangled' = tangled
  <2>1. \E pc \in Pc \ {"idle"}, connection \in SUBSET Net : Answered(c, pc, connection)
    BY DEF Answer, Subscribed, Unsubscribed, SubscriberGone, ClientGone, QuitAnswered,
           Pc, Quitting, Net
  <2> QED BY <2>1, Awaited
<1> SUFFICES ASSUME ~tangled' PROVE Lone'
  BY DEF Lone
<1>2. \A d \in Call \ {c} : call[d] = Idle
  BY <1>1 DEF Lone
<1>3. CASE Subscribed(c)
  <2>1. call' = [call EXCEPT ![c] = Idle] /\ last' = "connect"
    BY <1>3 DEF Subscribed, Settle
  <2> QED BY <1>2, <2>1, LoneEnds
<1>4. CASE Unsubscribed(c)
  <2>1. Asks(call, call', net, net', last, last', c, call[c].id, "quitUnsubscribed", subscriber)
    BY <1>4, UnsubscribedDoes
  <2>2. "quitUnsubscribed" \in Quitting /\ "quitUnsubscribed" # "quit"
    BY DEF Quitting
  <2> QED BY <1>2, <2>1, <2>2, LoneAsks
<1>5. CASE SubscriberGone(c)
  <2>1. /\ subscriber' = 0 /\ client' = client /\ "quit" \in Quitting
        /\ \/ client = 0 /\ Ended(call, call', c, last', "disconnect")
           \/ Asks(call, call', Left(c), net', last, last', c, call[c].id, "quit", client)
    BY <1>5, SubscriberGoneDoes DEF Quitting
  <2>2. CASE client = 0 /\ Ended(call, call', c, last', "disconnect")
    BY <1>2, <2>1, <2>2, LoneEnds DEF Ended
  <2>3. CASE Asks(call, call', Left(c), net', last, last', c, call[c].id, "quit", client)
    BY <1>2, <2>1, <2>3, LoneAsks
  <2> QED BY <2>1, <2>2, <2>3
<1>6. CASE ClientGone(c)
  <2>1. /\ call' = [call EXCEPT ![c] = Idle] /\ client' = 0 /\ subscriber' = subscriber
        /\ call[c].pc = "quit"
    BY <1>6 DEF ClientGone, Settle, QuitAnswered, Answered
  <2>2. subscriber = 0
    BY <1>1, <2>1 DEF Lone
  <2> QED BY <1>2, <2>1, <2>2, LoneEnds
<1> QED BY <1>3, <1>4, <1>5, <1>6 DEF Answer

\* A client takes a step.
LEMMA LoneClients ==
  ASSUME Inv, Lone, NEW i \in Client, Alive(i) \/ Break(i)
  PROVE  Lone'
<1>1. CASE UNCHANGED <<call, server, last, history>>
  BY <1>1 DEF Lone, Settled, server, history
<1>2. ASSUME NEW c \in Call, call[c].pc = "open", tangled' = tangled,
             NEW nets, Equip(c, call[c], "connected", nets)
      PROVE  Lone'
  <2> SUFFICES ASSUME ~tangled' PROVE Lone'
    BY DEF Lone
  <2>1. \A d \in Call \ {c} : call[d] = Idle
    BY <1>2, IdleRecord DEF Lone
  <2>2. /\ Equips(call, call', nets, net', last, last', c, call[c].id, made, made',
                  subscriber, subscriber')
        /\ lock' = client'
    BY <1>2, ReadyEquips
  <2>3. CASE Ended(call, call', c, last', "connect")
    BY <2>1, <2>3, LoneEnds DEF Ended
  <2>4. CASE Waits(call, call', c, "connect", call[c].id, "subscribe", made + 1, FALSE)
    <3>1. PICK r : call' = [call EXCEPT ![c] = r] /\ r.pc = "subscribe"
      BY <2>4 DEF Waits
    <3>2. r # Idle /\ r.pc # "quit"
      BY <3>1, IdleRecord
    <3> QED BY <2>1, <2>2, <3>1, <3>2, LoneMoves
  <2> QED BY <2>2, <2>3, <2>4 DEF Equips
<1>3. CASE Ready(i)
  <2>1. tangled' = tangled /\ begun' = begun
    BY <1>3 DEF Ready, history
  <2>2. \/ UNCHANGED <<call, server, last, history>>
        \/ \E c \in Call : /\ call[c].pc = "open"
                           /\ Equip(c, call[c], "connected", [net EXCEPT ![i] = "ready"])
    BY <1>3 DEF Ready
  <2>3. ASSUME NEW c \in Call, call[c].pc = "open",
               Equip(c, call[c], "connected", [net EXCEPT ![i] = "ready"])
        PROVE  Lone'
    <3> DEFINE nets == [net EXCEPT ![i] = "ready"]
    <3>1. Equip(c, call[c], "connected", nets)
      BY <2>3
    <3> HIDE DEF nets
    <3> QED BY <2>1, <2>3, <3>1, <1>2
  <2> QED BY <1>1, <2>2, <2>3
<1>4. CASE Open(i) \/ Retry(i)
  BY <1>1, <1>4 DEF Open, Retry
<1>5. CASE Close(i) \/ Break(i)
  <2>1. Lose(i)
    BY <1>5 DEF Close, Break
  <2>2. /\ \A d \in Call : call'[d] = call[d] \/ call'[d] = Idle
        /\ last' = "rejected" \/ (last' = last /\ \A d \in Call : call'[d] = call[d])
        /\ UNCHANGED <<server, history>>
    BY <2>1 DEF Lose
  <2> SUFFICES ASSUME ~tangled' PROVE Lone'
    BY DEF Lone
  <2>3. ~tangled /\ client' = client /\ subscriber' = subscriber /\ lock' = lock
    BY <2>2 DEF server, history
  <2>4. \A c, d \in Call : call'[c] # Idle /\ call'[d] # Idle => c = d
    BY <2>2, <2>3 DEF Lone
  <2>5. \A c \in Call : /\ call'[c].pc = "subscribe" => lock' = client'
                        /\ call'[c].pc = "quit" => subscriber' = 0
    BY <2>2, <2>3, IdleRecord DEF Lone
  <2>6. last' = "disconnect" /\ Settled' => client' = 0 /\ subscriber' = 0
    BY <2>2, <2>3 DEF Lone, Settled
  <2> QED BY <2>4, <2>5, <2>6 DEF Lone
<1> QED BY <1>3, <1>4, <1>5 DEF Alive

\* No step disturbs what a single call may rely on.
LEMMA LoneStep ==
  ASSUME Inv, Lone, [Next]_vars
  PROVE  Lone'
<1>1. CASE UNCHANGED <<call, server, last, history>>
  BY <1>1 DEF Lone, Settled, server, history
<1>2. CASE Down \/ Up
  BY <1>1, <1>2 DEF Down, Up
<1>3. CASE UNCHANGED vars
  BY <1>1, <1>3 DEF vars
<1>4. \A c \in Call : Connect(c) \/ Disconnect(c) \/ Answer(c) => Lone'
  BY LoneBegins, LoneAnswers
<1>5. \A i \in Client : Alive(i) \/ Break(i) => Lone'
  BY LoneClients
<1> QED BY <1>2, <1>3, <1>4, <1>5 DEF Next, Prompt

\* It holds in every behaviour, beside the invariant.
LEMMA SafeAlone == Spec => []Lone
<1>1. Init => Lone
  BY DEF Init, Lone, Settled
<1>2. Inv /\ Lone /\ [Next]_vars => Lone'
  BY LoneStep
<1> QED BY <1>1, <1>2, Safe, PTL DEF Spec

\* When no call overlapped another and a disconnect has resolved, the cache refers
\* to no client, and every client it made was told to quit or has ended.
THEOREM DisconnectLeavesNothing == Spec => []NothingLeft
<1>1. ASSUME Inv, Lone
      PROVE  NothingLeft
  <2> SUFFICES ASSUME last = "disconnect", Settled, ~tangled
               PROVE  /\ client = 0 /\ subscriber = 0
                      /\ \A i \in Client : net[i] \in Gone \cup {"none"}
    BY DEF NothingLeft
  <2>1. client = 0 /\ subscriber = 0
    BY <1>1 DEF Lone
  <2>2. \A i \in Client : net[i] # "none" => i \in 1 .. made /\ i \notin {client, subscriber}
    BY <1>1, <2>1, MadeClients
  <2>3. \A i \in Client : net[i] \in Gone \cup {"none"}
    BY <1>1, <2>2, Plain DEF NetsFit
  <2> QED BY <2>1, <2>3
<1> QED BY <1>1, Safe, SafeAlone, PTL

\* The step at which a subscribing connect resolves, with no overlapping call.
LEMMA EquippedStep ==
  ASSUME Inv, Lone, [Next]_vars, NEW c \in Call,
         call[c].pc = "subscribe", call'[c] = Idle, last' = "connect", ~tangled
  PROVE  lock' = client' /\ subscriber' \in handler'
<1>1. /\ call[c] # Idle /\ call'[c] # call[c] /\ lock = client
      /\ \A d \in Call : call[d] # Idle => d = c
  BY IdleRecord DEF Lone
<1>2. ASSUME NEW d \in Call, NEW r, call[d] = Idle, call' = [call EXCEPT ![d] = r]
      PROVE  FALSE
  <2>1. call'[c] = call[c]
    BY <1>1, <1>2, Plain
  <2> QED BY <1>1, <2>1
<1>3. ASSUME NEW d \in Call, Connect(d)
      PROVE  FALSE
  <2>1. call[d] = Idle
    BY <1>3 DEF Connect, Begin
  <2>2. \E r : call' = [call EXCEPT ![d] = r]
    BY <1>3 DEF Connect, FindClient, MakeClient, Equip, Wait, Settle
  <2> QED BY <2>1, <2>2, <1>2
<1>4. ASSUME NEW d \in Call, Disconnect(d)
      PROVE  FALSE
  <2>1. call[d] = Idle
    BY <1>4 DEF Disconnect, Begin
  <2>2. \E r : call' = [call EXCEPT ![d] = r]
    BY <1>4, DisconnectDoes DEF Ended, Waits, Asks
  <2> QED BY <2>1, <2>2, <1>2
<1>5. ASSUME NEW d \in Call, Answer(d)
      PROVE  Subscribed(c)
  <2>1. \E pc \in Pc \ {"idle"}, connection \in SUBSET Net : Answered(d, pc, connection)
    BY <1>5 DEF Answer, Subscribed, Unsubscribed, SubscriberGone, ClientGone, QuitAnswered,
                Pc, Quitting, Net
  <2>2. d = c
    BY <1>1, <2>1, Awaited
  <2> QED BY <1>5, <2>2 DEF Answer, Unsubscribed, SubscriberGone, ClientGone, QuitAnswered, Answered
<1>6. ASSUME NEW i \in Client, Alive(i) \/ Break(i)
      PROVE  FALSE
  <2>1. call' # call
    BY <1>1
  <2>2. CASE Open(i) \/ Retry(i)
    BY <2>1, <2>2 DEF Open, Retry
  <2>3. CASE Ready(i)
    <3>1. PICK d \in Call : call[d].pc = "open"
      BY <2>1, <2>3 DEF Ready
    <3>2. d = c
      BY <1>1, <3>1, IdleRecord
    <3> QED BY <3>1, <3>2
  <2>4. CASE Close(i) \/ Break(i)
    <3>1. Lose(i)
      BY <2>4 DEF Close, Break
    <3>2. call'[c] # call[c] => last' = "rejected"
      BY <3>1 DEF Lose
    <3> QED BY <1>1, <3>2
  <2> QED BY <1>6, <2>2, <2>3, <2>4 DEF Alive
<1>7. CASE Subscribed(c)
  <2>1. lock' = lock /\ client' = client /\ subscriber' = subscriber /\ subscriber \in handler'
    BY <1>7 DEF Subscribed
  <2> QED BY <1>1, <2>1
<1>8. CASE Down \/ Up \/ UNCHANGED vars
  BY <1>1, <1>8 DEF Down, Up, vars
<1> QED BY <1>3, <1>4, <1>5, <1>6, <1>7, <1>8 DEF Next, Prompt

\* A connect that subscribed and resolves, with no overlapping call, leaves the
\* lock on the current client and a handler on the current subscriber.
THEOREM FirstConnectIsEquipped == Spec => FirstConnectEquips
<1>1. Inv /\ Lone /\ [Next]_vars =>
        [\A c \in Call : call[c].pc = "subscribe" /\ call'[c] = Idle /\ last' = "connect" /\ ~tangled =>
           lock' = client' /\ subscriber' \in handler']_vars
  BY EquippedStep
<1> QED BY <1>1, Safe, SafeAlone, PTL DEF Spec, FirstConnectEquips

=============================================================================
