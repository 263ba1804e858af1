---------------------------- MODULE MethodsProofs ----------------------------
(***************************************************************************)
(* Theorems about decorated methods, for any number of calls, methods and  *)
(* ids and any values: the types and the keys of every service, and, of a  *)
(* service whose decorators fit together, that a read is answered with the *)
(* result of its own method and arguments, that both tiers hold the same,  *)
(* and that only overtaken calls leave a stale copy.                       *)
(***************************************************************************)
EXTENDS Methods, FiniteSetTheorems, SequenceTheorems, WellFoundedInduction, TLAPS

(***************************************************************************)
(* Texts and keys.                                                         *)
(***************************************************************************)

\* A set of numbers that is not empty has a least one.
LEMMA Least ==
  ASSUME NEW T, T \subseteq Nat, T # {}
  PROVE  \E n \in T : \A m \in T : n <= m
<1>1. PICK n \in T : \A m \in T : ~ (<<m, n>> \in OpToRel(<, Nat))
  BY NatLessThanWellFounded, WFMin
<1>2. \A m \in T : ~ (m < n)
  BY <1>1 DEF OpToRel
<1> QED BY <1>2

\* Joining texts: the recursive function of FlattenSeq exists.
LEMMA FlattenUnfolds ==
  ASSUME NEW S, NEW seqs \in Seq(Seq(S)), seqs # <<>>
  PROVE  \E f : /\ \A i \in 1 .. Len(seqs) : f[i] = IF i = 1 THEN seqs[i] ELSE f[i-1] \o seqs[i]
               /\ Key!FlattenSeq(seqs) = f[Len(seqs)]
<1> DEFINE n == Len(seqs)
           Flattens(f, k) == f = [i \in 1 .. k |-> IF i = 1 THEN seqs[i] ELSE f[i-1] \o seqs[i]]
           flat == CHOOSE f : Flattens(f, n)
<1>1. n \in Nat /\ n >= 1 /\ \A i \in 1 .. n : seqs[i] \in Seq(S)
  OBVIOUS
<1>2. Key!FlattenSeq(seqs) = flat[n]
  BY <1>1 DEF Key!FlattenSeq
<1>3. \E f : Flattens(f, n)
  <2> DEFINE Bad == {k \in 1 .. n : ~ \E f : Flattens(f, k)}
  <2> SUFFICES ASSUME Bad # {} PROVE FALSE
    <3>1. n \in 1 .. n
      BY <1>1
    <3> HIDE DEF Flattens, n
    <3> QED BY <3>1
  <2>0. Bad \subseteq Nat /\ Bad \subseteq 1 .. n
    <3> HIDE DEF Flattens, n
    <3> QED OBVIOUS
  <2>1. PICK k \in Bad : \A m \in Bad : k <= m
    <3> HIDE DEF Bad
    <3> QED BY <2>0, Least
  <2>2. CASE k = 1
    <3>1. Flattens([i \in 1 .. 1 |-> seqs[i]], 1)
      OBVIOUS
    <3> QED BY <3>1, <2>1, <2>2
  <2>3. CASE k # 1
    <3>1. k \in 1 .. n /\ k - 1 \in 1 .. n /\ k - 1 \notin Bad
      <4> HIDE DEF Bad, n
      <4> QED BY <2>1, <2>0, <2>3, <1>1
    <3>2. PICK f : Flattens(f, k - 1)
      BY <3>1
    <3> DEFINE g == [i \in 1 .. k |-> IF i = k THEN f[k-1] \o seqs[k] ELSE f[i]]
    <3>3. ASSUME NEW i \in 1 .. k
          PROVE  g[i] = IF i = 1 THEN seqs[i] ELSE g[i-1] \o seqs[i]
      <4>1. CASE i = k
        <5>1. g[i] = f[k-1] \o seqs[k] /\ g[k-1] = f[k-1] /\ i # 1
          <6>1. k - 1 \in 1 .. k /\ k - 1 # k
            BY <3>1
          <6> HIDE DEF Flattens
          <6> QED BY <6>1, <4>1, <2>3
        <5> HIDE DEF g, Flattens
        <5> QED BY <5>1, <4>1
      <4>2. CASE i # k
        <5>1. i \in 1 .. (k - 1) /\ (i # 1 => i - 1 \in 1 .. k /\ i - 1 # k)
          BY <4>2, <3>1
        <5>2. f[i] = IF i = 1 THEN seqs[i] ELSE f[i-1] \o seqs[i]
          BY <5>1, <3>2
        <5>3. g[i] = f[i] /\ (i # 1 => g[i-1] = f[i-1])
          BY <5>1, <4>2
        <5> HIDE DEF g, Flattens
        <5> QED BY <5>2, <5>3
      <4> QED BY <4>1, <4>2
    <3>4. Flattens(g, k)
      <4>1. g = [i \in 1 .. k |-> g[i]]
        OBVIOUS
      <4> HIDE DEF g
      <4> QED BY <4>1, <3>3
    <3> HIDE DEF g, Flattens
    <3> QED BY <3>4, <2>1
  <2> QED BY <2>2, <2>3
<1>4. Flattens(flat, n)
  <2> HIDE DEF Flattens
  <2> QED BY <1>3
<1>5. \A i \in 1 .. n : flat[i] = IF i = 1 THEN seqs[i] ELSE flat[i-1] \o seqs[i]
  <2> HIDE DEF flat
  <2> QED BY <1>4
<1> HIDE DEF flat
<1> QED BY <1>2, <1>5

\* Its values are sequences.
LEMMA FlattenedIsText ==
  ASSUME NEW S, NEW seqs \in Seq(Seq(S)), seqs # <<>>
  PROVE  Key!FlattenSeq(seqs) \in Seq(S)
<1> DEFINE n == Len(seqs)
<1>1. n \in Nat /\ n >= 1 /\ \A i \in 1 .. n : seqs[i] \in Seq(S)
  OBVIOUS
<1>2. PICK f : /\ \A i \in 1 .. n : f[i] = IF i = 1 THEN seqs[i] ELSE f[i-1] \o seqs[i]
               /\ Key!FlattenSeq(seqs) = f[n]
  BY FlattenUnfolds
<1> DEFINE Bad == {i \in 1 .. n : f[i] \notin Seq(S)}
<1> SUFFICES ASSUME Bad # {} PROVE FALSE
  BY <1>1, <1>2
<1>3. Bad \subseteq Nat /\ Bad \subseteq 1 .. n
  <2> HIDE DEF n
  <2> QED OBVIOUS
<1>4. PICK i \in Bad : \A m \in Bad : i <= m
  <2> HIDE DEF Bad
  <2> QED BY <1>3, Least
<1>5. i # 1
  BY <1>4, <1>1, <1>2
<1>6. i - 1 \in 1 .. n /\ i - 1 \notin Bad
  BY <1>4, <1>5, <1>1
<1>7. f[i-1] \in Seq(S) /\ seqs[i] \in Seq(S) /\ f[i] = f[i-1] \o seqs[i]
  BY <1>6, <1>5, <1>4, <1>1, <1>2
<1>8. f[i] \in Seq(S)
  BY <1>7, ConcatProperties
<1> QED BY <1>8, <1>4

\* A sequence with one more element.
LEMMA Appended ==
  ASSUME NEW S, NEW g \in Seq(S), NEW t \in Seq(S), NEW i \in Nat, i >= 1,
         Len(g) = i - 1, Len(t) = 1
  PROVE  /\ g \o t \in Seq(S) /\ Len(g \o t) = i
         /\ \A j \in 1 .. (i - 1) : (g \o t)[j] = g[j]
         /\ (g \o t)[i] = t[1]
<1>1. g \o t \in Seq(S) /\ Len(g \o t) = i
  <2>1. g \o t \in Seq(S) /\ Len(g \o t) = Len(g) + Len(t)
    BY ConcatProperties
  <2> QED BY <2>1
<1>2. \A j \in 1 .. i : (g \o t)[j] = IF j <= i - 1 THEN g[j] ELSE t[j - (i - 1)]
  BY ConcatProperties
<1>3. \A j \in 1 .. (i - 1) : j \in 1 .. i /\ j <= i - 1
  OBVIOUS
<1>4. i \in 1 .. i /\ ~ (i <= i - 1) /\ i - (i - 1) = 1
  OBVIOUS
<1> QED BY <1>1, <1>2, <1>3, <1>4

\* Texts of one part each are joined to the sequence of their parts.
LEMMA FlattenedParts ==
  ASSUME NEW S, NEW seqs \in Seq(Seq(S)), seqs # <<>>,
         \A i \in 1 .. Len(seqs) : Len(seqs[i]) = 1
  PROVE  /\ Key!FlattenSeq(seqs) \in Seq(S)
         /\ Len(Key!FlattenSeq(seqs)) = Len(seqs)
         /\ \A j \in 1 .. Len(seqs) : Key!FlattenSeq(seqs)[j] = seqs[j][1]
<1> DEFINE n == Len(seqs)
           Parts(g, i) == g \in Seq(S) /\ Len(g) = i /\ \A j \in 1 .. i : g[j] = seqs[j][1]
<1>1. n \in Nat /\ n >= 1 /\ \A i \in 1 .. n : seqs[i] \in Seq(S) /\ Len(seqs[i]) = 1
  OBVIOUS
<1>2. PICK f : /\ \A i \in 1 .. n : f[i] = IF i = 1 THEN seqs[i] ELSE f[i-1] \o seqs[i]
               /\ Key!FlattenSeq(seqs) = f[n]
  BY FlattenUnfolds
<1> DEFINE Bad == {i \in 1 .. n : ~ Parts(f[i], i)}
<1> SUFFICES ASSUME Bad # {} PROVE FALSE
  BY <1>1, <1>2
<1>3. Bad \subseteq Nat /\ Bad \subseteq 1 .. n
  <2> HIDE DEF n, Parts
  <2> QED OBVIOUS
<1>4. PICK i \in Bad : \A m \in Bad : i <= m
  <2> HIDE DEF Bad
  <2> QED BY <1>3, Least
<1>5. CASE i = 1
  <2>1. f[1] = seqs[1] /\ seqs[1] \in Seq(S) /\ Len(seqs[1]) = 1
    BY <1>1, <1>2
  <2>2. Parts(f[1], 1)
    BY <2>1
  <2> HIDE DEF Parts
  <2> QED BY <2>2, <1>4, <1>5
<1>6. CASE i # 1
  <2>1. i \in 1 .. n /\ i - 1 \in 1 .. n /\ i - 1 \notin Bad
    <3> HIDE DEF Bad, n
    <3> QED BY <1>3, <1>4, <1>6, <1>1
  <2>2. Parts(f[i-1], i - 1) /\ f[i] = f[i-1] \o seqs[i]
    <3> HIDE DEF Parts, n
    <3> QED BY <2>1, <1>2, <1>6
  <2>3. ASSUME NEW g \in Seq(S), NEW t \in Seq(S), Len(g) = i - 1, Len(t) = 1,
               \A j \in 1 .. (i - 1) : g[j] = seqs[j][1], t[1] = seqs[i][1]
        PROVE  Parts(g \o t, i)
    <3>1. /\ g \o t \in Seq(S) /\ Len(g \o t) = i
          /\ \A j \in 1 .. (i - 1) : (g \o t)[j] = g[j]
          /\ (g \o t)[i] = t[1]
      <4>1. i \in Nat /\ i >= 1
        BY <2>1, <1>1
      <4> QED BY <4>1, <2>3, Appended
    <3>2. ASSUME NEW j \in 1 .. i
          PROVE  (g \o t)[j] = seqs[j][1]
      <4>1. CASE j \in 1 .. (i - 1)
        BY <4>1, <3>1, <2>3
      <4>2. CASE j = i
        BY <4>2, <3>1, <2>3
      <4>3. j \in 1 .. (i - 1) \/ j = i
        <5>1. i \in Nat
          BY <2>1
        <5> HIDE DEF n, Bad
        <5> QED BY <5>1
      <4> QED BY <4>1, <4>2, <4>3
    <3> QED BY <3>1, <3>2
  <2>4. Parts(f[i], i)
    <3>1. PICK g : g = f[i-1]
      OBVIOUS
    <3>2. g \in Seq(S) /\ Len(g) = i - 1 /\ \A j \in 1 .. (i - 1) : g[j] = seqs[j][1]
      BY <3>1, <2>2
    <3>3. seqs[i] \in Seq(S) /\ Len(seqs[i]) = 1
      BY <2>1, <1>1
    <3>4. Parts(g \o seqs[i], i)
      <4> HIDE DEF Parts
      <4> QED BY <3>2, <3>3, <2>3
    <3> HIDE DEF Parts
    <3> QED BY <3>1, <3>4, <2>2
  <2> HIDE DEF Parts
  <2> QED BY <2>4, <1>4
<1> QED BY <1>5, <1>6

\* The type of a key is its first part, whatever text follows it.
LEMMA TypeOfText ==
  ASSUME NEW t \in Seq(STRING), t # <<>>
  PROVE  Key!ExtractType(Type \o t) = Type
<1>1. Len(Type) = 1 /\ Type \in Seq(STRING)
  BY TextAssumption
<1>2. Len(t) >= 1 /\ Len(t) \in Nat
  OBVIOUS
<1>3. Type \o t \in Seq(STRING) /\ Len(Type \o t) = 1 + Len(t) /\ (Type \o t)[1] = Type[1]
  <2>1. 1 \in 1 .. (Len(Type) + Len(t)) /\ 1 <= Len(Type)
    BY <1>1, <1>2
  <2> QED BY <2>1, <1>1, ConcatProperties
<1>4. Head(Type \o t) = Type[1] /\ <<Type[1]>> = Type
  BY <1>1, <1>2, <1>3
<1>5. Len(Type \o t) >= 2
  BY <1>2, <1>3
<1> QED BY <1>4, <1>5 DEF Key!ExtractType

\* A text put before another makes a longer one.
LEMMA Prefixed ==
  ASSUME NEW S, NEW x \in S, NEW j \in Seq(S)
  PROVE  <<x>> \o j \in Seq(S) /\ <<x>> \o j # <<>>
<1>1. <<x>> \in Seq(S) /\ Len(<<x>>) = 1
  OBVIOUS
<1>2. <<x>> \o j \in Seq(S) /\ Len(<<x>> \o j) = 1 + Len(j) /\ Len(j) \in Nat
  BY <1>1, ConcatProperties
<1> QED BY <1>2

\* The keys that buildKeyFromArgs makes, and those of keyArg, begin with the type.
LEMMA TypeOfBuiltKey ==
  ASSUME NEW m \in STRING, NEW a \in Seq(Id), a # <<>>
  PROVE  Key!ExtractType(Key!BuildKeyFromArgs(m, a, <<>>, Type)) = Type
<1> DEFINE texts == [i \in DOMAIN a |-> Text(a[i])]
           t == <<m>> \o Key!Joined(texts)
<1>1. texts \in Seq(Seq(STRING)) /\ texts # <<>>
  BY TextAssumption
<1>2. Key!Joined(texts) \in Seq(STRING)
  <2> HIDE DEF texts
  <2>1. Key!FlattenSeq(texts) \in Seq(STRING)
    BY <1>1, FlattenedIsText
  <2> QED BY <2>1, <1>1 DEF Key!Joined
<1>3. t \in Seq(STRING) /\ t # <<>>
  <2> HIDE DEF texts
  <2> QED BY <1>2, Prefixed
<1>4. <<>> \o Type = Type
  BY TextAssumption
<1>5. Key!BuildKeyFromArgs(m, a, <<>>, Type) = Type \o t
  BY <1>4 DEF Key!BuildKeyFromArgs, Key!BuildKey
<1> HIDE DEF t
<1> QED BY <1>3, <1>5, TypeOfText

\* The key of one argument begins with the type.
LEMMA TypeOfKeyOfArg ==
  ASSUME NEW i \in Id
  PROVE  Key!ExtractType(Key!KeyOfArg(i, Type)) = Type
<1>1. Text(i) \in Seq(STRING) /\ Text(i) # <<>>
  BY TextAssumption
<1> QED BY <1>1, TypeOfText DEF Key!KeyOfArg

\* So do the keys of reads and changes.
LEMMA TypeOfKeys ==
  ASSUME NEW a \in Seq(Id), a # <<>>
  PROVE  /\ \A m \in STRING : Key!ExtractType(ReadKey(m, a)) = Type
         /\ \A by : Key!ExtractType(ChangeKey(by, a)) = Type
<1>1. a[1] \in Id
  OBVIOUS
<1>2. Key!ExtractType(Key!KeyOfArg(a[1], Type)) = Type
  BY <1>1, TypeOfKeyOfArg
<1>3. \A m \in STRING : Key!ExtractType(Key!BuildKeyFromArgs(m, a, <<>>, Type)) = Type
  BY TypeOfBuiltKey
<1>4. Key!ExtractType(Key!BuildKeyFromArgs(ChangeName, a, <<>>, Type)) = Type
  BY <1>3, TextAssumption
<1>5. \A m \in STRING : Key!ExtractType(ReadKey(m, a)) = Type
  BY <1>2, <1>3 DEF ReadKey
<1>6. \A by : Key!ExtractType(ChangeKey(by, a)) = Type
  BY <1>2, <1>4 DEF ChangeKey
<1> QED BY <1>5, <1>6

-----------------------------------------------------------------------------
(***************************************************************************)
(* Operations on the cache.                                                *)
(***************************************************************************)

\* Dropping copies leaves the others as they are.
LEMMA Restricted ==
  ASSUME NEW f, NEW S
  PROVE  /\ DOMAIN Restrict(f, DOMAIN f \ S) = DOMAIN f \ S
         /\ \A j \in DOMAIN f \ S : Restrict(f, DOMAIN f \ S)[j] = f[j]
BY DEF Restrict

\* Set stores one copy in each tier, registers its key, and marks only that key.
LEMMA SetStores ==
  ASSUME NEW k, NEW v, NEW x, Set(k, v, x)
  PROVE  /\ DOMAIN l1' = DOMAIN l1 \cup {k} /\ DOMAIN l2' = DOMAIN l2 \cup {k}
         /\ l1'[k] = v /\ l2'[k] = Encode(v)
         /\ \A j \in DOMAIN l1 : j # k => l1'[j] = l1[j]
         /\ \A j \in DOMAIN l2 : j # k => l2'[j] = l2[j]
         /\ registry' = registry \cup {k}
         /\ raced' \subseteq raced \cup {k} /\ raced \subseteq raced' \cup {k}
         /\ x => k \in raced'
<1>1. l1' = With(l1, k, v) /\ l2' = With(l2, k, Encode(v))
  BY DEF Set
<1>2. /\ DOMAIN l1' = DOMAIN l1 \cup {k} /\ l1'[k] = v
      /\ \A j \in DOMAIN l1 : j # k => l1'[j] = l1[j]
  BY <1>1 DEF With
<1>3. /\ DOMAIN l2' = DOMAIN l2 \cup {k} /\ l2'[k] = Encode(v)
      /\ \A j \in DOMAIN l2 : j # k => l2'[j] = l2[j]
  BY <1>1 DEF With
<1>4. /\ registry' = registry \cup {k}
      /\ raced' \subseteq raced \cup {k} /\ raced \subseteq raced' \cup {k}
      /\ x => k \in raced'
  BY DEF Set
<1> QED BY <1>2, <1>3, <1>4

\* Drop removes the copies of its keys from both tiers and leaves the others.
LEMMA DropRemoves ==
  ASSUME NEW K, NEW U, Drop(K, U)
  PROVE  /\ DOMAIN l1' = DOMAIN l1 \ K /\ DOMAIN l2' = DOMAIN l2 \ K
         /\ \A j \in DOMAIN l1 \ K : l1'[j] = l1[j]
         /\ \A j \in DOMAIN l2 \ K : l2'[j] = l2[j]
         /\ registry' = registry \ U /\ raced' = raced \ K
<1>1. DOMAIN l1' = DOMAIN l1 \ K /\ \A j \in DOMAIN l1 \ K : l1'[j] = l1[j]
  BY Restricted DEF Drop
<1>2. DOMAIN l2' = DOMAIN l2 \ K /\ \A j \in DOMAIN l2 \ K : l2'[j] = l2[j]
  BY Restricted DEF Drop
<1> QED BY <1>1, <1>2 DEF Drop

\* Get puts what it answers into L1, and changes no other copy.
LEMMA GetFills ==
  ASSUME NEW k, Get(k)
  PROVE  /\ k \in DOMAIN l1 \cup DOMAIN l2
         /\ DOMAIN l1' = DOMAIN l1 \cup {k} /\ l1'[k] = Cached(k)
         /\ \A j \in DOMAIN l1 : j # k => l1'[j] = l1[j]
         /\ l2' = l2 /\ raced' = raced
         /\ registry \subseteq registry' /\ registry' \subseteq registry \cup {k}
         /\ k \notin DOMAIN l1 => k \in registry'
<1>1. DOMAIN l1' = DOMAIN l1 \cup {k} /\ l1'[k] = Cached(k)
  BY DEF Get, With
<1>2. \A j \in DOMAIN l1 : j # k => l1'[j] = l1[j]
  BY DEF Get, With
<1> QED BY <1>1, <1>2 DEF Get

\* An invalidation drops everything, all registered keys, or one key, and
\* unregisters no key that it leaves in a tier.
LEMMA InvalidateDrops ==
  ASSUME NEW by, NEW args, Invalidate(by, args)
  PROVE  \E K, U : /\ Drop(K, U)
                   /\ U \cap (DOMAIN l1 \cup DOMAIN l2) \subseteq K
                   /\ by = "pattern" => K = DOMAIN l1 \cup DOMAIN l2
                   /\ by = "type" => K = registry
                   /\ by \notin {"pattern", "type"} => K = {ChangeKey(by, args)}
<1>1. CASE by = "pattern"
  <2>1. Drop(DOMAIN l1 \cup DOMAIN l2, DOMAIN l1)
    BY <1>1 DEF Invalidate
  <2> QED BY <2>1, <1>1
<1>2. CASE by = "type"
  <2>1. Drop(registry, registry)
    BY <1>2 DEF Invalidate
  <2> QED BY <2>1, <1>2
<1>3. CASE by \notin {"pattern", "type"}
  <2>1. Drop({ChangeKey(by, args)}, {ChangeKey(by, args)})
    BY <1>3 DEF Invalidate
  <2> QED BY <2>1, <1>3
<1> QED BY <1>1, <1>2, <1>3

-----------------------------------------------------------------------------
(***************************************************************************)
(* Types, of every service.                                                *)
(***************************************************************************)

CallType == [pc : {"idle", "read", "fetch", "change"},
             change : [put : BOOLEAN, by : Ways \cup {"none"}],
             method : STRING \cup {"none"}, args : Seq(Id), version : 0 .. MaxWrites, crossed : BOOLEAN]

\* A read has the method and arguments of a call that the service knows; a change
\* has the first argument of one.
CallFits(w) ==
  /\ w.pc # "idle" => w.method \in style.methods
  /\ w.pc \in {"read", "fetch"} => w.args \in style.args
  /\ w.pc = "change" => /\ w.change \in style.changes
                        /\ \E a \in style.args : w.args = <<a[1]>>

KeysTyped ==
  \A k \in DOMAIN l1 \cup DOMAIN l2 \cup registry \cup raced : Key!ExtractType(k) = Type

Types ==
  /\ style \in Styles
  /\ db \in [Id -> 0 .. MaxWrites]
  /\ call \in [Call -> CallType]
  /\ \A c \in Call : CallFits(call[c])
  /\ KeysTyped
  /\ losses \in 0 .. MaxLosses

\* The decorators of a service have the types that are assumed of all.
LEMMA StyleTypes ==
  ASSUME style \in Styles
  PROVE  /\ style.methods \subseteq STRING
         /\ \A a \in style.args : a \in Seq(Id) /\ a # <<>> /\ a[1] \in Id
         /\ style.changes \subseteq [put : BOOLEAN, by : Ways]
         /\ style.read \in {"args", "generator"}
<1>1. style \in [methods : SUBSET STRING, args : SUBSET (Seq(Id) \ {<<>>}),
                 read : {"args", "generator"},
                 changes : SUBSET [put : BOOLEAN, by : Ways]]
  BY StylesAssumption
<1>2. \A a \in style.args : a \in Seq(Id) /\ a # <<>>
  BY <1>1
<1>3. \A a \in Seq(Id) : a # <<>> => a[1] \in Id
  OBVIOUS
<1> QED BY <1>1, <1>2, <1>3

\* So have the calls: a call that is not idle has an id, and its keys begin with
\* the type.
LEMMA CallTypes ==
  ASSUME Types, NEW c \in Call, call[c].pc # "idle"
  PROVE  /\ call[c] \in CallType
         /\ call[c].method \in style.methods
         /\ call[c].args # <<>> /\ call[c].args[1] \in Id
         /\ \E a \in style.args : call[c].args[1] = a[1]
         /\ Key!ExtractType(KeyOf(call[c])) = Type
         /\ \A by : Key!ExtractType(ChangeKey(by, call[c].args)) = Type
<1>1. call[c] \in CallType /\ CallFits(call[c])
  BY DEF Types
<1>2. call[c].args \in Seq(Id) /\ call[c].pc \in {"read", "fetch", "change"}
  BY <1>1 DEF CallType
<1>3. style \in Styles
  BY DEF Types
<1>4. call[c].method \in style.methods /\ call[c].method \in STRING
  BY <1>1, <1>2, <1>3, StyleTypes DEF CallFits
<1>5. call[c].args # <<>> /\ \E a \in style.args : call[c].args[1] = a[1]
  <2>1. CASE call[c].pc \in {"read", "fetch"}
    <3>1. call[c].args \in style.args
      BY <1>1, <2>1 DEF CallFits
    <3> QED BY <3>1, <1>3, StyleTypes
  <2>2. CASE call[c].pc = "change"
    <3>1. PICK a \in style.args : call[c].args = <<a[1]>>
      BY <1>1, <2>2 DEF CallFits
    <3> QED BY <3>1
  <2> QED BY <2>1, <2>2, <1>2
<1>6. call[c].args[1] \in Id
  BY <1>5, <1>3, StyleTypes
<1>7. /\ Key!ExtractType(ReadKey(call[c].method, call[c].args)) = Type
      /\ \A by : Key!ExtractType(ChangeKey(by, call[c].args)) = Type
  BY <1>2, <1>4, <1>5, TypeOfKeys
<1> QED BY <1>1, <1>4, <1>5, <1>6, <1>7 DEF KeyOf

\* Keys that begin with the type stay so when such a key is stored, dropped or
\* filled in, or leaves one tier.
LEMMA SetTyped ==
  ASSUME KeysTyped, NEW k, NEW v, NEW x, Set(k, v, x), Key!ExtractType(k) = Type
  PROVE  KeysTyped'
<1>1. /\ DOMAIN l1' = DOMAIN l1 \cup {k} /\ DOMAIN l2' = DOMAIN l2 \cup {k}
      /\ registry' = registry \cup {k} /\ raced' \subseteq raced \cup {k}
  BY SetStores
<1> QED BY <1>1 DEF KeysTyped

\* Dropping copies leaves only keys that began with the type.
LEMMA DropTyped ==
  ASSUME KeysTyped, NEW K, NEW U, Drop(K, U)
  PROVE  KeysTyped'
BY DropRemoves DEF KeysTyped

\* A read stores and registers only a key that a tier already holds.
LEMMA GetTyped ==
  ASSUME KeysTyped, NEW k, Get(k)
  PROVE  KeysTyped'
BY GetFills DEF KeysTyped

CallsTyped == call \in [Call -> CallType] /\ \A c \in Call : CallFits(call[c])

\* An idle call fits.
LEMMA IdleTyped == Idle \in CallType /\ Idle.pc = "idle" /\ CallFits(Idle)
<1>1. Idle.pc = "idle"
  BY DEF Idle
<1>2. CallFits(Idle)
  BY <1>1 DEF CallFits
<1>3. 0 \in 0 .. MaxWrites /\ <<>> \in Seq(Id)
  BY BoundAssumption
<1>4. Idle \in CallType
  <2>1. [put |-> FALSE, by |-> "none"] \in [put : BOOLEAN, by : Ways \cup {"none"}]
    OBVIOUS
  <2>2. "none" \in STRING \cup {"none"} /\ FALSE \in BOOLEAN
    OBVIOUS
  <2> QED BY <1>3, <2>1, <2>2 DEF Idle, CallType
<1> QED BY <1>1, <1>2, <1>4

\* Calls that return are idle, and the others go on.
LEMMA ReturnTyped ==
  ASSUME CallsTyped, style' = style, NEW S, Return(S)
  PROVE  CallsTyped'
<1>1. ASSUME NEW c \in Call
      PROVE  call'[c] = Idle \/ call'[c] = call[c]
  BY DEF Return
<1>2. ASSUME NEW c \in Call
      PROVE  call'[c] \in CallType /\ CallFits(call'[c])
  BY <1>1, IdleTyped DEF CallsTyped
<1>3. call' \in [Call -> CallType]
  BY <1>2 DEF Return
<1>4. \A c \in Call : CallFits(call[c])'
  BY <1>2 DEF CallFits
<1> QED BY <1>3, <1>4 DEF CallsTyped

\* A call that takes a fitting record leaves the others as they are.
LEMMA StepTyped ==
  ASSUME CallsTyped, style' = style, NEW c \in Call, NEW w \in CallType, CallFits(w),
         call' = [call EXCEPT ![c] = w]
  PROVE  CallsTyped'
<1>1. call' \in [Call -> CallType] /\ \A d \in Call : call'[d] = w \/ call'[d] = call[d]
  BY DEF CallsTyped
<1>2. \A d \in Call : CallFits(call[d])'
  BY <1>1 DEF CallsTyped, CallFits
<1> QED BY <1>1, <1>2 DEF CallsTyped

\* The types of what one step leaves alone carry over.
LEMMA TypesKept ==
  ASSUME Types, Unchanged, CallsTyped', KeysTyped'
  PROVE  Types'
BY DEF Types, Unchanged, CallsTyped

\* Every step keeps the types, action by action.
LEMMA TypesStep ==
  ASSUME Types, [Next]_vars
  PROVE  Types'
<1> USE DEF Types
<1>0. CallsTyped /\ KeysTyped /\ style \in Styles /\ MaxWrites \in Nat /\ MaxLosses \in Nat
  BY BoundAssumption DEF CallsTyped
<1>1. ASSUME NEW c \in Call, NEW m \in style.methods, NEW a \in style.args, Read(c, m, a)
      PROVE  Types'
  <2>1. CASE Get(ReadKey(m, a)) /\ UNCHANGED call
    <3>1. KeysTyped'
      BY <2>1, <1>0, GetTyped
    <3>2. CallsTyped'
      BY <2>1, <1>0, <1>1 DEF CallsTyped, CallFits, Read, Unchanged
    <3> QED BY <3>1, <3>2, <1>1, TypesKept DEF Read
  <2>2. CASE /\ call' = [call EXCEPT ![c] = [Idle EXCEPT !.pc = "read", !.method = m, !.args = a]]
             /\ UNCHANGED <<l1, l2, registry, raced>>
    <3> DEFINE w == [Idle EXCEPT !.pc = "read", !.method = m, !.args = a]
    <3>1. m \in STRING /\ a \in Seq(Id)
      BY <1>0, StyleTypes
    <3>2. w \in CallType /\ w.pc = "read" /\ w.method = m /\ w.args = a
      BY <3>1, IdleTyped DEF CallType
    <3>3. CallFits(w)
      BY <3>2 DEF CallFits
    <3>4. call' = [call EXCEPT ![c] = w] /\ style' = style
      BY <2>2, <1>1 DEF Read, Unchanged
    <3>5. CallsTyped'
      <4> HIDE DEF w
      <4> QED BY <3>2, <3>3, <3>4, <1>0, StepTyped
    <3>6. KeysTyped'
      BY <2>2 DEF KeysTyped
    <3> QED BY <3>5, <3>6, <1>1, TypesKept DEF Read
  <2> QED BY <2>1, <2>2, <1>1 DEF Read
<1>2. ASSUME NEW c \in Call, Hit(c)
      PROVE  Types'
  <2>1. KeysTyped'
    BY <1>2, <1>0, GetTyped DEF Hit
  <2>2. CallsTyped'
    BY <1>2, <1>0, ReturnTyped DEF Hit, Unchanged
  <2> QED BY <2>1, <2>2, <1>2, TypesKept DEF Hit
<1>3. ASSUME NEW c \in Call, Query(c)
      PROVE  Types'
  <2> DEFINE w == [call[c] EXCEPT !.pc = "fetch", !.version = db[call[c].args[1]]]
  <2>1. call[c] \in CallType /\ CallFits(call[c]) /\ call[c].pc = "read"
    BY <1>3, <1>0 DEF Query
  <2>2. db[call[c].args[1]] \in 0 .. MaxWrites
    BY <2>1, CallTypes
  <2>3. w \in CallType /\ w.pc = "fetch" /\ w.method = call[c].method /\ w.args = call[c].args
    BY <2>1, <2>2 DEF CallType
  <2>4. CallFits(w)
    BY <2>1, <2>3 DEF CallFits
  <2>5. call' = [call EXCEPT ![c] = w] /\ style' = style
    BY <1>3, <1>0 DEF Query, Unchanged
  <2>6. CallsTyped'
    <3> HIDE DEF w
    <3> QED BY <2>3, <2>4, <2>5, <1>0, StepTyped
  <2>7. KeysTyped'
    BY <1>3 DEF KeysTyped, Query
  <2> QED BY <2>6, <2>7, <1>3, TypesKept DEF Query
<1>4. ASSUME NEW c \in Call, Fetched(c)
      PROVE  Types'
  <2>1. Key!ExtractType(KeyOf(call[c])) = Type
    BY <1>4, CallTypes DEF Fetched
  <2>2. KeysTyped'
    BY <2>1, <1>4, <1>0, SetTyped DEF Fetched
  <2>3. CallsTyped'
    <3>1. \E S : Return(S)
      BY <1>4 DEF Fetched
    <3> QED BY <3>1, <1>4, <1>0, ReturnTyped DEF Fetched, Unchanged
  <2> QED BY <2>2, <2>3, <1>4, TypesKept DEF Fetched
<1>5. ASSUME NEW c \in Call, FetchedAlone(c)
      PROVE  Types'
  <2>1. KeysTyped'
    BY <1>5 DEF KeysTyped, FetchedAlone
  <2>2. CallsTyped'
    BY <1>5, <1>0, ReturnTyped DEF FetchedAlone, Unchanged
  <2> QED BY <2>1, <2>2, <1>5, TypesKept DEF FetchedAlone
<1>6. ASSUME NEW c \in Call, NEW change \in style.changes, NEW a \in style.args,
             Change(c, change, a[1])
      PROVE  Types'
  <2> DEFINE i == a[1]
  <2>1. i \in Id /\ change \in [put : BOOLEAN, by : Ways]
    BY <1>0, StyleTypes
  <2>2. PICK m \in style.methods :
          call' = [call EXCEPT ![c] = [Idle EXCEPT !.pc = "change", !.change = change,
                     !.method = m, !.args = <<i>>, !.version = db[i] + 1]]
    BY <1>6 DEF Change
  <2> DEFINE w == [Idle EXCEPT !.pc = "change", !.change = change,
                     !.method = m, !.args = <<i>>, !.version = db[i] + 1]
  <2>3. db[i] \in 0 .. MaxWrites /\ db[i] < MaxWrites /\ db[i] + 1 \in 0 .. MaxWrites
    BY <2>1, <1>0, <1>6 DEF Change
  <2>4. <<i>> \in Seq(Id) /\ m \in STRING
    BY <2>1, <1>0, StyleTypes
  <2>5. /\ w \in CallType /\ w.pc = "change" /\ w.method = m /\ w.args = <<i>>
        /\ w.change = change
    <3> HIDE DEF i
    <3>1. change \in [put : BOOLEAN, by : Ways \cup {"none"}]
      BY <2>1
    <3> QED BY <3>1, <2>3, <2>4, IdleTyped DEF CallType
  <2>6. CallFits(w)
    <3> HIDE DEF w
    <3> QED BY <2>5 DEF CallFits
  <2>7. style' = style /\ losses' = losses /\ KeysTyped'
    BY <1>6 DEF Change, KeysTyped
  <2>8. CallsTyped'
    <3>1. call' = [call EXCEPT ![c] = w]
      BY <2>2
    <3> HIDE DEF w
    <3> QED BY <3>1, <2>5, <2>6, <2>7, <1>0, StepTyped
  <2>9. db' \in [Id -> 0 .. MaxWrites]
    BY <2>3, <1>6 DEF Change
  <2> QED BY <2>7, <2>8, <2>9 DEF CallsTyped
<1>7. ASSUME NEW c \in Call, Finish(c)
      PROVE  Types'
  <2>1. /\ call[c].pc = "change"
        /\ \A by : Key!ExtractType(ChangeKey(by, call[c].args)) = Type
    BY <1>7, CallTypes DEF Finish
  <2>2. KeysTyped'
    <3>1. CASE Set(ChangeKey(call[c].change.by, call[c].args), Result(call[c]), call[c].crossed)
      BY <3>1, <2>1, <1>0, SetTyped
    <3>2. CASE Invalidate(call[c].change.by, call[c].args)
      BY <3>2, <1>0, InvalidateDrops, DropTyped
    <3> QED BY <3>1, <3>2, <1>7 DEF Finish
  <2>3. CallsTyped'
    <3>1. ASSUME NEW d \in Call
          PROVE  /\ call'[d] = Idle \/ /\ call'[d].pc = call[d].pc
                                       /\ call'[d].change = call[d].change
                                       /\ call'[d].method = call[d].method
                                       /\ call'[d].args = call[d].args
                 /\ call'[d] \in CallType
      <4>1. CASE d = c
        BY <4>1, <1>7, IdleTyped DEF Finish
      <4>2. CASE d # c
        <5>1. PICK b \in BOOLEAN : call'[d] = [call[d] EXCEPT !.crossed = b]
          <6>1. call[d].crossed \in BOOLEAN
            BY DEF CallType
          <6> QED BY <6>1, <4>2, <1>7 DEF Finish
        <5>2. call[d] \in CallType
          BY <1>0
        <5> QED BY <5>1, <5>2 DEF CallType
      <4> QED BY <4>1, <4>2
    <3>2. call' \in [Call -> CallType]
      BY <3>1, <1>7 DEF Finish
    <3>3. style' = style
      BY <1>7 DEF Finish, Unchanged
    <3>4. ASSUME NEW d \in Call
          PROVE  CallFits(call[d])'
      <4>1. CallFits(call[d])
        BY <1>0
      <4>2. CASE call'[d] = Idle
        BY <4>2, IdleTyped DEF CallFits
      <4>3. CASE call'[d] # Idle
        BY <4>1, <4>3, <3>1, <3>3 DEF CallFits
      <4> QED BY <4>2, <4>3
    <3> QED BY <3>2, <3>4 DEF CallsTyped
  <2> QED BY <2>2, <2>3, <1>7, TypesKept DEF Finish
<1>8. ASSUME NEW k, LoseL1(k) \/ LoseL2(k)
      PROVE  Types'
  <2>1. /\ DOMAIN l1' \subseteq DOMAIN l1 /\ DOMAIN l2' \subseteq DOMAIN l2
        /\ UNCHANGED <<style, db, call, registry, raced>>
        /\ losses < MaxLosses /\ losses' = losses + 1
    <3>1. CASE LoseL1(k)
      <4>1. DOMAIN Restrict(l1, DOMAIN l1 \ {k}) = DOMAIN l1 \ {k}
        BY Restricted
      <4> QED BY <3>1, <4>1 DEF LoseL1
    <3>2. CASE LoseL2(k)
      <4>1. DOMAIN Restrict(l2, DOMAIN l2 \ {k}) = DOMAIN l2 \ {k}
        BY Restricted
      <4> QED BY <3>2, <4>1 DEF LoseL2
    <3> QED BY <1>8, <3>1, <3>2
  <2>2. KeysTyped'
    BY <2>1 DEF KeysTyped
  <2>3. CallsTyped'
    BY <2>1, <1>0 DEF CallsTyped, CallFits
  <2>4. losses' \in 0 .. MaxLosses
    BY <2>1, <1>0
  <2> QED BY <2>1, <2>2, <2>3, <2>4 DEF CallsTyped
<1>9. CASE UNCHANGED vars
  BY <1>9 DEF vars, KeysTyped, CallFits
<1> QED BY <1>1, <1>2, <1>3, <1>4, <1>5, <1>6, <1>7, <1>8, <1>9 DEF Next

\* The first state has them.
LEMMA TypesInit ==
  ASSUME Init
  PROVE  Types
<1>1. DOMAIN Empty = {}
  BY DEF Empty
<1>2. style \in Styles /\ db \in [Id -> 0 .. MaxWrites] /\ losses \in 0 .. MaxLosses
  BY BoundAssumption DEF Init
<1>3. call \in [Call -> CallType] /\ \A c \in Call : CallFits(call[c])
  BY IdleTyped DEF Init
<1>4. KeysTyped
  BY <1>1 DEF Init, KeysTyped
<1> QED BY <1>2, <1>3, <1>4 DEF Types

\* Every variable keeps its type, and the key of every copy, of every registered
\* key and of every race begins with the type: changes reach only keys of the type.
THEOREM Typed == Spec => []TypeOK
<1>1. Types => TypeOK
  <2> SUFFICES ASSUME Types PROVE TypeOK
    OBVIOUS
  <2>1. \A c \in Call : /\ call[c].pc \in {"idle", "read", "fetch", "change"}
                        /\ call[c].version \in 0 .. MaxWrites
                        /\ call[c].pc = "change" => call[c].change \in style.changes
    BY DEF Types, CallType, CallFits
  <2> QED BY <2>1 DEF Types, TypeOK, KeysTyped
<1> QED BY <1>1, TypesInit, TypesStep, PTL DEF Spec

-----------------------------------------------------------------------------
(***************************************************************************)
(* What an application has to see to: its values survive serialization,    *)
(* its keys tell results apart, and its changes reach the keys of their    *)
(* id.                                                                     *)
(***************************************************************************)

\* The arguments that results are stored for: those of reads, and an id alone.
Given == style.args \cup {<<a[1]>> : a \in style.args}

\* A read or a put may store results of m for a under k.
MayStore(k, m, a) ==
  \/ a \in style.args /\ k = ReadKey(m, a)
  \/ \E change \in style.changes, b \in style.args :
       change.put /\ a = <<b[1]>> /\ k = ChangeKey(change.by, a)

ValuesSurvive ==
  \A m \in style.methods, a \in Given, v \in 0 .. MaxWrites :
    Decode(Encode(Returned(m, a, v))) = Returned(m, a, v)

\* What is stored under the key of a read is of its id, and is what it returns.
KeysTellApart ==
  \A m, n \in style.methods, a \in style.args, b \in Given :
    MayStore(ReadKey(m, a), n, b) =>
      a[1] = b[1] /\ \A v \in 0 .. MaxWrites : Returned(m, a, v) = Returned(n, b, v)

\* A change invalidates the type, or makes the key of every read of its id.
ChangesReach ==
  \A change \in style.changes, m \in style.methods, a \in style.args :
    \/ ~ change.put /\ change.by \in {"type", "pattern"}
    \/ ChangeKey(change.by, <<a[1]>>) = ReadKey(m, a)

\* The decorators stay as they are, and what is said of them holds on.
LEMMA StyleStays ==
  ASSUME [Next]_vars
  PROVE  style' = style
BY DEF Next, vars, Read, Hit, Query, Fetched, FetchedAlone, Change, Finish, LoseL1, LoseL2, Unchanged

\* So what the application has to see to holds on.
LEMMA StyleKept ==
  ASSUME style' = style
  PROVE  /\ Given' = Given
         /\ \A m, a : ReadKey(m, a)' = ReadKey(m, a)
         /\ \A k, m, a : MayStore(k, m, a)' <=> MayStore(k, m, a)
         /\ ValuesSurvive => ValuesSurvive'
         /\ KeysTellApart => KeysTellApart'
         /\ ChangesReach => ChangesReach'
<1>1. Given' = Given
  BY DEF Given
<1>2. \A m, a : ReadKey(m, a)' = ReadKey(m, a)
  BY DEF ReadKey
<1>3. \A k, m, a : MayStore(k, m, a)' <=> MayStore(k, m, a)
  BY DEF MayStore, ReadKey
<1>4. ValuesSurvive => ValuesSurvive'
  BY <1>1 DEF ValuesSurvive
<1>5. ASSUME ChangesReach
      PROVE  ChangesReach'
  <2> SUFFICES ASSUME NEW change \in style.changes, NEW m \in style.methods,
                      NEW a \in style.args
               PROVE  \/ ~ change.put /\ change.by \in {"type", "pattern"}
                      \/ ChangeKey(change.by, <<a[1]>>) = ReadKey(m, a)'
    BY DEF ChangesReach
  <2> QED BY <1>2, <1>5 DEF ChangesReach
<1>6. ASSUME KeysTellApart
      PROVE  KeysTellApart'
  <2> SUFFICES ASSUME NEW m \in style.methods, NEW n \in style.methods,
                      NEW a \in style.args, NEW b \in Given,
                      MayStore(ReadKey(m, a), n, b)'
               PROVE  /\ a[1] = b[1]
                      /\ \A v \in 0 .. MaxWrites : Returned(m, a, v) = Returned(n, b, v)
    BY <1>1 DEF KeysTellApart
  <2>1. MayStore(ReadKey(m, a), n, b)
    BY DEF MayStore, ReadKey
  <2> QED BY <2>1, <1>6 DEF KeysTellApart
<1> QED BY <1>1, <1>2, <1>3, <1>4, <1>5, <1>6

-----------------------------------------------------------------------------
(***************************************************************************)
(* Calls: what they know of the database.                                  *)
(***************************************************************************)

\* A change that is still to reach the cache has written the present version.
Pending(i) ==
  \E d \in Call : call[d].pc = "change" /\ call[d].args[1] = i /\ call[d].version = db[i]

\* A call has a version that was written; if it is an old one, the change that wrote
\* the present one is pending, or has crossed the call.
CallsKnown ==
  \A c \in Call : call[c].pc \in {"fetch", "change"} =>
    /\ call[c].version <= db[call[c].args[1]]
    /\ \/ call[c].version = db[call[c].args[1]]
       \/ call[c].crossed
       \/ Pending(call[c].args[1])

\* A step of a read leaves the database and the changes as they are, and fetches
\* the present version.
Quiet ==
  /\ db' = db
  /\ \A c \in Call :
       \/ call'[c] = call[c]
       \/ call[c].pc # "change" /\ call'[c].pc \in {"idle", "read"}
       \/ /\ call[c].pc # "change" /\ call'[c].pc = "fetch"
          /\ call'[c].version = db[call'[c].args[1]]

\* The steps of a read are quiet: read, hit, query, and storing what was fetched.
LEMMA ReadsAreQuiet ==
  ASSUME Types, NEW c \in Call,
         (\E m \in style.methods, a \in style.args : Read(c, m, a))
           \/ Hit(c) \/ Query(c) \/ Fetched(c) \/ FetchedAlone(c)
  PROVE  Quiet
<1>1. call \in [Call -> CallType] /\ Idle.pc = "idle"
  BY IdleTyped DEF Types
<1>2. ASSUME NEW m \in style.methods, NEW a \in style.args, Read(c, m, a)
      PROVE  Quiet
  <2>1. CASE UNCHANGED call
    BY <2>1, <1>2 DEF Read, Unchanged, Quiet
  <2>2. CASE call' = [call EXCEPT ![c] = [Idle EXCEPT !.pc = "read", !.method = m, !.args = a]]
    <3>1. call'[c].pc = "read" /\ \A d \in Call : d # c => call'[d] = call[d]
      BY <2>2, <1>1 DEF Idle
    <3>2. call[c].pc = "idle" /\ db' = db
      BY <1>2, <1>1 DEF Read, Unchanged
    <3> QED BY <3>1, <3>2 DEF Quiet
  <2> QED BY <2>1, <2>2, <1>2 DEF Read
<1>3. ASSUME NEW S, Return(S), \A d \in S \cap Call : call[d].pc # "change", db' = db
      PROVE  Quiet
  <2>1. ASSUME NEW d \in Call
        PROVE  call'[d] = call[d] \/ (call'[d] = Idle /\ d \in S)
    BY <1>3 DEF Return
  <2> QED BY <2>1, <1>1, <1>3 DEF Quiet
<1>4. CASE Hit(c)
  BY <1>4, <1>3 DEF Hit, Unchanged
<1>5. CASE Query(c)
  <2>1. /\ call'[c].pc = "fetch" /\ call'[c].args = call[c].args
        /\ call'[c].version = db[call[c].args[1]]
        /\ \A d \in Call : d # c => call'[d] = call[d]
    <3>1. call[c] \in CallType
      BY <1>1
    <3> QED BY <3>1, <1>1, <1>5 DEF Query, CallType
  <2>2. call[c].pc = "read" /\ db' = db
    BY <1>5 DEF Query, Unchanged
  <2> QED BY <2>1, <2>2 DEF Quiet
<1>6. CASE Fetched(c)
  <2>1. PICK joined \in SUBSET {d \in Call : call[d].pc = "read" /\ KeyOf(call[d]) = KeyOf(call[c])} :
          Return(joined \cup {c})
    BY <1>6 DEF Fetched
  <2>2. \A d \in (joined \cup {c}) \cap Call : call[d].pc # "change"
    BY <1>6 DEF Fetched
  <2> QED BY <2>1, <2>2, <1>3, <1>6 DEF Fetched, Unchanged
<1>7. CASE FetchedAlone(c)
  BY <1>7, <1>3 DEF FetchedAlone, Unchanged
<1> QED BY <1>2, <1>4, <1>5, <1>6, <1>7

\* A quiet step leaves a pending change pending.
LEMMA QuietKeepsPending ==
  ASSUME Quiet, NEW i, Pending(i)
  PROVE  Pending(i)'
<1>1. PICK d \in Call : call[d].pc = "change" /\ call[d].args[1] = i /\ call[d].version = db[i]
  BY DEF Pending
<1>2. call'[d] = call[d] /\ db' = db
  BY <1>1 DEF Quiet
<1> QED BY <1>1, <1>2 DEF Pending

\* So the calls know after it what they knew, and a new fetch the present version.
LEMMA QuietKeepsKnown ==
  ASSUME Types', Quiet, CallsKnown
  PROVE  CallsKnown'
<1> SUFFICES ASSUME NEW c \in Call, call'[c].pc \in {"fetch", "change"}
             PROVE  /\ call'[c].version <= db'[call'[c].args[1]]
                    /\ \/ call'[c].version = db'[call'[c].args[1]]
                       \/ call'[c].crossed
                       \/ Pending(call[c].args[1])'
  BY DEF CallsKnown
<1>1. CASE call'[c] = call[c]
  <2>1. /\ call[c].version <= db[call[c].args[1]]
        /\ \/ call[c].version = db[call[c].args[1]]
           \/ call[c].crossed
           \/ Pending(call[c].args[1])
    BY <1>1 DEF CallsKnown
  <2>2. db' = db
    BY DEF Quiet
  <2>3. Pending(call[c].args[1]) => Pending(call[c].args[1])'
    <3>1. PICK i : i = call[c].args[1]
      OBVIOUS
    <3>2. Pending(i) => Pending(i)'
      BY QuietKeepsPending
    <3> QED BY <3>1, <3>2, <1>1 DEF Pending
  <2> QED BY <2>1, <2>2, <2>3, <1>1
<1>2. CASE call'[c] # call[c]
  <2>1. call'[c].pc = "fetch" /\ call'[c].version = db[call'[c].args[1]] /\ db' = db
    BY <1>2 DEF Quiet
  <2>2. call'[c].version \in Nat
    BY DEF Types, CallType
  <2>3. call'[c].version = db'[call'[c].args[1]]
    BY <2>1
  <2> QED BY <2>2, <2>3
<1> QED BY <1>1, <1>2

\* A change writes the next version of its id, which it then knows.
LEMMA ChangeWrites ==
  ASSUME Types, NEW c \in Call, NEW change, NEW i \in Id, Change(c, change, i)
  PROVE  /\ call[c].pc = "idle"
         /\ db'[i] = db[i] + 1 /\ \A j \in Id : j # i => db'[j] = db[j]
         /\ call'[c].pc = "change" /\ call'[c].args[1] = i /\ call'[c].version = db'[i]
         /\ \A d \in Call : d # c => call'[d] = call[d]
<1>1. call \in [Call -> CallType] /\ db \in [Id -> 0 .. MaxWrites]
  BY DEF Types
<1>2. PICK m : call' = [call EXCEPT ![c] = [Idle EXCEPT !.pc = "change", !.change = change,
                          !.method = m, !.args = <<i>>, !.version = db[i] + 1]]
  BY DEF Change
<1>3. call[c].pc = "idle"
  BY DEF Change, Idle
<1>4. db'[i] = db[i] + 1 /\ \A j \in Id : j # i => db'[j] = db[j]
  BY <1>1 DEF Change
<1>5. \A d \in Call : d # c => call'[d] = call[d]
  BY <1>1, <1>2
<1>6. call'[c].pc = "change" /\ call'[c].args = <<i>> /\ call'[c].version = db[i] + 1
  BY <1>1, <1>2 DEF Idle
<1> QED BY <1>3, <1>4, <1>5, <1>6

\* A change that ends leaves the other calls, but crosses those of its id that have
\* an older version.
LEMMA FinishCrosses ==
  ASSUME Types, NEW c \in Call, Finish(c)
  PROVE  /\ call[c].pc = "change" /\ call'[c] = Idle /\ db' = db /\ style' = style
         /\ \A d \in Call : d # c =>
              /\ call'[d].pc = call[d].pc /\ call'[d].args = call[d].args
              /\ call'[d].version = call[d].version
              /\ call[d].crossed => call'[d].crossed
              /\ /\ call[d].pc \in {"fetch", "change"}
                 /\ call[d].args[1] = call[c].args[1] /\ call[d].version < call[c].version
                 => call'[d].crossed
<1>1. call \in [Call -> CallType]
  BY DEF Types
<1>2. call[c].pc = "change" /\ call'[c] = Idle /\ db' = db /\ style' = style
  BY DEF Finish, Unchanged
<1>3. ASSUME NEW d \in Call, d # c
      PROVE  /\ call'[d].pc = call[d].pc /\ call'[d].args = call[d].args
             /\ call'[d].version = call[d].version
             /\ call'[d].crossed <=> \/ call[d].crossed
                                     \/ /\ call[d].pc \in {"fetch", "change"}
                                        /\ call[d].args[1] = call[c].args[1]
                                        /\ call[d].version < call[c].version
  <2>1. call[d] \in CallType
    BY <1>1
  <2> DEFINE b == \/ call[d].crossed
                  \/ /\ call[d].pc \in {"fetch", "change"}
                     /\ call[d].args[1] = call[c].args[1]
                     /\ call[d].version < call[c].version
  <2>2. call'[d] = [call[d] EXCEPT !.crossed = b]
    BY <1>3 DEF Finish
  <2>3. /\ call'[d].pc = call[d].pc /\ call'[d].args = call[d].args
        /\ call'[d].version = call[d].version
        /\ call'[d].crossed = b
    <3> HIDE DEF b
    <3> QED BY <2>1, <2>2 DEF CallType
  <2> QED BY <2>3
<1> QED BY <1>2, <1>3

\* So an old version is always one that a pending change overtakes, or one crossed.
LEMMA KnownStep ==
  ASSUME Types, Types', CallsKnown, [Next]_vars
  PROVE  CallsKnown'
<1>1. ASSUME NEW c \in Call,
             (\E m \in style.methods, a \in style.args : Read(c, m, a))
               \/ Hit(c) \/ Query(c) \/ Fetched(c) \/ FetchedAlone(c)
      PROVE  CallsKnown'
  BY <1>1, ReadsAreQuiet, QuietKeepsKnown
<1>2. ASSUME NEW c \in Call, NEW change \in style.changes, NEW a \in style.args,
             Change(c, change, a[1])
      PROVE  CallsKnown'
  <2>1. PICK i \in Id : i = a[1]
    BY StyleTypes DEF Types
  <2>2. /\ db'[i] = db[i] + 1 /\ \A j \in Id : j # i => db'[j] = db[j]
        /\ call'[c].pc = "change" /\ call'[c].args[1] = i /\ call'[c].version = db'[i]
        /\ \A d \in Call : d # c => call'[d] = call[d]
        /\ call[c].pc = "idle"
    BY <2>1, <1>2, ChangeWrites
  <2>3. Pending(i)'
    BY <2>2 DEF Pending
  <2> SUFFICES ASSUME NEW d \in Call, call'[d].pc \in {"fetch", "change"}
               PROVE  /\ call'[d].version <= db'[call'[d].args[1]]
                      /\ \/ call'[d].version = db'[call'[d].args[1]]
                         \/ call'[d].crossed
                         \/ Pending(call[d].args[1])'
    BY DEF CallsKnown
  <2>4. call'[d].version \in Nat /\ db[i] \in Nat
    BY <2>1 DEF Types, CallType
  <2>5. CASE d = c
    BY <2>2, <2>4, <2>5
  <2>6. CASE d # c
    <3>1. call'[d] = call[d]
      BY <2>2, <2>6
    <3>2. PICK j : j = call[d].args[1]
      OBVIOUS
    <3>3. j \in Id
      BY <3>1, <3>2, CallTypes
    <3>4. /\ call[d].version <= db[j]
          /\ call[d].version = db[j] \/ call[d].crossed \/ Pending(j)
      BY <3>1, <3>2 DEF CallsKnown
    <3>5. j # i /\ Pending(j) => Pending(j)'
      <4> SUFFICES ASSUME j # i, Pending(j) PROVE Pending(j)'
        OBVIOUS
      <4>1. PICK e \in Call : call[e].pc = "change" /\ call[e].args[1] = j /\ call[e].version = db[j]
        BY DEF Pending
      <4>2. call'[e] = call[e] /\ db'[j] = db[j]
        BY <4>1, <2>2, <3>3
      <4> QED BY <4>1, <4>2 DEF Pending
    <3>6. call'[d].version <= db'[j]
      BY <3>1, <3>3, <3>4, <2>2, <2>4
    <3>7. call'[d].version = db'[j] \/ call'[d].crossed \/ Pending(j)'
      <4>1. CASE j = i
        BY <4>1, <2>3
      <4>2. CASE j # i
        BY <4>2, <3>1, <3>3, <3>4, <3>5, <2>2
      <4> QED BY <4>1, <4>2
    <3>8. Pending(j)' <=> Pending(call[d].args[1])'
      BY <3>1, <3>2 DEF Pending
    <3> QED BY <3>1, <3>2, <3>6, <3>7, <3>8
  <2> QED BY <2>5, <2>6
<1>3. ASSUME NEW c \in Call, Finish(c)
      PROVE  CallsKnown'
  <2>1. call[c].pc = "change" /\ call'[c] = Idle /\ db' = db
    BY <1>3, FinishCrosses
  <2>2. \A d \in Call : d # c =>
          /\ call'[d].pc = call[d].pc /\ call'[d].args = call[d].args
          /\ call'[d].version = call[d].version
          /\ call[d].crossed => call'[d].crossed
          /\ /\ call[d].pc \in {"fetch", "change"}
             /\ call[d].args[1] = call[c].args[1] /\ call[d].version < call[c].version
             => call'[d].crossed
    BY <1>3, FinishCrosses
  <2> SUFFICES ASSUME NEW d \in Call, call'[d].pc \in {"fetch", "change"}
               PROVE  /\ call'[d].version <= db'[call'[d].args[1]]
                      /\ \/ call'[d].version = db'[call'[d].args[1]]
                         \/ call'[d].crossed
                         \/ Pending(call[d].args[1])'
    BY DEF CallsKnown
  <2>3. d # c
    BY <2>1 DEF Idle
  <2>4. PICK j : j = call[d].args[1]
    OBVIOUS
  <2>5. /\ call'[d].pc = call[d].pc /\ call'[d].args = call[d].args
        /\ call'[d].version = call[d].version
        /\ call[d].crossed => call'[d].crossed
        /\ j = call[c].args[1] /\ call[d].version < call[c].version => call'[d].crossed
    BY <2>2, <2>3, <2>4
  <2>6. /\ call[d].version <= db[j]
        /\ call[d].version = db[j] \/ call[d].crossed \/ Pending(j)
    BY <2>4, <2>5 DEF CallsKnown
  <2>7. CASE Pending(j) /\ call[d].version # db[j]
    <3>1. PICK e \in Call : call[e].pc = "change" /\ call[e].args[1] = j /\ call[e].version = db[j]
      BY <2>7 DEF Pending
    <3>2. CASE e = c
      <4>1. call[d].version \in Nat /\ db[j] \in Nat
        BY <3>1 DEF Types, CallType
      <4>2. call[d].version < call[c].version
        BY <4>1, <3>1, <3>2, <2>6, <2>7
      <4> QED BY <4>2, <3>1, <3>2, <2>1, <2>4, <2>5, <2>6
    <3>3. CASE e # c
      <4>1. call'[e].pc = "change" /\ call'[e].args[1] = j /\ call'[e].version = db'[j]
        BY <3>1, <3>3, <2>1, <2>2
      <4>2. Pending(j)'
        BY <4>1 DEF Pending
      <4>3. Pending(j)' <=> Pending(call[d].args[1])'
        BY <2>4, <2>5 DEF Pending
      <4> QED BY <4>2, <4>3, <2>1, <2>4, <2>5, <2>6
    <3> QED BY <3>2, <3>3
  <2>8. CASE ~ (Pending(j) /\ call[d].version # db[j])
    BY <2>8, <2>1, <2>4, <2>5, <2>6
  <2> QED BY <2>7, <2>8
<1>4. ASSUME UNCHANGED <<db, call>>
      PROVE  CallsKnown'
  BY <1>4 DEF CallsKnown, Pending
<1> QED BY <1>1, <1>2, <1>3, <1>4 DEF Next, vars, LoseL1, LoseL2

-----------------------------------------------------------------------------
(***************************************************************************)
(* Copies: where they come from, and that the tiers agree.                 *)
(***************************************************************************)

\* A result that is stored under k, of a version that was written.
FromSource(k, v) ==
  \E m \in style.methods, a \in Given, n \in 0 .. MaxWrites :
    n <= db[a[1]] /\ MayStore(k, m, a) /\ v = Returned(m, a, n)

Sourced ==
  /\ \A k \in DOMAIN l1 : FromSource(k, l1[k])
  /\ \A k \in DOMAIN l2 : FromSource(k, Decode(l2[k]))

\* Results are stored for ids that reads ask for.
LEMMA GivenIds ==
  ASSUME Types, NEW a \in Given
  PROVE  a[1] \in Id /\ \E b \in style.args : a[1] = b[1]
<1>1. \A b \in style.args : b[1] \in Id
  BY StyleTypes DEF Types
<1>2. CASE a \in style.args
  BY <1>1, <1>2
<1>3. CASE a \in {<<b[1]>> : b \in style.args}
  <2>1. PICK b \in style.args : a = <<b[1]>>
    BY <1>3
  <2>2. a[1] = b[1]
    BY <2>1
  <2> QED BY <1>1, <2>2
<1> QED BY <1>2, <1>3 DEF Given

\* Versions only grow, so what was a result stays one.
LEMMA VersionsGrow ==
  ASSUME Types, Types', [Next]_vars
  PROVE  \A i \in Id : db[i] <= db'[i]
<1>1. \A i \in Id : db[i] \in Nat
  BY DEF Types
<1>2. ASSUME NEW c \in Call, NEW change \in style.changes, NEW a \in style.args,
             Change(c, change, a[1])
      PROVE  \A i \in Id : db[i] <= db'[i]
  <2>1. a[1] \in Id
    BY StyleTypes DEF Types
  <2>2. db' = [db EXCEPT ![a[1]] = @ + 1] /\ db \in [Id -> 0 .. MaxWrites]
    BY <1>2 DEF Change, Types
  <2> QED BY <2>1, <2>2, <1>1
<1>3. CASE db' = db
  BY <1>1, <1>3
<1> QED BY <1>2, <1>3 DEF Next, vars, Read, Hit, Query, Fetched, FetchedAlone, Finish, LoseL1, LoseL2, Unchanged

\* Every step keeps a result a result.
LEMMA SourceStays ==
  ASSUME Types, Types', [Next]_vars, NEW k, NEW v, FromSource(k, v)
  PROVE  FromSource(k, v)'
<1>1. PICK m \in style.methods, a \in Given, n \in 0 .. MaxWrites :
        n <= db[a[1]] /\ MayStore(k, m, a) /\ v = Returned(m, a, n)
  BY DEF FromSource
<1>2. style' = style /\ Given' = Given /\ MayStore(k, m, a)'
  BY <1>1, StyleStays, StyleKept
<1>3. PICK i \in Id : i = a[1]
  BY GivenIds
<1>4. n <= db'[i]
  <2>1. db[i] <= db'[i] /\ db[i] \in Nat /\ db'[i] \in Nat /\ n \in Nat
    BY VersionsGrow DEF Types
  <2> QED BY <2>1, <1>1, <1>3
<1> QED BY <1>1, <1>2, <1>3, <1>4 DEF FromSource

\* What a fetch or a put stores is a result of its call, and survives.
LEMMA FetchStores ==
  ASSUME Types, CallsKnown, NEW c \in Call, call[c].pc = "fetch"
  PROVE  /\ call[c].method \in style.methods /\ call[c].args \in Given
         /\ call[c].version \in 0 .. MaxWrites
         /\ call[c].version <= db[call[c].args[1]]
         /\ MayStore(KeyOf(call[c]), call[c].method, call[c].args)
<1>1. call[c].args \in style.args /\ call[c].method \in style.methods
  BY DEF Types, CallFits
<1> QED BY <1>1 DEF Types, CallType, CallsKnown, Given, MayStore, KeyOf

\* The same of a put, under the key that the change makes.
LEMMA PutStores ==
  ASSUME Types, CallsKnown, NEW c \in Call, call[c].pc = "change", call[c].change.put
  PROVE  /\ call[c].method \in style.methods /\ call[c].args \in Given
         /\ call[c].version \in 0 .. MaxWrites
         /\ call[c].version <= db[call[c].args[1]]
         /\ MayStore(ChangeKey(call[c].change.by, call[c].args), call[c].method, call[c].args)
<1>1. call[c].method \in style.methods /\ call[c].change \in style.changes
  BY DEF Types, CallFits
<1>2. PICK a \in style.args : call[c].args = <<a[1]>>
  BY DEF Types, CallFits
<1>3. call[c].args \in Given
  BY <1>2 DEF Given
<1>4. MayStore(ChangeKey(call[c].change.by, call[c].args), call[c].method, call[c].args)
  BY <1>1, <1>2 DEF MayStore
<1>5. call[c].version \in 0 .. MaxWrites /\ call[c].version <= db[call[c].args[1]]
  BY DEF Types, CallType, CallsKnown
<1> QED BY <1>1, <1>3, <1>4, <1>5

\* What a call with such arguments returned survives serialization.
LEMMA ResultSurvives ==
  ASSUME ValuesSurvive, NEW w, w.method \in style.methods, w.args \in Given,
         w.version \in 0 .. MaxWrites
  PROVE  Decode(Encode(Result(w))) = Result(w)
BY DEF ValuesSurvive, Result

\* A step that stores something stores a result, under a key that it may be stored
\* under.
Storing(k, v) ==
  \E c \in Call :
    /\ k = (IF call[c].pc = "fetch" THEN KeyOf(call[c])
                                    ELSE ChangeKey(call[c].change.by, call[c].args))
    /\ v = Result(call[c])
    /\ call[c].pc = "fetch" \/ (call[c].pc = "change" /\ call[c].change.put)

\* Either way what is stored is a result, and survives.
LEMMA StoringStores ==
  ASSUME Types, CallsKnown, NEW k, NEW v, Storing(k, v)
  PROVE  FromSource(k, v) /\ (ValuesSurvive => Decode(Encode(v)) = v)
<1>1. PICK c \in Call :
        /\ k = (IF call[c].pc = "fetch" THEN KeyOf(call[c])
                                        ELSE ChangeKey(call[c].change.by, call[c].args))
        /\ v = Result(call[c])
        /\ call[c].pc = "fetch" \/ (call[c].pc = "change" /\ call[c].change.put)
  BY DEF Storing
<1>2. /\ call[c].method \in style.methods /\ call[c].args \in Given
      /\ call[c].version \in 0 .. MaxWrites
      /\ call[c].version <= db[call[c].args[1]]
      /\ MayStore(k, call[c].method, call[c].args)
  <2>1. CASE call[c].pc = "fetch"
    BY <2>1, <1>1, FetchStores
  <2>2. CASE call[c].pc # "fetch"
    BY <2>2, <1>1, PutStores
  <2> QED BY <2>1, <2>2
<1>3. FromSource(k, v)
  BY <1>1, <1>2 DEF FromSource, Result
<1>4. ValuesSurvive => Decode(Encode(v)) = v
  BY <1>1, <1>2, ResultSurvives
<1> QED BY <1>3, <1>4

\* Loss of copies of one tier.
Losing ==
  /\ DOMAIN l1' \subseteq DOMAIN l1 /\ DOMAIN l2' \subseteq DOMAIN l2
  /\ \A k \in DOMAIN l1' : l1'[k] = l1[k]
  /\ \A k \in DOMAIN l2' : l2'[k] = l2[k]
  /\ registry' = registry /\ raced' = raced

\* Each step stores one result, drops copies, answers a read, or loses copies.
LEMMA CacheSteps ==
  ASSUME [Next]_vars
  PROVE  \/ \E k, v, x : Storing(k, v) /\ Set(k, v, x)
         \/ \E K, U : Drop(K, U) /\ U \cap (DOMAIN l1 \cup DOMAIN l2) \subseteq K
         \/ \E k : Get(k)
         \/ Losing
<1>1. ASSUME NEW c \in Call, NEW m \in style.methods, NEW a \in style.args, Read(c, m, a)
      PROVE  (\E k : Get(k)) \/ UNCHANGED <<l1, l2, registry, raced>>
  BY <1>1 DEF Read
<1>2. ASSUME NEW c \in Call, Hit(c)
      PROVE  \E k : Get(k)
  BY <1>2 DEF Hit
<1>3. ASSUME NEW c \in Call, Fetched(c)
      PROVE  \E k, v, x : Storing(k, v) /\ Set(k, v, x)
  <2>1. call[c].pc = "fetch" /\ Set(KeyOf(call[c]), Result(call[c]), call[c].crossed)
    BY <1>3 DEF Fetched
  <2>2. Storing(KeyOf(call[c]), Result(call[c]))
    BY <2>1 DEF Storing
  <2> QED BY <2>1, <2>2
<1>4. ASSUME NEW c \in Call, Finish(c)
      PROVE  \/ \E k, v, x : Storing(k, v) /\ Set(k, v, x)
             \/ \E K, U : Drop(K, U) /\ U \cap (DOMAIN l1 \cup DOMAIN l2) \subseteq K
  <2>1. CASE /\ call[c].change.put
             /\ Set(ChangeKey(call[c].change.by, call[c].args), Result(call[c]), call[c].crossed)
    <3>1. Storing(ChangeKey(call[c].change.by, call[c].args), Result(call[c]))
      BY <2>1, <1>4 DEF Storing, Finish
    <3> QED BY <3>1, <2>1
  <2>2. CASE Invalidate(call[c].change.by, call[c].args)
    BY <2>2, InvalidateDrops
  <2> QED BY <2>1, <2>2, <1>4 DEF Finish
<1>5. ASSUME NEW k, LoseL1(k) \/ LoseL2(k)
      PROVE  Losing
  <2>1. CASE LoseL1(k)
    <3>1. /\ l1' = Restrict(l1, DOMAIN l1 \ {k})
          /\ l2' = l2 /\ registry' = registry /\ raced' = raced
      BY <2>1 DEF LoseL1
    <3>2. DOMAIN l1' = DOMAIN l1 \ {k} /\ \A j \in DOMAIN l1 \ {k} : l1'[j] = l1[j]
      BY <3>1 DEF Restrict
    <3> QED BY <3>1, <3>2 DEF Losing
  <2>2. CASE LoseL2(k)
    <3>1. /\ l2' = Restrict(l2, DOMAIN l2 \ {k})
          /\ l1' = l1 /\ registry' = registry /\ raced' = raced
      BY <2>2 DEF LoseL2
    <3>2. DOMAIN l2' = DOMAIN l2 \ {k} /\ \A j \in DOMAIN l2 \ {k} : l2'[j] = l2[j]
      BY <3>1 DEF Restrict
    <3> QED BY <3>1, <3>2 DEF Losing
  <2> QED BY <2>1, <2>2, <1>5
<1>6. ASSUME UNCHANGED <<l1, l2, registry, raced>>
      PROVE  Losing
  BY <1>6 DEF Losing
<1>7. ASSUME NEW c \in Call, Query(c) \/ FetchedAlone(c)
      PROVE  UNCHANGED <<l1, l2, registry, raced>>
  BY <1>7 DEF Query, FetchedAlone
<1>8. ASSUME NEW c \in Call, NEW change, NEW i, Change(c, change, i)
      PROVE  UNCHANGED <<l1, l2, registry, raced>>
  BY <1>8 DEF Change
<1>9. CASE UNCHANGED vars
  BY <1>9, <1>6 DEF vars
<1> QED BY <1>1, <1>2, <1>3, <1>4, <1>5, <1>6, <1>7, <1>8, <1>9 DEF Next

\* A copy that a tier holds after a step was there before, in either tier, or is what
\* the step stores.
LEMMA SourcedStep ==
  ASSUME Types, Types', CallsKnown, ValuesSurvive, Sourced, [Next]_vars
  PROVE  Sourced'
<1>1. \A k, v : FromSource(k, v) => FromSource(k, v)'
  BY SourceStays
<1>2. SUFFICES /\ \A k \in DOMAIN l1' : FromSource(k, l1'[k])
               /\ \A k \in DOMAIN l2' : FromSource(k, Decode(l2'[k]))
  <2>1. ASSUME NEW k \in DOMAIN l1', FromSource(k, l1'[k])
        PROVE  FromSource(k, l1[k])'
    <3>1. PICK v : v = l1'[k]
      OBVIOUS
    <3>2. FromSource(k, v)'
      BY <1>1, <2>1, <3>1
    <3> QED BY <3>1, <3>2 DEF FromSource
  <2>2. ASSUME NEW k \in DOMAIN l2', FromSource(k, Decode(l2'[k]))
        PROVE  FromSource(k, Decode(l2[k]))'
    <3>1. PICK v : v = Decode(l2'[k])
      OBVIOUS
    <3>2. FromSource(k, v)'
      BY <1>1, <2>2, <3>1
    <3> QED BY <3>1, <3>2 DEF FromSource
  <2> QED BY <2>1, <2>2 DEF Sourced
<1>3. ASSUME NEW k, NEW v, NEW x, Storing(k, v), Set(k, v, x)
      PROVE  /\ \A j \in DOMAIN l1' : FromSource(j, l1'[j])
             /\ \A j \in DOMAIN l2' : FromSource(j, Decode(l2'[j]))
  <2>1. FromSource(k, v) /\ Decode(Encode(v)) = v
    BY <1>3, StoringStores
  <2>2. /\ DOMAIN l1' = DOMAIN l1 \cup {k} /\ DOMAIN l2' = DOMAIN l2 \cup {k}
        /\ l1'[k] = v /\ l2'[k] = Encode(v)
        /\ \A j \in DOMAIN l1 : j # k => l1'[j] = l1[j]
        /\ \A j \in DOMAIN l2 : j # k => l2'[j] = l2[j]
    BY <1>3, SetStores
  <2>3. ASSUME NEW j \in DOMAIN l1'
        PROVE  FromSource(j, l1'[j])
    BY <2>1, <2>2 DEF Sourced
  <2>4. ASSUME NEW j \in DOMAIN l2'
        PROVE  FromSource(j, Decode(l2'[j]))
    BY <2>1, <2>2 DEF Sourced
  <2> QED BY <2>3, <2>4
<1>4. ASSUME NEW K, NEW U, Drop(K, U)
      PROVE  /\ \A j \in DOMAIN l1' : FromSource(j, l1'[j])
             /\ \A j \in DOMAIN l2' : FromSource(j, Decode(l2'[j]))
  BY <1>4, DropRemoves DEF Sourced
<1>5. ASSUME NEW k, Get(k)
      PROVE  /\ \A j \in DOMAIN l1' : FromSource(j, l1'[j])
             /\ \A j \in DOMAIN l2' : FromSource(j, Decode(l2'[j]))
  <2>1. /\ k \in DOMAIN l1 \cup DOMAIN l2
        /\ DOMAIN l1' = DOMAIN l1 \cup {k} /\ l1'[k] = Cached(k)
        /\ \A j \in DOMAIN l1 : j # k => l1'[j] = l1[j]
        /\ l2' = l2
    BY <1>5, GetFills
  <2>2. FromSource(k, Cached(k))
    BY <2>1 DEF Cached, Sourced
  <2> QED BY <2>1, <2>2 DEF Sourced
<1>6. ASSUME Losing
      PROVE  /\ \A j \in DOMAIN l1' : FromSource(j, l1'[j])
             /\ \A j \in DOMAIN l2' : FromSource(j, Decode(l2'[j]))
  BY <1>6 DEF Losing, Sourced
<1> QED BY <1>3, <1>4, <1>5, <1>6, CacheSteps

\* Every step keeps the tiers equal: what it stores survives, and what a read fills
\* into L1 is what L2 holds.
LEMMA AgreeStep ==
  ASSUME Types, CallsKnown, ValuesSurvive, TiersAgree, [Next]_vars
  PROVE  TiersAgree'
<1>1. ASSUME NEW k, NEW v, NEW x, Storing(k, v), Set(k, v, x)
      PROVE  TiersAgree'
  <2>1. Decode(Encode(v)) = v
    BY <1>1, StoringStores
  <2>2. /\ DOMAIN l1' = DOMAIN l1 \cup {k} /\ DOMAIN l2' = DOMAIN l2 \cup {k}
        /\ l1'[k] = v /\ l2'[k] = Encode(v)
        /\ \A j \in DOMAIN l1 : j # k => l1'[j] = l1[j]
        /\ \A j \in DOMAIN l2 : j # k => l2'[j] = l2[j]
    BY <1>1, SetStores
  <2> QED BY <2>1, <2>2 DEF TiersAgree
<1>2. ASSUME NEW K, NEW U, Drop(K, U)
      PROVE  TiersAgree'
  BY <1>2, DropRemoves DEF TiersAgree
<1>3. ASSUME NEW k, Get(k)
      PROVE  TiersAgree'
  <2>1. /\ DOMAIN l1' = DOMAIN l1 \cup {k} /\ l1'[k] = Cached(k)
        /\ \A j \in DOMAIN l1 : j # k => l1'[j] = l1[j]
        /\ l2' = l2
    BY <1>3, GetFills
  <2>2. k \in DOMAIN l2 => Cached(k) = Decode(l2[k])
    BY DEF Cached, TiersAgree
  <2> QED BY <2>1, <2>2 DEF TiersAgree
<1>4. ASSUME Losing
      PROVE  TiersAgree'
  BY <1>4 DEF Losing, TiersAgree
<1> QED BY <1>1, <1>2, <1>3, <1>4, CacheSteps

\* Every stored key is registered, so that deleteByType reaches it.
Covered == DOMAIN l1 \cup DOMAIN l2 \subseteq registry

\* Every step registers the keys it stores, and unregisters only keys it drops.
LEMMA CoveredStep ==
  ASSUME Covered, [Next]_vars
  PROVE  Covered'
<1>1. ASSUME NEW k, NEW v, NEW x, Set(k, v, x)
      PROVE  Covered'
  BY <1>1, SetStores DEF Covered
<1>2. ASSUME NEW K, NEW U, Drop(K, U), U \cap (DOMAIN l1 \cup DOMAIN l2) \subseteq K
      PROVE  Covered'
  <2>1. /\ DOMAIN l1' = DOMAIN l1 \ K /\ DOMAIN l2' = DOMAIN l2 \ K
        /\ registry' = registry \ U
    BY <1>2, DropRemoves
  <2> QED BY <2>1, <1>2 DEF Covered
<1>3. ASSUME NEW k, Get(k)
      PROVE  Covered'
  BY <1>3, GetFills DEF Covered
<1>4. ASSUME Losing
      PROVE  Covered'
  BY <1>4 DEF Losing, Covered
<1> QED BY <1>1, <1>2, <1>3, <1>4, CacheSteps

-----------------------------------------------------------------------------
(***************************************************************************)
(* Copies are current, but for races.                                      *)
(***************************************************************************)

Busy(i) == \E c \in Call : call[c].pc = "change" /\ call[c].args[1] = i

Fresh(m, a) ==
  ReadKey(m, a) \in DOMAIN l1 \cup DOMAIN l2 =>
    \/ Cached(ReadKey(m, a)) = Returned(m, a, db[a[1]])
    \/ ReadKey(m, a) \in raced
    \/ Busy(a[1])

\* OnlyRacesAreStale says that every read is fresh.
LEMMA FreshIsOnlyRaces ==
  OnlyRacesAreStale <=> \A m \in style.methods, a \in style.args : Fresh(m, a)
BY DEF OnlyRacesAreStale, Fresh, Busy

\* What a call stores under the key of a read is its present result, or the call
\* was crossed, or a change of the id by another call is pending.
LEMMA StoredIsFresh ==
  ASSUME Types, CallsKnown, KeysTellApart, NEW c \in Call,
         NEW m \in style.methods, NEW a \in style.args,
         \/ call[c].pc = "fetch" /\ KeyOf(call[c]) = ReadKey(m, a)
         \/ /\ call[c].pc = "change" /\ call[c].change.put
            /\ ChangeKey(call[c].change.by, call[c].args) = ReadKey(m, a)
  PROVE  \/ Result(call[c]) = Returned(m, a, db[a[1]])
         \/ call[c].crossed
         \/ \E d \in Call : d # c /\ call[d].pc = "change" /\ call[d].args[1] = a[1]
<1> DEFINE w == call[c]
<1>1. /\ w.method \in style.methods /\ w.args \in Given
      /\ w.version \in 0 .. MaxWrites
      /\ MayStore(ReadKey(m, a), w.method, w.args)
  <2>1. CASE w.pc = "fetch" /\ KeyOf(w) = ReadKey(m, a)
    BY <2>1, FetchStores
  <2>2. CASE /\ w.pc = "change" /\ w.change.put
             /\ ChangeKey(w.change.by, w.args) = ReadKey(m, a)
    BY <2>2, PutStores
  <2> QED BY <2>1, <2>2
<1>2. /\ a[1] = w.args[1]
      /\ Returned(m, a, w.version) = Returned(w.method, w.args, w.version)
  <2> HIDE DEF w
  <2> QED BY <1>1 DEF KeysTellApart
<1>3. w.version = db[a[1]] \/ w.crossed \/ Pending(a[1])
  BY <1>2 DEF CallsKnown
<1>4. CASE w.version = db[a[1]]
  BY <1>2, <1>4 DEF Result
<1>5. CASE w.version # db[a[1]] /\ Pending(a[1])
  <2>1. PICK d \in Call : call[d].pc = "change" /\ call[d].args[1] = a[1] /\ call[d].version = db[a[1]]
    BY <1>5 DEF Pending
  <2>2. d # c
    BY <2>1, <1>5
  <2> QED BY <2>1, <2>2
<1> QED BY <1>3, <1>4, <1>5

\* Answering a read or losing copies changes no copy that is left.
LEMMA CopiesStay ==
  ASSUME TiersAgree, (\E k : Get(k)) \/ Losing
  PROVE  /\ raced' = raced
         /\ \A k \in DOMAIN l1' \cup DOMAIN l2' :
              k \in DOMAIN l1 \cup DOMAIN l2 /\ Cached(k)' = Cached(k)
<1>1. ASSUME NEW j, Get(j)
      PROVE  /\ raced' = raced
             /\ \A k \in DOMAIN l1' \cup DOMAIN l2' :
                  k \in DOMAIN l1 \cup DOMAIN l2 /\ Cached(k)' = Cached(k)
  <2>1. /\ j \in DOMAIN l1 \cup DOMAIN l2
        /\ DOMAIN l1' = DOMAIN l1 \cup {j} /\ l1'[j] = Cached(j)
        /\ \A k \in DOMAIN l1 : k # j => l1'[k] = l1[k]
        /\ l2' = l2 /\ raced' = raced
    BY <1>1, GetFills
  <2>2. ASSUME NEW k \in DOMAIN l1' \cup DOMAIN l2'
        PROVE  k \in DOMAIN l1 \cup DOMAIN l2 /\ Cached(k)' = Cached(k)
    <3>1. CASE k = j
      BY <3>1, <2>1 DEF Cached
    <3>2. CASE k # j
      BY <3>2, <2>1 DEF Cached
    <3> QED BY <3>1, <3>2
  <2> QED BY <2>1, <2>2
<1>2. ASSUME Losing
      PROVE  /\ raced' = raced
             /\ \A k \in DOMAIN l1' \cup DOMAIN l2' :
                  k \in DOMAIN l1 \cup DOMAIN l2 /\ Cached(k)' = Cached(k)
  BY <1>2 DEF Losing, Cached, TiersAgree
<1> QED BY <1>1, <1>2

\* So a read stays fresh where the database and the changes stay.
LEMMA FreshStays ==
  ASSUME TiersAgree, (\E k : Get(k)) \/ Losing, style' = style, Quiet,
         NEW m, NEW a, Fresh(m, a)
  PROVE  Fresh(m, a)'
<1>1. ReadKey(m, a)' = ReadKey(m, a) /\ db' = db
  BY StyleKept DEF Quiet
<1>2. PICK k : k = ReadKey(m, a)
  OBVIOUS
<1>3. /\ raced' = raced
      /\ k \in DOMAIN l1' \cup DOMAIN l2' =>
           k \in DOMAIN l1 \cup DOMAIN l2 /\ Cached(k)' = Cached(k)
  BY CopiesStay
<1>4. Busy(a[1]) => Busy(a[1])'
  BY DEF Busy, Quiet
<1>5. k \in DOMAIN l1 \cup DOMAIN l2 =>
        Cached(k) = Returned(m, a, db[a[1]]) \/ k \in raced \/ Busy(a[1])
  BY <1>2 DEF Fresh
<1>6. SUFFICES ASSUME k \in DOMAIN l1' \cup DOMAIN l2'
               PROVE  \/ Cached(k)' = Returned(m, a, db[a[1]])
                      \/ k \in raced'
                      \/ Busy(a[1])'
  <2>1. Cached(k)' = Cached(ReadKey(m, a))'
    BY <1>1, <1>2 DEF Cached
  <2> QED BY <1>1, <1>2, <2>1 DEF Fresh
<1> QED BY <1>3, <1>4, <1>5, <1>6

\* A step that stores a result leaves the reads of other keys fresh, if the other
\* changes go on.
LEMMA FreshAfterSet ==
  ASSUME Types, CallsKnown, KeysTellApart, style' = style, db' = db,
         NEW c \in Call, NEW k, NEW m \in style.methods, NEW a \in style.args,
         Set(k, Result(call[c]), call[c].crossed),
         \/ call[c].pc = "fetch" /\ k = KeyOf(call[c])
         \/ /\ call[c].pc = "change" /\ call[c].change.put
            /\ k = ChangeKey(call[c].change.by, call[c].args),
         k # ReadKey(m, a) => ~ (call[c].pc = "change" /\ call[c].args[1] = a[1]),
         \A d \in Call : d # c /\ call[d].pc = "change" =>
           call'[d].pc = "change" /\ call'[d].args = call[d].args,
         Fresh(m, a)
  PROVE  Fresh(m, a)'
<1>1. ReadKey(m, a)' = ReadKey(m, a)
  BY StyleKept
<1>2. PICK r : r = ReadKey(m, a)
  OBVIOUS
<1>3. /\ DOMAIN l1' = DOMAIN l1 \cup {k} /\ DOMAIN l2' = DOMAIN l2 \cup {k}
      /\ l1'[k] = Result(call[c])
      /\ \A j \in DOMAIN l1 : j # k => l1'[j] = l1[j]
      /\ \A j \in DOMAIN l2 : j # k => l2'[j] = l2[j]
      /\ raced \subseteq raced' \cup {k}
      /\ call[c].crossed => k \in raced'
  <2>1. raced \subseteq raced' \cup {k} /\ (call[c].crossed => k \in raced')
    BY DEF Set
  <2>2. PICK v : v = Result(call[c])
    OBVIOUS
  <2>3. l1' = With(l1, k, v) /\ l2' = With(l2, k, Encode(v))
    BY <2>2 DEF Set
  <2>4. /\ DOMAIN l1' = DOMAIN l1 \cup {k} /\ l1'[k] = v
        /\ \A j \in DOMAIN l1 : j # k => l1'[j] = l1[j]
    BY <2>3 DEF With
  <2>5. /\ DOMAIN l2' = DOMAIN l2 \cup {k}
        /\ \A j \in DOMAIN l2 : j # k => l2'[j] = l2[j]
    BY <2>3 DEF With
  <2> QED BY <2>1, <2>2, <2>4, <2>5
<1>4. ASSUME NEW d \in Call, d # c, call[d].pc = "change", call[d].args[1] = a[1]
      PROVE  Busy(a[1])'
  <2>1. call'[d].pc = "change" /\ call'[d].args[1] = a[1]
    BY <1>4
  <2> QED BY <2>1 DEF Busy
<1>5. SUFFICES ASSUME r \in DOMAIN l1' \cup DOMAIN l2'
               PROVE  \/ Cached(r)' = Returned(m, a, db[a[1]])
                      \/ r \in raced'
                      \/ Busy(a[1])'
  <2>1. Cached(r)' = Cached(ReadKey(m, a))'
    BY <1>1, <1>2 DEF Cached
  <2> QED BY <1>1, <1>2, <2>1 DEF Fresh
<1>6. CASE r = k
  <2>1. Cached(r)' = Result(call[c])
    BY <1>3, <1>6 DEF Cached
  <2>2. \/ Result(call[c]) = Returned(m, a, db[a[1]])
        \/ call[c].crossed
        \/ \E d \in Call : d # c /\ call[d].pc = "change" /\ call[d].args[1] = a[1]
    <3>1. \/ call[c].pc = "fetch" /\ KeyOf(call[c]) = ReadKey(m, a)
          \/ /\ call[c].pc = "change" /\ call[c].change.put
             /\ ChangeKey(call[c].change.by, call[c].args) = ReadKey(m, a)
      BY <1>2, <1>6
    <3> QED BY <3>1, StoredIsFresh
  <2>3. CASE Result(call[c]) = Returned(m, a, db[a[1]])
    BY <2>1, <2>3
  <2>4. CASE call[c].crossed
    BY <2>4, <1>3, <1>6
  <2>5. CASE \E d \in Call : d # c /\ call[d].pc = "change" /\ call[d].args[1] = a[1]
    BY <2>5, <1>4
  <2> QED BY <2>2, <2>3, <2>4, <2>5
<1>7. CASE r # k
  <2>1. r \in DOMAIN l1 \cup DOMAIN l2 /\ Cached(r)' = Cached(r)
    BY <1>3, <1>5, <1>7 DEF Cached
  <2>2. Cached(r) = Returned(m, a, db[a[1]]) \/ r \in raced \/ Busy(a[1])
    BY <2>1, <1>2 DEF Fresh
  <2>3. r \in raced => r \in raced'
    BY <1>3, <1>7
  <2>4. ASSUME Busy(a[1])
        PROVE  Busy(a[1])'
    <3>1. PICK d \in Call : call[d].pc = "change" /\ call[d].args[1] = a[1]
      BY <2>4 DEF Busy
    <3>2. d # c
      BY <3>1, <1>2, <1>7
    <3> QED BY <3>1, <3>2, <1>4
  <2> QED BY <2>1, <2>2, <2>3, <2>4
<1> QED BY <1>6, <1>7

\* An invalidation leaves no copy of its id: by type or pattern it drops them all, by
\* key the one that the reads of the id have.
LEMMA FreshAfterInvalidate ==
  ASSUME Types, Covered, ChangesReach, style' = style, db' = db,
         NEW c \in Call, NEW m \in style.methods, NEW a \in style.args,
         call[c].pc = "change", ~ call[c].change.put,
         Invalidate(call[c].change.by, call[c].args),
         \A d \in Call : d # c /\ call[d].pc = "change" =>
           call'[d].pc = "change" /\ call'[d].args = call[d].args,
         Fresh(m, a)
  PROVE  Fresh(m, a)'
<1>1. ReadKey(m, a)' = ReadKey(m, a)
  BY StyleKept
<1>2. PICK r : r = ReadKey(m, a)
  OBVIOUS
<1> DEFINE by == call[c].change.by
           args == call[c].args
<1>3. PICK K, U : /\ Drop(K, U)
                  /\ by = "pattern" => K = DOMAIN l1 \cup DOMAIN l2
                  /\ by = "type" => K = registry
                  /\ by \notin {"pattern", "type"} => K = {ChangeKey(by, args)}
  BY InvalidateDrops
<1>4. /\ DOMAIN l1' = DOMAIN l1 \ K /\ DOMAIN l2' = DOMAIN l2 \ K
      /\ \A j \in DOMAIN l1 \ K : l1'[j] = l1[j]
      /\ \A j \in DOMAIN l2 \ K : l2'[j] = l2[j]
      /\ raced' = raced \ K
  BY <1>3, DropRemoves
<1>5. call[c].change \in style.changes /\ \E b \in style.args : args = <<b[1]>>
  BY DEF Types, CallFits
<1>6. SUFFICES ASSUME r \in DOMAIN l1' \cup DOMAIN l2'
               PROVE  \/ Cached(r)' = Returned(m, a, db[a[1]])
                      \/ r \in raced'
                      \/ Busy(a[1])'
  <2>1. Cached(r)' = Cached(ReadKey(m, a))'
    BY <1>1, <1>2 DEF Cached
  <2> QED BY <1>1, <1>2, <2>1 DEF Fresh
<1>7. r \in DOMAIN l1 \cup DOMAIN l2 /\ r \notin K /\ Cached(r)' = Cached(r)
  BY <1>4, <1>6 DEF Cached
<1>8. args[1] # a[1]
  <2> SUFFICES ASSUME args[1] = a[1] PROVE FALSE
    OBVIOUS
  <2>1. by \notin {"pattern", "type"}
    BY <1>3, <1>7 DEF Covered
  <2>2. args = <<a[1]>>
    BY <1>5
  <2>3. ChangeKey(by, <<a[1]>>) = ReadKey(m, a)
    BY <2>1, <1>5 DEF ChangesReach
  <2> HIDE DEF by, args
  <2> QED BY <2>1, <2>2, <2>3, <1>2, <1>3, <1>7
<1>9. Cached(r) = Returned(m, a, db[a[1]]) \/ r \in raced \/ Busy(a[1])
  BY <1>7, <1>2 DEF Fresh
<1>10. ASSUME Busy(a[1])
       PROVE  Busy(a[1])'
  <2>1. PICK d \in Call : call[d].pc = "change" /\ call[d].args[1] = a[1]
    BY <1>10 DEF Busy
  <2>2. call'[d].pc = "change" /\ call'[d].args[1] = a[1]
    BY <2>1, <1>8
  <2> QED BY <2>2 DEF Busy
<1> QED BY <1>4, <1>7, <1>9, <1>10

\* A change makes its id busy, and leaves the cache to the reads of the others.
LEMMA FreshAfterChange ==
  ASSUME Types, style' = style, UNCHANGED <<l1, l2, raced>>,
         NEW c \in Call, NEW change, NEW i \in Id, Change(c, change, i),
         NEW m \in style.methods, NEW a \in style.args, Fresh(m, a)
  PROVE  Fresh(m, a)'
<1>1. ReadKey(m, a)' = ReadKey(m, a)
  BY StyleKept
<1>2. /\ call[c].pc = "idle"
      /\ \A j \in Id : j # i => db'[j] = db[j]
      /\ call'[c].pc = "change" /\ call'[c].args[1] = i
      /\ \A d \in Call : d # c => call'[d] = call[d]
  BY ChangeWrites
<1>3. a[1] \in Id
  BY StyleTypes DEF Types
<1>4. CASE a[1] = i
  BY <1>2, <1>4 DEF Fresh, Busy
<1>5. CASE a[1] # i
  <2>1. db'[a[1]] = db[a[1]]
    BY <1>2, <1>3, <1>5
  <2>2. Busy(a[1]) => Busy(a[1])'
    BY <1>2 DEF Busy
  <2>3. Cached(ReadKey(m, a))' = Cached(ReadKey(m, a))
    BY <1>1 DEF Cached
  <2>4. SUFFICES ASSUME ReadKey(m, a) \in DOMAIN l1 \cup DOMAIN l2
                 PROVE  \/ Cached(ReadKey(m, a)) = Returned(m, a, db[a[1]])
                        \/ ReadKey(m, a) \in raced
                        \/ Busy(a[1])'
    BY <1>1, <2>1, <2>3 DEF Fresh
  <2> QED BY <2>2, <2>4 DEF Fresh
<1> QED BY <1>4, <1>5

\* Every step keeps a read fresh, action by action.
LEMMA FreshStep ==
  ASSUME Types, CallsKnown, Covered, TiersAgree, KeysTellApart, ChangesReach, [Next]_vars,
         NEW m \in style.methods, NEW a \in style.args, Fresh(m, a)
  PROVE  Fresh(m, a)'
<1>0. style' = style
  BY StyleStays
<1>1. ASSUME NEW c \in Call, NEW n \in style.methods, NEW b \in style.args, Read(c, n, b)
      PROVE  Fresh(m, a)'
  <2>1. Quiet
    BY <1>1, ReadsAreQuiet
  <2>2. (\E k : Get(k)) \/ Losing
    BY <1>1 DEF Read, Losing
  <2> QED BY <2>1, <2>2, <1>0, FreshStays
<1>2. ASSUME NEW c \in Call, Hit(c) \/ Query(c) \/ FetchedAlone(c)
      PROVE  Fresh(m, a)'
  <2>1. Quiet
    BY <1>2, ReadsAreQuiet
  <2>2. (\E k : Get(k)) \/ Losing
    BY <1>2 DEF Hit, Query, FetchedAlone, Losing
  <2> QED BY <2>1, <2>2, <1>0, FreshStays
<1>3. ASSUME NEW c \in Call, Fetched(c)
      PROVE  Fresh(m, a)'
  <2>1. Quiet
    BY <1>3, ReadsAreQuiet
  <2>2. \A d \in Call : d # c /\ call[d].pc = "change" =>
          call'[d].pc = "change" /\ call'[d].args = call[d].args
    BY <2>1 DEF Quiet
  <2>3. call[c].pc = "fetch" /\ Set(KeyOf(call[c]), Result(call[c]), call[c].crossed)
    BY <1>3 DEF Fetched
  <2>4. PICK k : k = KeyOf(call[c])
    OBVIOUS
  <2>5. Set(k, Result(call[c]), call[c].crossed)
    BY <2>3, <2>4
  <2>6. db' = db /\ ~ (call[c].pc = "change" /\ call[c].args[1] = a[1])
    BY <2>1, <2>3 DEF Quiet
  <2> QED BY <2>2, <2>3, <2>4, <2>5, <2>6, <1>0, FreshAfterSet
<1>4. ASSUME NEW c \in Call, NEW change \in style.changes, NEW b \in style.args,
             Change(c, change, b[1])
      PROVE  Fresh(m, a)'
  <2>1. b[1] \in Id
    BY StyleTypes DEF Types
  <2>2. UNCHANGED <<l1, l2, raced>>
    BY <1>4 DEF Change
  <2> QED BY <2>1, <2>2, <1>0, <1>4, FreshAfterChange
<1>5. ASSUME NEW c \in Call, Finish(c)
      PROVE  Fresh(m, a)'
  <2>1. call[c].pc = "change" /\ db' = db
    BY <1>5, FinishCrosses
  <2>2. \A d \in Call : d # c /\ call[d].pc = "change" =>
          call'[d].pc = "change" /\ call'[d].args = call[d].args
    BY <1>5, FinishCrosses
  <2>3. CASE ~ call[c].change.put /\ Invalidate(call[c].change.by, call[c].args)
    BY <2>1, <2>2, <2>3, <1>0, FreshAfterInvalidate
  <2>4. CASE /\ call[c].change.put
             /\ Set(ChangeKey(call[c].change.by, call[c].args), Result(call[c]), call[c].crossed)
    <3>1. PICK k : k = ChangeKey(call[c].change.by, call[c].args)
      OBVIOUS
    <3>2. Set(k, Result(call[c]), call[c].crossed)
      BY <2>4, <3>1
    <3>3. ASSUME call[c].args[1] = a[1]
          PROVE  k = ReadKey(m, a)
      <4>1. call[c].change \in style.changes /\ \E b \in style.args : call[c].args = <<b[1]>>
        BY <2>1 DEF Types, CallFits
      <4>2. call[c].args = <<a[1]>>
        BY <4>1, <3>3
      <4>3. ChangeKey(call[c].change.by, <<a[1]>>) = ReadKey(m, a)
        BY <4>1, <2>4 DEF ChangesReach
      <4> QED BY <4>2, <4>3, <3>1
    <3> QED BY <2>1, <2>2, <2>4, <3>1, <3>2, <3>3, <1>0, FreshAfterSet
  <2> QED BY <2>3, <2>4, <1>5 DEF Finish
<1>6. ASSUME UNCHANGED <<style, db, call>>, Losing
      PROVE  Fresh(m, a)'
  <2>1. Quiet
    BY <1>6 DEF Quiet
  <2> QED BY <2>1, <1>6, FreshStays
<1>7. ASSUME NEW k, LoseL1(k) \/ LoseL2(k)
      PROVE  Fresh(m, a)'
  <2>1. UNCHANGED <<style, db, call, registry, raced>>
    BY <1>7 DEF LoseL1, LoseL2
  <2>2. CASE LoseL1(k)
    <3>1. l1' = Restrict(l1, DOMAIN l1 \ {k}) /\ l2' = l2
      BY <2>2 DEF LoseL1
    <3>2. DOMAIN l1' = DOMAIN l1 \ {k} /\ \A j \in DOMAIN l1 \ {k} : l1'[j] = l1[j]
      BY <3>1 DEF Restrict
    <3>3. Losing
      BY <2>1, <3>1, <3>2 DEF Losing
    <3> QED BY <3>3, <2>1, <1>6
  <2>3. CASE LoseL2(k)
    <3>1. l2' = Restrict(l2, DOMAIN l2 \ {k}) /\ l1' = l1
      BY <2>3 DEF LoseL2
    <3>2. DOMAIN l2' = DOMAIN l2 \ {k} /\ \A j \in DOMAIN l2 \ {k} : l2'[j] = l2[j]
      BY <3>1 DEF Restrict
    <3>3. Losing
      BY <2>1, <3>1, <3>2 DEF Losing
    <3> QED BY <3>3, <2>1, <1>6
  <2> QED BY <2>2, <2>3, <1>7
<1>8. CASE UNCHANGED vars
  BY <1>8, <1>6 DEF vars, Losing
<1> QED BY <1>1, <1>2, <1>3, <1>4, <1>5, <1>7, <1>8 DEF Next

-----------------------------------------------------------------------------
(***************************************************************************)
(* What decorated methods are answered.                                    *)
(***************************************************************************)

Knowing == Types /\ CallsKnown /\ Covered

\* The types, what calls know and what is registered, of every service.
LEMMA Knows == Spec => []Knowing
<1>1. Init => Knowing
  <2> SUFFICES ASSUME Init PROVE Knowing
    OBVIOUS
  <2>1. \A c \in Call : call[c] = Idle
    BY DEF Init
  <2>2. CallsKnown
    BY <2>1, IdleTyped DEF CallsKnown
  <2>3. Covered
    BY DEF Init, Covered, Empty
  <2> QED BY <2>2, <2>3, TypesInit DEF Knowing
<1>2. Knowing /\ [Next]_vars => Knowing'
  <2> SUFFICES ASSUME Knowing, [Next]_vars PROVE Knowing'
    OBVIOUS
  <2> USE DEF Knowing
  <2>1. Types'
    BY TypesStep
  <2> QED BY <2>1, KnownStep, CoveredStep
<1> QED BY <1>1, <1>2, PTL DEF Spec

\* Where values survive, it does not matter which tier a copy is read from. (That they
\* survive is what TiersAgree is about; here it is assumed.)
LEMMA TiersAreEqual == Spec /\ ValuesSurvive => []TiersAgree
<1>1. Init => TiersAgree
  BY DEF Init, TiersAgree, Empty
<1>2. Knowing /\ ValuesSurvive /\ TiersAgree /\ [Next]_vars => TiersAgree'
  BY AgreeStep DEF Knowing
<1>3. ValuesSurvive /\ [Next]_vars => ValuesSurvive'
  BY StyleStays, StyleKept
<1> QED BY <1>1, <1>2, <1>3, Knows, PTL DEF Spec

\* Where values survive, every copy is a result.
LEMMA SourcesKnown == Spec /\ ValuesSurvive => []Sourced
<1>1. Init => Sourced
  BY DEF Init, Sourced, Empty
<1>2. Knowing /\ Knowing' /\ ValuesSurvive /\ Sourced /\ [Next]_vars => Sourced'
  BY SourcedStep DEF Knowing
<1>3. ValuesSurvive /\ [Next]_vars => ValuesSurvive'
  BY StyleStays, StyleKept
<1> QED BY <1>1, <1>2, <1>3, Knows, PTL DEF Spec

\* Where keys tell results apart, what is stored under the key of a read is a result
\* of that read.
LEMMA SourceIsResult ==
  ASSUME Types, KeysTellApart, NEW m \in style.methods, NEW a \in style.args,
         NEW v, FromSource(ReadKey(m, a), v)
  PROVE  v \in {Returned(m, a, n) : n \in 0 .. db[a[1]]}
<1>1. PICK k \in style.methods, b \in Given, n \in 0 .. MaxWrites :
        n <= db[b[1]] /\ MayStore(ReadKey(m, a), k, b) /\ v = Returned(k, b, n)
  BY DEF FromSource
<1>2. a[1] = b[1] /\ Returned(m, a, n) = Returned(k, b, n)
  BY <1>1 DEF KeysTellApart
<1>3. db[a[1]] \in Nat
  BY StyleTypes DEF Types
<1> QED BY <1>1, <1>2, <1>3

\* So are then all answers: copies of both tiers, and fetches that reads join.
LEMMA AnswersAreRight ==
  ASSUME Types, CallsKnown, Sourced, KeysTellApart
  PROVE  RightResult
<1> SUFFICES ASSUME NEW m \in style.methods, NEW a \in style.args
             PROVE  /\ \A j \in DOMAIN l1 \cap {ReadKey(m, a)} :
                         l1[j] \in {Returned(m, a, v) : v \in 0 .. db[a[1]]}
                    /\ \A c \in Call : call[c].pc = "fetch" /\ KeyOf(call[c]) = ReadKey(m, a) =>
                         Result(call[c]) \in {Returned(m, a, v) : v \in 0 .. db[a[1]]}
                    /\ \A j \in DOMAIN l2 \cap {ReadKey(m, a)} :
                         Decode(l2[j]) \in {Returned(m, a, v) : v \in 0 .. db[a[1]]}
  BY DEF RightResult
<1>1. ASSUME NEW j \in DOMAIN l1 \cap {ReadKey(m, a)}
      PROVE  l1[j] \in {Returned(m, a, v) : v \in 0 .. db[a[1]]}
  <2>1. FromSource(ReadKey(m, a), l1[j])
    BY DEF Sourced
  <2> QED BY <2>1, SourceIsResult
<1>2. ASSUME NEW c \in Call, call[c].pc = "fetch", KeyOf(call[c]) = ReadKey(m, a)
      PROVE  Result(call[c]) \in {Returned(m, a, v) : v \in 0 .. db[a[1]]}
  <2>1. FromSource(ReadKey(m, a), Result(call[c]))
    BY <1>2, FetchStores DEF FromSource, Result
  <2> QED BY <2>1, SourceIsResult
<1>3. ASSUME NEW j \in DOMAIN l2 \cap {ReadKey(m, a)}
      PROVE  Decode(l2[j]) \in {Returned(m, a, v) : v \in 0 .. db[a[1]]}
  <2>1. FromSource(ReadKey(m, a), Decode(l2[j]))
    BY DEF Sourced
  <2> QED BY <2>1, SourceIsResult
<1> QED BY <1>1, <1>2, <1>3

\* If moreover its keys tell results apart, every answer to a decorated read, from
\* L1, from L2 or by a fetch it joins, is what its own method returned for its own
\* arguments at some time.
THEOREM AnswersAreResults == Spec /\ ValuesSurvive /\ KeysTellApart => []RightResult
<1>1. Knowing /\ Sourced /\ KeysTellApart => RightResult
  BY AnswersAreRight DEF Knowing
<1>2. KeysTellApart /\ [Next]_vars => KeysTellApart'
  BY StyleStays, StyleKept
<1> QED BY <1>1, <1>2, Knows, SourcesKnown, PTL DEF Spec

\* If its changes also reach the keys of their id, then, once the changes of an id
\* have returned, every copy is current but those that a call stored which a change
\* overtook.
THEOREM StaleByRacesOnly ==
  Spec /\ ValuesSurvive /\ KeysTellApart /\ ChangesReach => []OnlyRacesAreStale
<1>1. Init => OnlyRacesAreStale
  BY DEF Init, OnlyRacesAreStale, Empty
<1>2. /\ Knowing /\ TiersAgree /\ KeysTellApart /\ ChangesReach
      /\ OnlyRacesAreStale /\ [Next]_vars
      => OnlyRacesAreStale'
  <2> SUFFICES ASSUME Knowing, TiersAgree, KeysTellApart, ChangesReach,
                      OnlyRacesAreStale, [Next]_vars
               PROVE  OnlyRacesAreStale'
    OBVIOUS
  <2>1. \A m \in style.methods, a \in style.args : Fresh(m, a)
    BY FreshIsOnlyRaces
  <2>2. \A m \in style.methods, a \in style.args : Fresh(m, a)'
    BY <2>1, FreshStep DEF Knowing
  <2>3. style' = style
    BY StyleStays
  <2> QED BY <2>2, <2>3 DEF Fresh, Busy, OnlyRacesAreStale
<1>3. /\ KeysTellApart /\ [Next]_vars => KeysTellApart'
      /\ ChangesReach /\ [Next]_vars => ChangesReach'
  BY StyleStays, StyleKept
<1> QED BY <1>1, <1>2, <1>3, Knows, TiersAreEqual, PTL DEF Spec

-----------------------------------------------------------------------------
(***************************************************************************)
(* Which services fit: where the text of an argument has no colon and      *)
(* tells arguments apart, the keys of buildKeyFromArgs fit changes by type *)
(* or pattern, and the keys of an id alone fit changes of that key.        *)
(***************************************************************************)

NoColons == \A i \in Id : Len(Text(i)) = 1
TextsDiffer == \A i, j \in Id : Text(i) = Text(j) => i = j

\* A text put before another is found before its parts.
LEMMA PrefixedParts ==
  ASSUME NEW S, NEW x \in S, NEW t \in Seq(S)
  PROVE  /\ Len(<<x>> \o t) = 1 + Len(t)
         /\ (<<x>> \o t)[1] = x
         /\ \A j \in 1 .. Len(t) : (<<x>> \o t)[j + 1] = t[j]
<1>1. <<x>> \in Seq(S) /\ Len(<<x>>) = 1 /\ Len(t) \in Nat
  OBVIOUS
<1>2. Len(<<x>> \o t) = 1 + Len(t)
  BY <1>1, ConcatProperties
<1>3. \A j \in 1 .. 1 + Len(t) : (<<x>> \o t)[j] = IF j <= 1 THEN <<x>>[j] ELSE t[j - 1]
  BY <1>1, ConcatProperties
<1>4. (<<x>> \o t)[1] = x
  BY <1>1, <1>3
<1>5. \A j \in 1 .. Len(t) : (<<x>> \o t)[j + 1] = t[j]
  <2> SUFFICES ASSUME NEW j \in 1 .. Len(t) PROVE (<<x>> \o t)[j + 1] = t[j]
    OBVIOUS
  <2>1. j + 1 \in 1 .. 1 + Len(t) /\ ~ (j + 1 <= 1) /\ (j + 1) - 1 = j
    BY <1>1
  <2> QED BY <2>1, <1>3
<1> QED BY <1>2, <1>4, <1>5

\* Texts after one part, as after the type, are the same if the whole is.
LEMMA PartCancels ==
  ASSUME NEW S, NEW part \in Seq(S), Len(part) = 1,
         NEW s \in Seq(S), NEW t \in Seq(S), part \o s = part \o t
  PROVE  s = t
<1>1. PICK x \in S : x = part[1]
  OBVIOUS
<1>3. part = <<x>>
  BY <1>1
<1>4. Len(s) = Len(t) /\ Len(s) \in Nat /\ Len(t) \in Nat
  <2>1. Len(<<x>> \o s) = 1 + Len(s) /\ Len(<<x>> \o t) = 1 + Len(t)
    BY PrefixedParts
  <2>2. Len(s) \in Nat /\ Len(t) \in Nat
    OBVIOUS
  <2> QED BY <2>1, <2>2, <1>3
<1>5. \A j \in 1 .. Len(s) : s[j] = t[j]
  <2>1. /\ \A j \in 1 .. Len(s) : (<<x>> \o s)[j + 1] = s[j]
        /\ \A j \in 1 .. Len(t) : (<<x>> \o t)[j + 1] = t[j]
    BY PrefixedParts
  <2> QED BY <2>1, <1>3, <1>4
<1> QED BY <1>4, <1>5, SeqEqual

\* The parts of a key that buildKeyFromArgs makes.
LEMMA BuiltKeyParts ==
  ASSUME NoColons, NEW m \in STRING, NEW a \in Seq(Id), a # <<>>
  PROVE  \E t \in Seq(STRING) :
           /\ Key!BuildKeyFromArgs(m, a, <<>>, Type) = Type \o t
           /\ Len(t) = 1 + Len(a) /\ t[1] = m
           /\ \A j \in 1 .. Len(a) : t[j + 1] = Text(a[j])[1]
<1> DEFINE texts == [i \in DOMAIN a |-> Text(a[i])]
<1>1. /\ texts \in Seq(Seq(STRING)) /\ texts # <<>> /\ Len(texts) = Len(a)
      /\ \A i \in 1 .. Len(a) : texts[i] = Text(a[i])
  <2>1. texts \in Seq(Seq(STRING)) /\ texts # <<>>
    <3>1. DOMAIN a = 1 .. Len(a) /\ Len(a) \in Nat /\ \A i \in 1 .. Len(a) : a[i] \in Id
      OBVIOUS
    <3>2. \A i \in 1 .. Len(a) : Text(a[i]) \in Seq(STRING)
      BY <3>1, TextAssumption
    <3>3. texts \in [1 .. Len(a) -> Seq(STRING)]
      BY <3>1, <3>2
    <3>4. texts \in Seq(Seq(STRING))
      BY <3>1, <3>3
    <3>5. DOMAIN texts # {}
      BY <3>1
    <3> QED BY <3>4, <3>5
  <2>2. Len(texts) = Len(a) /\ \A i \in 1 .. Len(a) : texts[i] = Text(a[i])
    OBVIOUS
  <2> HIDE DEF texts
  <2> QED BY <2>1, <2>2
<1>2. \A i \in 1 .. Len(texts) : Len(texts[i]) = 1
  <2> SUFFICES ASSUME NEW i \in 1 .. Len(a) PROVE Len(Text(a[i])) = 1
    BY <1>1
  <2> QED BY DEF NoColons
<1>3. PICK j : j = Key!Joined(texts)
  OBVIOUS
<1>4. /\ j \in Seq(STRING) /\ Len(j) = Len(a)
      /\ \A i \in 1 .. Len(a) : j[i] = Text(a[i])[1]
  <2> HIDE DEF texts
  <2>1. j = Key!FlattenSeq(texts)
    BY <1>1, <1>3 DEF Key!Joined
  <2>2. /\ Key!FlattenSeq(texts) \in Seq(STRING)
        /\ Len(Key!FlattenSeq(texts)) = Len(texts)
        /\ \A i \in 1 .. Len(texts) : Key!FlattenSeq(texts)[i] = texts[i][1]
    BY <1>1, <1>2, FlattenedParts
  <2> QED BY <2>1, <2>2, <1>1
<1>5. PICK t : t = <<m>> \o j
  OBVIOUS
<1>6. t \in Seq(STRING)
  BY <1>4, <1>5, Prefixed
<1>7. Len(t) = 1 + Len(j) /\ t[1] = m /\ \A i \in 1 .. Len(j) : t[i + 1] = j[i]
  BY <1>4, <1>5, PrefixedParts
<1>8. Key!BuildKeyFromArgs(m, a, <<>>, Type) = Type \o t
  <2>1. <<>> \o Type = Type
    BY TextAssumption
  <2>2. Key!BuildKeyFromArgs(m, a, <<>>, Type) = <<>> \o Type \o (<<m>> \o Key!Joined(texts))
    BY DEF Key!BuildKeyFromArgs, Key!BuildKey
  <2> HIDE DEF texts
  <2> QED BY <2>1, <2>2, <1>3, <1>5
<1> HIDE DEF texts
<1> QED BY <1>4, <1>6, <1>7, <1>8

\* Without colons in the texts of arguments, buildKeyFromArgs gives no two calls the
\* same key: not of two methods, and not with two lists of arguments.
THEOREM BuiltKeysDiffer ==
  ASSUME NoColons, TextsDiffer,
         NEW m \in STRING, NEW a \in Seq(Id), a # <<>>,
         NEW n \in STRING, NEW b \in Seq(Id), b # <<>>,
         Key!BuildKeyFromArgs(m, a, <<>>, Type) = Key!BuildKeyFromArgs(n, b, <<>>, Type)
  PROVE  m = n /\ a = b
<1>1. PICK s \in Seq(STRING) :
        /\ Key!BuildKeyFromArgs(m, a, <<>>, Type) = Type \o s
        /\ Len(s) = 1 + Len(a) /\ s[1] = m
        /\ \A j \in 1 .. Len(a) : s[j + 1] = Text(a[j])[1]
  BY BuiltKeyParts
<1>2. PICK t \in Seq(STRING) :
        /\ Key!BuildKeyFromArgs(n, b, <<>>, Type) = Type \o t
        /\ Len(t) = 1 + Len(b) /\ t[1] = n
        /\ \A j \in 1 .. Len(b) : t[j + 1] = Text(b[j])[1]
  BY BuiltKeyParts
<1>3. s = t
  <2>1. Type \o s = Type \o t
    BY <1>1, <1>2
  <2>2. Type \in Seq(STRING) /\ Len(Type) = 1
    BY TextAssumption
  <2> QED BY <2>1, <2>2, PartCancels
<1>4. Len(a) = Len(b)
  <2>1. Len(a) \in Nat /\ Len(b) \in Nat
    OBVIOUS
  <2> QED BY <2>1, <1>1, <1>2, <1>3
<1>5. ASSUME NEW j \in 1 .. Len(a)
      PROVE  a[j] = b[j]
  <2>1. a[j] \in Id /\ b[j] \in Id
    BY <1>4
  <2>2. Text(a[j])[1] = Text(b[j])[1]
    BY <1>1, <1>2, <1>3, <1>4
  <2>3. /\ Text(a[j]) \in Seq(STRING) /\ Len(Text(a[j])) = 1
        /\ Text(b[j]) \in Seq(STRING) /\ Len(Text(b[j])) = 1
    BY <2>1, TextAssumption DEF NoColons
  <2>4. ASSUME NEW u \in Seq(STRING), NEW v \in Seq(STRING), Len(u) = 1, Len(v) = 1, u[1] = v[1]
        PROVE  u = v
    BY <2>4, SeqEqual
  <2>5. Text(a[j]) = Text(b[j])
    BY <2>2, <2>3, <2>4
  <2> QED BY <2>1, <2>5 DEF TextsDiffer
<1>6. a = b
  BY <1>4, <1>5, SeqEqual
<1> QED BY <1>1, <1>2, <1>3, <1>6

\* Reads under buildKeyFromArgs, changes by type or pattern.
BuiltKeys ==
  /\ style.read = "args"
  /\ \A change \in style.changes : ~ change.put /\ change.by \in {"type", "pattern"}

\* Reads of one method under the key of their id, changes and puts by that key.
IdKeys ==
  /\ style.read = "generator"
  /\ \A m, n \in style.methods : m = n
  /\ \A a \in style.args : Len(a) = 1
  /\ \A change \in style.changes : change.put => change.by \in {"generator", "keyArg"}

\* Keys of buildKeyFromArgs tell results apart, as they tell calls apart.
LEMMA BuiltKeysFit ==
  ASSUME Types, TextsDiffer, NoColons, BuiltKeys
  PROVE  KeysTellApart /\ ChangesReach
<1>1. ChangesReach
  BY DEF ChangesReach, BuiltKeys
<1>2. KeysTellApart
  <2> SUFFICES ASSUME NEW m \in style.methods, NEW n \in style.methods,
                      NEW a \in style.args, NEW b \in Given, MayStore(ReadKey(m, a), n, b)
               PROVE  m = n /\ a = b
    BY DEF KeysTellApart
  <2>1. b \in style.args /\ ReadKey(m, a) = ReadKey(n, b)
    BY DEF MayStore, BuiltKeys
  <2>2. Key!BuildKeyFromArgs(m, a, <<>>, Type) = Key!BuildKeyFromArgs(n, b, <<>>, Type)
    BY <2>1 DEF ReadKey, BuiltKeys
  <2>3. /\ m \in STRING /\ n \in STRING
        /\ a \in Seq(Id) /\ a # <<>> /\ b \in Seq(Id) /\ b # <<>>
    BY <2>1, StyleTypes DEF Types
  <2> QED BY <2>2, <2>3, BuiltKeysDiffer
<1> QED BY <1>1, <1>2

\* Keys of the id tell results apart where one method has only the id as argument.
LEMMA IdKeysFit ==
  ASSUME Types, TextsDiffer, IdKeys
  PROVE  KeysTellApart /\ ChangesReach
<1>1. \A a \in style.args : a \in Seq(Id) /\ a = <<a[1]>> /\ a[1] \in Id
  <2> SUFFICES ASSUME NEW a \in style.args PROVE a \in Seq(Id) /\ a = <<a[1]>> /\ a[1] \in Id
    OBVIOUS
  <2>1. a \in Seq(Id) /\ Len(a) = 1 /\ a[1] \in Id
    BY StyleTypes DEF Types, IdKeys
  <2> QED BY <2>1
<1>2. ASSUME NEW i \in Id, NEW j \in Id, Key!KeyOfArg(i, Type) = Key!KeyOfArg(j, Type)
      PROVE  i = j
  <2>1. Type \o Text(i) = Type \o Text(j)
    BY <1>2 DEF Key!KeyOfArg
  <2>2. /\ Type \in Seq(STRING) /\ Len(Type) = 1
        /\ Text(i) \in Seq(STRING) /\ Text(j) \in Seq(STRING)
    BY TextAssumption
  <2>3. Text(i) = Text(j)
    BY <2>1, <2>2, PartCancels
  <2> QED BY <2>3 DEF TextsDiffer
<1>3. \A m, a : ReadKey(m, a) = Key!KeyOfArg(a[1], Type)
  BY DEF ReadKey, IdKeys
<1>4. \A by, a : by \in {"generator", "keyArg"} => ChangeKey(by, a) = Key!KeyOfArg(a[1], Type)
  BY DEF ChangeKey
<1>5. ChangesReach
  <2> SUFFICES ASSUME NEW change \in style.changes, NEW m \in style.methods, NEW a \in style.args
               PROVE  \/ ~ change.put /\ change.by \in {"type", "pattern"}
                      \/ ChangeKey(change.by, <<a[1]>>) = ReadKey(m, a)
    BY DEF ChangesReach
  <2>1. change.by \in Ways
    BY StyleTypes DEF Types
  <2>2. CASE change.by \in {"generator", "keyArg"}
    <3>1. <<a[1]>>[1] = a[1]
      OBVIOUS
    <3> QED BY <3>1, <2>2, <1>3, <1>4
  <2>3. CASE change.by \in {"type", "pattern"}
    <3>1. ~ change.put
      BY <2>3 DEF IdKeys
    <3> QED BY <3>1, <2>3
  <2> QED BY <2>1, <2>2, <2>3 DEF Ways
<1>6. KeysTellApart
  <2> SUFFICES ASSUME NEW m \in style.methods, NEW n \in style.methods,
                      NEW a \in style.args, NEW b \in Given, MayStore(ReadKey(m, a), n, b)
               PROVE  m = n /\ a = b
    BY DEF KeysTellApart
  <2>1. b \in style.args
    BY <1>1 DEF Given
  <2>2. Key!KeyOfArg(a[1], Type) = Key!KeyOfArg(b[1], Type)
    <3>1. CASE ReadKey(m, a) = ReadKey(n, b)
      BY <3>1, <1>3
    <3>2. CASE \E change \in style.changes : change.put /\ ReadKey(m, a) = ChangeKey(change.by, b)
      <4>1. PICK change \in style.changes : change.put /\ ReadKey(m, a) = ChangeKey(change.by, b)
        BY <3>2
      <4>2. change.by \in {"generator", "keyArg"}
        BY <4>1 DEF IdKeys
      <4> QED BY <4>1, <4>2, <1>3, <1>4
    <3> QED BY <3>1, <3>2 DEF MayStore
  <2>3. a[1] = b[1]
    BY <2>1, <2>2, <1>1, <1>2
  <2>4. a = b
    BY <2>1, <2>3, <1>1
  <2> QED BY <2>4 DEF IdKeys
<1> QED BY <1>5, <1>6

\* Of two kinds of services the keys fit: with arguments whose texts tell them apart,
\* and contain no colon where buildKeyFromArgs joins them, a service of either kind
\* whose values survive answers right, and is stale by races only.
THEOREM ServicesThatFit ==
  Spec /\ ValuesSurvive /\ TextsDiffer /\ ((BuiltKeys /\ NoColons) \/ IdKeys)
    => [](RightResult /\ OnlyRacesAreStale)
<1>1. Init /\ TextsDiffer /\ ((BuiltKeys /\ NoColons) \/ IdKeys) => KeysTellApart /\ ChangesReach
  BY TypesInit, BuiltKeysFit, IdKeysFit
<1> QED BY <1>1, AnswersAreResults, StaleByRacesOnly, PTL DEF Spec

\* In the service of the README a change never makes the key of a read: a read is
\* cached under its method's name and its arguments, a change reaches for its id.
THEOREM KeyedChangesMiss ==
  ASSUME style \in Styles, NoColons, style.read = "args",
         NEW by \in {"generator", "keyArg"}, NEW m \in style.methods, NEW a \in style.args
  PROVE  ChangeKey(by, <<a[1]>>) # ReadKey(m, a)
<1> SUFFICES ASSUME ChangeKey(by, <<a[1]>>) = ReadKey(m, a) PROVE FALSE
  OBVIOUS
<1>1. m \in STRING /\ a \in Seq(Id) /\ a # <<>> /\ a[1] \in Id
  BY StyleTypes
<1>2. PICK t \in Seq(STRING) :
        Key!BuildKeyFromArgs(m, a, <<>>, Type) = Type \o t /\ Len(t) = 1 + Len(a)
  BY <1>1, BuiltKeyParts
<1>3. Key!KeyOfArg(a[1], Type) = Type \o t
  <2>1. <<a[1]>>[1] = a[1]
    OBVIOUS
  <2> QED BY <2>1, <1>2 DEF ChangeKey, ReadKey
<1>4. /\ Text(a[1]) \in Seq(STRING) /\ Len(Text(a[1])) = 1
      /\ Type \in Seq(STRING) /\ Len(Type) = 1
  BY <1>1, TextAssumption DEF NoColons
<1>5. Text(a[1]) = t
  BY <1>3, <1>4, PartCancels DEF Key!KeyOfArg
<1>6. Len(t) = 1
  BY <1>4, <1>5
<1>7. PICK n \in Nat : n = Len(a) /\ n >= 1
  <2>1. Len(a) \in Nat /\ Len(a) >= 1
    BY <1>1
  <2> QED BY <2>1
<1>8. 1 = 1 + n
  BY <1>2, <1>6, <1>7
<1> QED BY <1>7, <1>8

==============================================================================
