------------------------------- MODULE Methods -------------------------------
(***************************************************************************)
(* A service whose methods are decorated: reading methods with @Cacheable, *)
(* changing methods with @CacheInvalidate or @CachePut.  The original      *)
(* methods read and write a database, with one version per id, the first   *)
(* argument.                                                               *)
(*                                                                         *)
(* Each operation on the cache is one step here; their interleavings are   *)
(* those of Coherence, and getOrFetch those of GetOrFetch.  A read may     *)
(* query the database whenever it found no copy.                           *)
(***************************************************************************)
EXTENDS Naturals, Sequences, Functions

CONSTANTS
  Call,
  Id,                  \* the values of arguments, the first of which is the id
  Type,                \* the type given to the decorators, as a text
  Text(_),             \* the text of an argument
  Styles,              \* the decorators: methods, and how they make keys
  ChangeName,          \* the name of the changing method
  Returned(_, _, _),   \* what a method returns, of its arguments and the version
  Encode(_), Decode(_), \* serialize and deserialize: the text in L2
  MaxWrites, MaxLosses \* bounds: changes of an id, copies that expire

\* How a change follows up in the cache; with a type, it has no other way.
Ways == {"type", "pattern", "generator", "keyArg"}

ASSUME TextAssumption ==
  /\ Type \in Seq(STRING) /\ Len(Type) = 1
  /\ ChangeName \in STRING
  /\ \A i \in Id : Text(i) \in Seq(STRING) /\ Text(i) # <<>>

ASSUME StylesAssumption ==
  Styles \subseteq [methods : SUBSET STRING, args : SUBSET (Seq(Id) \ {<<>>}),
                    read : {"args", "generator"},
                    changes : SUBSET [put : BOOLEAN, by : Ways]]

ASSUME BoundAssumption == MaxWrites \in Nat /\ MaxLosses \in Nat

Key == INSTANCE CacheKey WITH Text <- Text

VARIABLES
  style,      \* the decorators of this service
  db,         \* the version of each id
  call,       \* what each call does
  l1, l2,     \* the copies: values in L1, their JSON in L2
  registry,   \* the keys registered with the type
  losses,
  \* History:
  raced       \* the keys last stored by a call that a change of their id overtook

vars == <<style, db, call, l1, l2, registry, losses, raced>>

Empty == [k \in {} |-> 0]
Idle == [pc |-> "idle", change |-> [put |-> FALSE, by |-> "none"], method |-> "none",
         args |-> <<>>, version |-> 0, crossed |-> FALSE]

Init ==
  /\ style \in Styles
  /\ db = [i \in Id |-> 0]
  /\ call = [c \in Call |-> Idle]
  /\ l1 = Empty /\ l2 = Empty /\ registry = {}
  /\ losses = 0 /\ raced = {}

-----------------------------------------------------------------------------
(***************************************************************************)
(* Keys and values.                                                        *)
(***************************************************************************)

\* What the original method of a call returns.
Result(w) == Returned(w.method, w.args, w.version)

\* A generator of the application agrees with keyArg.
ReadKey(method, args) ==
  IF style.read = "generator" THEN Key!KeyOfArg(args[1], Type)
  ELSE Key!BuildKeyFromArgs(method, args, <<>>, Type)

\* Bug: the argument alone, without the type.
ChangeKeyUntyped(by, args) ==
  IF by \in {"generator", "keyArg"} THEN Key!KeyOfArg(args[1], <<>>)
  ELSE Key!BuildKeyFromArgs(ChangeName, args, <<>>, Type)

ChangeKey(by, args) ==
  IF by \in {"generator", "keyArg"} THEN Key!KeyOfArg(args[1], Type)
  ELSE Key!BuildKeyFromArgs(ChangeName, args, <<>>, Type)

KeyOf(w) == ReadKey(w.method, w.args)

-----------------------------------------------------------------------------
(***************************************************************************)
(* Operations on the cache.                                                *)
(***************************************************************************)

With(store, k, v) == [j \in DOMAIN store \cup {k} |-> IF j = k THEN v ELSE store[j]]

Set(k, v, crossed) ==
  /\ l1' = With(l1, k, v)
  /\ l2' = With(l2, k, Encode(v))
  /\ registry' = registry \cup {k}
  /\ raced' = IF crossed THEN raced \cup {k} ELSE raced \ {k}

Drop(keys, unregistered) ==
  /\ l1' = Restrict(l1, DOMAIN l1 \ keys)
  /\ l2' = Restrict(l2, DOMAIN l2 \ keys)
  /\ registry' = registry \ unregistered
  /\ raced' = raced \ keys

\* deleteByPattern with 'type:*', deleteByType, or invalidate of one key.
Invalidate(by, args) ==
  CASE by = "pattern" -> Drop(DOMAIN l1 \cup DOMAIN l2, DOMAIN l1)
    [] by = "type"    -> Drop(registry, registry)
    [] OTHER          -> Drop({ChangeKey(by, args)}, {ChangeKey(by, args)})

\* get: from L1, or from L2, which fills L1 and registers the key.
Cached(k) == IF k \in DOMAIN l1 THEN l1[k] ELSE Decode(l2[k])
Get(k) ==
  /\ k \in DOMAIN l1 \cup DOMAIN l2
  /\ l1' = With(l1, k, Cached(k))
  /\ registry' = IF k \in DOMAIN l1 THEN registry ELSE registry \cup {k}
  /\ UNCHANGED <<l2, raced>>

-----------------------------------------------------------------------------
(***************************************************************************)
(* Reads: methods with @Cacheable.                                         *)
(***************************************************************************)

Return(calls) == call' = [c \in Call |-> IF c \in calls THEN Idle ELSE call[c]]
Unchanged == UNCHANGED <<style, db, losses>>

\* getOrFetch finds a copy at once, or has to wait for the lock or a fetch.
Read(c, m, a) ==
  /\ call[c] = Idle
  /\ \/ Get(ReadKey(m, a)) /\ UNCHANGED call
     \/ /\ ReadKey(m, a) \notin DOMAIN l1 \cup DOMAIN l2
        /\ call' = [call EXCEPT ![c] = [Idle EXCEPT !.pc = "read", !.method = m, !.args = a]]
        /\ UNCHANGED <<l1, l2, registry, raced>>
  /\ Unchanged

\* The second look, with the lock or after waiting for it in vain.
Hit(c) ==
  /\ call[c].pc = "read"
  /\ Get(KeyOf(call[c]))
  /\ Return({c})
  /\ Unchanged

\* The original method reads the database.
Query(c) ==
  /\ call[c].pc = "read"
  /\ call' = [call EXCEPT ![c].pc = "fetch", ![c].version = db[call[c].args[1]]]
  /\ UNCHANGED <<l1, l2, registry, raced>> /\ Unchanged

\* What it returns is stored and answered, also to reads that joined it.
Fetched(c) ==
  /\ call[c].pc = "fetch"
  /\ Set(KeyOf(call[c]), Result(call[c]), call[c].crossed)
  /\ \E joined \in SUBSET {d \in Call : call[d].pc = "read" /\ KeyOf(call[d]) = KeyOf(call[c])} :
       Return(joined \cup {c})
  /\ Unchanged

\* Without the lock getOrFetch only fetches.
FetchedAlone(c) ==
  /\ call[c].pc = "fetch"
  /\ Return({c})
  /\ UNCHANGED <<l1, l2, registry, raced>> /\ Unchanged

-----------------------------------------------------------------------------
(***************************************************************************)
(* Changes: methods with @CacheInvalidate or @CachePut.                    *)
(***************************************************************************)

\* The original method writes the database first.
Change(c, change, i) ==
  /\ call[c] = Idle
  /\ db[i] < MaxWrites
  /\ db' = [db EXCEPT ![i] = @ + 1]
  /\ \E m \in style.methods :
       call' = [call EXCEPT ![c] = [Idle EXCEPT !.pc = "change", !.change = change,
                  !.method = m, !.args = <<i>>, !.version = db[i] + 1]]
  /\ UNCHANGED <<style, losses, l1, l2, registry, raced>>

\* Then the cache follows, and calls with an older version have been overtaken.
Finish(c) ==
  LET w == call[c] IN
  /\ w.pc = "change"
  /\ \/ w.change.put /\ Set(ChangeKey(w.change.by, w.args), Result(w), w.crossed)
     \/ ~w.change.put /\ Invalidate(w.change.by, w.args)
  /\ call' = [d \in Call |->
       IF d = c THEN Idle
       ELSE [call[d] EXCEPT !.crossed = @ \/ /\ call[d].pc \in {"fetch", "change"}
                                             /\ call[d].args[1] = w.args[1]
                                             /\ call[d].version < w.version]]
  /\ Unchanged

-----------------------------------------------------------------------------

\* Copies expire.
LoseL1(k) ==
  /\ losses < MaxLosses /\ losses' = losses + 1
  /\ k \in DOMAIN l1
  /\ l1' = Restrict(l1, DOMAIN l1 \ {k})
  /\ UNCHANGED <<style, db, call, l2, registry, raced>>

LoseL2(k) ==
  /\ losses < MaxLosses /\ losses' = losses + 1
  /\ k \in DOMAIN l2
  /\ l2' = Restrict(l2, DOMAIN l2 \ {k})
  /\ UNCHANGED <<style, db, call, l1, registry, raced>>

Next ==
  \/ \E c \in Call :
       \/ \E m \in style.methods, a \in style.args : Read(c, m, a)
       \/ Hit(c) \/ Query(c) \/ Fetched(c) \/ FetchedAlone(c)
       \/ \E change \in style.changes, a \in style.args : Change(c, change, a[1])
       \/ Finish(c)
  \/ \E k \in DOMAIN l1 \cup DOMAIN l2 : LoseL1(k) \/ LoseL2(k)

Spec == Init /\ [][Next]_vars

-----------------------------------------------------------------------------
(***************************************************************************)
(* Properties.                                                             *)
(***************************************************************************)

\* Every variable has its type, and every key begins with the type.
TypeOK ==
  /\ style \in Styles
  /\ db \in [Id -> 0 .. MaxWrites]
  /\ \A c \in Call : /\ call[c].pc \in {"idle", "read", "fetch", "change"}
                     /\ call[c].version \in 0 .. MaxWrites
                     /\ call[c].pc = "change" => call[c].change \in style.changes
  /\ \A k \in DOMAIN l1 \cup DOMAIN l2 \cup registry \cup raced : Key!ExtractType(k) = Type
  /\ losses \in 0 .. MaxLosses

\* What a decorated read can be answered, from L1, from L2 or by a fetch it joins,
\* its method returned for these arguments at some time, whatever other methods
\* and arguments are cached.
RightResult ==
  \A m \in style.methods, a \in style.args :
    LET k == ReadKey(m, a)
        fetches == {c \in Call : call[c].pc = "fetch" /\ KeyOf(call[c]) = k}
        answers == {l1[j] : j \in DOMAIN l1 \cap {k}} \cup {Result(call[c]) : c \in fetches}
                   \cup {Decode(l2[j]) : j \in DOMAIN l2 \cap {k}}
    IN answers \subseteq {Returned(m, a, v) : v \in 0 .. db[a[1]]}

\* A value that L1 and L2 both hold is the same from either.
TiersAgree == \A k \in DOMAIN l1 \cap DOMAIN l2 : l1[k] = Decode(l2[k])

\* Once the changes of an id have returned, a copy is current, but for one stored
\* by a call that had its version before a change and stored it afterwards.
OnlyRacesAreStale ==
  \A m \in style.methods, a \in style.args :
    LET k == ReadKey(m, a) IN
    k \in DOMAIN l1 \cup DOMAIN l2 =>
      \/ Cached(k) = Returned(m, a, db[a[1]])
      \/ k \in raced
      \/ \E c \in Call : call[c].pc = "change" /\ call[c].args[1] = a[1]

===============================================================================
