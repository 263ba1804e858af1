------------------------------ MODULE Serializer ------------------------------
(***************************************************************************)
(* serialize and deserialize, on values as trees.  A node has a kind, a    *)
(* text (of a leaf, or the name of a field) and items: the elements of an  *)
(* array or a set, the entries of a map, the fields of an object, the      *)
(* value of a field.                                                       *)
(***************************************************************************)
EXTENDS Naturals, Sequences, SequencesExt

Leaf(kind, text) == [kind |-> kind, text |-> text, items |-> <<>>]
Node(kind, items) == [kind |-> kind, text |-> "", items |-> items]
Atom(text) == Leaf("atom", text)   \* a string, a number or a boolean
Null == Leaf("null", "")
Undefined == Leaf("undefined", "")
Field(name, value) == [kind |-> "field", text |-> name, items |-> <<value>>]

-----------------------------------------------------------------------------

TypeMarker == [date |-> "__DATE__", bigint |-> "__BIGINT__", undefined |-> "__UNDEFINED__",
               map |-> "__MAP__", set |-> "__SET__"]
Wrapped(kind, value) ==
  Node("object", <<Field("__type", Atom(TypeMarker[kind])), Field("value", value)>>)

\* Bug: the entries of maps and the elements of sets are left as they are.
RECURSIVE PreProcessOutside(_)
PreProcessOutside(v) ==
  LET items == [i \in DOMAIN v.items |-> PreProcessOutside(v.items[i])] IN
  CASE v.kind \in {"date", "bigint"} -> Wrapped(v.kind, Atom(v.text))
    [] v.kind = "undefined" -> Wrapped(v.kind, Null)
    [] v.kind \in {"map", "set"} -> Wrapped(v.kind, Node("array", v.items))
    [] OTHER -> [v EXCEPT !.items = items]

RECURSIVE PreProcess(_)
PreProcess(v) ==
  LET items == [i \in DOMAIN v.items |-> PreProcess(v.items[i])] IN
  CASE v.kind \in {"date", "bigint"} -> Wrapped(v.kind, Atom(v.text))
    [] v.kind = "undefined" -> Wrapped(v.kind, Null)
    [] v.kind \in {"map", "set"} -> Wrapped(v.kind, Node("array", items))
    [] OTHER -> [v EXCEPT !.items = items]

\* JSON.stringify: what has no JSON of its own becomes a string or {}, and an
\* undefined field goes.
RECURSIVE Stringify(_)
Stringify(v) ==
  LET kept == SelectSeq(v.items, LAMBDA f : f.kind # "field" \/ f.items[1] # Undefined)
      items == [i \in DOMAIN kept |-> Stringify(kept[i])]
  IN
  CASE v.kind = "date" -> Atom(v.text)
    [] v.kind = "undefined" -> Null
    [] v.kind \in {"map", "set"} -> Node("object", <<>>)
    [] OTHER -> [v EXCEPT !.items = items]

Serialize(v) == Stringify(PreProcess(v))

-----------------------------------------------------------------------------

Named(v, name) == {i \in DOMAIN v.items : v.items[i].text = name}
ValueOf(v, name) == v.items[CHOOSE i \in Named(v, name) : TRUE].items[1]
IsTypedValue(v) ==
  v.kind = "object" /\ Named(v, "__type") # {} /\ Named(v, "value") # {}

\* JSON.parse's reviver, on a value whose parts are revived.
Reviver(v) ==
  LET kinds == {k \in DOMAIN TypeMarker :
                  IsTypedValue(v) /\ ValueOf(v, "__type") = Atom(TypeMarker[k])}
  IN
  IF kinds = {} THEN v
  ELSE LET kind == CHOOSE k \in kinds : TRUE
           value == ValueOf(v, "value")
       IN CASE kind \in {"date", "bigint"} -> Leaf(kind, value.text)
            [] kind = "undefined" -> Undefined
            [] OTHER -> Node(kind, value.items)

\* Parts are revived before the whole; a field revived to undefined is deleted.
RECURSIVE Deserialize(_)
Deserialize(json) ==
  LET items == [i \in DOMAIN json.items |-> Deserialize(json.items[i])]
      kept == SelectSeq(items, LAMBDA f : f.kind # "field" \/ f.items[1] # Undefined)
  IN Reviver([json EXCEPT !.items = kept])

===============================================================================
