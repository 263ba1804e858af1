------------------------------ MODULE MCMethods ------------------------------
(***************************************************************************)
(* Services for TLC: one with arguments that share an id, one with two     *)
(* methods, one whose results are cached under the id alone, and the       *)
(* service of the README.                                                  *)
(***************************************************************************)
EXTENDS Methods, TLC

CONSTANTS c1, c2, c3

Json == INSTANCE Serializer

UserProfile == <<"user-profile">>
OneText(arg) == <<arg>>
Symmetry == Permutations(Call)

By(put, by) == [put |-> put, by |-> by]

ByType == [methods |-> {"getUser"}, args |-> {<<"1">>, <<"1", "2">>}, read |-> "args",
           changes |-> {By(FALSE, "type")}]
ByPattern == [methods |-> {"getUser", "getPosts"}, args |-> {<<"1">>}, read |-> "args",
              changes |-> {By(FALSE, "pattern")}]
ByKey == [methods |-> {"getUser"}, args |-> {<<"1">>, <<"2">>}, read |-> "generator",
          changes |-> {By(FALSE, "keyArg"), By(FALSE, "generator"), By(TRUE, "keyArg")}]
ReadmeService == [methods |-> {"getUser"}, args |-> {<<"1">>}, read |-> "args",
                  changes |-> {By(FALSE, "keyArg"), By(TRUE, "keyArg")}]

Matching == {ByType, ByPattern, ByKey}
Readme == {ReadmeService}

\* Values with dates, big integers, maps, sets and undefined where they survive.
Contents(version) ==
  LET date == Json!Leaf("date", "2024-01-01")
      entry(k, v) == Json!Node("array", <<k, v>>)
  IN
  CASE version = 0 -> Json!Node("map", <<entry(Json!Atom("born"), date), entry(date, Json!Undefined)>>)
    [] version = 1 -> Json!Node("array", <<Json!Null, Json!Node("set", <<Json!Leaf("bigint", "7"), date>>)>>)
    [] OTHER -> Json!Node("object", <<Json!Field("__type", Json!Atom("user")),
                                      Json!Field("value", Json!Node("map", <<>>))>>)

Value(method, args, version) ==
  Json!Node("object", <<Json!Field("method", Json!Atom(method)),
                        Json!Field("args", Json!Node("array", [i \in DOMAIN args |-> Json!Atom(args[i])])),
                        Json!Field("content", Contents(version))>>)
ToJson(v) == Json!Serialize(v)
FromJson(v) == Json!Deserialize(v)

=============================================================================
