------------------------------- MODULE CacheKey -------------------------------
(***************************************************************************)
(* The keys of cached values.  A text is the sequence of its parts between *)
(* colons, so that join(':') concatenates; <<>> stands for an absent type  *)
(* or namespace, <<"">> for the empty text.                                *)
(***************************************************************************)
EXTENDS Naturals, Sequences, SequencesExt

CONSTANT Text(_)   \* the text of an argument: 'null', JSON.stringify or String

Joined(texts) == IF texts = <<>> THEN <<"">> ELSE FlattenSeq(texts)

BuildKey(identifier, namespace, type) == namespace \o type \o identifier

\* Bug: only the first argument is part of the key.
KeyOfFirstArg(method, args, namespace, type) ==
  BuildKey(<<method>> \o Text(args[1]), namespace, type)

BuildKeyFromArgs(method, args, namespace, type) ==
  BuildKey(<<method>> \o Joined([i \in DOMAIN args |-> Text(args[i])]), namespace, type)

\* keyArg: the type and one argument.
KeyOfArg(arg, type) == type \o Text(arg)

\* The first part of a key that has more than one.
ExtractType(key) == IF Len(key) >= 2 THEN <<Head(key)>> ELSE <<>>

===============================================================================
