----------------------------- MODULE MCLRUCache -----------------------------
(***************************************************************************)
(* Small instances of LRUCache: one key more than the store has room for,  *)
(* so that a set evicts, and TTLs of 0 (expired at once), 1 and 2 ticks.   *)
(***************************************************************************)
EXTENDS LRUCache, TLC

KeySymmetry == Permutations(Key)

=============================================================================
