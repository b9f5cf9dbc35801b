--------------------------- MODULE MCRecordTopology ---------------------------
(***************************************************************************)
(* A store with a cache before it, and behind it a replica and an older    *)
(* store that answer when it misses.  MCShapes has the other compositions, *)
(* and this one with callers that do not wait for one another.             *)
(***************************************************************************)
EXTENDS RecordTopology, TLC

CacheTargets == {"store", "cache", "replica", "old"}
CachePosition == [store |-> 1, cache |-> 2, replica |-> 3, old |-> 4]
CacheRoles == [store |-> "authority", cache |-> "dependent", replica |-> "dependent",
               old |-> "fallback"]
CacheLookups == [store |-> "never", cache |-> "before", replica |-> "after", old |-> "after"]

\* Callers are alike: each makes every operation.
Symmetry == Permutations(Client)
Everyone == [c \in Client |-> OpNames]
=============================================================================
