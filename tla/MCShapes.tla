------------------------------ MODULE MCShapes ------------------------------
(***************************************************************************)
(* Several compositions in one run: shape says which of them a behaviour is   *)
(* about.  Each is an instance of RecordTopology with its own targets and  *)
(* its own callers, over the same variables.                               *)
(***************************************************************************)
EXTENDS Naturals, FiniteSets, TLC

CONSTANTS Client, Key, MaxId

VARIABLES shape, held, op, did, keys, id, todo, slot, puts, seen, won, got, out,
          nextId, fails, last, past, owner

vars == <<shape, held, op, did, keys, id, todo, slot, puts, seen, won, got, out,
          nextId, fails, last, past, owner>>

OneKey == {CHOOSE k \in Key : TRUE}
Doing(names) == [c \in Client |-> names]
Everything == {"write", "delete", "insert", "update", "get"}

\* A store with a cache before it, and behind it a required replica and an older
\* store that answer when it misses; callers race, and what raises may have had
\* its effect.
Race == INSTANCE RecordTopology WITH
    Target <- {"store", "cache", "replica", "old"},
    Position <- [store |-> 1, cache |-> 2, replica |-> 3, old |-> 4],
    RoleOf <- [store |-> "authority", cache |-> "dependent", replica |-> "dependent",
               old |-> "fallback"],
    LookupOf <- [store |-> "never", cache |-> "before", replica |-> "after", old |-> "after"],
    Parts <- {}, Fill <- {"store", "cache"}, Required <- {"replica"},
    Key <- OneKey, Ops <- Doing(Everything), Optional <- {},
    Exclusive <- FALSE, PartialCalls <- TRUE, MaxFails <- 1

\* store.mirror(...): batches of several keys, written conditionally.
Batch == INSTANCE RecordTopology WITH
    Target <- {"primary", "copy"},
    Position <- [primary |-> 1, copy |-> 2],
    RoleOf <- [primary |-> "authority", copy |-> "dependent"],
    LookupOf <- [primary |-> "never", copy |-> "never"],
    Parts <- {}, Fill <- {}, Required <- {"copy"},
    Ops <- Doing({"insert", "delete"}), Optional <- {},
    Exclusive <- FALSE, PartialCalls <- FALSE, MaxFails <- 0

\* zip_with(commit_part="row", after_commit=("lines",), row, body, lines), whose
\* callers are given the operations named.
Zip(names) == INSTANCE RecordTopology WITH
    Target <- {"body", "row", "lines"},
    Position <- [body |-> 1, row |-> 2, lines |-> 3],
    RoleOf <- [body |-> "component", row |-> "authority", lines |-> "dependent"],
    LookupOf <- [body |-> "never", row |-> "never", lines |-> "never"],
    Parts <- {"body", "row", "lines"}, Fill <- {}, Required <- {"lines"},
    Key <- OneKey, Ops <- Doing(names), Optional <- {"lines"},
    Exclusive <- TRUE, PartialCalls <- TRUE, MaxFails <- 1

\* A zip without a commit part, indexed: no part alone decides existence.
Pair == INSTANCE RecordTopology WITH
    Target <- {"left", "right", "index"},
    Position <- [left |-> 1, right |-> 2, index |-> 3],
    RoleOf <- [left |-> "component", right |-> "component", index |-> "dependent"],
    LookupOf <- [left |-> "never", right |-> "never", index |-> "never"],
    Parts <- {"left", "right"}, Fill <- {}, Required <- {"index"},
    Key <- OneKey, Ops <- Doing({"write", "delete", "get"}), Optional <- {},
    Exclusive <- TRUE, PartialCalls <- FALSE, MaxFails <- 1

\* Updates multiply the interleavings of a zip, and have a shape of their own.
Calls == Everything \ {"update"}
Updates == {"update", "get"}

Init == \/ shape = "race" /\ Race!Init
        \/ shape = "batch" /\ Batch!Init
        \/ shape = "zip" /\ Zip(Calls)!Init
        \/ shape = "rezip" /\ Zip(Updates)!Init
        \/ shape = "pair" /\ Pair!Init

Next == \/ shape = "race" /\ Race!Next /\ UNCHANGED shape
        \/ shape = "batch" /\ Batch!Next /\ UNCHANGED shape
        \/ shape = "zip" /\ Zip(Calls)!Next /\ UNCHANGED shape
        \/ shape = "rezip" /\ Zip(Updates)!Next /\ UNCHANGED shape
        \/ shape = "pair" /\ Pair!Next /\ UNCHANGED shape

Spec == Init /\ [][Next]_vars

\* Callers are alike: within a shape all are given the same operations.
Symmetry == Permutations(Client)

(* Laws 1, 6 and 7, for callers that race, for batches of which the        *)
(* authority accepts some keys and refuses others, and for a record whose  *)
(* last part commits it: a dependent holds only values the record was      *)
(* committed with, and no fill undoes a write of the authority.            *)
DerivesOnlyCommits ==
    /\ shape = "race" => Race!CommitBeforeDerive /\ Race!AuthorityIsLastCommit
    /\ shape = "batch" => Batch!CommitBeforeDerive
    /\ shape = "pair" => Pair!CommitBeforeDerive

(* Law 2, "referent before reference": what a row refers to is there, for  *)
(* the media whatever fails or crashes between the two, and for whoever    *)
(* assembles the record while it is written or deleted.                    *)
ReferentIsThere == shape \in {"zip", "rezip"} => Zip(Everything)!ReferentIsThere
=============================================================================
