---------------------------- MODULE MCBatchUpdate ----------------------------
(***************************************************************************)
(* The decisions of the docstring of KeyMap.update: compute a value if     *)
(* there is none, count, and remove what is stale.                         *)
(***************************************************************************)
EXTENDS BatchUpdate

CONSTANT MaxValue   \* bound: the largest value stored

MCValue == 1..MaxValue

Keep == [do |-> "keep", value |-> Nothing]
Put(v) == [do |-> "put", value |-> v]
Remove == [do |-> "remove", value |-> Nothing]

PutIfAbsent == [v \in MCValue \cup {Nothing} |-> IF v = Nothing THEN Put(1) ELSE Keep]

Increment == [v \in MCValue \cup {Nothing} |->
    IF v = Nothing THEN Put(1) ELSE IF v < MaxValue THEN Put(v + 1) ELSE Keep]

RemoveStale == [v \in MCValue \cup {Nothing} |-> IF v = 1 THEN Keep ELSE Remove]

EveryDecision == {PutIfAbsent, Increment, RemoveStale}
=============================================================================
