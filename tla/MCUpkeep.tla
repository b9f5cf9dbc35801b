------------------------------ MODULE MCUpkeep ------------------------------
(***************************************************************************)
(* A store with a best-effort cache before it, a required replica behind   *)
(* it, and two older stores that answer what it lacks.                     *)
(***************************************************************************)
EXTENDS Upkeep, TLC

CONSTANTS c1, c2

Places == {"cache", "store", "replica", "recent", "archive"}
Order == [cache |-> 1, store |-> 2, replica |-> 3, recent |-> 4, archive |-> 5]
Roled == [cache |-> "dependent", store |-> "authority", replica |-> "dependent",
          recent |-> "fallback", archive |-> "fallback"]
Looked == [cache |-> "before", store |-> "never", replica |-> "after",
           recent |-> "after", archive |-> "after"]

\* One caller does the upkeep, the other writes.
Doing == (c1 :> {"stream", "read", "gc", "fill", "group"}) @@ (c2 :> {"set", "delete"})
Writing == (c1 :> Key) @@ (c2 :> {1})
Fills == {<<1, 3>>, <<2, 2>>}

E(id, clock) == [id |-> id, clock |-> clock]
Row(a, b) == (1 :> a) @@ (2 :> b)
Empty == Row(Nothing, Nothing)
Held(cache, store, replica, recent, archive) ==
    [cache |-> cache, store |-> store, replica |-> replica, recent |-> recent,
     archive |-> archive]

Starts == {
    \* both keys only in the older stores, the first in both of them
    Held(Empty, Empty, Empty, Row(E(1, 0), Nothing), Row(E(2, 1), E(3, 0))),
    \* a record of each key in the store, one also in a copy and one in an older store
    Held(Empty, Row(E(4, 0), E(5, 0)), Row(E(4, 1), E(5, 1)), Row(Nothing, E(3, 0)), Empty),
    \* the copies still hold what the store has no longer
    Held(Row(E(4, 0), E(5, 0)), Empty, Row(E(4, 1), E(5, 0)), Row(E(1, 0), E(3, 1)), Empty)}
=============================================================================
