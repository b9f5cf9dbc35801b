----------------------------- MODULE MCSqlTable -----------------------------
(***************************************************************************)
(* A table of its own and a table two views share, on one connection that  *)
(* commits each statement and one whose transactions the caller ends.      *)
(***************************************************************************)
EXTENDS SqlTable

SomeConnections == {[a |-> "autocommit", b |-> m] : m \in {"autocommit", "caller", "on_write"}}

\* Client a reads, collects and updates; client b writes and removes.
Calls == [a |-> {"get", "gc", "scan", "take", "put", "remove"},
          b |-> {"set", "delete", "unset"}]

\* The views of a table agree on their TTL.
Agreeing ==
    {s \in Setups(View, {1, Never}, SomeConnections) :
        /\ s.owner = "core"
        /\ \A v, w \in View : s.ttl[v] = s.ttl[w]
        /\ s.binding = "early" => s.legacy /\ ~s.shares
        /\ s.hides <=> s.ttl["core"] = Never
        /\ s.legacy <=> s.connection["b"] = "autocommit"
        /\ s.hides <=> s.connection["b"] = "caller"
        /\ s.shares \/ s.connection["b"] # "on_write"}

SomeWrites == {[ttl |-> Unset, past |-> TRUE], [ttl |-> Never, past |-> FALSE]}
=============================================================================
