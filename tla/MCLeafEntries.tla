--------------------------- MODULE MCLeafEntries ---------------------------
(***************************************************************************)
(* Each backend with and without a TTL policy; one client reads and        *)
(* updates, both write.                                                    *)
(***************************************************************************)
EXTENDS LeafEntries, TLC

AllSetups == Setups({1, Never})
Calls == ("reader" :> {"get", "stat", "update", "remove", "scan", "gc"})
            @@ ("writer" :> {"set", "delete", "update"})
SomeWrites == {[ttl |-> Unset, past |-> FALSE], [ttl |-> 2, past |-> TRUE]}
=============================================================================
