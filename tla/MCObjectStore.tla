--------------------------- MODULE MCObjectStore ---------------------------
(***************************************************************************)
(* Every provision the library ships, with and without lazy deletion.      *)
(***************************************************************************)
EXTENDS ObjectStore, TLC

CONSTANT DefaultTtl   \* TTL of a collection that has one

Of(medium, source, ttl, gc) ==
    [medium |-> medium, source |-> source, ttl |-> ttl, gc |-> gc]

\* Every way of judging expiry with lazy deletion; HIDE where expiry is told by
\* the listing, by a request and by a file; and a collection without a TTL.
AllSetups ==
    {Of(p.medium, p.source, DefaultTtl, "lazy") :
        p \in {q \in Provisions : q.source = "object_time" => q.medium = "s3"}}
    \cup {Of("s3", "object_time", DefaultTtl, "hide"), Of("s3", "expires", DefaultTtl, "hide"),
          Of("fs", "sidecar", DefaultTtl, "hide"), Of("gcs", "custom_time", Never, "lazy")}

\* A plain write, one of an older record, one of an older record with a TTL of
\* its own, and one that never expires.
SomeWrites ==
    {[ttl |-> Unset, created |-> Unset], [ttl |-> Unset, created |-> 0],
     [ttl |-> 2, created |-> 0], [ttl |-> Never, created |-> Unset]}
Symmetry == Permutations(Key)
=============================================================================
