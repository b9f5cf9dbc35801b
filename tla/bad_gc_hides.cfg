SPECIFICATION Spec
CONSTANTS
    Unset = Unset
    Never = Never
    Nothing = Nothing
    Key = {k1}
    Client = {c1}
    Body = {x, y}
    Setup <- AllSetups
    WriteArg <- SomeWrites
    Op = {"get", "exists", "read_stream", "delete", "insert", "update", "batch_delete", "scan", "keys", "gc"}
    DefaultTtl = 1
    GcLimit = 1
    MaxTime = 2
    MaxWrites = 2
INVARIANTS
    GcDeletesInEitherMode
SYMMETRY Symmetry
