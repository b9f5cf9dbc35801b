SPECIFICATION Spec
CONSTANTS
    Unset = Unset
    Never = Never
    Nothing = Nothing
    Key = {k1, k2}
    Client = {"reader", "writer"}
    Body = {x, y}
    Setup <- AllSetups
    WriteArg <- SomeWrites
    Op <- Calls
    Limit = 1
    MaxTime = 2
    MaxWrites = 2
INVARIANTS
    TellsWhatIsKept
PROPERTIES
    SwapsWhatItSaw
    CollectsOnlyTheExpired
