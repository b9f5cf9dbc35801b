SPECIFICATION Spec
CONSTANTS
    Null = Null
    Never = Never
    Unset = Unset
    Nobody = Nobody
    Key = {1, 2}
    View = {"core", "side"}
    Client = {"a", "b"}
    Setup <- Agreeing
    WriteArg <- SomeWrites
    Op <- Calls
    PageSize = 1
    Limit = 1
    Attempts = 2
    MaxTime = 1
    MaxWrites = 2
    MaxCalls = 3
INVARIANTS
    JudgedAsAsked
    ScanListsTheSteady
PROPERTIES
    TakesOnlyItsOwn
    UpdateReplacesWhatItSaw
