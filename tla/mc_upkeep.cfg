SPECIFICATION Spec
CONSTANTS
    c1 = c1
    c2 = c2
    Target <- Places
    Position <- Order
    RoleOf <- Roled
    LookupOf <- Looked
    Parts = {}
    Fill = {"cache", "store"}
    Required = {"replica"}
    Key = {1, 2}
    Client = {c1, c2}
    Ops <- Doing
    Touches <- Writing
    Contents <- Starts
    Nothing = Nothing
    Ttl = 2
    FillArgs <- Fills
    GcLimit = 1
    MaxTime = 2
    MaxId = 7
    MaxCalls = 1
    MaxFaults = 1
INVARIANTS
    CallsReachAll
    CopiesAreTrue
    ReadFindsIt
PROPERTIES
    FillsUndoNothing
CHECK_DEADLOCK FALSE
