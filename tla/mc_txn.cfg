SPECIFICATION Spec
CONSTANTS
    Target <- TurnTargets
    Position <- TurnPosition
    RoleOf <- TurnRoles
    LookupOf <- TurnLookups
    Parts = {"body", "row", "lines"}
    Fill = {}
    Required = {"index", "lines"}
    Key = {k1, k2}
    Deferred = {"row", "lines"}
    MaxId = 3
    MaxOps = 2
    MaxFails = 1
INVARIANTS
    CommittedRecordKeepsItsBody
    DerivedOnlyFromCommits
    InStep
