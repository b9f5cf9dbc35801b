SPECIFICATION Spec
CONSTANTS
    Call = {c1, c2}
    Key = {k1}
    Nothing = Nothing
    MaxValue = 2
    Value <- MCValue
    Decide <- EveryDecision
    Attempts = 2
    MaxChanges = 2
    MaxFails = 1
INVARIANTS
    ConflictMeansContention
PROPERTIES
    UpdateIsAtomic
    EveryCallEnds
CHECK_DEADLOCK FALSE
