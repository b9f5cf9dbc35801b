SPECIFICATION Spec
CONSTANTS
    Target <- CacheTargets
    Position <- CachePosition
    RoleOf <- CacheRoles
    LookupOf <- CacheLookups
    Parts = {}
    Fill = {"store", "cache"}
    Required = {"cache", "replica"}
    Client = {c1, c2}
    Key = {k1}
    Ops <- Everyone
    Optional = {}
    Exclusive = TRUE
    PartialCalls = FALSE
    MaxId = 3
    MaxFails = 1
INVARIANTS
    TypeOK
    CommitBeforeDerive
    AuthorityIsLastCommit
    OnCourse
    ReachesAll
    OutcomeTellsTheCommit
SYMMETRY Symmetry
