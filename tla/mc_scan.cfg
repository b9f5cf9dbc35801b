SPECIFICATION ScanSpec
CONSTANTS
    Key = {"a", "b", "c"}
    Value = {0, 1}
    Good = 1
    Under = {"a", "c"}
    Named = {"b", "c"}
    None = None
    Needs <- MCNeeds
    Evaluate <- MCEvaluate
    ExtractKeyPrefix <- MCExtractKeyPrefix
    PeelKeyPrefix <- MCPeelKeyPrefix
    IsKeyOnly <- MCIsKeyOnly
    SplitKeyPredicates <- MCSplitKeyPredicates
    IsGcPredicate <- MCIsGcPredicate
    FlattenAnd <- MCFlattenAnd
    Listing <- MCListing
    ByColumn <- MCByColumn
    Alike = {"a", "b", "c"}
    Refined = {"b", "c"}
    Forward <- MCForward
    Renamed <- MCRenamed
    Stores <- AllStores
    Specs <- SomeSpecs
    Trees <- AllTrees
    Contents <- SomeContents
    PageSize = 2
    FlushSize = 2
    NoLimit = NoLimit
    MaxWrites = 1
    MaxResumes = 1
INVARIANTS
    SplitsAlike
    PassesOverNothing
    ReturnsOnlyMatches
    ListsOnce
PROPERTIES
    DeletesTheMatches
    ScanEnds
CHECK_DEADLOCK FALSE
