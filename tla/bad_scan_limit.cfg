SPECIFICATION ScanSpec
CONSTANTS
    Key = {"a", "b", "c"}
    Value = {0, 1}
    Good = 1
    Under = {"a", "c"}
    Named = {"b", "c"}
    None = None
    Needs <- MCNeeds
    Evaluate <- MCEvaluate
    ExtractKeyPrefix <- MCExtractKeyPrefix
    PeelKeyPrefix <- MCPeelKeyPrefix
    IsKeyOnly <- MCIsKeyOnly
    SplitKeyPredicates <- MCSplitKeyPredicates
    IsGcPredicate <- MCIsGcPredicate
    FlattenAnd <- MCFlattenAnd
    Listing <- MCListing
    ByColumn <- MCByColumn
    Alike = {"a", "c"}
    Refined = {"b", "c"}
    Forward <- MCForward
    Renamed <- MCRenamed
    Stores <- SqlLeaf
    Specs <- LimitedSpecs
    Trees <- NoTrees
    Contents <- SomeContents
    PageSize = 2
    FlushSize = 2
    NoLimit = NoLimit
    MaxWrites = 1
    MaxResumes = 1
INVARIANT LimitCountsMatches
CHECK_DEADLOCK FALSE
