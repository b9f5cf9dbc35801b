SPECIFICATION Spec
CONSTANTS
    Key <- OneKey
    Client = {"main", "other"}
    ProcessOf <- Processes
    Op = {"write", "write_stream", "insert", "delete", "get"}
    MaxWrites = 2
    MaxCrashes = 1
INVARIANTS
    OnlyWholeValues
    FilesAreInOrder
    InsertsAreDated
PROPERTIES
    ReadersDeleteTheExpired
