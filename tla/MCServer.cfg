CONSTANTS
    Rows <- MCRows
    BatchSize = 2
    Concurrency = 2
    FileTypes = {"Excel"}
    Faults = {"append", "insert"}
    MaxFaults = 1
    MaxCrashes = 1
SPECIFICATION Spec
INVARIANTS
    OneVertexPerPk
    NoDanglingReference
    EdgesAreMirrored
    OnlyRowsOfTheFile
PROPERTIES
    SavedIdsAreStable
    ImplementsBulkLoad
