CONSTANTS
    Vertex <- MCVertex
    Label <- MCLabel
    MaxLevel = 2
    MaxParallel = 2
    HashTables = 2
    MinCap = 2
    MaxCap = 3
    EdgeSets <- MCEdgeSets
    Queries <- MCQueries
SPECIFICATION Spec
CHECK_DEADLOCK FALSE
INVARIANTS
    InitialVerticesRemoved
