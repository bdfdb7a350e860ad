\* Patterns with an edge from a variable to itself, and no other calls.
CONSTANTS
    Vertex <- MCVertex
    Label <- MCLabel
    Relation <- MCRelation
    EdgeSets <- MCEdgeSets
    Queries = {}
    Patterns <- MCLoopPatterns
    INT32_MAX = 5
    Graph = {}
    Params = {}
SPECIFICATION CallSpec
INVARIANTS
    AllMatchesCounted
