\* One call of get_k_hop_neighbor_count, get_adj_count, get_common_neighbor_count,
\* get_subgraph_matching_count or get_wcc_count.
CONSTANTS
    Vertex <- MCVertex
    Label <- MCLabel
    Relation <- MCRelation
    EdgeSets <- MCEdgeSets
    Queries <- MCQueries
    Patterns <- MCPatterns
    INT32_MAX = 5
    Graph <- MCGraph
    Params <- MCParams
SPECIFICATION CallSpec
INVARIANTS
    ScanIsExact
    FrontierIsDistance
    
    AdjCountsWalks
    CommonIsIntersection
    MatchesCounted
    RootsHoldSizes
    TreesAreLow
    SetsAreConnected
    CountIsWcc
PROPERTIES
    ImplementsPartition
