\* Liveness where the two edge writers can roll each other back, and three calls
\* whose failures the code goes on after.
CONSTANTS
    Rows <- MCOppositeRows
    BatchSize = 2
    Concurrency = 2
    FileTypes = {"Excel"}
    Faults = {"lookup", "commit", "checkpoint"}
    MaxFaults = 1
    MaxCrashes = 0
SPECIFICATION FairSpec
PROPERTIES
    LoadEnds
