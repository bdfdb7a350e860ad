\* Six batches, two edge writers: one batch more than may be in flight.
CONSTANTS
    NumBatches = 6
    Concurrency = 2
    FileTypes = {"CSV", "Excel"}
SPECIFICATION FairSpec
INVARIANTS
    WgCounts
    PermitsAccounted
    CompletionIsTotal
    InFlightBounded
    ResolvedInOrder
PROPERTIES
    ImportEnds
    CountedIsWritten
