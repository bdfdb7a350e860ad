\* One commit_transaction fails.
CONSTANTS
    Rows <- MCRows
    BatchSize = 2
    Concurrency = 2
    FileTypes = {"Excel"}
    Faults = {"commit"}
    MaxFaults = 1
    MaxCrashes = 0
SPECIFICATION Spec
INVARIANTS
    ImportedIsDurable
