\* Three workers, two producers with two tasks each.
CONSTANTS
    Worker = {w1, w2, w3}
    Producer = {p1, p2}
    Quota = 2
SPECIFICATION FairSpec
INVARIANTS
    NoLostWakeup
    NobodyLeavesWork
PROPERTIES
    ImplementsTaskPool
    EveryTaskRuns
    DestructorReturns
