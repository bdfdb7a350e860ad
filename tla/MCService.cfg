CONSTANTS
    t1 = t1
    t2 = t2
    Thread = {t1, t2}
    SessionMax = 5
    MaxRequests = 6
    Databases <- MCDatabases
    Requests <- MCRequests
SPECIFICATION Spec
SYMMETRY Symmetry
INVARIANTS
    SessionsAccounted
    SafeWithinBudget
    OneHopShowsRows
    TranslationIsExact
