CONSTANTS
    t1 = t1
    Thread = {t1}
    SessionMax = 3
    MaxRequests = 4
    Databases <- MCDatabases
    Requests <- MCRequests
SPECIFICATION Spec
INVARIANT StaysUp
