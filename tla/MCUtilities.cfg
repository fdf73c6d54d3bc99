\* Up to three beans of up to five rows, two rows to a sheet; two callers of
\* clients with one connection; three threads that convert three objects.
SPECIFICATION UtilitiesFairSpec
CONSTANTS
    SheetSize = 2
    MaxRows = 5
    MaxBeans = 3
    Nil = Nil
    Callers = {t1, t2}
    Calls <- MixedCalls
    MaxConnections = 1
    MaxRetry = 2
    Threads = {t1, t2, t3}
    Classes = {c1, c2, broken}
    Broken = {broken}
    MaxCalls = 3
    Nobody = Nobody
INVARIANTS
    UtilitiesTypeOK
    EveryRowOnce
    CallCleansUp
    ContextsAreShared
PROPERTIES
    SheetsAreAppended
    ImplementsRemoteCall
    CallEnds
CHECK_DEADLOCK FALSE
