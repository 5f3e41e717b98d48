SPECIFICATION Spec
CONSTANTS
    None = None
    main = main  admin = admin  stop = stop  c1 = c1  c2 = c2  r1 = r1  u1 = u1
    Threads = {main, admin, stop}
    Conns = {c1}
    Reqs = {u1}
    UsesAdapter = {u1}
    May <- MCMay
    MaxCalls = 4
INVARIANTS
    TypeOK
    AcceptorOutlivesPool
    AcceptorWhileUsable
    ServantsOutliveRequests
    ReleasedIsQuiet
    PoolDestroyedEmpty
    FailedIsFinished
PROPERTIES
    IterationIsSafe
    OperationsReturn
CHECK_DEADLOCK FALSE
