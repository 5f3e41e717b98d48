SPECIFICATION Spec
CONSTANTS
    None = None
    main = main  admin = admin  stop = stop  c1 = c1  c2 = c2  r1 = r1  u1 = u1
    Threads = {main, admin, stop}
    Conns = {c1}
    Reqs = {u1}
    UsesAdapter = {u1}
    May <- MCMayActivate
    MaxCalls = 3
INVARIANTS
    ActivateAssert
CHECK_DEADLOCK FALSE
