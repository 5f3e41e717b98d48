CONSTANTS
    t1 = t1  t2 = t2  t3 = t3
    NoFd = NoFd
    Threads = {t1, t2, t3}
    Fds = {3, 5}
    IntrFd = 4
    FdSetSize = 8
    Size = 1
    SizeMax = 3
    IdleTimeout = FALSE
    MaxRegs = 2
SPECIFICATION Spec
CHECK_DEADLOCK FALSE
SYMMETRY ThreadSymmetry
INVARIANTS TypeOK LeaderToken PipeMatchesChanges SnapshotCurrent FdRange
    FinishedOncePerUnregister ChangesConsistent DestroyAsserts CountersMatch SpareThread
    NoLostWakeup
