CONSTANTS
    t1 = t1  t2 = t2  t3 = t3
    NoFd = NoFd
    Threads = {t1, t2}
    Fds = {3, 5}
    IntrFd = 4
    FdSetSize = 8
    Size = 1
    SizeMax = 2
    IdleTimeout = TRUE
    MaxRegs = 1
SPECIFICATION Spec
CHECK_DEADLOCK FALSE
PROPERTIES NoStarvation EventuallyFinished ThreadsImmutable JoinReturns
