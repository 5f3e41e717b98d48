CONSTANTS
    r1 = r1  r2 = r2  w1 = w1  w2 = w2  i1 = i1  i2 = i2  m1 = m1  m2 = m2
    NUL = NUL  NoData = NoData  Garbage = Garbage  NoReply = NoReply
    EmptyString = EmptyString  Torn = Torn
    ReadCalls = {}
    WriteCalls = {w1}
    InfoCalls = {}
    PoolSize = 1
    Messages = {}
    FragsPerMsg = 1
    ReadMax = 4
    TxCap = 4
    Bodies <- OneBody
    MaxDeviceChanges = 0
    MaxCurlFails = 0
    MaxHangups = 0
SPECIFICATION Spec
CHECK_DEADLOCK FALSE
INVARIANTS AckMeansWritten
