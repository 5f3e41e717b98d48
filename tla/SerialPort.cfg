CONSTANTS
    r1 = r1  r2 = r2  w1 = w1  w2 = w2  i1 = i1  i2 = i2  m1 = m1  m2 = m2
    NUL = NUL  NoData = NoData  Garbage = Garbage  NoReply = NoReply
    EmptyString = EmptyString  Torn = Torn
    ReadCalls = {r1, r2}
    WriteCalls = {w1, w2}
    InfoCalls = {}
    PoolSize = 2
    Messages = {m1, m2}
    FragsPerMsg = 2
    ReadMax = 2
    TxCap = 2
    Bodies <- OneBody
    MaxDeviceChanges = 0
    MaxCurlFails = 0
    MaxHangups = 1
SPECIFICATION Spec
CHECK_DEADLOCK FALSE
SYMMETRY Symmetric
INVARIANTS TypeOK ReplyInOrder AckedWriteIsWhole
