CONSTANTS
    r1 = r1  r2 = r2  w1 = w1  w2 = w2  i1 = i1  i2 = i2  m1 = m1  m2 = m2
    NUL = NUL  NoData = NoData  Garbage = Garbage  NoReply = NoReply
    EmptyString = EmptyString  Torn = Torn
    ReadCalls = {}
    WriteCalls = {}
    InfoCalls = {i1, i2}
    PoolSize = 1
    Messages = {}
    FragsPerMsg = 1
    ReadMax = 4
    TxCap = 4
    Bodies <- TwoBodies
    MaxDeviceChanges = 1
    MaxCurlFails = 1
    MaxHangups = 0
SPECIFICATION Spec
CHECK_DEADLOCK FALSE
INVARIANTS InfoFresh
