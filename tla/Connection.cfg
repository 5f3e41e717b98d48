SPECIFICATION Spec
CONSTANTS
    None = None
    r1 = r1
    b1 = b1
    Reqs = {r1, b1}
    Twoway = {r1}
    InvokeNum <- MCInvokeNum
    OutCap = 1
    MaxHolds = 1
INVARIANTS
    TypeOK
    FinishedCountMatches
    TransceiverOutlivesPool
    DispatchCountMatches
    CloseConnectionIsSafe
    ExceptionWhenClosing
    FinishedIsFinal
PROPERTIES
    ClosingIsFinal
    DestroyedIsFinished
    ImplementsLife
CHECK_DEADLOCK FALSE
