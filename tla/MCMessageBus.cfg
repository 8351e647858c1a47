SPECIFICATION Spec
CONSTANTS
    Procs = {p1, p2, p3}
    NoProc = NoProc
    ZeroMsg = ZeroMsg
    Cap = 1
    Ops = {"inbound", "outbound", "get", "register", "close"}
    MaxCalls = 1
INVARIANTS TypeOK NoSendOnClosed
PROPERTIES KeepsPromise PublishReturns WriterProceeds
CHECK_DEADLOCK FALSE
