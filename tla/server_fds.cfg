SPECIFICATION Spec
CONSTANTS
    EngineCnt = 2
    MaxConns = 2
    MaxMsgs = 0
    MaxUnits = 1
    WriteSizes = {2}
    BufferLen = 1
    WriteOutcomes = {"partial"}
    AnyShutdown = TRUE
    AcceptErrors = TRUE
    MaxStarts = 1
    None = none
INVARIANTS NoPanic RegisteredIsOwn WriteHasOwnSocket ConnsAccounted ServerInv
