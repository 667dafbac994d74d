SPECIFICATION FairSpec
CONSTANTS
    EngineCnt = 1
    MaxConns = 1
    MaxMsgs = 0
    MaxUnits = 1
    WriteSizes = {2}
    BufferLen = 1
    WriteOutcomes = {"all", "partial"}
    AnyShutdown = FALSE
    AcceptErrors = FALSE
    MaxStarts = 1
    None = none
PROPERTY WriteIsCompleted
