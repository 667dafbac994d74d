SPECIFICATION Spec
CONSTANTS
    EngineCnt = 0
    MaxConns = 2
    MaxMsgs = 1
    MaxUnits = 4
    WriteSizes = {3}
    BufferLen = 1
    WriteOutcomes = {"all", "partial", "again", "error"}
    AnyShutdown = FALSE
    AcceptErrors = FALSE
    MaxStarts = 1
    None = none
INVARIANTS SentInOrder FinComesLast FinInv
CHECK_DEADLOCK FALSE
