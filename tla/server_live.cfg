SPECIFICATION FairSpec
CONSTANTS
    EngineCnt = 1
    MaxConns = 2
    MaxMsgs = 1
    MaxUnits = 0
    WriteSizes = {2}
    BufferLen = 1
    WriteOutcomes = {}
    AnyShutdown = FALSE
    AcceptErrors = FALSE
    MaxStarts = 2
    None = none
PROPERTIES ClientIsServed PeerCloseIsServed
