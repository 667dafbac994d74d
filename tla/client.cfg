SPECIFICATION Spec
CONSTANTS
    NumFds = 3
    MaxTimers = 3
    MaxCalls = 3
    Careless = FALSE
    None = none
INVARIANTS ClientInv NoAssertFails OneAttempt SocketsAccounted AtMostOneAfterStop ConnIsAlive
PROPERTIES StartLoopReturns KeepsTrying Reconnects
CHECK_DEADLOCK FALSE
