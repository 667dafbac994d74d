SPECIFICATION FairSpec
CONSTANTS
    Threads = {g1}
    LoopThread = loop
    Tasks = {t1, t2}
    Channels = {io1, io2}
    WakeupChannel = wake
    EventListLen = 1
    None = none
INVARIANTS NoLostWakeup LoopInv
PROPERTIES TaskLogSpec EveryTaskRuns AsyncStopEndsLoop ReadyChannelIsServed StopEndsLoop
