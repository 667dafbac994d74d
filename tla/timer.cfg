SPECIFICATION FairSpec
CONSTANTS
    Timers = {t1, t2}
    NoTimer = none
    Interval = 1
    MaxTime = 3
    MaxPending = 2
INVARIANTS TimerArmed OnePlace TimerInv
PROPERTIES NeverEarly GoneIsGone EveryTimerRuns CanceledLeaves
