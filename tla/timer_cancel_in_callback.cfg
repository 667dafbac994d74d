SPECIFICATION Spec
CONSTANTS
    Timers = {t1, t2}
    NoTimer = none
    Interval = 1
    MaxTime = 2
    MaxPending = 1
PROPERTY CancelInCallbackIsSeen
