SPECIFICATION Spec
CONSTANTS
    Threads = {t1, t2}
    NoThread = NoThread
    Delays = {0, 5}
    Jiffy = 1
    Second = 4
    Origin = 2
    IdleDelay = 5
    HardLimit = 1
    MaxEvents = 3
    Horizon = 7
PROPERTIES DueIsRun
CHECK_DEADLOCK FALSE
