SPECIFICATION Spec
CONSTANTS
    Threads = {t1, t2}
    NoThread = NoThread
    Delays = {0, 5}
    Jiffy = 1
    Second = 100
    Origin = 0
    IdleDelay = 5
    HardLimit = 1
    MaxEvents = 3
    Horizon = 7
INVARIANTS NoneInThePast RunsWhenDue NoSleepPastFirst
PROPERTIES DueIsRun
CHECK_DEADLOCK FALSE
