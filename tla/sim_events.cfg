SPECIFICATION Spec
CONSTANTS
    NoThread = NoThread
    Threads = {t1, t2}
    Delays = {0, 1}
    MaxEvents = 4
INVARIANTS ExpiredIsGone UnscheduledIsPending EachEventOnce PostedIsFlagged
PROPERTIES RunsInOrder
CHECK_DEADLOCK FALSE
