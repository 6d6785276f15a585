SPECIFICATION MCSpec
CONSTANTS
    NoItem = NoItem
    GspMode = "ADAPTIVE_GSP"
    Unit = "BYTES"
    MaxSize = 3
    Threshold = 2
    Timeout = 3
    Interval = 2
    AdaptiveVariable = 800
    A = 1
    BitRate = 4
    PacketSizes = {1, 2}
    TicksPerSecond = 25
    TwoTo64 = 4000
    Horizon = 10
    MaxArrivals = 4
INVARIANTS TypeOK Accounting SentIsWhatWasGiven ForcedDropRate WithinMaxSize
PROPERTIES IsSingleDropQueue
CHECK_DEADLOCK FALSE
