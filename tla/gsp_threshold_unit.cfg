SPECIFICATION MCSpec
CONSTANTS
    NoItem = NoItem
    GspMode = "BASIC_GSP"
    Unit = "PACKETS"
    MaxSize = 4
    Threshold = 3
    Timeout = 1
    Interval = 2
    AdaptiveVariable = 10
    A = 2
    BitRate = 6
    PacketSizes = {4}
    TicksPerSecond = 10
    TwoTo64 = 4096
    Horizon = 6
    MaxArrivals = 4
PROPERTIES ThresholdIsQueueSize
CHECK_DEADLOCK FALSE
