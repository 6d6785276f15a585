SPECIFICATION Spec
CONSTANTS
    NoItem = NoItem
    TxQueues = {0, 1}
    DiscUnit = "BYTES"
    DiscMaxSize = 8
    DevUnit = "BYTES"
    DevMaxSize = 8
    Mtu = 4
    HeaderSize = 1
    PacketSizes = {1, 3}
    Quota = 5
    UseQueueLimits = TRUE
    TwoTo32 = 14
    MinLimit = 0
    MaxLimit = 6
    AdjLimits = {0, 2, 9}
    MaxPackets = 5
INVARIANTS TypeOK StoppedIsTransmitting OutstandingIsQueued DeviceNeverDiscards NothingLostOrReordered BacklogWaitsForStopped
PROPERTIES AcceptedIsTransmitted
CHECK_DEADLOCK FALSE
