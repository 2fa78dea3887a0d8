CONSTANTS
    SendIds = 8
    MaxFrames = 2
    QueueLimit = 2
    WireLimit = 2
    MaxDatagrams = 9
    MaxFaults = 1
SPECIFICATION FairSpec
INVARIANTS
    TypeOK
    BusyMeansTimer
    IdleMeansEmpty
    BufferFits
    IntactIsDelivered
PROPERTIES
    LossyFifoSpec
    QueueDrains
CHECK_DEADLOCK FALSE
