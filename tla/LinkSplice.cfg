CONSTANTS
    SendIds = 8
    MaxFrames = 2
    QueueLimit = 2
    WireLimit = 2
    MaxDatagrams = 9
    MaxFaults = 2
SPECIFICATION Spec
INVARIANTS
    OnlyWholeDatagrams
CHECK_DEADLOCK FALSE
