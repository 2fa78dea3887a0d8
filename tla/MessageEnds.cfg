CONSTANTS
    SEGMENT_SIZE = 1
    MAX_WINDOW_SIZE = 4
    MAX_SEGMENT_OFFSET = 12
    MaxMessageSize = 4
    MaxPosition = 30
SPECIFICATION Spec
INVARIANTS
    InStreamOrder
    DrainsComplete
CHECK_DEADLOCK FALSE
