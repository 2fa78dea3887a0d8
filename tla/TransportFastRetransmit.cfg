CONSTANTS
    A = A
    B = B
    SEGMENT_SIZE = 1
    MAX_WINDOW_SIZE = 4
    MAX_SEGMENT_OFFSET = 12
    INITIAL_THRESHOLD = 2
    MessageSizes <- MCMessageSizes
    SizesOfA = {4}
    SizesOfB = {4}
    WindowShares = {0, 4}
    MessagesOfA = 2
    MessagesOfB = 0
    MaxMessages <- MCMaxMessages
    MaxLosses = 1
    MaxUpdates = 0
    QueueLimit = 4
SPECIFICATION Spec
PROPERTIES
    FastRetransmitOnThird
CHECK_DEADLOCK FALSE
