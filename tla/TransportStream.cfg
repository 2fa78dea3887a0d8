CONSTANTS
    A = A
    B = B
    SEGMENT_SIZE = 2
    MAX_WINDOW_SIZE = 2
    MAX_SEGMENT_OFFSET = 9
    INITIAL_THRESHOLD = 2
    MessageSizes <- MCMessageSizes
    SizesOfA = {1, 4}
    SizesOfB = {1, 4}
    WindowShares = {2}
    MessagesOfA = 3
    MessagesOfB = 0
    MaxMessages <- MCMaxMessages
    MaxLosses = 1
    MaxUpdates = 1
    QueueLimit = 2
SPECIFICATION Spec
INVARIANTS
    TypeOK
    NoStaleAck
    NothingForgotten
    NothingHeldBack
    NoOverwrite
    NoInvalidRead
PROPERTIES
    StreamSpec
CHECK_DEADLOCK FALSE
