CONSTANTS
    A = A
    B = B
    SEGMENT_SIZE = 1
    MAX_WINDOW_SIZE = 3
    MAX_SEGMENT_OFFSET = 8
    INITIAL_THRESHOLD = 2
    MessageSizes <- MCMessageSizes
    SizesOfA = {5}
    SizesOfB = {1}
    WindowShares <- MCWideShares
    MessagesOfA = 1
    MessagesOfB = 1
    MaxMessages <- MCMaxMessages
    MaxLosses = 0
    MaxUpdates = 0
    QueueLimit = 1
SPECIFICATION Spec
INVARIANTS
    WindowBounds
    TimersMatch
    SentCount
    FirstSegmentIsTimed
CHECK_DEADLOCK FALSE
