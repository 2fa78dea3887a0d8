CONSTANTS
    A = A
    B = B
    SEGMENT_SIZE = 1
    MAX_WINDOW_SIZE = 2
    MAX_SEGMENT_OFFSET = 5
    INITIAL_THRESHOLD = 2
    MessageSizes <- MCMessageSizes
    SizesOfA = {1}
    SizesOfB = {1}
    WindowShares = {2}
    MessagesOfA = 1
    MessagesOfB = 1
    MaxMessages <- MCMaxMessages
    MaxLosses = 1
    MaxUpdates = 0
    QueueLimit = 2
SPECIFICATION FairSpec
PROPERTIES
    StreamDelivery
    AppResumes
CHECK_DEADLOCK FALSE
