CONSTANTS
    QUEUE_MAX_MSGS = 5
    QUEUE_MIN_MSGS = 2
    LINK_DELAY = 1
    INTERVALL_CALCULATE_LOAD = 8
    Sizes = {1, 3}
    MaxFrames = 3
    QueueLimit = 10

SPECIFICATION FairSpec

INVARIANTS
    QueueBounded
    OneTimer
    NeverTooBusy
    LoadIsRecent

PROPERTIES
    AppResumes

CHECK_DEADLOCK FALSE
