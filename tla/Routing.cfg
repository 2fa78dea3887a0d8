CONSTANTS
    a = a
    b = b
    c = c
    Node <- Line
    Links <- LineLinks
    Bandwidth <- LineBandwidth
    WEIGHT_OF_UNIT = 4
    MaxUnderWay = 2
    MaxLosses = 1

SPECIFICATION FairSpec

INVARIANTS
    TimersMatch
    NothingForgotten

PROPERTIES
    AnnouncementsApplied
    RoutingTerminates

CHECK_DEADLOCK FALSE
