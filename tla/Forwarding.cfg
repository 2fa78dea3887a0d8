CONSTANTS
    a = a
    b = b
    c = c
    Node <- Triangle
    Links <- TriangleLinks
    Bandwidth <- TriangleBandwidth
    WEIGHT_OF_UNIT = 4
    Flows <- OneFlow
    HOP_LIMIT = 2
    MaxDatagrams = 2
    MayMiss <- TowardsDestination

SPECIFICATION Spec

INVARIANTS
    TypeOK
    AnnouncedOnce
    NextHopHasRoute
    RouteBeforeTraffic
    LoopFree
    BandwidthOfRoute
    FlowIntact
    NeverExpires

PROPERTIES
    RouteNeverMoves

CHECK_DEADLOCK FALSE
