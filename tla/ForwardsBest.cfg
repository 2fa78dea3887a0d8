CONSTANTS
    a = a
    b = b
    c = c
    Node <- Triangle
    Links <- TriangleLinks
    Bandwidth <- TriangleBandwidth
    WEIGHT_OF_UNIT = 4
    Flows <- OneFlow
    HOP_LIMIT = 2
    MaxDatagrams = 0
    MayMiss <- TowardsDestination

SPECIFICATION Spec

INVARIANTS
    ForwardsBest

CHECK_DEADLOCK FALSE
