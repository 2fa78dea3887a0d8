CONSTANTS
    a = a
    b = b
    c = c
    Node <- Triangle
    Links <- TriangleLinks
    Bandwidth <- TriangleBandwidth
    WEIGHT_OF_UNIT = 4
    MaxUnderWay = 1
    MaxLosses = 1

SPECIFICATION Spec

INVARIANTS
    NeighbourKnown

CHECK_DEADLOCK FALSE
