CONSTANTS
    n1 = n1
    n2 = n2
    n3 = n3
    n4 = n4
    Node = {n1, n2, n3, n4}
    NoNode = NoNode
    Neighbour <- AwayNeighbour
    Dist <- AwayDist
    Packet <- ToAway
    NetDiameter = 3
    RreqRetries = 2
    NetBufferSize = 2
    MaxRreqID = 1
    MaxDrops = 1
    MaxExpiries = 1
    MaxBreaks = 0
SPECIFICATION Spec
INVARIANT LoopFree
CHECK_DEADLOCK FALSE
