CONSTANTS
    n1 = n1
    n2 = n2
    n3 = n3
    n4 = n4
    Node = {n1, n2, n3}
    NoNode = NoNode
    Neighbour <- PairNeighbour
    Dist <- PairDist
    Packet <- TwoPeerAndFar
    NetDiameter = 3
    RreqRetries = 2
    NetBufferSize = 2
    MaxRreqID = 3
    MaxDrops = 0
    MaxExpiries = 0
    MaxBreaks = 0
SPECIFICATION FairSpec
PROPERTIES BufferedPacketLeaves ImplementsDatagrams
CHECK_DEADLOCK FALSE
