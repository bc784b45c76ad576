CONSTANTS
    n1 = n1
    n2 = n2
    n3 = n3
    n4 = n4
    Node = {n1, n2, n3}
    NoNode = NoNode
    Neighbour <- LineNeighbour
    Dist <- LineDist
    Packet <- PeerAndFar
    NetDiameter = 3
    RreqRetries = 1
    NetBufferSize = 1
    MaxRreqID = 1
    MaxDrops = 1
    MaxExpiries = 1
    MaxBreaks = 1
SPECIFICATION Spec
INVARIANTS HopsNeverUnderestimate NextHopKnowsDestination RrepHasPrecursor
PROPERTY ImplementsDatagrams
CHECK_DEADLOCK FALSE
