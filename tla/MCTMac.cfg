CONSTANTS
    n1 = n1
    n2 = n2
    n3 = n3
    Node = {n1, n2}
    Off = {n3}
    Broadcast = Broadcast
    None = None
    Settings <- AllSettings
SPECIFICATION Spec
INVARIANTS NeverStranded ExchangeMatchesHead
           AckedWasDelivered AuthorIsNewest
PROPERTY ImplementsLink
