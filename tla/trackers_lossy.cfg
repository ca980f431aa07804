SPECIFICATION FairSpec

CONSTANTS
    x = x
    y = y
    z = z
    p = p
    q = q
    AnnounceList <- FourEntries
    Peers <- TwoPeers
    PeersAt <- KnownPeers
    NoEntry = 0
    Capacity = 1
    MaxPeers = 1
    Reliable = {1}
    Refusing = {y}

INVARIANTS
    TypeOK
    ReportedOnce
    ConnectionIdsOwn

PROPERTIES
    SearchEnds
    ReliableServed

CHECK_DEADLOCK FALSE
