SPECIFICATION FairSpec

CONSTANTS
    a1 = a1
    a2 = a2
    n1 = n1
    n2 = n2
    Addrs <- TwoAddrs
    Ids <- TwoIds
    IdsAt <- OneOrTwoPeers
    Capacity = 1
    OutCapacity = 1
    SlowReaders = {a1}

INVARIANTS
    OneSessionPerId
    TypeOK

PROPERTIES
    LostBeforeEntry
    RunEnds
    EntersUnlessHeld

CHECK_DEADLOCK FALSE
