SPECIFICATION Spec

CONSTANTS
    a1 = a1
    a2 = a2
    n1 = n1
    n2 = n2
    Addrs <- OneAddr
    Ids <- OneId
    IdsAt <- OnePeer
    Capacity = 2
    OutCapacity = 1
    SlowReaders = {a1}

INVARIANTS
    SendersFound

CHECK_DEADLOCK FALSE
