SPECIFICATION FairSpec

CONSTANTS
    Peers = {p1, p2}
    NoPeer = NoPeer
    Sessions <- AllOrBlocks
    MaxLooks = 1

INVARIANTS
    TypeOK
    CirclesAreThese
    NoCircularWait

PROPERTIES
    ChecksServed

CHECK_DEADLOCK FALSE
