SPECIFICATION Spec

CONSTANTS
    Peers = {p1}
    NoPeer = NoPeer
    Sessions <- AllKinds
    MaxLooks = 1

INVARIANTS
    RequestsNeverFaceHandlers
