SPECIFICATION Spec

CONSTANTS
    Pieces = {i1, i2}
    Blocks = {b1}
    AvailModulus = 4
    Peers = {p1, p2}
    NoPiece = NoPiece
    Cap = 1
    OverflowChecks = TRUE
    Chokers = {p1}
    Corrupters = {p2}
    TimelyPeers = {}
    DeadPeers = {}
    SlowReaders = {}
    MaxPermits = 2
    MaxAsked = 1
    MaxChecks = 2

INVARIANTS
    TypeOK
    NoPieceForgotten
    NeededNotReserved
    StagesAgree
    CountedOnce
    AvailabilityNotUnderCounted

PROPERTIES
    RefinesLifecycle

SYMMETRY PieceSymmetry

CHECK_DEADLOCK FALSE
