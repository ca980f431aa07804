SPECIFICATION LiveSpec

CONSTANTS
    Pieces = {i1, i2}
    Blocks = {b1, b2}
    AvailModulus = 1
    Peers = {p1, p2, p3}
    NoPiece = NoPiece
    Cap = 1
    OverflowChecks = FALSE
    Chokers = {}
    Corrupters = {}
    TimelyPeers = {p1, p3}
    DeadPeers = {p2}
    SlowReaders = {}
    MaxPermits = 2
    MaxAsked = 1
    MaxChecks = 1

INVARIANTS
    NeverRefetched
    PermitsConserved

PROPERTIES
    EventuallySaved
