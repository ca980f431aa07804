SPECIFICATION Spec

CONSTANTS
    Pieces = {i1}
    Blocks = {b1}
    AvailModulus = 1
    Peers = {p1}
    NoPiece = NoPiece
    Cap = 1
    OverflowChecks = FALSE
    Chokers = {p1}
    Corrupters = {}
    TimelyPeers = {}
    DeadPeers = {}
    SlowReaders = {}
    MaxPermits = 2
    MaxAsked = 1
    MaxChecks = 1

INVARIANTS
    ReservedIsWatched
