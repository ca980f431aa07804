SPECIFICATION LiveSpec

CONSTANTS
    Pieces = {i1, i2}
    Blocks = {b1, b2}
    AvailModulus = 1
    Peers = {p1, p2}
    NoPiece = NoPiece
    Cap = 1
    OverflowChecks = FALSE
    Chokers = {}
    Corrupters = {}
    TimelyPeers = {}
    DeadPeers = {}
    SlowReaders = {p2}
    MaxPermits = 2
    MaxAsked = 1
    MaxChecks = 2

INVARIANTS
    ReservedIsWatched
    PermitsWithinCap

PROPERTIES
    ReservationResolved
