SPECIFICATION Spec

CONSTANTS
    MaxFiles = 3
    MaxFileLen = 3
    MaxTotal = 5
    Torrents <- MCTorrents
    MaxBuffer = 5
    MaxFailures = 1

INVARIANTS
    TypeOK
    SavedOnDisk
    RequestsTileTorrent
    AssertionsHold
    ServedFromDisk

PROPERTIES
    OthersUntouched
    ImplementsAssembly

CHECK_DEADLOCK FALSE
