SPECIFICATION Spec

CONSTANTS
    ByteBits = 2
    Lengths <- SpareOrFull
    Capacity = 1
    MaxSaid = 3
    MaxMessages = 4
    MaxShort = 1

INVARIANTS
    TypeOK
    CountExact
    LearnsMirrored
    HeardAsSent

PROPERTIES
    ReadAsSaid
    ImplementsPeerView

CHECK_DEADLOCK FALSE
