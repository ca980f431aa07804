SPECIFICATION Spec

CONSTANTS
    ByteBits = 2
    Lengths <- SpareOrFull
    Capacity = 1
    MaxSaid = 1
    MaxMessages = 2
    MaxShort = 0

INVARIANT AnswersHeard

CHECK_DEADLOCK FALSE
