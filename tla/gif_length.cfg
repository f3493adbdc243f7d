SPECIFICATION HeaderSpec
CONSTANTS
    Files <- TextGifs
    FILE_READ_SIZE = 32
    Beyond <- StackBytes
INVARIANTS
    LengthInBuffer
CHECK_DEADLOCK FALSE
