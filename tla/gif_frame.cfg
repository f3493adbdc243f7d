SPECIFICATION FairGifSpec
CONSTANTS
    GifFiles <- SomeGifs
    Memory <- AnyByte
    MAX_GIF_HEADER_SIZE = 100
    MaxBits = 4
    NoMemoryFor <- Blocks
INVARIANTS
    FrameOK
    FrameRight
    LinesInFrame
    ReadsInside
    BitsKept
    BlocksFreed
PROPERTIES
    FrameAdvances
    FrameReturned
CHECK_DEADLOCK FALSE
