SPECIFICATION ImageSpec
CONSTANTS
    Files <- SomeFiles
    FILE_READ_SIZE = 32
    Beyond <- StackBytes
    Buffers = {b1, b2, b3}
    NULL = NULL
    Unused = Unused
    NoExif = NoExif
    NoThumb = NoThumb
    Mirrored = Mirrored
    LARGE_WIDTH = 8
    LARGE_HEIGHT = 6
    SMALL_WIDTH = 4
    SMALL_HEIGHT = 3
    MaxPixels = 200
    IntMax = 1000
    Fails <- SoundFails
SYMMETRY AnyBuffer
INVARIANTS
    StreamCoherent
    HeaderRight
    HeaderBounded
    ImageOK
    BuffersOwned
    ObjectsClosed
    PictureWhole
    ThumbFits
PROPERTIES
    HeaderAdvances
    BlocksFollowed
