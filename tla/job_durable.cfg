SPECIFICATION JobSpec
CONSTANTS
    pic = pic
    other = other
    saved = saved
    DefaultPath = DefaultPath
    Null = Null
    EmptyPath = EmptyPath
    NoRow = NoRow
    NoFile = NoFile
    Icon = Icon
    Torn = Torn
    Blank = Blank
    NoJob = NoJob
    Media <- OneMedium
    Kind <- ExifKind
    Orient <- Sideways
    SavePaths = {saved}
    Faults <- DurableFaults
INVARIANTS
    ListedIsWhole
    SizeOfOriginal
    PicturesTurned
