SPECIFICATION JobSpec
CONSTANTS
    pic = pic
    other = other
    saved = saved
    DefaultPath = DefaultPath
    Null = Null
    EmptyPath = EmptyPath
    NoRow = NoRow
    NoFile = NoFile
    Icon = Icon
    Torn = Torn
    Blank = Blank
    NoJob = NoJob
    Media <- TwoMedia
    Kind <- ExifAndNone
    Orient <- DownAndUpright
    SavePaths = {saved}
    Faults <- FileFaults
INVARIANTS
    TypeOK
    ConnsBalanced
    OwnFiles
    AnswerNamesFile
PROPERTIES
    IconKept
