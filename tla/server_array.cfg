SPECIFICATION ServerSpec
CONSTANTS
    pic = pic
    other = other
    saved = saved
    DefaultPath = DefaultPath
    Null = Null
    EmptyPath = EmptyPath
    NoRow = NoRow
    NoFile = NoFile
    Icon = Icon
    Torn = Torn
    Blank = Blank
    NoJob = NoJob
    Closed = Closed
    Waiting = Waiting
    Nobody = Nobody
    Media <- OneMedium
    Kind <- OneImage
    Orient <- OneUpright
    SavePaths = {}
    Faults <- NoFaults
    Clients = {c1, c2}
    SockSize = 2
INVARIANTS
    DeletesArrayOnce
CHECK_DEADLOCK FALSE
