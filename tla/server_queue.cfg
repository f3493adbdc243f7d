SPECIFICATION FairServerSpec
CONSTANTS
    pic = pic
    other = other
    saved = saved
    DefaultPath = DefaultPath
    Null = Null
    EmptyPath = EmptyPath
    NoRow = NoRow
    NoFile = NoFile
    Icon = Icon
    Torn = Torn
    Blank = Blank
    NoJob = NoJob
    Closed = Closed
    Waiting = Waiting
    Nobody = Nobody
    Media <- TwoMedia
    Kind <- TwoImages
    Orient <- TwoUpright
    SavePaths = {}
    Faults <- QueueFaults
    Clients = {c1, c2}
    SockSize = 2
INVARIANTS
    ServerOK
    ArrayLive
    NoStrandedWork
PROPERTIES
    QueueSpec
CHECK_DEADLOCK FALSE
