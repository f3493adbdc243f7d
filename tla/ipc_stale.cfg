SPECIFICATION IpcSpec
CONSTANTS
    pic = pic
    other = other
    saved = saved
    DefaultPath = DefaultPath
    Null = Null
    EmptyPath = EmptyPath
    NoRow = NoRow
    NoFile = NoFile
    Icon = Icon
    Torn = Torn
    Blank = Blank
    NoJob = NoJob
    Closed = Closed
    Waiting = Waiting
    Nobody = Nobody
    app = app
    App <- OneApp
    Cut = Cut
    NoPath = NoPath
    Media <- TwoMedia
    Kind <- TwoImages
    Orient <- TwoUpright
    SavePaths = {}
    Faults <- SendFault
    Clients = {c1, c2}
    SockSize = 2
    LongPaths = {}
INVARIANTS
    ResultOwn
CHECK_DEADLOCK FALSE
