SPECIFICATION IpcSpec
CONSTANTS
    pic = pic
    other = other
    saved = saved
    DefaultPath = DefaultPath
    Null = Null
    EmptyPath = EmptyPath
    NoRow = NoRow
    NoFile = NoFile
    Icon = Icon
    Torn = Torn
    Blank = Blank
    NoJob = NoJob
    Closed = Closed
    Waiting = Waiting
    Nobody = Nobody
    app = app
    App <- OneApp
    Cut = Cut
    NoPath = NoPath
    Media <- TwoMedia
    Kind <- TwoImages
    Orient <- TwoUpright
    SavePaths = {saved}
    Faults <- CloseFaults
    Clients = {c1, c2}
    SockSize = 2
    LongPaths = {}
INVARIANTS
    IpcOK
    OwnUnlessLeft
    DescriptorsClosed
CHECK_DEADLOCK FALSE
