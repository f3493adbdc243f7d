SPECIFICATION FairIpcSpec
CONSTANTS
    pic = pic
    other = other
    saved = saved
    DefaultPath = DefaultPath
    Null = Null
    EmptyPath = EmptyPath
    NoRow = NoRow
    NoFile = NoFile
    Icon = Icon
    Torn = Torn
    Blank = Blank
    NoJob = NoJob
    Closed = Closed
    Waiting = Waiting
    Nobody = Nobody
    app = app
    App <- OneApp
    Cut = Cut
    NoPath = NoPath
    Media <- OneMedium
    Kind <- OneImage
    Orient <- OneUpright
    SavePaths = {}
    Faults <- ServiceFaults
    Clients = {c1, c2}
    SockSize = 2
    LongPaths <- AllHashPaths
PROPERTIES
    ServiceSpec
    AsyncAnswered
CHECK_DEADLOCK FALSE
