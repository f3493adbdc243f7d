SPECIFICATION FairServerSpec
CONSTANTS
    pic = pic
    other = other
    saved = saved
    DefaultPath = DefaultPath
    Null = Null
    EmptyPath = EmptyPath
    NoRow = NoRow
    NoFile = NoFile
    Icon = Icon
    Torn = Torn
    Blank = Blank
    NoJob = NoJob
    Closed = Closed
    Waiting = Waiting
    Nobody = Nobody
    Media <- OneMedium
    Kind <- OneImage
    Orient <- OneUpright
    SavePaths = {}
    Faults <- JobFaults
    Clients = {c1, c2}
    SockSize = 2
PROPERTIES
    QueuedGetThumb
    RequestsAnswered
CHECK_DEADLOCK FALSE
