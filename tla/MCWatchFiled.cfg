SPECIFICATION DebugSpec
CONSTANTS
    a1 = a1
    c1 = c1
    c2 = c2
    s1 = s1
    s2 = s2
    d1 = d1
    d2 = d2
    Admins = {a1}
    Clients <- OneClient
    IpOf <- OneIp
    DevOf <- OneDev
    NoClient = NoClient
    NoDevice = NoDevice
    Queries <- OneQuery
    Streams <- OneStream
    ClientOf <- OneClientOf
    WatchIds = {0, 9, 10}
    Chosen = {9, 10}
    NameRank <- NameRankDef
    NoWatch = NoWatch
    Stamps = {1}
    Keep = 1
    Successes = {TRUE}
    Repeats = {FALSE}
    Movers = {}
    MaxRequests = 2
    MaxAnswers = 2
CHECK_DEADLOCK FALSE
INVARIANT
    StartedWatchFiled
