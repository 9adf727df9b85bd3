SPECIFICATION DebugFairSpec
CONSTANTS
    a1 = a1
    a2 = a2
    c1 = c1
    c2 = c2
    s1 = s1
    s2 = s2
    d1 = d1
    d2 = d2
    Admins = {a1, a2}
    Clients <- ClientsDef
    IpOf <- IpOfDef
    DevOf <- DevOfDef
    NoClient = NoClient
    NoDevice = NoDevice
    Queries <- QueriesDef
    Streams <- StreamsDef
    ClientOf <- ClientOfDef
    WatchIds = {0, 9}
    Chosen = {0, 9}
    NameRank <- RankInOrder
    NoWatch = NoWatch
    Stamps = {1}
    Keep = 1
    Successes = {TRUE}
    Repeats = {TRUE}
    Movers <- MoversDef
    MaxRequests = 2
    MaxAnswers = 2
INVARIANTS
    NoLeakedWaiter
    OwnAnswer
    SendNeverBlocks
    ActiveIndexed
PROPERTIES
    CommandsEnd
