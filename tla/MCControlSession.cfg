SPECIFICATION SessionSpec
CONSTANTS
    Networks = {n1}
    Devices = {d1}
    Addrs = {a1, a2}
    Sessions = {s1, s2}
    group = g
    GroupOf <- OneGroup
    LastHost = 2
    Gateway = 0
    Reserved = {}
    EpochMod = 65536
    MaxEpoch = 12
    MaxRegs = 1
    Requests = {1, 2}
    Reports = {FALSE}
    Deletable = {d1}
    NoClient = NoClient
    NoSession = NoSession
    NoNetwork = NoNetwork
INVARIANTS HubConsistent EndedUnrouted OpenSessionRouted
PROPERTY ClosedSessionEnds
