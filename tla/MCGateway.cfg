SPECIFICATION GatewaySpec
CONSTANTS
    None = None
    Gateways = {gd, g1}
    Default = gd
    Endpoints = {e1, e2}
    Clients = {c1}
    firstEndpoint = e1
    NetOf <- SharedNetwork
    MaxIssued = 2
    MaxRev = 3
    MaxReports = 1
    SaveResults = {TRUE, FALSE}
    LoadResults = {TRUE, FALSE}
CONSTRAINT Scenarios
INVARIANTS
    GrantsApproved
    RevisionComplete
    
CHECK_DEADLOCK FALSE
