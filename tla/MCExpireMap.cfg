SPECIFICATION MapFairSpec
CONSTANTS
    c1 = c1
    c2 = c2
    None = None
    Callers = {c1, c2}
    Ops = {"set", "try", "get", "delete"}
    TTL = 2
    MaxTime = 6
INVARIANTS
    MapsAgree
PROPERTIES
    ClaimsApart
    ExpiredRemoved
CHECK_DEADLOCK FALSE
