SPECIFICATION PunchFairSpec
CONSTANTS
    n1 = n1
    a = a
    b = b
    None = None
    Networks = {n1}
    Addrs = {a, b}
    StatusReports <- QuietReports
    Requests = TRUE
    Answers = {"accept", "reject", "success", "failed", "timeout"}
    MaxAttempts = 1
    MaxSessions = 1
PROPERTIES
    OverdueEnds
CHECK_DEADLOCK FALSE
