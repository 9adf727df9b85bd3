SPECIFICATION PunchSpec
CONSTANTS
    n1 = n1
    a = a
    b = b
    None = None
    Networks = {n1}
    Addrs = {a, b}
    StatusReports <- AnyReports
    Requests = FALSE
    Answers = {"failed"}
    MaxAttempts = 1
    MaxSessions = 2
SYMMETRY AddrSymmetry
INVARIANTS
    PunchTypeOK
    
    OneManualPunch
    
CHECK_DEADLOCK FALSE
