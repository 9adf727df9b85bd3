SPECIFICATION AuthSpec
CONSTANTS
    Users = {u1, u2}
    Devices = {d1, d2}
    Keys = {k1, k2}
    Tickets = {t1, t2}
    Codes = {c1, c2}
    Bases = {b1}
    NetOf <- SharedNetwork
    MaxChallenges = 1
    SaveResults = {TRUE, FALSE}
    JSONStore = TRUE
    None = None
SYMMETRY Symmetry
CONSTRAINT Scenarios
INVARIANTS AuthTypeOK AuthorisedByTicket AckedTicketSpent EnrollmentSingleUse 
PROPERTIES  UnreadStoreKept
