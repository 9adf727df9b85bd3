SPECIFICATION AuthSpec
CONSTANTS
    Users = {u1}
    Devices = {d1, d2}
    Keys = {k1}
    Tickets = {t1}
    Codes = {}
    Bases = {}
    NetOf <- PersonalNetworks
    MaxChallenges = 2
    SaveResults = {TRUE}
    JSONStore = FALSE
    None = None
SYMMETRY Symmetry
INVARIANT TicketSingleUse
