SPECIFICATION ExitSpec
CONSTANTS
    n1 = n1
    n2 = n2
    g1 = g1
    g2 = g2
    x1 = x1
    x2 = x2
    y1 = y1
    A = A
    B = B
    Nodes = {n1, n2}
    Candidates = {n1}
    Slots <- SlotsDef
    NetOf <- NetOfDef
    IpOf <- IpOfDef
    Workers = {g1, g2}
    NoNode = NoNode
    NoSlot = NoSlot
SYMMETRY WorkerSymmetry
INVARIANTS
    ApprovalsAgree
PROPERTIES
    AnnouncedApproved
    ReadinessNotInherited
