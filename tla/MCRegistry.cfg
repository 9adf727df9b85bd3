SPECIFICATION RegistrySpec
CONSTANTS
    Networks = {n1, n2}
    Devices = {d1, d2}
    Addrs = {a1, a2}
    group = g
    GroupOf <- OneGroup
    LastHost = 3
    Gateway = 1
    Reserved = {3}
    EpochMod = 65536
    MaxEpoch = 3
    NoClient = NoClient
INVARIANTS IndexConsistent ReservationHeld OfflineClean
PROPERTIES AddressProtected EpochCoversRoster
SYMMETRY Symmetry
