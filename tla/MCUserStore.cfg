CONSTANTS
    MaxVersion = 3
    Control = {1, 3}
    Sums = {"s", "edited"}
    NoSum = NoSum
    Builds <- Binaries
    NoTx = NoTx
    MaxKey = 2
    Rows <- Rows2
    NoRow = NoRow
    Column <- Cut
    BasicPolicy = "whole"
    NewUser = "whole"
    Operations <- Ops
    Seeds <- SeedFiles
    NoSeed = NoSeed
    BadSeed = BadSeed
    Backends = {"postgres", "json"}
    Torn = Torn
    Down = Down
    Idle = Idle
SPECIFICATION StoreSpec
INVARIANTS SuccessIsDurable EveryUserHasPolicy ServedSchema
PROPERTIES  ImplementsStore
