CONSTANTS
    c1 = c1
    c2 = c2
    b1 = b1
    b2 = b2
    Core = {c1, c2}
    Byte = {b1, b2}
    IntLimit = 64
    Words <- TwoWords
    Loads <- MachineLoads
    Stores <- MachineStores
    BlockStores <- InBlocks
    OutsideStores <- OutsideBlocks
    Modes = {"user", "supervisor"}
    LoadTypes = {"vanilla", "other"}
    StoreTypes = {"vanilla", "other"}
    InitialStatus = {"OFF"}
    ReleaseVars = {32}
    LogicalToPhysical <- PhysicalOf
    MaxPosted = 1
    MaxReturns = 0
SYMMETRY Symmetry
SPECIFICATION MachineSpec
INVARIANTS OpacityOfTheTraced SnapshotsOfTheTraced
PROPERTIES CommitsAreSerializableWhereTraced
CHECK_DEADLOCK FALSE
