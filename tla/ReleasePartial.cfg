CONSTANTS
    c1 = c1
    c2 = c2
    c3 = c3
    b1 = b1
    b2 = b2
    Core = {c1, c2}
    Byte = {b1, b2}
    IntLimit = 64
    Words <- OneWord
    Loads <- LaneLoads
    Stores <- LaneStores
    Modes = {"user"}
    LoadTypes = {"vanilla"}
    StoreTypes = {"vanilla"}
    InitialStatus = {"OFF"}
    ReleaseVars = {32}
    LogicalToPhysical <- PhysicalOf
    MaxPosted = 1
    MaxReturns = 0
SYMMETRY Symmetry
SPECIFICATION Spec
INVARIANT SnapshotsCurrent
