CONSTANTS
    c1 = c1
    c2 = c2
    c3 = c3
    b1 = b1
    b2 = b2
    Core = {c1, c2}
    Byte = {b1, b2}
    IntLimit = 4
    Words <- HighWord
    Loads <- HighLoads
    Stores <- HighStores
    Modes = {"user"}
    LoadTypes = {"vanilla"}
    StoreTypes = {"vanilla"}
    InitialStatus = {"OFF"}
    ReleaseVars = {}
    LogicalToPhysical <- PhysicalOf
    MaxPosted = 1
    MaxReturns = 0
SYMMETRY Symmetry
SPECIFICATION Spec
INVARIANT Opacity
