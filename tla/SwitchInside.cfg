CONSTANTS
    c1 = c1
    c2 = c2
    c3 = c3
    t1 = t1
    t2 = t2
    t3 = t3
    Core = {c1, c2}
    Byte <- MCByte
    IntLimit = 64
    Words <- MCWords
    Loads <- MCAccesses
    Stores <- MCAccesses
    Modes = {"user"}
    LoadTypes = {"vanilla"}
    StoreTypes = {"vanilla"}
    InitialStatus = {"OFF"}
    ReleaseVars = {}
    LogicalToPhysical <- Identity
    MaxPosted = 2
    MaxReturns = 0
    Counter <- MCCounter
    Thread = {t1, t2, t3}
    Rounds = 1
    SwitchInside = TRUE
SPECIFICATION GuestSpec
INVARIANT IncrementsCounted
CHECK_DEADLOCK FALSE
