CONSTANTS
    c1 = c1
    c2 = c2
    b1 = b1
    Core = {c1, c2}
    Interfaces = {{"step"}, {"step", "operate"}}
    MaxEvents = 3
    Byte = {b1}
    IntLimit = 64
    Words <- OneWord
    Loads <- WordAccess
    Stores <- WordAccess
    Modes = {"user"}
    LoadTypes = {"vanilla"}
    StoreTypes = {"vanilla"}
    InitialStatus = {"OFF"}
    ReleaseVars = {0}
    LogicalToPhysical <- Identity
    MaxPosted = 1
    MaxReturns = 0
SPECIFICATION ReportingSpec
INVARIANTS CountedInOrder DepthTracksRunning AnswersBelong ConfirmedAreCounted
PROPERTIES CallsReturn ImplementsTelemetry
