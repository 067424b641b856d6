SPECIFICATION Spec
CONSTANTS
    None = None
    Requests = {r1}
    Queue = 1
    ControlCap = 1
    ReadAhead = 1
    DeferredCap = 2
    StashCap = 1
    Kinds = {"body", "demand"}
    MaxFrames = 4
    MaxPings = 1
    Defers = TRUE
    Parallel = TRUE
    WriteFails = FALSE
INVARIANTS DemandOrderKept
CHECK_DEADLOCK FALSE
