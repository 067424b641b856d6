\* Two connections of two devices, three frames, two rows to present.
SPECIFICATION MCSpec
CONSTANTS
    None = None
    c1 = c1
    c2 = c2
    d1 = d1
    d2 = d2
    p1 = p1
    p2 = p2
    Conns = {c1, c2}
    Devices = {d1, d2}
    Pendings = {p1, p2}
    MaxPendingPairings = 1
    MaxGeneration = 4
    MaxRestarts = 1
    StorageFails = TRUE
    Erasures = TRUE
SYMMETRY Symmetry
INVARIANTS CurrentExact HandshakeSafe DeliverySafe
PROPERTIES NoRepeatByPush
CHECK_DEADLOCK FALSE
