\* Two connections of a client, two deletions of one sweep each.
SPECIFICATION Spec
CONSTANTS
    Conns = {1, 2}
    Ops = {o1, o2}
    MaxBodies = 2
    MaxSweep = 1
    MaxFails = 0
    MaxRestarts = 0
    DemandIds = {1, 2}
    StashCap = 1
    None = None
INVARIANTS EvidenceOnRecord
CHECK_DEADLOCK FALSE
