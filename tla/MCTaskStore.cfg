\* Two tasks share two delegations and two attempts over three revisions.
SPECIFICATION StoreSpec
CONSTANTS
    Tasks = {t1, t2}
    Delegations = {d1, d2}
    Attempts = {a1, a2}
    MaxRevision = 3
    None = None
SYMMETRY StoreSymmetry
INVARIANTS StoreTypeOK AdoptionConsistent CompletionConfirmed StampExact OutboxComplete
PROPERTIES LifecycleSpec
CHECK_DEADLOCK FALSE
