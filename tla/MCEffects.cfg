\* Two calls of two providers over two days; an effect that creates, one that
\* replaces, and one beside a read.
SPECIFICATION MCSpec
CONSTANTS
    None = None
    c1 = c1
    c2 = c2
    e1 = e1
    e2 = e2
    Calls = {c1, c2}
    Providers = {"p1", "p2"}
    Rates = {3}
    Denominator = 3
    MaxTokens = 1
    Limits = {5}
    CapScopes = {"system", "p1"}
    MaxRevision = 1
    MaxConsent = 0
    MaxDay = 1
    DaysPerMonth = 2
    MaxU64 = 31
    MaxI64 = 15
    Honest = TRUE
    StoreFails = FALSE
    MaxCrashes = 0
SYMMETRY Symmetry
INVARIANTS AccountsKept EffectsSafe
PROPERTIES RisesWithinCaps
CHECK_DEADLOCK FALSE
