\* Two connections and two commands, a reply of two pieces, a text of six symbols
\* and a credential in it; two publications of three secrets of one credential,
\* a text and a call.
SPECIFICATION MCSpec
CONSTANTS
    None = None
    d1 = d1
    m1 = m1
    m2 = m2
    m3 = m3
    m4 = m4
    lt = lt
    word = word
    gt = gt
    space = space
    other = other
    masked = masked
    c1 = c1
    s1 = s1
    s2 = s2
    Credentials = {c1}
    Mutations = {1, 2, 3}
    Secrets = {s1, s2}
    Callers = {1, 2}
    Writers = {1}
    Calls = {1}
    MaxTexts = 1
    MaxCrashes = 1
    MaxErasures = 1
    MaxLocked = 1
SYMMETRY Symmetry
INVARIANTS ConversationKept ShownIsStored OneWinner CredentialsSafe
CHECK_DEADLOCK FALSE
