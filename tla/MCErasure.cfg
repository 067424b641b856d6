\* One request for a text of two rows, both used; a client of two connections,
\* one that two deletions ask, and both; two messages and the experiences they
\* are made into; one connection with queues of one frame, and four frames of
\* the host.
SPECIFICATION Spec
SYMMETRY Alike
CONSTANTS
    o1 = o1
    o2 = o2
    r1 = r1
    r2 = r2
    Requests = {q1}
    Texts = {secret}
    Purposes = {privacy}
    Local = {host}
    Clients = {}
    HostTransient = host
    Rows = {1, 2}
    Uses = {f1}
    PageSize = 1
    MaxSweep = 2
    None = None
INVARIANTS CoveredUsesHeld ReconciledRowsCovered EvidenceSafe LearnedSafe ClientSafe
PROPERTIES CompletedClientWiped
CHECK_DEADLOCK FALSE
