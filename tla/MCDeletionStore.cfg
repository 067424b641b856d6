\* Two requests for one text and two participants of the host and a client; two
\* rounds that read and queue what is said.
SPECIFICATION Spec
CONSTANTS
    r1 = r1
    r2 = r2
    Requests = {q1, q2}
    Texts = {secret}
    Purposes = {privacy, security}
    Local = {host, disk}
    Clients = {device}
    HostTransient = host
    Rows = {1}
    Uses = {}
    PageSize = 1
    MaxSweep = 2
    None = None
SYMMETRY Symmetric
INVARIANTS DeletionTypeOK ValidRows OneOperationPerText HostCopiesSafe
PROPERTIES CompletedIsFinal CompletedLeavesNoCopy
CHECK_DEADLOCK FALSE
