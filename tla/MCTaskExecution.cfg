\* One task, two executions with two effects each, a restart: the turns, the
\* claims and the shutdown.
SPECIFICATION ExecSpec
CONSTANTS
    Tasks = {t1}
    Delegations = {d1, d2}
    Attempts = {a1, a2}
    MaxRevision = 2
    None = None
    Commands = {c1, c2}
    Host = Host
    MaxTurns = 2
    MaxCommands = 3
    MaxRestarts = 1
    StorageFails = TRUE
SYMMETRY ExecSymmetry
INVARIANTS ExecInvariant EffectsAccounted OneDelegationPerRevision
PROPERTIES NoWorkOutOfTurn
CHECK_DEADLOCK FALSE
