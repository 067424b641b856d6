\* A settlement of an earlier execution's effect.
SPECIFICATION ExecSpec
CONSTANTS
    Tasks = {t1}
    Delegations = {d1, d2}
    Attempts = {a1}
    MaxRevision = 2
    None = None
    Commands = {c1, c2}
    Host = Host
    MaxTurns = 2
    MaxCommands = 4
    MaxRestarts = 0
    StorageFails = FALSE
PROPERTIES SettlementCompletes
CHECK_DEADLOCK FALSE
