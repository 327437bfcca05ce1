SPECIFICATION Spec
CONSTANTS
    MaxCells = 3
    MaxWorkers = 5
    MaxCalls = 2
    MaxCrashes = 1
    CellTimeout = TRUE
    BrokerTimeout = TRUE
    Recoveries = {"restart_empty", "disabled"}
    OneSession = FALSE
    MayCancel = FALSE
    MayCancelClose = TRUE
    MayTamper = TRUE
    SyncClose = "any"
    Lingers = FALSE
INVARIANT RepliesReachCallers
INVARIANT CleanHandover
PROPERTY EffectsWhileAwaited
CHECK_DEADLOCK FALSE
