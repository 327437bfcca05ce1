SPECIFICATION FairSpec
CONSTANTS
    MaxCells = 2
    MaxWorkers = 4
    MaxCalls = 1
    MaxCrashes = 1
    CellTimeout = TRUE
    BrokerTimeout = TRUE
    Recoveries = {"restart_empty", "disabled"}
    OneSession = TRUE
    MayCancel = TRUE
    MayCancelClose = FALSE
    MayTamper = FALSE
    SyncClose = "idle"
    Lingers = TRUE
INVARIANT NoOrphan
PROPERTY ClosedForGood
PROPERTY CellsAnswered
PROPERTY TornDown
CHECK_DEADLOCK FALSE
