SPECIFICATION FairSpec
CONSTANTS
    MaxCells = 1
    MaxWorkers = 2
    MaxCalls = 0
    MaxCrashes = 0
    CellTimeout = TRUE
    BrokerTimeout = TRUE
    Recoveries = {"restart_empty"}
    OneSession = TRUE
    MayCancel = TRUE
    MayCancelClose = TRUE
    MayTamper = FALSE
    SyncClose = "idle"
    Lingers = FALSE
PROPERTY TornDown
CHECK_DEADLOCK FALSE
