SPECIFICATION FairMaintenanceSpec
CONSTANTS
    Threads <- MCThreads
    Processes <- MCProcesses
    ProcessOf <- MCProcessOf
    Ops <- MCOps
    Paths <- MCPaths
    TargetsOf <- MCTargetsOf
    KindOf <- MCKindOf
    Workspace = "workspace"
    MaxCrashes = 3
    Worlds <- BothWorlds
INVARIANT JournalIsTrue
PROPERTIES KeepsPromise ServiceReturnsCalm OperationsSettle
CHECK_DEADLOCK FALSE
