SPECIFICATION FairMaintenanceSpec
CONSTANTS
    Threads <- MCThreads
    Processes <- MCProcesses
    ProcessOf <- MCProcessOf
    Ops <- MCOps
    Paths <- MCPaths
    TargetsOf <- MCTargetsOf
    KindOf <- MCKindOf
    Workspace = "workspace"
    MaxCrashes = 0
    Worlds <- LateWorld
INVARIANT CommittedIsDetached
CHECK_DEADLOCK FALSE
