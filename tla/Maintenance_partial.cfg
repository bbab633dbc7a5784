SPECIFICATION FairMaintenanceSpec
CONSTANTS
    Threads <- MCThreads
    Processes <- MCProcesses
    ProcessOf <- MCProcessOf
    Ops <- MCOps
    Paths <- MCPaths
    TargetsOf <- MCTargetsOf
    KindOf <- MCKindOf
    Workspace = "workspace"
    MaxCrashes = 1
    Worlds <- SlowWorld
PROPERTY ServiceReturns
CHECK_DEADLOCK FALSE
