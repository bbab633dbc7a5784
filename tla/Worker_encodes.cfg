SPECIFICATION FairWorkerSpec
CONSTANTS
    Jobs = {j1, j2}
    NoJob = NoJob
    MaxStops = 0
    RequeueInHand = TRUE
INVARIANT NoTwoEncodes
CHECK_DEADLOCK FALSE
