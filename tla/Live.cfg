SPECIFICATION LiveSpec
CONSTANTS
    Jobs = {j1, j2}
    NoJob = NoJob
    MaxStops = 1
    RequeueInHand = FALSE
    Preps = {p1}
    Threads = {t1, t2}
    Job = Job
    MaxCrashes = 1
    StoreErrors = FALSE
    MaxCommands = 3
INVARIANTS LanesAreSound OutcomeIsTrue
PROPERTIES JobsAreServed LeasesSettle RunnerAnswers
CHECK_DEADLOCK FALSE
