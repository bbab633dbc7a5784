SPECIFICATION Spec
CONSTANTS
    NumJobs = 2
    Priorities = {0, 1}
    ProgressReports = {53}
    MaxVersion = 10
    MaxRevision = 4
    MaxScans = 1
    SharedVersions = 10
    SharedRevisions = 4
CONSTRAINT Bounded
INVARIANTS ControlMatchesStage Provenance ResumeWellFounded ProgressReachesStage
PROPERTIES ImplementsLifecycle ControlIsHeeded LocksAreSound DecisionsAreCarriedOut
CHECK_DEADLOCK FALSE
