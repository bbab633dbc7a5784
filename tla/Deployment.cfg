SPECIFICATION FairSpec
CONSTANTS
    MaxReleases = 2
    MaxFaults = 3
    MaxJobs = 1
INVARIANTS
    NoHalfIsUsed
    OnePackageManager
PROPERTIES
    JobsAreLeftAlone
    WorkIsKept
    ImplementsAtomicRuntime
    ServicesComeBack
CHECK_DEADLOCK FALSE
