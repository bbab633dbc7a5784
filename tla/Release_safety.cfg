SPECIFICATION ReleaseSpec
CONSTANTS
    Preps = {p1, p2}
    Threads = {t1, t2}
    Job = Job
    MaxCrashes = 1
    StoreErrors = TRUE
SYMMETRY Symmetry
INVARIANTS FilesStayInPlace
PROPERTIES EffectsHappenOnce OutcomeOutlivesRow
CHECK_DEADLOCK FALSE
