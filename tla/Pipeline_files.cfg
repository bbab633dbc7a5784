SPECIFICATION Spec
CONSTANTS
    Selections <- MCSelections
    Initial <- MCInitial
    Images = {i1, i2}
    Hosts <- MCHosts
    Taken = {"n"}
    MaxMade = 40
    MaxStops = 1
    MaxRevisions = 2
    MaxDamages = 1
INVARIANTS
    ReleaseIsCurrent
    EvidenceIsOfTheRelease
    SourceChecked
    ImagesAreTrue
SYMMETRY ImageSymmetry
CHECK_DEADLOCK FALSE
