SPECIFICATION Spec
CONSTANTS
    Selections <- MCCrops
    Initial <- MCInitial
    Images = {i1, i2}
    Hosts <- MCHosts
    Taken = {}
    MaxMade = 40
    MaxStops = 1
    MaxRevisions = 2
    MaxDamages = 0
INVARIANT PreparationHolds
CHECK_DEADLOCK FALSE
