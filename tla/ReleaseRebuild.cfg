\* Nothing but the program touches the files.
SPECIFICATION KitSpec
CONSTANTS
  Pieces = 2
  MaxEdits = 0
  MaxBuilds = 2
  MaxSendings = 1
  MaxKitCrashes = 0
INVARIANT FailedCanBeBuilt
CHECK_DEADLOCK FALSE
