SPECIFICATION FairSpec
CONSTANTS
  MaxClaims = 1
  Handlers = {h1}
  CoolingEnabled = TRUE
  MaxCrashes = 1
CHECK_DEADLOCK FALSE
PROPERTIES
  DeletedStaysDeleted
  CoolingEnds
  ImplementsPromise
