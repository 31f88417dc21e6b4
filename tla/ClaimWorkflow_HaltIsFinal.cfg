SPECIFICATION Spec
CONSTANTS
  MaxClaims = 1
  Handlers = {h1}
  CoolingEnabled = TRUE
  MaxCrashes = 0
CHECK_DEADLOCK FALSE
PROPERTY HaltIsFinal
