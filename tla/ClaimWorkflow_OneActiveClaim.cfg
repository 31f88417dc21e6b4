SPECIFICATION Spec
CONSTANTS
  MaxClaims = 2
  Handlers = {h1, h2}
  CoolingEnabled = TRUE
  MaxCrashes = 0
CHECK_DEADLOCK FALSE
INVARIANT OneActiveClaim
