SPECIFICATION Spec
CONSTANTS
  MaxClaims = 1
  Handlers = {h1, h2}
  CoolingEnabled = TRUE
  MaxCrashes = 0
SYMMETRY HandlerSymmetry
CHECK_DEADLOCK FALSE
INVARIANTS
  StepsInOrder
  QueueNeedsDossier
  AssetsOnlyAfterApproval
