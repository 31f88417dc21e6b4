SPECIFICATION FairSpec
CONSTANTS
  Tabs = {t1}
  MaxClaims = 2
  MaxCalls = 2
  CoolingEnabled = TRUE
INVARIANTS
  CodeBeforeClaim
PROPERTIES
  TabSettles
