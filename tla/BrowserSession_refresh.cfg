SPECIFICATION FairSpec
CONSTANTS
  t1 = t1
  t2 = t2
  Tabs = {t1, t2}
  PinLimit = 3
  MaxCalls = 2
  MaxPins = 3
  Itineraries <- Journeys
INVARIANTS
  CacheNeverAhead
  LockNeedsTries
PROPERTIES
  WaitersReleased
