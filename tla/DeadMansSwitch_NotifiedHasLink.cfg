SPECIFICATION Spec
CONSTANTS
  WaitPeriod = 3
  Duration = 6
  MaxCrashes = 0
CHECK_DEADLOCK FALSE
INVARIANT NotifiedHasLink
