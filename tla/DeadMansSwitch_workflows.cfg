SPECIFICATION FairSpec
CONSTANTS
  WaitPeriod = 3
  Duration = 6
  MaxCrashes = 1
CHECK_DEADLOCK FALSE
INVARIANTS
  OneLinkPerAbsence
  RemindersBounded
PROPERTIES
  LinkOnlyAfterAbsence
  CallBeforeLink
  GoneOwnerNoticed
