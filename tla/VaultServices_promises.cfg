SPECIFICATION ServicesSpec
CONSTANTS
  Proposals = {p1, p2}
  Custodians = {c1, c2, c3}
  Thresholds = {1, 2}
  Timelocks = {0, 2}
  MaxTime = 3
  MaxRestarts = 1
  Callers = {s1, s2}
  TotalShards = 2
  ThresholdChoices = {2}
  Timelock = 1
  MaxHours = 2
  MaxSetups = 2
  MaxCrashes = 1
  Handlers = {h1, h2}
  AssetLimit = 2
  StorageLimit = 3
  Sizes = {0, 1, 2}
  MaxSaves = 4
  MaxStops = 1
  Recorders = {r1, r2, r3}
  MaxEntries = 4
SYMMETRY RequestSymmetry
INVARIANTS
  AbortedIsScrubbed
  EscrowHoldsKey
  EscrowedKeyIsOwners
  RecoveredAfterTimelock
  OverrunBounded
  BytesCharged
  RecordedInTurnVerifies
  ChainedToOlder
  ForkPerRecorder
PROPERTIES
  ImplementsPromise
CHECK_DEADLOCK FALSE
