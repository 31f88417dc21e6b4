SPECIFICATION ServiceSpec
CONSTANTS
  MaxJobs = 2
  Workers = {w1, w2}
  Priority <- SecondFirst
  MaxRetries = 2
  MaxCrashes = 1
  MaxReplays = 1
  Owners = {o1, o2, o3}
  Ids = {1, 2, 3, 4}
  MaxExpiries = 2
  MaxDeaths = 1
INVARIANTS
  RetriesDecideStatus
  SoleWorker
  LeaseCoversWork
  LeaseKept
  NoLeftovers
  ExclusiveWhenOrdered
PROPERTIES
  JobSettles
  ImplementsPromise
CHECK_DEADLOCK FALSE
