SPECIFICATION BillingFairSpec
CONSTANTS
  Handlers = {h1, h2}
  Replicas = {j1, j2}
  MaxRequests = 2
  Wants <- ProThenPremium
  MaxSubs = 2
  MaxDeaths = 1
CHECK_DEADLOCK FALSE
INVARIANT BooksBalance
PROPERTY EndedExpires
