SPECIFICATION FairSpec
CONSTANTS
  Jobs = {"mail", "other"}
  Requests <- MCRequests
  Handled <- MCHandled
  Workers = {"w1", "w2"}
  Concurrency = 1
  MaxRetry = 1
  Horizon = 2
  RetryDelays = {1}
  MaxFaults = 1
  MaxStops = 1
INVARIANTS
  DeliveredAsAsked
  OutcomesEarned
PROPERTIES
  RunEndsNil
  EventuallyResolved
CHECK_DEADLOCK FALSE
