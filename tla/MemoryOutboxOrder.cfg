SPECIFICATION Spec
CONSTANTS
  Relays = {r1}
  Event = {1, 2}
  Batches <- MCOneCall
  MaxSize = 0
  FirstId = 8
  StageUntil = 1
  MaxAttempts = 2
  BatchSize = 2
  Poison = {}
  RetryDelays = {1}
  FailureBound = 0
  MaxFaults = 0
  MaxStops = 0
INVARIANT
  StageOrderFetched
