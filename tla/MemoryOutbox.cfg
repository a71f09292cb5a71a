SPECIFICATION FairSpec
CONSTANTS
  Relays = {r1, r2}
  Event = {1, 2, 3}
  Batches <- MCTwoCalls
  MaxSize = 2
  FirstId = 8
  StageUntil = 1
  MaxAttempts = 2
  BatchSize = 2
  Poison = {2}
  RetryDelays = {1}
  FailureBound = 0
  MaxFaults = 2
  MaxStops = 1
INVARIANTS
  NeverOverfull
  SoleRelayExact
PROPERTY
  DeliversAtLeastOnce
