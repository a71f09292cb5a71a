SPECIFICATION FairSpec
CONSTANTS
  Relays = {r1, r2}
  Event = {1, 2}
  Txn = {1, 2}
  TxnOf <- MCOwnTxn
  Position <- MCPosition
  MaxAttempts = 2
  Lease = 2
  BatchSize = 2
  Poison = {2}
  RetryDelays <- MCDelays
  FailureBound = 1
  MaxFaults = 1
PROPERTIES
  EventuallyPublished
  DeliversAtLeastOnce
