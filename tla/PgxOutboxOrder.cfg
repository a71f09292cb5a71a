SPECIFICATION Spec
CONSTANTS
  Relays = {r1}
  Event = {1, 2}
  Txn = {1}
  TxnOf <- MCOneTxn
  Position <- MCPosition
  MaxAttempts = 2
  Lease = 2
  BatchSize = 2
  Poison = {}
  RetryDelays <- MCDelays
  FailureBound = 2
  MaxFaults = 0
PROPERTY
  OrderPreserved
