SPECIFICATION Spec
CONSTANTS
  Relays = {r1, r2}
  Event = {1, 2}
  Txn = {1}
  TxnOf <- MCOneTxn
  Position <- MCPosition
  MaxAttempts = 2
  Lease = 2
  BatchSize = 2
  Poison = {2}
  RetryDelays <- MCDelays
  FailureBound = 2
  MaxFaults = 2
SYMMETRY Symmetry
INVARIANTS
  NothingLost
  NothingPremature
  DeadLetterOnce
  BudgetUsedExactly
  DisturbancesPriced
  Inductive
PROPERTY
  LeaseRespected
