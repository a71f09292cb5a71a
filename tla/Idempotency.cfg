SPECIFICATION FairSpec
CONSTANTS
  Requests = {1, 2, 3}
  Fingerprint <- MCFingerprint
  LeaseTTL = 2
  Retention = 2
  ClientRetries = TRUE
  MaxFaults = 2
INVARIANTS
  ExecutionsPaid
  AnswersMatchRequest
  ConflictStoredNothing
PROPERTIES
  CompletedIsFinal
  EveryRequestEnds
CHECK_DEADLOCK FALSE
