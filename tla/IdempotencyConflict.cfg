SPECIFICATION Spec
CONSTANTS
  Requests = {1, 2, 3}
  Fingerprint <- MCFingerprint
  LeaseTTL = 2
  Retention = 2
  ClientRetries = TRUE
  MaxFaults = 1
INVARIANT
  ConflictIsCertain
CHECK_DEADLOCK FALSE
