SPECIFICATION FairSpec
CONSTANTS
  Topics = {"placed", "shipped"}
  Callers = {"placed", "shipped"}
  Messages = 2
  Poison <- MCPoison
  MaxFailures = 1
  MaxRequests = 1
  Keys = {"a", "b"}
  MaxSize = 1
  TTL = 1
  MaxTime = 2
  EventOf <- MCEventOf
INVARIANTS
  EndedIsClean
  AcknowledgedIsHandled
  NobodyForgets
  DuplicatesExcused
  ClosedAfterUse
PROPERTIES
  EventuallyHandled
  ShutdownCompletes
CHECK_DEADLOCK FALSE
