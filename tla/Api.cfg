SPECIFICATION FairSpec
CONSTANTS
  Configs <- MCConfigs
  Tokens <- MCTokens
  Requests = {1}
  Objects <- MCObjects
  Dependencies = {"redis", "kafka"}
  Probes = {1}
  Names <- MCNames
  Values = {"v", "w"}
  TTLs <- MCTTLs
  Interval = 2
  Burst = 2
  MaxTime = 4
INVARIANTS
  ServedIsEntitled
  NobodyRefusedWrongly
  ReadinessHonest
  CacheIsolated
  QuotaIsExact
PROPERTIES
  ProbesAnswer
