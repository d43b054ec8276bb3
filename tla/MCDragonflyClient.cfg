CONSTANTS
  Caller = {c1, c2}
  Config <- MCConfig
  Latency <- MCLatency
  MaxRetries = 1
  MaxCalls = 3
  MaxChecks = 2
SPECIFICATION FairSpec
INVARIANTS
  TypeOK
  ClientsAccounted
  LifecycleSound
  HealthAgrees
  SnapshotSound
PROPERTIES
  Ends
\* The numbers of calls and of health checks are bounded.
CHECK_DEADLOCK FALSE
