CONSTANTS
  Caller = {c1, c2, m}
  Monitor = m
  MaxConns = 1
  Nested <- MCNested
  MaxCalls = 2
  None = None
SPECIFICATION FairSpec
INVARIANTS
  TypeOK
  DrainedWhenClosed
  NothingLeaked
  Accounted
PROPERTIES
  Ends
\* The number of calls is bounded, and goroutines may wait for each other.
CHECK_DEADLOCK FALSE
