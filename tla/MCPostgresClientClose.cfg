CONSTANTS
  Caller = {c1, c2, m}
  Monitor = m
  MaxConns = 2
  Nested = {"exec"}
  MaxCalls = 3
  None = None
SPECIFICATION FairSpec
PROPERTIES
  CloseReturns
\* The number of calls is bounded, and goroutines may wait for each other.
CHECK_DEADLOCK FALSE
