CONSTANTS
  Caller = {c1, c2}
  Pipe = 1
  BufferSize = 1
  MaxCalls = 2
  None = None
SPECIFICATION FairSpec
PROPERTIES
  CloseReturns
\* The number of calls is bounded, and a panic ends the program.
CHECK_DEADLOCK FALSE
