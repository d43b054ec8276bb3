CONSTANTS
  Caller = {c1, c2}
  Pipe = 1
  BufferSize = 1
  MaxCalls = 3
  None = None
SPECIFICATION FairSpec
INVARIANTS
  TypeOK
  OneOfEach
  NoPanicInOrder
  AllClosed
PROPERTIES
  Ends
\* The number of calls is bounded, and a panic ends the program.
CHECK_DEADLOCK FALSE
