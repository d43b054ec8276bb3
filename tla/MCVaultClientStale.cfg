CONSTANTS
  Caller = {c1, c2}
  Path = {p1}
  MaxVersion = 2
  EnableCache = TRUE
  None = None
SPECIFICATION Spec
INVARIANTS
  NoStaleAfterWrite
