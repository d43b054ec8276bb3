CONSTANTS
  Caller = {c1, c2, c3}
  Path = {p1}
  MaxVersion = 2
  EnableCache = TRUE
  None = None
SPECIFICATION Spec
SYMMETRY Symmetry
INVARIANTS
  TypeOK
  DrainedWhenClosed
  EmptyAfterClose
  StaleOnlyByLateFill
