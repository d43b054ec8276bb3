CONSTANTS
  Caller = {c1, m}
  Path = {p1}
  MaxVersion = 1
  EnableCache = FALSE
  None = None
  Monitor = m
  Configs <- MCConfigs
  RenewBuffer = 1
SPECIFICATION FairBSpec
INVARIANTS
  NoDoubleClose
  RenewalOwned
PROPERTIES
  Spec
  Ends
\* The system stops when New has given no client.
CHECK_DEADLOCK FALSE
