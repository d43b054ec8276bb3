CONSTANTS
  one = one
  oneText = oneText
  Label = {"", "beta", "users", "vault", "latest", "v2.0.0", "v3.0.0"}
  NoLabel = ""
  BetaLabel = {"beta"}
  ContextKey = {"api_version", "other"}
  Field = {"a", "b", "c"}
  Value = {one, oneText}
  Nil = Nil
  Pieces <- MCPieces
  Printed <- MCPrinted
  Caller = {c1, c2}
  Supported <- MCSupported
  Detectors <- MCDetectors
  Requests <- MCRequests
  Migrations <- MCMigrations
  Fields <- MCFields
  MaxCalls = 3
SPECIFICATION Spec
INVARIANTS
  TypeOK
  AnnouncedIsServed
  RetryAccepted
  UsageAccounted
  ErrorRateExplained
  MigrationsKept
  RoundTrip
\* The number of calls is bounded, and an abort ends the program.
CHECK_DEADLOCK FALSE
