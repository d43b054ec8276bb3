CONSTANTS
  Member = {m1, m2}
  Partition = {q1}
  Earliest = FALSE
  MaxOffset = 2
  MaxFailures = 1
SPECIFICATION FairSpec
INVARIANTS
  TypeOK
  NothingLost
  NoLateRedelivery
PROPERTIES
  Delivered
  EventuallySeen
\* Every process may have stopped.
CHECK_DEADLOCK FALSE
