CONSTANTS
  a = a
  b = b
  c = c
  NoMessage = NoMessage
  Messages = {a, c}
  Orphans = {c}
  Segments <- MCSegments
  BatchLimit = 1
  MaxAttempts = 3
  FlushBatch = 1
  FlushRounds = 2
  Threshold = 3
  L0Capacity = 2
  MaxFaults = 2
  MaxRestarts = 2

SPECIFICATION FairSpec
CHECK_DEADLOCK FALSE
INVARIANTS
  TypeOK
  NothingLost
  RetryCeiling
  LagBounded
  EmbeddingOwed
PROPERTIES
  KeepsPromise
  RowsLeaveRotation
  DrainerStops
