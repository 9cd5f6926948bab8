SPECIFICATION Spec
CONSTANTS
  Blobs = 7
  BatchSize = 2
  Concurrency = 2
  MaxRetries = 3
INVARIANTS
  WholeOrNone
  OneCommit
PROPERTIES
  FailsFast
  Returns
CHECK_DEADLOCK FALSE
