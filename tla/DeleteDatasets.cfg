\* Two workers clear and delete datasets and their organization; every failure.
SPECIFICATION Spec
CONSTANTS
  d1 = d1 d2 = d2
  None = none
  Workers = {w1, w2}
  Datasets = {d1, d2}
  MaxChunk = 3
  Owner <- AllInFirst
  Loaded = {1, 2}
  BatchSize = 1
  MaxAttempts = 3
  Failures = {"push", "points", "analytics", "crash"}
  MaxFailures = 1
  Requests = {"clear", "delete", "org"}
  MaxRequests = 2
SYMMETRY WorkerSymmetry
INVARIANTS
  TypeOK
  AcknowledgedChunksAreGone
  RowsHavePoints
  OrgIsLast
\* When every request was made and handled there is nothing left to do.
CHECK_DEADLOCK FALSE
