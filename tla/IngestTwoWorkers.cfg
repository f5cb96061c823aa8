\* Two workers, deletes and updates on one tracking id.
SPECIFICATION Spec
CONSTANTS
  c1 = c1 c2 = c2 c3 = c3
  None = none
  Chunks = {c1, c2, c3}
  Tracking <- OneTracking
  Workers = {w1, w2}
  Updates = {u1}
  Deletable = {c1, c2}
  Upserts = {c2, c3}
  SplitAvg = {c3}
  MaxAttempts = 2
  Failures = {"embed", "qdrant", "unindex", "crash"}
  MaxFailures = 1
SYMMETRY WorkerSymmetry
INVARIANTS
  CreatedIsSearchable
  RemovedStaysRemoved
PROPERTIES
  RevertsOnlyInsertedRows
\* When every request was made and handled there is nothing left to do.
CHECK_DEADLOCK FALSE
