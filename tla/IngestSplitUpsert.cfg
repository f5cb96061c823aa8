\* A split_avg upsert fails in Qdrant: the revert deletes the row it found.
SPECIFICATION Spec
CONSTANTS
  c1 = c1 c2 = c2 c3 = c3
  None = none
  Chunks = {c1, c2, c3}
  Tracking <- SharedTracking
  Workers = {w1}
  Updates = {}
  Deletable = {}
  Upserts = {c2}
  SplitAvg = {c2}
  MaxAttempts = 2
  Failures = {"qdrant"}
  MaxFailures = 1
PROPERTIES
  SplitRevertsOnlyInsertedRows
\* When every request was made and handled there is nothing left to do.
CHECK_DEADLOCK FALSE
