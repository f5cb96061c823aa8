\* Two workers: a revert deletes the row another upload upserted meanwhile.
SPECIFICATION Spec
CONSTANTS
  c1 = c1 c2 = c2 c3 = c3
  None = none
  Chunks = {c1, c2, c3}
  Tracking <- SharedTracking
  Workers = {w1, w2}
  Updates = {}
  Deletable = {}
  Upserts = {c2}
  SplitAvg = {}
  MaxAttempts = 2
  Failures = {"embed"}
  MaxFailures = 1
PROPERTIES
  RevertsUntouchedRows
\* When every request was made and handled there is nothing left to do.
CHECK_DEADLOCK FALSE
