\* One worker, every kind of failure, crashes included.
SPECIFICATION FairSpec
CONSTANTS
  c1 = c1 c2 = c2 c3 = c3
  None = none
  Chunks = {c1, c2, c3}
  Tracking <- OwnTracking
  Workers = {w1}
  Updates = {u1, u2}
  Deletable = {}
  Upserts = {c2, c3}
  SplitAvg = {c3}
  MaxAttempts = 2
  Failures = {"embed", "bookmarks", "build", "qdrant", "revert", "update", "crash"}
  MaxFailures = 3
INVARIANTS
  TypeOK
  CreatedIsSearchable
  NoOrphanPoints
  StoresAgree
  DeadLeavesNoRow
PROPERTIES
  RevertsOnlyInsertedRows
  EveryUploadEnds
\* When every request was made and handled there is nothing left to do.
CHECK_DEADLOCK FALSE
