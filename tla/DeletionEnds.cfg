\* Two workers, loaded datasets; what is deleted goes in the end.
SPECIFICATION FairSpec
CONSTANTS
  d1 = d1 d2 = d2
  None = none
  Workers = {w1, w2}
  Datasets = {d1, d2}
  MaxChunk = 2
  Owner <- AllInFirst
  Loaded = {1, 2}
  BatchSize = 1
  MaxAttempts = 2
  Failures = {"push", "points", "analytics"}
  MaxFailures = 2
  Requests = {"clear", "delete", "org"}
  MaxRequests = 2
PROPERTIES
  DeletedDatasetsGo
  ListedOrgGoes
\* When every request was made and handled there is nothing left to do.
CHECK_DEADLOCK FALSE
