\* The grupdate worker pairs a page of ids with the payloads it was given.
SPECIFICATION Spec
CONSTANTS
  Groups = {g1, g2}
  LastChunk = 2
  Trackings = {t1}
  Tags = {x}
  Slots = {s1, s2}
  MaxRequests = 2
  Existing = {g1}
  MaxFailures = 1
  MaxAttempts = 2
  PageSize = 2
  None = None
INVARIANTS
  PayloadIsOwn
\* When every request was made and handled there is nothing left to do.
CHECK_DEADLOCK FALSE
