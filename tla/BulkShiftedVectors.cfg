\* A batch with a duplicate or an empty message: vectors of other messages.
SPECIFICATION Spec
CONSTANTS
  None = none
  MaxBatch = 3
  Trackings = {t1}
  Modes = {"insert"}
  MaxRetries = 0
INVARIANTS
  VectorsMatch
