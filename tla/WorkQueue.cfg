\* Two workers; attempts, crashes and failed Redis commands within bounds.
SPECIFICATION FairSpec
CONSTANTS
  None = none
  Workers = {w1, w2}
  Jobs = {j1, j2, j3}
  Silent = {j3}
  MaxAttempts = 3
  MaxFaults = 2
INVARIANTS
  TypeOK
  SingleOwner
  BuriedAfterEveryAttempt
  NoSilentLoss
PROPERTIES
  LedgerKept
  EveryJobEnds
\* When every job is settled, lost or stranded there is nothing left to do.
CHECK_DEADLOCK FALSE
