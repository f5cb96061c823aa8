\* A search within a group: the query that is built has no group in it.
SPECIFICATION Spec
CONSTANTS
  LastChunk = 3
  Groups = {g1, g2}
  Kinds = {"within"}
  PageSize = 2
  Prefetch = 3
  Window = 2
  MaxLimit = 4
  GroupSize = 2
  MaxChanges = 2
  MaxPages = 2
  None = None
INVARIANTS
  OnlyMembers
\* The client reads a bounded number of pages.
CHECK_DEADLOCK FALSE
