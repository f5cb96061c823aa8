\* Every component of MCServices in turn; the others are not there.
SPECIFICATION Spec
CONSTANTS
  Groups = {g1, g2}
  Trackings = {t1}
  Tags = {x}
  Existing = {g1}
  Files = {f1, f2}
  FileWorkers = {w1, w2}
  Users = {u1, u2}
  Orgs = {o1, o2}
  Invitations = {i1}
  Founder = u1
  Home = o1
  Plans = {p1, p2}
  Offered = {p1}
  Own = {c1, c2}
  Foreign = {c3}
  Unknown = t2
  GroupedChunks = 2
  GroupRequests = 2
  GroupAttempts = 2
  GroupPage = 1
  BatchTrackings = {t1, t2}
  MaxBatch = 3
  Modes = {"insert", "upsert", "split"}
  MaxRetries = 2
  Actors = {r1, r2}
  Kinds = {"chunks", "hybrid", "autocomplete", "extended", "within", "hybrid_within",
           "groups", "hybrid_groups", "recommend", "recommend_groups", "scroll"}
  SearchedChunks = 3
  SearchPage = 2
  Prefetch = 3
  Window = 2
  MaxLimit = 4
  GroupSize = 2
  MaxPages = 2
  MaxFailures = 1
  Faults = 1
  MaxChanges = 2
  None = None
INVARIANTS
  TypeOK StoresAgree SegmentsOnce HistoryHoldsTogether SessionsAreCurrent InvitationAdmitsOnce
  BillingFollowsStripe PagesPartition AnswersAreCurrent SelectsWhatIsMeant
  RetainedIsFound ReturnedRowsGetPoints RefusedOnlyByOwnRow UpsertVectorsMatch RowMatchesPoint
PROPERTIES
  TagsReplaced
\* Requests of a component are alike; nothing else is.
SYMMETRY Symmetry
\* Every component stops when its bounds are reached.
CHECK_DEADLOCK FALSE
