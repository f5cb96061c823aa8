------------------------------- MODULE MCServices -------------------------------
(***************************************************************************)
(* Small instances of the components that share no state with each other:  *)
(* groups, file uploads, topics, memberships, billing, searches, filters,  *)
(* batches of a bulk upload.                                               *)
(* Init chooses one of them, which then takes all the steps; TLC explores  *)
(* every choice.                                                           *)
(***************************************************************************)
EXTENDS Integers, Sequences, TLC

CONSTANTS Groups, Trackings, Tags, Existing, Files, FileWorkers, Users, Orgs, Invitations, Founder, Home,
          Plans, Offered, Own, Foreign, Unknown,
          GroupedChunks, \* the chunks of Groups
          GroupRequests, \* bound: requests of Groups
          GroupAttempts, \* attempts of a group update
          GroupPage,     \* chunks of a page of the grupdate worker
          BatchTrackings, \* tracking ids of a batch
          MaxBatch,     \* bound: messages of a batch
          Modes,        \* the ways to handle a batch
          MaxRetries,   \* bound: failures of the embedding server
          Actors,       \* the requests that run at a time, in every component
          Kinds,        \* the searches
          SearchedChunks, \* the chunks of Search
          SearchPage,   \* chunks, or groups, of a page of answers
          Prefetch, Window, MaxLimit, GroupSize, \* limits of Search
          MaxPages,     \* bound: pages that are read
          MaxFailures,  \* bound: calls that fail, in every component but FileUpload
          Faults,       \* bound: calls that fail in FileUpload
          MaxChanges,   \* bound: steps of ingestions and deletions during a search
          None

VARIABLES focus,
          group, gRows, bookmarks, point, arriving, gReq, updates, worker, returned, disturbed, retagged,
          gRequests, gFailures,
          upload, s3, files, linked, size, inbox, fw, pushed, count, outcome, removed, faults,
          topic, messages, cReq, late, strayed, cFailures,
          users, org, mRows, inserted, cache, invitation, mReq, lapsed, admitted, reused, mRequests, mFailures,
          stripe, links, unread, outbox, subscriptions, invoices, handler, changes, bFailures, last, overlapped,
          status, sparse, later, encoded, member, ask, at, page, hits, first, counted, pages, steady, hidden,
          sChanges, changed,
          row, payload, inGroup, tagSet, filter, plan, result, updated,
          mode, batch, table, data, uReturned, kept, points, uAt, retries

groupVars == <<group, gRows, bookmarks, point, arriving, gReq, updates, worker, returned, disturbed, retagged,
               gRequests, gFailures>>
fileVars == <<upload, s3, files, linked, size, inbox, fw, pushed, count, outcome, removed, faults>>
topicVars == <<topic, messages, cReq, late, strayed, cFailures>>
memberVars == <<users, org, mRows, inserted, cache, invitation, mReq, lapsed, admitted, reused, mRequests,
                mFailures>>
billingVars == <<stripe, links, unread, outbox, subscriptions, invoices, handler, changes, bFailures, last,
                 overlapped>>
searchVars == <<status, sparse, later, encoded, member, ask, at, page, hits, first, counted, pages, steady,
                hidden, sChanges, changed>>
filterVars == <<row, payload, inGroup, tagSet, filter, plan, result, updated>>
batchVars == <<mode, batch, table, data, uReturned, kept, points, uAt, retries>>

G == INSTANCE GroupMembership
       WITH LastChunk <- GroupedChunks, Slots <- Actors, MaxRequests <- GroupRequests,
            MaxAttempts <- GroupAttempts, PageSize <- GroupPage,
            rows <- gRows, req <- gReq, requests <- gRequests, failures <- gFailures
F == INSTANCE FileUpload WITH LastSegment <- 2, StorageLimit <- 1, PlanChunks <- 3, Attempts <- 3
C == INSTANCE Conversations
       WITH Clients <- Actors, PlanMessages <- 4, MaxMessages <- 5, req <- cReq, failures <- cFailures
M == INSTANCE Memberships
       WITH Clients <- Actors, Granted <- {0, 2}, PlanUsers <- 2, MaxRows <- 3, MaxRequests <- 3,
            rows <- mRows, req <- mReq, requests <- mRequests, failures <- mFailures
B == INSTANCE Billing
       WITH Handlers <- Actors, LastSubscription <- 2, MaxInvoices <- 2, MaxDisturbances <- MaxFailures,
            MaxUnread <- 1, failures <- bFailures
S == INSTANCE Search
       WITH LastChunk <- SearchedChunks, PageSize <- SearchPage, changes <- sChanges
Q == INSTANCE ChunkFilters
U == INSTANCE BulkUpload WITH Trackings <- BatchTrackings, returned <- uReturned, at <- uAt

ASSUME ServicesAssumption ==
  /\ G!GroupAssumption /\ F!FileAssumption /\ C!TopicAssumption /\ M!MembershipAssumption
  /\ B!BillingAssumption /\ S!SearchAssumption /\ Q!FilterAssumption
  /\ U!BatchAssumption

TypeOK ==
  /\ focus \in {"groups", "files", "topics", "members", "billing", "search", "filters", "batches"}
  /\ CASE focus = "groups" -> G!TypeOK
       [] focus = "files" -> F!TypeOK
       [] focus = "topics" -> C!TypeOK
       [] focus = "members" -> M!TypeOK
       [] focus = "billing" -> B!TypeOK
       [] focus = "search" -> S!TypeOK
       [] focus = "filters" -> Q!TypeOK
       [] focus = "batches" -> U!TypeOK

\* A component that is not in focus is not there.
Init ==
  /\ focus \in {"groups", "files", "topics", "members", "billing", "search", "filters", "batches"}
  /\ \/ focus = "groups" /\ G!Init
     \/ /\ focus # "groups"
        /\ group = None /\ gRows = None /\ bookmarks = None /\ point = None /\ arriving = None
        /\ gReq = None /\ updates = None /\ worker = None /\ returned = None /\ disturbed = None
        /\ retagged = None /\ gRequests = None /\ gFailures = None
  /\ \/ focus = "files" /\ F!Init
     \/ /\ focus # "files"
        /\ upload = None /\ s3 = None /\ files = None /\ linked = None /\ size = None /\ inbox = None
        /\ fw = None /\ pushed = None /\ count = None /\ outcome = None /\ removed = None /\ faults = None
  /\ \/ focus = "topics" /\ C!Init
     \/ /\ focus # "topics"
        /\ topic = None /\ messages = None /\ cReq = None /\ late = None /\ strayed = None
        /\ cFailures = None
  /\ \/ focus = "members" /\ M!Init
     \/ /\ focus # "members"
        /\ users = None /\ org = None /\ mRows = None /\ inserted = None /\ cache = None
        /\ invitation = None /\ mReq = None /\ lapsed = None /\ admitted = None /\ reused = None
        /\ mRequests = None /\ mFailures = None
  /\ \/ focus = "billing" /\ B!Init
     \/ /\ focus # "billing"
        /\ stripe = None /\ links = None /\ unread = None /\ outbox = None /\ subscriptions = None
        /\ invoices = None /\ handler = None /\ changes = None /\ bFailures = None /\ last = None /\ overlapped = None
  /\ \/ focus = "search" /\ S!Init
     \/ /\ focus # "search"
        /\ status = None /\ sparse = None /\ later = None /\ encoded = None /\ member = None /\ ask = None /\ at = None
        /\ page = None /\ hits = None /\ first = None /\ counted = None /\ pages = None /\ steady = None
        /\ hidden = None /\ sChanges = None /\ changed = None
  /\ \/ focus = "filters" /\ Q!Init
     \/ /\ focus # "filters"
        /\ row = None /\ payload = None /\ inGroup = None /\ tagSet = None /\ filter = None /\ plan = None
        /\ result = None /\ updated = None
  /\ \/ focus = "batches" /\ U!Init
     \/ /\ focus # "batches"
        /\ mode = None /\ batch = None /\ table = None /\ data = None /\ uReturned = None /\ kept = None
        /\ points = None /\ uAt = None /\ retries = None

\* Each in focus alone.  A conversation whose hypothesis is gone is not continued.
Groups_Next == focus = "groups" /\ G!Next
                 /\ UNCHANGED <<focus, fileVars, topicVars, memberVars, billingVars, searchVars, filterVars, batchVars>>
Files_Next == focus = "files" /\ F!Next
                 /\ UNCHANGED <<focus, groupVars, topicVars, memberVars, billingVars, searchVars, filterVars, batchVars>>
Topics_Next == focus = "topics" /\ C!Together /\ C!Next
                 /\ UNCHANGED <<focus, groupVars, fileVars, memberVars, billingVars, searchVars, filterVars, batchVars>>
Members_Next == focus = "members" /\ M!Next
                 /\ UNCHANGED <<focus, groupVars, fileVars, topicVars, billingVars, searchVars, filterVars, batchVars>>
Billing_Next == focus = "billing" /\ B!Next
                 /\ UNCHANGED <<focus, groupVars, fileVars, topicVars, memberVars, searchVars, filterVars, batchVars>>
Search_Next == focus = "search" /\ S!Next
                 /\ UNCHANGED <<focus, groupVars, fileVars, topicVars, memberVars, billingVars, filterVars, batchVars>>
Filters_Next == focus = "filters" /\ Q!Next
                 /\ UNCHANGED <<focus, groupVars, fileVars, topicVars, memberVars, billingVars, searchVars, batchVars>>
Batches_Next == focus = "batches" /\ U!Next
                 /\ UNCHANGED <<focus, groupVars, fileVars, topicVars, memberVars, billingVars, searchVars, filterVars>>

Next == \/ Groups_Next \/ Files_Next \/ Topics_Next \/ Members_Next \/ Billing_Next \/ Search_Next
        \/ Filters_Next \/ Batches_Next

Spec == Init /\ [][Next]_<<focus, groupVars, fileVars, topicVars, memberVars, billingVars, searchVars, filterVars,
                           batchVars>>

Symmetry == Permutations(Actors)

\* Groups: bookmarks and points agree between requests (group_handler.rs, qdrant_operator.rs).
StoresAgree == focus = "groups" => G!StoresAgree

\* Groups: a finished group update has left no old tag and missed no new one (group_operator.rs).
TagsReplaced == [][focus = "groups" => G!ReplacesTags]_groupVars

\* Files: the chunks of a file are queued once, in order, all before it is acknowledged (file_operator.rs).
SegmentsOnce == focus = "files" => F!SegmentsOnce

\* Topics: the live messages of a conversation fit together (message_handler.rs, message_operator.rs).
HistoryHoldsTogether == focus = "topics" => C!HistoryHoldsTogether

\* Members: a cached session shows the memberships in Postgres (auth_handler.rs, user_operator.rs).
SessionsAreCurrent == focus = "members" => M!SessionsAreCurrent

\* Members: an invitation makes one membership (invitation_operator.rs).
InvitationAdmitsOnce == focus = "members" => M!InvitationAdmitsOnce

\* Billing: subscriptions and invoices follow what Stripe reports (stripe_handler.rs).
BillingFollowsStripe == focus = "billing" => B!BillingFollowsStripe

\* Searches: the pages of a search partition what it finds (qdrant_operator.rs, search_operator.rs).
PagesPartition == focus = "search" => S!PagesPartition

\* Searches: no answer has a chunk that was gone, or lacks one of the best (search_operator.rs).
AnswersAreCurrent == focus = "search" => S!AnswersAreCurrent

\* Filters: a request selects the chunks that its conditions mean (search_operator.rs, models.rs).
SelectsWhatIsMeant == focus = "filters" => Q!SelectsWhatIsMeant

\* Batches: "Will always be present due to previous retain" (chunk_operator.rs:623).
RetainedIsFound == focus = "batches" => U!RetainedIsFound

\* Batches: every row the insert returned gets a point (chunk_operator.rs, ingestion-worker.rs).
ReturnedRowsGetPoints == focus = "batches" => U!ReturnedRowsGetPoints

\* Batches: an upsert is refused only for a row it left itself (chunk_operator.rs, ingestion-worker.rs).
RefusedOnlyByOwnRow == focus = "batches" => U!RefusedOnlyByOwnRow

\* Batches: the points of an upsert have vectors of their own texts (ingestion-worker.rs:558).
UpsertVectorsMatch == focus = "batches" => U!UpsertVectorsMatch

\* Batches: row and point of a chunk have one text, groups and vector of the same message unless a tracking
\* id is repeated (chunk_handler.rs:95).
RowMatchesPoint == focus = "batches" => U!RowMatchesPoint
=============================================================================
