# A TLA+ development for Trieve

Trieve stores *chunks* of text, makes them searchable, and groups them in
datasets that belong to organizations. An HTTP API (actix) validates requests
and answers early; most of the work is done by worker processes that poll lists
in Redis and write to two stores, Postgres (rows) and Qdrant (points with
vectors), one after the other and with no transaction across them. What can go
wrong lies in between: between two Redis commands, between the row and the
point, between the handler's check and the worker's write, and between two
workers. The routes that answer at once have the same shape in small: they read a
store, call another service, and write what they had read. That is what these
modules are about.

Paths below are relative to `server/src/` of the repository unless they start
with another top-level directory.

## 1. Inventory

| component | state it keeps | operations | talks to | what is hard | what makes it correct |
|---|---|---|---|---|---|
| Redis work queues (`bin/ingestion-worker.rs`, `delete-worker.rs`, `file-worker.rs`, `grupdate-worker.rs`) | a work list, a processing list, a dead letter list; `attempt_number` inside the payload | LPUSH by a handler; BRPOPLPUSH, LREM, LPUSH by workers | all handlers and workers | a crash between any two commands, errors ignored with `let _ =`, removal by value | one owner per job, dead letter only after every attempt, no silent loss, every job settles |
| Chunk ingestion (`bin/ingestion-worker.rs`, `handlers/chunk_handler.rs`, `operators/chunk_operator.rs`, `operators/qdrant_operator.rs`) | `chunk_metadata` rows, Qdrant points | create, upsert by tracking id, split_avg, update, delete | Postgres, Qdrant, embedding server, Redis | two stores written in turn, compensating deletes, retries that meet their own row, two workers on one tracking id, deletes in between | a row has a point and a point a row, both from the same request; a revert undoes only its own insert |
| Bulk upload batch (same files) | vectors matched by position | filter, insert, retain/find, embed, zip | Postgres, embedding server | three sequences of different length are matched by position | a point has the vector of its own message, every returned row a point |
| Dataset and organization deletion (`operators/dataset_operator.rs`, `operators/organization_operator.rs`, `bin/delete-worker.rs`) | `deleted` flags, the Redis set `deleted_organizations`, the offset of the paging loop | clear, soft delete, hard delete, delete organization | Postgres, Qdrant, ClickHouse, Redis, ingestion in progress | paging while rows are inserted, cascade, two handlers' writes seen by several workers | what a request covers is gone from both stores, later chunks keep both, the organization goes last |
| File upload (`bin/file-worker.rs`, `operators/file_operator.rs`, `handlers/file_handler.rs`) | object in S3, `files` row, group, chunk messages | upload, convert, chunk, push segments of 120, delete | S3, Tika, ingestion queue | retries repeat what was done before the failure | a file's chunks are queued once, a group for each file |
| Groups and bookmarks (`operators/group_operator.rs`, `handlers/group_handler.rs`, `bin/grupdate-worker.rs`) | bookmarks in Postgres, `group_ids` and `group_tag_set` in the Qdrant payload | add, remove, delete group, update tags | both stores, its queue | read-modify-write of a payload, two stores | membership agrees in both stores |
| Reindex and BM25 migration (`bin/reindex-worker.rs`, `bin/queue-bm25-migration.rs`, `bin/create-new-qdrant.rs`) | a list popped with plain BRPOP | queue ids, reindex | Qdrant | an error loses the message, the dead letter command is built and never run | every id is reindexed or reported |
| Qdrant synchronisation (`bin/sync-qdrant.rs`) | none of its own | compare ids, delete orphans | both stores | compares two moving sets | no orphan survives, no live point is deleted |
| Event queue (`operators/clickhouse_operator.rs`, `event_operator.rs`) | an in-memory channel of 1000 and a batch | send, flush by size or time | ClickHouse | full channel, failed insert, shutdown | events reach ClickHouse or are known to be lost |
| Usage counts and plan limits (`handlers/chunk_handler.rs`, database triggers) | counters per organization and dataset | check, increment | Postgres | checked in the handler, incremented by the worker | the limit is exceeded by a bounded amount only |
| Users, authentication, API keys, invitations (`operators/user_operator.rs`, `handlers/auth_handler.rs`, `operators/invitation_operator.rs`, `middleware/auth_middleware.rs`) | `users`, `user_organizations`, `invitations`; a session per user in Redis | log in, join, invite, change role, remove, rename and delete organization | Postgres, Redis, OIDC | the session is cached from an older read; an invitation is checked and marked in two calls | a cached session shows the memberships there are; an invitation makes one member |
| Stripe subscriptions (`handlers/stripe_handler.rs`, `operators/stripe_operator.rs`) | `stripe_subscriptions`, `stripe_invoices`, and Stripe's own view | payment page, plan change, cancel; webhook events | Stripe, Postgres | repeated, reordered, overlapping and interrupted events; delete then insert | the tables follow Stripe, one subscription, one row per invoice |
| Topics and messages (`operators/message_operator.rs`, `handlers/message_handler.rs`, `operators/topic_operator.rs`) | messages ordered by `sort_order`, soft deleted | create, edit, regenerate, stream a reply | Postgres, search, LLM | the position is the length of what was read; a streamed reply is stored after the response | positions are a sequence, a reply answers what stands before it |
| Search (`operators/search_operator.rs`, `operators/qdrant_operator.rs`, `handlers/chunk_handler.rs`, `handlers/group_handler.rs`) | none; reads two moving stores | search, hybrid, autocomplete, within and over groups, recommend, scroll; filters | Qdrant, Postgres, cross encoder | points and rows are read at different times; the page is cut before it is sorted; conditions are answered by either store | pages partition the result, an answer has what was there, a filter selects what it means |
| Chunker, averaging, reranking, BM25 (`operators/parse_operator.rs`, `model_operator.rs`) | none | pure functions around HTTP calls | model servers | rounding, remainders | nothing is dropped, sizes stay bounded |
| Scripts (`docker/collapse-query-script`, `docker/clustering-script`) | ClickHouse tables | collapse queries, cluster | ClickHouse | windows over time | one query per typed query |
| Analytics, metrics, server shell, embedding server, frontends, deployment | none that they change, or configuration | reads, routing, UI | | | outside this development |

`PROJECT.json` lists every component with its sources, and every hazard at the
line where it bites, with the properties that would notice, those of the event queue
excepted: a batch of analytics events is cleared whether or not ClickHouse took it
(`operators/clickhouse_operator.rs:213`), and a full channel blocks its senders.

## 2. Modules

| module | models | stands on |
|---|---|---|
| `JobLedger` | what a queue promises for one job: an abstract state machine per job | |
| `WorkQueue` | the list protocol of the four polling workers, command by command | refines `JobLedger` |
| `WorkQueueProofs`, `ChunkIngestionProofs`, `DatasetDeletionProofs`, `FileUploadProofs`, `ConversationsProofs`, `MembershipsProofs`, `BillingProofs` | theorems about the module each is named after, for all values of its constants | that module, TLAPS |
| `ChunkIngestion` | the life of a chunk across Postgres and Qdrant | the queue as one step per message |
| `BulkUpload` | what happens inside one batch | a batch alone |
| `DatasetDeletion` | clear, delete and delete organization, with uploads under way | the queue as one step per message |
| `GroupMembership` | bookmarks and the payloads of points, routes and the grupdate worker | the queue as one step per message |
| `FileUpload` | a file from the upload to its segments in the ingestion queue | the queue as one step per message |
| `Conversations` | the messages of one topic | |
| `Memberships` | members, roles, invitations and cached sessions | |
| `Billing` | one organization's subscriptions at Stripe and in the tables | |
| `Search` | a search, its pages and its lookups, while chunks come and go | chunks as in `ChunkIngestion`, reduced to row and point |
| `ChunkFilters` | a filter assembled from Postgres and Qdrant conditions | |
| `MCServices` | instances of the last seven and of `BulkUpload`, checked in one run | |
| `MCServicesProofs` | what is proved of groups, batches, filters and searches, and of files, conversations, memberships and billing, for the instances in `MCServices` | `MCServices`, four of the proof modules |
| `MC*` | constants for TLC | |

### WorkQueue

`queue`, `processing` and `deadLetters` are the three Redis lists; `pc[w]` and
`hand[w]` are where a worker is in its loop and the payload in its memory.
`submitted`, `done`, `skipped`, `failures` are history. One action is one Redis
command or one outcome of the handling: `Take` (BRPOPLPUSH), `Succeed`,
`Fail`, `ReturnSilently` (branches of the loop that answer with no LREM),
`Acknowledge` (LREM), and `readd_error_to_queue` in two steps, `RemoveOld`
(LREM) and `Requeue` or `Bury` (LPUSH). The faults are `Crash` (also a panic in
`.expect`), `ReplyLost` (Redis moved the payload and the reply did not come),
`AcknowledgeFails` and `RemoveOldFails` (the `let _ =` on an LREM), `ReaddFails`
(an error of `readd_error_to_queue` itself, ignored by its caller). The four
workers differ in the number of attempts (10 for ingestion, else 3) and in
whether a branch is silent; both are constants. SIGTERM handling is not
modelled apart from the crash it may amount to. `processing` is a set because a
payload is never on the list twice: it carries its job and its attempt.

### ChunkIngestion

`row[c]` and `point[c]` are what Postgres and Qdrant hold for chunk `c`,
abstracted to the request that produced it. A worker is a record: where it is,
its message, the row it writes to (`target`) and whether the row is new
(`fresh`). The path of a batch is `Take`, `BulkInsert`, `CreateVectors`,
`StorePoint`, with `InsertFails` for a failure of the statements that follow
the INSERT, and `Undo`/`Revert`/`PushBack` on failure; the path of a
split_avg batch is `LookupTwin`, `SplitInsert`, `SplitStore`, `SplitRevert`; the
path of an update is `UpdateRow`, `UpdatePoint`. A delete is three steps of the
handler: `BeginDelete` (which takes `deleted_at`), `DeleteRow`, `DeletePoint`.

Abstractions: a batch is a single chunk here (inside a batch: `BulkUpload`).
`covered` stands for `created_at <= deleted_at`; clocks are taken to be one
clock. The fields of a chunk are one value, so the merge that `update_chunk`
makes of a request and an older row is not seen. Delete by tracking id and the
dataset lookup of a message are left out.

### BulkUpload

A batch is a sequence of messages, each with an id (its position), a tracking
id or none, and whether its content is empty; `mode` says whether the batch
inserts, upserts or has a split_avg chunk. Every list the code makes of the batch
keeps its order, so a list is the set of its messages, and a zip pairs those
with the same `Rank`. A kept message carries the row found for it (`kept`), and a
point has the text of that row, the groups of the message, and the vector of the
message that the zip gives it (`WithVectors`). The actions follow
`bulk_upload_chunks`: `Precompute` drops empty messages, `Insert` is the one
statement with its ON CONFLICT clause (`InsertNew`, `InsertOrUpdate`),
`Collect` is the retain and the find, `BuildPoints` the zip with the vectors;
`EmbedFails` is a failure, after which the batch starts again. Postgres' unique
index and its refusals are external definitions.

### DatasetDeletion

`dataset[d]` is live, deleted (the flag) or gone; a chunk of it is in `row`, in
`point`, or on its way (`upload`). A message carries the chunks it `covers`,
those with `created_at <= deleted_at`. The delete worker's loop is `Take`,
`LookUp`, then `ClearRows` and `ClearPoints` in turn until no row is left, then
`DropDataset` (with its cascade), `DropAnalytics`, and `Acknowledge`, which
also decides about the organization. `delete_organization_query` is `DeleteOrg`,
then `MarkNext` and `PushNext` per dataset, `FlagOrg`, `ListOrg`, interleaved
with the workers.

Abstractions: the SELECT and the DELETE of a batch are one step (a worker in
between deletes the same rows); `Acknowledge` merges LREM, SISMEMBER, the
list of soft-deleted datasets, the DELETE of the organization and SREM. Groups
and files, which are removed in the same way and have no point, are left out, as
are subscriptions and the cached users of an organization.

### GroupMembership

`bookmarks` is the Postgres side, `point[c].groups` and `point[c].tags` the
Qdrant side of membership, and `point[c].of` says whose content a payload
carries. The list of group ids in a payload is known by how often it has each
group, as nothing reads its order. A request occupies a slot; its actions are the calls of the routes:
`AddChunk` or `RemoveChunk` (the row), then `ReadPoint` and `WritePoint` (the
whole payload back). `delete_group_by_id_query` is `BeginDelete`,
`CollectChunks`, `DeleteRows`, then `DeleteChunks` (bookmarks and rows that are not
younger than the request) and `DeletePoints`, or a read and a write per chunk. The grupdate worker is `TakeUpdate`, `ReadPage`,
`WritePayload` for each chunk of the page, and `FinishUpdate`; `UpdateFails` puts
its message back. `IngestRow` and `IngestPoint` are what the ingestion worker
does to both sides. `disturbed` names the chunks on which two actors worked at
once, or for which a call failed: for those the code promises nothing, and
`StoresAgree` speaks of the others. `retagged` names the chunks the grupdate
worker has written, which lose their group ids (`ParsedIds`).

### FileUpload

`upload_file_handler` is `AskUpload` (the storage limit), `PutObject` and
`PushFile`; the worker `TakeFile`, `Fetch`, `InsertFile`, `MakeGroup`, `LinkGroup`,
`CheckPlan`, then `PushSegment` until `FinishFile`. `GiveBack` is
`readd_error_to_queue` as one step (its two commands are in `WorkQueue`).
A file is known by its number of segments; `pushed[f]` are the segments in the
ingestion queue, `count` the chunks the trigger has counted. Deleting a file is
`DeleteObject` and `DeleteFileRow`.

### Conversations

`messages` is the table, in the order of the inserts; a message has a position,
a role, a deleted flag and, as history, what it answers. A request reads the
topic (`ReadTopic`, `RegenerateMessage`), writes at the positions it
computed from that (`CreateSystemMessage`, `CreateUserMessage`, `Answer`), or hands
the reply to a thread (`Stream`, `StoreLate`). An edit deletes (`DeleteMessage`)
before it asks the plan (`CheckPlan`). `strayed` becomes true when a
message is stored on a read that another request has overtaken.

### Memberships

`rows` are `user_organizations`, `cache[u]` the session in Redis. A login is
`Callback`, `Load`, then `CreateAccount`, `CheckInvitation`, `UseInvitation`
and `Join` as it needs them, and `Fill`. A change of a membership is its
guard on the session of the caller (`UpdateUser`, `RemoveUser`,
`PostInvitation`), `Write`, and `Drop` of the session. An invitation of somebody
who has an account adds the row and drops the session (`Insert`, `Drop`); if
either fails (`AddFails`), the error is taken for "no account" and the route goes on
to `Invite`, as it does for somebody without one. Renaming and deleting an
organization drop those of all members, after and before the write.
`lapsed` and `reused` are history: the users and invitations for which
the window between two calls was hit.

### Billing

`stripe` is Stripe's view and `outbox` the events it has had no 200 for; an
event stays there until `Reply`, and is delivered any number of times, in
any order. The webhook is `Deliver`, then `FindExisting`, `DeleteExisting`,
`InsertSubscription`, `InvoiceExists`, `CreateInvoice` for a checkout;
`FindOrganization` and the last two for a paid invoice; `SetPeriodEnd` for an end.
A checkout may come without an invoice. `Skip` is an event that
`Webhook::construct_event` refuses: the handler does nothing and answers 200, so
that it leaves the outbox for good (`unread` remembers it). `Dies` cuts a request
short between any two statements. Checkouts of mode setup, which change a payment
method at Stripe, and the table of plans are left out. Row ids are renamed
when free: enough of them are there that no request meets a foreign row under
its id (`BillingProofs` counts them: a table of at most two rows and a finite
number of requests leave one free). `Issued` are the invoices that Stripe has
numbered so far.

### Search and ChunkFilters

Scores are orders over the chunks: the dense one is the order of the ids; the
sparse one, that of the cross encoder (`encoded`) and the one the sort options ask
for (`later`: a field, a rerank by another search, weights) are arbitrary, chosen in
`Init` from those the request has a use for. Every search that takes sort options
passes them on to its queries (`Queries`), which then have a prefetch; the cross
encoder as a sort option is used by the plain search and the one within a group. A
`score_threshold` is a bound on scores and left out. Answers of searches over groups
and recommendations of groups, and of the hybrid search over groups, are in the model
and its types, and only the pages of the first are in a property.
`Ask` asks for a page, `QueryChunks`, `QueryGroups`, `RecommendChunks`,
`RecommendGroups` and `Scroll` are Qdrant's answers, `CountPoints` runs beside
them, `ReadRows` looks the rows up and puts them in order (`SearchChunks`,
`SearchHybrid`, `SearchWithinGroup`, `Autocomplete`, `HybridGroups`). `Change` lets an
ingestion or a deletion take its next step on a chunk at any time.
Where the code may panic, `Panics` says so and the answer is "panic".

`ChunkFilters` converts each condition of a request (`Convert`), answering
those on metadata, group metadata and group tags from Postgres (`MetadataIds`,
`GroupMetadataIds`, `GroupTagIds`), and lets Qdrant select (`Select`), while
an update writes a chunk's row and then its point. Values are a
few texts and numbers, among them the text of a number. A group has a set of tags,
and conditions ask for any or all of some; the `or_filter`s of the code are not
confined to the dataset (`Tagged`, `GroupTagIds`), which the dataset's own condition
makes up for.

### MCServices

The seven modules from `GroupMembership` on, and `BulkUpload`, share no variable;
their product would be too large to explore and would show nothing that the
parts do not. `MCServices` instantiates all of them; `focus` is chosen in `Init` and only the chosen one
moves (the variables of the others are `None`), so that TLC explores the sum of
their state spaces in one run. Each
property is stated for its focus. A module that is only instantiated has its
constant assumptions as a definition, asserted by `ServicesAssumption`.

## 3. What the runs check

Several properties hold only as long as certain failures did not happen. Each
such condition names a way in which the code itself gives the promise up; it is
listed in section 6 and in the comment of the property.

| run | instance | states | shows |
|---|---|---|---|
| `work_queue` | 2 workers, 3 jobs (one of which may end silently), 3 attempts, 2 faults | 307k | one owner, burial after every attempt, loss only while requeueing; implements `JobLedger`; every job ends |
| `ingest_one_worker` | 1 worker, 3 chunks (two of one tracking id, one upsert, one split_avg upsert), 2 updates, 2 attempts, 3 failures of 7 kinds | 525k | the stores agree at rest, no orphan points, dead letters leave no row, every upload ends |
| `ingest_two_workers` | 2 workers, 3 chunks of one tracking id, deletes of two that may be refused and repeated, 1 update, 1 failure | 715k | what a delete removed stays removed; reverts only delete what they inserted |
| `ingest_split_upsert` | 1 worker, 3 chunks, a split_avg upsert of a stored tracking id, a Qdrant failure | violation | `upload_chunk` reverts an upserted row |
| `ingest_revert_race` | 2 workers, 3 chunks, an upsert of a tracking id being inserted, an embedding failure | violation | a revert deletes a row that was upserted meanwhile |
| `bulk_shifted_vectors` | every batch of up to 3 messages with one tracking id or none, inserts | violation | vectors of one message on the point of another |
| `delete_datasets` | 2 workers, 2 datasets, 3 chunks (2 stored, 1 being uploaded), batches of 1, 2 requests of 3 kinds, 1 failure | 1.8M | covered chunks are gone, later chunks keep both halves, the organization is last |
| `deletion_ends` | 2 workers, 2 datasets, 2 stored chunks of one of them, batches of 1, 2 requests, 2 attempts, 2 failures | 975k | soft-deleted datasets and listed organizations go, a message that Qdrant refused at every attempt aside |
| `services` | every component of `MCServices` in turn, each with 2 concurrent requests and 1 failure: 2 groups, 2 chunks and pages of 1; 2 files of up to 2 segments and 2 file workers; 5 messages; 2 users, 2 organizations, 1 invitation, 3 requests; 2 subscriptions, 2 invoices, 2 plans and an event answered unread; 3 chunks, pages of 2, 11 kinds of search with their sort options and orders; every filter of up to 2 conditions over 3 chunks and groups with no tag, one or all; every batch of up to 3 messages over 2 tracking ids, with or without content, every table, 3 modes, 2 embedding failures | 5.3M | what section 6 leaves of the two copies of the data agreeing; in a batch, that the `expect` after the retain never fires, that each returned row has a point, and why a retried upsert is refused |
| `search_within_group` | 3 chunks, 2 groups, a semantic search within one | violation | chunks of other groups are answered |
| `group_payload` | 2 chunks, a page of 2, a point that is not there yet | violation | a payload is written to another chunk's point |

**Why these bounds.** Interference in this code is between two workers, or a
worker and a handler, on one key; a third adds no new pair of steps. Three jobs
give a queue with something behind the job that is retried. Two faults are the
least that leave an old payload behind and then hit the job again. Three attempts
separate first, middle and last; two do so in `ChunkIngestion`, where the number
only separates the last attempt. Three failures let an upload fail, fail in its
revert, and fail again. In `deletion_ends` two failures are as many as there are
attempts, so that Qdrant can refuse a message until it is a dead letter; a crash is
left out there because both properties except it. Batches of one chunk make the deletion loop run twice
over stored chunks and once more over one that arrives. In `BulkUpload` a batch
of three has a skipped message before, between and after kept ones. The bounds
are constants (in the components of `MCServices` the numbers of requests, steps of
other actors, pages and invoices; `MaxFaults`, `MaxFailures`, `MaxAttempts`, `MaxRetries`,
`MaxRequests`, `MaxBatch`, `MaxChunk`) and all are named in the configurations.
Worker and request symmetry is used only in runs without liveness. In
`services`, two requests are what it takes for one to overtake the other; three
requests in a row let a member be removed and follow the invitation again; two
subscriptions let one replace the other while the first is still being
reported; pages of one make the group update go round its loop twice; three
chunks and pages of two give a full page and a partial one, and a prefetch of
three covers them. A conversation whose hypothesis is gone is not continued
(`Together`), as nothing is said about it any more.

**Deadlock.** The runs stop when every request has been made and handled, so
deadlock is not checked.

**Fairness.** Weak fairness of each worker's steps: the loop polls without end
and every call it awaits returns or times out. In `WorkQueue`, faults, failed
attempts and crashes need no fairness of their own; they are bounded by the
constants. In `DatasetDeletion` a handler that has started continues. No
fairness is assumed of clients. The components of `MCServices` are checked for
safety only: what they leave undone waits for a client, a second event of
Stripe or an operator, none of which the code schedules.

## 4. What is proved

The theorems hold for every value of the constants that satisfies the module's
assumption: any number of workers, jobs, chunks, datasets, files, users,
subscriptions, requests, attempts and failures, where the runs take two or
three of each. Every invariant below was first checked by TLC on the instance of
the runs, then proved: it holds initially, every action preserves it (a lemma
per action, or per group of actions that move the same thing), and it implies
the property. Properties of what a run instantiates are proved in
`MCServicesProofs`: directly for groups, batches, filters and searches; for the others it
instantiates the component's proofs beside the component and shows, action by
action, that the two copies say the same.

| module | hypothesis | theorems (property) |
|---|---|---|
| `WorkQueueProofs` | `QueueAssumption`: at least one attempt, `None` is no job | `InductiveInvariant`, `TypeCorrect`, `OneOwner` (`SingleOwner`), `DeadLettersExhausted` (`BuriedAfterEveryAttempt`), `LossOnlyWhileRequeueing` (`NoSilentLoss`), `ImplementsLedger` (`LedgerKept`) |
| `ChunkIngestionProofs` | `IngestionAssumption` | `InductiveInvariant`, `TypeCorrect`, `RevertsDeleteOwnRows` (`RevertsOnlyInsertedRows`), `RemovedRowsStayRemoved` (`RemovedStaysRemoved`), `DeadUploadsLeaveNoRow` (`DeadLeavesNoRow`), `CreatedChunksAreSearchable` (`CreatedIsSearchable`) |
| | and `OneWorker` | `NoPointIsOrphan` (`NoOrphanPoints`), `RowAndPointAgree` (`StoresAgree`) |
| `DatasetDeletionProofs` | `DeletionAssumption` | `InductiveInvariant`, `TypeCorrect`, `RowsKeepTheirPoints` (`RowsHavePoints`), `AcknowledgedMeansGone` (`AcknowledgedChunksAreGone`), `OrganizationGoesLast` (`OrgIsLast`) |
| `FileUploadProofs` | `FileAssumption` | `InductiveInvariant`, `TypeCorrect`, `SegmentsPushedOnce` (`SegmentsOnce`) |
| `ConversationsProofs` | `TopicAssumption` | `InductiveInvariant`, `TypeCorrect`, `HistoryHolds` (`HistoryHoldsTogether`) |
| `MembershipsProofs` | `MembershipAssumption`: `None` is no user, organization or invitation; room for one row | `InductiveInvariant`, `TypeCorrect`, `SessionsFollowPostgres` (`SessionsAreCurrent`), `InvitationsAdmitOnce` (`InvitationAdmitsOnce`) |
| `BillingProofs` | `BillingAssumption`: finitely many requests, at least one invoice | `InductiveInvariant`, `TypeCorrect`, `FollowsStripe` (`BillingFollowsStripe`) |
| `MCServicesProofs` | `ServicesAssumption` | `SegmentsPushedOnce`, `ConversationsHoldTogether`, `SessionsFollowPostgres`, `InvitationsAdmitOnce`, `TablesFollowStripe` (the five properties above, as the run `services` names them), `TypeCorrect` (`TypeOK`, of all eight components) |
| | `GroupAssumption`, part of it | `BookmarksAndPointsAgree` (`StoresAgree`), `TagsAreReplaced` (`TagsReplaced`) |
| | `BatchAssumption`, part of it: the id of a chunk is new | `RetainedAreFound` (`RetainedIsFound`), `PointsOfReturnedRows` (`ReturnedRowsGetPoints`), `RefusedForOwnRow` (`RefusedOnlyByOwnRow`), `UpsertsGetOwnVectors` (`UpsertVectorsMatch`), `RowsMatchPoints` (`RowMatchesPoint`) |
| | `FilterAssumption`, part of it | `FiltersSelectWhatIsMeant` (`SelectsWhatIsMeant`) |
| | `SearchAssumption`, part of it: finitely many groups, and one if a request names one; pages, prefetches and windows that are not empty | `PagesPartitionResults` (`PagesPartition`), `AnswersStayCurrent` (`AnswersAreCurrent`) |

### The arguments

**Work queue.** Whether two workers hold one job depends on what is on the list;
whether a dead letter is exhausted depends on the number in the payload; and
both depend on old payloads, left on the processing list by a failed LREM, not
coming back. The invariant says: a job is at most once on the work list, and
either there or in one hand; a payload in a hand or on the list carries
the number of failures of its job (one less between the failure and the retry); a
settled job is neither on the work list nor being handled; a submitted job
that is nowhere had a failure and a fault. Each conjunct rests on lemmas about
`Head`, `Tail` and `Append` on a sequence without repeated jobs.
`ImplementsLedger` takes the refinement mapping of `WorkQueue`: the initial
state maps to the ledger's, and each action maps to a step of one job's
ledger or to none. That needs the invariant throughout: the status of a job is
read off the lists and the hands (`StatusTable`), and is unambiguous only
because a job is in one of these places.

**Chunk ingestion.** `IInv` says where a message is: on the list once, or in one
hand, or settled, with an attempt number that fits; and that a worker about to
revert inserted its target (`HandInv`), which is why a batch deletes only its own
rows. The other properties each add one conjunct to it. `RemovedInv`: until
something is retried, an upload that has not come to its insert has no row, so
what was removed had been inserted before and is not again.
`SearchableInv`: a row without a point is *owed* one, by the worker that
inserted it, by a revert that is about to take the row away, or by an
upsert of the same tracking id. That the debt passes to somebody in every case,
needs that no two rows have one tracking id (`TwinInv`, the unique index).
`OrphanInv` and `AgreeInv` are for one worker: two of them can make an orphan
point and can leave the row of one request with the point of another (run
`ingest_revert_race` and section 6), and the theorems have `OneWorker` as their
hypothesis because without it they are false; the run with two workers checks
what is left then.

**Dataset deletion.** A message covers what had been stored when it was made
(`CoverInv`); a worker has removed the rows up to where its paging is (`SweepInv`,
with the batch it holds between the two stores, `PointInv`); a dataset that is
gone has no row (`GoneInv`), and an organization that is gone has no dataset.
Paging is over chunks in their order, and a batch takes the first ones: the lemmas
`LastOfBatch`, `BatchHasNoGap` and `BatchIsNotEmpty` show that nothing below
the last one taken is left, and that an empty batch means no rows. `Halved` (a batch whose rows went and whose points
did not) is part of the property, not of the proof.

**File upload.** A file has one message until it has an outcome (`OnceInv`). As long
as no client deletes the file, its object stays, so that a row once made stays,
and the second attempt stops at it; hence a worker past the row is the first, and
what is pushed is what its loop counter says (`RowInv`).

**Conversations.** The property is about the live messages and the invariant adds
the requests: what a request (or a thread with a reply) has read is all there is,
unless it was overtaken (`RequestInv`), and then it makes `strayed` true when it
writes. So its length is the first free position. A delete at a position
leaves the messages in front of it, which is what a regeneration has kept
from its read. The order of a read is a rank, the number of messages before:
`EveryRank` shows that each rank is taken once (an injection between finite sets of
one size is onto), which makes the CHOOSE of `InPosition` well defined, and
`RankIsOrder` that the rank is the position when the positions have no gap.

**Memberships.** What a request is about to cache is what Postgres has, unless
the request is one of those that know it moved (`RequestInv`, `KnownInv`); who
changes a row marks exactly those. An invitation that admits somebody, or is
about to, is used up, and no other login is before its check (`OnceInv`).

**Billing.** Two levels. For any interleaving: events being handled are still
owed an answer, so whoever took the last row away is known to come to an insert
(`SubscribedInv`: somebody is subscribed, or no checkout was handled to its end, or
one is on its way, or one was answered without being read, `Missed`: it may be the
one that had deleted the row and died, and that nobody posts again); of the requests that store one invoice only a checkout
and a payment can overlap (`StoreInv`), so no invoice is stored three times.
While no two requests run together (`AloneInv`): one row, that of the last
checkout, and an invoice once. While none was cut short, in addition (`SmoothInv`):
the row has the plan that Stripe charges. That an insert finds a free row id
is a counting argument (`FS_*` of the library, on the finite number of
handlers); it is what `TypeOK` needs.

**Groups.** A chunk that is not in `disturbed` has at most one actor at work on it
(`Alone`: a request, a deletion of a group, an ingestion or the grupdate worker),
and a deletion under way has seen every row and bookmark there is (`Young`). So
row and point agree up to what this one actor has still to do (`Agree`): an
addition is a bookmark whose group the point may lack, a removal a group too
many in the point, a deletion either of them for the chunks it has not come to;
and the payload read before a write is still the one in the store. The proof
that a step keeps this asks whose step it is: the actor's own, which moves the
chunk on, or somebody else's, which either does not touch the chunk or puts it
in `disturbed`. `Tagged` says that the update has passed a chunk, or holds its
payload; a page is the first few chunks behind the offset, so that what is left
behind the last page is nothing (`PageIsFirst`).

**Batches.** Every row of the table is from before the batch or made by one of its
messages (`OwnRow`, `OldRow`), with one id and one tracking id each (`TableAt`);
every returned row goes back to one message that was to be inserted (`ReturnedAt`).
`unique_by` keeps one message per tracking id, which is why a row is hit
once, and why a row that is in the way of an upsert must be an own one, left by
an earlier attempt. A kept message has found the row that kept it (`KeptAt`). The
zip pairs by rank, and a rank names one element (`EveryPosition`): it gives a message its
own vector when no message was dropped, which is what an upsert guarantees.
The text of a point is that of the row it was kept for, whatever the batch repeats;
that this is the message's own text as well needs one message per tracking id.

**Filters.** Row and payload of a chunk agree unless an update is between the two
(`RowInv`). Each kind of condition is then followed through its conversion: what
Postgres answers, turned into a list of ids, and what Qdrant compares itself,
select the chunks the condition means, for the conditions that mean the same to
both (`PortableFor`, one chunk at a time); the lists `must`, `must_not` and `should`
keep that.

**Searches.** The parts of a list are taken by the places they keep, so the first
lemmas are about them: a sublist has the elements of its places in their order and
each as often (`Sublist`), a slice those of an interval, a sorted set each
element once. The invariant then has three parts, one per question.
*Types*: an index that the code uses is in its list (the head of what was looked
up, the first chunk of a group, the last chunk of the page before), which
is what has to be known before a list can be said to be of anything; a search
that panics is answered without using one. *Answers* (`AnswersIInv`): what was asked
for is followed from call to call, with what is `steady` and what is `hidden`
between them. An expected chunk has fewer than a page of chunks before it that
ever had a point while the search ran, so no cut of Qdrant's drops it, with
or without a second batch; its row is there when the rows are read; and the cross
encoder can prefer only a page of others to it. With sort options the same is said of
the order they ask for (`Wanted`, `HitsAt`): a prefetch that holds every point keeps
each of them, and both queries of a hybrid search find one page. *Pages* (`ChunksIInv`, `NamesIInv`,
`ScrollIInv`): while nothing changes, the pages read so far are the slices of one
list at the offsets `PageSize * (p - 1)`. The list is the same for each page because
a prefetch that covers all points has the whole order in it (`ChunksPages`), and
because groups are in the order of their best points with ties broken in one way,
whatever the limit (`NamesPages`); for a scroll each page starts at the last
chunk of the one before, and chunks in between there are none (`ScrollPages`).
The last page is reached because `TotalPages` counts what the list has, rounded up,
or, over groups, at least as much.

**Types.** `TypeOK` of `MCServices` is that of the component in focus. Each of the
invariants above has the types of its component, except the filters', for which
they are kept beside it (`FilterTypes`); the focus does not change.

### What proving changed

* `GroupMembership` had the payload's group ids as a sequence, filtered by a
  recursive operator, and the pages as sorted sequences; the ids are now counted and
  a page is the set of its chunks, known by rank.
* `BulkUpload` had sequences that were filtered and zipped. They all keep the
  order of the batch and have become sets with `Rank` and `Zip`; TLC finds the same
  number of states.
* `ChunkFilters!Tracked` is a set, and `FilterAssumption` says that `None` is neither
  a chunk nor a value, without which an unanswered condition could be an answer.
  Any set of groups may have the tag; `Init` had chosen one group, which is none of
  the dataset's when the dataset has no group.
* `Search` had its lists filtered, merged and flattened by folds, and its groups
  collected in a recursive operator. A part of a list is now known by its places and
  groups are sorted by their best point. `SearchAssumption` asks for finitely many
  groups, and for one when a request is to name one. The limits of `Search` are
  constants of `MCServices`, so that the theorems are not about the values of the run.
* `ChunkIngestion!Take` and `Memberships!Load` had CASE arms that overlapped; TLC takes the
  first, the logic any. They are nested IFs now, as in the code.
* `MembershipAssumption` allowed a bound of no rows, in which the founder's own
  membership does not fit.
* `Billing` counted the invoices with a sum folded over a set; counting the set
  itself says the same and can be reasoned about. Its requests have to be
  finitely many for a free row id to exist.

### Only model-checked

* Liveness: `EveryJobEnds`, `EveryUploadEnds`, `DeletedDatasetsGo`,
  `ListedOrgGoes`. The prover does not handle fairness (ENABLED).
* The properties of the runs that expect a violation, which do not hold.

All invariants and action properties of the passing runs are proved.

## 5. Disagreements with the repository's own words

* `operators/chunk_operator.rs:984` says of the revert: "assumes upsert chunk_ids
  were not upserted, only enterted". `upload_chunk` calls it precisely when the
  chunk *is* upserted (`bin/ingestion-worker.rs:1061`), while
  `bulk_upload_chunks` calls it when not upserting: run `ingest_split_upsert`.
* The same assumption fails with two workers: run `ingest_revert_race`.
* `bin/ingestion-worker.rs:558` says "Only embed the things we get returned from
  here"; the whole batch is embedded, and the vectors are zipped with the kept
  messages: run `bulk_shifted_vectors`.
* `handlers/group_handler.rs:1470` says "This route allows you to search only
  within a group". `search_groups_query` passes no group to the filter
  (`operators/search_operator.rs:2102`), so only the hybrid search is restricted:
  run `search_within_group`.
* `handlers/group_handler.rs:635` says of a group update "each chunk in the group
  will be updated by appending the group's tags to the chunk's tags".
  `operators/qdrant_operator.rs:1667` zips the ids asked for with the payloads found;
  when a point is missing, a chunk gets the whole payload of another one: run
  `group_payload`. The rewritten payloads also lose their group ids, because a
  quoted id does not parse (`ParsedIds`); `StoresAgree` excludes them.

## 6. Where the code gives a promise up

These are the conditions in the properties. Dropping one makes TLC find the
trace.

* `CreatedIsSearchable`, `DeadLeavesNoRow`: the bookmark and tag statements after
  the INSERT, and errors while points are built, return without a revert; the
  retry meets its own row and answers Ok. A failed revert and a crash do the same.
* `CreatedIsSearchable`: an error of `upload_chunk` in a split_avg batch is dropped;
  an upsert is not reverted, so its row stays when it is given up.
* `NoOrphanPoints`: row deleted, Qdrant refuses, the repeated request finds no
  row and is confirmed; and the revert of a split_avg upsert, which deletes the
  row and not the point that was there before.
* `StoresAgree`: with two workers an update and an upsert can leave the row of
  one and the point of the other; the property is checked with one.
* `RowMatchesPoint`: a batch that repeats a tracking id inserts the first message and
  makes a point for each, all with the text of that row; the groups and the vector
  that stay in Qdrant are the last message's. The property demands of such a batch
  that the texts agree, and no more.
* `AcknowledgedChunksAreGone`: rows of a batch go before its points; after a
  failure the retry does not find the rows.
* `DeletedDatasetsGo`: flag set and message not pushed, message lost with a
  worker, or every attempt refused by Qdrant.
* `ListedOrgGoes`: the organization is listed after its last dataset was pushed. If
  the workers finish before that, or it has no dataset, its row stays. After a
  ClickHouse failure the retry finds no dataset and never checks the
  organization. And a message that Qdrant refused at every attempt
  (`operators/dataset_operator.rs:397`) is a dead letter: its dataset stays, and with
  it the organization, for ever.
* `StoresAgree` of groups: two changes of one chunk at once, a failed call, and
  any group update.
* `SegmentsOnce`: a client that deletes its file between two attempts takes
  away the row that stopped the second attempt.
* `HistoryHoldsTogether`: a request, or the thread that stores a streamed reply,
  overtaken by another one reuses its position. Independently of that, an
  edit deletes before the plan is asked, so that a refused edit has
  deleted; regenerating after a failed reply deletes the previous one; a message
  in a deleted topic is refused only when it is the first.
* `SessionsAreCurrent`: a view loaded before a change and cached after it (every
  login that joins through an invitation does that), sessions cached while
  their organization is being deleted, a DEL that fails.
* `InvitationAdmitsOnce`: two logins that read the invitation together. Inviting
  a member a second time adds a second row for the pair; a member whose row was
  added, but whose DEL failed, is sent an invitation as well.
* `BillingFollowsStripe`: an event that `Webhook::construct_event` refuses (an unknown API
  version or object, a timestamp out of tolerance) falls through to the 200 at the
  end of the webhook (`handlers/stripe_handler.rs:49`, `:227`). Stripe does not
  send it again, so that a paid checkout has no row; the property speaks of the
  checkouts that were handled. And overlapping handlers. A repeated checkout also
  brings an ended subscription back and, having its invoice already, is
  answered with an error for ever; an end that comes before its checkout is
  lost; a plan change cut short leaves Stripe and the row different.
* `PagesPartition`: pages of a hybrid search are cut before they are merged;
  pages of groups are counted in points. The first prefetch has to hold every point:
  one that grows with the page (`operators/qdrant_operator.rs:1039`) is sorted anew
  on each page, and Qdrant's order_by drops the points without the field. `AnswersAreCurrent` says nothing about
  autocomplete or hybrid groups whose row has gone, where the handler panics, and of
  an autocomplete that is not extended, or a search within a group, only that no removed
  row is answered.
* `SelectsWhatIsMeant`: numbers are compared as text by the jsonb prefilter,
  dates as text, a range over a text is an error, an unknown tracking id is
  dropped from a list, and group metadata is looked up in the chunk's.

## 7. Not modelled, and the plan

* *Analytics, metrics, server shell and errors, frontends, embedding server,
  deployment*: they read, route, format or configure.
* *Reindex and BM25 migration*: a list that is popped with BRPOP; what is
  taken is gone when its worker fails, and the command for the dead letter is built
  and not executed. There is no promise to check beyond that.
* *Qdrant synchronisation*: a script run by hand.
* *Event queue*: an in-memory channel of analytics events, dropped when
  ClickHouse refuses a batch.
* *Chunker, averaging, rescoring and clustering*: computations on texts and
  floating point numbers, external or abstracted to an order where a module uses
  their result.
* *Within the modelled components*: the presigned and HTML branches of file
  uploads, API keys, e-mails, scores and highlights, negative examples of a
  recommendation, score thresholds, setup-mode checkouts, payment methods, plans and
  usage items of a subscription, Stripe's giving up on an event, and the plan limit of `create_chunk` with the triggers
  that count.
* Clock skew between machines, and `created_at` in local time against
  `deleted_at` in UTC.

What would come next: the fields of a chunk in `update_chunk`, to see partial
updates overwrite each other; `create_chunk` with its two messages and its
plan limit; liveness of file uploads.
