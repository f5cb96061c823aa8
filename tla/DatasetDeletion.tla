----------------------------- MODULE DatasetDeletion -----------------------------
(***************************************************************************)
(* How Trieve clears and deletes datasets, and at last their organization.  *)
(* A handler marks the dataset deleted in Postgres and pushes a message; a  *)
(* delete worker removes the rows and the Qdrant points batch by batch,     *)
(* then the dataset row, then its analytics, and then looks whether the     *)
(* organization, listed in a Redis set by another handler, can go too.      *)
(*                                                                          *)
(* The list protocol is WorkQueue's: here a message is popped, acknowledged *)
(* or pushed back in one step.  Groups and files are removed like rows that *)
(* have no point and are left out.  Creation times are compared with the    *)
(* deleted_at of a message only, so a message carries the set of chunks     *)
(* created before it.                                                       *)
(***************************************************************************)
EXTENDS Naturals, Sequences, FiniteSets, FiniteSetsExt

CONSTANTS Workers,     \* delete worker processes
          Datasets,    \* datasets of one organization
          MaxChunk,    \* chunks are 1 .. MaxChunk, in the order of their ids
          Owner,       \* dataset of each chunk
          Loaded,      \* chunks that are stored from the start
          BatchSize,   \* DELETE_CHUNK_BATCH_SIZE, 5000 by default
          MaxAttempts, \* 3 in the code
          Failures,    \* kinds of failure that may happen
          MaxFailures, \* bound on their number
          Requests,    \* requests that are made: "clear", "delete", "org"
          MaxRequests, \* bound on their number
          None

Chunks == 1 .. MaxChunk

Kinds == {"push",       \* LPUSH of the delete message fails
          "points",     \* Qdrant refuses to delete a batch
          "analytics",  \* ClickHouse refuses the first delete
          "crash"}      \* the worker dies

ASSUME DeletionAssumption ==
  /\ MaxChunk \in Nat /\ BatchSize \in Nat \ {0} /\ MaxAttempts \in Nat \ {0}
  /\ MaxFailures \in Nat /\ MaxRequests \in Nat
  /\ Owner \in [Chunks -> Datasets]
  /\ Loaded \subseteq Chunks
  /\ Failures \subseteq Kinds
  /\ Requests \subseteq {"clear", "delete", "org"}
  /\ None \notin Datasets

VARIABLES dataset,  \* row of each dataset: live, deleted = 1, or gone
          row,      \* chunks with a row in Postgres
          point,    \* chunks with a point in Qdrant
          upload,   \* where the ingestion worker is with each chunk
          queue,    \* delete_dataset_queue, oldest first
          dead,     \* messages on dead_letters_delete
          worker,   \* what each delete worker is doing
          asked,    \* <<request, dataset>> pairs made
          org,      \* the organization: its row, and the handler deleting it
          listed,   \* the organization is in the set deleted_organizations
          promised, \* chunks covered by an acknowledged message
          failed,   \* number of failures so far
          seen      \* kinds of failure so far

faults == <<failed, seen>>
vars   == <<dataset, row, point, upload, queue, dead, worker, asked, org, listed, promised, faults>>

Message == [dataset : Datasets, clear : BOOLEAN, covers : SUBSET Chunks,
            attempt : 0 .. MaxAttempts - 1]
Idle    == [at |-> "idle", msg |-> None, last |-> 0, batch |-> {}]

TypeOK ==
  /\ dataset \in [Datasets -> {"live", "deleted", "gone"}]
  /\ row \in SUBSET Chunks /\ point \in SUBSET Chunks
  /\ upload \in [Chunks -> {"none", "looked", "stamped", "inserted", "done"}]
  /\ queue \in Seq(Message)
  /\ dead \in SUBSET Message
  /\ worker \in [Workers -> [at : {"idle", "lookup", "rows", "points", "drop", "analytics", "ack"},
                             msg : Message \cup {None}, last : 0 .. MaxChunk,
                             batch : SUBSET Chunks]]
  /\ asked \in SUBSET ({"clear", "delete", "marked"} \X Datasets)
  /\ org \in [row : {"live", "deleted", "gone"}, todo : SUBSET Datasets,
              at : {"none", "mark", "push", "flag", "list", "done"},
              now : Datasets \cup {None}]
  /\ listed \in BOOLEAN
  /\ promised \in SUBSET Chunks
  /\ failed \in 0 .. MaxFailures
  /\ seen \in SUBSET Failures

Init ==
  /\ dataset = [d \in Datasets |-> "live"]
  /\ row = Loaded /\ point = Loaded
  /\ upload = [c \in Chunks |-> IF c \in Loaded THEN "done" ELSE "none"]
  /\ queue = << >> /\ dead = {}
  /\ worker = [w \in Workers |-> Idle]
  /\ asked = {}
  /\ org = [row |-> "live", todo |-> {}, at |-> "none", now |-> None]
  /\ listed = FALSE
  /\ promised = {}
  /\ failed = 0 /\ seen = {}

Failing(kind) ==
  /\ kind \in Failures
  /\ failed < MaxFailures
  /\ failed' = failed + 1
  /\ seen' = seen \cup {kind}

ChunksOf(d) == {c \in Chunks : Owner[c] = d}

\* The chunks of a dataset whose created_at is not after now.
Created(d) == {c \in ChunksOf(d) : upload[c] \in {"stamped", "inserted", "done"}}

Push(d, clear) ==
  queue' = Append(queue, [dataset |-> d, clear |-> clear, covers |-> Created(d), attempt |-> 0])

--------------------------------------------------------------------------------
(* The ingestion worker, as far as a deletion sees it.                      *)

Upload(c) ==
  /\ \/ /\ upload[c] = "none" /\ dataset[Owner[c]] = "live"    \* get_dataset_by_id_query
        /\ upload' = [upload EXCEPT ![c] = "looked"]
        /\ UNCHANGED <<row, point>>
     \/ /\ upload[c] = "looked"                                \* created_at
        /\ upload' = [upload EXCEPT ![c] = "stamped"]
        /\ UNCHANGED <<row, point>>
     \/ /\ upload[c] = "stamped" /\ dataset[Owner[c]] # "gone" \* foreign key
        /\ upload' = [upload EXCEPT ![c] = "inserted"]
        /\ row' = row \cup {c}
        /\ UNCHANGED point
     \/ /\ upload[c] = "inserted"
        /\ upload' = [upload EXCEPT ![c] = "done"]
        /\ point' = point \cup {c}
        /\ UNCHANGED row
  /\ UNCHANGED <<dataset, queue, dead, worker, asked, org, listed, promised, faults>>

--------------------------------------------------------------------------------
(* The API handlers.                                                        *)

\* Each request is made at most once per dataset.
MayAsk(kind) ==
  /\ kind \in Requests
  /\ Cardinality({p \in asked : p[1] # "marked"}) + (IF org.at = "none" THEN 0 ELSE 1) < MaxRequests

\* clear_dataset_by_dataset_id_query.
ClearDataset(d) ==
  /\ MayAsk("clear") /\ <<"clear", d>> \notin asked
  /\ dataset[d] = "live"
  /\ asked' = asked \cup {<<"clear", d>>}
  /\ Push(d, TRUE)
  /\ UNCHANGED <<dataset, row, point, upload, dead, worker, org, listed, promised, faults>>

\* soft_delete_dataset_by_id_query: the UPDATE ...
MarkDeleted(d) ==
  /\ MayAsk("delete") /\ <<"delete", d>> \notin asked
  /\ dataset[d] = "live"
  /\ dataset' = [dataset EXCEPT ![d] = "deleted"]
  /\ asked' = asked \cup {<<"delete", d>>, <<"marked", d>>}
  /\ UNCHANGED <<row, point, upload, queue, dead, worker, org, listed, promised, faults>>

\* ... and then the message.
PushDelete(d) ==
  /\ <<"marked", d>> \in asked
  /\ asked' = asked \ {<<"marked", d>>}
  /\ \/ Push(d, FALSE) /\ UNCHANGED faults
     \/ Failing("push") /\ UNCHANGED queue
  /\ UNCHANGED <<dataset, row, point, upload, dead, worker, org, listed, promised>>

\* delete_organization_query lists every dataset that has a row ...
DeleteOrg ==
  /\ MayAsk("org") /\ org.at = "none"
  /\ org' = [org EXCEPT !.at = "mark", !.todo = {d \in Datasets : dataset[d] # "gone"}]
  /\ UNCHANGED <<dataset, row, point, upload, queue, dead, worker, asked, listed, promised, faults>>

\* ... soft-deletes each of them ...
MarkNext ==
  /\ org.at = "mark"
  /\ \/ \E d \in org.todo :
          /\ dataset' = IF dataset[d] = "gone" THEN dataset ELSE [dataset EXCEPT ![d] = "deleted"]
          /\ org' = [org EXCEPT !.at = "push", !.now = d, !.todo = @ \ {d}]
     \/ /\ org.todo = {}
        /\ org' = [org EXCEPT !.at = "flag"]
        /\ UNCHANGED dataset
  /\ UNCHANGED <<row, point, upload, queue, dead, worker, asked, listed, promised, faults>>

\* (an error ends the request, which may then be made again) ...
PushNext ==
  /\ org.at = "push"
  /\ \/ /\ Push(org.now, FALSE)
        /\ org' = [org EXCEPT !.at = "mark", !.now = None]
        /\ UNCHANGED faults
     \/ /\ Failing("push")
        /\ org' = [org EXCEPT !.at = "none", !.now = None, !.todo = {}]
        /\ UNCHANGED queue
  /\ UNCHANGED <<dataset, row, point, upload, dead, worker, asked, listed, promised>>

\* ... marks the organization, and only then lists it for the workers.
FlagOrg ==
  /\ org.at = "flag"
  /\ org' = [org EXCEPT !.at = "list", !.row = IF @ = "gone" THEN "gone" ELSE "deleted"]
  /\ UNCHANGED <<dataset, row, point, upload, queue, dead, worker, asked, listed, promised, faults>>

ListOrg ==
  /\ org.at = "list"
  /\ listed' = TRUE
  /\ org' = [org EXCEPT !.at = "done"]
  /\ UNCHANGED <<dataset, row, point, upload, queue, dead, worker, asked, promised, faults>>

--------------------------------------------------------------------------------
(* The delete worker.                                                       *)

\* Mutant: the last attempt is counted one too late.
PushBackOffByOne(w, m) ==
  /\ worker' = [worker EXCEPT ![w] = Idle]
  /\ IF m.attempt = MaxAttempts
       THEN dead' = dead \cup {m} /\ UNCHANGED queue
       ELSE queue' = Append(queue, [m EXCEPT !.attempt = @ + 1]) /\ UNCHANGED dead

\* readd_error_to_queue.
PushBack(w, m) ==
  /\ worker' = [worker EXCEPT ![w] = Idle]
  /\ IF m.attempt + 1 = MaxAttempts
       THEN dead' = dead \cup {m} /\ UNCHANGED queue
       ELSE queue' = Append(queue, [m EXCEPT !.attempt = @ + 1]) /\ UNCHANGED dead

Take(w) ==
  /\ worker[w].at = "idle"
  /\ queue # << >>
  /\ worker' = [worker EXCEPT ![w] = [Idle EXCEPT !.at = "lookup", !.msg = Head(queue)]]
  /\ queue' = Tail(queue)
  /\ UNCHANGED <<dataset, row, point, upload, dead, asked, org, listed, promised, faults>>

\* Mutant: the query of the API handlers, which only finds live datasets.
LookUpLive(w) ==
  /\ worker[w].at = "lookup"
  /\ IF dataset[worker[w].msg.dataset] # "live"
       THEN PushBack(w, worker[w].msg)
       ELSE worker' = [worker EXCEPT ![w].at = "rows"] /\ UNCHANGED <<queue, dead>>
  /\ UNCHANGED <<dataset, row, point, upload, asked, org, listed, promised, faults>>

\* get_deleted_dataset_by_unifiedid_query finds live and deleted datasets;
\* when there is none the message is pushed back.
LookUp(w) ==
  /\ worker[w].at = "lookup"
  /\ IF dataset[worker[w].msg.dataset] = "gone"
       THEN PushBack(w, worker[w].msg)
       ELSE worker' = [worker EXCEPT ![w].at = "rows"] /\ UNCHANGED <<queue, dead>>
  /\ UNCHANGED <<dataset, row, point, upload, asked, org, listed, promised, faults>>

\* Mutant: the LIMIT comes without the ORDER BY.
BatchUnordered(S) ==
  IF Cardinality(S) <= BatchSize THEN S
  ELSE CHOOSE T \in SUBSET S : Cardinality(T) = BatchSize /\ Max(S) \in T

\* The first BatchSize chunks in the order of their ids.
Batch(S) == {c \in S : Cardinality({b \in S : b < c}) < BatchSize}

\* Mutant: a deletion leaves the chunks to the cascade of its dataset row.
ClearRowsByCascade(w) ==
  /\ worker[w].at = "rows"
  /\ ~worker[w].msg.clear
  /\ worker' = [worker EXCEPT ![w].at = "drop"]
  /\ UNCHANGED <<dataset, row, point, upload, queue, dead, asked, org, listed, promised, faults>>

\* One round of the loop in clear_dataset_query: SELECT and DELETE of the
\* rows first (another worker in between would delete the same rows) ...
ClearRows(w) ==
  LET m     == worker[w].msg
      batch == Batch({c \in row \cap m.covers : c > worker[w].last})
  IN
  /\ worker[w].at = "rows"
  /\ row' = row \ batch
  /\ worker' = [worker EXCEPT
       ![w].batch = batch,
       ![w].at = IF batch # {} THEN "points" ELSE IF m.clear THEN "ack" ELSE "drop"]
  /\ UNCHANGED <<dataset, point, upload, queue, dead, asked, org, listed, promised, faults>>

\* Mutant: the points are deleted by the dataset they belong to.
ClearPointsOfDataset(w) ==
  /\ worker[w].at = "points"
  /\ point' = point \ ChunksOf(worker[w].msg.dataset)
  /\ worker' = [worker EXCEPT ![w].at = "rows", ![w].last = Max(worker[w].batch)]
  /\ UNCHANGED <<dataset, row, upload, queue, dead, asked, org, listed, promised, faults>>

\* ... then their points; an error gives the whole message up.
ClearPoints(w) ==
  /\ worker[w].at = "points"
  /\ \/ /\ point' = point \ worker[w].batch
        /\ worker' = [worker EXCEPT ![w].at = "rows", ![w].last = Max(worker[w].batch)]
        /\ UNCHANGED <<queue, dead, faults>>
     \/ /\ Failing("points")
        /\ PushBack(w, worker[w].msg)
        /\ UNCHANGED point
  /\ UNCHANGED <<dataset, row, upload, asked, org, listed, promised>>

\* delete_dataset_by_id_query: the row, which takes the remaining chunk rows
\* with it; it is an error that another worker has removed it.
DropDataset(w) ==
  LET d == worker[w].msg.dataset IN
  /\ worker[w].at = "drop"
  /\ \/ /\ dataset[d] = "gone"
        /\ PushBack(w, worker[w].msg)
        /\ UNCHANGED <<dataset, row>>
     \/ /\ dataset[d] # "gone"
        /\ dataset' = [dataset EXCEPT ![d] = "gone"]
        /\ row' = row \ ChunksOf(d)
        /\ worker' = [worker EXCEPT ![w].at = "analytics"]
        /\ UNCHANGED <<queue, dead>>
  /\ UNCHANGED <<point, upload, asked, org, listed, promised, faults>>

\* USE_ANALYTICS: the events in ClickHouse.
DropAnalytics(w) ==
  /\ worker[w].at = "analytics"
  /\ \/ worker' = [worker EXCEPT ![w].at = "ack"] /\ UNCHANGED <<queue, dead, faults>>
     \/ Failing("analytics") /\ PushBack(w, worker[w].msg)
  /\ UNCHANGED <<dataset, row, point, upload, asked, org, listed, promised>>

\* Mutant: datasets that are gone count as well.
SoftDeletedEver == {d \in Datasets : dataset[d] # "live"}

SoftDeleted == {d \in Datasets : dataset[d] = "deleted"}

\* LREM; for a deletion also SISMEMBER, the list of soft-deleted datasets,
\* and the DELETE of the organization, which live datasets forbid.
Acknowledge(w) ==
  LET goes == /\ ~worker[w].msg.clear /\ listed
              /\ SoftDeleted = {}
              /\ \A d \in Datasets : dataset[d] = "gone"
  IN
  /\ worker[w].at = "ack"
  /\ promised' = promised \cup worker[w].msg.covers
  /\ worker' = [worker EXCEPT ![w] = Idle]
  /\ listed' = (listed /\ ~goes)
  /\ org' = IF goes THEN [org EXCEPT !.row = "gone"] ELSE org
  /\ UNCHANGED <<dataset, row, point, upload, queue, dead, asked, faults>>

\* The message stays on the processing list.
Crash(w) ==
  /\ worker[w].at # "idle"
  /\ Failing("crash")
  /\ worker' = [worker EXCEPT ![w] = Idle]
  /\ UNCHANGED <<dataset, row, point, upload, queue, dead, asked, org, listed, promised>>

--------------------------------------------------------------------------------
WorkerStep(w) ==
  \/ Take(w) \/ LookUp(w) \/ ClearRows(w) \/ ClearPoints(w)
  \/ DropDataset(w) \/ DropAnalytics(w) \/ Acknowledge(w)

OrgStep == MarkNext \/ PushNext \/ FlagOrg \/ ListOrg

Next ==
  \/ \E c \in Chunks : Upload(c)
  \/ \E d \in Datasets : ClearDataset(d) \/ MarkDeleted(d) \/ PushDelete(d)
  \/ DeleteOrg \/ OrgStep
  \/ \E w \in Workers : WorkerStep(w) \/ Crash(w)

Spec == Init /\ [][Next]_vars

\* A running worker keeps polling, and a handler that has begun goes on.
FairSpec ==
  /\ Spec
  /\ \A w \in Workers : WF_vars(WorkerStep(w))
  /\ \A d \in Datasets : WF_vars(PushDelete(d))
  /\ WF_vars(OrgStep)

--------------------------------------------------------------------------------
(* Properties.                                                              *)

Quiet ==
  /\ queue = << >>
  /\ \A w \in Workers : worker[w].at = "idle"
  /\ \A c \in Chunks : upload[c] \in {"none", "looked", "done"}
                       \/ (upload[c] = "stamped" /\ dataset[Owner[c]] = "gone")

\* dataset_handler.rs:294 "Removes all chunks": when a clear or a delete was
\* acknowledged, no chunk stored before the request is left in a store ...
ClearRemovesEverything ==
  Quiet => promised \cap Loaded \cap (row \cup point) = {}

\* ... which holds unless a batch lost its rows and not its points.
Halved == seen \cap {"points", "crash"} # {}

AcknowledgedChunksAreGone == ~Halved => ClearRemovesEverything

\* A chunk that keeps its row through a clear keeps its point as well.
RowsHavePoints == Quiet => row \subseteq point

\* The organization's row outlives the rows of its chunks, and once the
\* workers are done none of its points is left.
OrgIsLast ==
  org.row = "gone" =>
    /\ row = {}
    /\ Quiet /\ ~Halved => point \cap Loaded = {}

Buried(d) == \E m \in dead : m.dataset = d

\* A soft-deleted dataset is removed in the end, unless its message was
\* never pushed, was lost with a worker, or failed in Qdrant every time.
DeletedDatasetsGo ==
  \A d \in Datasets :
    dataset[d] = "deleted" ~>
      \/ dataset[d] = "gone"
      \/ Buried(d) /\ "points" \in seen
      \/ seen \cap {"push", "crash"} # {}

\* An organization that is listed while a dataset of it is still there is
\* removed with the last one, unless a worker stops after the dataset's row,
\* or a dataset stays because Qdrant refused its message every time.
ListedOrgGoes ==
  (listed /\ \E d \in Datasets : dataset[d] # "gone") ~>
    \/ org.row = "gone"
    \/ \E d \in Datasets : Buried(d) /\ dataset[d] # "gone" /\ "points" \in seen
    \/ seen \cap {"analytics", "crash"} # {}
================================================================================
