----------------------------- MODULE ChunkIngestion -----------------------------
(***************************************************************************)
(* The life of a chunk in Trieve: a row in Postgres (chunk_metadata) and a  *)
(* point in Qdrant, written one after the other by the ingestion worker and *)
(* removed one after the other by the delete handler.  Searches only see    *)
(* chunks that have both.                                                   *)
(*                                                                          *)
(* A message on the "ingestion" list either uploads one chunk (the batch of *)
(* a BulkUploadIngestionMessage is a single chunk here; BulkUpload models   *)
(* what happens inside a batch) or updates one.  The list protocol itself   *)
(* is modelled by WorkQueue: here a message is popped, acknowledged, pushed *)
(* back or dropped in one step.                                             *)
(*                                                                          *)
(* A chunk and the point made for it have one identity, so both stores are  *)
(* functions of Chunks.  What they hold is abstracted to the request that   *)
(* produced it: the upload of some chunk, or an update.                     *)
(***************************************************************************)
EXTENDS Naturals, Sequences, FiniteSets

CONSTANTS Workers,      \* ingestion worker processes
          Chunks,       \* chunks that may be uploaded
          Updates,      \* update requests, each made at most once
          Deletable,    \* chunks the API may be asked to delete
          Upserts,      \* chunks uploaded with upsert_by_tracking_id
          SplitAvg,     \* chunks uploaded with split_avg
          Tracking,     \* tracking id of each chunk, or None
          MaxAttempts,  \* 10 in the code
          Failures,     \* kinds of failure that may happen
          MaxFailures,  \* bound on their number
          None

Kinds == {"embed",       \* the embedding server fails
          "bookmarks",   \* a later statement of the insert fails
          "build",       \* group lookup or vector size, before the upsert
          "qdrant",      \* the upsert of an uploaded point fails
          "revert",      \* deleting the inserted row fails
          "update",      \* the point of an update cannot be written
          "unindex",     \* deleting a point fails
          "crash"}       \* the worker process dies

ASSUME IngestionAssumption ==
  /\ MaxAttempts \in Nat \ {0} /\ MaxFailures \in Nat
  /\ Upserts \subseteq Chunks /\ SplitAvg \subseteq Chunks
  /\ Deletable \subseteq Chunks
  /\ Failures \subseteq Kinds
  /\ DOMAIN Tracking = Chunks
  /\ \A c \in Upserts : Tracking[c] # None
  /\ None \notin Chunks \cup Updates

VARIABLES row,       \* chunk_metadata: what the row of each chunk holds
          point,     \* Qdrant: what the point of each chunk holds
          queue,     \* the ingestion list, oldest message first
          dead,      \* uploads on the dead letter list
          worker,    \* what each worker is doing
          deletion,  \* progress of the delete request of each chunk
          covered,   \* chunks whose row has created_at <= deleted_at
          created,   \* chunks accepted by create_chunk
          asked,     \* updates accepted by update_chunk
          failed,    \* number of failures so far
          seen       \* kinds of failure so far

stores   == <<row, point>>
requests == <<deletion, covered, created, asked>>
faults   == <<failed, seen>>
vars     == <<stores, queue, dead, worker, requests, faults>>

Text     == Chunks \cup Updates
Message  == [kind : {"upload"}, chunk : Chunks, text : Chunks, attempt : 0 .. MaxAttempts - 1]
            \cup [kind : {"update"}, chunk : Chunks, text : Updates, attempt : {0}]
Points   == {"idle", "insert", "embed", "store", "revert",
             "lookup", "splitInsert", "splitStore", "splitRevert",
             "updateRow", "updatePoint"}
NoMessage == [kind |-> None, chunk |-> None, text |-> None, attempt |-> 0]
Idle      == [at |-> "idle", msg |-> NoMessage, target |-> None, fresh |-> FALSE]

TypeOK ==
  /\ row \in [Chunks -> Text \cup {None}]
  /\ point \in [Chunks -> Text \cup {None}]
  /\ queue \in Seq(Message)
  /\ dead \in SUBSET Chunks
  /\ worker \in [Workers -> [at : Points, msg : Message \cup {NoMessage},
                             target : Chunks \cup {None}, fresh : BOOLEAN]]
  /\ deletion \in [Chunks -> {"none", "begun", "unindex", "removed", "missed", "refused"}]
  /\ covered \in SUBSET Chunks
  /\ created \in SUBSET Chunks
  /\ asked \in SUBSET Updates
  /\ failed \in 0 .. MaxFailures
  /\ seen \in SUBSET Failures

Init ==
  /\ row = [c \in Chunks |-> None]
  /\ point = [c \in Chunks |-> None]
  /\ queue = << >> /\ dead = {}
  /\ worker = [w \in Workers |-> Idle]
  /\ deletion = [c \in Chunks |-> "none"] /\ covered = {}
  /\ created = {} /\ asked = {}
  /\ failed = 0 /\ seen = {}

Failing(kind) ==
  /\ kind \in Failures
  /\ failed < MaxFailures
  /\ failed' = failed + 1
  /\ seen' = seen \cup {kind}

--------------------------------------------------------------------------------
(* The API handlers.                                                        *)

\* create_chunk answers as soon as the message is queued.
CreateChunk(c) ==
  /\ c \notin created
  /\ created' = created \cup {c}
  /\ queue' = Append(queue, [kind |-> "upload", chunk |-> c, text |-> c, attempt |-> 0])
  /\ UNCHANGED <<stores, dead, worker, deletion, covered, asked, faults>>

\* update_chunk looks the row up and then only queues a message.
UpdateChunk(c, u) ==
  /\ u \notin asked
  /\ row[c] # None
  /\ asked' = asked \cup {u}
  /\ queue' = Append(queue, [kind |-> "update", chunk |-> c, text |-> u, attempt |-> 0])
  /\ UNCHANGED <<stores, dead, worker, deletion, covered, created, faults>>

\* The worker stamps created_at when it starts an upload.
Stamped(c) ==
  \/ row[c] # None
  \/ \E w \in Workers : worker[w].at \in {"insert", "lookup", "splitInsert"}
                        /\ worker[w].msg.chunk = c

\* delete_chunk takes deleted_at; a request that was refused may be repeated ...
BeginDelete(c) ==
  /\ c \in Deletable \cap created
  /\ deletion[c] \in {"none", "refused"}
  /\ deletion' = [deletion EXCEPT ![c] = "begun"]
  /\ covered' = IF Stamped(c) THEN covered \cup {c} ELSE covered \ {c}
  /\ UNCHANGED <<stores, queue, dead, worker, created, asked, faults>>

\* Mutant: the points of the request are deleted, not those of the rows.
DeleteRowByRequest(c) ==
  /\ deletion[c] = "begun"
  /\ row' = IF c \in covered THEN [row EXCEPT ![c] = None] ELSE row
  /\ deletion' = [deletion EXCEPT ![c] = "unindex"]
  /\ UNCHANGED <<point, queue, dead, worker, covered, created, asked, faults>>

\* ... then removes the rows created before it, in one transaction; when
\* there is none the request is confirmed all the same ...
DeleteRow(c) ==
  /\ deletion[c] = "begun"
  /\ IF row[c] # None /\ c \in covered
       THEN /\ row' = [row EXCEPT ![c] = None]
            /\ deletion' = [deletion EXCEPT ![c] = "unindex"]
       ELSE /\ deletion' = [deletion EXCEPT ![c] = "missed"]
            /\ UNCHANGED row
  /\ UNCHANGED <<point, queue, dead, worker, covered, created, asked, faults>>

\* ... then the points of the rows it removed.
DeletePoint(c) ==
  /\ deletion[c] = "unindex"
  /\ \/ /\ point' = [point EXCEPT ![c] = None]
        /\ deletion' = [deletion EXCEPT ![c] = "removed"]
        /\ UNCHANGED faults
     \/ /\ Failing("unindex")
        /\ deletion' = [deletion EXCEPT ![c] = "refused"]
        /\ UNCHANGED point
  /\ UNCHANGED <<row, queue, dead, worker, covered, created, asked>>

--------------------------------------------------------------------------------
(* The ingestion worker.                                                    *)

\* Rows that hold the tracking id of chunk c.
Twins(c) == {d \in Chunks : row[d] # None /\ Tracking[d] = Tracking[c] /\ Tracking[c] # None}

GoTo(w, at) == worker' = [worker EXCEPT ![w].at = at]

\* The message is acknowledged, or given up without being pushed back.
Finish(w) == worker' = [worker EXCEPT ![w] = Idle] /\ UNCHANGED <<queue, dead>>

\* Mutant: the last attempt is counted one too late.
PushBackOffByOne(w) ==
  LET m == worker[w].msg IN
  /\ worker' = [worker EXCEPT ![w] = Idle]
  /\ IF m.attempt = MaxAttempts
       THEN dead' = dead \cup {m.chunk} /\ UNCHANGED queue
       ELSE queue' = Append(queue, [m EXCEPT !.attempt = @ + 1]) /\ UNCHANGED dead

\* readd_error_to_queue for an upload: behind everything queued meanwhile,
\* or on the dead letter list.
PushBack(w) ==
  LET m == worker[w].msg IN
  /\ worker' = [worker EXCEPT ![w] = Idle]
  /\ IF m.attempt + 1 = MaxAttempts
       THEN dead' = dead \cup {m.chunk} /\ UNCHANGED queue
       ELSE queue' = Append(queue, [m EXCEPT !.attempt = @ + 1]) /\ UNCHANGED dead

\* Mutants: no revert at all; a revert whatever the batch; no revert after
\* the last attempt.
UndoNothing(w) == PushBack(w)
UndoAlways(w)  == GoTo(w, "revert") /\ UNCHANGED <<queue, dead>>
UndoNotLast(w) ==
  IF worker[w].msg.attempt + 1 = MaxAttempts
    THEN PushBack(w)
    ELSE GoTo(w, "revert") /\ UNCHANGED <<queue, dead>>

\* An upload that failed after its row was written: the row is deleted
\* again unless the batch upserts.
Undo(w) ==
  IF worker[w].msg.chunk \in Upserts
    THEN PushBack(w)
    ELSE GoTo(w, "revert") /\ UNCHANGED <<queue, dead>>

Take(w) ==
  /\ worker[w].at = "idle"
  /\ queue # << >>
  /\ LET m == Head(queue)
         at == IF m.kind = "update" THEN "updateRow"
               ELSE IF m.chunk \in SplitAvg THEN "lookup" ELSE "insert"
     IN /\ worker' = [worker EXCEPT ![w] = [Idle EXCEPT !.at = at, !.msg = m]]
        /\ covered' = IF m.kind = "upload" /\ row[m.chunk] = None
                        THEN covered \ {m.chunk} ELSE covered
  /\ queue' = Tail(queue)
  /\ UNCHANGED <<stores, dead, deletion, created, asked, faults>>

\* Mutant: an upsert returns the row it found without changing it.
InsertedKeepsOld(w, d, isNew, next) ==
  /\ row' = IF isNew THEN [row EXCEPT ![d] = worker[w].msg.text] ELSE row
  /\ worker' = [worker EXCEPT ![w].at = next, ![w].target = d, ![w].fresh = isNew]
  /\ UNCHANGED <<queue, dead, faults>>

\* Postgres has the row; then the later statements of the insert may fail.
Inserted(w, d, isNew, next) ==
  /\ row' = [row EXCEPT ![d] = worker[w].msg.text]
  /\ worker' = [worker EXCEPT ![w].at = next, ![w].target = d, ![w].fresh = isNew]
  /\ UNCHANGED <<queue, dead, faults>>

\* bulk_insert_chunk_metadata_query: one INSERT ... ON CONFLICT decides.
BulkInsert(w) ==
  LET c == worker[w].msg.chunk IN
  /\ worker[w].at = "insert"
  /\ \/ /\ c \notin Upserts /\ (row[c] # None \/ Twins(c) # {})
        /\ Finish(w)             \* "All collisions": Ok([])
        /\ UNCHANGED <<row, faults>>
     \/ /\ c \notin Upserts /\ row[c] = None /\ Twins(c) = {}
        /\ Inserted(w, c, TRUE, "embed")
     \/ /\ c \in Upserts /\ Twins(c) = {}
        /\ Inserted(w, c, TRUE, "embed")
     \/ /\ c \in Upserts
        /\ \E d \in Twins(c) : Inserted(w, d, FALSE, "embed")
  /\ UNCHANGED <<point, requests>>

\* The bookmark or tag statements after the INSERT fail: no revert.
InsertFails(w) ==
  /\ worker[w].at = "embed"
  /\ Failing("bookmarks")
  /\ PushBack(w)
  /\ UNCHANGED <<stores, requests>>

CreateVectors(w) ==
  /\ worker[w].at = "embed"
  /\ \/ GoTo(w, "store") /\ UNCHANGED <<queue, dead, faults>>
     \/ Failing("embed") /\ Undo(w)
     \/ Failing("build") /\ PushBack(w)
  /\ UNCHANGED <<stores, requests>>

\* Mutant: the point of an upsert gets the id of the message's chunk.
StorePointByMessage(w) ==
  /\ worker[w].at = "store"
  /\ \/ /\ point' = [point EXCEPT ![worker[w].msg.chunk] = worker[w].msg.text]
        /\ Finish(w)
        /\ UNCHANGED faults
     \/ /\ Failing("qdrant") /\ Undo(w)
        /\ UNCHANGED point
  /\ UNCHANGED <<row, requests>>

\* bulk_upsert_qdrant_points_query.
StorePoint(w) ==
  /\ worker[w].at = "store"
  /\ \/ /\ point' = [point EXCEPT ![worker[w].target] = worker[w].msg.text]
        /\ Finish(w)
        /\ UNCHANGED faults
     \/ /\ Failing("qdrant") /\ Undo(w)
        /\ UNCHANGED point
  /\ UNCHANGED <<row, requests>>

\* Mutant: the error is swallowed once the row is gone.
RevertSwallows(w) ==
  /\ worker[w].at = "revert"
  /\ row' = [row EXCEPT ![worker[w].target] = None]
  /\ Finish(w)
  /\ UNCHANGED <<point, requests, faults>>

\* bulk_revert_insert_chunk_metadata_query.
Revert(w) ==
  /\ worker[w].at = "revert"
  /\ \/ row' = [row EXCEPT ![worker[w].target] = None] /\ UNCHANGED faults
     \/ Failing("revert") /\ UNCHANGED row
  /\ PushBack(w)
  /\ UNCHANGED <<point, requests>>

--------------------------------------------------------------------------------
(* upload_chunk, used when the batch has a split_avg chunk.  Whatever error *)
(* it returns, bulk_upload_chunks answers Ok and the message is done.       *)

\* The vectors come first; then an upsert looks for the row to update.
LookupTwin(w) ==
  LET c == worker[w].msg.chunk IN
  /\ worker[w].at = "lookup"
  /\ \/ Failing("embed") /\ Finish(w)
     \/ /\ c \in Upserts
        /\ \E d \in Twins(c) :
             worker' = [worker EXCEPT ![w].at = "splitInsert", ![w].target = d]
        /\ UNCHANGED <<queue, dead, faults>>
     \/ /\ c \in Upserts => Twins(c) = {}
        /\ GoTo(w, "splitInsert")
        /\ UNCHANGED <<queue, dead, faults>>
  /\ UNCHANGED <<stores, requests>>

SplitInsert(w) ==
  LET c == worker[w].msg.chunk
      d == worker[w].target
      duplicate == IF d = None THEN row[c] # None \/ Twins(c) # {} ELSE row[d] = None
  IN
  /\ worker[w].at = "splitInsert"
  /\ \/ duplicate /\ Finish(w) /\ UNCHANGED <<row, faults>>
     \/ ~duplicate /\ d = None /\ Inserted(w, c, TRUE, "splitStore")
     \/ ~duplicate /\ d # None /\ Inserted(w, d, FALSE, "splitStore")
  /\ UNCHANGED <<point, requests>>

SplitStore(w) ==
  /\ worker[w].at = "splitStore"
  /\ \/ /\ point' = [point EXCEPT ![worker[w].target] = worker[w].msg.text]
        /\ Finish(w)
        /\ UNCHANGED faults
     \/ /\ Failing("bookmarks") \/ Failing("build")
        /\ Finish(w)
        /\ UNCHANGED point
     \/ /\ Failing("qdrant")
        /\ IF worker[w].msg.chunk \in Upserts
             THEN GoTo(w, "splitRevert") /\ UNCHANGED <<queue, dead>>
             ELSE Finish(w)
        /\ UNCHANGED point
  /\ UNCHANGED <<row, requests>>

SplitRevert(w) ==
  /\ worker[w].at = "splitRevert"
  /\ \/ row' = [row EXCEPT ![worker[w].target] = None] /\ UNCHANGED faults
     \/ Failing("revert") /\ UNCHANGED row
  /\ Finish(w)
  /\ UNCHANGED <<point, requests>>

--------------------------------------------------------------------------------
(* update_chunk of the worker.  A failed update is not pushed back.         *)

\* Mutant: an update inserts the row it does not find.
UpdateRowUpserts(w) ==
  /\ worker[w].at = "updateRow"
  /\ row' = [row EXCEPT ![worker[w].msg.chunk] = worker[w].msg.text]
  /\ GoTo(w, "updatePoint")
  /\ UNCHANGED <<queue, dead, faults, point, requests>>

UpdateRow(w) ==
  LET m == worker[w].msg IN
  /\ worker[w].at = "updateRow"
  /\ \/ Failing("embed") /\ Finish(w) /\ UNCHANGED row
     \/ row[m.chunk] = None /\ Finish(w) /\ UNCHANGED <<row, faults>>
     \/ /\ row[m.chunk] # None
        /\ row' = [row EXCEPT ![m.chunk] = m.text]
        /\ GoTo(w, "updatePoint")
        /\ UNCHANGED <<queue, dead, faults>>
  /\ UNCHANGED <<point, requests>>

UpdatePoint(w) ==
  LET m == worker[w].msg IN
  /\ worker[w].at = "updatePoint"
  /\ \/ point' = [point EXCEPT ![m.chunk] = m.text] /\ UNCHANGED faults
     \/ Failing("update") /\ UNCHANGED point
  /\ Finish(w)
  /\ UNCHANGED <<row, requests>>

\* The message stays on the processing list, which nobody reads.
Crash(w) ==
  /\ worker[w].at # "idle"
  /\ Failing("crash")
  /\ Finish(w)
  /\ UNCHANGED <<stores, requests>>

--------------------------------------------------------------------------------
WorkerStep(w) ==
  \/ Take(w)
  \/ BulkInsert(w) \/ InsertFails(w) \/ CreateVectors(w) \/ StorePoint(w) \/ Revert(w)
  \/ LookupTwin(w) \/ SplitInsert(w) \/ SplitStore(w) \/ SplitRevert(w)
  \/ UpdateRow(w) \/ UpdatePoint(w)

Next ==
  \/ \E c \in Chunks : CreateChunk(c) \/ BeginDelete(c) \/ DeleteRow(c) \/ DeletePoint(c)
  \/ \E c \in Chunks, u \in Updates : UpdateChunk(c, u)
  \/ \E w \in Workers : WorkerStep(w) \/ Crash(w)

Spec == Init /\ [][Next]_vars

\* A running worker keeps polling and every call it awaits returns.
FairSpec == Spec /\ \A w \in Workers : WF_vars(WorkerStep(w))

--------------------------------------------------------------------------------
(* Properties.  The stores are compared when nothing is in flight.          *)

Quiet ==
  /\ queue = << >>
  /\ \A w \in Workers : worker[w].at = "idle"
  /\ \A c \in Chunks : deletion[c] \notin {"begun", "unindex"}

\* Failures after which nothing is undone: a row may stay without its point.
Clean == seen \cap {"bookmarks", "build", "revert", "crash"} = {}

\* Failures after which an upload is handled again.
Retried == seen \cap {"embed", "bookmarks", "build", "qdrant", "revert"} # {}

\* The uploads whose row is kept on failure: upserts given up after their
\* last attempt.
KeptOnFailure == dead \cap Upserts

\* chunk_handler.rs:267 "Once a chunk is created, it can be searched": no
\* row is left without its point.  The exceptions are a failure that is not
\* undone, an upsert given up (the point it lacks may not be made up for by
\* an update that fails too), split_avg (which is not retried), and a chunk
\* that was deleted while its upload was handled again.
CreatedIsSearchable ==
  Quiet /\ Clean => \A c \in Chunks :
    /\ row[c] # None
    /\ row[c] \notin KeptOnFailure \cup SplitAvg
    /\ row[c] \in Updates => "update" \notin seen
    /\ deletion[c] # "none" => ~Retried
    => point[c] # None

\* No search result points at a chunk that has no row, whatever fails, as
\* long as nothing is deleted and no revert hits a split_avg upsert.
NoOrphanPoints ==
  Quiet /\ Deletable = {} /\ ("qdrant" \in seen => Upserts \cap SplitAvg = {}) =>
    \A c \in Chunks : point[c] # None => row[c] # None

\* Both stores hold the text of the same request.
StoresAgree ==
  Quiet /\ Clean /\ "update" \notin seen =>
    \A c \in Chunks :
      /\ row[c] # None /\ point[c] # None
      /\ row[c] \notin KeptOnFailure
      => row[c] = point[c]

\* An upload reported as BulkChunkUploadFailed left no row behind, even
\* when earlier attempts of it inserted one.
DeadLeavesNoRow ==
  Clean => \A c \in dead \ Upserts : row[c] = None

\* A revert of a batch only deletes rows that this upload inserted, never
\* one it found and upserted.
RevertsOnlyInsertedRows ==
  [][\A w \in Workers :
       Revert(w) => \A c \in Chunks : row[c] # None /\ row'[c] = None
                      => worker[w].fresh /\ worker[w].target = c]_vars

\* The same of upload_chunk; chunk_operator.rs:984 "assumes upsert
\* chunk_ids were not upserted, only enterted".
SplitRevertsOnlyInsertedRows ==
  [][\A w \in Workers :
       SplitRevert(w) => \A c \in Chunks : row[c] # None /\ row'[c] = None
                           => worker[w].fresh /\ worker[w].target = c]_vars

\* chunk_operator.rs:984 again: nor did another upload upsert the row
\* since it was inserted.
RevertsUntouchedRows ==
  [][\A w \in Workers :
       Revert(w) => row[worker[w].target] \in {None, worker[w].msg.text}]_vars

\* A row that a delete removed does not come back, whatever updates and
\* upserts of it were under way, unless its upload is handled again.
RemovedStaysRemoved ==
  ~Retried => \A c \in Chunks : deletion[c] \in {"unindex", "removed"} => row[c] = None

\* Every accepted upload ends: searchable, replaced by its tracking id's
\* older row, or on the dead letter list; it is not retried for ever.
Queued(c) ==
  \/ \E i \in 1 .. Len(queue) : queue[i].kind = "upload" /\ queue[i].chunk = c
  \/ \E w \in Workers : worker[w].msg.kind = "upload" /\ worker[w].msg.chunk = c

EveryUploadEnds ==
  \A c \in Chunks \ SplitAvg :
    c \in created ~> \/ ~Clean
                     \/ ~Queued(c) /\ (c \in dead \/ point[c] # None \/ Twins(c) # {})
================================================================================
