------------------------------- MODULE BulkUpload -------------------------------
(***************************************************************************)
(* What bulk_upload_chunks does inside one batch: it drops the messages     *)
(* without content, inserts the rows with one statement, keeps the messages *)
(* whose row Postgres returned, computes a vector for every message with    *)
(* content, and zips kept messages with vectors into Qdrant points.         *)
(*                                                                          *)
(* A message is known by its position in the batch: that is its chunk id,   *)
(* and also what its text and its vector are made of.  A list made from the *)
(* batch is the set of its messages, as every list keeps their order.  The  *)
(* batch is alone here; ChunkIngestion models what happens between batches. *)
(***************************************************************************)
EXTENDS Naturals, FiniteSets

CONSTANTS MaxBatch,   \* bound on the messages of a batch, 120 in the code
          Trackings,  \* tracking ids
          Modes,      \* of "insert", "upsert" and "split"
          MaxRetries, \* bound on the failures of the embedding server
          None        \* no tracking id

Ids     == 1 .. MaxBatch
Message == [tracking : Trackings \cup {None}, empty : BOOLEAN]
\* The row that had tracking id t before the batch has id and text t.
Row     == [id : Ids \cup Trackings, tracking : Trackings \cup {None}, text : Ids \cup Trackings]
\* A payload has the text of the row, and the groups (with their tags) of a message.
Point   == [row : Ids \cup Trackings, text : Ids \cup Trackings, msg : Ids, vector : Ids]

\* The id of a chunk is new.
BatchAssumption ==
  /\ MaxBatch \in Nat /\ MaxRetries \in Nat
  /\ Modes \subseteq {"insert", "upsert", "split"}
  /\ None \notin Trackings /\ Ids \cap Trackings = {}

VARIABLES mode,    \* upsert_by_tracking_id, or some chunk has split_avg
          batch,   \* payload.ingestion_messages
          table,   \* rows of the dataset
          data,    \* ingestion_data: the messages with content
          returned,\* rows the INSERT returned
          kept,    \* the messages kept, each with the row found for it
          points,  \* what is sent to Qdrant
          at,      \* next step
          retries  \* embedding failures so far

vars == <<mode, batch, table, data, returned, kept, points, at, retries>>

TypeOK ==
  /\ mode \in Modes
  /\ DOMAIN batch \subseteq Ids /\ batch \in [DOMAIN batch -> Message]
  /\ data \subseteq DOMAIN batch /\ table \subseteq Row /\ returned \subseteq Row
  /\ DOMAIN kept \subseteq data /\ kept \in [DOMAIN kept -> Row]
  /\ points \subseteq Point
  /\ at \in {"precompute", "pair", "insert", "collect", "embed", "refused", "panicked", "done"}
  /\ retries \in 0 .. MaxRetries

Init ==
  /\ mode \in Modes
  /\ \E n \in 1 .. MaxBatch : batch \in [1 .. n -> Message]
  /\ \E old \in SUBSET Trackings :
       table = {[id |-> t, tracking |-> t, text |-> t] : t \in old}
  /\ data = {} /\ returned = {} /\ kept = << >> /\ points = {}
  /\ at = "precompute" /\ retries = 0

\* The position of m among messages, and izip!: the first of ms with the first
\* of ks and so on, up to the end of the shorter list.
Rank(ms, m) == Cardinality({k \in ms : k < m})
Zip(ms, ks) == {z \in ms \X ks : Rank(ms, z[1]) = Rank(ks, z[2])}

--------------------------------------------------------------------------------
(* bulk_upload_chunks up to the insert.                                     *)

Precompute ==
  /\ at = "precompute"
  /\ data' = {m \in DOMAIN batch : ~batch[m].empty}
  /\ at' = IF mode = "split" THEN "pair" ELSE "insert"
  /\ UNCHANGED <<mode, batch, table, returned, kept, points, retries>>

\* upload_chunk refuses a message without content and embeds the text of the
\* other half of the pair.
PairUp ==
  /\ at = "pair"
  /\ points' = {[row |-> z[1], text |-> z[1], msg |-> z[1], vector |-> z[2]] :
                  z \in {y \in Zip(DOMAIN batch, data) : ~batch[y[1]].empty}}
  /\ at' = "done"
  /\ UNCHANGED <<mode, batch, table, data, returned, kept, retries>>

--------------------------------------------------------------------------------
(* bulk_insert_chunk_metadata_query.                                        *)

Tracked(ms)   == {m \in ms : batch[m].tracking # None}
Untracked(ms) == {m \in ms : batch[m].tracking = None}

\* unique_by keeps the first message of each key.
UniqueByTracking(ms) == {m \in ms : \A k \in ms : batch[k].tracking = batch[m].tracking => m <= k}

\* Mutants: no unique_by; unique_by over all messages.
ToInsertAll(ms)    == Untracked(ms) \cup Tracked(ms)
ToInsertUnique(ms) == UniqueByTracking(Untracked(ms) \cup Tracked(ms))

ToInsert(ms) == Untracked(ms) \cup UniqueByTracking(Tracked(ms))

AsRow(m) == [id |-> m, tracking |-> batch[m].tracking, text |-> m]

SameTracking(r, m) == batch[m].tracking # None /\ r.tracking = batch[m].tracking

\* ON CONFLICT DO NOTHING skips the messages whose id or tracking id the
\* table has.
InsertNew ==
  LET new == {m \in ToInsert(data) : \A r \in table : r.id # m /\ ~SameTracking(r, m)}
  IN /\ returned' = {AsRow(m) : m \in new}
     /\ table' = table \cup returned'
     /\ at' = "collect"

\* ON CONFLICT (tracking_id, dataset_id) DO UPDATE: an id that the table has
\* without that tracking id, or a row hit twice, is an error of the statement.
Refused(ms) ==
  \/ \E m \in ms, r \in table : r.id = m /\ ~SameTracking(r, m)
  \/ \E m, k \in ms : m # k /\ batch[m].tracking # None /\ batch[m].tracking = batch[k].tracking

\* Mutant: the old row is returned as it was.
UpsertedKeepsText(m) ==
  LET old == {r \in table : SameTracking(r, m)}
  IN IF old = {} THEN AsRow(m) ELSE CHOOSE r \in old : TRUE

Upserted(m) ==
  LET old == {r \in table : SameTracking(r, m)}
  IN IF old = {} THEN AsRow(m) ELSE [CHOOSE r \in old : TRUE EXCEPT !.text = m]

InsertOrUpdate ==
  LET new == ToInsert(data) IN
  IF Refused(new)
    THEN at' = "refused" /\ UNCHANGED <<table, returned>>
    ELSE /\ returned' = {Upserted(m) : m \in new}
         /\ table' = {r \in table : \A m \in new : ~SameTracking(r, m)} \cup returned'
         /\ at' = "collect"

Insert ==
  /\ at = "insert"
  /\ \/ mode = "insert" /\ InsertNew
     \/ mode = "upsert" /\ InsertOrUpdate
  /\ UNCHANGED <<mode, batch, data, kept, points, retries>>

\* Mutant: the rows are matched by their id only.
RetainedById(m) == \E r \in returned : r.id = m

\* retain: by id, and for an upsert by tracking id too, where None equals None.
Retained(m) == \E r \in returned : r.id = m \/ (mode = "upsert" /\ r.tracking = batch[m].tracking)

\* find(...).expect("Will always be present due to previous retain").
Found(m) == {r \in returned : r.id = m \/ SameTracking(r, m)}

\* The rows have ids and tracking ids of their own, so find has no choice; the
\* row found takes the place of the one the message came with.
Collect ==
  LET retained == {m \in data : Retained(m)} IN
  /\ at = "collect"
  /\ IF \E m \in retained : Found(m) = {}
       THEN at' = "panicked" /\ UNCHANGED kept
       ELSE /\ kept' = [m \in retained |-> CHOOSE r \in Found(m) : TRUE]
            /\ at' = IF retained = {} THEN "done" ELSE "embed"
  /\ UNCHANGED <<mode, batch, table, data, returned, points, retries>>

--------------------------------------------------------------------------------
(* The vectors and the points.                                              *)

\* The rows of an insert are deleted again, those of an upsert stay; the
\* message is pushed back and handled from the start.
EmbedFails ==
  /\ at = "embed"
  /\ retries < MaxRetries
  /\ retries' = retries + 1
  /\ table' = IF mode = "insert" THEN table \ returned ELSE table
  /\ data' = {} /\ returned' = {} /\ kept' = << >>
  /\ at' = "precompute"
  /\ UNCHANGED <<mode, batch, points>>

\* One vector per message of ingestion_data, in its order; the payload is
\* made from the row that was returned.
WithVectors(ks, ms) ==
  {[row |-> ks[z[1]].id, text |-> ks[z[1]].text, msg |-> z[1], vector |-> z[2]] :
     z \in Zip(DOMAIN ks, ms)}

BuildPoints ==
  /\ at = "embed"
  /\ points' = WithVectors(kept, data)
  /\ at' = "done"
  /\ UNCHANGED <<mode, batch, table, data, returned, kept, retries>>

Stopped == at \in {"done", "refused", "panicked"} /\ UNCHANGED vars

Next == Precompute \/ PairUp \/ Insert \/ Collect \/ EmbedFails \/ BuildPoints \/ Stopped

Spec == Init /\ [][Next]_vars

--------------------------------------------------------------------------------
(* Properties.                                                              *)

\* chunk_operator.rs:623 "Will always be present due to previous retain",
\* although the two conditions differ on messages without a tracking id.
RetainedIsFound == at # "panicked"

\* Every row the statement returned gets a point, however many messages of
\* the batch share it and however many were dropped.
ReturnedRowsGetPoints ==
  at = "done" /\ mode # "split" =>
    {p.row : p \in points} = {r.id : r \in returned}

\* The statement is refused for one reason only: an earlier attempt of this
\* upsert left the row of a message without tracking id behind.
RefusedOnlyByOwnRow ==
  at = "refused" =>
    /\ retries > 0
    /\ \E m \in data : batch[m].tracking = None

\* ingestion-worker.rs:558 "Only embed the things we get returned from here":
\* the vector of a point was made from the text of its own message.
VectorsMatch ==
  at = "done" => \A p \in points : p.vector = p.msg

\* So it is in an upsert, where a row is returned for every message.
UpsertVectorsMatch == mode = "upsert" => VectorsMatch

TrackingRepeats ==
  \E m, k \in data : m # k /\ batch[m].tracking # None /\ batch[m].tracking = batch[k].tracking

\* chunk_handler.rs:95 "the chunk will be updated if a chunk with the same
\* tracking_id exists": the point of a chunk has the text of its row.  Unless
\* the batch itself repeats a tracking id, whose row is the first message's
\* while the last one's point stays, text and groups come from one message,
\* and in an upsert the vector does.
RowMatchesPoint ==
  at = "done" =>
    \A r \in table, p \in points :
      p.row = r.id => /\ p.text = r.text
                      /\ ~TrackingRepeats => /\ p.msg = r.text
                                             /\ mode = "upsert" => p.vector = r.text
================================================================================
