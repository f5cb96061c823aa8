------------------------------- MODULE FileUpload -------------------------------
(***************************************************************************)
(* A file goes to S3, then as a message to the file worker, which makes its *)
(* row, a group, a link between the two, and pushes its chunks to the       *)
(* ingestion queue in segments.  None of that is undone when a later step   *)
(* fails: the message is tried again from the start.                        *)
(*                                                                          *)
(* Segments are numbered; files are of one unit of storage.  WorkQueue has  *)
(* the details of the file_ingestion queue.                                 *)
(***************************************************************************)
EXTENDS Naturals, Sequences, FiniteSets, SequencesExt

CONSTANTS Files,
          FileWorkers,
          LastSegment,  \* bound on the segments of a file
          StorageLimit, \* files the plan has room for when an upload is asked for
          PlanChunks,   \* segments the plan has room for
          Attempts,     \* attempts of a message, 3 in the code
          Faults        \* bound on the calls that fail, crashes included

FileAssumption ==
  /\ {LastSegment, StorageLimit, PlanChunks, Faults} \subseteq Nat
  /\ Attempts \in Nat \ {0}

VARIABLES upload,  \* the upload request of a file
          s3,      \* objects in the bucket
          files,   \* rows of files
          linked,  \* files with a row in groups_from_files
          size,    \* segments of a file; 0 when its chunks are not wanted
          inbox,   \* file_ingestion, oldest first
          fw,      \* the file workers
          pushed,  \* segments pushed to the ingestion queue, in order
          count,   \* segments the organization's chunk_count has
          outcome, \* what became of the message of a file
          removed, \* files a client has deleted
          faults

vars == <<upload, s3, files, linked, size, inbox, fw, pushed, count, outcome, removed, faults>>

Job  == [file : Files, attempt : 0 .. Attempts]
Rest == [at |-> "idle"]

TypeOK ==
  /\ upload \in [Files -> {"new", "put", "push", "answered", "refused"}]
  /\ {s3, files, linked, removed} \subseteq SUBSET Files
  /\ size \in [Files -> 0 .. LastSegment]
  /\ inbox \in Seq(Job)
  /\ \A w \in FileWorkers :
       fw[w] = Rest \/ fw[w] \in [at : {"fetch", "row", "group", "link", "plan", "segments"},
                                  job : Job, next : 1 .. LastSegment + 1]
  /\ pushed \in [Files -> Seq(1 .. LastSegment)]
  /\ count \in Nat
  /\ outcome \in [Files -> {"open", "done", "kept", "dead", "lost"}]
  /\ faults \in 0 .. Faults

Init ==
  /\ upload = [f \in Files |-> "new"] /\ s3 = {} /\ files = {} /\ linked = {}
  /\ size \in [Files -> 0 .. LastSegment]
  /\ inbox = << >> /\ fw = [w \in FileWorkers |-> Rest]
  /\ pushed = [f \in Files |-> << >>] /\ count = 0
  /\ outcome = [f \in Files |-> "open"] /\ removed = {} /\ faults = 0

Fault == faults < Faults /\ faults' = faults + 1

--------------------------------------------------------------------------------
(* upload_file_handler and delete_file_handler.                             *)

\* The storage in use is what the rows of files say now.
AskUpload(f) ==
  /\ upload[f] = "new"
  /\ upload' = [upload EXCEPT ![f] = IF Cardinality(files) >= StorageLimit THEN "refused" ELSE "put"]
  /\ UNCHANGED <<s3, files, linked, size, inbox, fw, pushed, count, outcome, removed, faults>>

PutObject(f) ==
  /\ upload[f] = "put"
  /\ s3' = s3 \cup {f} /\ upload' = [upload EXCEPT ![f] = "push"]
  /\ UNCHANGED <<files, linked, size, inbox, fw, pushed, count, outcome, removed, faults>>

PushFile(f) ==
  /\ upload[f] = "push"
  /\ inbox' = Append(inbox, [file |-> f, attempt |-> 0])
  /\ upload' = [upload EXCEPT ![f] = "answered"]
  /\ UNCHANGED <<s3, files, linked, size, fw, pushed, count, outcome, removed, faults>>

\* S3 or Redis fails: the request is refused, an object may stay in S3.
UploadFails(f) ==
  /\ upload[f] \in {"put", "push"} /\ Fault
  /\ upload' = [upload EXCEPT ![f] = "refused"]
  /\ UNCHANGED <<s3, files, linked, size, inbox, fw, pushed, count, outcome, removed>>

\* delete_file_query needs the row.  The object goes first; the link goes with
\* the row, the group and its chunks stay.
DeleteObject(f) ==
  /\ f \in files /\ f \in s3
  /\ s3' = s3 \ {f} /\ removed' = removed \cup {f}
  /\ UNCHANGED <<upload, files, linked, size, inbox, fw, pushed, count, outcome, faults>>

DeleteFileRow(f) ==
  /\ f \in files /\ f \notin s3
  /\ files' = files \ {f} /\ linked' = linked \ {f}
  /\ UNCHANGED <<upload, s3, size, inbox, fw, pushed, count, outcome, removed, faults>>

--------------------------------------------------------------------------------
(* The file worker: file_worker, upload_file and create_file_chunks.        *)

Advance(w, at) == fw' = [fw EXCEPT ![w].at = at]
End(w, f, how) == fw' = [fw EXCEPT ![w] = Rest] /\ outcome' = [outcome EXCEPT ![f] = how]

\* readd_error_to_queue: back in the queue, or to dead_letters_file.
GiveBack(w) ==
  LET job == [fw[w].job EXCEPT !.attempt = @ + 1] IN
  /\ fw' = [fw EXCEPT ![w] = Rest]
  /\ IF job.attempt = Attempts
     THEN outcome' = [outcome EXCEPT ![job.file] = "dead"] /\ UNCHANGED inbox
     ELSE inbox' = Append(inbox, job) /\ UNCHANGED outcome

TakeFile(w) ==
  /\ fw[w].at = "idle" /\ inbox # << >>
  /\ fw' = [fw EXCEPT ![w] = [at |-> "fetch", job |-> Head(inbox), next |-> 1]]
  /\ inbox' = Tail(inbox)
  /\ UNCHANGED <<upload, s3, files, linked, size, pushed, count, outcome, removed, faults>>

\* get_object, then Tika.
Fetch(w) ==
  /\ fw[w].at = "fetch"
  /\ IF fw[w].job.file \in s3 THEN Advance(w, "row") /\ UNCHANGED <<inbox, outcome>> ELSE GiveBack(w)
  /\ UNCHANGED <<upload, s3, files, linked, size, pushed, count, removed, faults>>

\* Mutant: the insert ignores a conflict.
RowIgnored(f) == FALSE

\* create_file_query inserts the row under the id of the message: the primary
\* key refuses a second row.
RowRefused(f) == f \in files

InsertFile(w) ==
  LET f == fw[w].job.file IN
  /\ fw[w].at = "row"
  /\ IF RowRefused(f) THEN GiveBack(w) /\ UNCHANGED files
     ELSE /\ files' = files \cup {f} /\ UNCHANGED inbox
          \* create_chunks is false: Ok(None), and nothing acknowledges it.
          /\ IF size[f] = 0 THEN End(w, f, "kept") ELSE Advance(w, "group") /\ UNCHANGED outcome
  /\ UNCHANGED <<upload, s3, linked, size, pushed, count, removed, faults>>

\* create_groups_query (an upsert, so it can be repeated), then
\* create_group_from_file_query, whose foreign key needs the file.
MakeGroup(w) ==
  /\ fw[w].at = "group" /\ Advance(w, "link")
  /\ UNCHANGED <<upload, s3, files, linked, size, inbox, pushed, count, outcome, removed, faults>>

LinkGroup(w) ==
  LET f == fw[w].job.file IN
  /\ fw[w].at = "link"
  /\ IF f \in files
     THEN linked' = linked \cup {f} /\ Advance(w, "plan") /\ UNCHANGED <<inbox, outcome>>
     ELSE GiveBack(w) /\ UNCHANGED linked
  /\ UNCHANGED <<upload, s3, files, size, pushed, count, removed, faults>>

\* The plan is compared once, with what has been ingested by then.
CheckPlan(w) ==
  /\ fw[w].at = "plan"
  /\ IF count + size[fw[w].job.file] > PlanChunks THEN GiveBack(w)
     ELSE Advance(w, "segments") /\ UNCHANGED <<inbox, outcome>>
  /\ UNCHANGED <<upload, s3, files, linked, size, pushed, count, removed, faults>>

PushSegment(w) ==
  LET f == fw[w].job.file IN
  /\ fw[w].at = "segments" /\ fw[w].next <= size[f]
  /\ pushed' = [pushed EXCEPT ![f] = Append(@, fw[w].next)]
  /\ fw' = [fw EXCEPT ![w].next = @ + 1]
  /\ UNCHANGED <<upload, s3, files, linked, size, inbox, count, outcome, removed, faults>>

FinishFile(w) ==
  LET f == fw[w].job.file IN
  /\ fw[w].at = "segments" /\ fw[w].next > size[f]
  /\ End(w, f, "done")
  /\ UNCHANGED <<upload, s3, files, linked, size, inbox, pushed, count, removed, faults>>

\* Any call of the worker can fail, and the process can die with its message
\* in file_processing, where nobody looks for it.
StepFails(w) ==
  /\ fw[w] # Rest /\ Fault /\ GiveBack(w)
  /\ UNCHANGED <<upload, s3, files, linked, size, pushed, count, removed>>

WorkerDies(w) ==
  /\ fw[w] # Rest /\ Fault /\ End(w, fw[w].job.file, "lost")
  /\ UNCHANGED <<upload, s3, files, linked, size, inbox, pushed, count, removed>>

\* The ingestion worker inserts a segment and the trigger counts its chunks.
IngestSegment ==
  /\ count < FoldSet(LAMBDA f, n : Len(pushed[f]) + n, 0, Files)
  /\ count' = count + 1
  /\ UNCHANGED <<upload, s3, files, linked, size, inbox, fw, pushed, outcome, removed, faults>>

Next ==
  \/ \E f \in Files : \/ AskUpload(f) \/ PutObject(f) \/ PushFile(f) \/ UploadFails(f)
                      \/ DeleteObject(f) \/ DeleteFileRow(f)
  \/ \E w \in FileWorkers :
       \/ TakeFile(w) \/ Fetch(w) \/ InsertFile(w) \/ MakeGroup(w) \/ LinkGroup(w) \/ CheckPlan(w)
       \/ PushSegment(w) \/ FinishFile(w) \/ StepFails(w) \/ WorkerDies(w)
  \/ IngestSegment

Spec == Init /\ [][Next]_vars

--------------------------------------------------------------------------------
(* Properties.                                                              *)

\* The chunks of a file are queued in order and never twice, however often its
\* message is tried again, and all of them once it is acknowledged.  It is the
\* primary key of files that keeps a second attempt from pushing what the
\* first one pushed before it failed; a client that deletes the file between
\* two attempts takes that protection away.
SegmentsOnce ==
  \A f \in Files \ removed :
    /\ pushed[f] = [i \in 1 .. Len(pushed[f]) |-> i]
    /\ outcome[f] = "done" => Len(pushed[f]) = size[f]
================================================================================
