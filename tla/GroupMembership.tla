---------------------------- MODULE GroupMembership ----------------------------
(***************************************************************************)
(* Which chunks are in which group is kept twice: as bookmark rows in       *)
(* Postgres and as the group_ids of the chunk's Qdrant point.  The routes   *)
(* of group_handler.rs write the row first, then read the payload of the    *)
(* point, change it and write the whole payload back.  The grupdate worker  *)
(* rewrites the payloads of every chunk of a group page by page.  Nothing   *)
(* locks a point between a read and the write that follows.                 *)
(*                                                                          *)
(* Requests run concurrently, in Slots.  A payload is known by the chunk    *)
(* whose content it carries, its group_ids and its group_tag_set.           *)
(***************************************************************************)
EXTENDS Naturals, Sequences, FiniteSets, FiniteSetsExt

CONSTANTS Groups,      \* group ids
          LastChunk,   \* chunk ids are 1 .. LastChunk, in the order Postgres sorts them
          Trackings,   \* group tracking ids
          Tags,        \* group tags
          Slots,       \* requests that may run at the same time
          MaxRequests, \* bound on the requests
          MaxFailures, \* bound on the Qdrant calls that fail
          MaxAttempts, \* attempts of a group update, 3 in the code
          PageSize,    \* chunks of a page of the grupdate worker, 1000 in the code
          Existing,    \* groups made earlier, without tags
          None

Chunks == 1 .. LastChunk

\* A list of group ids is known by how often it has each of them.
Lists      == [Groups -> Nat]
ListOf(gs) == [g \in Groups |-> IF g \in gs THEN 1 ELSE 0]
Listed(l)  == {g \in Groups : l[g] > 0}

GroupRow == [tracking : Trackings \cup {None}, tags : SUBSET Tags]
Payload  == [of : Chunks, groups : Lists, tags : SUBSET Tags]
Update   == [group : Groups, prev : SUBSET Tags, new : SUBSET Tags, attempt : 0 .. MaxAttempts - 1]

GroupAssumption ==
  /\ Existing \subseteq Groups
  /\ {LastChunk, MaxRequests, MaxFailures} \subseteq Nat
  /\ MaxAttempts \in Nat \ {0} /\ PageSize \in Nat \ {0}
  /\ None \notin Groups \cup Trackings \cup Lists \cup GroupRow \cup Payload \cup Update

VARIABLES group,     \* chunk_group: the row of a group, or None
          rows,      \* chunk_metadata: the chunks that have a row
          bookmarks, \* chunk_group_bookmarks
          point,     \* Qdrant: the payload of a chunk's point, or None
          arriving,  \* group ids of the chunks being ingested whose row is written
          req,       \* the request in each slot
          updates,   \* group_update_queue, oldest first
          worker,    \* the grupdate worker
          returned,  \* ids the create route has returned
          disturbed, \* chunks two actors worked on at once, or for which a call failed
          retagged,  \* chunks whose payload the grupdate worker has written
          requests, failures

vars == <<group, rows, bookmarks, point, arriving, req, updates, worker, returned,
          disturbed, retagged, requests, failures>>

\* What a request has to remember: an update of a group, a chunk put in or taken
\* out, or a deletion; what it has no use for is as in Idle.
Request == [at : {"idle", "read", "write", "collect", "rows", "chunks", "points", "update", "push"},
            op : {"none", "edit", "add", "remove", "delete"}, group : Groups \cup {None},
            tracking : Trackings \cup {None}, prev : SUBSET Tags, tags : SUBSET Tags,
            push : BOOLEAN, known : BOOLEAN,
            chunk : Chunks \cup {None}, seen : Payload \cup {None},
            all : BOOLEAN, old : SUBSET (Groups \X Chunks), oldRows : SUBSET Chunks, todo : SUBSET Chunks]
Idle == [at |-> "idle", op |-> "none", group |-> None, tracking |-> None, prev |-> {}, tags |-> {},
         push |-> FALSE, known |-> FALSE, chunk |-> None, seen |-> None,
         all |-> FALSE, old |-> {}, oldRows |-> {}, todo |-> {}]
Free == [msg |-> None, offset |-> 0, todo |-> << >>]

TypeOK ==
  /\ group \in [Groups -> GroupRow \cup {None}]
  /\ rows \subseteq Chunks /\ bookmarks \subseteq Groups \X Chunks
  /\ point \in [Chunks -> Payload \cup {None}] /\ arriving \in [Chunks -> Lists \cup {None}]
  /\ req \in [Slots -> Request]
  /\ updates \in Seq(Update)
  /\ worker \in [msg : Update \cup {None}, offset : 0 .. LastChunk, todo : {worker.todo}]
  /\ DOMAIN worker.todo \subseteq Chunks /\ worker.todo \in [DOMAIN worker.todo -> Payload]
  /\ returned \subseteq Groups /\ disturbed \subseteq Chunks /\ retagged \subseteq Chunks
  /\ requests \in 0 .. MaxRequests /\ failures \in 0 .. MaxFailures

\* Some chunks were ingested earlier, into a group that existed or into none.
Init ==
  /\ group = [g \in Groups |-> IF g \in Existing THEN [tracking |-> None, tags |-> {}] ELSE None]
  /\ \E have \in [Chunks -> {None, ListOf({})} \cup {ListOf({g}) : g \in Existing}] :
       /\ rows = {c \in Chunks : have[c] # None}
       /\ bookmarks = {b \in Existing \X Chunks : have[b[2]] = ListOf({b[1]})}
       /\ point = [c \in Chunks |-> IF have[c] = None THEN None
                                   ELSE [of |-> c, groups |-> have[c], tags |-> {}]]
  /\ arriving = [c \in Chunks |-> None]
  /\ req = [s \in Slots |-> Idle] /\ updates = << >> /\ worker = Free
  /\ returned = Existing /\ disturbed = {} /\ retagged = {} /\ requests = 0 /\ failures = 0

--------------------------------------------------------------------------------
(* Who is working on a chunk, and what it means to be disturbed.            *)

Deletes(r) == r.op = "delete"
Touched(r) == IF Deletes(r) THEN Chunks ELSE IF r.op \in {"add", "remove"} THEN {r.chunk} ELSE {}

Busy == (UNION {Touched(req[s]) : s \in Slots})
          \cup {c \in Chunks : arriving[c] # None}
          \cup (IF worker.msg = None THEN {} ELSE Chunks)

\* Somebody starts to work on chunks cs.  A bookmark written while a group is
\* deleted makes the transaction fail for every chunk of the group.
Start(cs) == disturbed' = IF \E s \in Slots : Deletes(req[s]) THEN Chunks ELSE disturbed \cup (cs \cap Busy)

Open(s) == req[s].at = "idle" /\ requests < MaxRequests /\ requests' = requests + 1
Go(s, r) == req' = [req EXCEPT ![s] = r]
Exists(g) == group[g] # None
Owner(t)  == {g \in Groups : Exists(g) /\ group[g].tracking = t}
Unique(t, g) == t = None \/ Owner(t) \subseteq {g}

--------------------------------------------------------------------------------
(* Groups.                                                                  *)

\* create_groups_query for one payload.  g is the fresh uuid of from_details;
\* without upsert a row with the tracking id stays as it is, and the group
\* that was not inserted is what the route returns.
CreateGroup(s) ==
  \E g \in Groups \ returned, t \in Trackings \cup {None}, tags \in SUBSET Tags, upsert \in BOOLEAN :
    LET twin == IF t = None THEN {} ELSE Owner(t)
        id   == IF upsert /\ twin # {} THEN CHOOSE o \in twin : TRUE ELSE g
    IN /\ Open(s) /\ ~Exists(g)
       /\ group' = IF twin = {} \/ upsert
                   THEN [group EXCEPT ![id] = [tracking |-> t, tags |-> tags]]
                   ELSE group
       /\ returned' = returned \cup {id}
       /\ UNCHANGED <<rows, bookmarks, point, arriving, req, updates, worker, disturbed, failures, retagged>>

\* update_chunk_group reads the group it is given by id or tracking id.  The
\* older route by tracking id makes a row with a fresh id.
BeginUpdate(s) ==
  \E g \in Groups, t \in Trackings \cup {None}, tags \in SUBSET Tags, push \in BOOLEAN, old \in BOOLEAN :
    /\ Open(s) /\ Exists(g) /\ (old => group[g].tracking = t /\ t # None /\ ~push)
    /\ Go(s, [Idle EXCEPT !.at = "update", !.op = "edit", !.group = g, !.tracking = t,
                          !.prev = group[g].tags, !.tags = tags, !.push = push, !.known = ~old])
    /\ UNCHANGED <<group, rows, bookmarks, point, arriving, updates, worker, returned, retagged, disturbed, failures>>

\* update_chunk_group_query: no row with the id, or a tracking id that another
\* group has, is an error.
UpdateGroup(s) ==
  LET r == req[s] IN
  /\ r.at = "update"
  /\ IF r.known /\ Exists(r.group) /\ Unique(r.tracking, r.group)
     THEN /\ group' = [group EXCEPT ![r.group] = [tracking |-> r.tracking, tags |-> r.tags]]
          /\ Go(s, IF r.push THEN [r EXCEPT !.at = "push"] ELSE Idle)
     ELSE Go(s, Idle) /\ UNCHANGED group
  /\ UNCHANGED <<rows, bookmarks, point, arriving, updates, worker, returned, retagged, disturbed, requests, failures>>

\* soft_update_grouped_chunks_query.
PushUpdate(s) ==
  LET r == req[s] IN
  /\ r.at = "push"
  /\ updates' = Append(updates, [group |-> r.group, prev |-> r.prev, new |-> r.tags, attempt |-> 0])
  /\ Go(s, Idle)
  /\ UNCHANGED <<group, rows, bookmarks, point, arriving, worker, returned, retagged, disturbed, requests, failures>>

--------------------------------------------------------------------------------
(* One chunk in or out of a group.                                          *)

\* create_chunk_bookmark_query; the foreign keys need the group and the chunk.
AddChunk(s) ==
  \E g \in Groups, c \in rows :
    /\ Open(s) /\ Exists(g)
    /\ bookmarks' = bookmarks \cup {<<g, c>>}
    \* A bookmark younger than the start of a deletion is out of its reach.
    /\ req' = [k \in Slots |-> IF k = s THEN [Idle EXCEPT !.at = "read", !.op = "add", !.group = g, !.chunk = c]
                               ELSE IF Deletes(req[k]) /\ <<g, c>> \notin bookmarks
                                    THEN [req[k] EXCEPT !.old = @ \ {<<g, c>>}] ELSE req[k]]
    /\ Start({c})
    /\ UNCHANGED <<group, rows, point, arriving, updates, worker, returned, retagged, failures>>

\* delete_chunk_from_group_query.
RemoveChunk(s) ==
  \E g \in Groups, c \in rows :
    /\ Open(s) /\ Exists(g)
    /\ bookmarks' = bookmarks \ {<<g, c>>}
    /\ Go(s, [Idle EXCEPT !.at = "read", !.op = "remove", !.group = g, !.chunk = c])
    /\ Start({c})
    /\ UNCHANGED <<group, rows, point, arriving, updates, worker, returned, retagged, failures>>

\* get_points; a point that is not there is an error.  A deletion of a group
\* ignores it and goes on with its other chunks.
ReadPoint(s) ==
  LET r == req[s] IN
  /\ r.at = "read"
  /\ IF point[r.chunk] # None
     THEN Go(s, [r EXCEPT !.at = "write", !.seen = point[r.chunk]])
     ELSE Go(s, IF r.op = "delete" THEN [r EXCEPT !.at = "points"] ELSE Idle)
  /\ disturbed' = IF point[r.chunk] = None THEN disturbed \cup {r.chunk} ELSE disturbed
  /\ UNCHANGED <<group, rows, bookmarks, point, arriving, updates, worker, returned, retagged, requests, failures>>

\* Mutant: only the first of the equal ids is taken out.
WithoutGroupOnce(gs, g) == [gs EXCEPT ![g] = IF @ > 0 THEN @ - 1 ELSE 0]

\* group_ids of the payload that add_bookmark_to_qdrant_query writes, and of
\* the one that remove_bookmark_from_qdrant_query writes.
WithGroup(gs, g)    == [gs EXCEPT ![g] = @ + 1]
WithoutGroup(gs, g) == [gs EXCEPT ![g] = 0]

\* overwrite_payload; without a point it does nothing.
WritePoint(s) ==
  LET r  == req[s]
      gs == IF r.op = "add" THEN WithGroup(r.seen.groups, r.group) ELSE WithoutGroup(r.seen.groups, r.group)
  IN
  /\ r.at = "write"
  /\ point' = IF point[r.chunk] = None THEN point ELSE [point EXCEPT ![r.chunk] = [r.seen EXCEPT !.groups = gs]]
  /\ Go(s, IF r.op = "delete" THEN [r EXCEPT !.at = "points"] ELSE Idle)
  /\ UNCHANGED <<group, rows, bookmarks, arriving, updates, worker, returned, retagged, disturbed, requests, failures>>

QdrantFails(s) ==
  LET r == req[s] IN
  /\ r.at \in {"read", "write"} /\ failures < MaxFailures /\ failures' = failures + 1
  /\ disturbed' = disturbed \cup {r.chunk}
  /\ Go(s, IF r.op = "delete" THEN [r EXCEPT !.at = "points"] ELSE Idle)
  /\ UNCHANGED <<group, rows, bookmarks, point, arriving, updates, worker, returned, retagged, requests>>

--------------------------------------------------------------------------------
(* delete_group_by_id_query.                                                *)

\* deleted_at is taken in the handler: only what exists now will be deleted.
BeginDelete(s) ==
  \E g \in Groups, all \in BOOLEAN :
    /\ Open(s) /\ Exists(g)
    /\ Go(s, [Idle EXCEPT !.at = "collect", !.op = "delete", !.group = g, !.all = all,
                          !.old = bookmarks, !.oldRows = rows])
    /\ Start(Chunks)
    /\ UNCHANGED <<group, rows, bookmarks, point, arriving, updates, worker, returned, retagged, failures>>

CollectChunks(s) ==
  LET r == req[s] IN
  /\ r.at = "collect"
  /\ Go(s, [r EXCEPT !.at = "rows", !.todo = {c \in Chunks : <<r.group, c>> \in bookmarks}])
  /\ UNCHANGED <<group, rows, bookmarks, point, arriving, updates, worker, returned, retagged, disturbed, requests, failures>>

\* The transaction fails on the foreign key when a younger bookmark is left;
\* what follows happens all the same.
DeleteRows(s) ==
  LET r    == req[s]
      left == {b \in bookmarks : b[1] = r.group /\ b \notin r.old}
  IN
  /\ r.at = "rows"
  /\ IF left = {}
     THEN /\ bookmarks' = {b \in bookmarks : b[1] # r.group}
          /\ group' = [group EXCEPT ![r.group] = None]
     ELSE UNCHANGED <<bookmarks, group>>
  /\ Go(s, [r EXCEPT !.at = IF r.all THEN "chunks" ELSE "points"])
  /\ UNCHANGED <<rows, point, arriving, updates, worker, returned, retagged, disturbed, requests, failures>>

\* delete_chunk_metadata_query: bookmarks and rows that are not younger, in a transaction that fails when
\* a row still has a younger bookmark, then points.
DeleteChunks(s) ==
  LET r    == req[s]
      left == {b \in bookmarks : b[2] \in r.todo \cap r.oldRows /\ b \notin r.old}
  IN
  /\ r.at = "chunks"
  /\ IF left = {}
     THEN /\ bookmarks' = {b \in bookmarks : b[2] \notin r.todo \/ b \notin r.old}
          /\ rows' = rows \ (r.todo \cap r.oldRows)
          /\ Go(s, [r EXCEPT !.at = "points", !.todo = rows \cap r.todo \cap r.oldRows])
     ELSE Go(s, Idle) /\ UNCHANGED <<bookmarks, rows>>
  /\ UNCHANGED <<group, point, arriving, updates, worker, returned, retagged, disturbed, requests, failures>>

\* All points at once when the chunks go, else one remove_bookmark per chunk.
DeletePoints(s) ==
  LET r == req[s] IN
  /\ r.at = "points"
  /\ \/ /\ r.all
        /\ point' = [c \in Chunks |-> IF c \in r.todo THEN None ELSE point[c]]
        /\ Go(s, Idle)
     \/ /\ ~r.all /\ r.todo = {} /\ Go(s, Idle) /\ UNCHANGED point
     \/ /\ ~r.all /\ UNCHANGED point
        /\ \E c \in r.todo :
             Go(s, [r EXCEPT !.at = "read", !.todo = @ \ {c}, !.chunk = c])
  /\ UNCHANGED <<group, rows, bookmarks, arriving, updates, worker, returned, retagged, disturbed, requests, failures>>

--------------------------------------------------------------------------------
(* A chunk is ingested into groups: its row and bookmarks, later its point. *)

IngestRow(c) ==
  \E gs \in {ListOf({})} \cup {ListOf({g}) : g \in {h \in Groups : Exists(h)}} :
    /\ c \notin rows /\ arriving[c] = None /\ point[c] = None
    /\ rows' = rows \cup {c}
    /\ bookmarks' = bookmarks \cup {<<g, c>> : g \in Listed(gs)}
    /\ arriving' = [arriving EXCEPT ![c] = gs]
    /\ Start({c})
    /\ UNCHANGED <<group, point, req, updates, worker, returned, retagged, requests, failures>>

TagsOf(gs) == UNION {group[g].tags : g \in {h \in Listed(gs) : Exists(h)}}

IngestPoint(c) ==
  /\ arriving[c] # None
  /\ point' = [point EXCEPT ![c] = [of |-> c, groups |-> arriving[c], tags |-> TagsOf(arriving[c])]]
  /\ arriving' = [arriving EXCEPT ![c] = None]
  /\ UNCHANGED <<group, rows, bookmarks, req, updates, worker, returned, retagged, disturbed, requests, failures>>

--------------------------------------------------------------------------------
(* The grupdate worker; WorkQueue models its queue.                         *)

TakeUpdate ==
  /\ worker.msg = None /\ updates # << >>
  /\ worker' = [Free EXCEPT !.msg = Head(updates)]
  /\ updates' = Tail(updates)
  /\ Start(Chunks)
  /\ UNCHANGED <<group, rows, bookmarks, point, arriving, req, returned, retagged, requests, failures>>

\* The chunks of the group the worker has not come to.
After == {c \in rows : c > worker.offset /\ <<worker.msg.group, c>> \in bookmarks}

\* Mutant: the page is not sorted by id.
PageDescending == {c \in After : Cardinality({d \in After : d > c}) < PageSize}

\* The first PageSize of them.
Page == {c \in After : Cardinality({d \in After : d < c}) < PageSize}

\* The position of a chunk among chunks that are listed by id.
Rank(cs, c) == Cardinality({d \in cs : d < c})

\* update_group_tag_sets_in_qdrant_query asks for the points of the page and
\* zips the ids it asked for with the payloads it got: a point that is not
\* there has none.
ReadPage ==
  LET found  == {c \in Page : point[c] # None}
      zipped == {c \in Page : Rank(Page, c) < Cardinality(found)}
      todo   == [c \in zipped |-> point[CHOOSE d \in found : Rank(found, d) = Rank(Page, c)]]
  IN
  /\ worker.msg # None /\ DOMAIN worker.todo = {} /\ Page # {}
  /\ worker' = [worker EXCEPT !.offset = Max(Page), !.todo = todo]
  /\ disturbed' = IF found = Page THEN disturbed ELSE disturbed \cup Page
  /\ UNCHANGED <<group, rows, bookmarks, point, arriving, req, updates, returned, retagged, requests, failures>>

\* Value::to_string puts a string in quotes, and a quoted uuid does not parse.
ParsedIds(gs) == ListOf({})

NewPayload(old) ==
  [old EXCEPT !.groups = ParsedIds(@), !.tags = (@ \ worker.msg.prev) \cup worker.msg.new]

WritePayload ==
  /\ worker.msg # None /\ DOMAIN worker.todo # {}
  /\ LET c == Min(DOMAIN worker.todo) IN
       /\ point' = IF point[c] = None THEN point ELSE [point EXCEPT ![c] = NewPayload(worker.todo[c])]
       /\ retagged' = retagged \cup {c}
       /\ worker' = [worker EXCEPT !.todo = [d \in DOMAIN @ \ {c} |-> @[d]]]
  /\ UNCHANGED <<group, rows, bookmarks, arriving, req, updates, returned, disturbed, requests, failures>>

FinishUpdate ==
  /\ worker.msg # None /\ DOMAIN worker.todo = {} /\ Page = {}
  /\ worker' = Free
  /\ UNCHANGED <<group, rows, bookmarks, point, arriving, req, updates, returned, retagged, disturbed, requests, failures>>

\* A failed call puts the message back behind the others, or gives it up.
UpdateFails ==
  LET msg == [worker.msg EXCEPT !.attempt = @ + 1] IN
  /\ worker.msg # None /\ failures < MaxFailures /\ failures' = failures + 1
  /\ updates' = IF msg.attempt = MaxAttempts THEN updates ELSE Append(updates, msg)
  /\ worker' = Free
  /\ UNCHANGED <<group, rows, bookmarks, point, arriving, req, returned, retagged, disturbed, requests>>

Next ==
  \/ \E s \in Slots :
       \/ CreateGroup(s) \/ BeginUpdate(s) \/ UpdateGroup(s) \/ PushUpdate(s)
       \/ AddChunk(s) \/ RemoveChunk(s) \/ ReadPoint(s) \/ WritePoint(s) \/ QdrantFails(s)
       \/ BeginDelete(s) \/ CollectChunks(s) \/ DeleteRows(s) \/ DeleteChunks(s) \/ DeletePoints(s)
  \/ \E c \in Chunks : IngestRow(c) \/ IngestPoint(c)
  \/ TakeUpdate \/ ReadPage \/ WritePayload \/ FinishUpdate \/ UpdateFails

Spec == Init /\ [][Next]_vars

--------------------------------------------------------------------------------
(* Properties.                                                              *)

\* Chunks nobody works on, and that two actors never worked on at once.
Settled == Chunks \ (disturbed \cup Busy)

\* Bookmarks and points agree, whatever sequence of routes led here: a chunk
\* is found in exactly the groups it has a bookmark in, and with its own
\* content.  The routes keep this only between requests, hence Settled, and
\* the grupdate worker does not keep it, hence retagged.
StoresAgree ==
  \A c \in Settled \ retagged :
    IF c \in rows
    THEN point[c] # None /\ point[c].of = c /\ Listed(point[c].groups) = {g \in Groups : <<g, c>> \in bookmarks}
    ELSE point[c] = None

\* When the grupdate worker has done with a message, no chunk of the group is
\* left with the old tags or without the new ones, over all the pages.
ReplacesTags ==
  FinishUpdate =>
    \A c \in rows \ disturbed :
      <<worker.msg.group, c>> \in bookmarks =>
        /\ worker.msg.new \subseteq point[c].tags
        /\ worker.msg.prev \cap point[c].tags \subseteq worker.msg.new

\* ReplacesTags, as a property of the behaviours of the grupdate worker.
TagsReplaced == [][ReplacesTags]_vars

\* The grupdate worker writes a chunk's own payload back to it, with the new
\* tags (group_handler.rs: "each chunk in the group will be updated by
\* appending the group's tags to the chunk's tags").
PayloadIsOwn == \A c \in Chunks : point[c] # None => point[c].of = c
================================================================================
