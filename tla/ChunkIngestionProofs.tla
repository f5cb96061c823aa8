-------------------------- MODULE ChunkIngestionProofs --------------------------
(***************************************************************************)
(* Proofs about ChunkIngestion for any number of chunks, updates, attempts *)
(* and failures.  The types, the dead letters, the reverts, the removed    *)
(* rows and the searchability of what was created are proved for any       *)
(* number of workers; that no point is an orphan and that the stores agree *)
(* is proved for one worker, which is when it holds.                       *)
(***************************************************************************)
EXTENDS ChunkIngestion, TLAPS

Storing == {"embed", "store", "revert"}
SplitStoring == {"splitStore", "splitRevert"}
Inserting == {"insert", "lookup", "splitInsert"}
Updating == {"updateRow", "updatePoint"}

Upload(m) == m.kind = "upload" /\ m.chunk \in Chunks /\ m.text = m.chunk

\* Where the upload of chunk c is: on the list (Waits) or with a worker.
Queues(i, c) == queue[i].kind = "upload" /\ queue[i].chunk = c
Waits(c)     == \E i \in 1 .. Len(queue) : Queues(i, c)
Holds(w, c)  == worker[w].msg.kind = "upload" /\ worker[w].msg.chunk = c

\* A message says what it is, wherever it is.
SaneAt(w) ==
  /\ worker[w].at = "idle" => worker[w] = Idle
  /\ worker[w].at \in Updating => worker[w].msg.kind = "update" /\ worker[w].msg \in Message
  /\ worker[w].at \notin Updating \cup {"idle"} => Upload(worker[w].msg) /\ worker[w].msg \in Message

MessageInv ==
  /\ \A i \in 1 .. Len(queue) : queue[i].kind = "upload" => Upload(queue[i])
  /\ \A w \in Workers : SaneAt(w)

\* What a worker in the middle of an upload may rely on: which row it wrote
\* and, when it is about to delete a row, that its batch did not upsert.
HandAt(w) ==
  LET k == worker[w]
      c == k.msg.chunk
  IN /\ k.at \in Storing \cup {"insert"} => c \notin SplitAvg
     /\ k.at \in SplitStoring \cup {"lookup", "splitInsert"} => c \in SplitAvg
     /\ k.at \in {"insert", "lookup"} => k.target = None
     /\ k.at = "splitInsert" /\ k.target # None =>
          c \in Upserts /\ Tracking[k.target] = Tracking[c]
     /\ k.at \in Storing \cup SplitStoring =>
          /\ k.target \in Chunks
          /\ k.target = c \/ (c \in Upserts /\ Tracking[k.target] = Tracking[c])
          /\ c \notin Upserts => k.target = c /\ k.fresh
     /\ k.at = "revert" => c \notin Upserts /\ Retried
     /\ k.at = "splitRevert" => c \in Upserts /\ "qdrant" \in seen

HandInv == \A w \in Workers : HandAt(w)

\* The upload of a chunk is in one place.
QueueOnce ==
  \A c \in Chunks : \A i, k \in 1 .. Len(queue) : Queues(i, c) /\ Queues(k, c) => i = k

OnceInv ==
  /\ QueueOnce
  /\ \A c \in Chunks :
       /\ Waits(c) => c \in created \ dead /\ \A w \in Workers : ~Holds(w, c)
       /\ \A w \in Workers : Holds(w, c) =>
            c \in created \ dead /\ \A v \in Workers : Holds(v, c) => v = w
       /\ c \in dead => c \in created

\* No two rows have one tracking id (the unique index of chunk_metadata).
TwinInv ==
  \A c, d \in Chunks :
    row[c] # None /\ row[d] # None /\ Tracking[c] = Tracking[d] /\ Tracking[c] # None => c = d

\* The row of chunk c has yet to be inserted for the first time, or again.
Pending(c) ==
  \/ c \notin created
  \/ Waits(c)
  \/ \E w \in Workers : worker[w].at \in Inserting /\ Holds(w, c)

RemovedInv ==
  ~Retried => \A c \in Chunks :
    /\ Pending(c) => row[c] = None /\ deletion[c] \notin {"unindex", "removed"}
    /\ deletion[c] \in {"unindex", "removed"} => row[c] = None

\* The point of c will be written from what its row holds, or was given up:
\* a worker is on its way, or an upsert is handled again or is dead.
OwedBy(w, c) ==
  \/ worker[w].at = "updatePoint" /\ worker[w].msg.chunk = c /\ worker[w].msg.text = row[c]
  \/ worker[w].at \in Storing /\ worker[w].target = c /\ worker[w].msg.text = row[c]
  \/ /\ worker[w].at = "insert" /\ Holds(w, row[c])
     /\ row[c] \in Upserts \ SplitAvg /\ Tracking[row[c]] = Tracking[c]

OwedElse(c) ==
  \/ row[c] \in Updates /\ "update" \in seen
  \/ /\ row[c] \in Upserts \ SplitAvg /\ Tracking[row[c]] = Tracking[c]
     /\ row[c] \in dead \/ Waits(row[c])

Owed(c) == OwedElse(c) \/ \E w \in Workers : OwedBy(w, c)

SearchableInv ==
  Clean => \A c \in Chunks :
    /\ row[c] # None /\ row[c] \notin SplitAvg
    /\ deletion[c] # "none" => ~Retried
    => point[c] # None \/ Owed(c)

DeadInv == Clean => \A c \in dead \ Upserts : row[c] = None

OneWorker == \A v, w \in Workers : v = w

OrphanAt(w) ==
  /\ worker[w].at \in Storing \cup SplitStoring => row[worker[w].target] # None
  /\ worker[w].at = "updatePoint" => row[worker[w].msg.chunk] # None
  /\ worker[w].at \in Storing /\ worker[w].fresh => point[worker[w].target] = None

OrphanInv ==
  Deletable = {} /\ ("qdrant" \in seen => Upserts \cap SplitAvg = {}) =>
    /\ \A c \in Chunks : deletion[c] = "none" /\ (point[c] # None => row[c] # None)
    /\ \A w \in Workers : OrphanAt(w)

\* An upload with split_avg is handled once: until then nothing is stored.
SplitInv ==
  \A c \in SplitAvg : Pending(c) =>
    /\ row[c] = None /\ point[c] = None
    /\ \A w \in Workers :
         /\ worker[w].target # c
         /\ ~(worker[w].at = "updatePoint" /\ worker[w].msg.chunk = c)

SplitOwedBy(w, c) ==
  worker[w].at \in SplitStoring /\ worker[w].target = c /\ worker[w].msg.text = row[c]

AgreeAt(w) ==
  /\ worker[w].at \in Storing \cup SplitStoring
       => row[worker[w].target] \in {None, worker[w].msg.text}
  /\ worker[w].at = "updatePoint"
       => row[worker[w].msg.chunk] \in {None, worker[w].msg.text}
  /\ worker[w].at = "splitStore" /\ worker[w].msg.chunk \notin Upserts
       => point[worker[w].target] = None

AgreeInv ==
  /\ \A w \in Workers : AgreeAt(w)
  /\ Clean /\ "update" \notin seen => \A c \in Chunks :
       row[c] # None /\ point[c] # None =>
         \/ row[c] = point[c]
         \/ Owed(c)
         \/ \E w \in Workers : SplitOwedBy(w, c)

WorkerState == [at : Points, msg : Message \cup {NoMessage},
                target : Chunks \cup {None}, fresh : BOOLEAN]

CarryType ==
  /\ queue \in Seq(Message)
  /\ dead \in SUBSET Chunks
  /\ worker \in [Workers -> WorkerState]
  /\ created \in SUBSET Chunks

StoreType ==
  /\ row \in [Chunks -> Text \cup {None}]
  /\ point \in [Chunks -> Text \cup {None}]
  /\ deletion \in [Chunks -> {"none", "begun", "unindex", "removed", "missed", "refused"}]
  /\ covered \in SUBSET Chunks
  /\ asked \in SUBSET Updates
  /\ failed \in 0 .. MaxFailures
  /\ seen \in SUBSET Failures

Carry == CarryType /\ MessageInv /\ HandInv /\ OnceInv
IInv  == StoreType /\ Carry

--------------------------------------------------------------------------------
(* What Append and Tail do to the list, and where that leaves the uploads.  *)

LEMMA AppendFacts ==
  ASSUME NEW q \in Seq(Message), NEW m \in Message
  PROVE  /\ Append(q, m) \in Seq(Message)
         /\ Len(Append(q, m)) = Len(q) + 1
         /\ \A i \in 1 .. Len(q) : Append(q, m)[i] = q[i]
         /\ Append(q, m)[Len(q) + 1] = m
  OBVIOUS

LEMMA TailFacts ==
  ASSUME NEW q \in Seq(Message), q # << >>
  PROVE  /\ Head(q) \in Message /\ Head(q) = q[1] /\ 1 \in 1 .. Len(q)
         /\ Tail(q) \in Seq(Message)
         /\ Len(Tail(q)) = Len(q) - 1
         /\ \A i \in 1 .. Len(q) - 1 : Tail(q)[i] = q[i + 1] /\ i + 1 \in 1 .. Len(q)
  OBVIOUS

\* A message put at the end of the list.
LEMMA Appended ==
  ASSUME queue \in Seq(Message), NEW m \in Message, queue' = Append(queue, m)
  PROVE  /\ queue' \in Seq(Message)
         /\ \A c \in Chunks : Waits(c)' <=> Waits(c) \/ (m.kind = "upload" /\ m.chunk = c)
         /\ QueueOnce /\ (m.kind = "upload" => ~Waits(m.chunk)) => QueueOnce'
         /\ (\A i \in 1 .. Len(queue) : queue[i].kind = "upload" => Upload(queue[i]))
              /\ (m.kind = "upload" => Upload(m))
            => \A i \in 1 .. Len(queue') : queue'[i].kind = "upload" => Upload(queue'[i])
<1>1. /\ queue' \in Seq(Message) /\ Len(queue') = Len(queue) + 1 /\ Len(queue) \in Nat
      /\ \A i \in 1 .. Len(queue) : queue'[i] = queue[i]
      /\ queue'[Len(queue) + 1] = m
  BY AppendFacts
<1>2. \A i \in 1 .. Len(queue') : i \in 1 .. Len(queue) \/ i = Len(queue) + 1
  BY <1>1
<1>3. \A i \in 1 .. Len(queue) : i \in 1 .. Len(queue') /\ i # Len(queue) + 1
  BY <1>1
<1>4. Len(queue) + 1 \in 1 .. Len(queue')
  BY <1>1
<1>5. \A c \in Chunks : Waits(c)' <=> Waits(c) \/ (m.kind = "upload" /\ m.chunk = c)
  BY <1>1, <1>2, <1>3, <1>4 DEF Waits, Queues
<1>6. QueueOnce /\ (m.kind = "upload" => ~Waits(m.chunk)) => QueueOnce'
  BY <1>1, <1>2, <1>3 DEF QueueOnce, Waits, Queues
<1> QED
  BY <1>1, <1>2, <1>5, <1>6

\* The first message taken off the list.
LEMMA Removed ==
  ASSUME queue \in Seq(Message), queue # << >>, queue' = Tail(queue)
  PROVE  /\ queue' \in Seq(Message) /\ Head(queue) \in Message
         /\ \A c \in Chunks :
              Waits(c) <=> Waits(c)' \/ (Head(queue).kind = "upload" /\ Head(queue).chunk = c)
         /\ QueueOnce => QueueOnce'
         /\ QueueOnce => \A c \in Chunks :
              Head(queue).kind = "upload" /\ Head(queue).chunk = c => ~Waits(c)'
         /\ (\A i \in 1 .. Len(queue) : queue[i].kind = "upload" => Upload(queue[i]))
            => /\ Head(queue).kind = "upload" => Upload(Head(queue))
               /\ \A i \in 1 .. Len(queue') : queue'[i].kind = "upload" => Upload(queue'[i])
<1>1. /\ queue' \in Seq(Message) /\ Len(queue') = Len(queue) - 1 /\ Len(queue) \in Nat
      /\ Head(queue) \in Message /\ Head(queue) = queue[1] /\ 1 \in 1 .. Len(queue)
      /\ \A i \in 1 .. Len(queue') : queue'[i] = queue[i + 1] /\ i + 1 \in 1 .. Len(queue)
  BY TailFacts
<1>2. \A i \in 1 .. Len(queue) : i = 1 \/ \E k \in 1 .. Len(queue') : i = k + 1
  <2> TAKE i \in 1 .. Len(queue)
  <2>1. i = 1 \/ (i - 1 \in 1 .. Len(queue') /\ i = (i - 1) + 1)
    BY <1>1
  <2> QED
    BY <2>1
<1>3. \A i \in 1 .. Len(queue') : i + 1 # 1 /\ \A k \in 1 .. Len(queue') : i + 1 = k + 1 => i = k
  OBVIOUS
<1>4. \A c \in Chunks :
        Waits(c) <=> Waits(c)' \/ (Head(queue).kind = "upload" /\ Head(queue).chunk = c)
  <2> TAKE c \in Chunks
  <2>1. ASSUME Waits(c) PROVE Waits(c)' \/ (Head(queue).kind = "upload" /\ Head(queue).chunk = c)
    <3>1. PICK i \in 1 .. Len(queue) : queue[i].kind = "upload" /\ queue[i].chunk = c
      BY <2>1 DEF Waits, Queues
    <3>2. CASE i = 1
      BY <1>1, <3>1, <3>2
    <3>3. CASE \E k \in 1 .. Len(queue') : i = k + 1
      BY <1>1, <3>1, <3>3 DEF Waits, Queues
    <3> QED
      BY <1>2, <3>2, <3>3
  <2>2. ASSUME Waits(c)' PROVE Waits(c)
    BY <1>1, <2>2 DEF Waits, Queues
  <2>3. ASSUME Head(queue).kind = "upload", Head(queue).chunk = c PROVE Waits(c)
    BY <1>1, <2>3 DEF Waits, Queues
  <2> QED
    BY <2>1, <2>2, <2>3
<1>5. QueueOnce => QueueOnce'
  BY <1>1, <1>3 DEF QueueOnce, Queues
<1>6. QueueOnce => \A c \in Chunks :
        Head(queue).kind = "upload" /\ Head(queue).chunk = c => ~Waits(c)'
  BY <1>1, <1>3 DEF QueueOnce, Waits, Queues
<1>7. (\A i \in 1 .. Len(queue) : queue[i].kind = "upload" => Upload(queue[i]))
        => /\ Head(queue).kind = "upload" => Upload(Head(queue))
           /\ \A i \in 1 .. Len(queue') : queue'[i].kind = "upload" => Upload(queue'[i])
  BY <1>1
<1> QED
  BY <1>1, <1>4, <1>5, <1>6, <1>7

--------------------------------------------------------------------------------
(* The ways a worker's message moves.                                       *)

\* It stays in the worker's hands.
LEMMA Moves ==
  ASSUME Carry, NEW w \in Workers,
         worker' \in [Workers -> WorkerState],
         \A v \in Workers \ {w} : worker'[v] = worker[v],
         worker'[w].msg = worker[w].msg, SaneAt(w)', HandAt(w)',
         UNCHANGED <<queue, dead, created>>, seen \subseteq seen'
  PROVE  /\ Carry'
         /\ \A c \in Chunks : /\ Waits(c)' <=> Waits(c)
                              /\ \A v \in Workers : Holds(v, c)' <=> Holds(v, c)
<1>1. CarryType'
  BY DEF Carry, CarryType
<1>2. MessageInv'
  BY DEF Carry, MessageInv, SaneAt, Upload
<1>3. HandInv'
  BY DEF Carry, HandInv, HandAt, Retried
<1>4. \A c \in Chunks : /\ Waits(c)' <=> Waits(c)
                        /\ \A v \in Workers : Holds(v, c)' <=> Holds(v, c)
  BY DEF Waits, Queues, Holds
<1>5. QueueOnce'
  BY DEF Carry, OnceInv, QueueOnce, Queues
<1>6. OnceInv'
  BY <1>4, <1>5 DEF Carry, OnceInv
<1> QED
  BY <1>1, <1>2, <1>3, <1>4, <1>6 DEF Carry

\* No worker moves.
LEMMA Stays ==
  ASSUME Carry, UNCHANGED <<queue, dead, created, worker>>, seen \subseteq seen'
  PROVE  /\ Carry'
         /\ \A c \in Chunks : /\ Waits(c)' <=> Waits(c)
                              /\ \A v \in Workers : Holds(v, c)' <=> Holds(v, c)
<1>1. CarryType'
  BY DEF Carry, CarryType
<1>2. MessageInv'
  BY DEF Carry, MessageInv, SaneAt, Upload
<1>3. HandInv'
  BY DEF Carry, HandInv, HandAt, Retried
<1>4. \A c \in Chunks : /\ Waits(c)' <=> Waits(c)
                        /\ \A v \in Workers : Holds(v, c)' <=> Holds(v, c)
  BY DEF Waits, Queues, Holds
<1>5. QueueOnce'
  BY DEF Carry, OnceInv, QueueOnce, Queues
<1>6. OnceInv'
  BY <1>4, <1>5 DEF Carry, OnceInv
<1> QED
  BY <1>1, <1>2, <1>3, <1>4, <1>6 DEF Carry

\* The worker is idle again, whatever became of its message.
Freed(w) ==
  /\ worker' \in [Workers -> WorkerState]
  /\ worker'[w] = Idle
  /\ \A v \in Workers \ {w} : worker'[v] = worker[v]
  /\ \A c \in Chunks : /\ ~Holds(w, c)'
                       /\ \A v \in Workers \ {w} : Holds(v, c)' <=> Holds(v, c)
  /\ \A v \in Workers : SaneAt(v)' /\ HandAt(v)'

LEMMA IdleState == Idle \in WorkerState
  BY DEF Idle, WorkerState, Points, NoMessage

LEMMA Frees ==
  ASSUME Carry, NEW w \in Workers, worker' = [worker EXCEPT ![w] = Idle], seen \subseteq seen'
  PROVE  Freed(w)
<1>1. worker' \in [Workers -> WorkerState] /\ worker'[w] = Idle
      /\ \A v \in Workers \ {w} : worker'[v] = worker[v]
  BY IdleState DEF Carry, CarryType
<1>2. \A c \in Chunks : /\ ~Holds(w, c)'
                        /\ \A v \in Workers \ {w} : Holds(v, c)' <=> Holds(v, c)
  BY <1>1, IngestionAssumption DEF Holds, Idle, NoMessage
<1>3. SaneAt(w)' /\ HandAt(w)'
  BY <1>1 DEF SaneAt, HandAt, Idle, Updating, Storing, SplitStoring
<1>4. \A v \in Workers \ {w} : SaneAt(v)' /\ HandAt(v)'
  BY <1>1 DEF Carry, MessageInv, HandInv, SaneAt, HandAt, Upload, Retried
<1> QED
  BY <1>1, <1>2, <1>3, <1>4 DEF Freed

\* It is acknowledged or given up.
LEMMA Finishes ==
  ASSUME Carry, NEW w \in Workers, Finish(w), created' = created, seen \subseteq seen'
  PROVE  /\ Carry' /\ Freed(w)
         /\ dead' = dead /\ \A c \in Chunks : Waits(c)' <=> Waits(c)
<1>1. Freed(w) /\ queue' = queue /\ dead' = dead
  BY Frees DEF Finish
<1>2. CarryType'
  BY <1>1 DEF Carry, CarryType, Freed
<1>3. MessageInv' /\ HandInv'
  BY <1>1 DEF Carry, MessageInv, HandInv, Freed, Upload
<1>4. \A c \in Chunks : Waits(c)' <=> Waits(c)
  BY <1>1 DEF Waits, Queues
<1>5. QueueOnce'
  BY <1>1 DEF Carry, OnceInv, QueueOnce, Queues
<1>6. OnceInv'
  BY <1>1, <1>4, <1>5 DEF Carry, OnceInv, Freed
<1> QED
  BY <1>1, <1>2, <1>3, <1>4, <1>6 DEF Carry

\* It goes to the end of the list or to the dead letters.
LEMMA PushesBack ==
  ASSUME Carry, NEW w \in Workers, PushBack(w), created' = created, seen \subseteq seen',
         worker[w].at \notin Updating \cup {"idle"}
  PROVE  /\ Carry' /\ Freed(w)
         /\ \/ /\ dead' = dead
               /\ \A c \in Chunks : Waits(c)' <=> Waits(c) \/ Holds(w, c)
            \/ /\ \A c \in Chunks : c \in dead' <=> c \in dead \/ Holds(w, c)
               /\ \A c \in Chunks : Waits(c)' <=> Waits(c)
<1> DEFINE m == worker[w].msg
           n == [m EXCEPT !.attempt = m.attempt + 1]
<1>1. Freed(w)
  BY Frees DEF PushBack
<1>2. Upload(m) /\ m \in Message /\ w \in Workers
  BY DEF Carry, MessageInv, SaneAt
<1>3. CASE m.attempt + 1 = MaxAttempts
  <2>1. dead' = dead \cup {m.chunk} /\ queue' = queue
    BY <1>3 DEF PushBack
  <2>2. CarryType'
    BY <1>1, <1>2, <2>1 DEF Carry, CarryType, Freed, Upload
  <2>3. MessageInv' /\ HandInv'
    BY <1>1, <2>1 DEF Carry, MessageInv, HandInv, Freed, Upload
  <2>4. \A c \in Chunks : (Waits(c)' <=> Waits(c)) /\ (c \in dead' <=> c \in dead \/ Holds(w, c))
    BY <1>2, <2>1 DEF Waits, Queues, Holds, Upload
  <2>5. QueueOnce'
    BY <2>1 DEF Carry, OnceInv, QueueOnce, Queues
  <2>6. OnceInv'
    BY <1>1, <2>4, <2>5 DEF Carry, OnceInv, Freed
  <2> QED
    BY <1>1, <2>2, <2>3, <2>4, <2>6 DEF Carry
<1>4. CASE m.attempt + 1 # MaxAttempts
  <2>1. dead' = dead /\ queue' = Append(queue, n)
    BY <1>4 DEF PushBack
  <2>2. n \in Message /\ Upload(n) /\ n.kind = m.kind /\ n.chunk = m.chunk
    BY <1>2, <1>4, IngestionAssumption DEF Upload, Message
  <2> HIDE DEF n
  <2>3. /\ queue' \in Seq(Message)
        /\ \A c \in Chunks : Waits(c)' <=> Waits(c) \/ Holds(w, c)
        /\ \A i \in 1 .. Len(queue') : queue'[i].kind = "upload" => Upload(queue'[i])
    BY <2>1, <2>2, Appended DEF Carry, CarryType, MessageInv, Holds
  <2>4. QueueOnce'
    BY <1>2, <2>1, <2>2, Appended DEF Carry, CarryType, OnceInv, Holds, Upload
  <2>5. CarryType'
    BY <1>1, <2>1, <2>3 DEF Carry, CarryType, Freed
  <2>6. MessageInv' /\ HandInv'
    BY <1>1, <2>3 DEF MessageInv, HandInv, Freed
  <2>7. OnceInv'
    BY <1>1, <2>1, <2>3, <2>4 DEF Carry, OnceInv, Freed
  <2> QED
    BY <1>1, <2>1, <2>3, <2>5, <2>6, <2>7 DEF Carry
<1> QED
  BY <1>3, <1>4

--------------------------------------------------------------------------------
(* Every action keeps the types, the messages and what a worker relies on.  *)

\* seen and failed, whether or not the step is a failure.
LEMMA FailureFacts ==
  ASSUME StoreType, UNCHANGED faults \/ \E kind \in Kinds : Failing(kind)
  PROVE  /\ failed' \in 0 .. MaxFailures /\ seen' \in SUBSET Failures
         /\ seen \subseteq seen'
         /\ Clean' => Clean
         /\ Retried => Retried'
<1>1. failed' \in 0 .. MaxFailures /\ seen' \in SUBSET Failures /\ seen \subseteq seen'
  BY IngestionAssumption DEF StoreType, faults, Failing
<1> QED
  BY <1>1 DEF Clean, Retried

LEMMA CreateChunkCarries ==
  ASSUME IInv, NEW c \in Chunks, CreateChunk(c)
  PROVE  /\ IInv'
         /\ \A d \in Chunks : Waits(d)' <=> Waits(d) \/ d = c
         /\ \A d \in Chunks : \A v \in Workers : Holds(v, d)' <=> Holds(v, d)
<1> DEFINE m == [kind |-> "upload", chunk |-> c, text |-> c, attempt |-> 0]
<1>1. m \in Message /\ m.kind = "upload" /\ m.chunk = c /\ Upload(m)
  BY IngestionAssumption DEF Message, Upload
<1>2. queue' = Append(queue, m) /\ created' = created \cup {c} /\ UNCHANGED <<dead, worker>>
      /\ seen' = seen
  BY DEF CreateChunk, faults
<1> HIDE DEF m
<1>3. ~Waits(c) /\ \A w \in Workers : ~Holds(w, c)
  BY DEF IInv, Carry, OnceInv, CreateChunk
<1>4. /\ queue' \in Seq(Message)
      /\ \A d \in Chunks : Waits(d)' <=> Waits(d) \/ d = c
      /\ QueueOnce'
      /\ \A i \in 1 .. Len(queue') : queue'[i].kind = "upload" => Upload(queue'[i])
  BY <1>1, <1>2, <1>3, Appended DEF IInv, Carry, CarryType, OnceInv, MessageInv
<1>5. \A d \in Chunks : \A v \in Workers : Holds(v, d)' <=> Holds(v, d)
  BY <1>2 DEF Holds
<1>6. StoreType'
  BY DEF IInv, StoreType, CreateChunk, stores, faults
<1>7. CarryType'
  BY <1>2, <1>4 DEF IInv, Carry, CarryType
<1>8. MessageInv' /\ HandInv'
  BY <1>2, <1>4 DEF IInv, Carry, MessageInv, HandInv, SaneAt, HandAt, Upload, Retried
<1>9. OnceInv'
  <2>1. c \notin dead
    BY DEF IInv, Carry, OnceInv, CreateChunk
  <2> QED
    BY <1>2, <1>3, <1>4, <1>5, <2>1 DEF IInv, Carry, OnceInv
<1> QED
  BY <1>4, <1>5, <1>6, <1>7, <1>8, <1>9 DEF IInv, Carry

LEMMA UpdateChunkCarries ==
  ASSUME IInv, NEW c \in Chunks, NEW u \in Updates, UpdateChunk(c, u)
  PROVE  /\ IInv'
         /\ \A d \in Chunks : Waits(d)' <=> Waits(d)
         /\ \A d \in Chunks : \A v \in Workers : Holds(v, d)' <=> Holds(v, d)
<1> DEFINE m == [kind |-> "update", chunk |-> c, text |-> u, attempt |-> 0]
<1>1. m \in Message /\ m.kind # "upload"
  BY DEF Message
<1>2. queue' = Append(queue, m) /\ UNCHANGED <<dead, worker, created>> /\ seen' = seen
  BY DEF UpdateChunk, faults
<1> HIDE DEF m
<1>3. /\ queue' \in Seq(Message)
      /\ \A d \in Chunks : Waits(d)' <=> Waits(d)
      /\ QueueOnce'
      /\ \A i \in 1 .. Len(queue') : queue'[i].kind = "upload" => Upload(queue'[i])
  BY <1>1, <1>2, Appended DEF IInv, Carry, CarryType, OnceInv, MessageInv
<1>4. \A d \in Chunks : \A v \in Workers : Holds(v, d)' <=> Holds(v, d)
  BY <1>2 DEF Holds
<1>5. StoreType'
  BY DEF IInv, StoreType, UpdateChunk, stores, faults
<1>6. CarryType'
  BY <1>2, <1>3 DEF IInv, Carry, CarryType
<1>7. MessageInv' /\ HandInv'
  BY <1>2, <1>3 DEF IInv, Carry, MessageInv, HandInv, SaneAt, HandAt, Upload, Retried
<1>8. OnceInv'
  BY <1>2, <1>3, <1>4 DEF IInv, Carry, OnceInv
<1> QED
  BY <1>3, <1>4, <1>5, <1>6, <1>7, <1>8 DEF IInv, Carry

\* The steps of a delete request leave the messages alone.
LEMMA DeletionCarries ==
  ASSUME IInv, NEW c \in Chunks, BeginDelete(c) \/ DeleteRow(c) \/ DeletePoint(c)
  PROVE  /\ IInv' /\ UNCHANGED <<queue, dead, worker, created>> /\ seen \subseteq seen'
         /\ \A d \in Chunks : /\ Waits(d)' <=> Waits(d)
                              /\ \A v \in Workers : Holds(v, d)' <=> Holds(v, d)
<1>1. UNCHANGED <<queue, dead, worker, created, asked>>
  BY DEF BeginDelete, DeleteRow, DeletePoint
<1>2. UNCHANGED faults \/ \E kind \in Kinds : Failing(kind)
  BY DEF BeginDelete, DeleteRow, DeletePoint, Kinds
<1>3. failed' \in 0 .. MaxFailures /\ seen' \in SUBSET Failures /\ seen \subseteq seen'
  BY <1>2, FailureFacts DEF IInv
<1>4. StoreType'
  BY <1>1, <1>3 DEF IInv, StoreType, BeginDelete, DeleteRow, DeletePoint, stores
<1> QED
  BY <1>1, <1>3, <1>4, Stays DEF IInv

LEMMA TakeCarries ==
  ASSUME IInv, NEW w \in Workers, Take(w)
  PROVE  /\ IInv' /\ UNCHANGED <<stores, dead, deletion, created, asked, faults>>
         /\ worker[w] = Idle
         /\ worker'[w].at \in {"updateRow", "lookup", "insert"}
         /\ worker'[w].msg = Head(queue) /\ worker'[w].target = None
         /\ worker'[w].at = "updateRow" <=> Head(queue).kind = "update"
         /\ worker'[w].at = "lookup" => Head(queue).chunk \in SplitAvg
         /\ \A v \in Workers \ {w} : worker'[v] = worker[v]
         /\ \A d \in Chunks : /\ Waits(d) <=> Waits(d)' \/ Holds(w, d)'
                              /\ Holds(w, d)' => ~Waits(d)'
                              /\ ~Holds(w, d)
<1> DEFINE m  == Head(queue)
           at == IF m.kind = "update" THEN "updateRow"
                 ELSE IF m.chunk \in SplitAvg THEN "lookup" ELSE "insert"
           n  == [Idle EXCEPT !.at = at, !.msg = m]
<1>1. /\ queue' = Tail(queue) /\ worker' = [worker EXCEPT ![w] = n]
      /\ UNCHANGED <<stores, dead, deletion, created, asked, faults>>
      /\ queue # << >> /\ worker[w].at = "idle"
  BY DEF Take
<1>2. /\ queue' \in Seq(Message) /\ m \in Message
      /\ \A d \in Chunks : Waits(d) <=> Waits(d)' \/ (m.kind = "upload" /\ m.chunk = d)
      /\ QueueOnce'
      /\ \A d \in Chunks : m.kind = "upload" /\ m.chunk = d => ~Waits(d)'
      /\ m.kind = "upload" => Upload(m)
      /\ \A i \in 1 .. Len(queue') : queue'[i].kind = "upload" => Upload(queue'[i])
  BY <1>1, Removed DEF IInv, Carry, CarryType, OnceInv, MessageInv
<1>3. /\ n \in WorkerState /\ n.msg = m /\ n.target = None
      /\ n.at = at /\ n.at \in {"updateRow", "lookup", "insert"}
      /\ n.at = "updateRow" <=> m.kind = "update"
      /\ n.at = "lookup" => m.chunk \in SplitAvg
      /\ n.at = "insert" => m.chunk \notin SplitAvg
      /\ m.kind \in {"upload", "update"}
  <2>1. m.kind \in {"upload", "update"}
    BY <1>2 DEF Message
  <2>2. /\ at \in {"updateRow", "lookup", "insert"}
        /\ at = "updateRow" <=> m.kind = "update"
        /\ at = "lookup" => m.chunk \in SplitAvg
        /\ at = "insert" => m.chunk \notin SplitAvg
    BY <2>1
  <2> HIDE DEF at, m
  <2>3. n.msg = m /\ n.target = None /\ n.at = at
    BY DEF Idle
  <2>4. n \in WorkerState
    BY <1>2, <2>2 DEF WorkerState, Idle, Points
  <2> QED
    BY <2>1, <2>2, <2>3, <2>4
<1> HIDE DEF n, m, at
<1>4. worker' \in [Workers -> WorkerState] /\ worker'[w] = n
      /\ \A v \in Workers \ {w} : worker'[v] = worker[v]
  BY <1>1, <1>3 DEF IInv, Carry, CarryType
<1>5. worker[w] = Idle /\ \A d \in Chunks : ~Holds(w, d)
  <2>1. worker[w] = Idle
    BY <1>1 DEF IInv, Carry, MessageInv, SaneAt
  <2>2. Idle.msg.chunk = None
    BY DEF Idle, NoMessage
  <2> QED
    BY <2>1, <2>2, IngestionAssumption DEF Holds
<1>6. \A d \in Chunks : /\ Holds(w, d)' <=> m.kind = "upload" /\ m.chunk = d
                        /\ \A v \in Workers \ {w} : Holds(v, d)' <=> Holds(v, d)
  BY <1>3, <1>4 DEF Holds
<1>7. CarryType'
  BY <1>1, <1>2, <1>4 DEF IInv, Carry, CarryType
<1>8. SaneAt(w)' /\ HandAt(w)'
  BY <1>2, <1>3, <1>4 DEF SaneAt, HandAt, Updating, Storing, SplitStoring
<1>9. \A v \in Workers \ {w} : SaneAt(v)' /\ HandAt(v)'
  BY <1>1, <1>4 DEF IInv, Carry, MessageInv, HandInv, SaneAt, HandAt, Upload, Retried, faults
<1>10. MessageInv' /\ HandInv'
  BY <1>2, <1>8, <1>9 DEF MessageInv, HandInv
<1>11. OnceInv'
  BY <1>1, <1>2, <1>4, <1>5, <1>6 DEF IInv, Carry, OnceInv
<1>12. StoreType'
  BY <1>1 DEF IInv, StoreType, Take, stores, faults
<1> QED
  BY <1>1, <1>2, <1>3, <1>4, <1>5, <1>6, <1>7, <1>10, <1>11, <1>12 DEF IInv, Carry, m

\* What a step of worker w on an upload may lead to.
Goes(w, at) ==
  /\ worker' \in [Workers -> WorkerState]
  /\ worker'[w].at = at /\ worker'[w].msg = worker[w].msg
  /\ \A v \in Workers \ {w} : worker'[v] = worker[v]
  /\ UNCHANGED <<queue, dead>>

Remains(w) == worker'[w].target = worker[w].target /\ worker'[w].fresh = worker[w].fresh

LEMMA GoesTo ==
  ASSUME IInv, NEW w \in Workers, NEW at \in Points, GoTo(w, at), UNCHANGED <<queue, dead>>
  PROVE  Goes(w, at) /\ Remains(w)
<1>1. worker \in [Workers -> WorkerState] /\ worker' = [worker EXCEPT ![w].at = at]
  BY DEF IInv, Carry, CarryType, GoTo
<1>2. [worker[w] EXCEPT !.at = at] \in WorkerState
  BY <1>1 DEF WorkerState
<1> QED
  BY <1>1, <1>2 DEF Goes, Remains, WorkerState

LEMMA InsertedGoes ==
  ASSUME IInv, NEW w \in Workers, NEW d \in Chunks, NEW isNew \in BOOLEAN, NEW at \in Points,
         worker[w].msg.text \in Text, Inserted(w, d, isNew, at)
  PROVE  /\ Goes(w, at) /\ worker'[w].target = d /\ worker'[w].fresh = isNew
         /\ row' \in [Chunks -> Text \cup {None}] /\ row'[d] = worker[w].msg.text
         /\ \A c \in Chunks \ {d} : row'[c] = row[c]
         /\ UNCHANGED faults
<1>1. /\ worker \in [Workers -> WorkerState] /\ row \in [Chunks -> Text \cup {None}]
      /\ worker' = [worker EXCEPT ![w].at = at, ![w].target = d, ![w].fresh = isNew]
      /\ row' = [row EXCEPT ![d] = worker[w].msg.text]
      /\ UNCHANGED <<queue, dead, faults>>
  BY DEF IInv, StoreType, Carry, CarryType, Inserted
<1>2. [worker[w] EXCEPT !.at = at, !.target = d, !.fresh = isNew] \in WorkerState
  BY <1>1 DEF WorkerState
<1> QED
  BY <1>1, <1>2 DEF Goes, WorkerState

\* The upload a worker has in hand.
LEMMA InHand ==
  ASSUME IInv, NEW w \in Workers, worker[w].at \notin Updating \cup {"idle"}
  PROVE  /\ worker[w].msg.kind = "upload" /\ worker[w].msg.chunk \in Chunks
         /\ worker[w].msg.text = worker[w].msg.chunk /\ worker[w].msg.text \in Text
         /\ Holds(w, worker[w].msg.chunk)
         /\ worker[w].msg.chunk \in created \ dead
         /\ SaneAt(w) /\ HandAt(w)
<1>1. SaneAt(w) /\ HandAt(w)
  BY DEF IInv, Carry, MessageInv, HandInv
<1>2. Upload(worker[w].msg)
  BY <1>1 DEF SaneAt
<1>3. \A c \in Chunks : Holds(w, c) => c \in created \ dead
  BY DEF IInv, Carry, OnceInv
<1> QED
  BY <1>1, <1>2, <1>3 DEF Upload, Text, Holds

LEMMA BulkInsertCarries ==
  ASSUME IInv, NEW w \in Workers, BulkInsert(w)
  PROVE  IInv'
<1> DEFINE c == worker[w].msg.chunk
<1>1. worker[w].at = "insert" /\ UNCHANGED <<point, requests>>
  BY DEF BulkInsert
<1>2. c \in Chunks /\ worker[w].msg.text \in Text /\ SaneAt(w) /\ HandAt(w)
  BY <1>1, InHand DEF Updating
<1>3. CASE Finish(w) /\ UNCHANGED <<row, faults>>
  BY <1>1, <1>3, Finishes DEF IInv, StoreType, requests, faults
<1>4. ASSUME NEW d \in Chunks, NEW isNew \in BOOLEAN, Inserted(w, d, isNew, "embed"),
             d = c \/ (c \in Upserts /\ Tracking[d] = Tracking[c]),
             c \notin Upserts => d = c /\ isNew
      PROVE  IInv'
  <2>1. /\ Goes(w, "embed") /\ worker'[w].target = d /\ worker'[w].fresh = isNew
        /\ row' \in [Chunks -> Text \cup {None}] /\ UNCHANGED faults
    BY <1>2, <1>4, InsertedGoes DEF Points
  <2>2. StoreType'
    BY <1>1, <2>1 DEF IInv, StoreType, requests, faults
  <2>3. SaneAt(w)' /\ HandAt(w)'
    BY <1>1, <1>2, <1>4, <2>1 DEF SaneAt, HandAt, Goes, Updating, Storing, SplitStoring, Upload
  <2>4. Carry'
    BY <1>1, <2>1, <2>3, Moves DEF IInv, Goes, requests, faults
  <2> QED
    BY <2>2, <2>4 DEF IInv
<1>5. \/ Finish(w) /\ UNCHANGED <<row, faults>>
      \/ Inserted(w, c, TRUE, "embed")
      \/ c \in Upserts /\ \E d \in Twins(c) : Inserted(w, d, FALSE, "embed")
  BY DEF BulkInsert
<1>6. \A d \in Twins(c) : d \in Chunks /\ Tracking[d] = Tracking[c]
  BY DEF Twins
<1> QED
  BY <1>2, <1>3, <1>4, <1>5, <1>6

LEMMA UndoCarries ==
  ASSUME IInv, NEW w \in Workers, Undo(w), worker[w].at \in {"embed", "store"},
         created' = created, seen \subseteq seen', Retried'
  PROVE  Carry'
<1>1. CASE PushBack(w)
  BY <1>1, PushesBack DEF IInv, Updating
<1>2. CASE worker[w].msg.chunk \notin Upserts /\ GoTo(w, "revert") /\ UNCHANGED <<queue, dead>>
  <2>1. Goes(w, "revert") /\ Remains(w)
    BY <1>2, GoesTo DEF Points
  <2>2. SaneAt(w)' /\ HandAt(w)'
    BY <1>2, <2>1, InHand
       DEF SaneAt, HandAt, Goes, Remains, Updating, Storing, SplitStoring, Upload
  <2> QED
    BY <2>1, <2>2, Moves DEF IInv, Goes
<1> QED
  BY <1>1, <1>2 DEF Undo

LEMMA InsertFailsCarries ==
  ASSUME IInv, NEW w \in Workers, InsertFails(w)
  PROVE  IInv' /\ seen \subseteq seen'
<1>1. failed' \in 0 .. MaxFailures /\ seen' \in SUBSET Failures /\ seen \subseteq seen'
  BY FailureFacts DEF IInv, InsertFails, Kinds
<1>2. StoreType'
  BY <1>1 DEF IInv, StoreType, InsertFails, stores, requests
<1>3. Carry'
  BY <1>1, PushesBack DEF IInv, InsertFails, requests, Updating
<1> QED
  BY <1>1, <1>2, <1>3 DEF IInv

LEMMA CreateVectorsCarries ==
  ASSUME IInv, NEW w \in Workers, CreateVectors(w)
  PROVE  IInv' /\ seen \subseteq seen'
<1>1. failed' \in 0 .. MaxFailures /\ seen' \in SUBSET Failures /\ seen \subseteq seen'
  BY FailureFacts DEF IInv, CreateVectors, Kinds
<1>2. worker[w].at = "embed" /\ UNCHANGED <<stores, requests>>
  BY DEF CreateVectors
<1>3. StoreType'
  BY <1>1, <1>2 DEF IInv, StoreType, stores, requests
<1>4. CASE GoTo(w, "store") /\ UNCHANGED <<queue, dead>>
  <2>1. Goes(w, "store") /\ Remains(w)
    BY <1>4, GoesTo DEF Points
  <2>2. SaneAt(w)' /\ HandAt(w)'
    BY <1>2, <2>1, InHand
       DEF SaneAt, HandAt, Goes, Remains, Updating, Storing, SplitStoring, Upload
  <2> QED
    BY <1>1, <1>2, <1>3, <2>1, <2>2, Moves DEF IInv, Goes, requests
<1>5. CASE Failing("embed") /\ Undo(w)
  BY <1>1, <1>2, <1>3, <1>5, UndoCarries DEF IInv, requests, Failing, Retried
<1>6. CASE PushBack(w)
  BY <1>1, <1>2, <1>3, <1>6, PushesBack DEF IInv, requests, Updating
<1> QED
  BY <1>1, <1>4, <1>5, <1>6 DEF CreateVectors

LEMMA StorePointCarries ==
  ASSUME IInv, NEW w \in Workers, StorePoint(w)
  PROVE  IInv' /\ seen \subseteq seen'
<1>1. failed' \in 0 .. MaxFailures /\ seen' \in SUBSET Failures /\ seen \subseteq seen'
  BY FailureFacts DEF IInv, StorePoint, Kinds
<1>2. worker[w].at = "store" /\ UNCHANGED <<row, requests>>
  BY DEF StorePoint
<1>3. worker[w].msg.text \in Text
  BY <1>2, InHand DEF Updating
<1>4. StoreType'
  BY <1>1, <1>2, <1>3 DEF IInv, StoreType, StorePoint, requests
<1>5. Finish(w) \/ (Failing("qdrant") /\ Undo(w))
  BY DEF StorePoint
<1> QED
  BY <1>1, <1>2, <1>4, <1>5, UndoCarries, Finishes DEF IInv, requests, Failing, Retried

LEMMA RevertCarries ==
  ASSUME IInv, NEW w \in Workers, Revert(w)
  PROVE  IInv' /\ seen \subseteq seen'
<1>1. failed' \in 0 .. MaxFailures /\ seen' \in SUBSET Failures /\ seen \subseteq seen'
  BY FailureFacts DEF IInv, Revert, Kinds
<1>2. worker[w].at = "revert" /\ UNCHANGED <<point, requests>> /\ PushBack(w)
  BY DEF Revert
<1>3. StoreType'
  BY <1>1, <1>2 DEF IInv, StoreType, Revert, requests
<1> QED
  BY <1>1, <1>2, <1>3, PushesBack DEF IInv, requests, Updating

LEMMA LookupTwinCarries ==
  ASSUME IInv, NEW w \in Workers, LookupTwin(w)
  PROVE  /\ IInv' /\ seen \subseteq seen'
         /\ Finish(w) \/ Goes(w, "splitInsert")
<1> DEFINE c == worker[w].msg.chunk
<1>1. failed' \in 0 .. MaxFailures /\ seen' \in SUBSET Failures /\ seen \subseteq seen'
  BY FailureFacts DEF IInv, LookupTwin, Kinds
<1>2. worker[w].at = "lookup" /\ UNCHANGED <<stores, requests>>
  BY DEF LookupTwin
<1>3. StoreType'
  BY <1>1, <1>2 DEF IInv, StoreType, stores, requests
<1>4. SaneAt(w) /\ HandAt(w)
  BY <1>2, InHand DEF Updating
<1>5. ASSUME Goes(w, "splitInsert"),
             worker'[w].target # None => c \in Upserts /\ Tracking[worker'[w].target] = Tracking[c]
      PROVE  IInv' /\ Goes(w, "splitInsert")
  <2>1. SaneAt(w)' /\ HandAt(w)'
    BY <1>2, <1>4, <1>5 DEF SaneAt, HandAt, Goes, Updating, Storing, SplitStoring, Upload
  <2>2. /\ worker' \in [Workers -> WorkerState] /\ worker'[w].msg = worker[w].msg
        /\ \A v \in Workers \ {w} : worker'[v] = worker[v]
        /\ UNCHANGED <<queue, dead, created>>
    BY <1>2, <1>5 DEF Goes, requests
  <2>3. Carry'
    BY <1>1, <2>1, <2>2, Moves DEF IInv
  <2> QED
    BY <1>3, <1>5, <2>3 DEF IInv
<1>6. CASE Finish(w)
  BY <1>1, <1>2, <1>3, <1>6, Finishes DEF IInv, requests
<1>7. CASE GoTo(w, "splitInsert") /\ UNCHANGED <<queue, dead, faults>>
  <2>1. Goes(w, "splitInsert") /\ Remains(w)
    BY <1>7, GoesTo DEF Points
  <2> QED
    BY <1>1, <1>2, <1>4, <1>5, <2>1 DEF HandAt, Remains
<1>8. ASSUME NEW d \in Twins(c), c \in Upserts,
             worker' = [worker EXCEPT ![w].at = "splitInsert", ![w].target = d],
             UNCHANGED <<queue, dead, faults>>
      PROVE  IInv' /\ Goes(w, "splitInsert")
  <2>1. d \in Chunks /\ Tracking[d] = Tracking[c]
    BY DEF Twins
  <2>2. worker \in [Workers -> WorkerState]
    BY DEF IInv, Carry, CarryType
  <2>3. [worker[w] EXCEPT !.at = "splitInsert", !.target = d] \in WorkerState
    <3>1. worker[w] \in WorkerState
      BY <2>2
    <3>2. "splitInsert" \in Points /\ d \in Chunks \cup {None}
      BY <2>1 DEF Points
    <3> QED
      BY <3>1, <3>2, Zenon DEF WorkerState
  <2>4. Goes(w, "splitInsert") /\ worker'[w].target = d
    BY <1>8, <2>2, <2>3 DEF Goes, WorkerState
  <2> QED
    BY <1>5, <1>8, <2>1, <2>4
<1> QED
  BY <1>1, <1>6, <1>7, <1>8 DEF LookupTwin

LEMMA SplitInsertCarries ==
  ASSUME IInv, NEW w \in Workers, SplitInsert(w)
  PROVE  IInv'
<1> DEFINE c == worker[w].msg.chunk
<1>1. worker[w].at = "splitInsert" /\ UNCHANGED <<point, requests>>
  BY DEF SplitInsert
<1>2. c \in Chunks /\ worker[w].msg.text \in Text /\ SaneAt(w) /\ HandAt(w)
  BY <1>1, InHand DEF Updating
<1>3. CASE Finish(w) /\ UNCHANGED <<row, faults>>
  BY <1>1, <1>3, Finishes DEF IInv, StoreType, requests, faults
<1>4. ASSUME NEW d \in Chunks, NEW isNew \in BOOLEAN, Inserted(w, d, isNew, "splitStore"),
             d = c \/ (c \in Upserts /\ Tracking[d] = Tracking[c]),
             c \notin Upserts => d = c /\ isNew
      PROVE  IInv'
  <2>1. /\ Goes(w, "splitStore") /\ worker'[w].target = d /\ worker'[w].fresh = isNew
        /\ row' \in [Chunks -> Text \cup {None}] /\ UNCHANGED faults
    BY <1>2, <1>4, InsertedGoes DEF Points
  <2>2. StoreType'
    BY <1>1, <2>1 DEF IInv, StoreType, requests, faults
  <2>3. SaneAt(w)' /\ HandAt(w)'
    BY <1>1, <1>2, <1>4, <2>1 DEF SaneAt, HandAt, Goes, Updating, Storing, SplitStoring, Upload
  <2>4. Carry'
    BY <1>1, <2>1, <2>3, Moves DEF IInv, Goes, requests, faults
  <2> QED
    BY <2>2, <2>4 DEF IInv
<1>5. \/ Finish(w) /\ UNCHANGED <<row, faults>>
      \/ Inserted(w, c, TRUE, "splitStore")
      \/ worker[w].target # None /\ Inserted(w, worker[w].target, FALSE, "splitStore")
  BY DEF SplitInsert
<1>6. worker[w].target \in Chunks \cup {None}
  BY DEF IInv, Carry, CarryType, WorkerState
<1>7. worker[w].target # None => c \in Upserts /\ Tracking[worker[w].target] = Tracking[c]
  BY <1>1, <1>2 DEF HandAt
<1> QED
  BY <1>2, <1>3, <1>4, <1>5, <1>6, <1>7

LEMMA SplitStoreCarries ==
  ASSUME IInv, NEW w \in Workers, SplitStore(w)
  PROVE  IInv' /\ seen \subseteq seen'
<1>1. failed' \in 0 .. MaxFailures /\ seen' \in SUBSET Failures /\ seen \subseteq seen'
  BY FailureFacts DEF IInv, SplitStore, Kinds
<1>2. worker[w].at = "splitStore" /\ UNCHANGED <<row, requests>>
  BY DEF SplitStore
<1>3. worker[w].msg.text \in Text /\ SaneAt(w) /\ HandAt(w)
  BY <1>2, InHand DEF Updating
<1>4. StoreType'
  BY <1>1, <1>2, <1>3 DEF IInv, StoreType, SplitStore, requests
<1>5. CASE Finish(w)
  BY <1>1, <1>2, <1>4, <1>5, Finishes DEF IInv, requests
<1>6. CASE /\ worker[w].msg.chunk \in Upserts /\ Failing("qdrant")
           /\ GoTo(w, "splitRevert") /\ UNCHANGED <<queue, dead>>
  <2>1. Goes(w, "splitRevert") /\ Remains(w) /\ "qdrant" \in seen'
    BY <1>6, GoesTo DEF Points, Failing
  <2>2. SaneAt(w)' /\ HandAt(w)'
    BY <1>2, <1>3, <1>6, <2>1
       DEF SaneAt, HandAt, Goes, Remains, Updating, Storing, SplitStoring, Upload
  <2> QED
    BY <1>1, <1>2, <1>4, <2>1, <2>2, Moves DEF IInv, Goes, requests
<1> QED
  BY <1>1, <1>5, <1>6 DEF SplitStore

\* The steps that are the worker's last on its message.
LEMMA LastStepCarries ==
  ASSUME IInv, NEW w \in Workers, SplitRevert(w) \/ UpdatePoint(w) \/ Crash(w)
  PROVE  IInv' /\ seen \subseteq seen'
<1>1. failed' \in 0 .. MaxFailures /\ seen' \in SUBSET Failures /\ seen \subseteq seen'
  BY FailureFacts DEF IInv, SplitRevert, UpdatePoint, Crash, Kinds
<1>2. UNCHANGED requests /\ Finish(w)
  BY DEF SplitRevert, UpdatePoint, Crash
<1>3. worker[w].at = "updatePoint" => worker[w].msg.text \in Text
  BY DEF IInv, Carry, MessageInv, SaneAt, Updating, Message, Text
<1>4. StoreType'
  BY <1>1, <1>2, <1>3 DEF IInv, StoreType, SplitRevert, UpdatePoint, Crash, requests, stores
<1> QED
  BY <1>1, <1>2, <1>4, Finishes DEF IInv, requests

LEMMA UpdateRowCarries ==
  ASSUME IInv, NEW w \in Workers, UpdateRow(w)
  PROVE  IInv' /\ seen \subseteq seen'
<1>1. failed' \in 0 .. MaxFailures /\ seen' \in SUBSET Failures /\ seen \subseteq seen'
  BY FailureFacts DEF IInv, UpdateRow, Kinds
<1>2. worker[w].at = "updateRow" /\ UNCHANGED <<point, requests>>
  BY DEF UpdateRow
<1>3. SaneAt(w) /\ worker[w].msg.text \in Text
  BY <1>2 DEF IInv, Carry, MessageInv, SaneAt, Updating, Message, Text
<1>4. StoreType'
  BY <1>1, <1>2, <1>3 DEF IInv, StoreType, UpdateRow, requests
<1>5. CASE Finish(w)
  BY <1>1, <1>2, <1>4, <1>5, Finishes DEF IInv, requests
<1>6. CASE GoTo(w, "updatePoint") /\ UNCHANGED <<queue, dead, faults>>
  <2>1. Goes(w, "updatePoint") /\ Remains(w)
    BY <1>6, GoesTo DEF Points
  <2>2. SaneAt(w)' /\ HandAt(w)'
    BY <1>2, <1>3, <2>1
       DEF SaneAt, HandAt, Goes, Remains, Updating, Storing, SplitStoring, Upload
  <2> QED
    BY <1>1, <1>2, <1>4, <2>1, <2>2, Moves DEF IInv, Goes, requests
<1> QED
  BY <1>1, <1>5, <1>6 DEF UpdateRow

LEMMA StutterCarries ==
  ASSUME IInv, UNCHANGED vars
  PROVE  IInv' /\ \A d \in Chunks : /\ Waits(d)' <=> Waits(d)
                                    /\ \A v \in Workers : Holds(v, d)' <=> Holds(v, d)
<1>1. StoreType'
  BY DEF IInv, StoreType, vars, stores, requests, faults
<1> QED
  BY <1>1, Stays DEF IInv, vars, requests, faults

LEMMA InitCarries == Init => IInv
<1> SUFFICES ASSUME Init PROVE IInv
  OBVIOUS
<1>1. queue = << >> /\ queue \in Seq(Message) /\ Len(queue) = 0
  BY DEF Init
<1>2. StoreType
  BY IngestionAssumption DEF Init, StoreType, Text
<1>3. CarryType
  BY <1>1, IdleState DEF Init, CarryType
<1>4. \A w \in Workers : worker[w] = Idle
  BY DEF Init
<1>5. MessageInv /\ HandInv
  <2>1. Idle.at = "idle"
    BY DEF Idle
  <2>2. \A w \in Workers : SaneAt(w) /\ HandAt(w)
    BY <1>4, <2>1 DEF SaneAt, HandAt, Updating, Storing, SplitStoring
  <2>3. \A i \in 1 .. Len(queue) : FALSE
    BY <1>1
  <2> QED
    BY <2>2, <2>3 DEF MessageInv, HandInv
<1>6. \A c \in Chunks : \A w \in Workers : ~Holds(w, c)
  BY <1>4, IngestionAssumption DEF Holds, Idle, NoMessage
<1>7. OnceInv
  <2>1. \A i \in 1 .. Len(queue) : FALSE
    BY <1>1
  <2>2. QueueOnce /\ \A c \in Chunks : ~Waits(c)
    BY <2>1 DEF QueueOnce, Waits
  <2> QED
    BY <1>6, <2>2 DEF OnceInv, Init
<1> QED
  BY <1>2, <1>3, <1>5, <1>7 DEF IInv, Carry

LEMMA WorkerCarries ==
  ASSUME IInv, NEW w \in Workers, WorkerStep(w) \/ Crash(w)
  PROVE  IInv' /\ seen \subseteq seen'
<1>1. CASE Take(w)
  BY <1>1, TakeCarries DEF faults
<1>2. CASE BulkInsert(w)
  <2>1. seen' = seen
    BY <1>2 DEF BulkInsert, Inserted, faults
  <2> QED
    BY <1>2, <2>1, BulkInsertCarries
<1>3. CASE InsertFails(w)
  BY <1>3, InsertFailsCarries
<1>4. CASE CreateVectors(w)
  BY <1>4, CreateVectorsCarries
<1>5. CASE StorePoint(w)
  BY <1>5, StorePointCarries
<1>6. CASE Revert(w)
  BY <1>6, RevertCarries
<1>7. CASE LookupTwin(w)
  BY <1>7, LookupTwinCarries
<1>8. CASE SplitInsert(w)
  <2>1. seen' = seen
    BY <1>8 DEF SplitInsert, Inserted, faults
  <2> QED
    BY <1>8, <2>1, SplitInsertCarries
<1>9. CASE SplitStore(w)
  BY <1>9, SplitStoreCarries
<1>10. CASE SplitRevert(w) \/ UpdatePoint(w) \/ Crash(w)
  BY <1>10, LastStepCarries
<1>11. CASE UpdateRow(w)
  BY <1>11, UpdateRowCarries
<1> QED
  BY <1>1, <1>2, <1>3, <1>4, <1>5, <1>6, <1>7, <1>8, <1>9, <1>10, <1>11 DEF WorkerStep

\* Workers make no requests: they neither create chunks nor ask for deletions.
LEMMA WorkersKeepDeletions ==
  ASSUME NEW w \in Workers, WorkerStep(w) \/ Crash(w) PROVE UNCHANGED <<created, deletion>>
<1>1. CASE Take(w) \/ BulkInsert(w) \/ InsertFails(w) \/ CreateVectors(w) \/ StorePoint(w) \/ Revert(w)
  BY <1>1 DEF Take, BulkInsert, InsertFails, CreateVectors, StorePoint, Revert, requests
<1>2. CASE LookupTwin(w) \/ SplitInsert(w) \/ SplitStore(w) \/ SplitRevert(w)
  BY <1>2 DEF LookupTwin, SplitInsert, SplitStore, SplitRevert, requests
<1>3. CASE UpdateRow(w) \/ UpdatePoint(w) \/ Crash(w)
  BY <1>3 DEF UpdateRow, UpdatePoint, Crash, requests
<1> QED
  BY <1>1, <1>2, <1>3 DEF WorkerStep

LEMMA StepCarries ==
  ASSUME IInv, [Next]_vars
  PROVE  IInv' /\ seen \subseteq seen'
<1>1. ASSUME NEW c \in Chunks, CreateChunk(c) PROVE IInv' /\ seen \subseteq seen'
  BY <1>1, CreateChunkCarries DEF CreateChunk, faults
<1>2. ASSUME NEW c \in Chunks, BeginDelete(c) \/ DeleteRow(c) \/ DeletePoint(c)
      PROVE  IInv' /\ seen \subseteq seen'
  BY <1>2, DeletionCarries
<1>3. ASSUME NEW c \in Chunks, NEW u \in Updates, UpdateChunk(c, u)
      PROVE  IInv' /\ seen \subseteq seen'
  BY <1>3, UpdateChunkCarries DEF UpdateChunk, faults
<1>4. ASSUME NEW w \in Workers, WorkerStep(w) \/ Crash(w) PROVE IInv' /\ seen \subseteq seen'
  BY <1>4, WorkerCarries
<1>5. CASE UNCHANGED vars
  BY <1>5, StutterCarries DEF vars, faults
<1> QED
  BY <1>1, <1>2, <1>3, <1>4, <1>5 DEF Next

\* In every behaviour the messages are where they should be, each once, and
\* a worker about to delete a row inserted it: what all that follows rests on.
THEOREM InductiveInvariant == Spec => []IInv
  BY InitCarries, StepCarries, PTL DEF Spec

\* TypeOK holds in every state: the stores, the ingestion list, the dead
\* letters and the workers keep their types for any number of them.
THEOREM TypeCorrect == Spec => []TypeOK
<1>1. IInv => TypeOK
  BY DEF IInv, StoreType, Carry, CarryType, TypeOK, WorkerState
<1> QED
  BY <1>1, InductiveInvariant, PTL

\* A batch that is reverted loses only rows it inserted: a worker about to
\* revert holds a message that does not upsert, so its row was fresh.
THEOREM RevertsDeleteOwnRows == Spec => RevertsOnlyInsertedRows
<1> DEFINE Own(w) == Revert(w) => \A c \in Chunks : row[c] # None /\ row'[c] = None
                                    => worker[w].fresh /\ worker[w].target = c
<1>1. IInv => \A w \in Workers : Own(w)
  <2> SUFFICES ASSUME IInv, NEW w \in Workers, Revert(w),
                      NEW c \in Chunks, row[c] # None, row'[c] = None
               PROVE  worker[w].fresh /\ worker[w].target = c
    OBVIOUS
  <2>1. worker[w].at = "revert" /\ HandAt(w)
    BY DEF Revert, IInv, Carry, HandInv
  <2>2. worker[w].target \in Chunks /\ worker[w].fresh
    BY <2>1 DEF HandAt, Storing
  <2>3. row \in [Chunks -> Text \cup {None}]
        /\ (row' = [row EXCEPT ![worker[w].target] = None] \/ row' = row)
    BY DEF Revert, IInv, StoreType
  <2> QED
    BY <2>2, <2>3
<1>2. IInv => [\A w \in Workers : Own(w)]_vars
  BY <1>1
<1> HIDE DEF Own
<1>3. Spec => [][\A w \in Workers : Own(w)]_vars
  BY <1>2, InductiveInvariant, PTL
<1> QED
  BY <1>3 DEF RevertsOnlyInsertedRows, Own

--------------------------------------------------------------------------------
(* Rows: who inserts one, and the unique index on the tracking id.          *)

\* The one row a step may bring into being is that of the chunk a worker is
\* inserting, when no row has its tracking id.
LEMMA RowsRise ==
  ASSUME IInv, [Next]_vars, NEW c \in Chunks, row[c] = None, row'[c] # None
  PROVE  /\ Twins(c) = {}
         /\ \A d \in Chunks \ {c} : row'[d] = row[d]
         /\ \E w \in Workers : /\ worker[w].at \in {"insert", "splitInsert"} /\ Holds(w, c)
                               /\ \A v \in Workers \ {w} : worker'[v] = worker[v]
                               /\ worker'[w].at \in {"embed", "splitStore"}
                               /\ UNCHANGED <<queue, created, deletion, dead, faults>>
<1> DEFINE Rises(w) == /\ worker[w].at \in {"insert", "splitInsert"} /\ Holds(w, c)
                       /\ \A v \in Workers \ {w} : worker'[v] = worker[v]
                       /\ worker'[w].at \in {"embed", "splitStore"}
                       /\ UNCHANGED <<queue, created, deletion, dead, faults>>
                       /\ Twins(c) = {}
                       /\ \A d \in Chunks \ {c} : row'[d] = row[d]
<1>1. row \in [Chunks -> Text \cup {None}] /\ worker \in [Workers -> WorkerState]
  BY DEF IInv, StoreType, Carry, CarryType
<1>2. ASSUME NEW w \in Workers, BulkInsert(w) PROVE Rises(w)
  <2> DEFINE e == worker[w].msg.chunk
  <2>1. /\ worker[w].at = "insert" /\ UNCHANGED <<created, deletion>>
        /\ \/ e \notin Upserts /\ Twins(e) = {} /\ Inserted(w, e, TRUE, "embed")
           \/ e \in Upserts /\ Twins(e) = {} /\ Inserted(w, e, TRUE, "embed")
           \/ e \in Upserts /\ \E d \in Twins(e) : Inserted(w, d, FALSE, "embed")
    BY <1>2 DEF BulkInsert, requests
  <2>2. e \in Chunks /\ worker[w].msg.text \in Text /\ Holds(w, e)
    BY <2>1, InHand DEF Updating
  <2>3. ASSUME NEW d \in Chunks, NEW isNew \in BOOLEAN, Inserted(w, d, isNew, "embed")
        PROVE  /\ d = c /\ Goes(w, "embed") /\ UNCHANGED faults
               /\ \A x \in Chunks \ {c} : row'[x] = row[x]
    BY <2>2, <2>3, InsertedGoes DEF Points
  <2>4. \A d \in Twins(e) : d \in Chunks /\ row[d] # None
    BY DEF Twins
  <2>5. e = c /\ Twins(c) = {} /\ Goes(w, "embed") /\ UNCHANGED faults
        /\ \A x \in Chunks \ {c} : row'[x] = row[x]
    BY <2>1, <2>2, <2>3, <2>4
  <2> QED
    BY <2>1, <2>2, <2>5 DEF Goes
<1>3. ASSUME NEW w \in Workers, SplitInsert(w) PROVE Rises(w)
  <2> DEFINE e == worker[w].msg.chunk
             d == worker[w].target
  <2>1. /\ worker[w].at = "splitInsert" /\ UNCHANGED <<created, deletion>>
        /\ \/ d = None /\ Twins(e) = {} /\ Inserted(w, e, TRUE, "splitStore")
           \/ d # None /\ row[d] # None /\ Inserted(w, d, FALSE, "splitStore")
    BY <1>3 DEF SplitInsert, requests
  <2>2. e \in Chunks /\ worker[w].msg.text \in Text /\ Holds(w, e) /\ d \in Chunks \cup {None}
    BY <1>1, <2>1, InHand DEF Updating, WorkerState
  <2>3. ASSUME NEW x \in Chunks, NEW isNew \in BOOLEAN, Inserted(w, x, isNew, "splitStore")
        PROVE  /\ x = c /\ Goes(w, "splitStore") /\ UNCHANGED faults
               /\ \A y \in Chunks \ {c} : row'[y] = row[y]
    BY <2>2, <2>3, InsertedGoes DEF Points
  <2>4. e = c /\ Twins(c) = {} /\ Goes(w, "splitStore") /\ UNCHANGED faults
        /\ \A x \in Chunks \ {c} : row'[x] = row[x]
    BY <2>1, <2>2, <2>3
  <2> QED
    BY <2>1, <2>2, <2>4 DEF Goes
<1>4. ASSUME NEW w \in Workers, UpdateRow(w) PROVE FALSE
  <2>1. \/ row' = row
        \/ row[worker[w].msg.chunk] # None
           /\ row' = [row EXCEPT ![worker[w].msg.chunk] = worker[w].msg.text]
    BY <1>4 DEF UpdateRow
  <2> QED
    BY <1>1, <2>1
<1>5. ASSUME NEW w \in Workers, Revert(w) \/ SplitRevert(w) PROVE FALSE
  BY <1>1, <1>5 DEF Revert, SplitRevert
<1>6. ASSUME NEW d \in Chunks, DeleteRow(d) PROVE FALSE
  BY <1>1, <1>6 DEF DeleteRow
<1>7. ASSUME row' = row PROVE FALSE
  BY <1>7
<1>8. \/ row' = row
      \/ \E w \in Workers : \/ BulkInsert(w) \/ SplitInsert(w) \/ UpdateRow(w)
                            \/ Revert(w) \/ SplitRevert(w)
      \/ \E d \in Chunks : DeleteRow(d)
  BY DEF Next, WorkerStep, CreateChunk, UpdateChunk, BeginDelete, DeletePoint, Take, InsertFails,
         CreateVectors, StorePoint, LookupTwin, SplitStore, UpdatePoint, Crash, stores, vars
<1>9. \E w \in Workers : Rises(w)
  BY <1>2, <1>3, <1>4, <1>5, <1>6, <1>7, <1>8
<1> QED
  BY <1>9

LEMMA TwinStep ==
  ASSUME IInv, TwinInv, [Next]_vars
  PROVE  TwinInv'
<1> SUFFICES ASSUME NEW c \in Chunks, NEW d \in Chunks, row'[c] # None, row'[d] # None,
                    Tracking[c] = Tracking[d], Tracking[c] # None, c # d
             PROVE  FALSE
  BY DEF TwinInv
<1>1. CASE row[c] = None
  <2>1. Twins(c) = {} /\ row'[d] = row[d]
    BY <1>1, RowsRise
  <2> QED
    BY <2>1 DEF Twins
<1>2. CASE row[d] = None
  <2>1. Twins(d) = {} /\ row'[c] = row[c]
    BY <1>2, RowsRise
  <2> QED
    BY <2>1 DEF Twins
<1> QED
  BY <1>1, <1>2 DEF TwinInv

\* The row of an upload that waits or is being inserted is yet to come; only
\* a failure makes an upload wait again, and one with split_avg never does.
LEMMA PendingFalls ==
  ASSUME IInv, [Next]_vars, NEW c \in Chunks, Pending(c)'
  PROVE  Pending(c) \/ (c \notin SplitAvg /\ Retried')
<1> SUFFICES ASSUME ~Pending(c) PROVE c \notin SplitAvg /\ Retried'
  OBVIOUS
<1>1. c \in created /\ ~Waits(c) /\ \A w \in Workers : worker[w].at \in Inserting => ~Holds(w, c)
  BY DEF Pending
<1>2. c \in created'
  <2>1. ASSUME NEW w \in Workers, WorkerStep(w) \/ Crash(w) PROVE c \in created'
    BY <1>1, <2>1, WorkersKeepDeletions
  <2>2. CASE \E d \in Chunks : CreateChunk(d)
    BY <1>1, <2>2 DEF CreateChunk
  <2>3. CASE \E d \in Chunks : BeginDelete(d) \/ DeleteRow(d) \/ DeletePoint(d)
    BY <1>1, <2>3 DEF BeginDelete, DeleteRow, DeletePoint
  <2>4. CASE \E d \in Chunks, u \in Updates : UpdateChunk(d, u)
    BY <1>1, <2>4 DEF UpdateChunk
  <2>5. CASE UNCHANGED vars
    BY <1>1, <2>5 DEF vars, requests
  <2> QED
    BY <2>1, <2>2, <2>3, <2>4, <2>5 DEF Next
<1>3. Waits(c)' \/ \E w \in Workers : worker'[w].at \in Inserting /\ Holds(w, c)'
  BY <1>2 DEF Pending
<1>4. ASSUME NEW d \in Chunks, CreateChunk(d) PROVE FALSE
  <2>1. c # d /\ UNCHANGED worker
    BY <1>1, <1>4 DEF CreateChunk
  <2> QED
    BY <1>1, <1>3, <1>4, <2>1, CreateChunkCarries
<1>5. ASSUME NEW d \in Chunks, NEW u \in Updates, UpdateChunk(d, u) PROVE FALSE
  BY <1>1, <1>3, <1>5, UpdateChunkCarries DEF UpdateChunk
<1>6. ASSUME NEW d \in Chunks, BeginDelete(d) \/ DeleteRow(d) \/ DeletePoint(d) PROVE FALSE
  BY <1>1, <1>3, <1>6, DeletionCarries
<1>7. ASSUME UNCHANGED vars PROVE FALSE
  BY <1>1, <1>3, <1>7, StutterCarries DEF vars
<1>8. ASSUME NEW w \in Workers, Take(w) PROVE FALSE
  <2>1. PICK v \in Workers : worker'[v].at \in Inserting /\ Holds(v, c)'
    BY <1>1, <1>3, <1>8, TakeCarries
  <2>2. v # w
    BY <1>1, <1>8, <2>1, TakeCarries
  <2>3. worker'[v] = worker[v]
    BY <1>8, <2>2, TakeCarries
  <2> QED
    BY <1>1, <2>1, <2>3 DEF Holds
\* A worker that goes on, is freed, or pushes its message back.
<1>9. ASSUME NEW w \in Workers, NEW at \in Points, Goes(w, at),
             at \in Inserting => worker[w].at \in Inserting
      PROVE  FALSE
  <2>1. Waits(c)' <=> Waits(c)
    BY <1>9 DEF Goes, Waits, Queues
  <2>2. PICK v \in Workers : worker'[v].at \in Inserting /\ Holds(v, c)'
    BY <1>1, <1>3, <2>1
  <2>3. worker[v].at \in Inserting /\ Holds(v, c)
    BY <1>9, <2>2 DEF Goes, Holds
  <2> QED
    BY <1>1, <2>3
<1>10. ASSUME NEW w \in Workers, Finish(w), UNCHANGED created, seen \subseteq seen'
       PROVE  FALSE
  <2>1. Freed(w) /\ (Waits(c)' <=> Waits(c))
    BY <1>10, Finishes DEF IInv
  <2> QED
    BY <1>1, <1>3, <2>1 DEF Freed
<1>11. ASSUME NEW w \in Workers, PushBack(w), UNCHANGED created, seen \subseteq seen',
              worker[w].at \in Storing, Retried'
       PROVE  c \notin SplitAvg /\ Retried'
  <2>1. Freed(w) /\ (Waits(c)' => Waits(c) \/ Holds(w, c))
    BY <1>11, PushesBack DEF IInv, Storing, Updating
  <2>2. Holds(w, c)
    BY <1>1, <1>3, <2>1 DEF Freed
  <2>3. worker[w].msg.chunk \notin SplitAvg
    BY <1>11 DEF IInv, Carry, HandInv, HandAt
  <2> QED
    BY <1>11, <2>2, <2>3 DEF Holds
<1>12. ASSUME NEW w \in Workers, WorkerStep(w) \/ Crash(w), ~Take(w)
       PROVE  c \notin SplitAvg /\ Retried'
  <2>1. UNCHANGED created /\ seen \subseteq seen'
    <3>1. UNCHANGED created
      BY <1>12 DEF WorkerStep, BulkInsert, InsertFails, CreateVectors, StorePoint, Revert,
                   LookupTwin, SplitInsert, SplitStore, SplitRevert, UpdateRow, UpdatePoint, Crash,
                   requests
    <3> QED
      BY <1>12, <3>1, WorkerCarries
  <2>2. CASE Finish(w)
    BY <1>10, <2>1, <2>2
  <2>3. CASE BulkInsert(w) \/ SplitInsert(w)
    <3>1. worker[w].at \in {"insert", "splitInsert"}
      BY <2>3 DEF BulkInsert, SplitInsert
    <3>2. worker[w].msg.chunk \in Chunks /\ worker[w].msg.text \in Text
          /\ worker[w].target \in Chunks \cup {None}
      BY <3>1, InHand DEF Updating, IInv, Carry, CarryType, WorkerState
    <3>3. \/ Finish(w)
          \/ \E d \in Chunks : \E isNew \in BOOLEAN : \E at \in {"embed", "splitStore"} :
               Inserted(w, d, isNew, at)
      BY <2>3, <3>2 DEF BulkInsert, SplitInsert, Twins
    <3>4. ASSUME NEW d \in Chunks, NEW isNew \in BOOLEAN, NEW at \in {"embed", "splitStore"},
                 Inserted(w, d, isNew, at)
          PROVE  FALSE
      <4>1. at \in Points /\ at \notin Inserting
        BY DEF Points, Inserting
      <4> QED
        BY <1>9, <3>2, <3>4, <4>1, InsertedGoes
    <3> QED
      BY <2>2, <3>3, <3>4
  <2>4. CASE InsertFails(w)
    <3>1. Retried' /\ worker[w].at = "embed" /\ PushBack(w)
      BY <2>4 DEF InsertFails, Failing, Retried
    <3> QED
      BY <1>11, <2>1, <3>1 DEF Storing
  <2>5. CASE CreateVectors(w) \/ StorePoint(w)
    <3>1. worker[w].at \in {"embed", "store"}
      BY <2>5 DEF CreateVectors, StorePoint
    <3>2. \/ Finish(w)
          \/ \E at \in {"store", "revert"} : GoTo(w, at) /\ UNCHANGED <<queue, dead>>
          \/ PushBack(w) /\ Retried'
      BY <2>5 DEF CreateVectors, StorePoint, Failing, Retried, Undo
    <3>3. ASSUME NEW at \in {"store", "revert"}, GoTo(w, at), UNCHANGED <<queue, dead>>
          PROVE  FALSE
      <4>1. at \in Points /\ at \notin Inserting
        BY DEF Points, Inserting
      <4> QED
        BY <1>9, <3>3, <4>1, GoesTo
    <3> QED
      BY <1>11, <2>1, <2>2, <3>1, <3>2, <3>3 DEF Storing
  <2>6. CASE Revert(w)
    <3>1. worker[w].at = "revert" /\ PushBack(w)
      BY <2>6 DEF Revert
    <3>2. Retried
      BY <3>1 DEF IInv, Carry, HandInv, HandAt
    <3> QED
      BY <1>11, <2>1, <3>1, <3>2 DEF Storing, Retried
  <2>7. CASE LookupTwin(w)
    <3>1. worker[w].at = "lookup" /\ (Finish(w) \/ Goes(w, "splitInsert"))
      BY <2>7, LookupTwinCarries DEF LookupTwin
    <3> QED
      BY <1>9, <2>2, <3>1 DEF Inserting, Points
  <2>8. CASE SplitStore(w) \/ UpdateRow(w)
    <3>1. \/ Finish(w)
          \/ \E at \in {"splitRevert", "updatePoint"} : GoTo(w, at) /\ UNCHANGED <<queue, dead>>
      BY <2>8 DEF SplitStore, UpdateRow
    <3>2. ASSUME NEW at \in {"splitRevert", "updatePoint"}, GoTo(w, at), UNCHANGED <<queue, dead>>
          PROVE  FALSE
      <4>1. at \in Points /\ at \notin Inserting
        BY DEF Points, Inserting
      <4> QED
        BY <1>9, <3>2, <4>1, GoesTo
    <3> QED
      BY <2>2, <3>1, <3>2
  <2>9. CASE SplitRevert(w) \/ UpdatePoint(w) \/ Crash(w)
    BY <2>2, <2>9 DEF SplitRevert, UpdatePoint, Crash
  <2> QED
    BY <1>12, <2>3, <2>4, <2>5, <2>6, <2>7, <2>8, <2>9 DEF WorkerStep
<1> QED
  BY <1>4, <1>5, <1>6, <1>7, <1>8, <1>12 DEF Next

\* A delete request that removes a row finds it, and one begun stays begun.
LEMMA DeletionMoves ==
  ASSUME IInv, [Next]_vars, NEW c \in Chunks
  PROVE  /\ deletion[c] # "none" => deletion'[c] # "none"
         /\ deletion'[c] \in {"unindex", "removed"} /\ deletion[c] \notin {"unindex", "removed"}
              => row[c] # None /\ row'[c] = None
<1>1. deletion \in [Chunks -> {"none", "begun", "unindex", "removed", "missed", "refused"}]
      /\ row \in [Chunks -> Text \cup {None}]
  BY DEF IInv, StoreType
<1>2. CASE deletion' = deletion
  BY <1>2
<1>3. ASSUME NEW d \in Chunks, BeginDelete(d)
      PROVE  /\ deletion[c] # "none" => deletion'[c] # "none"
             /\ deletion'[c] \in {"unindex", "removed"} => deletion[c] \in {"unindex", "removed"}
  BY <1>1, <1>3 DEF BeginDelete
<1>4. ASSUME NEW d \in Chunks, DeleteRow(d)
      PROVE  /\ deletion[c] # "none" => deletion'[c] # "none"
             /\ deletion'[c] \in {"unindex", "removed"} /\ deletion[c] \notin {"unindex", "removed"}
                  => row[c] # None /\ row'[c] = None
  BY <1>1, <1>4 DEF DeleteRow
<1>5. ASSUME NEW d \in Chunks, DeletePoint(d)
      PROVE  /\ deletion[c] # "none" => deletion'[c] # "none"
             /\ deletion'[c] \in {"unindex", "removed"} => deletion[c] \in {"unindex", "removed"}
  BY <1>1, <1>5 DEF DeletePoint
<1>6. \/ deletion' = deletion
      \/ \E d \in Chunks : BeginDelete(d) \/ DeleteRow(d) \/ DeletePoint(d)
  <2>1. ASSUME NEW w \in Workers, WorkerStep(w) \/ Crash(w) PROVE deletion' = deletion
    BY <2>1, WorkersKeepDeletions
  <2>2. ASSUME NEW d \in Chunks, NEW u \in Updates, UpdateChunk(d, u) PROVE deletion' = deletion
    BY <2>2 DEF UpdateChunk
  <2>3. ASSUME NEW d \in Chunks, CreateChunk(d) PROVE deletion' = deletion
    BY <2>3 DEF CreateChunk
  <2>4. CASE UNCHANGED vars
    BY <2>4 DEF vars, requests
  <2> QED
    BY <2>1, <2>2, <2>3, <2>4 DEF Next
<1> QED
  BY <1>2, <1>3, <1>4, <1>5, <1>6

\* A row is inserted once its upload is in hand, and then it is not pending.
LEMMA RiseNotPending ==
  ASSUME IInv, [Next]_vars, NEW c \in Chunks, row[c] = None, row'[c] # None
  PROVE  Pending(c) /\ ~Pending(c)' /\ deletion' = deletion
<1>1. PICK w \in Workers :
        /\ worker[w].at \in {"insert", "splitInsert"} /\ Holds(w, c)
        /\ \A v \in Workers \ {w} : worker'[v] = worker[v]
        /\ worker'[w].at \in {"embed", "splitStore"}
        /\ UNCHANGED <<queue, created, deletion, dead, faults>>
  BY RowsRise
<1>2. /\ c \in created /\ ~Waits(c)
      /\ \A v \in Workers \ {w} : ~Holds(v, c)
  BY <1>1 DEF IInv, Carry, OnceInv
<1>3. ~Waits(c)' /\ \A v \in Workers \ {w} : ~Holds(v, c)'
  BY <1>1, <1>2 DEF Waits, Queues, Holds
<1> QED
  BY <1>1, <1>2, <1>3 DEF Pending, Inserting

LEMMA RemovedStep ==
  ASSUME IInv, RemovedInv, [Next]_vars
  PROVE  RemovedInv'
<1> SUFFICES ASSUME ~Retried', NEW c \in Chunks
             PROVE  /\ Pending(c)' => row'[c] = None /\ deletion'[c] \notin {"unindex", "removed"}
                    /\ deletion'[c] \in {"unindex", "removed"} => row'[c] = None
  BY DEF RemovedInv
<1>1. ~Retried
  BY StepCarries DEF Retried
<1>2. /\ Pending(c) => row[c] = None /\ deletion[c] \notin {"unindex", "removed"}
      /\ deletion[c] \in {"unindex", "removed"} => row[c] = None
  BY <1>1 DEF RemovedInv
<1>3. ASSUME row[c] = None, row'[c] # None
      PROVE  ~Pending(c)' /\ deletion'[c] \notin {"unindex", "removed"}
  BY <1>2, <1>3, RiseNotPending
<1>4. Pending(c)' => row'[c] = None /\ deletion'[c] \notin {"unindex", "removed"}
  BY <1>2, <1>3, PendingFalls, DeletionMoves
<1>5. deletion'[c] \in {"unindex", "removed"} => row'[c] = None
  BY <1>2, <1>3, DeletionMoves
<1> QED
  BY <1>4, <1>5

\* A row removed by a delete stays removed while nothing is retried: the row
\* of a chunk that was created and neither waits nor is being inserted can
\* only be updated, and an update of a row that is gone does nothing.
THEOREM RemovedRowsStayRemoved == Spec => []RemovedStaysRemoved
<1>1. Init => RemovedInv
  BY DEF Init, RemovedInv
<1>2. RemovedInv => RemovedStaysRemoved
  BY DEF RemovedInv, RemovedStaysRemoved
<1> QED
  BY <1>1, <1>2, RemovedStep, InductiveInvariant, PTL DEF Spec

\* A dead upload: the last attempt deletes the row of a batch that does not
\* upsert before the message reaches the dead letters.
LEMMA DeadGrows ==
  ASSUME IInv, [Next]_vars, NEW c \in Chunks, c \in dead', c \notin dead, Clean', c \notin Upserts
  PROVE  row'[c] = None
<1>1. Clean /\ \A kind \in {"bookmarks", "build", "revert", "crash"} : ~Failing(kind)
  BY StepCarries DEF Clean, Failing
<1>2. ASSUME NEW w \in Workers, Finish(w) PROVE FALSE
  BY <1>2 DEF Finish
<1>3. ASSUME NEW w \in Workers, PushBack(w) PROVE c = worker[w].msg.chunk
  BY <1>3 DEF PushBack
<1>4. ASSUME NEW w \in Workers, Undo(w) PROVE FALSE
  BY <1>3, <1>4 DEF Undo
<1>5. ASSUME NEW w \in Workers, Revert(w) PROVE row'[c] = None
  <2>1. worker[w].at = "revert" /\ HandAt(w)
    BY <1>5 DEF Revert, IInv, Carry, HandInv
  <2>2. worker[w].target = c
    BY <1>3, <1>5, <2>1 DEF HandAt, Storing, Revert
  <2>3. row \in [Chunks -> Text \cup {None}] /\ row' = [row EXCEPT ![c] = None]
    <3>1. row \in [Chunks -> Text \cup {None}]
      BY DEF IInv, StoreType
    <3>2. row' = [row EXCEPT ![c] = None]
      BY <1>1, <1>5, <2>2 DEF Revert
    <3> QED
      BY <3>1, <3>2
  <2> QED
    BY <2>3
<1>6. ASSUME NEW w \in Workers, WorkerStep(w) \/ Crash(w) PROVE row'[c] = None
  BY <1>1, <1>2, <1>4, <1>5, <1>6
     DEF WorkerStep, Take, BulkInsert, Inserted, InsertFails, CreateVectors, StorePoint, LookupTwin,
         SplitInsert, SplitStore, SplitRevert, UpdateRow, UpdatePoint, Crash
<1>7. \E w \in Workers : WorkerStep(w) \/ Crash(w)
  BY DEF Next, CreateChunk, UpdateChunk, BeginDelete, DeleteRow, DeletePoint, vars
<1> QED
  BY <1>6, <1>7

LEMMA DeadStep ==
  ASSUME IInv, DeadInv, [Next]_vars
  PROVE  DeadInv'
<1> SUFFICES ASSUME Clean', NEW c \in dead' \ Upserts PROVE row'[c] = None
  BY DEF DeadInv
<1>1. Clean /\ c \in Chunks
  BY StepCarries DEF Clean, IInv, Carry, CarryType
<1>2. CASE c \notin dead
  BY <1>1, <1>2, DeadGrows
<1>3. CASE c \in dead
  <2>1. row[c] = None
    BY <1>1, <1>3 DEF DeadInv
  <2>2. \A w \in Workers : ~Holds(w, c)
    BY <1>1, <1>3 DEF IInv, Carry, OnceInv
  <2> QED
    BY <1>1, <2>1, <2>2, RowsRise
<1> QED
  BY <1>2, <1>3

\* An upload reported as failed left no row: a message on the dead letters
\* is in no other place, so nobody inserts the row again.
THEOREM DeadUploadsLeaveNoRow == Spec => []DeadLeavesNoRow
<1>1. Init => DeadInv
  BY DEF Init, DeadInv
<1>2. DeadInv => DeadLeavesNoRow
  BY DEF DeadInv, DeadLeavesNoRow
<1> QED
  BY <1>1, <1>2, DeadStep, InductiveInvariant, PTL DEF Spec

--------------------------------------------------------------------------------
(* Who writes a row or a point, and what becomes of a point that is owed.   *)

\* A worker's step ends its message, hands it back, or goes on with it.
LEMMA Outcomes ==
  ASSUME IInv, NEW w \in Workers, WorkerStep(w) \/ Crash(w), ~Take(w)
  PROVE  /\ \/ \E at \in Points : Goes(w, at)
            \/ Finish(w)
            \/ PushBack(w) /\ worker[w].at \in Storing
         /\ UNCHANGED <<created, deletion, covered>>
         /\ \A v \in Workers \ {w} : worker'[v] = worker[v]
         /\ dead \subseteq dead' /\ \A d \in Chunks : Waits(d) => Waits(d)'
<1> DEFINE Moved == \/ \E at \in Points : Goes(w, at)
                    \/ Finish(w)
                    \/ PushBack(w) /\ worker[w].at \in Storing
<1>1. UNCHANGED <<created, deletion, covered>> /\ seen \subseteq seen'
  <2>1. UNCHANGED <<created, deletion, covered>>
    BY DEF WorkerStep, BulkInsert, InsertFails, CreateVectors, StorePoint, Revert, LookupTwin,
           SplitInsert, SplitStore, SplitRevert, UpdateRow, UpdatePoint, Crash, requests
  <2> QED
    BY <2>1, WorkerCarries
<1>2. ASSUME BulkInsert(w) \/ SplitInsert(w) PROVE Moved
  <2>1. worker[w].at \in {"insert", "splitInsert"}
    BY <1>2 DEF BulkInsert, SplitInsert
  <2>2. worker[w].msg.chunk \in Chunks /\ worker[w].msg.text \in Text
        /\ worker[w].target \in Chunks \cup {None}
    BY <2>1, InHand DEF Updating, IInv, Carry, CarryType, WorkerState
  <2>3. \/ Finish(w)
        \/ \E d \in Chunks : \E isNew \in BOOLEAN : \E at \in {"embed", "splitStore"} :
             Inserted(w, d, isNew, at)
    BY <1>2, <2>2 DEF BulkInsert, SplitInsert, Twins
  <2>4. {"embed", "splitStore"} \subseteq Points
    BY DEF Points
  <2> QED
    BY <2>2, <2>3, <2>4, InsertedGoes
<1>3. ASSUME InsertFails(w) \/ CreateVectors(w) \/ StorePoint(w) \/ Revert(w) PROVE Moved
  <2>1. worker[w].at \in Storing
    BY <1>3 DEF InsertFails, CreateVectors, StorePoint, Revert, Storing
  <2>2. \/ PushBack(w) \/ Finish(w)
        \/ \E at \in {"store", "revert"} : GoTo(w, at) /\ UNCHANGED <<queue, dead>>
    BY <1>3 DEF InsertFails, CreateVectors, StorePoint, Revert, Undo
  <2>3. {"store", "revert"} \subseteq Points
    BY DEF Points
  <2> QED
    BY <2>1, <2>2, <2>3, GoesTo
<1>4. ASSUME LookupTwin(w) PROVE Moved
  BY <1>4, LookupTwinCarries DEF Points
<1>5. ASSUME SplitStore(w) \/ SplitRevert(w) \/ UpdateRow(w) \/ UpdatePoint(w) \/ Crash(w) PROVE Moved
  <2>1. \/ Finish(w)
        \/ \E at \in {"splitRevert", "updatePoint"} : GoTo(w, at) /\ UNCHANGED <<queue, dead>>
    BY <1>5 DEF SplitStore, SplitRevert, UpdateRow, UpdatePoint, Crash
  <2>2. {"splitRevert", "updatePoint"} \subseteq Points
    BY DEF Points
  <2> QED
    BY <2>1, <2>2, GoesTo
<1>6. Moved
  BY <1>2, <1>3, <1>4, <1>5 DEF WorkerStep
<1>7. ASSUME NEW at \in Points, Goes(w, at)
      PROVE  /\ \A v \in Workers \ {w} : worker'[v] = worker[v]
             /\ dead \subseteq dead' /\ \A d \in Chunks : Waits(d) => Waits(d)'
  BY <1>7 DEF Goes, Waits, Queues
<1>8. CASE Finish(w)
  BY <1>1, <1>6, <1>8, Finishes DEF IInv, Freed
<1>9. CASE PushBack(w) /\ worker[w].at \in Storing
  <2>1. worker[w].at \notin Updating \cup {"idle"} /\ dead \in SUBSET Chunks
    BY <1>9 DEF Storing, Updating, IInv, Carry, CarryType
  <2>2. Freed(w) /\ dead \subseteq dead' /\ \A d \in Chunks : Waits(d) => Waits(d)'
    BY <1>1, <1>9, <2>1, PushesBack DEF IInv
  <2> QED
    BY <1>1, <1>6, <2>2 DEF Freed
<1> QED
  BY <1>1, <1>6, <1>7, <1>8, <1>9

\* A worker that writes a row is on its way to write the point.
LEMMA RowWritten ==
  ASSUME IInv, [Next]_vars, NEW c \in Chunks, row'[c] # row[c], row'[c] # None
  PROVE  /\ \/ Owed(c)'
            \/ row'[c] \in SplitAvg /\ \E w \in Workers : SplitOwedBy(w, c)'
         /\ point' = point
<1>1. row \in [Chunks -> Text \cup {None}] /\ worker \in [Workers -> WorkerState]
  BY DEF IInv, StoreType, Carry, CarryType
<1>2. ASSUME NEW w \in Workers, BulkInsert(w) PROVE Owed(c)' /\ point' = point
  <2>1. /\ worker[w].at = "insert" /\ point' = point
        /\ \E d \in Chunks : \E isNew \in BOOLEAN : Inserted(w, d, isNew, "embed")
    BY <1>2, InHand DEF BulkInsert, Twins, Updating
  <2>2. worker[w].msg.text \in Text
    BY <2>1, InHand DEF Updating
  <2>3. Goes(w, "embed") /\ worker'[w].target = c /\ row'[c] = worker[w].msg.text
    BY <2>1, <2>2, InsertedGoes DEF Points
  <2> QED
    BY <2>1, <2>3 DEF Goes, Owed, OwedBy, Storing
<1>3. ASSUME NEW w \in Workers, SplitInsert(w)
      PROVE  row'[c] \in SplitAvg /\ SplitOwedBy(w, c)' /\ point' = point
  <2>1. worker[w].at = "splitInsert" /\ point' = point
    BY <1>3 DEF SplitInsert
  <2>2. /\ worker[w].msg.text \in SplitAvg /\ worker[w].msg.text \in Text
        /\ worker[w].msg.chunk \in Chunks /\ worker[w].target \in Chunks \cup {None}
    BY <1>1, <2>1, InHand DEF Updating, HandAt, WorkerState
  <2>3. \E d \in Chunks : \E isNew \in BOOLEAN : Inserted(w, d, isNew, "splitStore")
    BY <1>3, <2>2 DEF SplitInsert
  <2>4. Goes(w, "splitStore") /\ worker'[w].target = c /\ row'[c] = worker[w].msg.text
    BY <2>2, <2>3, InsertedGoes DEF Points
  <2> QED
    BY <2>1, <2>2, <2>4 DEF Goes, SplitOwedBy, SplitStoring
<1>4. ASSUME NEW w \in Workers, UpdateRow(w) PROVE Owed(c)' /\ point' = point
  <2>1. /\ row' = [row EXCEPT ![worker[w].msg.chunk] = worker[w].msg.text] /\ point' = point
        /\ GoTo(w, "updatePoint") /\ UNCHANGED <<queue, dead>>
    BY <1>4 DEF UpdateRow
  <2>2. Goes(w, "updatePoint")
    BY <2>1, GoesTo DEF Points
  <2>3. worker[w].msg.chunk = c /\ worker[w].msg.text = row'[c]
    BY <1>1, <2>1
  <2> QED
    BY <2>1, <2>2, <2>3 DEF Goes, Owed, OwedBy
<1>5. ASSUME NEW w \in Workers, Revert(w) \/ SplitRevert(w) PROVE FALSE
  BY <1>1, <1>5 DEF Revert, SplitRevert
<1>6. ASSUME NEW d \in Chunks, DeleteRow(d) PROVE FALSE
  BY <1>1, <1>6 DEF DeleteRow
<1>7. \/ row' = row
      \/ \E w \in Workers : \/ BulkInsert(w) \/ SplitInsert(w) \/ UpdateRow(w)
                            \/ Revert(w) \/ SplitRevert(w)
      \/ \E d \in Chunks : DeleteRow(d)
  BY DEF Next, WorkerStep, CreateChunk, UpdateChunk, BeginDelete, DeletePoint, Take, InsertFails,
         CreateVectors, StorePoint, LookupTwin, SplitStore, UpdatePoint, Crash, stores, vars
<1> QED
  BY <1>2, <1>3, <1>4, <1>5, <1>6, <1>7

\* A point is written by a worker that wrote the row, or deleted after it.
LEMMA PointWritten ==
  ASSUME IInv, [Next]_vars, NEW c \in Chunks, point'[c] # point[c]
  PROVE  /\ row' = row
         /\ \/ DeletePoint(c) /\ point'[c] = None
            \/ \E w \in Workers : /\ worker[w].at \in {"store", "splitStore"}
                                  /\ worker[w].target = c /\ point'[c] = worker[w].msg.text
                                  /\ worker[w].msg.text \in Chunks
                                  /\ worker' = [worker EXCEPT ![w] = Idle]
            \/ \E w \in Workers : /\ worker[w].at = "updatePoint"
                                  /\ worker[w].msg.chunk = c /\ point'[c] = worker[w].msg.text
                                  /\ worker[w].msg.text \in Updates
                                  /\ worker' = [worker EXCEPT ![w] = Idle]
<1>1. point \in [Chunks -> Text \cup {None}]
  BY DEF IInv, StoreType
<1>2. ASSUME NEW w \in Workers, StorePoint(w) \/ SplitStore(w)
      PROVE  /\ row' = row /\ worker[w].at \in {"store", "splitStore"}
             /\ worker[w].target = c /\ point'[c] = worker[w].msg.text
             /\ worker[w].msg.text \in Chunks
             /\ worker' = [worker EXCEPT ![w] = Idle]
  <2>1. /\ worker[w].at \in {"store", "splitStore"} /\ row' = row
        /\ point' = [point EXCEPT ![worker[w].target] = worker[w].msg.text]
        /\ worker' = [worker EXCEPT ![w] = Idle]
    BY <1>2 DEF StorePoint, SplitStore, Finish
  <2> QED
    BY <1>1, <2>1, InHand DEF Updating
<1>3. ASSUME NEW w \in Workers, UpdatePoint(w)
      PROVE  /\ row' = row /\ worker[w].at = "updatePoint"
             /\ worker[w].msg.chunk = c /\ point'[c] = worker[w].msg.text
             /\ worker[w].msg.text \in Updates
             /\ worker' = [worker EXCEPT ![w] = Idle]
  <2>1. /\ worker[w].at = "updatePoint" /\ row' = row
        /\ point' = [point EXCEPT ![worker[w].msg.chunk] = worker[w].msg.text]
        /\ worker' = [worker EXCEPT ![w] = Idle]
    BY <1>3 DEF UpdatePoint, Finish
  <2>2. worker[w].msg.text \in Updates
    BY <2>1 DEF IInv, Carry, MessageInv, SaneAt, Updating, Message
  <2> QED
    BY <1>1, <2>1, <2>2
<1>4. ASSUME NEW d \in Chunks, DeletePoint(d)
      PROVE  row' = row /\ DeletePoint(c) /\ point'[c] = None
  <2>1. row' = row /\ point' = [point EXCEPT ![d] = None]
    BY <1>4 DEF DeletePoint
  <2> QED
    BY <1>1, <1>4, <2>1
<1>5. \/ \E w \in Workers : StorePoint(w) \/ SplitStore(w) \/ UpdatePoint(w)
      \/ \E d \in Chunks : DeletePoint(d)
  BY DEF Next, WorkerStep, CreateChunk, UpdateChunk, BeginDelete, DeleteRow, Take, BulkInsert,
         InsertFails, CreateVectors, Revert, LookupTwin, SplitInsert, SplitRevert, UpdateRow, Crash,
         stores, vars
<1> QED
  BY <1>2, <1>3, <1>4, <1>5

LEMMA OwedStays ==
  ASSUME IInv, NEW c \in Chunks, Owed(c), row'[c] = row[c], seen \subseteq seen',
         dead \subseteq dead', \A d \in Chunks : Waits(d) => Waits(d)',
         \A v \in Workers : worker'[v] = worker[v] \/ ~OwedBy(v, c)
  PROVE  Owed(c)'
<1>1. CASE OwedElse(c)
  <2>1. row[c] \in Upserts => row[c] \in Chunks
    BY IngestionAssumption
  <2> QED
    BY <1>1, <2>1 DEF Owed, OwedElse
<1>2. ASSUME NEW v \in Workers, OwedBy(v, c) PROVE Owed(c)'
  BY <1>2 DEF Owed, OwedBy, Holds
<1> QED
  BY <1>1, <1>2 DEF Owed

\* Handled again: the batch of an upsert that failed after its row was written.
LEMMA OwedAgain ==
  ASSUME IInv, NEW w \in Workers, PushBack(w), UNCHANGED created, seen \subseteq seen',
         worker[w].at \in {"embed", "store"}, worker[w].msg.chunk \in Upserts,
         NEW c \in Chunks, OwedBy(w, c), row'[c] = row[c]
  PROVE  Owed(c)'
<1>1. PICK u \in Upserts : u = worker[w].msg.chunk
  OBVIOUS
<1>2. HandAt(w) /\ Holds(w, u) /\ u \in Chunks /\ worker[w].msg.text = u
  BY <1>1, InHand DEF Updating
<1>3. worker[w].target = c /\ row[c] = u
  BY <1>2 DEF OwedBy
<1>4. u \notin SplitAvg /\ Tracking[u] = Tracking[c]
  BY <1>1, <1>2, <1>3 DEF HandAt, Storing
<1>5. u \in dead' \/ Waits(u)'
  BY <1>2, PushesBack DEF IInv, Updating
<1> QED
  BY <1>3, <1>4, <1>5 DEF Owed, OwedElse

\* The message a worker takes: it owes what the list owed.
LEMMA OwedTake ==
  ASSUME IInv, NEW w \in Workers, Take(w), NEW c \in Chunks, Owed(c)
  PROVE  Owed(c)'
<1>1. /\ UNCHANGED <<stores, dead, deletion, faults>>
      /\ worker[w] = Idle
      /\ worker'[w].at \in {"updateRow", "lookup", "insert"}
      /\ worker'[w].msg = Head(queue)
      /\ worker'[w].at = "updateRow" <=> Head(queue).kind = "update"
      /\ worker'[w].at = "lookup" => Head(queue).chunk \in SplitAvg
      /\ \A v \in Workers \ {w} : worker'[v] = worker[v]
      /\ \A d \in Chunks : Waits(d) <=> Waits(d)' \/ Holds(w, d)'
  BY TakeCarries
<1>2. row'[c] = row[c] /\ seen' = seen
  BY <1>1 DEF stores, faults
<1>3. CASE \E v \in Workers : OwedBy(v, c)
  <2>1. PICK v \in Workers : OwedBy(v, c)
    BY <1>3
  <2>2. v # w
    BY <1>1, <2>1 DEF OwedBy, Idle, Storing
  <2>3. worker'[v] = worker[v]
    BY <1>1, <2>2
  <2> QED
    BY <1>2, <2>1, <2>3 DEF Owed, OwedBy, Holds
<1>4. CASE OwedElse(c)
  <2>1. CASE row[c] \in Upserts \ SplitAvg /\ Tracking[row[c]] = Tracking[c] /\ Waits(row[c])
    <3>1. PICK u \in Upserts : u = row[c]
      BY <2>1
    <3>2. u \in Chunks /\ u = row'[c] /\ (Waits(u)' \/ Holds(w, u)') /\ u \notin SplitAvg
          /\ Tracking[u] = Tracking[c]
      BY <1>1, <1>2, <2>1, <3>1, IngestionAssumption
    <3>3. CASE Waits(u)'
      BY <3>2, <3>3 DEF Owed, OwedElse
    <3>4. CASE Holds(w, u)'
      <4>1. worker'[w].at = "insert"
        BY <1>1, <3>2, <3>4 DEF Holds
      <4> QED
        BY <3>2, <3>4, <4>1 DEF Owed, OwedBy
    <3> QED
      BY <3>2, <3>3, <3>4
  <2>2. CASE row[c] \in Updates /\ "update" \in seen
    BY <1>2, <2>2 DEF Owed, OwedElse
  <2>3. CASE row[c] \in Upserts \ SplitAvg /\ Tracking[row[c]] = Tracking[c] /\ row[c] \in dead
    BY <1>1, <1>2, <2>3 DEF Owed, OwedElse
  <2> QED
    BY <1>4, <2>1, <2>2, <2>3 DEF OwedElse
<1> QED
  BY <1>3, <1>4 DEF Owed

\* A worker pays what it owes, or still owes it.
LEMMA OwedPaid ==
  ASSUME IInv, TwinInv, NEW w \in Workers, WorkerStep(w), ~Take(w), Clean',
         NEW c \in Chunks, OwedBy(w, c), row'[c] = row[c], row[c] # None
  PROVE  Owed(c)' \/ point'[c] = row[c]
<1>1. \A kind \in {"bookmarks", "build", "revert"} : ~Failing(kind)
  BY DEF Clean, Failing
<1>2. UNCHANGED created /\ seen \subseteq seen'
  BY Outcomes, WorkerCarries
<1>3. CASE worker[w].at = "insert"
  <2> DEFINE e == worker[w].msg.chunk
  <2>1. BulkInsert(w)
    BY <1>3 DEF WorkerStep, InsertFails, CreateVectors, StorePoint, Revert, LookupTwin, SplitInsert,
                SplitStore, SplitRevert, UpdateRow, UpdatePoint
  <2>2. row[c] = e /\ e \in Upserts /\ Tracking[e] = Tracking[c]
        /\ e \in Chunks /\ worker[w].msg.text = e /\ e \in Text
    BY <1>3, InHand DEF OwedBy, Holds, Storing, Updating
  <2>3. c \in Twins(e)
    BY <2>2, IngestionAssumption DEF Twins
  <2>4. Inserted(w, c, FALSE, "embed")
    BY <2>1, <2>2, <2>3, IngestionAssumption DEF BulkInsert, Twins, TwinInv
  <2>5. Goes(w, "embed") /\ worker'[w].target = c /\ row'[c] = e
    BY <2>2, <2>4, InsertedGoes DEF Points
  <2> QED
    BY <2>2, <2>5 DEF Goes, Owed, OwedBy, Storing
<1>4. CASE worker[w].at = "embed"
  <2>1. CreateVectors(w)
    BY <1>1, <1>4 DEF WorkerStep, BulkInsert, InsertFails, StorePoint, Revert, LookupTwin, SplitInsert,
                      SplitStore, SplitRevert, UpdateRow, UpdatePoint
  <2>2. \/ worker[w].msg.chunk \in Upserts /\ PushBack(w)
        \/ \E at \in {"store", "revert"} : GoTo(w, at) /\ UNCHANGED <<queue, dead>>
    BY <1>1, <2>1 DEF CreateVectors, Undo
  <2>3. ASSUME NEW at \in {"store", "revert"}, GoTo(w, at), UNCHANGED <<queue, dead>>
        PROVE  Owed(c)'
    <3>1. Goes(w, at) /\ Remains(w)
      BY <2>3, GoesTo DEF Points
    <3> QED
      BY <1>4, <3>1 DEF Owed, OwedBy, Goes, Remains, Storing
  <2> QED
    BY <1>2, <1>4, <2>2, <2>3, OwedAgain
<1>5. CASE worker[w].at = "store"
  <2>1. StorePoint(w)
    BY <1>5 DEF WorkerStep, BulkInsert, InsertFails, CreateVectors, Revert, LookupTwin, SplitInsert,
                SplitStore, SplitRevert, UpdateRow, UpdatePoint
  <2>2. worker[w].target = c /\ worker[w].msg.text = row[c]
    BY <1>5 DEF OwedBy
  <2>3. CASE point' = [point EXCEPT ![worker[w].target] = worker[w].msg.text]
    BY <2>2, <2>3 DEF IInv, StoreType
  <2>4. CASE worker[w].msg.chunk \in Upserts /\ PushBack(w)
    BY <1>2, <1>5, <2>4, OwedAgain
  <2>5. CASE GoTo(w, "revert") /\ UNCHANGED <<queue, dead>>
    <3>1. Goes(w, "revert") /\ Remains(w)
      BY <2>5, GoesTo DEF Points
    <3> QED
      BY <1>5, <3>1 DEF Owed, OwedBy, Goes, Remains, Storing
  <2> QED
    BY <2>1, <2>3, <2>4, <2>5 DEF StorePoint, Undo
<1>6. CASE worker[w].at = "revert"
  <2>1. row' = [row EXCEPT ![worker[w].target] = None]
    BY <1>1, <1>6 DEF WorkerStep, BulkInsert, InsertFails, CreateVectors, StorePoint, Revert,
                      LookupTwin, SplitInsert, SplitStore, SplitRevert, UpdateRow, UpdatePoint
  <2> QED
    BY <1>6, <2>1 DEF OwedBy, IInv, StoreType
<1>7. CASE worker[w].at = "updatePoint"
  <2>1. UpdatePoint(w)
    BY <1>7 DEF WorkerStep, BulkInsert, InsertFails, CreateVectors, StorePoint, Revert, LookupTwin,
                SplitInsert, SplitStore, SplitRevert, UpdateRow
  <2>2. worker[w].msg.chunk = c /\ worker[w].msg.text = row[c] /\ row[c] \in Updates
    BY <1>7 DEF OwedBy, Storing, IInv, Carry, MessageInv, SaneAt, Updating, Message
  <2>3. CASE point' = [point EXCEPT ![worker[w].msg.chunk] = worker[w].msg.text]
    BY <2>2, <2>3 DEF IInv, StoreType
  <2>4. CASE Failing("update")
    BY <2>2, <2>4 DEF Failing, Owed, OwedElse
  <2> QED
    BY <2>1, <2>3, <2>4 DEF UpdatePoint
<1> QED
  BY <1>3, <1>4, <1>5, <1>6, <1>7 DEF OwedBy, Storing

LEMMA OwedKept ==
  ASSUME IInv, TwinInv, [Next]_vars, Clean', NEW c \in Chunks, Owed(c),
         row'[c] = row[c], row[c] # None
  PROVE  Owed(c)' \/ point'[c] = row[c]
<1>1. seen \subseteq seen'
  BY StepCarries
<1>2. ASSUME NEW w \in Workers, WorkerStep(w), ~Take(w)
      PROVE  Owed(c)' \/ point'[c] = row[c]
  <2>1. CASE OwedBy(w, c)
    BY <1>2, <2>1, OwedPaid
  <2>2. CASE ~OwedBy(w, c)
    <3>1. /\ \A v \in Workers \ {w} : worker'[v] = worker[v]
          /\ dead \subseteq dead' /\ \A d \in Chunks : Waits(d) => Waits(d)'
      BY <1>2, Outcomes
    <3> QED
      BY <1>1, <2>2, <3>1, OwedStays
  <2> QED
    BY <2>1, <2>2
<1>3. \A w \in Workers : ~Crash(w)
  BY DEF Crash, Failing, Clean
<1>4. CASE \/ UNCHANGED vars
           \/ \E d \in Chunks : CreateChunk(d) \/ BeginDelete(d) \/ DeleteRow(d) \/ DeletePoint(d)
           \/ \E d \in Chunks, u \in Updates : UpdateChunk(d, u)
  <2>1. UNCHANGED <<worker, dead>> /\ \A d \in Chunks : Waits(d) => Waits(d)'
    BY <1>4, StutterCarries, CreateChunkCarries, UpdateChunkCarries, DeletionCarries
       DEF CreateChunk, UpdateChunk, vars
  <2> QED
    BY <1>1, <2>1, OwedStays
<1> QED
  BY <1>2, <1>3, <1>4, OwedTake DEF Next

--------------------------------------------------------------------------------
(* What is created can be searched.                                         *)

LEMMA SearchableStep ==
  ASSUME IInv, TwinInv, RemovedInv, SearchableInv, [Next]_vars
  PROVE  SearchableInv'
<1> SUFFICES ASSUME Clean', NEW c \in Chunks, row'[c] # None, row'[c] \notin SplitAvg,
                    deletion'[c] # "none" => ~Retried', point'[c] = None
             PROVE  Owed(c)'
  BY DEF SearchableInv
<1>1. Clean /\ (deletion[c] # "none" => ~Retried)
  BY StepCarries, DeletionMoves DEF Clean, Retried
<1>2. CASE row'[c] # row[c]
  BY <1>2, RowWritten
<1>3. CASE row'[c] = row[c]
  <2>1. ~DeletePoint(c)
    <3>1. DeletePoint(c) => deletion[c] = "unindex"
      BY DEF DeletePoint
    <3> QED
      BY <1>1, <1>3, <3>1 DEF RemovedInv
  <2>2. point[c] = None
    BY <2>1, PointWritten, IngestionAssumption
  <2>3. Owed(c)
    BY <1>1, <1>3, <2>2 DEF SearchableInv
  <2> QED
    BY <1>3, <2>3, OwedKept
<1> QED
  BY <1>2, <1>3

\* "Once a chunk is created, it can be searched": when everything is quiet,
\* a row without its point is one of the exceptions.  On the way there every
\* such row is owed its point by a worker, or by an upsert that is handled
\* again; that no two rows have one tracking id is what makes a second upsert
\* take the debt over.
THEOREM CreatedChunksAreSearchable == Spec => []CreatedIsSearchable
<1> DEFINE Inv == TwinInv /\ RemovedInv /\ SearchableInv
<1>1. Init => Inv
  BY DEF Init, TwinInv, RemovedInv, SearchableInv
<1>2. IInv /\ Inv /\ [Next]_vars => Inv'
  BY TwinStep, RemovedStep, SearchableStep
<1>3. IInv /\ Inv => CreatedIsSearchable
  <2> SUFFICES ASSUME IInv, SearchableInv, Quiet, Clean, NEW c \in Chunks,
                      row[c] # None, row[c] \notin KeptOnFailure \cup SplitAvg,
                      row[c] \in Updates => "update" \notin seen,
                      deletion[c] # "none" => ~Retried
               PROVE  ~Owed(c)
    BY DEF CreatedIsSearchable, SearchableInv
  <2>1. \A d : ~Waits(d)
    BY DEF Waits, Quiet
  <2>2. \A w \in Workers : ~OwedBy(w, c)
    BY DEF Quiet, OwedBy, Storing
  <2> QED
    BY <2>1, <2>2 DEF Owed, OwedElse, KeptOnFailure
<1> HIDE DEF Inv
<1> QED
  BY <1>1, <1>2, <1>3, InductiveInvariant, PTL DEF Spec

--------------------------------------------------------------------------------
(* With one worker no point is left without its row, and the stores agree:  *)
(* nobody changes the row a worker wrote before it writes the point.        *)

\* A step of the only worker that ends with it idle.
LEMMA IdleHasNothing ==
  ASSUME IInv, NEW w \in Workers, worker' = [worker EXCEPT ![w] = Idle]
  PROVE  worker'[w].at = "idle"
  BY DEF IInv, Carry, CarryType, Idle

LEMMA OrphanInsert ==
  ASSUME IInv, NEW w \in Workers, NEW d \in Chunks, NEW isNew \in BOOLEAN,
         NEW at \in {"embed", "splitStore"}, Inserted(w, d, isNew, at), UNCHANGED point,
         worker[w].msg.text \in Chunks,
         at = "embed" /\ isNew => point[d] = None
  PROVE  OrphanAt(w)' /\ row'[d] # None /\ \A c \in Chunks \ {d} : row'[c] = row[c]
<1>1. at \in Points /\ worker[w].msg.text \in Text /\ worker[w].msg.text # None
  BY IngestionAssumption DEF Points, Text
<1>2. /\ Goes(w, at) /\ worker'[w].target = d /\ worker'[w].fresh = isNew
      /\ row'[d] = worker[w].msg.text /\ \A c \in Chunks \ {d} : row'[c] = row[c]
  BY <1>1, InsertedGoes
<1> QED
  BY <1>1, <1>2 DEF OrphanAt, Goes, Storing, SplitStoring

LEMMA OrphanGoes ==
  ASSUME IInv, NEW w \in Workers, NEW at \in {"store", "revert", "splitRevert"}, GoTo(w, at),
         UNCHANGED <<stores, queue, dead>>, OrphanAt(w),
         worker[w].at \in {"embed", "store", "splitStore"},
         at # "splitRevert" => worker[w].at # "splitStore"
  PROVE  OrphanAt(w)'
<1>1. Goes(w, at) /\ Remains(w)
  BY GoesTo DEF Points
<1> QED
  BY <1>1 DEF OrphanAt, Goes, Remains, Storing, SplitStoring, stores

LEMMA OrphanStep ==
  ASSUME OneWorker, IInv, OrphanInv, [Next]_vars
  PROVE  OrphanInv'
<1> DEFINE Guarded  == \A c \in Chunks : deletion[c] = "none" /\ (point[c] # None => row[c] # None)
           Safe(w) == Guarded' /\ OrphanAt(w)'
<1> SUFFICES ASSUME Deletable = {}, "qdrant" \in seen' => Upserts \cap SplitAvg = {}
             PROVE  Guarded' /\ \A w \in Workers : OrphanAt(w)'
  BY DEF OrphanInv
<1>1. Guarded /\ \A w \in Workers : OrphanAt(w)
  BY StepCarries DEF OrphanInv
<1>2. /\ row \in [Chunks -> Text \cup {None}] /\ point \in [Chunks -> Text \cup {None}]
      /\ worker \in [Workers -> WorkerState] /\ seen \subseteq seen'
  BY StepCarries DEF IInv, StoreType, Carry, CarryType
<1>3. \A w, v \in Workers : v = w
  BY DEF OneWorker
<1>4. CASE UNCHANGED <<stores, worker, deletion>>
  BY <1>1, <1>4 DEF OrphanAt, stores
<1>5. ASSUME NEW w \in Workers, worker'[w].at = "idle", UNCHANGED <<stores, deletion>>
      PROVE  Safe(w)
  BY <1>1, <1>5 DEF OrphanAt, Storing, SplitStoring, stores
<1>6. ASSUME NEW w \in Workers, Finish(w) \/ PushBack(w) PROVE worker'[w].at = "idle"
  BY <1>6, IdleHasNothing DEF Finish, PushBack
<1>7. ASSUME NEW w \in Workers, Take(w) PROVE Safe(w)
  <2>1. worker'[w].at \in {"updateRow", "lookup", "insert"} /\ UNCHANGED <<stores, deletion>>
    BY <1>7, TakeCarries
  <2> QED
    BY <1>1, <2>1 DEF OrphanAt, Storing, SplitStoring, stores
<1>8. ASSUME NEW w \in Workers, BulkInsert(w) PROVE Safe(w)
  <2> DEFINE e == worker[w].msg.chunk
  <2>1. worker[w].at = "insert" /\ UNCHANGED <<point, deletion>>
    BY <1>8 DEF BulkInsert, requests
  <2>2. e \in Chunks /\ worker[w].msg.text \in Chunks
    BY <2>1, InHand DEF Updating
  <2>3. CASE Finish(w) /\ UNCHANGED row
    BY <1>5, <1>6, <2>1, <2>3 DEF stores
  <2>4. ASSUME NEW d \in Chunks, NEW isNew \in BOOLEAN, Inserted(w, d, isNew, "embed"),
               isNew => row[d] = None
        PROVE  Safe(w)
    <3>1. isNew => point[d] = None
      BY <1>1, <2>4
    <3>2. OrphanAt(w)' /\ row'[d] # None /\ \A c \in Chunks \ {d} : row'[c] = row[c]
      BY <2>1, <2>2, <2>4, <3>1, OrphanInsert
    <3> QED
      BY <1>1, <2>1, <3>2
  <2>5. e \in Upserts /\ Twins(e) = {} => row[e] = None
    BY <2>2, IngestionAssumption DEF Twins
  <2>6. \/ Finish(w) /\ UNCHANGED row
        \/ Inserted(w, e, TRUE, "embed") /\ row[e] = None
        \/ \E d \in Twins(e) : Inserted(w, d, FALSE, "embed")
    BY <1>8, <2>5 DEF BulkInsert
  <2>7. \A d \in Twins(e) : d \in Chunks
    BY DEF Twins
  <2> QED
    BY <2>2, <2>3, <2>4, <2>6, <2>7
<1>9. ASSUME NEW w \in Workers, InsertFails(w) PROVE Safe(w)
  BY <1>5, <1>6, <1>9 DEF InsertFails, requests
<1>10. ASSUME NEW w \in Workers, CreateVectors(w) PROVE Safe(w)
  <2>1. worker[w].at = "embed" /\ UNCHANGED <<stores, deletion>>
    BY <1>10 DEF CreateVectors, requests
  <2>2. \/ PushBack(w)
        \/ \E at \in {"store", "revert"} : GoTo(w, at) /\ UNCHANGED <<queue, dead>>
    BY <1>10 DEF CreateVectors, Undo
  <2>3. ASSUME NEW at \in {"store", "revert"}, GoTo(w, at), UNCHANGED <<queue, dead>>
        PROVE  Safe(w)
    BY <1>1, <2>1, <2>3, OrphanGoes DEF stores
  <2> QED
    BY <1>5, <1>6, <2>1, <2>2, <2>3
<1>11. ASSUME NEW w \in Workers, StorePoint(w) PROVE Safe(w)
  <2>1. worker[w].at = "store" /\ UNCHANGED <<row, deletion>>
    BY <1>11 DEF StorePoint, requests
  <2>2. CASE Finish(w) /\ point' = [point EXCEPT ![worker[w].target] = worker[w].msg.text]
    <3>1. worker'[w].at = "idle" /\ row[worker[w].target] # None
      BY <1>1, <1>6, <2>1, <2>2 DEF OrphanAt, Storing
    <3>2. Guarded'
      BY <1>1, <1>2, <2>1, <2>2, <3>1
    <3> QED
      BY <3>1, <3>2 DEF OrphanAt, Storing, SplitStoring
  <2>3. CASE PushBack(w) /\ UNCHANGED point
    BY <1>5, <1>6, <2>1, <2>3 DEF stores
  <2>4. CASE GoTo(w, "revert") /\ UNCHANGED <<queue, dead, point>>
    BY <1>1, <2>1, <2>4, OrphanGoes DEF stores
  <2> QED
    BY <1>11, <2>2, <2>3, <2>4 DEF StorePoint, Undo
<1>12. ASSUME NEW w \in Workers, Revert(w) PROVE Safe(w)
  <2>1. worker[w].at = "revert" /\ UNCHANGED <<point, deletion>> /\ worker'[w].at = "idle"
        /\ (row' = row \/ row' = [row EXCEPT ![worker[w].target] = None])
    BY <1>6, <1>12 DEF Revert, requests
  <2>2. worker[w].fresh /\ worker[w].target \in Chunks
    BY <2>1 DEF IInv, Carry, HandInv, HandAt, Storing
  <2>3. point[worker[w].target] = None
    BY <1>1, <2>1, <2>2 DEF OrphanAt, Storing
  <2>4. Guarded'
    BY <1>1, <1>2, <2>1, <2>3
  <2> QED
    BY <2>1, <2>4 DEF OrphanAt, Storing, SplitStoring
<1>13. ASSUME NEW w \in Workers, LookupTwin(w) PROVE Safe(w)
  <2>1. UNCHANGED <<stores, deletion>> /\ worker'[w].at \in {"idle", "splitInsert"}
    BY <1>6, <1>13, LookupTwinCarries DEF LookupTwin, requests, Goes
  <2> QED
    BY <1>1, <2>1 DEF OrphanAt, Storing, SplitStoring, stores
<1>14. ASSUME NEW w \in Workers, SplitInsert(w) PROVE Safe(w)
  <2>1. worker[w].at = "splitInsert" /\ UNCHANGED <<point, deletion>>
    BY <1>14 DEF SplitInsert, requests
  <2>2. worker[w].msg.chunk \in Chunks /\ worker[w].msg.text \in Chunks
        /\ worker[w].target \in Chunks \cup {None}
    BY <1>2, <2>1, InHand DEF Updating, WorkerState
  <2>3. \/ Finish(w) /\ UNCHANGED row
        \/ \E d \in Chunks : \E isNew \in BOOLEAN : Inserted(w, d, isNew, "splitStore")
    BY <1>14, <2>2 DEF SplitInsert
  <2>4. ASSUME NEW d \in Chunks, NEW isNew \in BOOLEAN, Inserted(w, d, isNew, "splitStore")
        PROVE  Safe(w)
    <3>1. OrphanAt(w)' /\ row'[d] # None /\ \A c \in Chunks \ {d} : row'[c] = row[c]
      BY <2>1, <2>2, <2>4, OrphanInsert
    <3> QED
      BY <1>1, <2>1, <3>1
  <2> QED
    BY <1>5, <1>6, <2>1, <2>3, <2>4 DEF stores
<1>15. ASSUME NEW w \in Workers, SplitStore(w) PROVE Safe(w)
  <2>1. worker[w].at = "splitStore" /\ UNCHANGED <<row, deletion>>
    BY <1>15 DEF SplitStore, requests
  <2>2. CASE Finish(w) /\ point' = [point EXCEPT ![worker[w].target] = worker[w].msg.text]
    <3>1. worker'[w].at = "idle" /\ row[worker[w].target] # None
      BY <1>1, <1>6, <2>1, <2>2 DEF OrphanAt, SplitStoring
    <3>2. Guarded'
      BY <1>1, <1>2, <2>1, <2>2, <3>1
    <3> QED
      BY <3>1, <3>2 DEF OrphanAt, Storing, SplitStoring
  <2>3. CASE Finish(w) /\ UNCHANGED point
    BY <1>5, <1>6, <2>1, <2>3 DEF stores
  <2>4. CASE GoTo(w, "splitRevert") /\ UNCHANGED <<queue, dead, point>>
    BY <1>1, <2>1, <2>4, OrphanGoes DEF stores
  <2> QED
    BY <1>15, <2>2, <2>3, <2>4 DEF SplitStore
<1>16. ASSUME NEW w \in Workers, SplitRevert(w) PROVE FALSE
  <2>1. HandAt(w) /\ SaneAt(w) /\ worker[w].at = "splitRevert"
    BY <1>16 DEF SplitRevert, IInv, Carry, HandInv, MessageInv
  <2> QED
    BY <1>2, <2>1 DEF HandAt, SplitStoring
<1>17. ASSUME NEW w \in Workers, UpdateRow(w) PROVE Safe(w)
  <2>1. worker[w].at = "updateRow" /\ UNCHANGED <<point, deletion>>
    BY <1>17 DEF UpdateRow, requests
  <2>2. CASE Finish(w) /\ UNCHANGED row
    BY <1>5, <1>6, <2>1, <2>2 DEF stores
  <2>3. CASE /\ row' = [row EXCEPT ![worker[w].msg.chunk] = worker[w].msg.text]
             /\ GoTo(w, "updatePoint") /\ UNCHANGED <<queue, dead>>
    <3>1. Goes(w, "updatePoint")
      BY <2>3, GoesTo DEF Points
    <3>2. worker[w].msg.chunk \in Chunks /\ worker[w].msg.text \in Updates
      BY <2>1 DEF IInv, Carry, MessageInv, SaneAt, Updating, Message
    <3>3. worker[w].msg.text # None
      BY <3>2, IngestionAssumption
    <3>4. Guarded'
      BY <1>1, <1>2, <2>1, <2>3, <3>3
    <3> QED
      BY <1>2, <2>3, <3>1, <3>2, <3>3, <3>4 DEF OrphanAt, Goes, Storing, SplitStoring
  <2> QED
    BY <1>17, <2>2, <2>3 DEF UpdateRow
<1>18. ASSUME NEW w \in Workers, UpdatePoint(w) PROVE Safe(w)
  <2>1. /\ worker[w].at = "updatePoint" /\ UNCHANGED <<row, deletion>> /\ worker'[w].at = "idle"
        /\ \/ UNCHANGED point
           \/ point' = [point EXCEPT ![worker[w].msg.chunk] = worker[w].msg.text]
    BY <1>6, <1>18 DEF UpdatePoint, requests
  <2>2. row[worker[w].msg.chunk] # None
    BY <1>1, <2>1 DEF OrphanAt
  <2>3. Guarded'
    BY <1>1, <1>2, <2>1, <2>2
  <2> QED
    BY <2>1, <2>3 DEF OrphanAt, Storing, SplitStoring
<1>19. ASSUME NEW w \in Workers, Crash(w) PROVE Safe(w)
  BY <1>5, <1>6, <1>19 DEF Crash, requests
<1>20. ASSUME NEW d \in Chunks, BeginDelete(d) \/ DeleteRow(d) \/ DeletePoint(d) PROVE FALSE
  BY <1>1, <1>20 DEF BeginDelete, DeleteRow, DeletePoint
<1>21. \/ UNCHANGED <<stores, worker, deletion>>
       \/ \E w \in Workers : WorkerStep(w) \/ Crash(w)
  BY <1>20 DEF Next, CreateChunk, UpdateChunk, vars, requests
<1>22. ASSUME NEW w \in Workers, WorkerStep(w) \/ Crash(w) PROVE Safe(w)
  BY <1>7, <1>8, <1>9, <1>10, <1>11, <1>12, <1>13, <1>14, <1>15, <1>16, <1>17, <1>18, <1>19, <1>22
     DEF WorkerStep
<1> HIDE DEF Guarded
<1> QED
  BY <1>3, <1>4, <1>21, <1>22

\* No search result points at a chunk without a row, as long as nothing is
\* deleted, no revert hits a split_avg upsert, and one worker runs: a second
\* one may upsert the row that the first is about to revert.
THEOREM NoPointIsOrphan == OneWorker => (Spec => []NoOrphanPoints)
<1> SUFFICES ASSUME OneWorker PROVE Spec => []NoOrphanPoints
  OBVIOUS
<1>1. Init => OrphanInv
  BY DEF Init, OrphanInv, OrphanAt, Idle, Storing, SplitStoring
<1>2. IInv /\ OrphanInv /\ [Next]_vars => OrphanInv'
  BY OrphanStep
<1>3. OrphanInv => NoOrphanPoints
  BY DEF OrphanInv, NoOrphanPoints
<1> QED
  BY <1>1, <1>2, <1>3, InductiveInvariant, PTL DEF Spec

\* A worker aims at a row it found or made.
LEMMA TargetSet ==
  ASSUME IInv, [Next]_vars, NEW w \in Workers, NEW c \in Chunks,
         worker'[w].target = c, worker[w].target # c
  PROVE  row[c] # None \/ row'[c] # None
<1>1. worker \in [Workers -> WorkerState] /\ Idle.target = None /\ c # None
  BY IngestionAssumption DEF IInv, Carry, CarryType, Idle
<1>2. ASSUME NEW v \in Workers, WorkerStep(v) \/ Crash(v), v # w PROVE FALSE
  BY <1>1, <1>2, Outcomes, TakeCarries
<1>3. CASE Take(w)
  BY <1>1, <1>3, TakeCarries
<1>4. ASSUME Finish(w) \/ PushBack(w) PROVE FALSE
  BY <1>1, <1>4 DEF Finish, PushBack
<1>5. ASSUME NEW at \in Points, GoTo(w, at) PROVE FALSE
  BY <1>1, <1>5 DEF GoTo
<1>6. CASE BulkInsert(w) \/ SplitInsert(w)
  <2>1. worker[w].at \in {"insert", "splitInsert"}
    BY <1>6 DEF BulkInsert, SplitInsert
  <2>2. /\ worker[w].msg.chunk \in Chunks /\ worker[w].msg.text \in Text
        /\ worker[w].msg.text # None /\ worker[w].target \in Chunks \cup {None}
    BY <1>1, <2>1, InHand, IngestionAssumption DEF Updating, WorkerState
  <2>3. \E d \in Chunks : \E isNew \in BOOLEAN : \E at \in {"embed", "splitStore"} :
          Inserted(w, d, isNew, at)
    BY <1>4, <1>6, <2>2 DEF BulkInsert, SplitInsert, Twins
  <2>4. {"embed", "splitStore"} \subseteq Points
    BY DEF Points
  <2> QED
    BY <2>2, <2>3, <2>4, InsertedGoes
<1>7. CASE LookupTwin(w)
  <2>1. PICK d \in Twins(worker[w].msg.chunk) :
          worker' = [worker EXCEPT ![w].at = "splitInsert", ![w].target = d]
    BY <1>4, <1>5, <1>7 DEF LookupTwin, Points
  <2> QED
    BY <1>1, <2>1 DEF Twins
<1>8. CASE \/ InsertFails(w) \/ CreateVectors(w) \/ StorePoint(w) \/ Revert(w) \/ SplitStore(w)
           \/ SplitRevert(w) \/ UpdateRow(w) \/ UpdatePoint(w) \/ Crash(w)
  <2>1. {"store", "revert", "splitRevert", "updatePoint"} \subseteq Points
    BY DEF Points
  <2>2. \/ Finish(w) \/ PushBack(w)
        \/ \E at \in {"store", "revert", "splitRevert", "updatePoint"} : GoTo(w, at)
    BY <1>8 DEF InsertFails, CreateVectors, StorePoint, Revert, SplitStore, SplitRevert, UpdateRow,
                UpdatePoint, Crash, Undo
  <2> QED
    BY <1>4, <1>5, <2>1, <2>2
<1>9. \E v \in Workers : WorkerStep(v) \/ Crash(v)
  BY DEF Next, CreateChunk, UpdateChunk, BeginDelete, DeleteRow, DeletePoint, vars
<1> QED
  BY <1>2, <1>3, <1>6, <1>7, <1>8, <1>9 DEF WorkerStep

\* An update goes on to the point of a row it found.
LEMMA UpdateFindsRow ==
  ASSUME IInv, [Next]_vars, NEW w \in Workers,
         worker'[w].at = "updatePoint", worker[w].at # "updatePoint"
  PROVE  row[worker'[w].msg.chunk] # None
<1>1. worker \in [Workers -> WorkerState] /\ Idle.at = "idle"
  BY DEF IInv, Carry, CarryType, Idle
<1>2. ASSUME NEW v \in Workers, WorkerStep(v) \/ Crash(v), v # w PROVE FALSE
  BY <1>1, <1>2, Outcomes, TakeCarries
<1>3. ASSUME Finish(w) \/ PushBack(w) PROVE FALSE
  BY <1>1, <1>3 DEF Finish, PushBack
<1>4. ASSUME NEW at, at # "updatePoint", GoTo(w, at) PROVE FALSE
  BY <1>1, <1>4 DEF GoTo
<1>5. ASSUME NEW d, NEW isNew, NEW at, at # "updatePoint", Inserted(w, d, isNew, at) PROVE FALSE
  BY <1>1, <1>5 DEF Inserted
<1>6. ~Take(w)
  BY TakeCarries
<1>7. ~LookupTwin(w)
  BY <1>3, LookupTwinCarries DEF Goes
<1>8. CASE UpdateRow(w)
  <2>1. /\ row[worker[w].msg.chunk] # None
        /\ worker' = [worker EXCEPT ![w].at = "updatePoint"]
    BY <1>3, <1>8 DEF UpdateRow, GoTo
  <2> QED
    BY <1>1, <2>1
<1>9. CASE \/ BulkInsert(w) \/ InsertFails(w) \/ CreateVectors(w) \/ StorePoint(w) \/ Revert(w)
           \/ SplitInsert(w) \/ SplitStore(w) \/ SplitRevert(w) \/ UpdatePoint(w) \/ Crash(w)
  BY <1>3, <1>4, <1>5, <1>9
     DEF BulkInsert, InsertFails, CreateVectors, StorePoint, Revert, SplitInsert, SplitStore,
         SplitRevert, UpdatePoint, Crash, Undo
<1>10. \E v \in Workers : WorkerStep(v) \/ Crash(v)
  BY DEF Next, CreateChunk, UpdateChunk, BeginDelete, DeleteRow, DeletePoint, vars
<1> QED
  BY <1>2, <1>6, <1>7, <1>8, <1>9, <1>10 DEF WorkerStep

LEMMA SplitStep ==
  ASSUME IInv, SplitInv, [Next]_vars
  PROVE  SplitInv'
<1> SUFFICES ASSUME NEW c \in SplitAvg, Pending(c)'
             PROVE  /\ row'[c] = None /\ point'[c] = None
                    /\ \A w \in Workers :
                         /\ worker'[w].target # c
                         /\ ~(worker'[w].at = "updatePoint" /\ worker'[w].msg.chunk = c)
  BY DEF SplitInv
<1>1. c \in Chunks /\ Pending(c)
  BY PendingFalls, IngestionAssumption
<1>2. /\ row[c] = None /\ point[c] = None
      /\ \A w \in Workers :
           /\ worker[w].target # c
           /\ ~(worker[w].at = "updatePoint" /\ worker[w].msg.chunk = c)
  BY <1>1 DEF SplitInv
<1>3. row'[c] = None
  BY <1>1, <1>2, RiseNotPending
<1>4. point'[c] = None
  BY <1>1, <1>2, PointWritten
<1>5. ASSUME NEW w \in Workers PROVE worker'[w].target # c
  BY <1>1, <1>2, <1>3, TargetSet
<1>6. ASSUME NEW w \in Workers, worker'[w].at = "updatePoint", worker'[w].msg.chunk = c PROVE FALSE
  <2>1. worker[w].at = "updatePoint" => worker'[w] = worker[w]
    <3>1. ASSUME worker[w].at = "updatePoint", NEW v \in Workers, WorkerStep(v) \/ Crash(v)
          PROVE  worker'[w] = worker[w]
      <4>1. CASE v # w
        BY <3>1, <4>1, Outcomes, TakeCarries
      <4>2. CASE v = w
        <5>1. UpdatePoint(w) \/ Crash(w)
          BY <3>1, <4>2
             DEF WorkerStep, Take, BulkInsert, InsertFails, CreateVectors, StorePoint, Revert,
                 LookupTwin, SplitInsert, SplitStore, SplitRevert, UpdateRow
        <5>2. worker'[w].at = "idle"
          BY <5>1, IdleHasNothing DEF UpdatePoint, Crash, Finish
        <5> QED
          BY <1>6, <5>2
      <4> QED
        BY <4>1, <4>2
    <3> QED
      BY <3>1 DEF Next, CreateChunk, UpdateChunk, BeginDelete, DeleteRow, DeletePoint, vars
  <2> QED
    BY <1>2, <1>6, <2>1, UpdateFindsRow
<1> QED
  BY <1>3, <1>4, <1>5, <1>6

\* What a worker is about to write is what it wrote: with one worker only a
\* delete comes in between.
LEMMA AgreeAtStep ==
  ASSUME OneWorker, IInv, SplitInv, [Next]_vars, NEW w \in Workers, AgreeAt(w)
  PROVE  AgreeAt(w)'
<1>1. /\ row \in [Chunks -> Text \cup {None}] /\ point \in [Chunks -> Text \cup {None}]
      /\ worker \in [Workers -> WorkerState] /\ \A v \in Workers : v = w
  BY DEF IInv, StoreType, Carry, CarryType, OneWorker
<1>2. ASSUME worker'[w].at \in {"idle", "updateRow", "lookup", "insert", "splitInsert"}
      PROVE  AgreeAt(w)'
  BY <1>2 DEF AgreeAt, Storing, SplitStoring
<1>3. ASSUME Finish(w) \/ PushBack(w) PROVE AgreeAt(w)'
  BY <1>2, <1>3, IdleHasNothing DEF Finish, PushBack
<1>4. CASE worker' = worker
  <2>1. /\ \A c \in Chunks : row'[c] \in {None, row[c]} /\ point'[c] \in {None, point[c]}
        /\ worker[w].at \in Storing \cup SplitStoring => worker[w].target \in Chunks
        /\ worker[w].at = "updatePoint" => worker[w].msg.chunk \in Chunks
    <3>1. ASSUME NEW v \in Workers, WorkerStep(v) \/ Crash(v) PROVE UNCHANGED stores
      <4>1. v = w
        BY <1>1
      <4>2. Take(w) \/ (\E at \in Points : Goes(w, at)) \/ Finish(w) \/ PushBack(w)
        BY <3>1, <4>1, Outcomes
      <4>3. ASSUME NEW at, worker[w].at # at, GoTo(w, at) PROVE FALSE
        BY <1>1, <1>4, <4>3 DEF GoTo
      <4>4. ASSUME NEW d, NEW isNew, NEW at, worker[w].at # at, Inserted(w, d, isNew, at) PROVE FALSE
        BY <1>1, <1>4, <4>4 DEF Inserted
      <4>5. ASSUME worker[w].at # "idle", worker' = [worker EXCEPT ![w] = Idle] PROVE FALSE
        BY <1>4, <4>5, IdleHasNothing
      <4> QED
        BY <3>1, <4>1, <4>3, <4>4, <4>5
           DEF WorkerStep, Take, BulkInsert, InsertFails, CreateVectors, StorePoint, Revert,
               LookupTwin, SplitInsert, SplitStore, SplitRevert, UpdateRow, UpdatePoint, Crash,
               Undo, Finish, PushBack, stores
    <3>2. ASSUME NEW d \in Chunks, DeleteRow(d) \/ DeletePoint(d)
          PROVE  \A c \in Chunks : row'[c] \in {None, row[c]} /\ point'[c] \in {None, point[c]}
      BY <1>1, <3>2 DEF DeleteRow, DeletePoint
    <3>3. \/ UNCHANGED stores \/ \E d \in Chunks : DeleteRow(d) \/ DeletePoint(d)
      BY <3>1 DEF Next, CreateChunk, UpdateChunk, BeginDelete, vars
    <3>4. HandAt(w) /\ SaneAt(w)
      BY DEF IInv, Carry, HandInv, MessageInv
    <3> QED
      BY <3>2, <3>3, <3>4 DEF HandAt, SaneAt, Updating, Message, stores
  <2> QED
    BY <1>4, <2>1 DEF AgreeAt, Storing, SplitStoring
<1>5. ASSUME NEW at \in {"store", "revert", "splitRevert"}, GoTo(w, at), UNCHANGED <<stores, queue, dead>>,
             worker[w].at \in Storing \cup SplitStoring
      PROVE  AgreeAt(w)'
  <2>1. Goes(w, at) /\ Remains(w)
    BY <1>5, GoesTo DEF Points
  <2> QED
    BY <1>5, <2>1 DEF AgreeAt, Goes, Remains, Storing, SplitStoring, stores
<1>6. CASE Take(w)
  BY <1>2, <1>6, TakeCarries
<1>7. CASE BulkInsert(w)
  <2>1. worker[w].at = "insert"
    BY <1>7 DEF BulkInsert
  <2>2. /\ worker[w].msg.chunk \in Chunks /\ worker[w].msg.text \in Text
        /\ Finish(w) \/ \E d \in Chunks : \E isNew \in BOOLEAN : Inserted(w, d, isNew, "embed")
    BY <1>7, <2>1, InHand DEF BulkInsert, Twins, Updating
  <2>3. ASSUME NEW d \in Chunks, NEW isNew \in BOOLEAN, Inserted(w, d, isNew, "embed")
        PROVE  AgreeAt(w)'
    <3>1. Goes(w, "embed") /\ worker'[w].target = d /\ row'[d] = worker[w].msg.text
      BY <2>2, <2>3, InsertedGoes DEF Points
    <3> QED
      BY <3>1 DEF AgreeAt, Goes
  <2> QED
    BY <1>3, <2>2, <2>3
<1>8. CASE SplitInsert(w)
  <2> DEFINE e == worker[w].msg.chunk
  <2>1. worker[w].at = "splitInsert" /\ UNCHANGED point
    BY <1>8 DEF SplitInsert
  <2>2. /\ e \in Chunks /\ worker[w].msg.text \in Text /\ Holds(w, e)
        /\ worker[w].target \in Chunks \cup {None} /\ HandAt(w)
    BY <1>1, <2>1, InHand DEF Updating, WorkerState
  <2>3. e \notin Upserts => worker[w].target = None /\ point[e] = None
    <3>1. e \in SplitAvg /\ (e \notin Upserts => worker[w].target = None)
      BY <2>1, <2>2 DEF HandAt
    <3>2. Pending(e)
      BY <2>1, <2>2 DEF Pending, Inserting
    <3> QED
      BY <3>1, <3>2 DEF SplitInv
  <2>4. \/ Finish(w)
        \/ \E d \in Chunks : \E isNew \in BOOLEAN :
             Inserted(w, d, isNew, "splitStore") /\ (e \notin Upserts => d = e)
    BY <1>8, <2>2, <2>3 DEF SplitInsert
  <2>5. ASSUME NEW d \in Chunks, NEW isNew \in BOOLEAN, Inserted(w, d, isNew, "splitStore"),
               e \notin Upserts => d = e
        PROVE  AgreeAt(w)'
    <3>1. Goes(w, "splitStore") /\ worker'[w].target = d /\ row'[d] = worker[w].msg.text
      BY <2>2, <2>5, InsertedGoes DEF Points
    <3> QED
      BY <2>1, <2>3, <2>5, <3>1 DEF AgreeAt, Goes
  <2> QED
    BY <1>3, <2>4, <2>5
<1>9. CASE CreateVectors(w) \/ StorePoint(w) \/ SplitStore(w)
  <2>1. worker[w].at \in Storing \cup SplitStoring
    BY <1>9 DEF CreateVectors, StorePoint, SplitStore, Storing, SplitStoring
  <2>2. \/ Finish(w) \/ PushBack(w)
        \/ \E at \in {"store", "revert", "splitRevert"} :
             GoTo(w, at) /\ UNCHANGED <<stores, queue, dead>>
    BY <1>9 DEF CreateVectors, StorePoint, SplitStore, Undo, stores
  <2> QED
    BY <1>3, <1>5, <2>1, <2>2
<1>10. CASE LookupTwin(w)
  BY <1>2, <1>3, <1>10, LookupTwinCarries DEF Goes
<1>11. CASE UpdateRow(w)
  <2>1. worker[w].at = "updateRow"
    BY <1>11 DEF UpdateRow
  <2>2. CASE /\ row' = [row EXCEPT ![worker[w].msg.chunk] = worker[w].msg.text]
             /\ GoTo(w, "updatePoint") /\ UNCHANGED <<queue, dead>>
    <3>1. Goes(w, "updatePoint")
      BY <2>2, GoesTo DEF Points
    <3>2. worker[w].msg.chunk \in Chunks
      BY <2>1 DEF IInv, Carry, MessageInv, SaneAt, Updating, Message
    <3> QED
      BY <1>1, <2>2, <3>1, <3>2 DEF AgreeAt, Goes, Storing, SplitStoring
  <2> QED
    BY <1>3, <1>11, <2>2 DEF UpdateRow
<1>12. CASE InsertFails(w) \/ Revert(w) \/ SplitRevert(w) \/ UpdatePoint(w) \/ Crash(w)
  BY <1>3, <1>12 DEF InsertFails, Revert, SplitRevert, UpdatePoint, Crash
<1>13. \/ worker' = worker
       \/ WorkerStep(w) \/ Crash(w)
  BY <1>1 DEF Next, CreateChunk, UpdateChunk, BeginDelete, DeleteRow, DeletePoint, vars
<1> QED
  BY <1>4, <1>6, <1>7, <1>8, <1>9, <1>10, <1>11, <1>12, <1>13 DEF WorkerStep

\* upload_chunk is about to write the point, or to delete the row again.
LEMMA SplitOwedKept ==
  ASSUME IInv, [Next]_vars, Clean', NEW c \in Chunks, NEW w \in Workers, AgreeAt(w),
         SplitOwedBy(w, c), row'[c] = row[c], row[c] # None, point'[c] # None
  PROVE  SplitOwedBy(w, c)' \/ point'[c] = row[c]
<1>1. /\ row \in [Chunks -> Text \cup {None}] /\ point \in [Chunks -> Text \cup {None}]
      /\ \A kind \in {"bookmarks", "build", "revert"} : ~Failing(kind) /\ ~Crash(w)
  BY DEF IInv, StoreType, Clean, Failing, Crash
<1>2. worker[w].at \in SplitStoring /\ worker[w].target = c /\ worker[w].msg.text = row[c]
  BY DEF SplitOwedBy
<1>3. CASE worker'[w] = worker[w]
  BY <1>2, <1>3 DEF SplitOwedBy
<1>4. ASSUME NEW v \in Workers, WorkerStep(v) \/ Crash(v), v # w PROVE worker'[w] = worker[w]
  BY <1>4, Outcomes, TakeCarries
<1>5. CASE SplitStore(w)
  <2>1. CASE point' = [point EXCEPT ![worker[w].target] = worker[w].msg.text]
    BY <1>1, <1>2, <2>1
  <2>2. CASE UNCHANGED point /\ worker[w].msg.chunk \notin Upserts
    <3>1. worker[w].at = "splitStore"
      BY <1>5 DEF SplitStore
    <3> QED
      BY <1>2, <2>2, <3>1 DEF AgreeAt
  <2>3. CASE GoTo(w, "splitRevert") /\ UNCHANGED <<queue, dead>>
    <3>1. Goes(w, "splitRevert") /\ Remains(w)
      BY <2>3, GoesTo DEF Points
    <3> QED
      BY <1>2, <3>1 DEF SplitOwedBy, Goes, Remains, SplitStoring
  <2> QED
    BY <1>1, <1>5, <2>1, <2>2, <2>3 DEF SplitStore
<1>6. ~SplitRevert(w)
  BY <1>1, <1>2 DEF SplitRevert
<1>7. ~(WorkerStep(w) /\ ~SplitStore(w) /\ ~SplitRevert(w))
  BY <1>2 DEF SplitStoring, WorkerStep, Take, BulkInsert, InsertFails, CreateVectors, StorePoint,
              Revert, LookupTwin, SplitInsert, UpdateRow, UpdatePoint
<1>8. \/ worker' = worker
      \/ \E v \in Workers : WorkerStep(v) \/ Crash(v)
  BY DEF Next, CreateChunk, UpdateChunk, BeginDelete, DeleteRow, DeletePoint, vars
<1> QED
  BY <1>1, <1>3, <1>4, <1>5, <1>6, <1>7, <1>8

LEMMA AgreeStep ==
  ASSUME OneWorker, IInv, TwinInv, SplitInv, AgreeInv, [Next]_vars
  PROVE  AgreeInv'
<1>1. \A w \in Workers : AgreeAt(w) /\ AgreeAt(w)'
  BY AgreeAtStep DEF AgreeInv
<1>2. ASSUME Clean', "update" \notin seen', NEW c \in Chunks, row'[c] # None, point'[c] # None
      PROVE  \/ row'[c] = point'[c]
             \/ Owed(c)'
             \/ \E w \in Workers : SplitOwedBy(w, c)'
  <2>1. CASE row'[c] # row[c]
    BY <1>2, <2>1, RowWritten
  <2>2. CASE row'[c] = row[c] /\ point'[c] # point[c]
    <3>1. \/ \E w \in Workers : /\ worker[w].at \in {"store", "splitStore"}
                                /\ worker[w].target = c /\ point'[c] = worker[w].msg.text
          \/ \E w \in Workers : /\ worker[w].at = "updatePoint"
                                /\ worker[w].msg.chunk = c /\ point'[c] = worker[w].msg.text
      BY <1>2, <2>2, PointWritten
    <3> QED
      BY <1>1, <1>2, <2>2, <3>1 DEF AgreeAt, Storing, SplitStoring
  <2>3. CASE row'[c] = row[c] /\ point'[c] = point[c]
    <3>1. Clean /\ "update" \notin seen
      BY <1>2, StepCarries DEF Clean
    <3>2. \/ row[c] = point[c]
          \/ Owed(c)
          \/ \E w \in Workers : SplitOwedBy(w, c)
      BY <1>2, <2>3, <3>1 DEF AgreeInv
    <3> QED
      BY <1>1, <1>2, <2>3, <3>2, OwedKept, SplitOwedKept
  <2> QED
    BY <2>1, <2>2, <2>3
<1> QED
  BY <1>1, <1>2 DEF AgreeInv

\* When everything is quiet and one worker runs, the row and the point of a
\* chunk hold the text of the same request, unless a failure that nothing
\* undoes came in between or the row's upload was given up.
THEOREM RowAndPointAgree == OneWorker => (Spec => []StoresAgree)
<1> SUFFICES ASSUME OneWorker PROVE Spec => []StoresAgree
  OBVIOUS
<1> DEFINE Inv == TwinInv /\ SplitInv /\ AgreeInv
<1>1. Init => Inv
  BY IngestionAssumption
     DEF Init, TwinInv, SplitInv, AgreeInv, AgreeAt, Idle, Storing, SplitStoring
<1>2. IInv /\ Inv /\ [Next]_vars => Inv'
  BY TwinStep, SplitStep, AgreeStep
<1>3. Inv => StoresAgree
  <2> SUFFICES ASSUME AgreeInv, Quiet, Clean, "update" \notin seen, NEW c \in Chunks,
                      row[c] # None, point[c] # None, row[c] \notin KeptOnFailure
               PROVE  row[c] = point[c]
    BY DEF StoresAgree
  <2>1. \A d : ~Waits(d)
    BY DEF Waits, Quiet
  <2>2. ~Owed(c)
    BY <2>1 DEF Quiet, Owed, OwedBy, OwedElse, KeptOnFailure, Storing
  <2>3. \A w \in Workers : ~SplitOwedBy(w, c)
    BY DEF Quiet, SplitOwedBy, SplitStoring
  <2> QED
    BY <2>2, <2>3 DEF AgreeInv
<1> HIDE DEF Inv
<1> QED
  BY <1>1, <1>2, <1>3, InductiveInvariant, PTL DEF Spec
================================================================================
