-------------------------- MODULE DatasetDeletionProofs --------------------------
(***************************************************************************)
(* Proofs about DatasetDeletion for any number of workers, datasets,       *)
(* chunks, batch sizes, requests and failures.                             *)
(***************************************************************************)
EXTENDS DatasetDeletion, FiniteSetTheorems, WellFoundedInduction, TLAPS

\* What a worker and the organization's handler hold is there.
HeldAt(w) ==
  /\ worker[w].at # "idle" => worker[w].msg \in Message
  /\ worker[w].at = "lookup" => worker[w].last = 0
  /\ worker[w].at = "points" => worker[w].batch # {}

HeldInv ==
  /\ \A w \in Workers : HeldAt(w)
  /\ org.at = "push" => org.now \in Datasets

\* A message covers the chunks of its dataset that were stored from the start.
Covering(m) == Loaded \cap ChunksOf(m.dataset) \subseteq m.covers

CoverInv ==
  /\ \A c \in Loaded : upload[c] = "done"
  /\ \A i \in 1 .. Len(queue) : Covering(queue[i])
  /\ \A w \in Workers : worker[w].at # "idle" => Covering(worker[w].msg)

\* A row is there only once it was inserted, with its point unless the
\* ingestion worker is about to store that; and the rows of a batch whose
\* points are about to be deleted are gone.
BatchAt(w) ==
  worker[w].at = "points" =>
    \A c \in worker[w].batch : upload[c] \in {"inserted", "done"} /\ c \notin row

RowInv ==
  /\ \A c \in row : upload[c] \in {"inserted", "done"} /\ (upload[c] = "done" => c \in point)
  /\ \A w \in Workers : BatchAt(w)

\* Up to which chunk a worker has removed the rows its message covers; a
\* chunk that the message covers but that is stored later may still appear.
Removed(w, c) ==
  \/ worker[w].at = "rows" /\ c <= worker[w].last
  \/ worker[w].at = "points" /\ \E b \in worker[w].batch : c <= b
  \/ worker[w].at \in {"drop", "analytics", "ack"}

SweptAt(w) ==
  worker[w].at # "idle" =>
    \A c \in worker[w].msg.covers \cap Loaded : Removed(w, c) => c \notin row

SweepInv ==
  /\ \A w \in Workers : SweptAt(w)
  /\ promised \cap Loaded \cap row = {}

\* A chunk without a row keeps its point only while a worker holds its batch.
Batched(c) == \E w \in Workers : worker[w].at = "points" /\ c \in worker[w].batch

PointInv == ~Halved => \A c \in Loaded \cap point : c \in row \/ Batched(c)

\* Nothing is left of a dataset, or of the organization, that is gone.
GoneInv ==
  /\ \A c \in row : dataset[Owner[c]] # "gone"
  /\ org.row = "gone" => \A d \in Datasets : dataset[d] = "gone"

IInv == TypeOK /\ HeldInv /\ CoverInv /\ RowInv /\ SweepInv /\ PointInv /\ GoneInv

--------------------------------------------------------------------------------
(* Batches.                                                                 *)

LEMMA ConstantTypes ==
  /\ MaxChunk \in Nat /\ BatchSize \in Nat /\ BatchSize > 0
  /\ MaxAttempts \in Nat /\ MaxAttempts > 0 /\ MaxFailures \in Nat
  /\ Owner \in [Chunks -> Datasets] /\ Loaded \subseteq Chunks
  /\ Chunks = 1 .. MaxChunk
BY DeletionAssumption DEF DeletionAssumption, Chunks

LEMMA ChunksAreFinite == \A S \in SUBSET Chunks : IsFiniteSet(S)
<1>1. IsFiniteSet(1 .. MaxChunk)
  BY ConstantTypes, FS_Interval
<1> QED
  BY <1>1, FS_Subset, ConstantTypes

LEMMA HasLeast ==
  ASSUME NEW S \in SUBSET Nat, S # {}
  PROVE  \E x \in S : \A y \in S : x <= y
<1> DEFINE Less == {p \in Nat \X Nat : p[1] < p[2]}
<1>1. OpToRel(<, Nat) = Less
  BY Zenon DEF OpToRel
<1>2. IsWellFoundedOn(Less, Nat)
  BY <1>1, NatLessThanWellFounded, Zenon
<1> HIDE DEF Less
<1>3. PICK x \in S : \A y \in S : ~(<<y, x>> \in Less)
  BY <1>2, WFMin, Zenon
<1>4. \A y \in S : x <= y
  <2> TAKE y \in S
  <2>1. ~(<<y, x>> \in Less)
    BY <1>3
  <2> QED
    BY <2>1 DEF Less
<1> QED
  BY <1>4

\* The last chunk of a batch is one of it, and none is beyond it.
LEMMA LastOfBatch ==
  ASSUME NEW S \in SUBSET Chunks, S # {}
  PROVE  Max(S) \in S /\ \A c \in S : c <= Max(S)
<1> DEFINE T == {MaxChunk - c : c \in S}
<1>1. T \in SUBSET Nat /\ T # {}
  <2>1. \A c \in S : MaxChunk - c \in Nat
    BY ConstantTypes
  <2> QED
    BY <2>1
<1>2. PICK t \in T : \A u \in T : t <= u
  BY <1>1, HasLeast
<1>3. PICK x \in S : t = MaxChunk - x
  BY <1>2
<1>4. \A y \in S : x >= y
  <2> TAKE y \in S
  <2>1. MaxChunk - y \in T
    OBVIOUS
  <2>2. MaxChunk - x <= MaxChunk - y
    BY <1>2, <1>3, <2>1
  <2> QED
    BY <2>2, ConstantTypes
<1>5. Max(S) \in S /\ \A y \in S : Max(S) >= y
  BY <1>4 DEF Max
<1> QED
  BY <1>5, ConstantTypes

\* A batch takes the chunks from the first one on, without a gap ...
LEMMA BatchHasNoGap ==
  ASSUME NEW S \in SUBSET Chunks, NEW b \in Batch(S), NEW c \in S, c <= b
  PROVE  c \in Batch(S)
<1> DEFINE Before(x) == {y \in S : y < x}
<1>1. b \in S /\ Cardinality(Before(b)) < BatchSize
  BY DEF Batch
<1>2. Before(c) \in SUBSET Before(b)
  <2>1. \A y \in S : y < c => y < b
    BY <1>1, ConstantTypes
  <2> QED
    BY <2>1
<1>3. IsFiniteSet(Before(b)) /\ IsFiniteSet(Before(c))
  BY ChunksAreFinite
<1>4. Cardinality(Before(c)) <= Cardinality(Before(b))
  BY <1>2, <1>3, FS_Subset
<1>5. Cardinality(Before(b)) \in Nat /\ Cardinality(Before(c)) \in Nat
  BY <1>3, FS_CardinalityType
<1>6. Cardinality(Before(c)) < BatchSize
  BY <1>1, <1>4, <1>5, ConstantTypes
<1> QED
  BY <1>6 DEF Batch

\* ... and there is one as long as there are chunks.
LEMMA BatchIsNotEmpty ==
  ASSUME NEW S \in SUBSET Chunks, S # {}
  PROVE  Batch(S) # {}
<1>1. S \in SUBSET Nat
  BY ConstantTypes
<1>2. PICK x \in S : \A y \in S : x <= y
  BY <1>1, HasLeast
<1>3. {y \in S : y < x} = {}
  <2>1. \A y \in S : ~(y < x)
    BY <1>1, <1>2
  <2> QED
    BY <2>1
<1>4. Cardinality({y \in S : y < x}) < BatchSize
  BY <1>3, FS_EmptySet, ConstantTypes
<1> QED
  BY <1>2, <1>4 DEF Batch

--------------------------------------------------------------------------------
(* How messages and workers move.                                           *)

Job == [at : {"idle", "lookup", "rows", "points", "drop", "analytics", "ack"},
        msg : Message \cup {None}, last : 0 .. MaxChunk, batch : SUBSET Chunks]

LEMMA IdleIsJob == Idle \in Job
BY ConstantTypes DEF Idle, Job

LEMMA Moves ==
  ASSUME TypeOK, NEW w \in Workers, NEW k \in Job, worker' = [worker EXCEPT ![w] = k]
  PROVE  /\ worker' \in [Workers -> Job]
         /\ worker'[w] = k
         /\ \A u \in Workers : u # w => worker'[u] = worker[u]
BY DEF TypeOK, Job

\* A message that is pushed back is the last of the queue or a dead letter.
LEMMA PushesBack ==
  ASSUME TypeOK, NEW w \in Workers, NEW m \in Message, PushBack(w, m)
  PROVE  /\ worker' = [worker EXCEPT ![w] = Idle]
         /\ queue' \in Seq(Message)
         /\ dead' \in SUBSET Message
         /\ Covering(m) /\ (\A i \in 1 .. Len(queue) : Covering(queue[i])) =>
              \A i \in 1 .. Len(queue') : Covering(queue'[i])
<1> DEFINE next == [m EXCEPT !.attempt = @ + 1]
<1>1. worker' = [worker EXCEPT ![w] = Idle]
  BY DEF PushBack
<1>2. queue \in Seq(Message) /\ dead \in SUBSET Message
  BY DEF TypeOK
<1>3. CASE m.attempt + 1 = MaxAttempts
  BY <1>1, <1>2, <1>3 DEF PushBack
<1>4. CASE m.attempt + 1 # MaxAttempts
  <2>1. next \in Message
    BY <1>4, ConstantTypes DEF Message
  <2>2. next.dataset = m.dataset /\ next.covers = m.covers
    BY DEF Message
  <2>3. Covering(m) => Covering(next)
    BY <2>2 DEF Covering
  <2>4. queue' = Append(queue, next) /\ dead' = dead
    BY <1>4 DEF PushBack
  <2> QED
    BY <1>1, <1>2, <2>1, <2>3, <2>4
<1> QED
  BY <1>3, <1>4

\* The message of a request covers what it is about.
LEMMA Pushes ==
  ASSUME TypeOK, CoverInv, NEW d \in Datasets, NEW clear \in BOOLEAN, Push(d, clear)
  PROVE  /\ queue' \in Seq(Message)
         /\ \A i \in 1 .. Len(queue') : Covering(queue'[i])
<1> DEFINE m == [dataset |-> d, clear |-> clear, covers |-> Created(d), attempt |-> 0]
<1>1. Created(d) \subseteq Chunks
  BY DEF Created, ChunksOf
<1>2. m \in Message
  BY <1>1, ConstantTypes DEF Message
<1>3. Covering(m)
  BY ConstantTypes DEF Covering, Created, CoverInv
<1>4. queue' = Append(queue, m) /\ queue \in Seq(Message)
  BY DEF Push, TypeOK
<1>5. \A i \in 1 .. Len(queue) : Covering(queue[i])
  BY DEF CoverInv
<1> QED
  BY <1>2, <1>3, <1>4, <1>5

LEMMA Fails ==
  ASSUME TypeOK, NEW kind, Failing(kind)
  PROVE  failed' \in 0 .. MaxFailures /\ seen' \in SUBSET Failures /\ seen' = seen \cup {kind}
BY ConstantTypes DEF TypeOK, Failing

\* What a busy worker holds.
LEMMA Busy ==
  ASSUME TypeOK, HeldInv, NEW w \in Workers, worker[w].at # "idle"
  PROVE  /\ worker[w] \in Job
         /\ worker[w].msg \in Message
         /\ worker[w].msg.dataset \in Datasets
         /\ worker[w].msg.covers \subseteq Chunks
         /\ worker[w].msg.clear \in BOOLEAN
<1>1. worker[w] \in Job
  BY DEF TypeOK, Job
<1>2. worker[w].msg \in Message
  BY DEF HeldInv, HeldAt
<1> QED
  BY <1>1, <1>2 DEF Message

\* Each step of a worker moves that worker alone.
LEMMA Takes ==
  ASSUME TypeOK, NEW w \in Workers, Take(w)
  PROVE  /\ worker' \in [Workers -> Job] /\ queue' \in Seq(Message)
         /\ Head(queue) \in Message
         /\ worker'[w] = [Idle EXCEPT !.at = "lookup", !.msg = Head(queue)]
         /\ \A u \in Workers : u # w => worker'[u] = worker[u]
         /\ \A i \in 1 .. Len(queue') : i + 1 \in 1 .. Len(queue) /\ queue'[i] = queue[i + 1]
         /\ 1 \in 1 .. Len(queue) /\ Head(queue) = queue[1]
<1>1. queue \in Seq(Message) /\ queue # << >>
  BY DEF TypeOK, Take
<1>2. Head(queue) \in Message /\ Tail(queue) \in Seq(Message)
  BY <1>1
<1> DEFINE k == [Idle EXCEPT !.at = "lookup", !.msg = Head(queue)]
<1>3. k \in Job
  BY <1>2, IdleIsJob DEF Idle, Job
<1>4. worker' = [worker EXCEPT ![w] = k] /\ queue' = Tail(queue)
  BY DEF Take
<1>5. /\ 1 \in 1 .. Len(queue) /\ Head(queue) = queue[1]
      /\ \A i \in 1 .. Len(Tail(queue)) : i + 1 \in 1 .. Len(queue) /\ Tail(queue)[i] = queue[i + 1]
  BY <1>1
<1> QED
  BY <1>2, <1>3, <1>4, <1>5, Moves

\* What every step of a worker does to the workers and to the lists.
Movement(w) ==
  /\ worker' \in [Workers -> Job]
  /\ \A u \in Workers : u # w => worker'[u] = worker[u]
  /\ queue' \in Seq(Message) /\ dead' \in SUBSET Message
  /\ \A i \in 1 .. Len(queue') : Covering(queue'[i])

\* Worker w goes on to at with what it has.
Reaches(w, at) ==
  /\ worker'[w].at = at
  /\ worker'[w].msg = worker[w].msg /\ worker'[w].last = worker[w].last
  /\ worker'[w].batch = worker[w].batch

LEMMA GoesOn ==
  ASSUME TypeOK, CoverInv, NEW w \in Workers, UNCHANGED <<queue, dead>>,
         NEW at \in {"rows", "points", "drop", "analytics", "ack"},
         worker' = [worker EXCEPT ![w].at = at]
  PROVE  Movement(w) /\ Reaches(w, at)
<1> DEFINE k == [worker[w] EXCEPT !.at = at]
<1>1. worker[w] \in Job
  BY DEF TypeOK, Job
<1>2. k \in Job /\ k.at = at /\ k.msg = worker[w].msg /\ k.last = worker[w].last /\ k.batch = worker[w].batch
  BY <1>1 DEF Job
<1>3. worker' = [worker EXCEPT ![w] = k]
  OBVIOUS
<1>4. /\ worker' \in [Workers -> Job] /\ worker'[w] = k
      /\ \A u \in Workers : u # w => worker'[u] = worker[u]
  <2> HIDE DEF k
  <2> QED
    BY <1>2, <1>3, Moves
<1>5. /\ queue' \in Seq(Message) /\ dead' \in SUBSET Message
      /\ \A i \in 1 .. Len(queue') : Covering(queue'[i])
  BY DEF TypeOK, CoverInv
<1> HIDE DEF k
<1> QED
  BY <1>2, <1>4, <1>5 DEF Movement, Reaches

LEMMA GivesUp ==
  ASSUME TypeOK, HeldInv, CoverInv, NEW w \in Workers, worker[w].at # "idle",
         \/ PushBack(w, worker[w].msg)
         \/ worker' = [worker EXCEPT ![w] = Idle] /\ UNCHANGED <<queue, dead>>
  PROVE  Movement(w) /\ worker'[w] = Idle
<1>1. worker' = [worker EXCEPT ![w] = Idle]
  BY DEF PushBack
<1>2. /\ worker' \in [Workers -> Job] /\ worker'[w] = Idle
      /\ \A u \in Workers : u # w => worker'[u] = worker[u]
  BY <1>1, IdleIsJob, Moves
<1>3. Covering(worker[w].msg) /\ \A i \in 1 .. Len(queue) : Covering(queue[i])
  BY DEF CoverInv
<1>4. /\ queue' \in Seq(Message) /\ dead' \in SUBSET Message
      /\ \A i \in 1 .. Len(queue') : Covering(queue'[i])
  <2>1. CASE PushBack(w, worker[w].msg)
    BY <2>1, <1>3, Busy, PushesBack
  <2>2. CASE UNCHANGED <<queue, dead>>
    BY <2>2, <1>3 DEF TypeOK
  <2> QED
    BY <2>1, <2>2
<1> QED
  BY <1>2, <1>4 DEF Movement

LEMMA StartsLookUp ==
  ASSUME TypeOK, CoverInv, NEW w \in Workers, Take(w)
  PROVE  /\ Movement(w)
         /\ worker'[w].at = "lookup" /\ worker'[w].last = 0
         /\ worker'[w].msg \in Message /\ Covering(worker'[w].msg)
<1>1. dead' \in SUBSET Message
  BY DEF TypeOK, Take
<1>2. \A i \in 1 .. Len(queue') : Covering(queue'[i])
  BY Takes DEF CoverInv
<1>3. Covering(Head(queue))
  BY Takes DEF CoverInv
<1>4. /\ worker'[w].at = "lookup" /\ worker'[w].last = 0 /\ worker'[w].msg = Head(queue)
  BY Takes DEF Idle
<1> QED
  BY <1>1, <1>2, <1>3, <1>4, Takes DEF Movement

LEMMA LooksUp ==
  ASSUME TypeOK, HeldInv, CoverInv, NEW w \in Workers, LookUp(w)
  PROVE  Movement(w) /\ (worker'[w] = Idle \/ Reaches(w, "rows"))
<1>1. worker[w].at # "idle"
  BY DEF LookUp
<1>2. \/ PushBack(w, worker[w].msg)
      \/ worker' = [worker EXCEPT ![w].at = "rows"] /\ UNCHANGED <<queue, dead>>
  BY DEF LookUp
<1> QED
  BY <1>1, <1>2, GivesUp, GoesOn

\* The chunks whose rows ClearRows deletes.
Chosen(w) == Batch({c \in row \cap worker[w].msg.covers : c > worker[w].last})

LEMMA ClearsRows ==
  ASSUME TypeOK, HeldInv, CoverInv, NEW w \in Workers, ClearRows(w)
  PROVE  /\ Movement(w)
         /\ row' = row \ Chosen(w) /\ Chosen(w) \subseteq row \cap worker[w].msg.covers
         /\ worker'[w].msg = worker[w].msg /\ worker'[w].last = worker[w].last
         /\ worker'[w].batch = Chosen(w)
         /\ worker'[w].at \in {"points", "ack", "drop"}
         /\ worker'[w].at = "points" <=> Chosen(w) # {}
<1>1. worker[w].at = "rows" /\ worker[w] \in Job
  BY Busy DEF ClearRows
<1>2. Chosen(w) \subseteq row \cap worker[w].msg.covers
  BY DEF Chosen, Batch
<1>3. Chosen(w) \in SUBSET Chunks
  BY <1>2 DEF TypeOK
<1> DEFINE at == IF Chosen(w) # {} THEN "points" ELSE IF worker[w].msg.clear THEN "ack" ELSE "drop"
           k  == [worker[w] EXCEPT !.batch = Chosen(w), !.at = at]
<1>4. at \in {"points", "ack", "drop"} /\ (at = "points" <=> Chosen(w) # {})
  OBVIOUS
<1>5. worker' = [worker EXCEPT ![w].batch = Chosen(w), ![w].at = at] /\ row' = row \ Chosen(w)
  BY DEF ClearRows, Chosen
<1> HIDE DEF at
<1>6. /\ k \in Job /\ k.at = at /\ k.msg = worker[w].msg /\ k.last = worker[w].last
      /\ k.batch = Chosen(w)
  BY <1>1, <1>3, <1>4 DEF Job
<1>7. worker' = [worker EXCEPT ![w] = k]
  BY <1>5 DEF TypeOK
<1> HIDE DEF k
<1>8. /\ worker' \in [Workers -> Job] /\ worker'[w] = k
      /\ \A u \in Workers : u # w => worker'[u] = worker[u]
  BY <1>6, <1>7, Moves
<1>9. /\ queue' \in Seq(Message) /\ dead' \in SUBSET Message
      /\ \A i \in 1 .. Len(queue') : Covering(queue'[i])
  BY DEF ClearRows, TypeOK, CoverInv
<1> QED
  BY <1>2, <1>4, <1>5, <1>6, <1>8, <1>9 DEF Movement

LEMMA ClearsPoints ==
  ASSUME TypeOK, HeldInv, CoverInv, NEW w \in Workers, ClearPoints(w)
  PROVE  /\ Movement(w)
         /\ \/ /\ point' = point \ worker[w].batch /\ seen' = seen
               /\ worker'[w].at = "rows" /\ worker'[w].msg = worker[w].msg
               /\ worker'[w].last = Max(worker[w].batch)
               /\ worker'[w].last \in worker[w].batch
               /\ \A c \in worker[w].batch : c <= worker'[w].last
            \/ worker'[w] = Idle /\ point' = point /\ seen' = seen \cup {"points"}
<1>1. worker[w].at = "points" /\ worker[w] \in Job /\ worker[w].batch # {}
  BY Busy DEF ClearPoints, HeldInv, HeldAt
<1>2. worker[w].batch \in SUBSET Chunks
  BY <1>1 DEF Job
<1>3. /\ Max(worker[w].batch) \in worker[w].batch
      /\ \A c \in worker[w].batch : c <= Max(worker[w].batch)
  BY <1>1, <1>2, LastOfBatch
<1>4. CASE Failing("points") /\ PushBack(w, worker[w].msg) /\ UNCHANGED point
  BY <1>1, <1>4, GivesUp, Fails
<1>5. CASE /\ point' = point \ worker[w].batch
           /\ worker' = [worker EXCEPT ![w].at = "rows", ![w].last = Max(worker[w].batch)]
           /\ UNCHANGED <<queue, dead, faults>>
  <2> DEFINE top == Max(worker[w].batch)
             k == [worker[w] EXCEPT !.at = "rows", !.last = top]
  <2>1. top \in 0 .. MaxChunk
    BY <1>2, <1>3, ConstantTypes
  <2> HIDE DEF top
  <2>2. k \in Job /\ k.at = "rows" /\ k.msg = worker[w].msg /\ k.last = top
    BY <1>1, <2>1 DEF Job
  <2>3. worker' = [worker EXCEPT ![w] = k]
    BY <1>5 DEF TypeOK, top
  <2> HIDE DEF k
  <2>4. /\ worker' \in [Workers -> Job] /\ worker'[w] = k
        /\ \A u \in Workers : u # w => worker'[u] = worker[u]
    BY <2>2, <2>3, Moves
  <2>5. /\ queue' \in Seq(Message) /\ dead' \in SUBSET Message
        /\ \A i \in 1 .. Len(queue') : Covering(queue'[i])
    BY <1>5 DEF TypeOK, CoverInv
  <2>6. seen' = seen
    BY <1>5 DEF faults
  <2> QED
    BY <1>3, <1>5, <2>2, <2>4, <2>5, <2>6 DEF Movement, top
<1> QED
  BY <1>4, <1>5 DEF ClearPoints

LEMMA Drops ==
  ASSUME TypeOK, HeldInv, CoverInv, NEW w \in Workers, DropDataset(w)
  PROVE  /\ Movement(w)
         /\ \/ worker'[w] = Idle /\ row' = row /\ dataset' = dataset
            \/ /\ Reaches(w, "analytics")
               /\ dataset' = [dataset EXCEPT ![worker[w].msg.dataset] = "gone"]
               /\ row' = row \ ChunksOf(worker[w].msg.dataset)
<1>1. worker[w].at # "idle"
  BY DEF DropDataset
<1>2. \/ PushBack(w, worker[w].msg) /\ row' = row /\ dataset' = dataset
      \/ /\ worker' = [worker EXCEPT ![w].at = "analytics"] /\ UNCHANGED <<queue, dead>>
         /\ dataset' = [dataset EXCEPT ![worker[w].msg.dataset] = "gone"]
         /\ row' = row \ ChunksOf(worker[w].msg.dataset)
  BY DEF DropDataset
<1> QED
  BY <1>1, <1>2, GivesUp, GoesOn

LEMMA DropsAnalytics ==
  ASSUME TypeOK, HeldInv, CoverInv, NEW w \in Workers, DropAnalytics(w)
  PROVE  Movement(w) /\ (worker'[w] = Idle \/ Reaches(w, "ack"))
<1>1. worker[w].at # "idle"
  BY DEF DropAnalytics
<1>2. \/ PushBack(w, worker[w].msg)
      \/ worker' = [worker EXCEPT ![w].at = "ack"] /\ UNCHANGED <<queue, dead>>
  BY DEF DropAnalytics
<1> QED
  BY <1>1, <1>2, GivesUp, GoesOn

LEMMA Finishes ==
  ASSUME TypeOK, HeldInv, CoverInv, NEW w \in Workers, Acknowledge(w) \/ Crash(w)
  PROVE  Movement(w) /\ worker'[w] = Idle
<1>1. worker[w].at # "idle"
  BY DEF Acknowledge, Crash
<1>2. worker' = [worker EXCEPT ![w] = Idle] /\ UNCHANGED <<queue, dead>>
  BY DEF Acknowledge, Crash
<1> QED
  BY <1>1, <1>2, GivesUp

\* The state of a worker that moved.
LEMMA WorkerStepMoves ==
  ASSUME TypeOK, HeldInv, CoverInv, NEW w \in Workers, WorkerStep(w) \/ Crash(w)
  PROVE  /\ Movement(w)
         /\ HeldAt(w)'
         /\ worker'[w].at # "idle" => Covering(worker'[w].msg)
<1> DEFINE Good == /\ worker'[w].at # "idle" =>
                        worker'[w].msg \in Message /\ Covering(worker'[w].msg)
                   /\ worker'[w].at = "lookup" => worker'[w].last = 0
                   /\ worker'[w].at = "points" => worker'[w].batch # {}
<1>1. ASSUME worker'[w] = Idle PROVE Good
  BY <1>1 DEF Idle
<1>2. worker[w].at # "idle" => worker[w].msg \in Message /\ Covering(worker[w].msg)
  BY Busy DEF CoverInv
<1>3. Movement(w) /\ Good
  <2>1. CASE Take(w)
    BY <2>1, StartsLookUp
  <2>2. CASE LookUp(w)
    BY <2>2, <1>1, <1>2, LooksUp DEF LookUp, Reaches
  <2>3. CASE ClearRows(w)
    BY <2>3, <1>2, ClearsRows DEF ClearRows
  <2>4. CASE ClearPoints(w)
    BY <2>4, <1>1, <1>2, ClearsPoints DEF ClearPoints
  <2>5. CASE DropDataset(w)
    BY <2>5, <1>1, <1>2, Drops DEF DropDataset, Reaches
  <2>6. CASE DropAnalytics(w)
    BY <2>6, <1>1, <1>2, DropsAnalytics DEF DropAnalytics, Reaches
  <2>7. CASE Acknowledge(w) \/ Crash(w)
    BY <2>7, <1>1, Finishes
  <2> QED
    BY <2>1, <2>2, <2>3, <2>4, <2>5, <2>6, <2>7 DEF WorkerStep
<1> QED
  BY <1>3 DEF HeldAt

--------------------------------------------------------------------------------
(* Types.                                                                   *)

LEMMA InitTypes == Init => TypeOK /\ HeldInv /\ CoverInv
<1> SUFFICES ASSUME Init PROVE TypeOK /\ HeldInv /\ CoverInv
  OBVIOUS
<1>1. \A w \in Workers : worker[w] = Idle
  BY DEF Init
<1>2. worker \in [Workers -> Job]
  BY IdleIsJob DEF Init
<1>3. queue \in Seq(Message) /\ dead \in SUBSET Message /\ Len(queue) = 0
  BY DEF Init
<1>4. upload \in [Chunks -> {"none", "looked", "stamped", "inserted", "done"}]
  BY DEF Init
<1>5. row \in SUBSET Chunks /\ point \in SUBSET Chunks
  BY ConstantTypes DEF Init
<1>6. org.row = "live" /\ org.todo = {} /\ org.at = "none" /\ org.now = None
      /\ org \in [row : {"live", "deleted", "gone"}, todo : SUBSET Datasets,
                  at : {"none", "mark", "push", "flag", "list", "done"}, now : Datasets \cup {None}]
  BY DEF Init
<1>7. TypeOK
  <2>1. dataset \in [Datasets -> {"live", "deleted", "gone"}]
    BY DEF Init
  <2>2. asked \in SUBSET ({"clear", "delete", "marked"} \X Datasets)
    BY DEF Init
  <2>3. listed \in BOOLEAN
    BY Zenon DEF Init
  <2>4. promised \in SUBSET Chunks /\ failed \in 0 .. MaxFailures /\ seen \in SUBSET Failures
    BY ConstantTypes DEF Init
  <2> QED
    BY <1>2, <1>3, <1>4, <1>5, <1>6, <2>1, <2>2, <2>3, <2>4, Zenon DEF TypeOK, Job
<1>8. HeldInv
  BY <1>1, <1>6 DEF HeldInv, HeldAt, Idle
<1>9. CoverInv
  <2>1. \A c \in Loaded : upload[c] = "done"
    BY ConstantTypes DEF Init
  <2>2. \A i \in 1 .. Len(queue) : FALSE
    BY <1>3
  <2> QED
    BY <1>1, <2>1, <2>2 DEF CoverInv, Idle
<1> QED
  BY <1>7, <1>8, <1>9

\* What a step of a handler or of the ingestion worker leaves alone.
LEMMA HandlersKeep ==
  ASSUME TypeOK, HeldInv, CoverInv,
         \/ \E d \in Datasets : ClearDataset(d) \/ MarkDeleted(d) \/ PushDelete(d)
         \/ DeleteOrg \/ OrgStep
  PROVE  /\ UNCHANGED <<row, point, upload, dead, worker, promised>>
         /\ queue' \in Seq(Message)
         /\ \A i \in 1 .. Len(queue') : Covering(queue'[i])
         /\ seen' = seen \/ seen' = seen \cup {"push"}
<1>1. queue \in Seq(Message) /\ \A i \in 1 .. Len(queue) : Covering(queue[i])
  BY DEF TypeOK, CoverInv
<1>2. ASSUME NEW d \in Datasets, ClearDataset(d) PROVE Push(d, TRUE) /\ seen' = seen
  BY <1>2 DEF ClearDataset, faults
<1>3. ASSUME NEW d \in Datasets, PushDelete(d)
      PROVE \/ Push(d, FALSE) /\ seen' = seen
            \/ queue' = queue /\ seen' = seen \cup {"push"}
  BY <1>3 DEF PushDelete, faults, Failing
<1>4. ASSUME PushNext
      PROVE \/ Push(org.now, FALSE) /\ seen' = seen
            \/ queue' = queue /\ seen' = seen \cup {"push"}
  BY <1>4 DEF PushNext, faults, Failing
<1>5. CASE \E d \in Datasets : ClearDataset(d)
  <2>1. PICK d \in Datasets : ClearDataset(d)
    BY <1>5
  <2> QED
    BY <2>1, <1>2, Pushes DEF ClearDataset
<1>6. CASE \E d \in Datasets : MarkDeleted(d)
  BY <1>6, <1>1 DEF MarkDeleted, faults
<1>7. CASE \E d \in Datasets : PushDelete(d)
  <2>1. PICK d \in Datasets : PushDelete(d)
    BY <1>7
  <2> QED
    BY <2>1, <1>1, <1>3, Pushes DEF PushDelete
<1>8. CASE DeleteOrg \/ MarkNext \/ FlagOrg \/ ListOrg
  BY <1>8, <1>1 DEF DeleteOrg, MarkNext, FlagOrg, ListOrg, faults
<1>9. CASE PushNext
  <2>1. org.now \in Datasets
    BY <1>9 DEF PushNext, HeldInv
  <2> QED
    BY <1>9, <2>1, <1>1, <1>4, Pushes DEF PushNext
<1> QED
  BY <1>5, <1>6, <1>7, <1>8, <1>9 DEF OrgStep

LEMMA StepCover ==
  ASSUME TypeOK, HeldInv, CoverInv, [Next]_vars
  PROVE  CoverInv' /\ (\A w \in Workers : HeldAt(w)')
<1>1. ASSUME UNCHANGED <<upload, queue, worker>> PROVE CoverInv' /\ \A w \in Workers : HeldAt(w)'
  BY <1>1 DEF CoverInv, HeldInv, HeldAt
<1>2. CASE \E c \in Chunks : Upload(c)
  <2>1. PICK c \in Chunks : Upload(c)
    BY <1>2
  <2>2. UNCHANGED <<queue, worker>>
    BY <2>1 DEF Upload
  <2>3. \A b \in Loaded : upload'[b] = "done"
    BY <2>1, ConstantTypes DEF Upload, CoverInv, TypeOK
  <2> QED
    BY <2>2, <2>3 DEF CoverInv, HeldInv, HeldAt
<1>3. CASE \/ \E d \in Datasets : ClearDataset(d) \/ MarkDeleted(d) \/ PushDelete(d)
           \/ DeleteOrg \/ OrgStep
  <2>1. UNCHANGED <<upload, worker>> /\ \A i \in 1 .. Len(queue') : Covering(queue'[i])
    BY <1>3, HandlersKeep
  <2> QED
    BY <2>1 DEF CoverInv, HeldInv, HeldAt
<1>4. CASE \E w \in Workers : WorkerStep(w) \/ Crash(w)
  <2>1. PICK w \in Workers : WorkerStep(w) \/ Crash(w)
    BY <1>4
  <2>2. /\ Movement(w) /\ HeldAt(w)'
        /\ worker'[w].at # "idle" => Covering(worker'[w].msg)
    BY <2>1, WorkerStepMoves
  <2>3. UNCHANGED upload
    BY <2>1 DEF WorkerStep, Take, LookUp, ClearRows, ClearPoints, DropDataset, DropAnalytics,
                Acknowledge, Crash
  <2>4. \A u \in Workers : u # w => worker'[u] = worker[u]
    BY <2>2 DEF Movement
  <2>5. \A i \in 1 .. Len(queue') : Covering(queue'[i])
    BY <2>2 DEF Movement
  <2>6. CoverInv'
    BY <2>2, <2>3, <2>4, <2>5 DEF CoverInv
  <2> QED
    BY <2>2, <2>4, <2>6 DEF HeldInv, HeldAt
<1>5. CASE UNCHANGED vars
  BY <1>1, <1>5 DEF vars
<1> QED
  BY <1>2, <1>3, <1>4, <1>5 DEF Next

OrgType == [row : {"live", "deleted", "gone"}, todo : SUBSET Datasets,
            at : {"none", "mark", "push", "flag", "list", "done"}, now : Datasets \cup {None}]

\* The types of what the handlers change.
LEMMA HandlerTypes ==
  ASSUME TypeOK, HeldInv,
         \/ \E d \in Datasets : ClearDataset(d) \/ MarkDeleted(d) \/ PushDelete(d)
         \/ DeleteOrg \/ OrgStep
  PROVE  /\ dataset' \in [Datasets -> {"live", "deleted", "gone"}]
         /\ asked' \in SUBSET ({"clear", "delete", "marked"} \X Datasets)
         /\ org' \in OrgType /\ (org'.at = "push" => org'.now \in Datasets)
         /\ listed' \in BOOLEAN
         /\ failed' \in 0 .. MaxFailures /\ seen' \in SUBSET Failures
<1>1. /\ dataset \in [Datasets -> {"live", "deleted", "gone"}]
      /\ asked \in SUBSET ({"clear", "delete", "marked"} \X Datasets)
      /\ org \in OrgType /\ (org.at = "push" => org.now \in Datasets)
      /\ listed \in BOOLEAN
      /\ failed \in 0 .. MaxFailures /\ seen \in SUBSET Failures
  BY DEF TypeOK, HeldInv, OrgType
<1>2. ASSUME Failing("push")
      PROVE failed' \in 0 .. MaxFailures /\ seen' \in SUBSET Failures
  BY <1>2, Fails
<1>3. ASSUME NEW d \in Datasets, ClearDataset(d) \/ MarkDeleted(d) \/ PushDelete(d)
      PROVE  /\ dataset' \in [Datasets -> {"live", "deleted", "gone"}]
             /\ asked' \in SUBSET ({"clear", "delete", "marked"} \X Datasets)
             /\ UNCHANGED <<org, listed>>
             /\ failed' \in 0 .. MaxFailures /\ seen' \in SUBSET Failures
  <2>1. dataset' \in [Datasets -> {"live", "deleted", "gone"}]
    BY <1>1, <1>3 DEF ClearDataset, MarkDeleted, PushDelete
  <2>2. asked' \in SUBSET ({"clear", "delete", "marked"} \X Datasets)
    <3> DEFINE Pairs == {"clear", "delete", "marked"} \X Datasets
    <3>1. <<"clear", d>> \in Pairs /\ <<"delete", d>> \in Pairs /\ <<"marked", d>> \in Pairs
      OBVIOUS
    <3>2. \/ asked' = asked \cup {<<"clear", d>>}
          \/ asked' = asked \cup {<<"delete", d>>, <<"marked", d>>}
          \/ asked' = asked \ {<<"marked", d>>}
      BY <1>3 DEF ClearDataset, MarkDeleted, PushDelete
    <3>3. asked \in SUBSET Pairs
      BY <1>1
    <3> HIDE DEF Pairs
    <3>4. asked' \in SUBSET Pairs
      BY <3>1, <3>2, <3>3
    <3> QED
      BY <3>4 DEF Pairs
  <2>3. UNCHANGED <<org, listed>>
    BY <1>3, Zenon DEF ClearDataset, MarkDeleted, PushDelete
  <2>4. failed' \in 0 .. MaxFailures /\ seen' \in SUBSET Failures
    BY <1>1, <1>2, <1>3, Zenon DEF ClearDataset, MarkDeleted, PushDelete, faults
  <2> QED
    BY <2>1, <2>2, <2>3, <2>4
<1>4. ASSUME DeleteOrg \/ OrgStep
      PROVE  /\ dataset' \in [Datasets -> {"live", "deleted", "gone"}]
             /\ UNCHANGED asked
             /\ failed' \in 0 .. MaxFailures /\ seen' \in SUBSET Failures
  <2>1. CASE DeleteOrg
    BY <2>1, <1>1 DEF DeleteOrg, faults
  <2>2. CASE MarkNext
    BY <2>2, <1>1 DEF MarkNext, OrgType, faults
  <2>3. CASE PushNext
    BY <2>3, <1>1, <1>2 DEF PushNext, faults
  <2>4. CASE FlagOrg \/ ListOrg
    BY <2>4, <1>1 DEF FlagOrg, ListOrg, faults
  <2> QED
    BY <1>4, <2>1, <2>2, <2>3, <2>4 DEF OrgStep
<1>5. ASSUME DeleteOrg \/ OrgStep
      PROVE  org' \in OrgType /\ (org'.at = "push" => org'.now \in Datasets)
  <2>1. CASE DeleteOrg
    BY <2>1, <1>1 DEF DeleteOrg, OrgType
  <2>2. CASE MarkNext
    <3>1. ASSUME org' = [org EXCEPT !.at = "flag"] PROVE org' \in OrgType /\ org'.at = "flag"
      BY <1>1, <3>1 DEF OrgType
    <3>2. ASSUME NEW d \in org.todo, org' = [org EXCEPT !.at = "push", !.now = d, !.todo = @ \ {d}]
          PROVE  org' \in OrgType /\ org'.now \in Datasets
      <4>1. org.todo \in SUBSET Datasets /\ d \in Datasets
        BY <1>1 DEF OrgType
      <4> QED
        BY <1>1, <3>2, <4>1 DEF OrgType
    <3> QED
      BY <2>2, <3>1, <3>2 DEF MarkNext
  <2>3. CASE PushNext
    BY <2>3, <1>1 DEF PushNext, OrgType
  <2>4. CASE FlagOrg \/ ListOrg
    BY <2>4, <1>1 DEF FlagOrg, ListOrg, OrgType
  <2> QED
    BY <1>5, <2>1, <2>2, <2>3, <2>4 DEF OrgStep
<1>6. ASSUME DeleteOrg \/ OrgStep
      PROVE  listed' = listed \/ listed' = TRUE
  BY <1>6 DEF DeleteOrg, OrgStep, MarkNext, PushNext, FlagOrg, ListOrg
<1>7. listed' = listed \/ listed' = TRUE
  BY <1>3, <1>6
<1>8. listed' \in BOOLEAN
  BY <1>1, <1>7, Zenon
<1> QED
  BY <1>1, <1>3, <1>4, <1>5, <1>8

\* The types of what the workers change.
LEMMA WorkerTypes ==
  ASSUME TypeOK, HeldInv, NEW w \in Workers, WorkerStep(w) \/ Crash(w)
  PROVE  /\ dataset' \in [Datasets -> {"live", "deleted", "gone"}]
         /\ row' \in SUBSET Chunks /\ point' \in SUBSET Chunks
         /\ org' \in OrgType /\ (org'.at = "push" => org'.now \in Datasets)
         /\ listed' \in BOOLEAN
         /\ promised' \in SUBSET Chunks
         /\ failed' \in 0 .. MaxFailures /\ seen' \in SUBSET Failures
         /\ UNCHANGED <<upload, asked>>
<1>1. /\ dataset \in [Datasets -> {"live", "deleted", "gone"}]
      /\ row \in SUBSET Chunks /\ point \in SUBSET Chunks
      /\ org \in OrgType /\ (org.at = "push" => org.now \in Datasets)
      /\ listed \in BOOLEAN
      /\ promised \in SUBSET Chunks
      /\ failed \in 0 .. MaxFailures /\ seen \in SUBSET Failures
  BY DEF TypeOK, HeldInv, OrgType
<1>2. ASSUME NEW kind, Failing(kind)
      PROVE failed' \in 0 .. MaxFailures /\ seen' \in SUBSET Failures
  BY <1>2, Fails
<1>3. CASE Take(w) \/ LookUp(w)
  BY <1>1, <1>3, Zenon DEF Take, LookUp, faults
<1>4. CASE ClearRows(w)
  <2>1. row' \in SUBSET Chunks
    BY <1>1, <1>4 DEF ClearRows
  <2> QED
    BY <1>1, <1>4, <2>1, Zenon DEF ClearRows, faults
<1>5. CASE ClearPoints(w)
  <2>1. point' \in SUBSET Chunks
    BY <1>1, <1>5 DEF ClearPoints
  <2>2. failed' \in 0 .. MaxFailures /\ seen' \in SUBSET Failures
    BY <1>1, <1>2, <1>5, Zenon DEF ClearPoints, faults
  <2> QED
    BY <1>1, <1>5, <2>1, <2>2, Zenon DEF ClearPoints
<1>6. CASE DropDataset(w)
  <2>1. row' \in SUBSET Chunks /\ dataset' \in [Datasets -> {"live", "deleted", "gone"}]
    BY <1>1, <1>6 DEF DropDataset
  <2> QED
    BY <1>1, <1>6, <2>1, Zenon DEF DropDataset, faults
<1>7. CASE DropAnalytics(w) \/ Crash(w)
  <2>1. failed' \in 0 .. MaxFailures /\ seen' \in SUBSET Failures
    BY <1>1, <1>2, <1>7, Zenon DEF DropAnalytics, Crash, faults
  <2> QED
    BY <1>1, <1>7, <2>1, Zenon DEF DropAnalytics, Crash
<1>8. CASE Acknowledge(w)
  <2>1. worker[w].msg.covers \subseteq Chunks
    BY <1>8, Busy DEF Acknowledge
  <2>2. promised' \in SUBSET Chunks
    BY <1>1, <1>8, <2>1 DEF Acknowledge
  <2>3. org' \in OrgType /\ (org'.at = "push" => org'.now \in Datasets)
    BY <1>1, <1>8 DEF Acknowledge, OrgType
  <2>4. listed' \in BOOLEAN
    BY <1>8, Zenon DEF Acknowledge
  <2> QED
    BY <1>1, <1>8, <2>2, <2>3, <2>4, Zenon DEF Acknowledge, faults
<1> QED
  BY <1>3, <1>4, <1>5, <1>6, <1>7, <1>8 DEF WorkerStep

LEMMA StepTypes ==
  ASSUME TypeOK, HeldInv, CoverInv, [Next]_vars
  PROVE  TypeOK' /\ HeldInv'
<1>1. ASSUME org'.at = "push" => org'.now \in Datasets PROVE HeldInv'
  BY <1>1, StepCover DEF HeldInv
<1>2. CASE \E c \in Chunks : Upload(c)
  <2>1. PICK c \in Chunks : Upload(c)
    BY <1>2
  <2>2. /\ row' \in SUBSET Chunks /\ point' \in SUBSET Chunks
        /\ upload' \in [Chunks -> {"none", "looked", "stamped", "inserted", "done"}]
    BY <2>1 DEF Upload, TypeOK
  <2>3. UNCHANGED <<dataset, queue, dead, worker, asked, org, listed, promised, failed, seen>>
    BY <2>1 DEF Upload, faults
  <2> QED
    BY <1>1, <2>2, <2>3, Zenon DEF TypeOK, HeldInv
<1>3. CASE \/ \E d \in Datasets : ClearDataset(d) \/ MarkDeleted(d) \/ PushDelete(d)
           \/ DeleteOrg \/ OrgStep
  BY <1>1, <1>3, HandlersKeep, HandlerTypes, Zenon DEF TypeOK, OrgType
<1>4. CASE \E w \in Workers : WorkerStep(w) \/ Crash(w)
  <2>1. PICK w \in Workers : WorkerStep(w) \/ Crash(w)
    BY <1>4
  <2>2. worker' \in [Workers -> Job] /\ queue' \in Seq(Message) /\ dead' \in SUBSET Message
    BY <2>1, WorkerStepMoves DEF Movement
  <2> QED
    BY <1>1, <2>1, <2>2, WorkerTypes, Zenon DEF TypeOK, OrgType, Job
<1>5. CASE UNCHANGED vars
  BY <1>1, <1>5, Zenon DEF vars, faults, TypeOK, HeldInv
<1> QED
  BY <1>2, <1>3, <1>4, <1>5 DEF Next

--------------------------------------------------------------------------------
(* Rows and their points.                                                   *)

LEMMA InitRows == Init => RowInv /\ SweepInv /\ PointInv /\ GoneInv
<1> SUFFICES ASSUME Init PROVE RowInv /\ SweepInv /\ PointInv /\ GoneInv
  OBVIOUS
<1>1. \A w \in Workers : worker[w].at = "idle"
  BY DEF Init, Idle
<1>2. RowInv
  BY <1>1, ConstantTypes DEF Init, RowInv, BatchAt
<1>3. SweepInv
  BY <1>1 DEF Init, SweepInv, SweptAt
<1>4. PointInv
  BY DEF Init, PointInv
<1>5. GoneInv
  BY ConstantTypes DEF Init, GoneInv
<1> QED
  BY <1>2, <1>3, <1>4, <1>5

\* The ingestion worker adds a row or a point; the chunks stored from the
\* start are done with it.
LEMMA Uploads ==
  ASSUME TypeOK, CoverInv, NEW c \in Chunks, Upload(c)
  PROVE  /\ UNCHANGED <<dataset, worker, org, promised, seen>>
         /\ c \notin Loaded
         /\ \A b \in Chunks : b # c => upload'[b] = upload[b]
         /\ row' = row \/ row' = row \cup {c}
         /\ point' = point \/ point' = point \cup {c}
         /\ row' # row => /\ upload[c] = "stamped" /\ upload'[c] = "inserted"
                          /\ dataset[Owner[c]] # "gone"
         /\ upload[c] = "inserted" => upload'[c] = "done" /\ c \in point'
         /\ upload[c] # "done"
<1>1. UNCHANGED <<dataset, worker, org, promised, seen>>
  BY DEF Upload, faults
<1>2. upload[c] # "done"
  BY DEF Upload
<1>3. c \notin Loaded
  BY <1>2 DEF CoverInv
<1>4. upload \in [Chunks -> {"none", "looked", "stamped", "inserted", "done"}]
  BY DEF TypeOK
<1> QED
  BY <1>1, <1>2, <1>3, <1>4 DEF Upload

\* No step but an upload adds a row or a point, and no point but of a batch
\* in hand is deleted.
LEMMA WorkersOnlyRemove ==
  ASSUME TypeOK, HeldInv, CoverInv, NEW w \in Workers, WorkerStep(w) \/ Crash(w)
  PROVE  /\ row' \subseteq row
         /\ point' \subseteq point
         /\ seen \subseteq seen'
         /\ \A c \in point \ point' : worker[w].at = "points" /\ c \in worker[w].batch
<1>1. CASE Take(w) \/ LookUp(w) \/ Acknowledge(w)
  BY <1>1, Zenon DEF Take, LookUp, Acknowledge, faults
<1>2. CASE ClearRows(w)
  BY <1>2 DEF ClearRows, faults
<1>3. CASE ClearPoints(w)
  BY <1>3, ClearsPoints DEF ClearPoints
<1>4. CASE DropDataset(w)
  BY <1>4 DEF DropDataset, faults
<1>5. CASE DropAnalytics(w) \/ Crash(w)
  BY <1>5, Fails DEF DropAnalytics, Crash, faults
<1> QED
  BY <1>1, <1>2, <1>3, <1>4, <1>5 DEF WorkerStep

LEMMA StepRows ==
  ASSUME TypeOK, HeldInv, CoverInv, RowInv, [Next]_vars
  PROVE  RowInv'
<1>1. ASSUME UNCHANGED <<row, point, upload, worker>> PROVE RowInv'
  BY <1>1 DEF RowInv, BatchAt
<1>2. CASE \E c \in Chunks : Upload(c)
  <2>1. PICK c \in Chunks : Upload(c)
    BY <1>2
  <2>2. ASSUME NEW b \in row' PROVE upload'[b] \in {"inserted", "done"} /\ (upload'[b] = "done" => b \in point')
    <3>1. b \in Chunks
      BY <2>1, <2>2, Uploads DEF TypeOK
    <3>2. CASE b # c
      BY <2>1, <2>2, <3>1, <3>2, Uploads DEF RowInv
    <3>3. CASE b = c /\ row' # row
      BY <2>1, <3>3, Uploads
    <3>4. CASE b = c /\ row' = row
      BY <2>1, <2>2, <3>4, Uploads DEF RowInv
    <3> QED
      BY <3>2, <3>3, <3>4
  <2>3. ASSUME NEW w \in Workers, worker'[w].at = "points", NEW b \in worker'[w].batch
        PROVE  upload'[b] \in {"inserted", "done"} /\ b \notin row'
    <3>1. b \in Chunks /\ upload[b] \in {"inserted", "done"} /\ b \notin row
      BY <2>1, <2>3, Uploads DEF RowInv, BatchAt, TypeOK
    <3> QED
      BY <2>1, <3>1, Uploads
  <2> QED
    BY <2>2, <2>3 DEF RowInv, BatchAt
<1>3. CASE \/ \E d \in Datasets : ClearDataset(d) \/ MarkDeleted(d) \/ PushDelete(d)
           \/ DeleteOrg \/ OrgStep
  BY <1>1, <1>3, HandlersKeep
<1>4. CASE \E w \in Workers : WorkerStep(w) \/ Crash(w)
  <2>1. PICK w \in Workers : WorkerStep(w) \/ Crash(w)
    BY <1>4
  <2>2. row' \subseteq row /\ UNCHANGED upload
    BY <2>1, WorkersOnlyRemove, WorkerTypes
  <2>3. \A c \in row' : upload'[c] = "done" => c \in point'
    BY <2>1, <2>2, WorkersOnlyRemove DEF RowInv, BatchAt
  <2>4. ASSUME NEW u \in Workers, u # w PROVE BatchAt(u)'
    <3>1. worker'[u] = worker[u]
      BY <2>1, <2>4, WorkerStepMoves DEF Movement
    <3> QED
      BY <2>2, <3>1 DEF RowInv, BatchAt
  <2>5. BatchAt(w)'
    <3>1. CASE ClearRows(w)
      BY <2>2, <3>1, ClearsRows DEF RowInv, BatchAt
    <3>2. CASE ~ClearRows(w)
      <4>1. worker'[w].at # "points"
        BY <2>1, <3>2, StartsLookUp, LooksUp, ClearsPoints, Drops, DropsAnalytics, Finishes
           DEF WorkerStep, Idle, Reaches
      <4> QED
        BY <4>1 DEF BatchAt
    <3> QED
      BY <3>1, <3>2
  <2> QED
    BY <2>2, <2>3, <2>4, <2>5 DEF RowInv
<1>5. CASE UNCHANGED vars
  BY <1>1, <1>5 DEF vars
<1> QED
  BY <1>2, <1>3, <1>4, <1>5 DEF Next

\* Rows of chunks stored from the start only go, and a sweep goes upward.
LEMMA StepSweep ==
  ASSUME TypeOK, HeldInv, CoverInv, SweepInv, [Next]_vars
  PROVE  SweepInv'
<1>1. ASSUME row' \cap Loaded \subseteq row, UNCHANGED <<worker, promised>> PROVE SweepInv'
  BY <1>1 DEF SweepInv, SweptAt, Removed
<1>2. CASE \E c \in Chunks : Upload(c)
  <2>1. PICK c \in Chunks : Upload(c)
    BY <1>2
  <2>2. row' \cap Loaded \subseteq row /\ UNCHANGED <<worker, promised>>
    BY <2>1, Uploads
  <2> QED
    BY <1>1, <2>2
<1>3. CASE \/ \E d \in Datasets : ClearDataset(d) \/ MarkDeleted(d) \/ PushDelete(d)
           \/ DeleteOrg \/ OrgStep
  BY <1>1, <1>3, HandlersKeep
<1>4. CASE \E w \in Workers : WorkerStep(w) \/ Crash(w)
  <2>1. PICK w \in Workers : WorkerStep(w) \/ Crash(w)
    BY <1>4
  <2>2. row' \subseteq row
    BY <2>1, WorkersOnlyRemove
  <2>3. ASSUME NEW u \in Workers, u # w PROVE SweptAt(u)'
    <3>1. worker'[u] = worker[u]
      BY <2>1, <2>3, WorkerStepMoves DEF Movement
    <3> QED
      BY <2>2, <3>1 DEF SweepInv, SweptAt, Removed
  <2>4. SweptAt(w) /\ promised \cap Loaded \cap row = {}
    BY DEF SweepInv
  <2>5. ASSUME worker'[w].at = "idle" PROVE SweptAt(w)'
    BY <2>5 DEF SweptAt
  <2>6. SweptAt(w)'
    <3>1. CASE Take(w)
      <4>1. worker'[w].at = "lookup"
        BY <3>1, StartsLookUp
      <4> QED
        BY <4>1 DEF SweptAt, Removed
    <3>2. CASE LookUp(w)
      <4>1. worker[w].last = 0
        BY <3>2 DEF LookUp, HeldInv, HeldAt
      <4>2. ASSUME Reaches(w, "rows"), NEW c \in Loaded PROVE ~Removed(w, c)'
        BY <4>1, <4>2, ConstantTypes DEF Reaches, Removed
      <4> QED
        BY <3>2, <2>5, <4>2, LooksUp DEF SweptAt, Idle
    <3>3. CASE ClearRows(w)
      <4> DEFINE S == {c \in row \cap worker[w].msg.covers : c > worker[w].last}
      <4>1. worker[w].at = "rows" /\ worker[w] \in Job
        BY <3>3, Busy DEF ClearRows
      <4>2. S \in SUBSET Chunks /\ Chosen(w) = Batch(S)
        BY DEF TypeOK, Chosen
      <4>3. ASSUME NEW c \in worker[w].msg.covers \cap Loaded, c \in row PROVE c \in S
        <5>1. ~(c <= worker[w].last)
          BY <2>4, <4>1, <4>3 DEF SweptAt, Removed
        <5>2. worker[w].last \in 0 .. MaxChunk /\ c \in 1 .. MaxChunk
          BY <4>1, <4>3, ConstantTypes DEF Job
        <5>3. c > worker[w].last
          BY <5>1, <5>2, ConstantTypes
        <5> QED
          BY <4>3, <5>3
      <4> HIDE DEF S
      <4>4. ASSUME NEW c \in worker[w].msg.covers \cap Loaded, Removed(w, c)' PROVE c \notin row'
        <5> SUFFICES ASSUME c \in row PROVE c \in Chosen(w)
          BY <3>3, ClearsRows
        <5>1. c \in S
          BY <4>3
        <5>2. CASE worker'[w].at = "points"
          <6>1. PICK b \in worker'[w].batch : c <= b
            BY <4>4, <5>2 DEF Removed
          <6>2. b \in Batch(S)
            BY <3>3, <4>2, <6>1, ClearsRows
          <6> QED
            BY <4>2, <5>1, <6>1, <6>2, BatchHasNoGap
        <5>3. CASE worker'[w].at # "points"
          BY <3>3, <4>2, <5>1, <5>3, BatchIsNotEmpty, ClearsRows
        <5> QED
          BY <5>2, <5>3
      <4> QED
        BY <3>3, <4>4, ClearsRows DEF SweptAt
    <3>4. CASE ClearPoints(w)
      <4>1. worker[w].at = "points"
        BY <3>4 DEF ClearPoints
      <4>2. ASSUME worker'[w] # Idle, NEW c \in worker[w].msg.covers \cap Loaded, Removed(w, c)'
            PROVE  Removed(w, c)
        BY <3>4, <4>1, <4>2, ClearsPoints DEF Removed
      <4>3. worker'[w] # Idle => worker'[w].msg = worker[w].msg
        BY <3>4, ClearsPoints
      <4> QED
        BY <2>2, <2>4, <2>5, <4>1, <4>2, <4>3 DEF SweptAt, Idle
    <3>5. CASE DropDataset(w)
      <4>1. worker[w].at = "drop"
        BY <3>5 DEF DropDataset
      <4>2. ASSUME Reaches(w, "analytics") PROVE SweptAt(w)'
        BY <2>2, <2>4, <4>1, <4>2 DEF SweptAt, Removed, Reaches
      <4> QED
        BY <3>5, <2>5, <4>2, Drops DEF Idle
    <3>6. CASE DropAnalytics(w)
      <4>1. worker[w].at = "analytics"
        BY <3>6 DEF DropAnalytics
      <4>2. ASSUME Reaches(w, "ack") PROVE SweptAt(w)'
        BY <2>2, <2>4, <4>1, <4>2 DEF SweptAt, Removed, Reaches
      <4> QED
        BY <3>6, <2>5, <4>2, DropsAnalytics DEF Idle
    <3>7. CASE Acknowledge(w) \/ Crash(w)
      BY <3>7, <2>5, Finishes DEF Idle
    <3> QED
      BY <2>1, <3>1, <3>2, <3>3, <3>4, <3>5, <3>6, <3>7 DEF WorkerStep
  <2>7. promised' \cap Loaded \cap row' = {}
    <3>1. CASE Acknowledge(w)
      <4>1. \A c \in worker[w].msg.covers \cap Loaded : c \notin row
        BY <2>4, <3>1 DEF Acknowledge, SweptAt, Removed
      <4> QED
        BY <2>2, <2>4, <3>1, <4>1 DEF Acknowledge
    <3>2. CASE ~Acknowledge(w)
      <4>1. promised' = promised
        BY <2>1, <3>2 DEF WorkerStep, Take, LookUp, ClearRows, ClearPoints, DropDataset, DropAnalytics, Crash
      <4> QED
        BY <2>2, <2>4, <4>1
    <3> QED
      BY <3>1, <3>2
  <2> QED
    BY <2>3, <2>6, <2>7 DEF SweepInv
<1>5. CASE UNCHANGED vars
  BY <1>1, <1>5 DEF vars
<1> QED
  BY <1>2, <1>3, <1>4, <1>5 DEF Next

\* A point outlives its row only in the hands of a worker, as long as no
\* batch was cut short.
LEMMA StepPoints ==
  ASSUME TypeOK, HeldInv, CoverInv, SweepInv, PointInv, [Next]_vars
  PROVE  PointInv'
<1> SUFFICES ASSUME ~Halved', NEW c \in Loaded, c \in point'
             PROVE  c \in row' \/ Batched(c)'
  BY DEF PointInv
<1>1. ASSUME ~Halved, c \in point PROVE c \in row \/ Batched(c)
  BY <1>1 DEF PointInv
<1>2. ASSUME seen \subseteq seen' PROVE ~Halved
  BY <1>2 DEF Halved
<1>3. CASE \E b \in Chunks : Upload(b)
  <2>1. PICK b \in Chunks : Upload(b)
    BY <1>3
  <2>2. b # c /\ c \in point /\ seen' = seen /\ worker' = worker /\ row \subseteq row'
    BY <2>1, Uploads
  <2> QED
    BY <1>1, <1>2, <2>2 DEF Batched
<1>4. CASE \/ \E d \in Datasets : ClearDataset(d) \/ MarkDeleted(d) \/ PushDelete(d)
           \/ DeleteOrg \/ OrgStep
  <2>1. UNCHANGED <<row, point, worker>> /\ seen \subseteq seen'
    BY <1>4, HandlersKeep
  <2> QED
    BY <1>1, <1>2, <2>1 DEF Batched
<1>5. CASE \E w \in Workers : WorkerStep(w) \/ Crash(w)
  <2>1. PICK w \in Workers : WorkerStep(w) \/ Crash(w)
    BY <1>5
  <2>2. c \in point /\ ~Halved
    BY <1>2, <2>1, WorkersOnlyRemove
  <2>3. \A u \in Workers : u # w => worker'[u] = worker[u]
    BY <2>1, WorkerStepMoves DEF Movement
  <2>4. CASE \E u \in Workers : u # w /\ worker[u].at = "points" /\ c \in worker[u].batch
    BY <2>3, <2>4 DEF Batched
  <2>5. CASE worker[w].at = "points" /\ c \in worker[w].batch
    <3>1. ClearPoints(w) \/ Crash(w)
      BY <2>1, <2>5 DEF WorkerStep, Take, LookUp, ClearRows, DropDataset, DropAnalytics, Acknowledge
    <3>2. ASSUME Crash(w) PROVE FALSE
      BY <3>2 DEF Crash, Failing, Halved
    <3>3. ASSUME ClearPoints(w) PROVE FALSE
      BY <2>5, <3>3, ClearsPoints DEF Halved
    <3> QED
      BY <3>1, <3>2, <3>3
  <2>6. CASE c \in row
    <3>1. CASE ClearRows(w)
      BY <2>6, <3>1, ClearsRows DEF Batched
    <3>2. CASE DropDataset(w)
      <4>1. CASE row' = row
        BY <2>6, <4>1
      <4>2. CASE row' = row \ ChunksOf(worker[w].msg.dataset)
        <5>1. worker[w].at = "drop" /\ Covering(worker[w].msg) /\ SweptAt(w)
          BY <3>2 DEF DropDataset, CoverInv, SweepInv
        <5>2. c \notin worker[w].msg.covers
          BY <2>6, <5>1 DEF SweptAt, Removed
        <5> QED
          BY <2>6, <4>2, <5>1, <5>2 DEF Covering
      <4> QED
        BY <3>2, <4>1, <4>2, Drops
    <3>3. CASE ~ClearRows(w) /\ ~DropDataset(w)
      BY <2>1, <2>6, <3>3 DEF WorkerStep, Take, LookUp, ClearPoints, DropAnalytics, Acknowledge, Crash
    <3> QED
      BY <3>1, <3>2, <3>3
  <2> QED
    BY <1>1, <2>2, <2>4, <2>5, <2>6 DEF Batched
<1>6. CASE UNCHANGED vars
  <2>1. UNCHANGED <<row, point, worker, seen>>
    BY <1>6 DEF vars, faults
  <2> QED
    BY <1>1, <1>2, <2>1 DEF Batched
<1> QED
  BY <1>3, <1>4, <1>5, <1>6 DEF Next

\* A dataset that is gone has no rows and never comes back, and neither does
\* the organization.
LEMMA StepGone ==
  ASSUME TypeOK, HeldInv, CoverInv, GoneInv, [Next]_vars
  PROVE  GoneInv'
<1>1. \A d \in Datasets : dataset[d] = "gone" => dataset'[d] = "gone"
  BY DEF Next, vars, Upload, ClearDataset, MarkDeleted, PushDelete, DeleteOrg, OrgStep, MarkNext,
         PushNext, FlagOrg, ListOrg, WorkerStep, Take, LookUp, ClearRows, ClearPoints, DropDataset,
         DropAnalytics, Acknowledge, Crash, TypeOK
<1>2. \A c \in row' : dataset'[Owner[c]] # "gone"
  <2>1. ASSUME row' \subseteq row, UNCHANGED dataset PROVE \A c \in row' : dataset'[Owner[c]] # "gone"
    BY <2>1 DEF GoneInv
  <2>2. CASE \E c \in Chunks : Upload(c)
    <3>1. PICK c \in Chunks : Upload(c)
      BY <2>2
    <3> QED
      BY <3>1, <2>1, Uploads DEF GoneInv
  <2>3. CASE MarkNext \/ \E d \in Datasets : MarkDeleted(d)
    <3>1. row' = row /\ \A d \in Datasets : dataset'[d] = "gone" => dataset[d] = "gone"
      BY <2>3 DEF MarkNext, MarkDeleted, TypeOK
    <3>2. \A c \in row : Owner[c] \in Datasets
      BY ConstantTypes DEF TypeOK
    <3> QED
      BY <3>1, <3>2 DEF GoneInv
  <2>4. CASE \E d \in Datasets : ClearDataset(d) \/ PushDelete(d)
    BY <2>1, <2>4 DEF ClearDataset, PushDelete
  <2>5. CASE DeleteOrg \/ PushNext \/ FlagOrg \/ ListOrg
    BY <2>1, <2>5 DEF DeleteOrg, PushNext, FlagOrg, ListOrg
  <2>6. CASE \E w \in Workers : WorkerStep(w) \/ Crash(w)
    <3>1. PICK w \in Workers : WorkerStep(w) \/ Crash(w)
      BY <2>6
    <3>2. row' \subseteq row
      BY <3>1, WorkersOnlyRemove
    <3>3. CASE DropDataset(w)
      <4> DEFINE d == worker[w].msg.dataset
      <4>1. d \in Datasets
        BY <3>3, Busy DEF DropDataset
      <4>2. CASE row' = row \ ChunksOf(d) /\ dataset' = [dataset EXCEPT ![d] = "gone"]
        <5>1. \A c \in row' : c \in Chunks /\ c \in row /\ Owner[c] # d /\ Owner[c] \in Datasets
          BY <4>2, ConstantTypes DEF ChunksOf, TypeOK
        <5> HIDE DEF d
        <5>2. \A e \in Datasets : e # d => dataset'[e] = dataset[e]
          BY <4>2 DEF TypeOK
        <5> QED
          BY <5>1, <5>2 DEF GoneInv
      <4> QED
        BY <2>1, <3>2, <3>3, <4>2, Drops
    <3>4. CASE ~DropDataset(w)
      <4>1. UNCHANGED dataset
        BY <3>1, <3>4 DEF WorkerStep, Take, LookUp, ClearRows, ClearPoints, DropAnalytics, Acknowledge, Crash
      <4> QED
        BY <2>1, <3>2, <4>1
    <3> QED
      BY <3>3, <3>4
  <2>7. CASE UNCHANGED vars
    BY <2>1, <2>7 DEF vars
  <2> QED
    BY <2>2, <2>3, <2>4, <2>5, <2>6, <2>7 DEF Next, OrgStep
<1>3. org'.row = "gone" => org.row = "gone" \/ \A d \in Datasets : dataset[d] = "gone"
  <2>1. CASE DeleteOrg \/ OrgStep
    BY <2>1 DEF DeleteOrg, OrgStep, MarkNext, PushNext, FlagOrg, ListOrg, TypeOK
  <2>2. ASSUME NEW w \in Workers, Acknowledge(w)
        PROVE org' = org \/ \A d \in Datasets : dataset[d] = "gone"
    BY <2>2 DEF Acknowledge
  <2>3. CASE ~(DeleteOrg \/ OrgStep \/ \E w \in Workers : Acknowledge(w))
    <3>1. org' = org
      BY <2>3 DEF Next, vars, Upload, ClearDataset, MarkDeleted, PushDelete, WorkerStep, Take, LookUp,
                  ClearRows, ClearPoints, DropDataset, DropAnalytics, Crash
    <3> QED
      BY <3>1
  <2> QED
    BY <2>1, <2>2, <2>3, Zenon
<1>4. org'.row = "gone" => \A d \in Datasets : dataset'[d] = "gone"
  <2> SUFFICES ASSUME org'.row = "gone", NEW d \in Datasets PROVE dataset[d] = "gone"
    BY <1>1
  <2> QED
    BY <1>3 DEF GoneInv
<1> QED
  BY <1>2, <1>4 DEF GoneInv

--------------------------------------------------------------------------------
(* Theorems.                                                                *)

\* The inductive invariant: the properties below follow from it alone.
THEOREM InductiveInvariant == Spec => []IInv
<1>1. Init => IInv
  BY InitTypes, InitRows DEF IInv
<1>2. IInv /\ [Next]_vars => IInv'
  BY StepTypes, StepCover, StepRows, StepSweep, StepPoints, StepGone DEF IInv
<1> QED
  BY <1>1, <1>2, PTL DEF Spec

\* Every variable keeps its type: in particular a message is pushed back at
\* most MaxAttempts - 1 times, and a worker always holds a message of a dataset.
THEOREM TypeCorrect == Spec => []TypeOK
<1>1. IInv => TypeOK
  BY DEF IInv
<1> QED
  BY <1>1, InductiveInvariant, PTL

\* When nothing is under way any more, every chunk with a row has its point:
\* workers delete points only of rows that they deleted before.
THEOREM RowsKeepTheirPoints == Spec => []RowsHavePoints
<1>1. ASSUME IInv, Quiet PROVE row \subseteq point
  <2>1. \A c \in row : upload[c] \in {"inserted", "done"} /\ (upload[c] = "done" => c \in point)
    BY <1>1 DEF IInv, RowInv
  <2>2. \A c \in row : upload[c] # "inserted"
    BY <1>1 DEF Quiet, IInv, TypeOK
  <2> QED
    BY <2>1, <2>2
<1>2. IInv => RowsHavePoints
  BY <1>1 DEF RowsHavePoints
<1> QED
  BY <1>2, InductiveInvariant, PTL

\* A clear or a delete that was acknowledged leaves nothing of the chunks
\* stored before it in either store, unless a batch was cut short between its
\* rows and its points.
THEOREM AcknowledgedMeansGone == Spec => []AcknowledgedChunksAreGone
<1>1. ASSUME IInv, ~Halved, Quiet PROVE promised \cap Loaded \cap (row \cup point) = {}
  <2>1. promised \cap Loaded \cap row = {}
    BY <1>1 DEF IInv, SweepInv
  <2>2. \A c \in Loaded \cap point : c \in row \/ Batched(c)
    BY <1>1 DEF IInv, PointInv
  <2>3. \A c \in Loaded : ~Batched(c)
    BY <1>1 DEF Quiet, Batched
  <2> QED
    BY <2>1, <2>2, <2>3
<1>2. IInv => AcknowledgedChunksAreGone
  BY <1>1 DEF AcknowledgedChunksAreGone, ClearRemovesEverything
<1> QED
  BY <1>2, InductiveInvariant, PTL

\* The organization's row is removed only when no chunk of it has a row, and
\* without such an interruption no point of it is left either.
THEOREM OrganizationGoesLast == Spec => []OrgIsLast
<1>1. ASSUME IInv, org.row = "gone" PROVE row = {}
  <2>1. \A c \in row : dataset[Owner[c]] # "gone" /\ Owner[c] \in Datasets
    BY <1>1, ConstantTypes DEF IInv, GoneInv, TypeOK
  <2>2. \A d \in Datasets : dataset[d] = "gone"
    BY <1>1 DEF IInv, GoneInv
  <2> QED
    BY <2>1, <2>2
<1>2. ASSUME IInv, row = {}, Quiet, ~Halved PROVE point \cap Loaded = {}
  <2>1. \A c \in Loaded \cap point : c \in row \/ Batched(c)
    BY <1>2 DEF IInv, PointInv
  <2>2. \A c \in Loaded : ~Batched(c)
    BY <1>2 DEF Quiet, Batched
  <2> QED
    BY <1>2, <2>1, <2>2
<1>3. IInv => OrgIsLast
  BY <1>1, <1>2 DEF OrgIsLast
<1> QED
  BY <1>3, InductiveInvariant, PTL
================================================================================
