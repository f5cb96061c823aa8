---------------------------- MODULE WorkQueueProofs ----------------------------
(***************************************************************************)
(* Proofs that the work queue protocol is correct for any number of        *)
(* workers, jobs, attempts and faults.  TypeOK, SingleOwner,               *)
(* BuriedAfterEveryAttempt and NoSilentLoss follow from the inductive      *)
(* invariant IInv, which says for each place a job can be (queued, in a    *)
(* worker's hands at some point of the loop) what its history must be.     *)
(* The last part proves, step by step, that WorkQueue implements JobLedger *)
(* under the mapping Status.                                               *)
(***************************************************************************)
EXTENDS WorkQueue, TLAPS

Busy == Points \ {"idle"}

\* A job that was never pushed has no history.
UnsentInv ==
  \A j \in Jobs \ submitted : failures[j] = 0 /\ ~Settled(j)

\* A queued job is there once, nobody holds it, it is not settled, and its
\* payload carries the number of its failed attempts.
QueueInv ==
  /\ \A i, k \in 1 .. Len(queue) : queue[i].job = queue[k].job => i = k
  /\ \A i \in 1 .. Len(queue) :
       /\ queue[i].job \in submitted
       /\ ~Settled(queue[i].job)
       /\ ~HeldAt(queue[i].job, Busy)
       /\ failures[queue[i].job] = queue[i].attempt

\* What a worker in the middle of its loop may rely on.
HandInv ==
  \A w \in Workers : pc[w] # "idle" =>
    /\ hand[w] \in Payload
    /\ hand[w].job \in submitted
    /\ pc[w] \in {"handling", "failed"} => hand[w] \in processing
    /\ pc[w] = "acking" => hand[w].job \in done
    /\ pc[w] # "acking" => ~Settled(hand[w].job)
    /\ pc[w] = "handling" => failures[hand[w].job] = hand[w].attempt
    /\ pc[w] \in {"failed", "removed"}
         => failures[hand[w].job] = hand[w].attempt + 1

IInv ==
  /\ TypeOK
  /\ UnsentInv
  /\ QueueInv
  /\ HandInv
  /\ SingleOwner
  /\ BuriedAfterEveryAttempt
  /\ NoSilentLoss

--------------------------------------------------------------------------------
(* Sequences. *)

LEMMA AppendFacts ==
  ASSUME NEW q \in Seq(Payload), NEW p \in Payload
  PROVE  /\ Append(q, p) \in Seq(Payload)
         /\ Len(Append(q, p)) = Len(q) + 1
         /\ \A i \in 1 .. Len(q) : Append(q, p)[i] = q[i]
         /\ Append(q, p)[Len(q) + 1] = p
         /\ Len(q) \in Nat
OBVIOUS

LEMMA TailFacts ==
  ASSUME NEW q \in Seq(Payload), q # << >>
  PROVE  /\ Tail(q) \in Seq(Payload)
         /\ Len(Tail(q)) = Len(q) - 1
         /\ Len(q) \in Nat \ {0}
         /\ \A i \in 1 .. Len(q) - 1 : Tail(q)[i] = q[i + 1]
         /\ Head(q) = q[1]
         /\ Head(q) \in Payload
OBVIOUS

LEMMA PayloadFacts ==
  ASSUME NEW p \in Payload
  PROVE  /\ p.job \in Jobs
         /\ p.attempt \in 0 .. MaxAttempts - 1
         /\ MaxAttempts \in Nat \ {0}
         /\ p # NoPayload
BY QueueAssumption DEF Payload, NoPayload

--------------------------------------------------------------------------------
(* The initial state. *)

LEMMA InitIInv == Init => IInv
<1> SUFFICES ASSUME Init PROVE IInv
  OBVIOUS
<1>1. TypeOK
  BY QueueAssumption DEF Init, TypeOK, Points
<1>2. UnsentInv
  BY DEF Init, UnsentInv, Settled, Buried
<1>3. QueueInv
  BY DEF Init, QueueInv
<1>4. HandInv /\ SingleOwner
  BY DEF Init, HandInv, SingleOwner
<1>5. BuriedAfterEveryAttempt
  BY DEF Init, BuriedAfterEveryAttempt
<1>6. NoSilentLoss
  BY DEF Init, NoSilentLoss, Missing
<1>7. QED
  BY <1>1, <1>2, <1>3, <1>4, <1>5, <1>6 DEF IInv

--------------------------------------------------------------------------------
(* Every step preserves the invariant: one lemma per action. *)

LEMMA SubmitStep ==
  ASSUME IInv, NEW j \in Jobs, Submit(j)
  PROVE  IInv'
<1> USE DEF IInv
<1> DEFINE p == [job |-> j, attempt |-> 0]
<1>0. p \in Payload
  BY QueueAssumption DEF Payload
<1>q. /\ Len(queue') = Len(queue) + 1 /\ Len(queue) \in Nat
      /\ \A i \in 1 .. Len(queue) : queue'[i] = queue[i]
      /\ queue'[Len(queue) + 1] = p
      /\ queue' \in Seq(Payload)
  BY <1>0, AppendFacts DEF Submit, TypeOK
<1>s. /\ \A k \in Jobs : Settled(k)' <=> Settled(k)
      /\ \A k \in Jobs : HeldAt(k, Busy)' <=> HeldAt(k, Busy)
  BY DEF Submit, Settled, Buried, HeldAt, loopVars
<1>1. TypeOK'
  BY <1>q DEF Submit, TypeOK, loopVars
<1>2. UnsentInv'
  BY <1>s DEF Submit, UnsentInv
<1>3. QueueInv'
  <2>1. /\ ~Settled(j) /\ failures[j] = 0
    BY DEF UnsentInv, Submit
  <2>2. ~HeldAt(j, Busy)
    BY DEF HandInv, HeldAt, Submit, Busy
  <2>3. \A i \in 1 .. Len(queue) : queue[i].job # j /\ queue[i].job \in Jobs
    BY PayloadFacts DEF QueueInv, Submit, TypeOK
  <2>4. QED
    BY <2>1, <2>2, <2>3, <1>q, <1>s DEF QueueInv, Submit
<1>4. HandInv'
  BY <1>s, PayloadFacts DEF HandInv, Submit, loopVars
<1>5. SingleOwner' /\ BuriedAfterEveryAttempt'
  BY DEF SingleOwner, BuriedAfterEveryAttempt, Submit, loopVars
<1>6. NoSilentLoss'
  <2>1. Waiting(j)'
    BY <1>q DEF Waiting
  <2>2. \A k \in Jobs : Waiting(k) => Waiting(k)'
    BY <1>q DEF Waiting
  <2>3. QED
    BY <2>1, <2>2, <1>s DEF NoSilentLoss, Missing, Submit, Recorded, HeldAt, loopVars
<1>7. QED
  BY <1>1, <1>2, <1>3, <1>4, <1>5, <1>6

\* What a popped payload and the rest of the queue are known to satisfy.
LEMMA HeadOfQueue ==
  ASSUME IInv, Move
  PROVE  /\ Head(queue) \in Payload
         /\ Head(queue).job \in submitted
         /\ ~Settled(Head(queue).job)
         /\ ~HeldAt(Head(queue).job, Busy)
         /\ failures[Head(queue).job] = Head(queue).attempt
         /\ queue' \in Seq(Payload)
         /\ Len(queue') = Len(queue) - 1
         /\ Len(queue) \in Nat \ {0}
         /\ \A i \in 1 .. Len(queue) - 1 :
              queue'[i] = queue[i + 1] /\ queue'[i].job # Head(queue).job
         /\ \A k : Waiting(k) => Waiting(k)' \/ k = Head(queue).job
         /\ processing' = processing \cup {Head(queue)}
<1>1. /\ queue \in Seq(Payload) /\ queue # << >>
      /\ queue' = Tail(queue)
      /\ processing' = processing \cup {Head(queue)}
  BY DEF IInv, TypeOK, Move
<1>2. /\ queue' \in Seq(Payload)
      /\ Len(queue') = Len(queue) - 1
      /\ Len(queue) \in Nat \ {0}
      /\ \A i \in 1 .. Len(queue) - 1 : queue'[i] = queue[i + 1]
      /\ Head(queue) = queue[1]
      /\ Head(queue) \in Payload
  BY <1>1, TailFacts
<1>3. 1 \in 1 .. Len(queue)
  BY <1>2
<1>4. \A i \in 1 .. Len(queue) - 1 : queue'[i].job # Head(queue).job
  BY <1>2, <1>3 DEF IInv, QueueInv
<1>5. \A k : Waiting(k) => Waiting(k)' \/ k = Head(queue).job
  <2> SUFFICES ASSUME NEW k, NEW i \in 1 .. Len(queue), queue[i].job = k, i # 1
               PROVE  Waiting(k)'
    BY <1>2 DEF Waiting
  <2>1. i - 1 \in 1 .. Len(queue') /\ queue'[i - 1] = queue[i]
    BY <1>2
  <2>2. QED
    BY <2>1 DEF Waiting
<1>6. QED
  BY <1>1, <1>2, <1>3, <1>4, <1>5 DEF IInv, QueueInv

LEMMA TakeStep ==
  ASSUME IInv, NEW w \in Workers, Take(w)
  PROVE  IInv'
<1> USE DEF IInv
<1> DEFINE p == Head(queue)
<1>0. Move
  BY DEF Take
<1>q. /\ p \in Payload /\ p.job \in submitted /\ ~Settled(p.job)
      /\ ~HeldAt(p.job, Busy) /\ failures[p.job] = p.attempt
      /\ queue' \in Seq(Payload)
      /\ Len(queue') = Len(queue) - 1 /\ Len(queue) \in Nat \ {0}
      /\ \A i \in 1 .. Len(queue) - 1 :
           queue'[i] = queue[i + 1] /\ queue'[i].job # p.job
      /\ \A k : Waiting(k) => Waiting(k)' \/ k = p.job
      /\ processing' = processing \cup {p}
  BY <1>0, HeadOfQueue
<1>h. /\ pc \in [Workers -> Points] /\ pc[w] = "idle"
      /\ pc' = [pc EXCEPT ![w] = "handling"]
      /\ hand \in [Workers -> Payload \cup {NoPayload}]
      /\ hand' = [hand EXCEPT ![w] = p]
      /\ UNCHANGED <<deadLetters, submitted, done, skipped, failures, faults>>
  BY DEF Take, GoTo, TypeOK, jobVars
<1>s. \A k : Settled(k)' <=> Settled(k)
  BY <1>h DEF Settled, Buried
<1>1. TypeOK'
  BY <1>q, <1>h DEF TypeOK, Points
<1>2. UnsentInv'
  BY <1>s, <1>h DEF UnsentInv
<1>3. QueueInv'
  <2>1. \A k : k # p.job /\ HeldAt(k, Busy)' => HeldAt(k, Busy)
    BY <1>h DEF HeldAt, Busy
  <2>2. \A i \in 1 .. Len(queue') : i + 1 \in 1 .. Len(queue) /\ queue'[i] = queue[i + 1]
    BY <1>q
  <2>3. \A i, k \in 1 .. Len(queue') : queue'[i].job = queue'[k].job => i = k
    BY <2>2, <1>q DEF QueueInv
  <2>4. QED
    BY <2>1, <2>2, <2>3, <1>q, <1>s, <1>h DEF QueueInv
<1>4. HandInv'
  BY <1>q, <1>h, <1>s DEF HandInv
<1>5. SingleOwner'
  BY <1>q, <1>h DEF SingleOwner, HeldAt, Busy, Points
<1>6. BuriedAfterEveryAttempt'
  BY <1>h DEF BuriedAfterEveryAttempt
<1>7. NoSilentLoss'
  <2>1. \A k : k = p.job => Recorded(k)'
    BY <1>q DEF Recorded
  <2>2. \A k : Recorded(k) => Recorded(k)'
    BY <1>q DEF Recorded
  <2>3. \A k : HeldAt(k, {"removed"}) => HeldAt(k, {"removed"})'
    BY <1>h DEF HeldAt
  <2>4. QED
    BY <2>1, <2>2, <2>3, <1>q, <1>h, <1>s DEF NoSilentLoss, Missing
<1>8. QED
  BY <1>1, <1>2, <1>3, <1>4, <1>5, <1>6, <1>7

LEMMA ReplyLostStep ==
  ASSUME IInv, NEW w \in Workers, ReplyLost(w)
  PROVE  IInv'
<1> USE DEF IInv
<1> DEFINE p == Head(queue)
<1>0. Move
  BY DEF ReplyLost
<1>q. /\ p \in Payload /\ p.job \in submitted
      /\ queue' \in Seq(Payload)
      /\ Len(queue') = Len(queue) - 1 /\ Len(queue) \in Nat \ {0}
      /\ \A i \in 1 .. Len(queue) - 1 :
           queue'[i] = queue[i + 1] /\ queue'[i].job # p.job
      /\ \A k : Waiting(k) => Waiting(k)' \/ k = p.job
      /\ processing' = processing \cup {p}
  BY <1>0, HeadOfQueue
<1>h. /\ UNCHANGED <<deadLetters, pc, hand, submitted, done, skipped, failures>>
      /\ faults' = faults + 1 /\ faults < MaxFaults /\ faults \in Nat
  BY QueueAssumption DEF ReplyLost, Fault, TypeOK, jobVars, loopVars
<1>s. \A k : Settled(k)' <=> Settled(k)
  BY <1>h DEF Settled, Buried
<1>k. \A k, S : HeldAt(k, S)' <=> HeldAt(k, S)
  BY <1>h DEF HeldAt
<1>1. TypeOK'
  BY <1>q, <1>h, QueueAssumption DEF TypeOK
<1>2. UnsentInv'
  BY <1>s, <1>h DEF UnsentInv
<1>3. QueueInv'
  <2>1. \A i \in 1 .. Len(queue') : i + 1 \in 1 .. Len(queue) /\ queue'[i] = queue[i + 1]
    BY <1>q
  <2>2. \A i, k \in 1 .. Len(queue') : queue'[i].job = queue'[k].job => i = k
    BY <2>1, <1>q DEF QueueInv
  <2>3. QED
    BY <2>1, <2>2, <1>s, <1>k, <1>h DEF QueueInv
<1>4. HandInv'
  BY <1>q, <1>h, <1>s DEF HandInv
<1>5. SingleOwner' /\ BuriedAfterEveryAttempt'
  BY <1>h DEF SingleOwner, BuriedAfterEveryAttempt
<1>6. NoSilentLoss'
  <2>1. \A k : k = p.job => Recorded(k)'
    BY <1>q DEF Recorded
  <2>2. \A k : Recorded(k) => Recorded(k)'
    BY <1>q DEF Recorded
  <2>3. QED
    BY <2>1, <2>2, <1>q, <1>k, <1>h, <1>s DEF NoSilentLoss, Missing
<1>7. QED
  BY <1>1, <1>2, <1>3, <1>4, <1>5, <1>6

LEMMA SucceedStep ==
  ASSUME IInv, NEW w \in Workers, Succeed(w)
  PROVE  IInv'
<1> USE DEF IInv
<1>0. /\ hand[w] \in Payload /\ hand[w].job \in submitted
      /\ hand[w].job \in Jobs /\ hand[w].attempt \in 0 .. MaxAttempts - 1
      /\ MaxAttempts \in Nat \ {0}
  BY PayloadFacts DEF Succeed, HandInv
<1>h. /\ pc \in [Workers -> Points] /\ pc[w] = "handling"
      /\ hand \in [Workers -> Payload \cup {NoPayload}]
      /\ pc' = [pc EXCEPT ![w] = "acking"]
      /\ done' = done \cup {hand[w].job}
      /\ UNCHANGED <<queue, processing, deadLetters, hand, submitted, skipped, failures, faults>>
  BY DEF Succeed, GoTo, TypeOK, listVars
<1>s. \A k : Settled(k)' <=> (Settled(k) \/ k = hand[w].job)
  BY <1>h DEF Settled, Buried
<1>1. TypeOK'
  BY <1>0, <1>h DEF TypeOK, Points
<1>2. UnsentInv'
  BY <1>0, <1>h, <1>s DEF UnsentInv
<1>3. QueueInv'
  <2>1. \A i \in 1 .. Len(queue) : queue[i].job # hand[w].job
    BY <1>h DEF QueueInv, HeldAt, Busy, Points
  <2>2. \A k : HeldAt(k, Busy)' => HeldAt(k, Busy)
    BY <1>h DEF HeldAt, Busy, Points
  <2>3. QED
    BY <2>1, <2>2, <1>h, <1>s DEF QueueInv
<1>4. HandInv'
  BY <1>0, <1>h, <1>s DEF HandInv, SingleOwner
<1>5. SingleOwner'
  BY <1>h DEF SingleOwner
<1>6. BuriedAfterEveryAttempt'
  BY <1>0, <1>h DEF BuriedAfterEveryAttempt, HandInv, Settled, Buried
<1>7. NoSilentLoss'
  <2>1. \A k : HeldAt(k, {"removed"}) => HeldAt(k, {"removed"})'
    BY <1>h DEF HeldAt
  <2>2. QED
    BY <2>1, <1>h, <1>s DEF NoSilentLoss, Missing, Recorded, Waiting
<1>8. QED
  BY <1>1, <1>2, <1>3, <1>4, <1>5, <1>6, <1>7

LEMMA ReturnSilentlyStep ==
  ASSUME IInv, NEW w \in Workers, ReturnSilently(w)
  PROVE  IInv'
<1> USE DEF IInv
<1>0. /\ hand[w] \in Payload /\ hand[w].job \in submitted
      /\ hand[w].job \in Jobs /\ hand[w].attempt \in 0 .. MaxAttempts - 1
      /\ MaxAttempts \in Nat \ {0}
  BY PayloadFacts DEF ReturnSilently, HandInv
<1>h. /\ pc \in [Workers -> Points] /\ pc[w] = "handling"
      /\ hand \in [Workers -> Payload \cup {NoPayload}]
      /\ pc' = [pc EXCEPT ![w] = "idle"]
      /\ hand' = [hand EXCEPT ![w] = NoPayload]
      /\ skipped' = skipped \cup {hand[w].job}
      /\ UNCHANGED <<queue, processing, deadLetters, submitted, done, failures, faults>>
  BY DEF ReturnSilently, GoIdle, GoTo, TypeOK, listVars
<1>s. \A k : Settled(k)' <=> (Settled(k) \/ k = hand[w].job)
  BY <1>h DEF Settled, Buried
<1>1. TypeOK'
  BY <1>0, <1>h DEF TypeOK, Points
<1>2. UnsentInv'
  BY <1>0, <1>h, <1>s DEF UnsentInv
<1>3. QueueInv'
  <2>1. \A i \in 1 .. Len(queue) : queue[i].job # hand[w].job
    BY <1>h DEF QueueInv, HeldAt, Busy, Points
  <2>2. \A k : HeldAt(k, Busy)' => HeldAt(k, Busy)
    BY <1>h DEF HeldAt, Busy
  <2>3. QED
    BY <2>1, <2>2, <1>h, <1>s DEF QueueInv
<1>4. HandInv'
  BY <1>0, <1>h, <1>s DEF HandInv, SingleOwner
<1>5. SingleOwner'
  BY <1>h DEF SingleOwner
<1>6. BuriedAfterEveryAttempt'
  BY <1>0, <1>h DEF BuriedAfterEveryAttempt, HandInv, Settled, Buried
<1>7. NoSilentLoss'
  <2>1. \A k : HeldAt(k, {"removed"}) => HeldAt(k, {"removed"})'
    BY <1>h DEF HeldAt
  <2>2. QED
    BY <2>1, <1>h, <1>s DEF NoSilentLoss, Missing, Recorded, Waiting
<1>8. QED
  BY <1>1, <1>2, <1>3, <1>4, <1>5, <1>6, <1>7

LEMMA FailStep ==
  ASSUME IInv, NEW w \in Workers, Fail(w)
  PROVE  IInv'
<1> USE DEF IInv
<1>0. /\ hand[w] \in Payload /\ hand[w].job \in submitted
      /\ hand[w].job \in Jobs /\ hand[w].attempt \in 0 .. MaxAttempts - 1
      /\ MaxAttempts \in Nat \ {0}
  BY PayloadFacts DEF Fail, HandInv
<1>h. /\ pc \in [Workers -> Points] /\ pc[w] = "handling"
      /\ hand \in [Workers -> Payload \cup {NoPayload}]
      /\ pc' = [pc EXCEPT ![w] = "failed"]
      /\ failures' = [failures EXCEPT ![hand[w].job] = @ + 1]
      /\ UNCHANGED <<queue, processing, deadLetters, hand, submitted, done, skipped, faults>>
  BY DEF Fail, GoTo, TypeOK, listVars
<1>s. \A k : Settled(k)' <=> Settled(k)
  BY <1>h DEF Settled, Buried
<1>f. /\ failures \in [Jobs -> 0 .. MaxAttempts]
      /\ failures[hand[w].job] = hand[w].attempt
  BY <1>h DEF HandInv, TypeOK
<1>1. TypeOK'
  BY <1>0, <1>h, <1>f DEF TypeOK, Points
<1>2. UnsentInv'
  BY <1>0, <1>h, <1>s DEF UnsentInv
<1>3. QueueInv'
  <2>1. \A i \in 1 .. Len(queue) : queue[i].job # hand[w].job
    BY <1>h DEF QueueInv, HeldAt, Busy, Points
  <2>2. \A k : HeldAt(k, Busy)' => HeldAt(k, Busy)
    BY <1>h DEF HeldAt, Busy, Points
  <2>3. QED
    BY <2>1, <2>2, <1>h, <1>f, <1>s DEF QueueInv
<1>4. HandInv'
  BY <1>0, <1>h, <1>s, <1>f DEF HandInv, SingleOwner
<1>5. SingleOwner'
  BY <1>h DEF SingleOwner
<1>6. BuriedAfterEveryAttempt'
  <2>1. \A p \in deadLetters : p.job # hand[w].job
    BY <1>h DEF HandInv, Settled, Buried
  <2>2. QED
    BY <2>1, <1>0, <1>h, <1>f DEF BuriedAfterEveryAttempt
<1>7. NoSilentLoss'
  <2>1. \A k : HeldAt(k, {"removed"}) => HeldAt(k, {"removed"})'
    BY <1>h DEF HeldAt
  <2>2. QED
    BY <2>1, <1>0, <1>f, <1>h, <1>s DEF NoSilentLoss, Missing, Recorded, Waiting
<1>8. QED
  BY <1>1, <1>2, <1>3, <1>4, <1>5, <1>6, <1>7

LEMMA AcknowledgeStep ==
  ASSUME IInv, NEW w \in Workers, Acknowledge(w)
  PROVE  IInv'
<1> USE DEF IInv
<1>0. /\ hand[w] \in Payload /\ hand[w].job \in submitted
      /\ hand[w].job \in Jobs /\ hand[w].attempt \in 0 .. MaxAttempts - 1
      /\ MaxAttempts \in Nat \ {0}
  BY PayloadFacts DEF Acknowledge, HandInv
<1>h. /\ pc \in [Workers -> Points] /\ pc[w] = "acking"
      /\ hand \in [Workers -> Payload \cup {NoPayload}]
      /\ pc' = [pc EXCEPT ![w] = "idle"]
      /\ hand' = [hand EXCEPT ![w] = NoPayload]
      /\ processing' = processing \ {hand[w]}
      /\ UNCHANGED <<queue, deadLetters, submitted, done, skipped, failures, faults>>
  BY DEF Acknowledge, GoIdle, GoTo, TypeOK, jobVars
<1>s. \A k : Settled(k)' <=> Settled(k)
  BY <1>h DEF Settled, Buried
<1>1. TypeOK'
  BY <1>0, <1>h DEF TypeOK, Points
<1>2. UnsentInv'
  BY <1>0, <1>h, <1>s DEF UnsentInv
<1>3. QueueInv'
  <2>1. \A i \in 1 .. Len(queue) : queue[i].job # hand[w].job
    BY <1>h DEF QueueInv, HeldAt, Busy, Points
  <2>2. \A k : HeldAt(k, Busy)' => HeldAt(k, Busy)
    BY <1>h DEF HeldAt, Busy
  <2>3. QED
    BY <2>1, <2>2, <1>h, <1>s DEF QueueInv
<1>4. HandInv'
  BY <1>0, <1>h, <1>s DEF HandInv, SingleOwner
<1>5. SingleOwner'
  BY <1>h DEF SingleOwner
<1>6. BuriedAfterEveryAttempt'
  BY <1>h DEF BuriedAfterEveryAttempt
<1>7. NoSilentLoss'
  <2>1. \A k : HeldAt(k, {"removed"}) => HeldAt(k, {"removed"})'
    BY <1>h DEF HeldAt
  <2>2. Settled(hand[w].job)
    BY <1>h DEF HandInv, Settled
  <2>3. \A k : k # hand[w].job /\ Recorded(k) => Recorded(k)'
    BY <1>h DEF Recorded
  <2>4. QED
    BY <2>1, <2>2, <2>3, <1>h, <1>s DEF NoSilentLoss, Missing, Waiting
<1>8. QED
  BY <1>1, <1>2, <1>3, <1>4, <1>5, <1>6, <1>7

LEMMA RemoveOldStep ==
  ASSUME IInv, NEW w \in Workers, RemoveOld(w)
  PROVE  IInv'
<1> USE DEF IInv
<1>0. /\ hand[w] \in Payload /\ hand[w].job \in submitted
      /\ hand[w].job \in Jobs /\ hand[w].attempt \in 0 .. MaxAttempts - 1
      /\ MaxAttempts \in Nat \ {0}
  BY PayloadFacts DEF RemoveOld, HandInv
<1>h. /\ pc \in [Workers -> Points] /\ pc[w] = "failed"
      /\ hand \in [Workers -> Payload \cup {NoPayload}]
      /\ pc' = [pc EXCEPT ![w] = "removed"]
      /\ processing' = processing \ {hand[w]}
      /\ UNCHANGED <<queue, deadLetters, hand, submitted, done, skipped, failures, faults>>
  BY DEF RemoveOld, GoTo, TypeOK, jobVars
<1>s. \A k : Settled(k)' <=> Settled(k)
  BY <1>h DEF Settled, Buried
<1>1. TypeOK'
  BY <1>0, <1>h DEF TypeOK, Points
<1>2. UnsentInv'
  BY <1>0, <1>h, <1>s DEF UnsentInv
<1>3. QueueInv'
  <2>1. \A i \in 1 .. Len(queue) : queue[i].job # hand[w].job
    BY <1>h DEF QueueInv, HeldAt, Busy, Points
  <2>2. \A k : HeldAt(k, Busy)' => HeldAt(k, Busy)
    BY <1>h DEF HeldAt, Busy, Points
  <2>3. QED
    BY <2>1, <2>2, <1>h, <1>s DEF QueueInv
<1>4. HandInv'
  BY <1>0, <1>h, <1>s DEF HandInv, SingleOwner
<1>5. SingleOwner'
  BY <1>h DEF SingleOwner
<1>6. BuriedAfterEveryAttempt'
  BY <1>h DEF BuriedAfterEveryAttempt
<1>7. NoSilentLoss'
  <2>1. \A k : HeldAt(k, {"removed"}) \/ k = hand[w].job => HeldAt(k, {"removed"})'
    BY <1>h DEF HeldAt
  <2>2. \A k : k # hand[w].job /\ Recorded(k) => Recorded(k)'
    BY <1>h DEF Recorded
  <2>3. QED
    BY <2>1, <2>2, <1>h, <1>s DEF NoSilentLoss, Missing, Waiting
<1>8. QED
  BY <1>1, <1>2, <1>3, <1>4, <1>5, <1>6, <1>7

LEMMA RemoveOldFailsStep ==
  ASSUME IInv, NEW w \in Workers, RemoveOldFails(w)
  PROVE  IInv'
<1> USE DEF IInv
<1>0. /\ hand[w] \in Payload /\ hand[w].job \in submitted
      /\ hand[w].job \in Jobs /\ hand[w].attempt \in 0 .. MaxAttempts - 1
      /\ MaxAttempts \in Nat \ {0}
  BY PayloadFacts DEF RemoveOldFails, HandInv
<1>h. /\ pc \in [Workers -> Points] /\ pc[w] = "failed"
      /\ hand \in [Workers -> Payload \cup {NoPayload}]
      /\ pc' = [pc EXCEPT ![w] = "removed"]
      /\ faults' = faults + 1 /\ faults < MaxFaults
      /\ UNCHANGED <<queue, processing, deadLetters, hand, submitted, done, skipped, failures>>
  BY DEF RemoveOldFails, Fault, GoTo, TypeOK, jobVars, listVars
<1>s. \A k : Settled(k)' <=> Settled(k)
  BY <1>h DEF Settled, Buried
<1>f. faults \in 0 .. MaxFaults /\ MaxFaults \in Nat
  BY QueueAssumption DEF TypeOK
<1>1. TypeOK'
  BY <1>0, <1>h, <1>f DEF TypeOK, Points
<1>2. UnsentInv'
  BY <1>0, <1>h, <1>s DEF UnsentInv
<1>3. QueueInv'
  <2>1. \A i \in 1 .. Len(queue) : queue[i].job # hand[w].job
    BY <1>h DEF QueueInv, HeldAt, Busy, Points
  <2>2. \A k : HeldAt(k, Busy)' => HeldAt(k, Busy)
    BY <1>h DEF HeldAt, Busy, Points
  <2>3. QED
    BY <2>1, <2>2, <1>h, <1>s DEF QueueInv
<1>4. HandInv'
  BY <1>0, <1>h, <1>s DEF HandInv, SingleOwner
<1>5. SingleOwner'
  BY <1>h DEF SingleOwner
<1>6. BuriedAfterEveryAttempt'
  BY <1>h DEF BuriedAfterEveryAttempt
<1>7. NoSilentLoss'
  <2>1. \A k : HeldAt(k, {"removed"}) => HeldAt(k, {"removed"})'
    BY <1>h DEF HeldAt
  <2>2. QED
    BY <2>1, <1>f, <1>h, <1>s DEF NoSilentLoss, Missing, Recorded, Waiting
<1>8. QED
  BY <1>1, <1>2, <1>3, <1>4, <1>5, <1>6, <1>7

LEMMA CrashStep ==
  ASSUME IInv, NEW w \in Workers, Crash(w)
  PROVE  IInv'
<1> USE DEF IInv
<1>0. /\ hand[w] \in Payload /\ hand[w].job \in submitted
      /\ hand[w].job \in Jobs /\ hand[w].attempt \in 0 .. MaxAttempts - 1
      /\ MaxAttempts \in Nat \ {0}
  BY PayloadFacts DEF Crash, HandInv
<1>h. /\ pc \in [Workers -> Points] /\ pc[w] # "idle"
      /\ hand \in [Workers -> Payload \cup {NoPayload}]
      /\ pc' = [pc EXCEPT ![w] = "idle"]
      /\ hand' = [hand EXCEPT ![w] = NoPayload]
      /\ faults' = faults + 1 /\ faults < MaxFaults
      /\ UNCHANGED <<queue, processing, deadLetters, submitted, done, skipped, failures>>
  BY DEF Crash, Fault, GoIdle, GoTo, TypeOK, jobVars, listVars
<1>s. \A k : Settled(k)' <=> Settled(k)
  BY <1>h DEF Settled, Buried
<1>f. faults \in 0 .. MaxFaults /\ MaxFaults \in Nat
  BY QueueAssumption DEF TypeOK
<1>1. TypeOK'
  BY <1>0, <1>h, <1>f DEF TypeOK, Points
<1>2. UnsentInv'
  BY <1>0, <1>h, <1>s DEF UnsentInv
<1>3. QueueInv'
  <2>1. \A i \in 1 .. Len(queue) : queue[i].job # hand[w].job
    BY <1>h DEF QueueInv, HeldAt, Busy, Points
  <2>2. \A k : HeldAt(k, Busy)' => HeldAt(k, Busy)
    BY <1>h DEF HeldAt, Busy
  <2>3. QED
    BY <2>1, <2>2, <1>h, <1>s DEF QueueInv
<1>4. HandInv'
  BY <1>0, <1>h, <1>s DEF HandInv, SingleOwner
<1>5. SingleOwner'
  BY <1>h DEF SingleOwner
<1>6. BuriedAfterEveryAttempt'
  BY <1>h DEF BuriedAfterEveryAttempt
<1>7. NoSilentLoss'
  <2>1. \A k : k # hand[w].job /\ HeldAt(k, {"removed"}) => HeldAt(k, {"removed"})'
    BY <1>h DEF HeldAt
  <2>2. CASE pc[w] = "removed"
    BY <2>1, <2>2, <1>0, <1>f, <1>h, <1>s
       DEF NoSilentLoss, Missing, Recorded, Waiting, HandInv
  <2>3. CASE pc[w] # "removed"
    <3>1. Recorded(hand[w].job) \/ Settled(hand[w].job)
      BY <2>3, <1>h DEF HandInv, Recorded, Settled, Points
    <3>2. QED
      BY <3>1, <2>1, <1>f, <1>h, <1>s DEF NoSilentLoss, Missing, Recorded, Waiting
  <2>4. QED
    BY <2>2, <2>3
<1>8. QED
  BY <1>1, <1>2, <1>3, <1>4, <1>5, <1>6, <1>7

\* A failed command that ends the handling is, for the state, a crash.
LEMMA CommandFailsStep ==
  ASSUME IInv, NEW w \in Workers, AcknowledgeFails(w) \/ ReaddFails(w)
  PROVE  IInv'
<1>1. Crash(w)
  BY DEF AcknowledgeFails, ReaddFails, Crash
<1>2. QED
  BY <1>1, CrashStep

LEMMA BuryStep ==
  ASSUME IInv, NEW w \in Workers, Bury(w)
  PROVE  IInv'
<1> USE DEF IInv
<1>0. /\ hand[w] \in Payload /\ hand[w].job \in submitted
      /\ hand[w].job \in Jobs /\ hand[w].attempt \in 0 .. MaxAttempts - 1
      /\ MaxAttempts \in Nat \ {0}
  BY PayloadFacts DEF Bury, HandInv
<1>h. /\ pc \in [Workers -> Points] /\ pc[w] = "removed"
      /\ hand \in [Workers -> Payload \cup {NoPayload}]
      /\ pc' = [pc EXCEPT ![w] = "idle"]
      /\ hand' = [hand EXCEPT ![w] = NoPayload]
      /\ deadLetters' = deadLetters \cup {hand[w]}
      /\ hand[w].attempt + 1 = MaxAttempts
      /\ UNCHANGED <<queue, processing, submitted, done, skipped, failures, faults>>
  BY DEF Bury, GoIdle, GoTo, TypeOK, jobVars
<1>s. \A k : Settled(k)' <=> (Settled(k) \/ k = hand[w].job)
  BY <1>h DEF Settled, Buried
<1>1. TypeOK'
  BY <1>0, <1>h DEF TypeOK, Points
<1>2. UnsentInv'
  BY <1>0, <1>h, <1>s DEF UnsentInv
<1>3. QueueInv'
  <2>1. \A i \in 1 .. Len(queue) : queue[i].job # hand[w].job
    BY <1>h DEF QueueInv, HeldAt, Busy, Points
  <2>2. \A k : HeldAt(k, Busy)' => HeldAt(k, Busy)
    BY <1>h DEF HeldAt, Busy
  <2>3. QED
    BY <2>1, <2>2, <1>h, <1>s DEF QueueInv
<1>4. HandInv'
  BY <1>0, <1>h, <1>s DEF HandInv, SingleOwner
<1>5. SingleOwner'
  BY <1>h DEF SingleOwner
<1>6. BuriedAfterEveryAttempt'
  BY <1>0, <1>h DEF BuriedAfterEveryAttempt, HandInv, Settled
<1>7. NoSilentLoss'
  <2>1. \A k : k # hand[w].job /\ HeldAt(k, {"removed"}) => HeldAt(k, {"removed"})'
    BY <1>h DEF HeldAt
  <2>2. QED
    BY <2>1, <1>h, <1>s DEF NoSilentLoss, Missing, Recorded, Waiting
<1>8. QED
  BY <1>1, <1>2, <1>3, <1>4, <1>5, <1>6, <1>7

LEMMA RequeueStep ==
  ASSUME IInv, NEW w \in Workers, Requeue(w)
  PROVE  IInv'
<1> USE DEF IInv
<1>0. /\ hand[w] \in Payload /\ hand[w].job \in submitted
      /\ hand[w].job \in Jobs /\ hand[w].attempt \in 0 .. MaxAttempts - 1
      /\ MaxAttempts \in Nat \ {0}
  BY PayloadFacts DEF Requeue, HandInv
<1>h. /\ pc \in [Workers -> Points] /\ pc[w] = "removed"
      /\ hand \in [Workers -> Payload \cup {NoPayload}]
      /\ pc' = [pc EXCEPT ![w] = "idle"]
      /\ hand' = [hand EXCEPT ![w] = NoPayload]
      /\ queue' = Append(queue, [hand[w] EXCEPT !.attempt = @ + 1])
      /\ hand[w].attempt + 1 # MaxAttempts
      /\ UNCHANGED <<processing, deadLetters, submitted, done, skipped, failures, faults>>
  BY DEF Requeue, GoIdle, GoTo, TypeOK, jobVars
<1>s. \A k : Settled(k)' <=> Settled(k)
  BY <1>h DEF Settled, Buried
<1> DEFINE new == [hand[w] EXCEPT !.attempt = @ + 1]
<1>n. /\ new \in Payload /\ new.job = hand[w].job
      /\ new.attempt = hand[w].attempt + 1
  BY <1>0, <1>h DEF Payload
<1>q. /\ queue \in Seq(Payload) /\ queue' \in Seq(Payload)
      /\ Len(queue') = Len(queue) + 1 /\ Len(queue) \in Nat
      /\ \A i \in 1 .. Len(queue) : queue'[i] = queue[i]
      /\ queue'[Len(queue) + 1] = new
  BY <1>n, <1>h, AppendFacts DEF TypeOK
<1> HIDE DEF new
<1>1. TypeOK'
  BY <1>0, <1>h, <1>q DEF TypeOK, Points
<1>2. UnsentInv'
  BY <1>0, <1>h, <1>s DEF UnsentInv
<1>3. QueueInv'
  <2>1. \A i \in 1 .. Len(queue) : queue[i].job # hand[w].job
    BY <1>h DEF QueueInv, HeldAt, Busy, Points
  <2>2. \A k : HeldAt(k, Busy)' => HeldAt(k, Busy) /\ k # hand[w].job
    BY <1>h DEF HeldAt, Busy, SingleOwner
  <2>3. \A i, k \in 1 .. Len(queue') : queue'[i].job = queue'[k].job => i = k
    BY <2>1, <1>q, <1>n DEF QueueInv
  <2>4. /\ hand[w].job \in submitted /\ ~Settled(hand[w].job)
        /\ failures[hand[w].job] = hand[w].attempt + 1
    BY <1>h DEF HandInv
  <2>5. ASSUME NEW i \in 1 .. Len(queue')
        PROVE  /\ queue'[i].job \in submitted
               /\ ~Settled(queue'[i].job)
               /\ queue'[i].job = hand[w].job \/ ~HeldAt(queue'[i].job, Busy)
               /\ failures[queue'[i].job] = queue'[i].attempt
    <3>1. CASE i \in 1 .. Len(queue)
      BY <3>1, <1>q DEF QueueInv
    <3>2. CASE i = Len(queue) + 1
      BY <3>2, <1>q, <1>n, <2>4
    <3>3. QED
      BY <3>1, <3>2, <1>q
  <2>6. QED
    BY <2>2, <2>3, <2>5, <1>h, <1>s DEF QueueInv
<1>4. HandInv'
  BY <1>0, <1>h, <1>s DEF HandInv, SingleOwner
<1>5. SingleOwner'
  BY <1>h DEF SingleOwner
<1>6. BuriedAfterEveryAttempt'
  BY <1>h DEF BuriedAfterEveryAttempt
<1>7. NoSilentLoss'
  <2>1. \A k : k # hand[w].job /\ HeldAt(k, {"removed"}) => HeldAt(k, {"removed"})'
    BY <1>h DEF HeldAt
  <2>2. ASSUME NEW k, Waiting(k) \/ k = hand[w].job PROVE Waiting(k)'
    <3>1. CASE k = hand[w].job
      BY <3>1, <1>q, <1>n DEF Waiting
    <3>2. CASE Waiting(k)
      BY <3>2, <1>q DEF Waiting
    <3>3. QED
      BY <2>2, <3>1, <3>2
  <2>3. QED
    BY <2>1, <2>2, <1>h, <1>s DEF NoSilentLoss, Missing, Recorded
<1>8. QED
  BY <1>1, <1>2, <1>3, <1>4, <1>5, <1>6, <1>7

LEMMA StutterStep ==
  ASSUME IInv, UNCHANGED vars
  PROVE  IInv'
<1> USE DEF vars, listVars, loopVars, jobVars, Settled, Buried
<1>1. TypeOK' /\ UnsentInv'
  BY DEF IInv, TypeOK, UnsentInv
<1>2. QueueInv'
  BY DEF IInv, QueueInv, HeldAt
<1>3. HandInv' /\ SingleOwner' /\ BuriedAfterEveryAttempt'
  BY DEF IInv, HandInv, SingleOwner, BuriedAfterEveryAttempt
<1>4. NoSilentLoss'
  BY DEF IInv, NoSilentLoss, Missing, HeldAt, Waiting, Recorded
<1>5. QED
  BY <1>1, <1>2, <1>3, <1>4 DEF IInv

--------------------------------------------------------------------------------
LEMMA Inductive == IInv /\ [Next]_vars => IInv'
<1> SUFFICES ASSUME IInv, [Next]_vars PROVE IInv'
  OBVIOUS
<1>1. CASE \E j \in Jobs : Submit(j)
  BY <1>1, SubmitStep
<1>2. ASSUME NEW w \in Workers, LoopStep(w) PROVE IInv'
  BY <1>2, TakeStep, SucceedStep, ReturnSilentlyStep, FailStep,
     AcknowledgeStep, RemoveOldStep, RequeueStep, BuryStep DEF LoopStep
<1>3. ASSUME NEW w \in Workers, FaultStep(w) PROVE IInv'
  BY <1>3, ReplyLostStep, RemoveOldFailsStep, CommandFailsStep, CrashStep
     DEF FaultStep
<1>4. CASE UNCHANGED vars
  BY <1>4, StutterStep
<1>5. QED
  BY <1>1, <1>2, <1>3, <1>4 DEF Next

THEOREM InductiveInvariant == Spec => []IInv
BY InitIInv, Inductive, PTL DEF Spec

\* Every variable keeps its type; in particular no job fails more than
\* MaxAttempts times and no payload carries a larger attempt number.
THEOREM TypeCorrect == Spec => []TypeOK
<1>1. IInv => TypeOK
  BY DEF IInv
<1>2. QED
  BY <1>1, InductiveInvariant, PTL

\* However many workers poll the queue, a job is never handled by two at once.
THEOREM OneOwner == Spec => []SingleOwner
<1>1. IInv => SingleOwner
  BY DEF IInv
<1>2. QED
  BY <1>1, InductiveInvariant, PTL

\* What readd_error_to_queue puts on the dead letter list used up every
\* attempt and never succeeded.
THEOREM DeadLettersExhausted == Spec => []BuriedAfterEveryAttempt
<1>1. IInv => BuriedAfterEveryAttempt
  BY DEF IInv
<1>2. QED
  BY <1>1, InductiveInvariant, PTL

\* A job vanishes only in the LREM / LPUSH window of a failed attempt.
THEOREM LossOnlyWhileRequeueing == Spec => []NoSilentLoss
<1>1. IInv => NoSilentLoss
  BY DEF IInv
<1>2. QED
  BY <1>1, InductiveInvariant, PTL
--------------------------------------------------------------------------------
(* The protocol implements the ledger.                                    *)

\* No job is settled in two ways: BuriedAfterEveryAttempt has the rest.
SettledOnce == done \cap skipped = {}

LInv == IInv /\ SettledOnce

LEMMA LedgerInvariant == Spec => []LInv
<1>1. Init => SettledOnce
  BY DEF Init, SettledOnce
<1>2. IInv /\ SettledOnce /\ [Next]_vars => SettledOnce'
  <2> SUFFICES ASSUME IInv, SettledOnce, [Next]_vars PROVE SettledOnce'
    OBVIOUS
  <2> USE DEF SettledOnce
  <2>1. ASSUME NEW w \in Workers, Succeed(w) PROVE SettledOnce'
    BY <2>1 DEF IInv, HandInv, Settled, Succeed
  <2>2. ASSUME NEW w \in Workers, ReturnSilently(w) PROVE SettledOnce'
    BY <2>2 DEF IInv, HandInv, Settled, ReturnSilently
  <2>3. CASE UNCHANGED <<done, skipped>>
    BY <2>3
  <2>4. QED
    BY <2>1, <2>2, <2>3 DEF Next, LoopStep, FaultStep, vars, jobVars, Submit, Take, Fail,
       Acknowledge, RemoveOld, Requeue, Bury, ReplyLost, AcknowledgeFails, RemoveOldFails,
       ReaddFails, Crash
<1>3. QED
  BY <1>1, <1>2, InductiveInvariant, PTL DEF Spec, LInv

\* Where the lists and the workers put a job in the ledger.
StatusTable ==
  \A j \in Jobs :
    /\ j \notin submitted => Status(j) = "unsent"
    /\ j \in done => Status(j) = "done"
    /\ j \in skipped => Status(j) = "skipped"
    /\ Buried(j) => Status(j) = "dead"
    /\ Waiting(j) => Status(j) = "waiting"
    /\ HeldAt(j, {"handling"}) => Status(j) = "running"
    /\ HeldAt(j, {"failed", "removed"}) => Status(j) = "failing"
    /\ /\ j \in submitted /\ ~Settled(j) /\ ~Waiting(j)
       /\ ~HeldAt(j, {"handling"}) /\ ~HeldAt(j, {"failed", "removed"})
       => Status(j) = IF Recorded(j) THEN "stranded" ELSE "lost"

LEMMA StatusFacts == LInv => StatusTable
<1> SUFFICES ASSUME LInv PROVE StatusTable
  OBVIOUS
<1> SUFFICES ASSUME NEW j \in Jobs
    PROVE /\ j \notin submitted => Status(j) = "unsent"
          /\ j \in done => Status(j) = "done"
          /\ j \in skipped => Status(j) = "skipped"
          /\ Buried(j) => Status(j) = "dead"
          /\ Waiting(j) => Status(j) = "waiting"
          /\ HeldAt(j, {"handling"}) => Status(j) = "running"
          /\ HeldAt(j, {"failed", "removed"}) => Status(j) = "failing"
          /\ /\ j \in submitted /\ ~Settled(j) /\ ~Waiting(j)
             /\ ~HeldAt(j, {"handling"}) /\ ~HeldAt(j, {"failed", "removed"})
             => Status(j) = IF Recorded(j) THEN "stranded" ELSE "lost"
  BY DEF StatusTable
<1>1. j \notin submitted => ~Settled(j)
  BY DEF LInv, IInv, UnsentInv
<1>2. /\ j \in done => j \notin skipped /\ ~Buried(j)
      /\ j \in skipped => ~Buried(j)
  BY DEF LInv, IInv, SettledOnce, BuriedAfterEveryAttempt, Buried
<1>3. Waiting(j) => /\ j \in submitted /\ ~Settled(j)
                    /\ ~HeldAt(j, {"handling"}) /\ ~HeldAt(j, {"failed", "removed"})
  BY DEF LInv, IInv, QueueInv, Waiting, HeldAt, Busy, Points
<1>4. HeldAt(j, {"handling"}) => j \in submitted /\ ~Settled(j) /\ ~HeldAt(j, {"failed", "removed"})
  BY DEF LInv, IInv, HandInv, SingleOwner, HeldAt
<1>5. HeldAt(j, {"failed", "removed"}) => j \in submitted /\ ~Settled(j)
  BY DEF LInv, IInv, HandInv, HeldAt
<1>6. QED
  BY <1>1, <1>2, <1>3, <1>4, <1>5 DEF Status, Settled

LEMMA StatusFactsNext == LInv' => StatusTable'
BY StatusFacts, PTL

\* A step leaves everything the ledger reads of job k as it is.
Same(k) ==
  /\ (k \in submitted)' <=> (k \in submitted)
  /\ (k \in done)' <=> (k \in done)
  /\ (k \in skipped)' <=> (k \in skipped)
  /\ Buried(k)' <=> Buried(k)
  /\ Waiting(k)' <=> Waiting(k)
  /\ Recorded(k)' <=> Recorded(k)
  /\ HeldAt(k, {"handling"})' <=> HeldAt(k, {"handling"})
  /\ HeldAt(k, {"failed", "removed"})' <=> HeldAt(k, {"failed", "removed"})

LEMMA SameStatus ==
  ASSUME NEW k, Same(k)
  PROVE  Status(k)' = Status(k)
BY DEF Same, Status, Settled

\* One worker's step does not change who holds the jobs it does not touch.
LEMMA HeldFrame ==
  ASSUME TypeOK, NEW w \in Workers, NEW p \in Points, NEW h,
         pc' = [pc EXCEPT ![w] = p], hand' = [hand EXCEPT ![w] = h],
         NEW k, NEW at,
         pc[w] \notin at \/ hand[w].job # k, p \notin at \/ h.job # k
  PROVE  HeldAt(k, at)' <=> HeldAt(k, at)
BY DEF HeldAt, TypeOK

\* The ledger's view of a step that moves one job, and of one that moves none.
LEMMA MoveOf ==
  ASSUME NEW j \in Jobs, \A k \in Jobs \ {j} : Same(k),
         NEW from, NEW to, Status(j) = from, Status(j)' = to
  PROVE  Ledger!Move(j, from, to)
BY SameStatus DEF Ledger!Move

LEMMA NoMove ==
  ASSUME NEW j \in Jobs, \A k \in Jobs \ {j} : Same(k),
         Status(j)' = Status(j), failures' = failures
  PROVE  UNCHANGED Ledger!ledgerVars
BY SameStatus DEF Ledger!ledgerVars

LEMMA SubmitLedger ==
  ASSUME LInv, LInv', NEW j \in Jobs, Submit(j)
  PROVE  Ledger!Send(j)
<1> USE DEF LInv, IInv
<1> DEFINE p == [job |-> j, attempt |-> 0]
<1>0. p \in Payload
  BY QueueAssumption DEF Payload
<1>q. /\ Len(queue') = Len(queue) + 1 /\ Len(queue) \in Nat
      /\ \A i \in 1 .. Len(queue) : queue'[i] = queue[i]
      /\ queue'[Len(queue) + 1] = p
  BY <1>0, AppendFacts DEF Submit, TypeOK
<1>1. \A k \in Jobs \ {j} : Same(k)
  BY <1>q DEF Same, Submit, loopVars, Buried, Waiting, Recorded, HeldAt
<1>2. Waiting(j)'
  BY <1>q DEF Waiting
<1>3. Status(j) = "unsent" /\ Status(j)' = "waiting"
  BY <1>2, StatusFacts, StatusFactsNext DEF StatusTable, Submit
<1>4. QED
  BY <1>1, <1>3, MoveOf DEF Ledger!Send, Ledger!Keep, Submit

\* The queue without its head.
LEMMA PoppedFrame ==
  ASSUME IInv, Move, NEW k, k # Head(queue).job
  PROVE  /\ Waiting(k)' <=> Waiting(k)
         /\ Recorded(k)' <=> Recorded(k)
<1>1. /\ Len(queue') = Len(queue) - 1 /\ Len(queue) \in Nat \ {0}
      /\ \A i \in 1 .. Len(queue) - 1 : queue'[i] = queue[i + 1]
      /\ Waiting(k) => Waiting(k)'
      /\ processing' = processing \cup {Head(queue)}
  BY HeadOfQueue
<1>2. ASSUME Waiting(k)' PROVE Waiting(k)
  <2>1. PICK i \in 1 .. Len(queue') : queue'[i].job = k
    BY <1>2 DEF Waiting
  <2>2. i + 1 \in 1 .. Len(queue) /\ queue[i + 1].job = k
    BY <1>1, <2>1
  <2>3. QED
    BY <2>2 DEF Waiting
<1>3. Recorded(k)' <=> Recorded(k)
  BY <1>1 DEF Recorded
<1>4. QED
  BY <1>1, <1>2, <1>3

LEMMA HeadWaits ==
  ASSUME LInv, Move, NEW j, j = Head(queue).job
  PROVE  /\ j \in Jobs
         /\ Status(j) = "waiting"
         /\ ~Waiting(j)'
<1>1. Head(queue) \in Payload /\ j \in Jobs /\ Len(queue) \in Nat \ {0}
  BY HeadOfQueue, PayloadFacts DEF LInv
<1>2. Head(queue) = queue[1]
  BY DEF Move
<1>3. Waiting(j)
  BY <1>1, <1>2 DEF Waiting
<1>4. ~Waiting(j)'
  BY HeadOfQueue DEF LInv, Waiting
<1>5. QED
  BY <1>1, <1>3, <1>4, StatusFacts DEF StatusTable

LEMMA TakeLedger ==
  ASSUME LInv, LInv', NEW w \in Workers, Take(w)
  PROVE  \E j \in Jobs : Ledger!Start(j)
<1>0. LInv /\ IInv /\ TypeOK /\ Move
  BY DEF LInv, IInv, Take
<1> PICK j \in Jobs : j = Head(queue).job
  BY <1>0, HeadOfQueue, PayloadFacts
<1>1. Status(j) = "waiting"
  BY <1>0, HeadWaits
<1>2. \A k \in Jobs \ {j} : Same(k)
  <2> SUFFICES ASSUME NEW k \in Jobs, k # j PROVE Same(k)
    OBVIOUS
  <2>1. /\ HeldAt(k, {"handling"})' <=> HeldAt(k, {"handling"})
        /\ HeldAt(k, {"failed", "removed"})' <=> HeldAt(k, {"failed", "removed"})
    BY <1>0, HeldFrame DEF Take, GoTo, Points
  <2>2. QED
    BY <1>0, <2>1, PoppedFrame DEF Same, Take, jobVars, Buried
<1>3. HeldAt(j, {"handling"})'
  BY <1>0 DEF HeldAt, Take, GoTo, TypeOK
<1>4. Status(j)' = "running"
  BY <1>3, StatusFactsNext DEF StatusTable
<1>5. QED
  BY <1>1, <1>2, <1>4, MoveOf DEF Ledger!Start, Ledger!Keep, Take, jobVars

LEMMA ReplyLostLedger ==
  ASSUME LInv, LInv', NEW w \in Workers, ReplyLost(w)
  PROVE  \E j \in Jobs : Ledger!Strand(j)
<1>0. LInv /\ IInv /\ TypeOK /\ Move
  BY DEF LInv, IInv, ReplyLost
<1> PICK j \in Jobs : j = Head(queue).job
  BY <1>0, HeadOfQueue, PayloadFacts
<1>1. Status(j) = "waiting" /\ ~Waiting(j)'
  BY <1>0, HeadWaits
<1>2. \A k \in Jobs \ {j} : Same(k)
  BY <1>0, PoppedFrame DEF Same, ReplyLost, jobVars, loopVars, Buried, HeldAt
<1>3. /\ j \in submitted' /\ ~Settled(j)'
      /\ ~HeldAt(j, {"handling"})' /\ ~HeldAt(j, {"failed", "removed"})'
  BY <1>0, HeadOfQueue DEF ReplyLost, jobVars, loopVars, Settled, Buried, HeldAt, Busy, Points
<1>4. Recorded(j)'
  BY <1>0 DEF Recorded, Move
<1>5. Status(j)' = "stranded"
  BY <1>1, <1>3, <1>4, StatusFactsNext DEF StatusTable
<1>6. QED
  BY <1>1, <1>2, <1>5, MoveOf DEF Ledger!Strand, Ledger!Keep, ReplyLost, jobVars

\* What a busy worker holds, in the ledger, and what its steps leave alone.
LEMMA HeldStatus ==
  ASSUME LInv, NEW w \in Workers, pc[w] # "idle"
  PROVE  /\ hand[w].job \in Jobs /\ hand[w].job \in submitted
         /\ pc[w] = "handling" => Status(hand[w].job) = "running"
         /\ pc[w] \in {"failed", "removed"} => Status(hand[w].job) = "failing"
         /\ pc[w] = "acking" => Status(hand[w].job) = "done"
<1>1. hand[w] \in Payload /\ hand[w].job \in submitted
  BY DEF LInv, IInv, HandInv
<1>2. hand[w].job \in Jobs
  BY <1>1, PayloadFacts
<1>3. /\ pc[w] = "handling" => HeldAt(hand[w].job, {"handling"})
      /\ pc[w] \in {"failed", "removed"} => HeldAt(hand[w].job, {"failed", "removed"})
  BY DEF HeldAt
<1>4. pc[w] = "acking" => hand[w].job \in done
  BY DEF LInv, IInv, HandInv
<1>5. QED
  BY <1>1, <1>2, <1>3, <1>4, StatusFacts DEF StatusTable

LEMMA OthersSame ==
  ASSUME LInv, NEW w \in Workers, pc[w] # "idle", NEW k \in Jobs, k # hand[w].job,
         NEW p \in Points, pc' = [pc EXCEPT ![w] = p],
         hand' = hand \/ hand' = [hand EXCEPT ![w] = NoPayload]
  PROVE  /\ HeldAt(k, {"handling"})' <=> HeldAt(k, {"handling"})
         /\ HeldAt(k, {"failed", "removed"})' <=> HeldAt(k, {"failed", "removed"})
<1>1. TypeOK /\ NoPayload.job # k
  BY QueueAssumption DEF LInv, IInv, NoPayload
<1>2. CASE hand' = hand
  <2>1. hand' = [hand EXCEPT ![w] = hand[w]]
    BY <1>1, <1>2 DEF TypeOK
  <2>2. QED
    BY <2>1, <1>1, HeldFrame
<1>3. CASE hand' = [hand EXCEPT ![w] = NoPayload]
  BY <1>1, <1>3, HeldFrame
<1>4. QED
  BY <1>2, <1>3

LEMMA SucceedLedger ==
  ASSUME LInv, LInv', NEW w \in Workers, Succeed(w)
  PROVE  \E j \in Jobs : Ledger!Finish(j)
<1>0. /\ pc[w] = "handling" /\ pc' = [pc EXCEPT ![w] = "acking"] /\ "acking" \in Points
      /\ hand' = hand /\ failures' = failures
  BY DEF Succeed, GoTo, Points
<1> PICK j \in Jobs : j = hand[w].job
  BY <1>0, HeldStatus
<1>1. Status(j) = "running"
  BY <1>0, HeldStatus
<1>2. \A k \in Jobs \ {j} : Same(k)
  BY <1>0, OthersSame DEF Same, Succeed, listVars, Buried, Waiting, Recorded
<1>3. Status(j)' = "done"
  BY StatusFactsNext DEF StatusTable, Succeed
<1>4. QED
  BY <1>0, <1>1, <1>2, <1>3, MoveOf DEF Ledger!Finish, Ledger!Keep

LEMMA ReturnSilentlyLedger ==
  ASSUME LInv, LInv', NEW w \in Workers, ReturnSilently(w)
  PROVE  \E j \in Jobs : Ledger!Skip(j)
<1>0. /\ pc[w] = "handling" /\ pc' = [pc EXCEPT ![w] = "idle"] /\ "idle" \in Points
      /\ hand' = [hand EXCEPT ![w] = NoPayload] /\ failures' = failures
  BY DEF ReturnSilently, GoIdle, GoTo, Points
<1> PICK j \in Jobs : j = hand[w].job
  BY <1>0, HeldStatus
<1>1. Status(j) = "running"
  BY <1>0, HeldStatus
<1>2. \A k \in Jobs \ {j} : Same(k)
  BY <1>0, OthersSame DEF Same, ReturnSilently, listVars, Buried, Waiting, Recorded
<1>3. Status(j)' = "skipped"
  BY StatusFactsNext DEF StatusTable, ReturnSilently
<1>4. QED
  BY <1>0, <1>1, <1>2, <1>3, MoveOf DEF Ledger!Skip, Ledger!Keep

LEMMA FailLedger ==
  ASSUME LInv, LInv', NEW w \in Workers, Fail(w)
  PROVE  \E j \in Jobs : Ledger!Miss(j)
<1>0. /\ pc[w] = "handling" /\ pc' = [pc EXCEPT ![w] = "failed"] /\ "failed" \in Points
      /\ hand' = hand
  BY DEF Fail, GoTo, Points
<1> PICK j \in Jobs : j = hand[w].job
  BY <1>0, HeldStatus
<1>1. Status(j) = "running"
  BY <1>0, HeldStatus
<1>2. \A k \in Jobs \ {j} : Same(k)
  BY <1>0, OthersSame DEF Same, Fail, listVars, Buried, Waiting, Recorded
<1>3. HeldAt(j, {"failed", "removed"})'
  BY <1>0 DEF HeldAt, LInv, IInv, TypeOK
<1>4. Status(j)' = "failing"
  BY <1>3, StatusFactsNext DEF StatusTable
<1>5. failures[j] < MaxAttempts
  BY <1>0, PayloadFacts DEF LInv, IInv, HandInv
<1>6. Ledger!Miss(j)
  BY <1>1, <1>2, <1>4, <1>5, MoveOf DEF Ledger!Miss, Fail
<1>7. QED
  BY <1>6

LEMMA RequeueLedger ==
  ASSUME LInv, LInv', NEW w \in Workers, Requeue(w)
  PROVE  \E j \in Jobs : Ledger!Retry(j)
<1>0. /\ pc[w] = "removed" /\ pc' = [pc EXCEPT ![w] = "idle"] /\ "idle" \in Points
      /\ hand' = [hand EXCEPT ![w] = NoPayload] /\ failures' = failures
      /\ TypeOK
  BY DEF Requeue, GoIdle, GoTo, Points, jobVars, LInv, IInv
<1>h. /\ hand[w] \in Payload /\ hand[w].attempt + 1 # MaxAttempts
      /\ failures[hand[w].job] = hand[w].attempt + 1
  BY <1>0 DEF Requeue, LInv, IInv, HandInv
<1> PICK j \in Jobs : j = hand[w].job
  BY <1>0, HeldStatus
<1> DEFINE new == [hand[w] EXCEPT !.attempt = @ + 1]
<1>n. new \in Payload /\ new.job = j
  BY <1>h, QueueAssumption DEF Payload
<1> HIDE DEF new
<1> PICK p \in Payload : p = new
  BY <1>n
<1>p. p.job = j
  BY <1>n
<1>q. /\ Len(queue') = Len(queue) + 1 /\ Len(queue) \in Nat
      /\ \A i \in 1 .. Len(queue) : queue'[i] = queue[i]
      /\ queue'[Len(queue) + 1] = p
  BY <1>0, AppendFacts DEF new, Requeue, TypeOK
<1>1. Status(j) = "failing"
  BY <1>0, HeldStatus
<1>2. \A k \in Jobs \ {j} : Same(k)
  <2> SUFFICES ASSUME NEW k \in Jobs, k # j PROVE Same(k)
    OBVIOUS
  <2>1. Waiting(k)' <=> Waiting(k)
    BY <1>p, <1>q DEF Waiting
  <2>2. QED
    BY <2>1, <1>0, OthersSame DEF Same, Requeue, jobVars, Buried, Recorded
<1>3. Waiting(j)'
  BY <1>p, <1>q DEF Waiting
<1>4. Status(j)' = "waiting"
  BY <1>3, StatusFactsNext DEF StatusTable
<1>5. failures[j] < MaxAttempts
  BY <1>h, PayloadFacts
<1>6. Ledger!Retry(j)
  BY <1>0, <1>1, <1>2, <1>4, <1>5, MoveOf DEF Ledger!Retry, Ledger!Keep
<1>7. QED
  BY <1>6

LEMMA BuryLedger ==
  ASSUME LInv, LInv', NEW w \in Workers, Bury(w)
  PROVE  \E j \in Jobs : Ledger!Inter(j)
<1>0. /\ pc[w] = "removed" /\ pc' = [pc EXCEPT ![w] = "idle"] /\ "idle" \in Points
      /\ hand' = [hand EXCEPT ![w] = NoPayload] /\ failures' = failures
      /\ deadLetters' = deadLetters \cup {hand[w]}
  BY DEF Bury, GoIdle, GoTo, Points, jobVars
<1> PICK j \in Jobs : j = hand[w].job
  BY <1>0, HeldStatus
<1>1. Status(j) = "failing"
  BY <1>0, HeldStatus
<1>2. \A k \in Jobs \ {j} : Same(k)
  BY <1>0, OthersSame DEF Same, Bury, jobVars, Buried, Waiting, Recorded
<1>3. Buried(j)'
  BY <1>0 DEF Buried
<1>4. Status(j)' = "dead"
  BY <1>3, StatusFactsNext DEF StatusTable
<1>5. failures[j] = MaxAttempts
  BY <1>0 DEF Bury, LInv, IInv, HandInv
<1>6. Ledger!Inter(j)
  BY <1>0, <1>1, <1>2, <1>4, <1>5, MoveOf DEF Ledger!Inter, Ledger!Keep
<1>7. QED
  BY <1>6

\* Removing the worker's own payload from the processing list, or not.
LEMMA RemovedFrame ==
  ASSUME NEW w, NEW k, k # hand[w].job,
         processing' = processing \/ processing' = processing \ {hand[w]}
  PROVE  Recorded(k)' <=> Recorded(k)
BY DEF Recorded

\* A settled job stays settled, whatever the LREM does.
LEMMA AcknowledgeLedger ==
  ASSUME LInv, LInv', NEW w \in Workers, Acknowledge(w) \/ AcknowledgeFails(w)
  PROVE  UNCHANGED Ledger!ledgerVars
<1>0. /\ pc[w] = "acking" /\ pc' = [pc EXCEPT ![w] = "idle"] /\ "idle" \in Points
      /\ hand' = [hand EXCEPT ![w] = NoPayload]
      /\ UNCHANGED <<queue, deadLetters, submitted, done, skipped, failures>>
      /\ processing' = processing \/ processing' = processing \ {hand[w]}
  BY DEF Acknowledge, AcknowledgeFails, GoIdle, GoTo, Points, listVars, jobVars
<1> PICK j \in Jobs : j = hand[w].job
  BY <1>0, HeldStatus
<1>1. \A k \in Jobs \ {j} : Same(k)
  BY <1>0, OthersSame, RemovedFrame DEF Same, Buried, Waiting
<1>2. Status(j)' = Status(j)
  BY <1>0, StatusFacts, StatusFactsNext DEF StatusTable, LInv, IInv, HandInv
<1>3. QED
  BY <1>0, <1>1, <1>2, NoMove

LEMMA RemoveOldLedger ==
  ASSUME LInv, LInv', NEW w \in Workers, RemoveOld(w) \/ RemoveOldFails(w)
  PROVE  UNCHANGED Ledger!ledgerVars
<1>0. /\ pc[w] = "failed" /\ pc' = [pc EXCEPT ![w] = "removed"] /\ "removed" \in Points
      /\ hand' = hand
      /\ UNCHANGED <<queue, deadLetters, submitted, done, skipped, failures>>
      /\ processing' = processing \/ processing' = processing \ {hand[w]}
  BY DEF RemoveOld, RemoveOldFails, GoTo, Points, listVars, jobVars
<1> PICK j \in Jobs : j = hand[w].job
  BY <1>0, HeldStatus
<1>1. \A k \in Jobs \ {j} : Same(k)
  BY <1>0, OthersSame, RemovedFrame DEF Same, Buried, Waiting
<1>2. HeldAt(j, {"failed", "removed"})'
  BY <1>0 DEF HeldAt, LInv, IInv, TypeOK
<1>3. Status(j)' = Status(j)
  BY <1>0, <1>2, HeldStatus, StatusFactsNext DEF StatusTable
<1>4. QED
  BY <1>0, <1>1, <1>3, NoMove

\* The worker forgets a job that is not settled: its payload is still on the
\* processing list, or, once the LREM has been tried, perhaps on none.
LEMMA ForgetLedger ==
  ASSUME LInv, LInv', NEW w \in Workers, ReaddFails(w) \/ Crash(w)
  PROVE  \/ UNCHANGED Ledger!ledgerVars
         \/ \E j \in Jobs : Ledger!Strand(j) \/ Ledger!Lose(j)
<1>0. /\ pc[w] \in Busy /\ pc' = [pc EXCEPT ![w] = "idle"] /\ "idle" \in Points
      /\ hand' = [hand EXCEPT ![w] = NoPayload] /\ TypeOK
      /\ UNCHANGED <<queue, processing, deadLetters, submitted, done, skipped, failures>>
  BY DEF ReaddFails, Crash, GoIdle, GoTo, Busy, Points, listVars, jobVars, LInv, IInv, TypeOK
<1>i. pc[w] # "idle"
  BY <1>0 DEF Busy
<1> PICK j \in Jobs : j = hand[w].job /\ j \in submitted
  BY <1>i, HeldStatus
<1>1. \A k \in Jobs \ {j} : Same(k)
  BY <1>0, <1>i, OthersSame DEF Same, Buried, Waiting, Recorded
<1>2. CASE pc[w] = "acking"
  <2>1. Status(j)' = Status(j)
    BY <1>0, <1>2, StatusFacts, StatusFactsNext DEF StatusTable, LInv, IInv, HandInv
  <2>2. QED
    BY <1>0, <1>1, <2>1, NoMove
<1>3. CASE pc[w] # "acking"
  <2>1. ~Settled(j) /\ ~Waiting(j)
    <3>1. ~Settled(j)
      BY <1>3, <1>i DEF LInv, IInv, HandInv
    <3>2. ~Waiting(j)
      BY <1>0 DEF LInv, IInv, QueueInv, Waiting, HeldAt
    <3>3. QED
      BY <3>1, <3>2
  <2>2. j \in submitted' /\ ~Settled(j)' /\ ~Waiting(j)'
    BY <2>1, <1>0 DEF Settled, Buried, Waiting
  <2>3. ~HeldAt(j, Busy)'
    BY <1>0, <1>i DEF LInv, IInv, SingleOwner, HeldAt, Busy, TypeOK
  <2>4. ~HeldAt(j, {"handling"})' /\ ~HeldAt(j, {"failed", "removed"})'
    BY <2>3 DEF HeldAt, Busy, Points
  <2>5. Status(j)' = IF Recorded(j)' THEN "stranded" ELSE "lost"
    BY <2>2, <2>4, StatusFactsNext DEF StatusTable
  <2>6. CASE pc[w] = "handling"
    <3>1. Recorded(j)'
      BY <1>0, <2>6 DEF Recorded, LInv, IInv, HandInv
    <3>2. Status(j) = "running" /\ Status(j)' = "stranded"
      BY <2>5, <3>1, <2>6, <1>i, HeldStatus
    <3>3. QED
      BY <1>0, <1>1, <3>2, MoveOf DEF Ledger!Strand, Ledger!Keep
  <2>7. CASE pc[w] \in {"failed", "removed"}
    <3>1. Status(j) = "failing" /\ Status(j)' \in {"stranded", "lost"}
      BY <2>5, <2>7, <1>i, HeldStatus
    <3>2. QED
      BY <1>0, <1>1, <3>1, MoveOf DEF Ledger!Strand, Ledger!Lose, Ledger!Keep
  <2>8. QED
    BY <1>0, <1>3, <2>6, <2>7 DEF Busy, Points
<1>4. QED
  BY <1>2, <1>3

LEMMA StutterLedger ==
  ASSUME UNCHANGED vars
  PROVE  UNCHANGED Ledger!ledgerVars
BY DEF vars, listVars, loopVars, jobVars, Ledger!ledgerVars, Status, Settled, Buried, Waiting,
       Recorded, HeldAt

LEMMA LedgerStep ==
  LInv /\ LInv' /\ [Next]_vars => [Ledger!LedgerNext]_(Ledger!ledgerVars)
<1> SUFFICES ASSUME LInv, LInv', [Next]_vars
             PROVE  [Ledger!LedgerNext]_(Ledger!ledgerVars)
  OBVIOUS
<1> USE DEF Ledger!LedgerNext
<1>1. ASSUME NEW j \in Jobs, Submit(j) PROVE Ledger!LedgerNext
  BY <1>1, SubmitLedger
<1>2. ASSUME NEW w \in Workers, LoopStep(w)
      PROVE  Ledger!LedgerNext \/ UNCHANGED Ledger!ledgerVars
  <2>1. CASE Take(w)
    BY <2>1, TakeLedger
  <2>2. CASE Succeed(w)
    BY <2>2, SucceedLedger
  <2>3. CASE ReturnSilently(w)
    BY <2>3, ReturnSilentlyLedger
  <2>4. CASE Fail(w)
    BY <2>4, FailLedger
  <2>5. CASE Acknowledge(w)
    BY <2>5, AcknowledgeLedger
  <2>6. CASE RemoveOld(w)
    BY <2>6, RemoveOldLedger
  <2>7. CASE Requeue(w)
    BY <2>7, RequeueLedger
  <2>8. CASE Bury(w)
    BY <2>8, BuryLedger
  <2>9. QED
    BY <1>2, <2>1, <2>2, <2>3, <2>4, <2>5, <2>6, <2>7, <2>8 DEF LoopStep
<1>3. ASSUME NEW w \in Workers, FaultStep(w)
      PROVE  Ledger!LedgerNext \/ UNCHANGED Ledger!ledgerVars
  <2>1. CASE ReplyLost(w)
    BY <2>1, ReplyLostLedger
  <2>2. CASE AcknowledgeFails(w)
    BY <2>2, AcknowledgeLedger
  <2>3. CASE RemoveOldFails(w)
    BY <2>3, RemoveOldLedger
  <2>4. CASE ReaddFails(w) \/ Crash(w)
    BY <2>4, ForgetLedger
  <2>5. QED
    BY <1>3, <2>1, <2>2, <2>3, <2>4 DEF FaultStep
<1>4. CASE UNCHANGED vars
  BY <1>4, StutterLedger
<1>5. QED
  BY <1>1, <1>2, <1>3, <1>4 DEF Next

\* The lists, workers and payloads of the protocol implement the ledger: each
\* step is one of the ledger's for one job, or leaves the ledger as it is.
THEOREM ImplementsLedger == Spec => LedgerKept
<1>1. Init => Ledger!LedgerInit
  <2>1. Init => \A j \in Jobs : Status(j) = "unsent"
    BY InitIInv, StatusFacts DEF Init, LInv, SettledOnce, StatusTable
  <2>2. QED
    BY <2>1 DEF Init, Ledger!LedgerInit
<1>2. QED
  BY <1>1, LedgerInvariant, LedgerStep, PTL DEF Spec, LedgerKept, Ledger!LedgerSpec
================================================================================
