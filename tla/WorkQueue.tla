------------------------------- MODULE WorkQueue -------------------------------
(***************************************************************************)
(* The Redis list protocol that the ingestion, delete, file and group      *)
(* workers of Trieve share.  A handler LPUSHes a job; a worker moves it    *)
(* with BRPOPLPUSH to a processing list, handles it, and then either       *)
(* LREMs it (success) or LREMs it and LPUSHes it back with a higher        *)
(* attempt number (failure), or to the dead letter list when the attempts  *)
(* are used up.  Every Redis command is a step of its own: a worker can    *)
(* crash, or a command fail, between any two of them.                      *)
(*                                                                         *)
(* queue[1] is the tail of the Redis list, the end BRPOPLPUSH takes from;  *)
(* LPUSH appends.  The processing list is only pushed to and removed from  *)
(* by value, and a payload is never on it twice, so it is a set.           *)
(***************************************************************************)
EXTENDS Naturals, Sequences, FiniteSets

CONSTANTS Workers,      \* worker processes polling the queue
          Jobs,         \* messages, each pushed at most once
          Silent,       \* jobs whose handling may end with no LREM at all
          MaxAttempts,  \* 10 in the ingestion worker, 3 in the others
          MaxFaults,    \* bound on crashes and failed Redis commands
          None          \* no job

ASSUME QueueAssumption ==
  /\ MaxAttempts \in Nat \ {0}
  /\ MaxFaults \in Nat
  /\ Silent \subseteq Jobs
  /\ None \notin Jobs

VARIABLES queue,        \* the work list, oldest first
          processing,   \* payloads moved by BRPOPLPUSH and not yet LREMed
          deadLetters,  \* payloads given up
          pc,           \* where each worker is in its loop
          hand,         \* the payload each worker holds in memory
          submitted,    \* jobs that were pushed
          done,         \* jobs whose handling succeeded
          skipped,      \* jobs whose handling ended without an LREM
          failures,     \* failed attempts of each job
          faults        \* crashes and failed commands so far

listVars == <<queue, processing, deadLetters>>
loopVars == <<pc, hand>>
jobVars  == <<submitted, done, skipped, failures>>
vars     == <<listVars, loopVars, jobVars, faults>>

Payload   == [job : Jobs, attempt : 0 .. MaxAttempts - 1]
NoPayload == [job |-> None, attempt |-> 0]
Points    == {"idle", "handling", "acking", "failed", "removed"}

TypeOK ==
  /\ queue \in Seq(Payload)
  /\ processing \in SUBSET Payload
  /\ deadLetters \in SUBSET Payload
  /\ pc \in [Workers -> Points]
  /\ hand \in [Workers -> Payload \cup {NoPayload}]
  /\ submitted \in SUBSET Jobs
  /\ done \in SUBSET Jobs
  /\ skipped \in SUBSET Jobs
  /\ failures \in [Jobs -> 0 .. MaxAttempts]
  /\ faults \in 0 .. MaxFaults

Init ==
  /\ queue = << >>
  /\ processing = {} /\ deadLetters = {}
  /\ pc = [w \in Workers |-> "idle"]
  /\ hand = [w \in Workers |-> NoPayload]
  /\ submitted = {} /\ done = {} /\ skipped = {}
  /\ failures = [j \in Jobs |-> 0]
  /\ faults = 0

GoTo(w, point) == pc' = [pc EXCEPT ![w] = point]

\* The worker forgets its payload and is at the top of its loop again.
GoIdle(w) ==
  /\ GoTo(w, "idle")
  /\ hand' = [hand EXCEPT ![w] = NoPayload]

Fault == faults < MaxFaults /\ faults' = faults + 1

--------------------------------------------------------------------------------
(* The steps of the loop when every command succeeds.                      *)

\* An API handler pushes a new message (attempt_number 0).
Submit(j) ==
  /\ j \notin submitted
  /\ submitted' = submitted \cup {j}
  /\ queue' = Append(queue, [job |-> j, attempt |-> 0])
  /\ UNCHANGED <<processing, deadLetters, loopVars, done, skipped, failures, faults>>

\* Mutants: the payload is read before it is removed; a plain BRPOP.
MoveWithoutPop ==
  /\ queue # << >>
  /\ processing' = processing \cup {Head(queue)}
  /\ UNCHANGED queue
MoveWithoutPush ==
  /\ queue # << >>
  /\ queue' = Tail(queue)
  /\ UNCHANGED processing

\* BRPOPLPUSH: one Redis command moves the oldest payload.
Move ==
  /\ queue # << >>
  /\ queue' = Tail(queue)
  /\ processing' = processing \cup {Head(queue)}

Take(w) ==
  /\ pc[w] = "idle"
  /\ Move
  /\ GoTo(w, "handling")
  /\ hand' = [hand EXCEPT ![w] = Head(queue)]
  /\ UNCHANGED <<deadLetters, jobVars, faults>>

Succeed(w) ==
  /\ pc[w] = "handling"
  /\ GoTo(w, "acking")
  /\ done' = done \cup {hand[w].job}
  /\ UNCHANGED <<listVars, hand, submitted, skipped, failures, faults>>

\* The file worker's Ok(None) branch, a payload that does not deserialise,
\* DuplicateTrackingId and a failed Update in the ingestion worker.
ReturnSilently(w) ==
  /\ pc[w] = "handling"
  /\ hand[w].job \in Silent
  /\ skipped' = skipped \cup {hand[w].job}
  /\ GoIdle(w)
  /\ UNCHANGED <<listVars, submitted, done, failures, faults>>

Fail(w) ==
  /\ pc[w] = "handling"
  /\ GoTo(w, "failed")
  /\ failures' = [failures EXCEPT ![hand[w].job] = @ + 1]
  /\ UNCHANGED <<listVars, hand, submitted, done, skipped, faults>>

\* LREM after a success.
Acknowledge(w) ==
  /\ pc[w] = "acking"
  /\ processing' = processing \ {hand[w]}
  /\ GoIdle(w)
  /\ UNCHANGED <<queue, deadLetters, jobVars, faults>>

\* LREM of the old payload in readd_error_to_queue.
RemoveOld(w) ==
  /\ pc[w] = "failed"
  /\ processing' = processing \ {hand[w]}
  /\ GoTo(w, "removed")
  /\ UNCHANGED <<queue, deadLetters, hand, jobVars, faults>>

\* Mutants: one attempt too many; the message is not pushed back.
RequeueOffByOne(w) ==
  /\ pc[w] = "removed"
  /\ hand[w].attempt # MaxAttempts
  /\ queue' = Append(queue, [hand[w] EXCEPT !.attempt = @ + 1])
  /\ GoIdle(w)
  /\ UNCHANGED <<processing, deadLetters, jobVars, faults>>
RequeueNothing(w) ==
  /\ pc[w] = "removed"
  /\ hand[w].attempt + 1 # MaxAttempts
  /\ GoIdle(w)
  /\ UNCHANGED <<listVars, jobVars, faults>>

Requeue(w) ==
  /\ pc[w] = "removed"
  /\ hand[w].attempt + 1 # MaxAttempts
  /\ queue' = Append(queue, [hand[w] EXCEPT !.attempt = @ + 1])
  /\ GoIdle(w)
  /\ UNCHANGED <<processing, deadLetters, jobVars, faults>>

\* Mutants: given up one attempt early; no return after the dead letter.
BuryEarly(w) ==
  /\ pc[w] = "removed"
  /\ hand[w].attempt + 2 = MaxAttempts
  /\ deadLetters' = deadLetters \cup {hand[w]}
  /\ GoIdle(w)
  /\ UNCHANGED <<queue, processing, jobVars, faults>>
BuryAndRequeue(w) ==
  /\ pc[w] = "removed"
  /\ hand[w].attempt + 1 = MaxAttempts
  /\ deadLetters' = deadLetters \cup {hand[w]}
  /\ queue' = Append(queue, hand[w])
  /\ GoIdle(w)
  /\ UNCHANGED <<processing, jobVars, faults>>

\* The dead letter keeps the old payload.
Bury(w) ==
  /\ pc[w] = "removed"
  /\ hand[w].attempt + 1 = MaxAttempts
  /\ deadLetters' = deadLetters \cup {hand[w]}
  /\ GoIdle(w)
  /\ UNCHANGED <<queue, processing, jobVars, faults>>

--------------------------------------------------------------------------------
(* Crashes and failed commands.                                            *)

\* Redis moved the payload, the worker saw an error and polls again.
ReplyLost(w) ==
  /\ pc[w] = "idle"
  /\ Fault
  /\ Move
  /\ UNCHANGED <<deadLetters, loopVars, jobVars>>

\* `let _ =` ignores the error of the LREM that follows a success.
AcknowledgeFails(w) ==
  /\ pc[w] = "acking"
  /\ Fault
  /\ GoIdle(w)
  /\ UNCHANGED <<listVars, jobVars>>

\* `let _ =` ignores the error of the LREM of the old payload: the job is
\* pushed again while its old payload stays on the processing list.
RemoveOldFails(w) ==
  /\ pc[w] = "failed"
  /\ Fault
  /\ GoTo(w, "removed")
  /\ UNCHANGED <<listVars, hand, jobVars>>

\* No connection for the LREM, or for the LPUSH: readd_error_to_queue
\* returns an error its caller ignores.
ReaddFails(w) ==
  /\ pc[w] \in {"failed", "removed"}
  /\ Fault
  /\ GoIdle(w)
  /\ UNCHANGED <<listVars, jobVars>>

\* The process dies (or panics in .expect) and is started again.
Crash(w) ==
  /\ pc[w] # "idle"
  /\ Fault
  /\ GoIdle(w)
  /\ UNCHANGED <<listVars, jobVars>>

--------------------------------------------------------------------------------
LoopStep(w) ==
  \/ Take(w) \/ Succeed(w) \/ ReturnSilently(w) \/ Fail(w)
  \/ Acknowledge(w) \/ RemoveOld(w) \/ Requeue(w) \/ Bury(w)

FaultStep(w) ==
  \/ ReplyLost(w) \/ AcknowledgeFails(w) \/ RemoveOldFails(w)
  \/ ReaddFails(w) \/ Crash(w)

Next ==
  \/ \E j \in Jobs : Submit(j)
  \/ \E w \in Workers : LoopStep(w)
  \/ \E w \in Workers : FaultStep(w)

Spec == Init /\ [][Next]_vars

\* A running worker keeps polling and every await in its loop returns.
FairSpec == Spec /\ \A w \in Workers : WF_vars(LoopStep(w))

--------------------------------------------------------------------------------
(* Properties.                                                             *)

Waiting(j)  == \E i \in 1 .. Len(queue) : queue[i].job = j
Recorded(j) == \E p \in processing : p.job = j
Buried(j)   == \E p \in deadLetters : p.job = j
HeldAt(j, points) == \E w \in Workers : pc[w] \in points /\ hand[w].job = j
Settled(j)  == j \in done \/ j \in skipped \/ Buried(j)

\* No two workers hold the same job at once, even when an old payload of it
\* was left on the processing list: BRPOPLPUSH gives a payload to one worker,
\* and a job is pushed back only by the worker that holds it.
SingleOwner ==
  \A v, w \in Workers :
     pc[v] # "idle" /\ pc[w] # "idle" /\ hand[v].job = hand[w].job => v = w

\* A dead letter went through every attempt and never succeeded: the
\* attempt_number carried by the payload agrees with what happened.
BuriedAfterEveryAttempt ==
  \A p \in deadLetters :
     /\ failures[p.job] = MaxAttempts
     /\ p.job \notin done \cup skipped

\* A pushed job is gone from every list and every worker only if one of its
\* attempts failed and something broke between the LREM and the LPUSH.  A
\* crash while the job is being handled leaves it on the processing list.
Missing(j) ==
  /\ j \in submitted
  /\ ~Settled(j) /\ ~Waiting(j) /\ ~Recorded(j)
  /\ ~HeldAt(j, {"removed"})

NoSilentLoss ==
  \A j \in Jobs : Missing(j) => failures[j] > 0 /\ faults > 0

\* On the processing list, and nobody will look at it again (the gauge of
\* metrics_handler.rs:53 still counts it as "being processed").
Stranded(j) ==
  /\ Recorded(j)
  /\ ~Waiting(j)
  /\ ~HeldAt(j, Points \ {"idle"})

\* Every pushed job is settled, unless a fault stranded or lost it.
EveryJobEnds ==
  \A j \in Jobs :
     j \in submitted ~>
       (Settled(j) \/ (faults > 0 /\ (Missing(j) \/ Stranded(j))))

\* The abstract ledger this protocol implements.
Status(j) ==
  CASE j \notin submitted                           -> "unsent"
    [] j \in done                                   -> "done"
    [] j \in skipped                                -> "skipped"
    [] Buried(j)                                    -> "dead"
    [] j \in submitted /\ ~Settled(j) /\ Waiting(j) -> "waiting"
    [] j \in submitted /\ ~Settled(j) /\ HeldAt(j, {"handling"}) -> "running"
    [] j \in submitted /\ ~Settled(j) /\ HeldAt(j, {"failed", "removed"}) -> "failing"
    [] OTHER -> IF Recorded(j) THEN "stranded" ELSE "lost"

Ledger == INSTANCE JobLedger WITH
            status <- [j \in Jobs |-> Status(j)],
            tries  <- failures

LedgerKept == Ledger!LedgerSpec
================================================================================
