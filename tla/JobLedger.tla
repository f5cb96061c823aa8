------------------------------- MODULE JobLedger -------------------------------
(***************************************************************************)
(* What the Redis work queues of Trieve promise for one job, whatever      *)
(* lists, workers and processes carry it: a job is handled by one worker   *)
(* at a time, it is settled at most once, it is buried only after          *)
(* MaxAttempts failed attempts, and it can be lost without trace only      *)
(* while a failed attempt is being put back.  WorkQueue implements this.   *)
(***************************************************************************)
EXTENDS Naturals

CONSTANTS Jobs,         \* the messages pushed by the API handlers
          MaxAttempts   \* attempts before a job is buried (10 or 3)

VARIABLES status,       \* where each job stands
          tries         \* failed attempts of each job

ledgerVars == <<status, tries>>

Statuses == {"unsent", "waiting", "running", "failing",
             "done", "skipped", "dead", "stranded", "lost"}

LedgerInit ==
  /\ status = [j \in Jobs |-> "unsent"]
  /\ tries = [j \in Jobs |-> 0]

Move(j, from, to) ==
  /\ status[j] = from
  /\ status' = [status EXCEPT ![j] = to]

Keep == UNCHANGED tries

Send(j)   == Move(j, "unsent", "waiting") /\ Keep
Start(j)  == Move(j, "waiting", "running") /\ Keep
Finish(j) == Move(j, "running", "done") /\ Keep
Skip(j)   == Move(j, "running", "skipped") /\ Keep

Miss(j) ==
  /\ Move(j, "running", "failing")
  /\ tries[j] < MaxAttempts
  /\ tries' = [tries EXCEPT ![j] = @ + 1]

Retry(j) == tries[j] < MaxAttempts /\ Move(j, "failing", "waiting") /\ Keep
Inter(j) == tries[j] = MaxAttempts /\ Move(j, "failing", "dead") /\ Keep

\* The job stays on the processing list and nobody will look at it again.
Strand(j) ==
  /\ \E from \in {"waiting", "running", "failing"} : Move(j, from, "stranded")
  /\ Keep

\* The job is on no list any more.
Lose(j) == Move(j, "failing", "lost") /\ Keep

LedgerNext ==
  \E j \in Jobs :
     \/ Send(j) \/ Start(j) \/ Finish(j) \/ Skip(j)
     \/ Miss(j) \/ Retry(j) \/ Inter(j) \/ Strand(j) \/ Lose(j)

LedgerSpec == LedgerInit /\ [][LedgerNext]_ledgerVars
================================================================================
