-------------------------------- MODULE Jobs --------------------------------
(***************************************************************************)
(* The background jobs of the logistics platform (POC): QueueService and   *)
(* the processors of the email and document queues.  BullMQ, which keeps   *)
(* the jobs in Redis, is modelled from the options the code gives it.      *)
(*                                                                         *)
(* A worker may fail an attempt, or vanish while it has the job: after a   *)
(* restart, or because its lock ran out while it still runs.  Such a job   *)
(* is handed out again, and a worker that only lost its lock goes on.      *)
(* Concurrency bounds how many jobs run at once, which here only delays.   *)
(***************************************************************************)
EXTENDS Naturals

CONSTANTS
  Job,      \* the jobs that may be queued
  Attempts  \* defaultOpts.attempts

\* BullMQ's maxStalledCount, which no processor sets.
MaxStalls == 1

\* What the queue withstands: one fault of either kind.
Tolerated == 1

ASSUME AttemptsAssumption == Attempts \in Nat /\ Attempts > Tolerated

VARIABLES
  job,     \* where BullMQ has the job; "none" before it is added
  tries,   \* the attempts that have failed
  stalls,  \* the times it was found without a worker
  done,    \* its work has been done: a document is marked, a mail is out
  stray    \* a worker that lost the job still runs

jobVars == <<job, tries, stalls, done, stray>>

JobState == {"none", "waiting", "active", "finishing", "delayed", "completed", "failed"}

JobsTypeOK ==
  /\ job \in [Job -> JobState]
  /\ tries \in [Job -> 0..Attempts]
  /\ stalls \in [Job -> 0..MaxStalls + 1]
  /\ done \in [Job -> BOOLEAN]
  /\ stray \in [Job -> BOOLEAN]

JobsInit ==
  /\ job = [j \in Job |-> "none"]
  /\ tries = [j \in Job |-> 0]
  /\ stalls = [j \in Job |-> 0]
  /\ done = [j \in Job |-> FALSE]
  /\ stray = [j \in Job |-> FALSE]

\* queue.add.
Add(j) ==
  /\ job[j] = "none"
  /\ job' = [job EXCEPT ![j] = "waiting"]
  /\ UNCHANGED <<tries, stalls, done, stray>>

\* A worker is handed the job and its processor runs: it pauses, and works.
Take(j) ==
  /\ job[j] = "waiting"
  /\ job' = [job EXCEPT ![j] = "active"]
  /\ UNCHANGED <<tries, stalls, done, stray>>

\* process: the processor's one effect, the same however often it is repeated.
Work(j) ==
  /\ job[j] = "active"
  /\ job' = [job EXCEPT ![j] = "finishing"]
  /\ done' = [done EXCEPT ![j] = TRUE]
  /\ UNCHANGED <<tries, stalls, stray>>

\* process has returned and BullMQ is told so.
Complete(j) ==
  /\ job[j] = "finishing"
  /\ job' = [job EXCEPT ![j] = "completed"]
  /\ UNCHANGED <<tries, stalls, done, stray>>

Running(j) == job[j] \in {"active", "finishing"}

\* Variant: the options are left at their default of one attempt.
FailAttemptOnce(j) ==
  /\ Running(j)
  /\ tries' = [tries EXCEPT ![j] = @ + 1]
  /\ job' = [job EXCEPT ![j] = "failed"]
  /\ UNCHANGED <<stalls, done, stray>>

\* process throws, before its effect or because the answer to it was lost: the
\* job waits for its backoff, or has used up its attempts.
FailAttempt(j) ==
  /\ Running(j)
  /\ tries' = [tries EXCEPT ![j] = @ + 1]
  /\ job' = [job EXCEPT ![j] = IF tries[j] + 1 < Attempts THEN "delayed" ELSE "failed"]
  /\ UNCHANGED <<stalls, done, stray>>

\* The backoff is over.
Retry(j) ==
  /\ job[j] = "delayed"
  /\ job' = [job EXCEPT ![j] = "waiting"]
  /\ UNCHANGED <<tries, stalls, done, stray>>

\* The job is found without a live lock.
Stall(j) ==
  /\ Running(j)
  /\ stalls' = [stalls EXCEPT ![j] = @ + 1]
  /\ job' = [job EXCEPT ![j] = IF stalls[j] + 1 > MaxStalls THEN "failed" ELSE "waiting"]
  /\ \E s \in {stray[j], job[j] = "active"} : stray' = [stray EXCEPT ![j] = s \/ @]
  /\ UNCHANGED <<tries, done>>

\* The worker that lost its lock gets to its effect, or ends before.
StrayWork(j) ==
  /\ stray[j]
  /\ stray' = [stray EXCEPT ![j] = FALSE]
  /\ done' = [done EXCEPT ![j] = TRUE]
  /\ UNCHANGED <<job, tries, stalls>>

StrayEnd(j) ==
  /\ stray[j]
  /\ stray' = [stray EXCEPT ![j] = FALSE]
  /\ UNCHANGED <<job, tries, stalls, done>>

Progress(j) == Take(j) \/ Work(j) \/ Complete(j) \/ Retry(j)
StrayStep(j) == StrayWork(j) \/ StrayEnd(j)

JobStep(j) == Progress(j) \/ FailAttempt(j) \/ Stall(j) \/ StrayStep(j)

\* Workers run as long as the process does, and it is restarted when it ends.
JobFairness ==
  \A j \in Job : WF_jobVars(Progress(j)) /\ WF_jobVars(StrayStep(j))

----------------------------------------------------------------------------
(* Properties *)

Faults == [j \in Job |-> tries[j] + stalls[j]]
Owed(j) == job[j] \in {"waiting", "active", "finishing", "delayed"} \/ stray[j]

Fate ==
  [j \in Job |->
    IF done[j] THEN "done"
    ELSE IF job[j] = "none" THEN "unknown"
    ELSE IF Owed(j) THEN "owed" ELSE "abandoned"]

\* The queue keeps the promise of AtLeastOnce: a job that was added gets its
\* work done in spite of any single fault, and is never left hanging.
Promise == INSTANCE AtLeastOnce WITH Item <- Job, state <- Fate, faults <- Faults
Promised == Promise!Spec
=============================================================================
