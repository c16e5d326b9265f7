------------------------------ MODULE WorkQueue ------------------------------
(***************************************************************************)
(* What the job queue promises its users, with time left out: a job is     *)
(* handed out while it waits, at most MaxAttempts times, and comes back to *)
(* the queue only while it has attempts left.  Who may report a job, and   *)
(* when a lease lapses, are not part of the promise: complete and fail of  *)
(* adapters/queue_sqlite.py take a job id and nothing else, so any job can *)
(* be reported at any time, and any set of claimed jobs can be reclaimed.  *)
(*                                                                         *)
(* JobQueue.tla is the table with clocks, leases and owners and implements *)
(* this module; RunLifecycle.tla is built on this module.                  *)
(***************************************************************************)
EXTENDS Naturals

CONSTANTS Jobs,        \* the ids a row of job_queue can get
          MaxAttempts  \* job_queue.max_attempts, the same for every job

ASSUME WorkQueueAssumption ==
    /\ Jobs \subseteq Nat
    /\ MaxAttempts \in Nat \ {0}

VARIABLES jobStatus,   \* jobStatus[j]: column status, "absent" before the row exists
          jobAttempts  \* jobAttempts[j]: column attempts

queueVars == << jobStatus, jobAttempts >>

JobStatuses == {"absent", "pending", "claimed", "succeeded", "failed"}

QueueInit ==
    /\ jobStatus = [j \in Jobs |-> "absent"]
    /\ jobAttempts = [j \in Jobs |-> 0]

\* The row's id is the next one: rows are never deleted.
IsNextId(j) ==
    /\ jobStatus[j] = "absent"
    /\ \A i \in Jobs : i < j => jobStatus[i] # "absent"

Enqueue(j) ==
    /\ IsNextId(j)
    /\ jobStatus' = [jobStatus EXCEPT ![j] = "pending"]
    /\ jobAttempts' = [jobAttempts EXCEPT ![j] = 0]

\* A mutated form of Claim: a claimed job is handed out again.
ClaimTwice(j) ==
    /\ jobStatus[j] \in {"pending", "claimed"}
    /\ jobStatus' = [jobStatus EXCEPT ![j] = "claimed"]
    /\ jobAttempts' = [jobAttempts EXCEPT ![j] = @ + 1]

Claim(j) ==
    /\ jobStatus[j] = "pending"
    /\ jobStatus' = [jobStatus EXCEPT ![j] = "claimed"]
    /\ jobAttempts' = [jobAttempts EXCEPT ![j] = @ + 1]

Complete(j) ==
    /\ jobStatus[j] # "absent"
    /\ jobStatus' = [jobStatus EXCEPT ![j] = "succeeded"]
    /\ UNCHANGED jobAttempts

\* Where a job goes that is given up or taken back.
BackTo(j) == IF jobAttempts[j] >= MaxAttempts THEN "failed" ELSE "pending"

Fail(j, retry) ==
    /\ jobStatus[j] # "absent"
    /\ jobStatus' = [jobStatus EXCEPT ![j] = IF retry THEN BackTo(j) ELSE "failed"]
    /\ UNCHANGED jobAttempts

ReapExpired(lapsed) ==
    /\ \A j \in lapsed : jobStatus[j] = "claimed"
    /\ jobStatus' = [j \in Jobs |-> IF j \in lapsed THEN BackTo(j) ELSE jobStatus[j]]
    /\ UNCHANGED jobAttempts

QueueNext ==
    \/ \E j \in Jobs : \/ Enqueue(j)
                       \/ Claim(j)
                       \/ Complete(j)
                       \/ \E retry \in BOOLEAN : Fail(j, retry)
    \/ \E lapsed \in SUBSET Jobs : ReapExpired(lapsed)

QueueSpec == QueueInit /\ [][QueueNext]_queueVars
=============================================================================
