------------------------------- MODULE JobQueue -------------------------------
(***************************************************************************)
(* The table job_queue and its seven operations, adapters/queue_sqlite.py, *)
(* with the worker threads that claim, heartbeat and report jobs.          *)
(*                                                                         *)
(* Every operation opens BEGIN IMMEDIATE before its first statement (or,   *)
(* for enqueue, runs inside the caller's transaction), so each is one step *)
(* here.  What is not atomic is the protocol around them: a worker that    *)
(* works past its lease, dies, or reports a job somebody else holds now.   *)
(*                                                                         *)
(* The two timestamps are kept as distances from now: wait is              *)
(* available_at - now (0 when the job is available) and lease is           *)
(* lease_until - now (-1 once lease_until < now, or when it is NULL).      *)
(* Tick moves the clock; distances below their floor are not told apart,   *)
(* because the code only asks available_at <= now and lease_until < now.   *)
(***************************************************************************)
EXTENDS Integers

CONSTANTS Jobs,          \* the ids a row of job_queue can get
          Workers,       \* the worker ids (hostname:pid:thread)
          Priorities,    \* the values of column priority
          MaxAttempts,   \* column max_attempts, the same for every job
          LeaseSeconds,  \* JOB_LEASE_SECONDS, in clock ticks
          Backoff,       \* Backoff[a] = min(30 * 2^a, 900), in clock ticks
          Jitter,        \* the most random.uniform(0, 5) adds, in clock ticks
          None           \* SQL NULL in claimed_by, and no job

ASSUME JobQueueAssumption ==
    /\ Jobs \subseteq Nat
    /\ None \notin Workers
    /\ None \notin Jobs
    /\ Priorities \subseteq Int
    /\ MaxAttempts \in Nat \ {0}
    /\ LeaseSeconds \in Nat
    /\ Jitter \in Nat
    /\ Backoff \in [1..MaxAttempts -> Nat]

VARIABLES job,    \* job[j]: the row of table job_queue with id j
          grant,  \* grant[w]: what worker thread w was told when it claimed
          late    \* history: jobs that a thread reported without holding them

vars == << job, grant, late >>

Statuses == {"absent", "pending", "claimed", "succeeded", "failed"}
Settled == {"succeeded", "failed"}
Lapsed == -1

Row == [status : Statuses, priority : Priorities \cup {None}, wait : Nat,
        owner : Workers \cup {None}, lease : Lapsed..LeaseSeconds,
        attempts : Nat]
NoRow == [status |-> "absent", priority |-> None, wait |-> 0,
          owner |-> None, lease |-> Lapsed, attempts |-> 0]

\* The Job a claim returns: its id, its attempts at that time, and the lease as
\* far as its holder knows (renewed by each successful heartbeat).
Grant == [job : Jobs \cup {None}, attempts : Nat, lease : Lapsed..LeaseSeconds]
NoGrant == [job |-> None, attempts |-> 0, lease |-> Lapsed]

Init ==
    /\ job = [j \in Jobs |-> NoRow]
    /\ grant = [w \in Workers |-> NoGrant]
    /\ late = {}

-----------------------------------------------------------------------------
(* The operations of the queue. *)

Enqueue(j, priority) ==
    /\ job[j].status = "absent"
    /\ \A i \in Jobs : i < j => job[i].status # "absent"
    /\ job' = [job EXCEPT ![j] = [NoRow EXCEPT !.status = "pending",
                                               !.priority = priority]]
    /\ UNCHANGED << grant, late >>

\* A mutated form of Available: claimed rows are offered again.
AvailableThoughClaimed(j) ==
    job[j].status \in {"pending", "claimed"} /\ job[j].wait = 0

\* status = 'pending' AND available_at <= now
Available(j) == job[j].status = "pending" /\ job[j].wait = 0

\* ORDER BY priority DESC, id ASC
Before(i, j) ==
    \/ job[i].priority > job[j].priority
    \/ job[i].priority = job[j].priority /\ i <= j

Claim(w, j) ==
    /\ grant[w].job = None
    /\ Available(j)
    /\ \A i \in Jobs : Available(i) => Before(j, i)
    /\ job' = [job EXCEPT ![j] = [@ EXCEPT !.status = "claimed", !.owner = w,
                                 !.lease = LeaseSeconds,
                                 !.attempts = job[j].attempts + 1]]
    /\ grant' = [grant EXCEPT ![w] = [job |-> j, attempts |-> job[j].attempts + 1,
                                      lease |-> LeaseSeconds]]
    /\ UNCHANGED late

\* The row still says what the worker was told.
Holds(w) ==
    /\ grant[w].job # None
    /\ job[grant[w].job].status = "claimed"
    /\ job[grant[w].job].owner = w

\* UPDATE ... WHERE status = 'claimed' AND claimed_by = :worker_id.
\* A heartbeat of a worker that no longer holds its job changes nothing: the
\* heartbeat thread returns and the job goes on without one.
ExtendLease(w) ==
    /\ Holds(w)
    /\ job' = [job EXCEPT ![grant[w].job].lease = LeaseSeconds]
    /\ grant' = [grant EXCEPT ![w].lease = LeaseSeconds]
    /\ UNCHANGED late

\* The worker gives up its grant and reports; it is a late report when the row
\* is no longer its own.
Report(w) ==
    /\ grant[w].job # None
    /\ grant' = [grant EXCEPT ![w] = NoGrant]
    /\ late' = IF Holds(w) THEN late ELSE late \cup {grant[w].job}

\* UPDATE ... WHERE id = :job_id: neither status nor claimed_by is looked at.
Complete(w) ==
    /\ Report(w)
    /\ job' = [job EXCEPT ![grant[w].job].status = "succeeded"]

\* The delay in force after a failed attempt number a.
Delays(a) == {Backoff[a] + extra : extra \in 0..Jitter}

\* A mutated form of OutOfAttempts.
OneAttemptTooMany(j) == job[j].attempts > MaxAttempts

\* attempts >= max_attempts
OutOfAttempts(j) == job[j].attempts >= MaxAttempts

Fail(w, retry) ==
    /\ Report(w)
    /\ LET j == grant[w].job IN
       IF ~retry \/ OutOfAttempts(j)
       THEN job' = [job EXCEPT ![j].status = "failed"]
       ELSE \E delay \in Delays(job[j].attempts) :
                job' = [job EXCEPT ![j] = [@ EXCEPT !.status = "pending", !.wait = delay]]

\* Two mutated forms of Expired: a lease that ends now counts as expired; the
\* status is not looked at.
ExpiredEarly(j) == job[j].status = "claimed" /\ job[j].lease <= 0
ExpiredWhateverStatus(j) == job[j].status # "absent" /\ job[j].lease = Lapsed

\* status = 'claimed' AND lease_until < now
Expired(j) == job[j].status = "claimed" /\ job[j].lease = Lapsed

\* Two mutated forms of Reclaimed: a reaper that leaves out the rows without
\* attempts; one that spares none.
ReclaimedWithAttemptsOnly(j) == IF OutOfAttempts(j) THEN "claimed" ELSE "pending"
ReclaimedAlways(j) == "pending"

Reclaimed(j) == IF OutOfAttempts(j) THEN "failed" ELSE "pending"

\* Two UPDATEs in one transaction: first the expired rows without attempts left
\* become failed, then the other expired rows become pending.  claimed_by,
\* lease_until and available_at keep their values.
ReapExpired ==
    /\ \E j \in Jobs : Expired(j)
    /\ job' = [j \in Jobs |-> IF Expired(j)
                              THEN [job[j] EXCEPT !.status = Reclaimed(j)]
                              ELSE job[j]]
    /\ UNCHANGED << grant, late >>

-----------------------------------------------------------------------------
(* What happens around the queue. *)

\* A worker thread, or its whole process, ends without reporting.
Die(w) ==
    /\ grant[w].job # None
    /\ grant' = [grant EXCEPT ![w] = NoGrant]
    /\ UNCHANGED << job, late >>

Sooner(distance) == IF distance = Lapsed THEN Lapsed ELSE distance - 1

Tick ==
    /\ job' = [j \in Jobs |->
                [job[j] EXCEPT !.lease = Sooner(@),
                               !.wait = IF @ = 0 THEN 0 ELSE @ - 1]]
    /\ grant' = [w \in Workers |-> [grant[w] EXCEPT !.lease = Sooner(@)]]
    /\ UNCHANGED late

Settle(w) == Complete(w) \/ \E retry \in BOOLEAN : Fail(w, retry)

Next ==
    \/ \E j \in Jobs, priority \in Priorities : Enqueue(j, priority)
    \/ \E w \in Workers, j \in Jobs : Claim(w, j)
    \/ \E w \in Workers : \/ ExtendLease(w)
                          \/ Complete(w)
                          \/ \E retry \in BOOLEAN : Fail(w, retry)
                          \/ Die(w)
    \/ ReapExpired
    \/ Tick

Spec == Init /\ [][Next]_vars

\* The clock runs, the reaper's interval job keeps coming, a worker thread
\* polls while it is idle and ends every job it took.  Nothing makes anybody
\* enqueue, and a worker may die at any time.
Fairness ==
    /\ WF_vars(Tick)
    /\ WF_vars(ReapExpired)
    /\ \A w \in Workers : /\ WF_vars(\E j \in Jobs : Claim(w, j))
                          /\ WF_vars(Settle(w))

FairSpec == Spec /\ Fairness

-----------------------------------------------------------------------------
(* Properties. *)

\* Every row and every grant has the columns the table declares.
TypeOK ==
    /\ job \in [Jobs -> Row]
    /\ grant \in [Workers -> Grant]
    /\ late \subseteq Jobs

\* However claims, failures, lost leases and late reports mix, no job is handed
\* out more than max_attempts times, and a job that still waits has at least
\* one attempt left (claim adds to attempts without looking at max_attempts).
AttemptBudget ==
    \A j \in Jobs :
        /\ job[j].attempts <= MaxAttempts
        /\ job[j].status = "pending" => job[j].attempts < MaxAttempts
        /\ job[j].status = "claimed" => job[j].attempts > 0

\* A worker whose lease, as far as it knows, still runs has the row to itself,
\* with the attempt number and the lease it was told; so its decision
\* "attempts used up" in _handle is the one queue.fail will take.  Only a late
\* report (complete and fail do not look at claimed_by) can break this.
LeaseIsExclusive ==
    \A w \in Workers :
        LET j == grant[w].job IN
        (j # None /\ grant[w].lease # Lapsed /\ j \notin late)
            => /\ Holds(w)
               /\ job[j].attempts = grant[w].attempts
               /\ job[j].lease = grant[w].lease

\* Two workers never work on one job under leases that both still run, unless
\* the job was reported late.
NoTwoHolders ==
    \A v, w \in Workers :
        (v # w /\ grant[v].job # None /\ grant[v].job = grant[w].job)
            => \/ grant[v].lease = Lapsed
               \/ grant[w].lease = Lapsed
               \/ grant[v].job \in late

\* A settled job is never handed out again, unless it was reported late: a
\* second fail(retry) of a job that is already done puts it back in the queue.
SettledStaysSettled ==
    [][\A j \in Jobs :
        (job[j].status \in Settled /\ job'[j].status \notin Settled) => j \in late']_vars

\* Every job that enters the queue ends succeeded or failed, although workers
\* may die on it each time: the reaper takes it back and the budget ends it.
JobsSettle ==
    \A j \in Jobs :
        job[j].status \in {"pending", "claimed"} ~> job[j].status \in Settled

\* The table with its clocks is a WorkQueue.
WQ == INSTANCE WorkQueue WITH
        jobStatus <- [j \in Jobs |-> job[j].status],
        jobAttempts <- [j \in Jobs |-> job[j].attempts]

ImplementsWorkQueue == WQ!QueueSpec
=============================================================================
