----------------------------- MODULE RunLifecycle -----------------------------
(***************************************************************************)
(* The life of a run: the API and the scheduler that create, cancel and    *)
(* review it, the worker threads that execute it, and the reaper that      *)
(* repairs it, over one SQLite database.                                   *)
(*                                                                         *)
(* A step is one committed transaction, or one call of the queue, which is *)
(* a transaction of its own.  A session that read and then writes fails    *)
(* ("database is locked") if anybody committed in between, so read-then-   *)
(* write inside ONE transaction is one step here or ends in Crash.  What   *)
(* is carried over a commit in memory is not protected: Begin writes       *)
(* RUNNING over whatever the row says by then, because the Run object was  *)
(* loaded before _handle committed CLAIMED.                                *)
(*                                                                         *)
(* The workflow is the template invoice_to_excel with one invoice per run: *)
(* check reads and checks it, write and escalate are the two branches.     *)
(***************************************************************************)
EXTENDS WorkQueue, RunState

CONSTANTS Runs,          \* the ids a row of runs can get
          Employees,     \* the AI employees, with an approved workflow
          Workers,       \* the worker threads
          Cancellable,   \* bound: the runs somebody may cancel
          Questionable,  \* bound: the runs whose invoice can fail the check
          Faults,        \* bound: the kinds of fault that occur
          MaxFaults,     \* bound: how many of them
          None

ASSUME RunLifecycleAssumption ==
    /\ Runs \subseteq Nat
    /\ None \notin Runs \cup Employees \cup Jobs
    /\ Cancellable \subseteq Runs
    /\ Questionable \subseteq Runs
    /\ Faults \subseteq {"die", "crash", "stall"}
    /\ MaxFaults \in Nat

VARIABLES run,      \* run[r]: the row of runs, its invoice and its log
          jobRun,   \* jobRun[j]: column run_id of the job
          lapsed,   \* the claimed jobs whose lease_until has passed
          worker,   \* worker[w]: what the thread is doing
          reaper,   \* "reap" or "repair": the transaction the reaper does next
          faults,   \* how many faults happened so far
          stalled   \* history: the jobs whose lease ran out under a live thread

leaseVars == << lapsed, reaper, faults, stalled >>
vars == << queueVars, run, jobRun, worker, leaseVars >>

\* The steps of the workflow a first pass and a resumed run go through.
Steps == {"check", "write", "escalate"}
\* Where a thread is: what it does in its next transaction.
Places == {"idle", "handle", "begin", "transient", "permanent", "finish",
           "giveup", "complete", "fail", "crashed", "abandon"} \cup Steps

InvoiceStatus == {"processing", "ok", "needs_review", "rejected"}

\* invoice: the document the run reads; reviewed: the log of the run has a
\* transition to NEEDS_REVIEW.
RunRow == [status : RunStatus \cup {"absent"}, employee : Employees \cup {None},
           invoice : InvoiceStatus, reviewed : BOOLEAN]
NoRun == [status |-> "absent", employee |-> None, invoice |-> "processing",
          reviewed |-> FALSE]

\* attempts: of the Job that claim returned; review: review_document_ids in
\* memory is not empty; resume: the run had reached NEEDS_REVIEW before; seen: the
\* invoice's status in the session, which commits do not expire.
Thread == [at : Places, job : Jobs \cup {None}, attempts : Nat,
           review : BOOLEAN, resume : BOOLEAN, seen : InvoiceStatus]
Idle == [at |-> "idle", job |-> None, attempts |-> 0,
         review |-> FALSE, resume |-> FALSE, seen |-> "processing"]

Init ==
    /\ QueueInit
    /\ run = [r \in Runs |-> NoRun]
    /\ jobRun = [j \in Jobs |-> None]
    /\ lapsed = {}
    /\ worker = [w \in Workers |-> Idle]
    /\ reaper = "reap"
    /\ faults = 0
    /\ stalled = {}

RunOf(w) == jobRun[worker[w].job]
StatusOf(w) == run[RunOf(w)].status
Active(r) == run[r].status \in ACTIVE_STATUSES

\* The thread's next transaction, and one that also moves its run.
Goes(w, place) == worker' = [worker EXCEPT ![w].at = place]
SetStatus(r, status) == run' = [run EXCEPT ![r].status = status]

-----------------------------------------------------------------------------
(* The API and the scheduler. *)

\* POST /runs, cron and file_watch.  The run and its job are one commit.
CreateRun(r, e) ==
    /\ run[r].status = "absent"
    /\ \A s \in Runs : s < r => run[s].status # "absent"
    /\ \A s \in Runs : run[s].employee = e => ~Active(s)
    /\ run' = [run EXCEPT ![r] = [NoRun EXCEPT !.status = "pending", !.employee = e]]
    /\ \E j \in Jobs : Enqueue(j) /\ jobRun' = [jobRun EXCEPT ![j] = r]
    /\ UNCHANGED << worker, leaseVars >>

CancelRun(r) ==
    /\ r \in Cancellable
    /\ run[r].status \notin TERMINAL_STATUSES \cup {"absent"}
    /\ SetStatus(r, "cancelled")
    /\ UNCHANGED << queueVars, jobRun, worker, leaseVars >>

\* A mutated form of Requeue: the job is forgotten.
RequeueWithoutJob(r, again) == UNCHANGED << queueVars, jobRun >>

\* The queue after a run was put back into it, or was not.
Requeue(r, again) ==
    IF again THEN \E j \in Jobs : Enqueue(j) /\ jobRun' = [jobRun EXCEPT ![j] = r]
             ELSE UNCHANGED << queueVars, jobRun >>

\* A mutated form of WaitsForReview: once reviewed, always.
WaitsForEver(r) == run[r].reviewed

\* _maybe_resume_run: if run.status != NEEDS_REVIEW return.
WaitsForReview(r) == run[r].status = "needs_review"

\* A reviewer decides about the invoice: POST /reviews takes only one that waits,
\* PATCH /documents also one that passed.  If the run waits for it, the run goes
\* on in the same commit, through RETRYING to PENDING with a new job, or ends.
Resolve(r, accept) ==
    /\ \/ run[r].invoice = "needs_review"
       \/ run[r].invoice = "ok" /\ accept
    /\ LET status == CASE ~WaitsForReview(r) -> run[r].status
                       [] WaitsForReview(r) /\ accept -> "pending"
                       [] OTHER -> "succeeded"
       IN run' = [run EXCEPT ![r] = [@ EXCEPT !.status = status,
                                     !.invoice = IF accept THEN "ok" ELSE "rejected"]]
    /\ Requeue(r, WaitsForReview(r) /\ accept)
    /\ UNCHANGED << worker, leaseVars >>

-----------------------------------------------------------------------------
(* A worker thread: process_one, _handle, execute. *)

ClaimJob(w, j) ==
    /\ worker[w].at = "idle"
    /\ Claim(j)
    /\ worker' = [worker EXCEPT ![w] = [Idle EXCEPT !.at = "handle", !.job = j,
                                                    !.attempts = jobAttempts[j] + 1]]
    /\ UNCHANGED << run, jobRun, leaseVars >>

\* A mutated form of StartPlace: a resumed run starts over.
StartOver(r) == "check"

\* Where execution starts, once the run is RUNNING: a run that reached review
\* skips the steps that are not downstream of the pass branch.
StartPlace(r) == IF run[r].reviewed THEN "write" ELSE "check"

Running(w) ==
    /\ run' = [run EXCEPT ![RunOf(w)].status = "running"]
    /\ worker' = [worker EXCEPT ![w] = [@ EXCEPT !.at = StartPlace(RunOf(w)),
                                                 !.resume = run[RunOf(w)].reviewed,
                                                 !.seen = run[RunOf(w)].invoice]]

\* The first transaction of _handle.  A run that is CLAIMED already (its worker
\* died, or another job of it is being handled) is executed at once; its status
\* is then read and written in one transaction.
Handle(w) ==
    /\ worker[w].at = "handle"
    /\ \/ /\ CanTransition(StatusOf(w), "claimed")
          /\ SetStatus(RunOf(w), "claimed")
          /\ Goes(w, "begin")
       \/ /\ StatusOf(w) = "claimed"
          /\ Running(w)
       \/ /\ StatusOf(w) # "claimed"
          /\ ~CanTransition(StatusOf(w), "claimed")
          /\ Goes(w, "complete")
          /\ UNCHANGED run
    /\ UNCHANGED << queueVars, jobRun, leaseVars >>

\* The first transaction of execute after _handle committed CLAIMED: the status
\* in memory is CLAIMED, so transition allows it; the row is not read again.
Begin(w) ==
    /\ worker[w].at = "begin"
    /\ Running(w)
    /\ UNCHANGED << queueVars, jobRun, leaseVars >>

\* The step after this one.
After(w) ==
    CASE worker[w].at = "check" -> "write"
      [] worker[w].at = "write" -> IF worker[w].resume THEN "finish" ELSE "escalate"
      [] worker[w].at = "escalate" -> "finish"

\* What assigning status to the session's copy of the invoice leaves in the row:
\* nothing is written if the copy says so already, although a reviewer may have
\* decided since; a copy that was garbage collected is read again.
Assigned(w, status) ==
    {status} \cup IF worker[w].seen = status THEN {run[RunOf(w)].invoice} ELSE {}

\* What a step may leave in the row: check asks the rules again whatever the
\* invoice's status is, and escalate puts what failed back to needs_review.
Found(w, doubt) ==
    CASE worker[w].at = "check" -> Assigned(w, IF doubt THEN "needs_review" ELSE "ok")
      [] worker[w].at = "escalate" /\ doubt -> Assigned(w, "needs_review")
      [] OTHER -> {run[RunOf(w)].invoice}

\* _ensure_not_cancelled, then the step, which commits what it found out about
\* the invoice.
Step(w) ==
    /\ worker[w].at \in Steps
    /\ StatusOf(w) # "cancelled"
    /\ \E doubt \in IF worker[w].at # "check" THEN {worker[w].review}
                    ELSE IF RunOf(w) \in Questionable THEN BOOLEAN ELSE {FALSE} :
        /\ worker' = [worker EXCEPT ![w] = [@ EXCEPT !.at = After(w), !.review = doubt,
                            !.seen = IF doubt THEN "needs_review" ELSE "ok"]]
        /\ \E status \in Found(w, doubt) : run' = [run EXCEPT ![RunOf(w)].invoice = status]
    /\ UNCHANGED << queueVars, jobRun, leaseVars >>

\* _ensure_not_cancelled raises _Cancelled: execute returns.
StopCancelled(w) ==
    /\ worker[w].at \in Steps
    /\ StatusOf(w) = "cancelled"
    /\ Goes(w, "complete")
    /\ UNCHANGED << queueVars, run, jobRun, leaseVars >>

\* The tool raised, and the step's own retries are used up: the step is rolled
\* back, and the run's status is read again in a later transaction.
StepFails(w) ==
    /\ worker[w].at \in Steps
    /\ StatusOf(w) # "cancelled"
    /\ \E kind \in {"transient", "permanent"} : Goes(w, kind)
    /\ UNCHANGED << queueVars, run, jobRun, leaseVars >>

\* The run was not in a status transition allows: InvalidTransitionError leaves
\* _handle, and process_one catches it.
CrashUnless(w, allowed) ==
    ~allowed /\ Goes(w, "crashed") /\ UNCHANGED run

\* A mutated form of LastAttempt: the worker leaves that to the queue.
NeverLastAttempt(w) == FALSE

\* job.attempts >= job.max_attempts, of the Job that claim returned.
LastAttempt(w) == worker[w].attempts >= MaxAttempts

TransientFailure(w) ==
    /\ worker[w].at = "transient"
    /\ LET allowed == CanTransition(StatusOf(w), "retrying") IN
       \/ /\ allowed
          /\ SetStatus(RunOf(w), "retrying")
          /\ Goes(w, IF LastAttempt(w) THEN "giveup" ELSE "fail")
       \/ CrashUnless(w, allowed)
    /\ UNCHANGED << queueVars, jobRun, leaseVars >>

\* RunRetryable in _handle with the attempts used up: rollback, read, FAILED.
GiveUp(w) ==
    /\ worker[w].at = "giveup"
    /\ LET allowed == CanTransition(StatusOf(w), "failed") IN
       \/ allowed /\ SetStatus(RunOf(w), "failed") /\ Goes(w, "fail")
       \/ CrashUnless(w, allowed)
    /\ UNCHANGED << queueVars, jobRun, leaseVars >>

PermanentFailure(w) ==
    /\ worker[w].at = "permanent"
    /\ LET allowed == CanTransition(StatusOf(w), "failed") IN
       \/ allowed /\ SetStatus(RunOf(w), "failed") /\ Goes(w, "complete")
       \/ CrashUnless(w, allowed)
    /\ UNCHANGED << queueVars, jobRun, leaseVars >>

\* _finish reads the status again; a transition that is not allowed is dropped.
Finish(w) ==
    /\ worker[w].at = "finish"
    /\ LET outcome == IF worker[w].review /\ ~worker[w].resume
                      THEN "needs_review" ELSE "succeeded"
       IN run' = IF CanTransition(StatusOf(w), outcome)
                 THEN [run EXCEPT ![RunOf(w)].status = outcome,
                                  ![RunOf(w)].reviewed =
                                        run[RunOf(w)].reviewed \/ outcome = "needs_review"]
                 ELSE run
    /\ Goes(w, "complete")
    /\ UNCHANGED << queueVars, jobRun, leaseVars >>

\* The three reports that end the handling of a job.
ReportComplete(w) ==
    /\ worker[w].at = "complete"
    /\ Complete(worker[w].job)
    /\ lapsed' = lapsed \ {worker[w].job}
    /\ worker' = [worker EXCEPT ![w] = Idle]
    /\ UNCHANGED << run, jobRun, reaper, faults, stalled >>

ReportFail(w) ==
    /\ worker[w].at \in {"fail", "abandon"}
    /\ Fail(worker[w].job, worker[w].at = "fail")
    /\ lapsed' = lapsed \ {worker[w].job}
    /\ worker' = [worker EXCEPT ![w] = Idle]
    /\ UNCHANGED << run, jobRun, reaper, faults, stalled >>

\* _fail_permanently: a run that may become FAILED does, any other is left.
FailPermanently(w) ==
    /\ worker[w].at = "crashed"
    /\ run' = IF CanTransition(StatusOf(w), "failed")
              THEN [run EXCEPT ![RunOf(w)].status = "failed"] ELSE run
    /\ Goes(w, "abandon")
    /\ UNCHANGED << queueVars, jobRun, leaseVars >>

WorkerStep(w) ==
    \/ Handle(w) \/ Begin(w) \/ Step(w) \/ StopCancelled(w) \/ StepFails(w)
    \/ TransientFailure(w) \/ GiveUp(w) \/ PermanentFailure(w) \/ Finish(w)
    \/ FailPermanently(w) \/ ReportComplete(w) \/ ReportFail(w)

-----------------------------------------------------------------------------
(* Leases and the reaper. *)

\* The row still says that this thread claimed it: attempts grows with each
\* claim, so it stands for claimed_by.
Holds(w) ==
    /\ worker[w].job # None
    /\ jobStatus[worker[w].job] = "claimed"
    /\ jobAttempts[worker[w].job] = worker[w].attempts

Fault(kind) == kind \in Faults /\ faults < MaxFaults /\ faults' = faults + 1

\* The lease of a job nobody works on any more runs out; while its worker is
\* alive the heartbeat renews it, unless the whole process stalls.
Lapse(j) ==
    /\ jobStatus[j] = "claimed"
    /\ j \notin lapsed
    /\ IF \E w \in Workers : Holds(w) /\ worker[w].job = j
       THEN Fault("stall") /\ stalled' = stalled \cup {j}
       ELSE UNCHANGED << faults, stalled >>
    /\ lapsed' = lapsed \cup {j}
    /\ UNCHANGED << queueVars, run, jobRun, worker, reaper >>

\* The process goes on before the reaper came by, and its heartbeat, which runs
\* for as long as _handle is inside execute or reports about it, renews.
Heartbeat(w) ==
    /\ Holds(w)
    /\ worker[w].at \notin {"handle", "crashed", "abandon"}
    /\ worker[w].job \in lapsed
    /\ lapsed' = lapsed \ {worker[w].job}
    /\ UNCHANGED << queueVars, run, jobRun, worker, reaper, faults, stalled >>

JobsOf(r) == {j \in Jobs : jobRun[j] = r}
NewestJob(r) == CHOOSE j \in JobsOf(r) : \A i \in JobsOf(r) : i <= j

\* Two mutated forms of Repaired: only runs whose job failed are looked at; an
\* interrupted run goes to where its job went.
RepairedIfFailed(r) ==
    IF run[r].status \in {"claimed", "running"} /\ jobStatus[NewestJob(r)] = "failed"
    THEN "failed" ELSE run[r].status

RepairedToPending(r) ==
    IF run[r].status = "running" /\ jobStatus[NewestJob(r)] = "pending"
    THEN "pending" ELSE run[r].status

\* What the second transaction makes of a run.
Repaired(r) ==
    LET job == jobStatus[NewestJob(r)] IN
    IF run[r].status \notin {"claimed", "running"} \/ job = "claimed" THEN run[r].status
    ELSE IF job = "failed" THEN "failed"
    ELSE IF run[r].status = "running" THEN "retrying"
    ELSE run[r].status

\* A mutated form of Expired: the lease is not looked at.
ExpiredThoughLeased == {j \in Jobs : jobStatus[j] = "claimed"}

\* status = 'claimed' AND lease_until < now
Expired == {j \in lapsed : jobStatus[j] = "claimed"}

\* reap: first the queue's own transaction ...  A pass that finds nothing to do
\* in either transaction is one step.
Reap ==
    /\ reaper = "reap"
    /\ ReapExpired(Expired)
    /\ lapsed' = lapsed \ Expired
    /\ reaper' = IF Expired = {} /\ \A r \in Runs : Repaired(r) = run[r].status
                 THEN "reap" ELSE "repair"
    /\ UNCHANGED << run, jobRun, worker, faults, stalled >>

\* ... then the repair of every run in one transaction of its own, or not, if
\* the database is locked: APScheduler logs the exception and calls reap again
\* at the next interval.
Repair ==
    /\ reaper = "repair"
    /\ reaper' = "reap"
    /\ \/ run' = [r \in Runs |-> [run[r] EXCEPT !.status = Repaired(r)]] /\ UNCHANGED faults
       \/ Fault("crash") /\ UNCHANGED run
    /\ UNCHANGED << queueVars, jobRun, lapsed, worker, stalled >>

-----------------------------------------------------------------------------
(* Faults of a worker thread. *)

\* The thread or its process ends; a new thread starts polling.
Die(w) ==
    /\ worker[w].at # "idle"
    /\ Fault("die")
    /\ worker' = [worker EXCEPT ![w] = Idle]
    /\ UNCHANGED << queueVars, run, jobRun, lapsed, reaper, stalled >>

\* An exception nobody expected, "database is locked" among them, leaves the
\* transaction undone; inside _fail_permanently the finally clause still fails
\* the job, and out of that nothing but the loop catches it.
Crash(w) ==
    /\ worker[w].at # "idle"
    /\ Fault("crash")
    /\ \/ worker[w].at \notin {"crashed", "abandon"} /\ Goes(w, "crashed")
       \/ worker[w].at = "crashed" /\ Goes(w, "abandon")
       \/ worker[w].at = "abandon" /\ worker' = [worker EXCEPT ![w] = Idle]
    /\ UNCHANGED << queueVars, run, jobRun, lapsed, reaper, stalled >>

Next ==
    \/ \E r \in Runs, e \in Employees : CreateRun(r, e)
    \/ \E r \in Runs : CancelRun(r) \/ \E accept \in BOOLEAN : Resolve(r, accept)
    \/ \E w \in Workers : \/ \E j \in Jobs : ClaimJob(w, j)
                          \/ WorkerStep(w)
                          \/ Heartbeat(w) \/ Die(w) \/ Crash(w)
    \/ \E j \in Jobs : Lapse(j)
    \/ Reap
    \/ Repair

Spec == Init /\ [][Next]_vars

\* Threads go on, idle threads poll, the interval job of the reaper comes again,
\* and a lease nobody renews runs out.  No user does anything, no fault happens.
Fairness ==
    /\ \A w \in Workers : /\ WF_vars(\E j \in Jobs : ClaimJob(w, j))
                          /\ WF_vars(WorkerStep(w))
                          /\ WF_vars(Heartbeat(w))
    /\ \A j \in Jobs : WF_vars(Lapse(j) /\ UNCHANGED faults)
    /\ WF_vars(Reap)
    /\ WF_vars(Repair /\ UNCHANGED faults)

FairSpec == Spec /\ Fairness

-----------------------------------------------------------------------------
(* Properties. *)

\* Rows, threads and the reaper have the columns and places declared above.
TypeOK ==
    /\ jobStatus \in [Jobs -> JobStatuses]
    /\ jobAttempts \in [Jobs -> Nat]
    /\ run \in [Runs -> RunRow]
    /\ jobRun \in [Jobs -> Runs \cup {None}]
    /\ lapsed \subseteq Jobs
    /\ worker \in [Workers -> Thread]
    /\ reaper \in {"reap", "repair"}
    /\ faults \in 0..MaxFaults
    /\ stalled \subseteq Jobs

\* The places inside execute, from the commit of RUNNING to its return.
Executing == Steps \cup {"transient", "permanent", "finish"}

\* Two threads never execute one run at a time, although a run that was
\* reviewed has a second job.
OneExecutor ==
    \A v, w \in Workers :
        (v # w /\ worker[v].at \in Executing /\ worker[w].at \in Executing)
            => RunOf(v) # RunOf(w)

\* The same for one job, whose retries follow one another, unless a thread of it
\* went on after its lease had run out.
OneExecutorPerJob ==
    \A v, w \in Workers :
        (v # w /\ worker[v].at \in Executing /\ worker[w].at \in Executing)
            => worker[v].job # worker[w].job \/ worker[v].job \in stalled

\* While a run is active, one of its jobs waits or is being worked on, so an
\* employee is never blocked by a run nobody will touch again (docs/DECISIONS.md
\* ADR-001: never a run without a job).
ActiveRunHasJob ==
    \A r \in Runs : Active(r) => \E j \in JobsOf(r) : jobStatus[j] \in {"pending", "claimed"}

\* A run that succeeded or failed keeps that status whatever its threads, the
\* reaper and the users still do.
SettledRunsStay ==
    [][\A r \in Runs : run[r].status \in {"succeeded", "failed"}
                            => run'[r].status = run[r].status]_vars

Stalled(r) == \E j \in JobsOf(r) : j \in stalled
Undisturbed(r) == ~Stalled(r) /\ \A i, j \in JobsOf(r) : i = j

\* A step leaves a run's status or takes it to one that may follow.
Ordered(r) ==
    LET before == run[r].status
        after == run'[r].status
    IN \/ after = before
       \/ before = "absent" /\ after = "pending"
       \/ CanTransition(before, after)
       \/ before = "needs_review" /\ after = "pending"
       \/ before = "cancelled" /\ after = "running"
       \/ ~Undisturbed(r)

\* As long as a run was enqueued once and no thread of it worked past its lease,
\* its status changes along
\* TRANSITIONS only, or from NEEDS_REVIEW through RETRYING to PENDING in the
\* reviewer's one commit; the exception is the cancellation Begin overwrites.
FollowsTransitions == [][\A r \in Runs : Ordered(r)]_vars

\* Once a run has been NEEDS_REVIEW, what a person decides about its invoice is
\* not taken back by a later pass: a resumed run neither checks nor escalates
\* (a thread that works past its lease still may).
DecisionStands ==
    [][\A r \in Runs :
        run[r].reviewed /\ run[r].invoice \in {"ok", "rejected"} /\ ~Stalled(r)
            => run'[r].invoice # "needs_review"]_vars

\* Every active run ends or comes to wait for a reviewer.
RunsEnd == \A r \in Runs : Active(r) ~> ~Active(r)

\* A run that was enqueued once and that a dead or crashed thread left CLAIMED or
\* RUNNING is taken on, put back or ended, unless a thread worked past its lease.
NoneLeftBehind ==
    \A r \in Runs :
        run[r].status \in {"claimed", "running"}
            ~> run[r].status \notin {"claimed", "running"} \/ ~Undisturbed(r)

\* api/v1/documents.py:372-373: after the last decision the run goes on, so a run
\* in NEEDS_REVIEW has something left to decide.
ReviewIsPending ==
    \A r \in Runs : run[r].status = "needs_review" => run[r].invoice = "needs_review"

-----------------------------------------------------------------------------
(* What the life of a run promises: RunPromise. *)

FaultFree == Faults = {} \/ MaxFaults = 0

\* With faults the promise is about a run that was enqueued once and had no thread
\* past its lease; without them about every run.
Told(r) == FaultFree \/ Undisturbed(r)

\* A thread of the run is at one of the places.
ThreadIn(r, places) == \E w \in Workers : worker[w].at \in places /\ RunOf(w) = r
PassOver(r) ==
    IF ThreadIn(r, Executing) THEN "underway"
    ELSE IF ThreadIn(r, {"begin"}) THEN "taken" ELSE "none"

RunPhase(r) == IF Told(r) THEN PhaseOf(run[r].status) ELSE "adrift"
RunPass(r) == IF Told(r) THEN PassOver(r) ELSE "none"
RunWaited(r) == Told(r) /\ run[r].reviewed

Promised == INSTANCE RunPromise WITH
    Faulty <- ~FaultFree,
    phase <- [r \in Runs |-> RunPhase(r)],
    pass <- [r \in Runs |-> RunPass(r)],
    waited <- [r \in Runs |-> RunWaited(r)]

\* Every run keeps that promise, with faults and without.
ImplementsRuns == Promised!Spec
=============================================================================
