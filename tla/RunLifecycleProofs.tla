-------------------------- MODULE RunLifecycleProofs --------------------------
(***************************************************************************)
(* Proofs about RunLifecycle for every number of runs, jobs, threads and   *)
(* faults: types; the attempts of one job follow one another; a run takes  *)
(* the transitions of its table, but for a cancellation that is            *)
(* overwritten; and a decision in a run's review stands.  And without      *)
(* faults: a run has one executor, an active run a job, and a run that     *)
(* succeeded or failed stays so.  Then, with faults and without, a run     *)
(* keeps what RunPromise says of it.  Last, its log arrives where it is    *)
(* read.                                                                   *)
(***************************************************************************)
EXTENDS LogStream, TLAPS

\* Threads that are not idle have a job, and every job has its run: both are
\* written in one commit (docs/DECISIONS.md, ADR-001).
Links ==
    /\ \A j \in Jobs : jobStatus[j] # "absent" => jobRun[j] \in Runs
    /\ \A w \in Workers : worker[w].at = "idle" <=> worker[w].job = None
    /\ \A w \in Workers : worker[w].job # None => jobStatus[worker[w].job] # "absent"

\* A thread has its job to itself until the lease runs out under it.  OnlyThread
\* alone is not inductive: a claim keeps it only if nobody works on a job that is
\* not claimed, and a reap keeps that only if an expired job has no thread left.
OnlyThread ==
    \A v, w \in Workers :
        (v # w /\ worker[v].job # None /\ worker[v].job = worker[w].job)
            => worker[v].job \in stalled
HoldsOrStalled ==
    \A w \in Workers : worker[w].job # None => Holds(w) \/ worker[w].job \in stalled
LapsedIsFree ==
    /\ \A j \in lapsed : jobStatus[j] = "claimed"
    /\ \A w \in Workers : worker[w].job \in lapsed => worker[w].job \in stalled

Exclusive == OnlyThread /\ HoldsOrStalled /\ LapsedIsFree

Inv == TypeOK /\ Links /\ Exclusive

LEMMA IdleIsAThread == Idle \in Thread /\ Idle.at = "idle" /\ Idle.job = None
BY DEF Idle, Thread, Places, InvoiceStatus

LEMMA NoRunIsARow == NoRun \in RunRow
BY DEF NoRun, RunRow, InvoiceStatus

LEMMA InitInv == Init => Inv
<1> SUFFICES ASSUME Init PROVE Inv
  OBVIOUS
<1>1. TypeOK
  BY IdleIsAThread, NoRunIsARow, RunLifecycleAssumption
     DEF Init, QueueInit, TypeOK, JobStatuses
<1>2. Links /\ Exclusive
  BY IdleIsAThread
     DEF Init, QueueInit, Links, Exclusive, OnlyThread, HoldsOrStalled, LapsedIsFree
<1>3. QED
  BY <1>1, <1>2 DEF Inv

-----------------------------------------------------------------------------
(* The steps by what they do to the queue and to the threads. *)

\* A thread goes on with its job.
LEMMA ThreadGoesOn ==
    ASSUME Inv, NEW w \in Workers, NEW t \in Thread,
           worker[w].at # "idle", t.at # "idle",
           t.job = worker[w].job, t.attempts = worker[w].attempts,
           worker' = [worker EXCEPT ![w] = t],
           run' \in [Runs -> RunRow], faults' \in 0..MaxFaults,
           UNCHANGED << queueVars, jobRun, lapsed, reaper, stalled >>
    PROVE  Inv'
<1>0. TypeOK /\ Links /\ Exclusive
  BY DEF Inv
<1>1. \A v \in Workers : /\ worker'[v].job = worker[v].job
                         /\ worker'[v].attempts = worker[v].attempts
                         /\ worker'[v].at = "idle" <=> worker[v].at = "idle"
  BY <1>0 DEF TypeOK
<1>2. TypeOK'
  BY <1>0 DEF TypeOK, queueVars
<1>3. Links'
  BY <1>0, <1>1 DEF Links, queueVars
<1>4. Exclusive'
  BY <1>0, <1>1
     DEF Exclusive, OnlyThread, HoldsOrStalled, LapsedIsFree, Holds, queueVars
<1>5. QED
  BY <1>2, <1>3, <1>4 DEF Inv

\* A thread lets its job go; the job may be reported in the same step.
LEMMA ThreadLetsGo ==
    ASSUME Inv, NEW w \in Workers,
           worker' = [worker EXCEPT ![w] = Idle],
           jobStatus' \in [Jobs -> JobStatuses],
           \A j \in Jobs : jobStatus[j] # "absent" => jobStatus'[j] # "absent",
           \A j \in Jobs : jobStatus[j] = "absent" => jobStatus'[j] = "absent",
           \A j \in Jobs : j # worker[w].job => jobStatus'[j] = jobStatus[j],
           lapsed' \in {lapsed, lapsed \ {worker[w].job}},
           \A j \in lapsed' : jobStatus'[j] = jobStatus[j],
           faults' \in 0..MaxFaults,
           UNCHANGED << jobAttempts, run, jobRun, reaper, stalled >>
    PROVE  Inv'
<1>0. TypeOK /\ Links /\ Exclusive
  BY DEF Inv
<1>1. /\ worker'[w] = Idle
      /\ \A v \in Workers : v # w => worker'[v] = worker[v]
  BY <1>0 DEF TypeOK
<1>2. TypeOK'
  BY <1>0, IdleIsAThread DEF TypeOK
<1>3. Links'
  BY <1>0, <1>1, IdleIsAThread DEF Links, TypeOK, Thread
<1>4. OnlyThread' /\ LapsedIsFree'
  BY <1>0, <1>1, IdleIsAThread, RunLifecycleAssumption
     DEF Exclusive, OnlyThread, LapsedIsFree, TypeOK
<1>5. HoldsOrStalled'
  <2> SUFFICES ASSUME NEW v \in Workers, worker'[v].job # None, worker'[v].job \notin stalled
               PROVE  Holds(v)'
    BY DEF HoldsOrStalled
  <2>1. v # w /\ worker'[v] = worker[v]
    BY <1>1, IdleIsAThread
  <2>2. worker[v].job # worker[w].job
    BY <1>0, <2>1 DEF Exclusive, OnlyThread
  <2>3. worker[v].job \in Jobs /\ Holds(v)
    BY <1>0, <2>1 DEF Exclusive, HoldsOrStalled, TypeOK, Thread
  <2>4. QED
    BY <2>1, <2>2, <2>3 DEF Holds
<1>6. QED
  BY <1>2, <1>3, <1>4, <1>5 DEF Inv, Exclusive

\* A new job, for a run that is there.
LEMMA JobIsAdded ==
    ASSUME Inv, NEW j \in Jobs, NEW r \in Runs, Enqueue(j),
           jobRun' = [jobRun EXCEPT ![j] = r],
           run' \in [Runs -> RunRow],
           UNCHANGED << worker, leaseVars >>
    PROVE  Inv'
<1>0. TypeOK /\ Links /\ Exclusive
  BY DEF Inv
<1>1. /\ jobStatus[j] = "absent" /\ jobStatus'[j] = "pending"
      /\ \A i \in Jobs : i # j => /\ jobStatus'[i] = jobStatus[i]
                                  /\ jobAttempts'[i] = jobAttempts[i]
                                  /\ jobRun'[i] = jobRun[i]
      /\ jobRun'[j] = r
  BY <1>0 DEF TypeOK, Enqueue, IsNextId
<1>2. TypeOK'
  BY <1>0 DEF TypeOK, Enqueue, JobStatuses, leaseVars
<1>3. \A w \in Workers : worker[w].job # None => worker[w].job \in Jobs /\ worker[w].job # j
  BY <1>0, <1>1 DEF TypeOK, Links, Thread
<1>4. Links'
  BY <1>0, <1>1, <1>3 DEF Links
<1>5. Exclusive'
  BY <1>0, <1>1, <1>3
     DEF Exclusive, OnlyThread, HoldsOrStalled, LapsedIsFree, Holds, TypeOK, leaseVars
<1>6. QED
  BY <1>2, <1>4, <1>5 DEF Inv

\* A run's row changes and nothing else.
LEMMA RowChanges ==
    ASSUME Inv, run' \in [Runs -> RunRow],
           UNCHANGED << queueVars, jobRun, worker, lapsed, stalled >>,
           reaper' \in {"reap", "repair"}, faults' \in 0..MaxFaults
    PROVE  Inv'
BY DEF Inv, TypeOK, Links, Exclusive, OnlyThread, HoldsOrStalled, LapsedIsFree,
       Holds, queueVars

-----------------------------------------------------------------------------
(* The actions. *)

\* A row whose status changes is a row.
LEMMA SetStatusIsTyped ==
    ASSUME TypeOK, NEW r, NEW status \in RunStatus, SetStatus(r, status)
    PROVE  run' \in [Runs -> RunRow]
BY DEF TypeOK, SetStatus, RunRow

LEMMA CreateRunInv ==
    ASSUME Inv, NEW r \in Runs, NEW e \in Employees, CreateRun(r, e)
    PROVE  Inv'
<1>1. PICK j \in Jobs : Enqueue(j) /\ jobRun' = [jobRun EXCEPT ![j] = r]
  BY DEF CreateRun
<1>2. run' \in [Runs -> RunRow]
  BY NoRunIsARow DEF Inv, TypeOK, CreateRun, RunRow, RunStatus
<1>3. UNCHANGED << worker, leaseVars >>
  BY DEF CreateRun
<1>4. QED
  BY <1>1, <1>2, <1>3, JobIsAdded

LEMMA ResolveInv ==
    ASSUME Inv, NEW r \in Runs, NEW accept \in BOOLEAN, Resolve(r, accept)
    PROVE  Inv'
<1>1. run' \in [Runs -> RunRow]
  <2>1. PICK status : /\ status \in RunStatus \cup {"absent"}
                      /\ run' = [run EXCEPT ![r] =
                            [@ EXCEPT !.status = status,
                                      !.invoice = IF accept THEN "ok" ELSE "rejected"]]
    BY DEF Inv, TypeOK, Resolve, RunRow, RunStatus
  <2> DEFINE row == [run[r] EXCEPT !.status = status,
                                   !.invoice = IF accept THEN "ok" ELSE "rejected"]
  <2>2. run[r] \in RunRow
    BY DEF Inv, TypeOK
  <2>3. row \in RunRow
    BY <2>1, <2>2 DEF RunRow, InvoiceStatus
  <2>4. run' = [run EXCEPT ![r] = row]
    BY <2>1
  <2> HIDE DEF row
  <2>5. QED
    BY <2>3, <2>4 DEF Inv, TypeOK
<1>2. UNCHANGED << worker, leaseVars >> /\ Requeue(r, WaitsForReview(r) /\ accept)
  BY DEF Resolve
<1>3. CASE WaitsForReview(r) /\ accept
  BY <1>1, <1>2, <1>3, JobIsAdded DEF Requeue
<1>4. CASE ~(WaitsForReview(r) /\ accept)
  BY <1>1, <1>2, <1>4, RowChanges DEF Requeue, leaseVars, Inv, TypeOK
<1>5. QED
  BY <1>3, <1>4

LEMMA ClaimJobInv ==
    ASSUME Inv, NEW w \in Workers, NEW j \in Jobs, ClaimJob(w, j)
    PROVE  Inv'
<1> DEFINE t == [Idle EXCEPT !.at = "handle", !.job = j, !.attempts = jobAttempts[j] + 1]
<1>0. TypeOK /\ Links /\ Exclusive
  BY DEF Inv
<1>1. /\ jobStatus[j] = "pending" /\ jobStatus' = [jobStatus EXCEPT ![j] = "claimed"]
      /\ jobAttempts' = [jobAttempts EXCEPT ![j] = jobAttempts[j] + 1]
      /\ worker[w].at = "idle" /\ worker' = [worker EXCEPT ![w] = t]
      /\ UNCHANGED << run, jobRun, leaseVars >>
  BY DEF ClaimJob, Claim
<1>2. t \in Thread /\ t.at = "handle" /\ t.job = j /\ t.attempts = jobAttempts[j] + 1
  <2>1. jobAttempts[j] + 1 \in Nat
    BY <1>0 DEF TypeOK
  <2>2. QED
    BY <2>1 DEF Thread, Idle, Places, InvoiceStatus
<1> HIDE DEF t
<1>3. j # None
  BY RunLifecycleAssumption
<1>4. TypeOK'
  <2>1. jobAttempts[j] + 1 \in Nat
    BY <1>0 DEF TypeOK
  <2>2. QED
    BY <1>0, <1>1, <1>2, <2>1 DEF TypeOK, JobStatuses, leaseVars
<1>5. Links'
  BY <1>0, <1>1, <1>2, <1>3 DEF TypeOK, Links
<1>6. OnlyThread'
  <2>1. \A v \in Workers : worker[v].job = j => j \in stalled
    BY <1>0, <1>1, <1>3 DEF Exclusive, HoldsOrStalled, Holds
  <2>2. QED
    BY <1>0, <1>1, <1>2, <2>1 DEF TypeOK, Exclusive, OnlyThread, leaseVars
<1>7. HoldsOrStalled'
  <2> SUFFICES ASSUME NEW v \in Workers, worker'[v].job # None, worker'[v].job \notin stalled
               PROVE  Holds(v)'
    BY <1>1 DEF HoldsOrStalled, leaseVars
  <2>1. CASE v = w
    BY <1>0, <1>1, <1>2, <1>3, <2>1 DEF TypeOK, Holds
  <2>2. CASE v # w
    <3>1. worker'[v] = worker[v] /\ Holds(v)
      BY <1>0, <1>1, <2>2 DEF TypeOK, Exclusive, HoldsOrStalled
    <3>2. worker[v].job # j
      BY <1>1, <3>1 DEF Holds
    <3>3. worker[v].job \in Jobs
      BY <1>0, <3>1 DEF Holds, TypeOK, Thread
    <3>4. QED
      BY <1>0, <1>1, <3>1, <3>2, <3>3 DEF Holds, TypeOK
  <2>3. QED
    BY <2>1, <2>2
<1>8. LapsedIsFree'
  BY <1>0, <1>1, <1>2 DEF TypeOK, Exclusive, LapsedIsFree, leaseVars
<1>9. QED
  BY <1>4, <1>5, <1>6, <1>7, <1>8 DEF Inv, Exclusive

\* A thread of a run that is there moves from one place in its work to the next.
LEMMA GoesOn ==
    ASSUME Inv, NEW w \in Workers, NEW place \in Places \ {"idle"},
           worker[w].at # "idle", Goes(w, place), run' \in [Runs -> RunRow],
           UNCHANGED << queueVars, jobRun, leaseVars >>
    PROVE  Inv'
<1> DEFINE t == [worker[w] EXCEPT !.at = place]
<1>1. worker[w] \in Thread
  BY DEF Inv, TypeOK
<1>2. t \in Thread /\ t.at = place /\ t.job = worker[w].job /\ t.attempts = worker[w].attempts
  BY <1>1 DEF Thread
<1>3. worker' = [worker EXCEPT ![w] = t]
  BY DEF Inv, TypeOK, Goes
<1> HIDE DEF t
<1>4. faults' \in 0..MaxFaults
  BY DEF Inv, TypeOK, leaseVars
<1>5. QED
  BY <1>2, <1>3, <1>4, ThreadGoesOn DEF leaseVars

\* A thread that is at work has a run.
LEMMA HasARun ==
    ASSUME Inv, NEW w \in Workers, worker[w].at # "idle"
    PROVE  worker[w].job \in Jobs /\ RunOf(w) \in Runs
BY DEF Inv, TypeOK, Links, RunOf, Thread

LEMMA RunningInv ==
    ASSUME Inv, NEW w \in Workers, worker[w].at # "idle", Running(w),
           UNCHANGED << queueVars, jobRun, leaseVars >>
    PROVE  Inv'
<1> DEFINE r == RunOf(w)
           t == [worker[w] EXCEPT !.at = StartPlace(r), !.resume = run[r].reviewed,
                                  !.seen = run[r].invoice]
<1>1. r \in Runs /\ worker[w] \in Thread /\ run[r] \in RunRow
  BY HasARun DEF Inv, TypeOK
<1>2. /\ StartPlace(r) \in Places \ {"idle"}
      /\ run[r].reviewed \in BOOLEAN /\ run[r].invoice \in InvoiceStatus
  BY <1>1 DEF StartPlace, Places, Steps, RunRow
<1>3. /\ t \in Thread /\ t.at # "idle"
      /\ t.job = worker[w].job /\ t.attempts = worker[w].attempts
  BY <1>1, <1>2 DEF Thread
<1>4. worker' = [worker EXCEPT ![w] = t]
  BY DEF Inv, TypeOK, Running
<1>5. run' \in [Runs -> RunRow]
  BY SetStatusIsTyped DEF Running, SetStatus, Inv, RunStatus
<1> HIDE DEF t
<1>6. faults' \in 0..MaxFaults
  BY DEF Inv, TypeOK, leaseVars
<1>7. QED
  BY <1>3, <1>4, <1>5, <1>6, ThreadGoesOn DEF leaseVars

LEMMA StepIsTyped ==
    ASSUME Inv, NEW w \in Workers, Step(w)
    PROVE  Inv'
<1>1. worker[w].at \in Steps /\ worker[w] \in Thread /\ worker[w].at # "idle"
  BY DEF Step, Inv, TypeOK, Steps
<1>2. PICK doubt \in BOOLEAN :
        /\ worker' = [worker EXCEPT ![w] = [@ EXCEPT !.at = After(w), !.review = doubt,
                            !.seen = IF doubt THEN "needs_review" ELSE "ok"]]
        /\ \E status \in Found(w, doubt) : run' = [run EXCEPT ![RunOf(w)].invoice = status]
  BY <1>1 DEF Step, Thread
<1>3. After(w) \in Places \ {"idle"}
  BY <1>1 DEF After, Steps, Places
<1> DEFINE t == [worker[w] EXCEPT !.at = After(w), !.review = doubt,
                                  !.seen = IF doubt THEN "needs_review" ELSE "ok"]
<1>4. /\ t \in Thread /\ t.at # "idle"
      /\ t.job = worker[w].job /\ t.attempts = worker[w].attempts
  BY <1>1, <1>3 DEF Thread, InvoiceStatus
<1>5. worker' = [worker EXCEPT ![w] = t]
  BY <1>2
<1> HIDE DEF t
<1>6. run' \in [Runs -> RunRow]
  <2> DEFINE r == RunOf(w)
  <2>1. r \in Runs /\ run[r] \in RunRow /\ run \in [Runs -> RunRow]
    BY <1>1, HasARun DEF Inv, TypeOK
  <2>2. PICK status \in Found(w, doubt) : run' = [run EXCEPT ![r].invoice = status]
    BY <1>2
  <2>3. status \in InvoiceStatus
    BY <2>1 DEF Found, Assigned, RunRow, InvoiceStatus
  <2> HIDE DEF r
  <2>4. QED
    BY <2>1, <2>2, <2>3 DEF RunRow
<1>7. faults' \in 0..MaxFaults /\ UNCHANGED << queueVars, jobRun, lapsed, reaper, stalled >>
  BY DEF Step, Inv, TypeOK, leaseVars
<1>8. QED
  BY <1>1, <1>4, <1>5, <1>6, <1>7, ThreadGoesOn

LEMMA FinishIsTyped ==
    ASSUME Inv, NEW w \in Workers, Finish(w)
    PROVE  run' \in [Runs -> RunRow]
<1> DEFINE r == RunOf(w)
           outcome == IF worker[w].review /\ ~worker[w].resume
                      THEN "needs_review" ELSE "succeeded"
           reviewed == run[r].reviewed \/ outcome = "needs_review"
<1>1. r \in Runs /\ run[r] \in RunRow /\ run \in [Runs -> RunRow]
  BY HasARun DEF Finish, Inv, TypeOK
<1>2. outcome \in RunStatus /\ reviewed \in BOOLEAN
  BY DEF RunStatus
<1>3. \/ run' = run
      \/ run' = [run EXCEPT ![r].status = outcome, ![r].reviewed = reviewed]
  BY DEF Finish
<1> HIDE DEF r, outcome, reviewed
<1>4. QED
  BY <1>1, <1>2, <1>3 DEF RunRow

LEMMA WorkerStepInv ==
    ASSUME Inv, NEW w \in Workers, WorkerStep(w)
    PROVE  Inv'
<1>0. TypeOK /\ Links
  BY DEF Inv
<1> DEFINE StatusSet == \E status \in RunStatus : SetStatus(RunOf(w), status)
<1>s. StatusSet \/ UNCHANGED run => run' \in [Runs -> RunRow]
  BY <1>0, SetStatusIsTyped DEF TypeOK
<1> HIDE DEF StatusSet
<1>1. CASE Handle(w)
  <2>1. worker[w].at # "idle" /\ UNCHANGED << queueVars, jobRun, leaseVars >>
    BY <1>1 DEF Handle
  <2>2. CASE SetStatus(RunOf(w), "claimed") /\ Goes(w, "begin")
    BY <1>s, <2>1, <2>2, GoesOn DEF StatusSet, RunStatus, Places
  <2>3. CASE Running(w)
    BY <2>1, <2>3, RunningInv
  <2>4. CASE Goes(w, "complete") /\ UNCHANGED run
    BY <1>s, <2>1, <2>4, GoesOn DEF Places
  <2>5. QED
    BY <1>1, <2>2, <2>3, <2>4 DEF Handle
<1>2. CASE Begin(w)
  BY <1>2, RunningInv DEF Begin
<1>3. CASE Step(w)
  BY <1>3, StepIsTyped
<1>4. CASE StopCancelled(w)
  BY <1>4, <1>s, GoesOn DEF StopCancelled, Places, Steps
<1>5. CASE StepFails(w)
  BY <1>5, <1>s, GoesOn DEF StepFails, Places, Steps
<1>6. CASE TransientFailure(w)
  <2>1. /\ worker[w].at # "idle" /\ UNCHANGED << queueVars, jobRun, leaseVars >>
        /\ StatusSet \/ UNCHANGED run
        /\ Goes(w, "giveup") \/ Goes(w, "fail") \/ Goes(w, "crashed")
    BY <1>6 DEF TransientFailure, CrashUnless, StatusSet, RunStatus
  <2>2. QED
    BY <1>s, <2>1, GoesOn DEF Places
<1>7. CASE GiveUp(w)
  <2>1. /\ worker[w].at # "idle" /\ UNCHANGED << queueVars, jobRun, leaseVars >>
        /\ StatusSet \/ UNCHANGED run
        /\ Goes(w, "fail") \/ Goes(w, "crashed")
    BY <1>7 DEF GiveUp, CrashUnless, StatusSet, RunStatus
  <2>2. QED
    BY <1>s, <2>1, GoesOn DEF Places
<1>8. CASE PermanentFailure(w)
  <2>1. /\ worker[w].at # "idle" /\ UNCHANGED << queueVars, jobRun, leaseVars >>
        /\ StatusSet \/ UNCHANGED run
        /\ Goes(w, "complete") \/ Goes(w, "crashed")
    BY <1>8 DEF PermanentFailure, CrashUnless, StatusSet, RunStatus
  <2>2. QED
    BY <1>s, <2>1, GoesOn DEF Places
<1>9. CASE Finish(w)
  <2>1. /\ worker[w].at # "idle" /\ UNCHANGED << queueVars, jobRun, leaseVars >>
        /\ Goes(w, "complete")
    BY <1>9 DEF Finish
  <2>2. QED
    BY <1>9, <2>1, FinishIsTyped, GoesOn DEF Places
<1>10. CASE FailPermanently(w)
  <2>1. /\ worker[w].at # "idle" /\ UNCHANGED << queueVars, jobRun, leaseVars >>
        /\ StatusSet \/ UNCHANGED run
        /\ Goes(w, "abandon")
    BY <1>10 DEF FailPermanently, StatusSet, SetStatus, RunStatus
  <2>2. QED
    BY <1>s, <2>1, GoesOn DEF Places
<1>11. CASE ReportComplete(w) \/ ReportFail(w)
  <2> DEFINE g == worker[w].job
  <2>1. /\ worker' = [worker EXCEPT ![w] = Idle] /\ lapsed' = lapsed \ {g}
        /\ UNCHANGED << jobAttempts, run, jobRun, reaper, faults, stalled >>
        /\ jobStatus[g] # "absent"
        /\ \E status \in {"pending", "succeeded", "failed"} :
                jobStatus' = [jobStatus EXCEPT ![g] = status]
    BY <1>11 DEF ReportComplete, ReportFail, Complete, Fail, BackTo
  <2>2. jobStatus' \in [Jobs -> JobStatuses]
    BY <1>0, <2>1 DEF TypeOK, JobStatuses
  <2>3. /\ \A j \in Jobs : j # g => jobStatus'[j] = jobStatus[j]
        /\ \A j \in Jobs : jobStatus[j] # "absent" <=> jobStatus'[j] # "absent"
    BY <1>0, <2>1 DEF TypeOK
  <2>4. \A j \in lapsed' : jobStatus'[j] = jobStatus[j]
    BY <1>0, <2>1, <2>3 DEF TypeOK
  <2>5. faults' \in 0..MaxFaults
    BY <1>0, <2>1 DEF TypeOK
  <2>6. QED
    BY <2>1, <2>2, <2>3, <2>4, <2>5, ThreadLetsGo
<1>12. QED
  BY <1>1, <1>2, <1>3, <1>4, <1>5, <1>6, <1>7, <1>8, <1>9, <1>10, <1>11 DEF WorkerStep

LEMMA CancelRunInv ==
    ASSUME Inv, NEW r \in Runs, CancelRun(r)
    PROVE  Inv'
<1>1. run' \in [Runs -> RunRow]
  BY SetStatusIsTyped DEF CancelRun, Inv, RunStatus
<1>2. QED
  BY <1>1, RowChanges DEF CancelRun, leaseVars, Inv, TypeOK

\* A lease that runs out under a live thread is recorded in stalled, so a lapsed
\* job that is not there has no thread.
LEMMA LapseInv ==
    ASSUME Inv, NEW j \in Jobs, Lapse(j)
    PROVE  Inv'
<1>0. TypeOK /\ Links /\ Exclusive
  BY DEF Inv
<1>1. /\ jobStatus[j] = "claimed" /\ lapsed' = lapsed \cup {j}
      /\ UNCHANGED << queueVars, run, jobRun, worker, reaper >>
      /\ \/ UNCHANGED << faults, stalled >> /\ \A w \in Workers : ~(Holds(w) /\ worker[w].job = j)
         \/ Fault("stall") /\ stalled' = stalled \cup {j}
  BY DEF Lapse
<1>2. faults' \in 0..MaxFaults /\ stalled' \subseteq Jobs /\ stalled \subseteq stalled'
  BY <1>0, <1>1, RunLifecycleAssumption DEF TypeOK, Fault
<1>3. TypeOK' /\ Links'
  BY <1>0, <1>1, <1>2 DEF TypeOK, Links, queueVars
<1>4. OnlyThread' /\ HoldsOrStalled'
  BY <1>0, <1>1, <1>2 DEF Exclusive, OnlyThread, HoldsOrStalled, Holds, queueVars
<1>5. LapsedIsFree'
  <2>1. \A w \in Workers : worker[w].job = j => j \in stalled'
    BY <1>0, <1>1, <1>2, RunLifecycleAssumption DEF Exclusive, HoldsOrStalled
  <2>2. QED
    BY <1>0, <1>1, <1>2, <2>1 DEF Exclusive, LapsedIsFree, queueVars
<1>6. QED
  BY <1>3, <1>4, <1>5 DEF Inv, Exclusive

LEMMA HeartbeatInv ==
    ASSUME Inv, NEW w \in Workers, Heartbeat(w)
    PROVE  Inv'
BY DEF Heartbeat, Inv, TypeOK, Links, Exclusive, OnlyThread, HoldsOrStalled,
       LapsedIsFree, Holds, queueVars

\* An expired job has no thread, or a stalled one: it may go back to the queue.
LEMMA ReapInv ==
    ASSUME Inv, Reap
    PROVE  Inv'
<1>0. TypeOK /\ Links /\ Exclusive
  BY DEF Inv
<1>1. /\ jobStatus' = [j \in Jobs |-> IF j \in Expired THEN BackTo(j) ELSE jobStatus[j]]
      /\ lapsed' = lapsed \ Expired /\ reaper' \in {"reap", "repair"}
      /\ UNCHANGED << jobAttempts, run, jobRun, worker, faults, stalled >>
  BY DEF Reap, ReapExpired
<1>2. Expired \subseteq Jobs /\ \A j \in Expired : j \in lapsed /\ jobStatus[j] = "claimed"
  BY <1>0 DEF Expired, TypeOK
<1>3. TypeOK'
  BY <1>0, <1>1 DEF TypeOK, JobStatuses, BackTo
<1>4. \A j \in Jobs : jobStatus[j] = "absent" <=> jobStatus'[j] = "absent"
  BY <1>1, <1>2 DEF BackTo
<1>5. Links'
  BY <1>0, <1>1, <1>4 DEF Links, TypeOK, Thread
<1>6. OnlyThread' /\ LapsedIsFree'
  BY <1>0, <1>1 DEF Exclusive, OnlyThread, LapsedIsFree, TypeOK
<1>7. HoldsOrStalled'
  BY <1>0, <1>1, <1>2 DEF Exclusive, HoldsOrStalled, LapsedIsFree, Holds, TypeOK, Thread
<1>8. QED
  BY <1>3, <1>5, <1>6, <1>7 DEF Inv, Exclusive

LEMMA RepairInv ==
    ASSUME Inv, Repair
    PROVE  Inv'
<1>1. run' \in [Runs -> RunRow]
  <2>1. \A r \in Runs : run[r] \in RunRow /\ Repaired(r) \in RunStatus \cup {"absent"}
    BY DEF Inv, TypeOK, RunRow, Repaired, RunStatus
  <2>2. \A r \in Runs : [run[r] EXCEPT !.status = Repaired(r)] \in RunRow
    BY <2>1 DEF RunRow
  <2>3. QED
    BY <2>2 DEF Repair, Inv, TypeOK
<1>2. faults' \in 0..MaxFaults
  BY RunLifecycleAssumption DEF Repair, Fault, Inv, TypeOK
<1>3. QED
  BY <1>1, <1>2, RowChanges DEF Repair

LEMMA DieInv ==
    ASSUME Inv, NEW w \in Workers, Die(w)
    PROVE  Inv'
<1>1. faults' \in 0..MaxFaults
  BY RunLifecycleAssumption DEF Die, Fault, Inv, TypeOK
<1>2. QED
  BY <1>1, ThreadLetsGo DEF Die, Inv, TypeOK, queueVars

LEMMA CrashInv ==
    ASSUME Inv, NEW w \in Workers, Crash(w)
    PROVE  Inv'
<1>1. /\ faults' \in 0..MaxFaults /\ worker[w].at # "idle"
      /\ UNCHANGED << queueVars, run, jobRun, lapsed, reaper, stalled >>
  BY RunLifecycleAssumption DEF Crash, Fault, Inv, TypeOK
<1>2. CASE worker' = [worker EXCEPT ![w] = Idle]
  BY <1>1, <1>2, ThreadLetsGo DEF Inv, TypeOK, queueVars
<1>3. ASSUME NEW place \in {"crashed", "abandon"}, Goes(w, place)
      PROVE  Inv'
  <2> DEFINE t == [worker[w] EXCEPT !.at = place]
  <2>1. worker[w] \in Thread /\ run \in [Runs -> RunRow]
    BY DEF Inv, TypeOK
  <2>2. /\ t \in Thread /\ t.at # "idle"
        /\ t.job = worker[w].job /\ t.attempts = worker[w].attempts
    BY <2>1 DEF Thread, Places
  <2>3. worker' = [worker EXCEPT ![w] = t]
    BY <1>3 DEF Goes
  <2> HIDE DEF t
  <2>4. QED
    BY <1>1, <2>1, <2>2, <2>3, ThreadGoesOn
<1>4. QED
  BY <1>2, <1>3 DEF Crash

LEMMA NextInv == Inv /\ [Next]_vars => Inv'
<1> SUFFICES ASSUME Inv, [Next]_vars PROVE Inv'
  OBVIOUS
<1>1. ASSUME NEW r \in Runs, NEW e \in Employees, CreateRun(r, e) PROVE Inv'
  BY <1>1, CreateRunInv
<1>2. ASSUME NEW r \in Runs, CancelRun(r) PROVE Inv'
  BY <1>2, CancelRunInv
<1>3. ASSUME NEW r \in Runs, NEW accept \in BOOLEAN, Resolve(r, accept) PROVE Inv'
  BY <1>3, ResolveInv
<1>4. ASSUME NEW w \in Workers, NEW j \in Jobs, ClaimJob(w, j) PROVE Inv'
  BY <1>4, ClaimJobInv
<1>5. ASSUME NEW w \in Workers, WorkerStep(w) PROVE Inv'
  BY <1>5, WorkerStepInv
<1>6. ASSUME NEW w \in Workers, Heartbeat(w) \/ Die(w) \/ Crash(w) PROVE Inv'
  BY <1>6, HeartbeatInv, DieInv, CrashInv
<1>7. ASSUME NEW j \in Jobs, Lapse(j) PROVE Inv'
  BY <1>7, LapseInv
<1>8. CASE Reap \/ Repair
  BY <1>8, ReapInv, RepairInv
<1>9. CASE UNCHANGED vars
  BY <1>9, RowChanges DEF vars, leaseVars, Inv, TypeOK
<1>10. QED
  BY <1>1, <1>2, <1>3, <1>4, <1>5, <1>6, <1>7, <1>8, <1>9 DEF Next

-----------------------------------------------------------------------------
(* The theorems. *)

\* Inv holds in every reachable state, with any faults: the invariant that runs,
\* jobs and threads keep.
THEOREM Invariance == Spec => []Inv
<1>1. Init => Inv
  BY InitInv
<1>2. Inv /\ [Next]_vars => Inv'
  BY NextInv
<1>3. QED
  BY <1>1, <1>2, PTL DEF Spec

\* Rows, threads and the reaper keep the columns and places of TypeOK, for any
\* numbers of runs, jobs, threads and faults.
THEOREM TypeCorrect == Spec => []TypeOK
<1>1. Inv => TypeOK
  BY DEF Inv
<1>2. QED
  BY <1>1, Invariance, PTL

\* The attempts of one job never overlap inside execute, whatever dies or
\* crashes, unless a thread outlived its lease.
THEOREM AttemptsFollow == Spec => []OneExecutorPerJob
<1>1. Inv => OneExecutorPerJob
  <2> SUFFICES ASSUME Inv, NEW v \in Workers, NEW w \in Workers, v # w,
                      worker[v].at \in Executing, worker[v].job = worker[w].job
               PROVE  worker[v].job \in stalled
    BY DEF OneExecutorPerJob
  <2>1. worker[v].job # None
    BY DEF Inv, Links, Executing, Steps
  <2>2. QED
    BY <2>1 DEF Inv, Exclusive, OnlyThread
<1>2. QED
  BY <1>1, Invariance, PTL

\* A job, once there, is the job of a run that is there: the queue never hands a
\* thread a job whose run _handle does not find.
THEOREM JobsHaveRuns == Spec => [](\A w \in Workers : worker[w].at # "idle" => RunOf(w) \in Runs)
<1>1. Inv => \A w \in Workers : worker[w].at # "idle" => RunOf(w) \in Runs
  BY HasARun
<1>2. QED
  BY <1>1, Invariance, PTL

-----------------------------------------------------------------------------
(* The passes over a run: what FollowsTransitions and DecisionStands rest on. *)

\* A job that is not there names no run, and the run a job names is there.
Rows ==
    /\ \A j \in Jobs : jobStatus[j] = "absent" => jobRun[j] = None
    /\ \A j \in Jobs : jobRun[j] \in Runs => run[jobRun[j]].status # "absent"

\* Only a review gives a run a second job.
Reviews ==
    \A r \in Runs :
        /\ run[r].status = "needs_review" => run[r].reviewed
        /\ ~run[r].reviewed => \A i, j \in JobsOf(r) : i = j

\* A thread in a step of a run that was reviewed resumes it: it is past check
\* and will not go to escalate.
ResumesIt(w) ==
    worker[w].at \in Steps /\ run[RunOf(w)].reviewed /\ ~Stalled(RunOf(w))
        => worker[w].at = "write" /\ worker[w].resume
Resumes == \A w \in Workers : ResumesIt(w)

\* Between the commit of CLAIMED and that of RUNNING only a cancellation comes.
BeginsIt(w) ==
    worker[w].at = "begin" /\ Undisturbed(RunOf(w)) => StatusOf(w) \in {"claimed", "cancelled"}
Begins == \A w \in Workers : BeginsIt(w)

Passes == Rows /\ Reviews /\ Resumes /\ Begins

LEMMA InitPasses == Init => Passes
BY IdleIsAThread, RunLifecycleAssumption
   DEF Init, QueueInit, Passes, Rows, Reviews, Resumes, ResumesIt, Begins, BeginsIt,
       JobsOf, NoRun, Steps

\* An undisturbed run has one thread at a time.
LEMMA Alone ==
    ASSUME Inv, NEW v \in Workers, NEW w \in Workers, v # w,
           worker[v].at # "idle", worker[w].at # "idle", RunOf(v) = RunOf(w),
           ~Stalled(RunOf(w)), \A i, j \in JobsOf(RunOf(w)) : i = j
    PROVE  FALSE
<1>1. worker[v].job \in JobsOf(RunOf(w)) /\ worker[w].job \in JobsOf(RunOf(w))
  BY HasARun DEF RunOf, JobsOf
<1>2. worker[v].job = worker[w].job /\ worker[w].job \notin stalled
  BY <1>1 DEF Stalled
<1>3. QED
  BY <1>2 DEF Inv, Links, Exclusive, OnlyThread

\* One thread goes on with the run it has, and the queue gets no job.
LEMMA OneThreadMoves ==
    ASSUME Inv, Passes, NEW w \in Workers, worker[w].at # "idle",
           \A v \in Workers : v # w => worker'[v] = worker[v],
           UNCHANGED << jobRun, stalled >>,
           \A j \in Jobs : jobStatus'[j] = "absent" <=> jobStatus[j] = "absent",
           \A r \in Runs : r # RunOf(w) => run'[r] = run[r],
           run'[RunOf(w)].status # "absent",
           run[RunOf(w)].reviewed => run'[RunOf(w)].reviewed,
           run'[RunOf(w)].status = "needs_review" => run'[RunOf(w)].reviewed,
           ResumesIt(w)', BeginsIt(w)'
    PROVE  Passes'
<1>0. Rows /\ Reviews /\ Resumes /\ Begins
  BY DEF Passes
<1>1. RunOf(w) \in Runs
  BY HasARun
<1>2. \A r : JobsOf(r)' = JobsOf(r) /\ Stalled(r)' = Stalled(r)
             /\ Undisturbed(r)' = Undisturbed(r)
  BY DEF JobsOf, Stalled, Undisturbed
<1>3. Rows' /\ Reviews'
  BY <1>0, <1>1, <1>2 DEF Rows, Reviews
<1>4. ASSUME NEW v \in Workers, v # w, worker[v].at # "idle"
      PROVE  ResumesIt(v)' /\ BeginsIt(v)'
  <2>1. worker'[v] = worker[v] /\ RunOf(v)' = RunOf(v) /\ RunOf(v) \in Runs
    BY <1>4, HasARun DEF RunOf
  <2>2. ResumesIt(v) /\ BeginsIt(v)
    BY <1>0 DEF Resumes, Begins
  <2>3. CASE RunOf(v) # RunOf(w)
    BY <1>2, <2>1, <2>2, <2>3 DEF ResumesIt, BeginsIt, StatusOf
  <2>4. CASE RunOf(v) = RunOf(w)
    <3>1. ~Undisturbed(RunOf(v))
      BY <1>4, <2>4, Alone DEF Undisturbed
    <3>2. ~Stalled(RunOf(v)) => run[RunOf(v)].reviewed
      BY <1>0, <2>1, <3>1 DEF Reviews, Undisturbed
    <3>3. QED
      BY <1>2, <2>1, <2>2, <3>1, <3>2 DEF ResumesIt, BeginsIt
  <2>5. QED
    BY <2>3, <2>4
<1>5. ASSUME NEW v \in Workers, v # w, worker[v].at = "idle"
      PROVE  ResumesIt(v)' /\ BeginsIt(v)'
  BY <1>5 DEF ResumesIt, BeginsIt, Steps
<1>6. QED
  BY <1>3, <1>4, <1>5 DEF Passes, Resumes, Begins

\* No thread moves, the queue gets no job, and no run comes to wait for review.
LEMMA OnlyRowsMove ==
    ASSUME Inv, Passes, UNCHANGED << jobRun, worker >>, stalled \subseteq stalled',
           \A j \in Jobs : jobStatus'[j] = "absent" <=> jobStatus[j] = "absent",
           \A r \in Runs : /\ run'[r].reviewed = run[r].reviewed
                           /\ run'[r].status = "absent" <=> run[r].status = "absent"
                           /\ run'[r].status = "needs_review" => run[r].status = "needs_review",
           \A w \in Workers : worker[w].at = "begin" /\ Undisturbed(RunOf(w))
                                => run'[RunOf(w)].status \in {StatusOf(w), "cancelled"}
    PROVE  Passes'
<1>0. Rows /\ Reviews /\ Resumes /\ Begins
  BY DEF Passes
<1>1. \A r : /\ JobsOf(r)' = JobsOf(r)
             /\ Stalled(r) => Stalled(r)'
             /\ Undisturbed(r)' => Undisturbed(r)
  BY DEF JobsOf, Stalled, Undisturbed
<1>2. Rows' /\ Reviews'
  BY <1>0, <1>1 DEF Rows, Reviews
<1>3. ASSUME NEW v \in Workers, worker[v].at # "idle"
      PROVE  ResumesIt(v)' /\ BeginsIt(v)'
  <2>1. RunOf(v)' = RunOf(v) /\ RunOf(v) \in Runs
    BY <1>3, HasARun DEF RunOf
  <2>2. ResumesIt(v) /\ BeginsIt(v)
    BY <1>0 DEF Resumes, Begins
  <2>3. QED
    BY <1>1, <2>1, <2>2 DEF ResumesIt, BeginsIt, StatusOf
<1>4. ASSUME NEW v \in Workers, worker[v].at = "idle"
      PROVE  ResumesIt(v)' /\ BeginsIt(v)'
  BY <1>4 DEF ResumesIt, BeginsIt, Steps
<1>5. QED
  BY <1>2, <1>3, <1>4 DEF Passes, Resumes, Begins

\* A job is added: to a run without jobs, or to one that was reviewed.
LEMMA JobAddedPasses ==
    ASSUME Inv, Passes, NEW j \in Jobs, NEW r \in Runs, Enqueue(j),
           jobRun' = [jobRun EXCEPT ![j] = r],
           UNCHANGED << worker, leaseVars >>,
           run[r].status = "absent" \/ run[r].status = "needs_review",
           run'[r].status = "pending", run'[r].reviewed = (run[r].status = "needs_review"),
           \A s \in Runs : s # r => run'[s] = run[s]
    PROVE  Passes'
<1>0. Rows /\ Reviews /\ Resumes /\ Begins
  BY DEF Passes
<1>1. /\ jobStatus[j] = "absent" /\ jobRun[j] = None /\ jobRun'[j] = r /\ r # None
      /\ \A i \in Jobs : i # j => jobRun'[i] = jobRun[i] /\ jobStatus'[i] = jobStatus[i]
      /\ jobStatus'[j] = "pending"
  BY <1>0, RunLifecycleAssumption DEF Enqueue, IsNextId, Rows, Inv, TypeOK
<1>2. \A s \in Runs : /\ JobsOf(s) \subseteq JobsOf(s)'
                      /\ s # r => JobsOf(s)' = JobsOf(s)
                      /\ Stalled(s) => Stalled(s)'
                      /\ Undisturbed(s)' => Undisturbed(s)
  BY <1>1, RunLifecycleAssumption DEF JobsOf, Stalled, Undisturbed, leaseVars
<1>3. run[r].status = "absent" => JobsOf(r) = {}
  BY <1>0 DEF Rows, JobsOf
<1>4. Rows'
  BY <1>0, <1>1 DEF Rows, Inv, TypeOK
<1>5. Reviews'
  <2>1. \A s \in Runs : s # r => Reviews!(s)'
    BY <1>0, <1>2 DEF Reviews
  <2>2. Reviews!(r)'
    <3>1. ASSUME ~run'[r].reviewed, NEW i \in JobsOf(r)'
          PROVE  i = j
      <4>1. i \in Jobs /\ jobRun'[i] = r /\ jobRun[i] # r
        BY <1>3, <3>1 DEF JobsOf
      <4>2. QED
        BY <1>1, <4>1
    <3>2. QED
      BY <3>1
  <2>3. QED
    BY <2>1, <2>2 DEF Reviews
<1>6. ASSUME NEW v \in Workers, worker[v].at # "idle"
      PROVE  ResumesIt(v)' /\ BeginsIt(v)'
  <2>1. worker[v].job # j /\ worker[v].job \in Jobs /\ RunOf(v) \in Runs
    BY <1>1, <1>6, HasARun DEF Inv, Links
  <2>2. RunOf(v)' = RunOf(v)
    BY <1>1, <2>1 DEF RunOf
  <2>3. ResumesIt(v) /\ BeginsIt(v)
    BY <1>0 DEF Resumes, Begins
  <2>4. CASE RunOf(v) # r
    BY <1>2, <2>1, <2>2, <2>3, <2>4 DEF ResumesIt, BeginsIt, StatusOf
  <2>5. CASE RunOf(v) = r
    <3>1. run[r].status = "needs_review" /\ run[r].reviewed
      BY <1>0, <1>3, <2>1, <2>5 DEF JobsOf, RunOf, Reviews
    <3>2. ~Undisturbed(r)'
      BY <1>1, <2>1, <2>2, <2>5 DEF Undisturbed, JobsOf, RunOf
    <3>3. QED
      BY <1>2, <2>2, <2>3, <2>5, <3>1, <3>2 DEF ResumesIt, BeginsIt
  <2>6. QED
    BY <2>4, <2>5
<1>7. ASSUME NEW v \in Workers, worker[v].at = "idle"
      PROVE  ResumesIt(v)' /\ BeginsIt(v)'
  BY <1>7 DEF ResumesIt, BeginsIt, Steps
<1>8. QED
  BY <1>4, <1>5, <1>6, <1>7 DEF Passes, Resumes, Begins

LEMMA ApiPasses ==
    ASSUME Inv, Passes, NEW r \in Runs, NEW e, NEW accept,
           CreateRun(r, e) \/ CancelRun(r) \/ Resolve(r, accept)
    PROVE  Passes'
<1>0. run \in [Runs -> RunRow]
  BY DEF Inv, TypeOK
<1>1. CASE CreateRun(r, e)
  <2>1. /\ run[r].status = "absent" /\ run'[r].status = "pending" /\ ~run'[r].reviewed
        /\ \A s \in Runs : s # r => run'[s] = run[s]
    BY <1>0, <1>1 DEF CreateRun, NoRun
  <2>2. PICK j \in Jobs : Enqueue(j) /\ jobRun' = [jobRun EXCEPT ![j] = r]
    BY <1>1 DEF CreateRun
  <2>3. run'[r].reviewed = (run[r].status = "needs_review")
    BY <1>0, <1>1 DEF CreateRun, NoRun
  <2>4. QED
    BY <1>1, <2>1, <2>2, <2>3, JobAddedPasses DEF CreateRun
<1>2. CASE CancelRun(r)
  BY <1>0, <1>2, OnlyRowsMove
     DEF CancelRun, SetStatus, queueVars, leaseVars, TERMINAL_STATUSES, RunRow, StatusOf
<1>3. CASE Resolve(r, accept)
  <2>1. /\ \A s \in Runs : s # r => run'[s] = run[s]
        /\ run'[r].reviewed = run[r].reviewed
        /\ run'[r].status = IF ~WaitsForReview(r) THEN run[r].status
                            ELSE IF accept THEN "pending" ELSE "succeeded"
    BY <1>0, <1>3 DEF Resolve, RunRow
  <2>2. UNCHANGED << worker, leaseVars >> /\ Requeue(r, WaitsForReview(r) /\ accept)
    BY <1>3 DEF Resolve
  <2>3. CASE WaitsForReview(r) /\ accept
    <3>1. PICK j \in Jobs : Enqueue(j) /\ jobRun' = [jobRun EXCEPT ![j] = r]
      BY <2>2, <2>3 DEF Requeue
    <3>2. run[r].status = "needs_review" /\ run'[r].status = "pending"
      BY <2>1, <2>3 DEF WaitsForReview
    <3>3. run'[r].reviewed = (run[r].status = "needs_review")
      BY <1>0, <2>1, <3>2 DEF Passes, Reviews, RunRow
    <3>4. QED
      BY <2>1, <2>2, <3>1, <3>2, <3>3, JobAddedPasses
  <2>4. CASE ~(WaitsForReview(r) /\ accept)
    <3>1. UNCHANGED << jobRun, worker, jobStatus, stalled >>
      BY <2>2, <2>4 DEF Requeue, queueVars, leaseVars
    <3>2. \A s \in Runs : /\ run'[s].reviewed = run[s].reviewed
                          /\ run'[s].status = "absent" <=> run[s].status = "absent"
                          /\ run'[s].status = "needs_review" => run[s].status = "needs_review"
      BY <2>1 DEF WaitsForReview
    <3>3. \A w \in Workers : worker[w].at = "begin" /\ Undisturbed(RunOf(w))
                                => run'[RunOf(w)].status \in {StatusOf(w), "cancelled"}
      <4> SUFFICES ASSUME NEW w \in Workers, worker[w].at = "begin", Undisturbed(RunOf(w))
                   PROVE  run'[RunOf(w)].status = StatusOf(w)
        OBVIOUS
      <4>1. StatusOf(w) # "needs_review" /\ RunOf(w) \in Runs
        BY HasARun DEF Passes, Begins, BeginsIt
      <4>2. QED
        BY <2>1, <4>1 DEF StatusOf, WaitsForReview
    <3>4. QED
      BY <3>1, <3>2, <3>3, OnlyRowsMove
  <2>5. QED
    BY <2>3, <2>4
<1>4. QED
  BY <1>1, <1>2, <1>3

LEMMA ClaimJobPasses ==
    ASSUME Inv, Passes, NEW w \in Workers, NEW j \in Jobs, ClaimJob(w, j)
    PROVE  Passes'
<1>0. Rows /\ Reviews /\ Resumes /\ Begins
  BY DEF Passes
<1>1. /\ UNCHANGED << run, jobRun, stalled >>
      /\ \A i \in Jobs : jobStatus'[i] = "absent" <=> jobStatus[i] = "absent"
      /\ \A v \in Workers : v # w => worker'[v] = worker[v]
      /\ worker'[w].at = "handle"
  BY DEF ClaimJob, Claim, leaseVars, Idle, Inv, TypeOK
<1>2. \A r : JobsOf(r)' = JobsOf(r) /\ Stalled(r)' = Stalled(r) /\ Undisturbed(r)' = Undisturbed(r)
  BY <1>1 DEF JobsOf, Stalled, Undisturbed
<1>3. Rows' /\ Reviews'
  BY <1>0, <1>1, <1>2 DEF Rows, Reviews
<1>4. \A v \in Workers : ResumesIt(v)' /\ BeginsIt(v)'
  BY <1>0, <1>1, <1>2 DEF Resumes, ResumesIt, Begins, BeginsIt, RunOf, StatusOf, Steps
<1>5. QED
  BY <1>3, <1>4 DEF Passes, Resumes, Begins

\* The steps of a thread after which it is in no step of the workflow.
LEMMA ThreadStopsPasses ==
    ASSUME Inv, Passes, NEW w \in Workers, worker[w].at # "idle",
           \/ UNCHANGED run
           \/ \E status \in RunStatus \ {"needs_review"} : SetStatus(RunOf(w), status),
           \/ \E place \in Places \ (Steps \cup {"begin"}) : Goes(w, place)
           \/ Goes(w, "begin") /\ run' = [run EXCEPT ![RunOf(w)].status = "claimed"]
           \/ worker' = [worker EXCEPT ![w] = Idle],
           UNCHANGED << jobRun, stalled >>,
           \A j \in Jobs : jobStatus'[j] = "absent" <=> jobStatus[j] = "absent"
    PROVE  Passes'
<1>0. /\ run \in [Runs -> RunRow] /\ worker \in [Workers -> Thread]
      /\ RunOf(w) \in Runs /\ worker[w].job \in Jobs
  BY HasARun DEF Inv, TypeOK
<1>1. \A v \in Workers : v # w => worker'[v] = worker[v]
  BY <1>0 DEF Goes
<1>2. \A r \in Runs : r # RunOf(w) => run'[r] = run[r]
  BY <1>0 DEF SetStatus
<1>3. run'[RunOf(w)].reviewed = run[RunOf(w)].reviewed
  BY <1>0 DEF SetStatus, RunRow
<1>4. run'[RunOf(w)].status # "absent"
  <2>1. run[RunOf(w)].status # "absent"
    BY <1>0 DEF Passes, Rows, RunOf
  <2>2. ASSUME NEW status \in RunStatus, SetStatus(RunOf(w), status)
        PROVE  run'[RunOf(w)].status = status /\ status # "absent"
    BY <1>0, <2>2 DEF SetStatus, RunRow, RunStatus
  <2>3. CASE run' = [run EXCEPT ![RunOf(w)].status = "claimed"]
    BY <1>0, <2>3 DEF RunRow
  <2>4. QED
    BY <2>1, <2>2, <2>3
<1>5. run'[RunOf(w)].status = "needs_review" => run'[RunOf(w)].reviewed
  BY <1>0, <1>3 DEF SetStatus, RunRow, Passes, Reviews
<1>6. worker'[w].at \notin Steps
  BY <1>0, IdleIsAThread DEF Goes, Thread, Steps
<1>7. BeginsIt(w)'
  <2>1. CASE Goes(w, "begin") /\ run' = [run EXCEPT ![RunOf(w)].status = "claimed"]
    <3>1. RunOf(w)' = RunOf(w)
      BY <1>0, <2>1 DEF Goes, RunOf, Thread
    <3>2. run'[RunOf(w)].status = "claimed"
      BY <1>0, <2>1 DEF RunRow
    <3>3. QED
      BY <3>1, <3>2 DEF BeginsIt, StatusOf
  <2>2. CASE worker'[w].at # "begin"
    BY <2>2 DEF BeginsIt
  <2>3. QED
    BY <1>0, <2>1, <2>2, IdleIsAThread DEF Goes, Thread
<1>8. QED
  BY <1>1, <1>2, <1>3, <1>4, <1>5, <1>6, <1>7, OneThreadMoves DEF ResumesIt

\* A thread that sets its run RUNNING knows whether it was reviewed.
LEMMA RunningPasses ==
    ASSUME Inv, Passes, NEW w \in Workers, worker[w].at # "idle", Running(w),
           UNCHANGED << queueVars, jobRun, leaseVars >>
    PROVE  Passes'
<1>0. /\ run \in [Runs -> RunRow] /\ worker \in [Workers -> Thread]
      /\ RunOf(w) \in Runs /\ worker[w].job \in Jobs
  BY HasARun DEF Inv, TypeOK
<1>1. /\ \A v \in Workers : v # w => worker'[v] = worker[v]
      /\ worker'[w].at = StartPlace(RunOf(w)) /\ worker'[w].job = worker[w].job
      /\ worker'[w].resume = run[RunOf(w)].reviewed
  BY <1>0 DEF Running, Thread
<1>2. /\ \A r \in Runs : r # RunOf(w) => run'[r] = run[r]
      /\ run'[RunOf(w)].reviewed = run[RunOf(w)].reviewed
      /\ run'[RunOf(w)].status = "running"
  BY <1>0 DEF Running, RunRow
<1>3. ResumesIt(w)' /\ BeginsIt(w)'
  BY <1>1, <1>2 DEF ResumesIt, BeginsIt, RunOf, StartPlace, Steps
<1>4. QED
  BY <1>1, <1>2, <1>3, OneThreadMoves DEF queueVars, leaseVars

LEMMA StepPasses ==
    ASSUME Inv, Passes, NEW w \in Workers, Step(w)
    PROVE  Passes'
<1>0. /\ run \in [Runs -> RunRow] /\ worker \in [Workers -> Thread]
      /\ worker[w].at \in Steps /\ worker[w].at # "idle"
      /\ RunOf(w) \in Runs /\ worker[w].job \in Jobs
  BY HasARun DEF Step, Inv, TypeOK, Steps
<1>1. /\ \A v \in Workers : v # w => worker'[v] = worker[v]
      /\ worker'[w].at = After(w) /\ worker'[w].job = worker[w].job
      /\ worker'[w].resume = worker[w].resume
  BY <1>0 DEF Step, Thread
<1>2. /\ \A r \in Runs : r # RunOf(w) => run'[r] = run[r]
      /\ run'[RunOf(w)].reviewed = run[RunOf(w)].reviewed
      /\ run'[RunOf(w)].status = run[RunOf(w)].status
  BY <1>0 DEF Step, RunRow
<1>3. run[RunOf(w)].status # "absent" /\ ResumesIt(w)
  BY <1>0 DEF Passes, Rows, RunOf, Resumes
<1>4. RunOf(w)' = RunOf(w) /\ Stalled(RunOf(w))' = Stalled(RunOf(w))
  BY <1>1 DEF Step, RunOf, Stalled, JobsOf, leaseVars
<1>5. After(w) = "escalate" => worker[w].at = "write" /\ ~worker[w].resume
  BY <1>0 DEF After, Steps
<1>6. After(w) = "write" => worker[w].at = "check"
  BY <1>0 DEF After, Steps
<1>7. After(w) \in {"write", "escalate", "finish"}
  BY <1>0 DEF After, Steps
<1>8. ResumesIt(w)' /\ BeginsIt(w)'
  BY <1>1, <1>2, <1>3, <1>4, <1>5, <1>6, <1>7 DEF ResumesIt, BeginsIt, Steps
<1>9. QED
  BY <1>0, <1>1, <1>2, <1>3, <1>8, OneThreadMoves
     DEF Step, queueVars, leaseVars, Passes, Reviews

\* The one step after which a run is reviewed; a run that was not has one job.
LEMMA FinishPasses ==
    ASSUME Inv, Passes, NEW w \in Workers, Finish(w)
    PROVE  Passes'
<1> DEFINE outcome == IF worker[w].review /\ ~worker[w].resume
                      THEN "needs_review" ELSE "succeeded"
<1>0. /\ run \in [Runs -> RunRow] /\ worker \in [Workers -> Thread]
      /\ worker[w].at # "idle" /\ RunOf(w) \in Runs /\ worker[w].job \in Jobs
  BY HasARun DEF Finish, Inv, TypeOK
<1>1. (\A v \in Workers : v # w => worker'[v] = worker[v]) /\ worker'[w].at = "complete"
  BY <1>0 DEF Finish, Goes, Thread
<1>2. run[RunOf(w)].status # "absent"
  BY <1>0 DEF Passes, Rows, RunOf
<1>3. \/ run' = run
      \/ run' = [run EXCEPT ![RunOf(w)].status = outcome,
                            ![RunOf(w)].reviewed = run[RunOf(w)].reviewed \/ outcome = "needs_review"]
  BY DEF Finish
<1>4. outcome \in {"needs_review", "succeeded"}
  OBVIOUS
<1> HIDE DEF outcome
<1>5. \A r \in Runs : r # RunOf(w) => run'[r] = run[r]
  BY <1>0, <1>3
<1>6. /\ run'[RunOf(w)].status # "absent"
      /\ run[RunOf(w)].reviewed => run'[RunOf(w)].reviewed
      /\ run'[RunOf(w)].status = "needs_review" => run'[RunOf(w)].reviewed
  BY <1>0, <1>2, <1>3, <1>4 DEF RunRow, Passes, Reviews
<1>7. ResumesIt(w)' /\ BeginsIt(w)'
  BY <1>1 DEF ResumesIt, BeginsIt, Steps
<1>8. QED
  BY <1>0, <1>1, <1>5, <1>6, <1>7, OneThreadMoves DEF Finish, queueVars, leaseVars

LEMMA WorkerStepPasses ==
    ASSUME Inv, Passes, NEW w \in Workers, WorkerStep(w)
    PROVE  Passes'
<1>0. worker[w].at # "idle"
  BY DEF WorkerStep, Handle, Begin, Step, StopCancelled, StepFails, TransientFailure, GiveUp,
         PermanentFailure, Finish, FailPermanently, ReportComplete, ReportFail, Steps
<1>1. CASE Handle(w)
  <2>1. UNCHANGED << queueVars, jobRun, leaseVars >>
    BY <1>1 DEF Handle
  <2>2. CASE SetStatus(RunOf(w), "claimed") /\ Goes(w, "begin")
    BY <1>0, <2>1, <2>2, ThreadStopsPasses DEF SetStatus, RunStatus, queueVars, leaseVars
  <2>3. CASE Running(w)
    BY <1>0, <2>1, <2>3, RunningPasses
  <2>4. CASE Goes(w, "complete") /\ UNCHANGED run
    BY <1>0, <2>1, <2>4, ThreadStopsPasses DEF Places, Steps, queueVars, leaseVars
  <2>5. QED
    BY <1>1, <2>2, <2>3, <2>4 DEF Handle
<1>2. CASE Begin(w)
  BY <1>0, <1>2, RunningPasses DEF Begin
<1>3. CASE Step(w)
  BY <1>3, StepPasses
<1>4. CASE Finish(w)
  BY <1>4, FinishPasses
<1>5. CASE \/ StopCancelled(w) \/ StepFails(w) \/ TransientFailure(w) \/ GiveUp(w)
           \/ PermanentFailure(w) \/ FailPermanently(w)
  <2>1. \/ UNCHANGED run
        \/ \E status \in RunStatus \ {"needs_review"} : SetStatus(RunOf(w), status)
    BY <1>5 DEF StopCancelled, StepFails, TransientFailure, GiveUp, PermanentFailure,
                FailPermanently, CrashUnless, SetStatus, RunStatus
  <2>2. \E place \in {"complete", "transient", "permanent", "giveup", "fail", "crashed", "abandon"} :
            Goes(w, place)
    BY <1>5 DEF StopCancelled, StepFails, TransientFailure, GiveUp, PermanentFailure,
                FailPermanently, CrashUnless
  <2>3. \E place \in Places \ (Steps \cup {"begin"}) : Goes(w, place)
    BY <2>2 DEF Places, Steps
  <2>4. UNCHANGED << queueVars, jobRun, leaseVars >>
    BY <1>5 DEF StopCancelled, StepFails, TransientFailure, GiveUp, PermanentFailure,
                FailPermanently
  <2>5. QED
    BY <1>0, <2>1, <2>3, <2>4, ThreadStopsPasses DEF queueVars, leaseVars
<1>6. CASE ReportComplete(w) \/ ReportFail(w)
  <2>1. /\ worker' = [worker EXCEPT ![w] = Idle]
        /\ UNCHANGED << run, jobRun, stalled >>
        /\ jobStatus[worker[w].job] # "absent"
        /\ \E status \in {"pending", "succeeded", "failed"} :
                jobStatus' = [jobStatus EXCEPT ![worker[w].job] = status]
    BY <1>6 DEF ReportComplete, ReportFail, Complete, Fail, BackTo
  <2>2. \A j \in Jobs : jobStatus'[j] = "absent" <=> jobStatus[j] = "absent"
    BY <2>1 DEF Inv, TypeOK
  <2>3. QED
    BY <1>0, <2>1, <2>2, ThreadStopsPasses
<1>7. QED
  BY <1>1, <1>2, <1>3, <1>4, <1>5, <1>6 DEF WorkerStep

LEMMA LeasePasses ==
    ASSUME Inv, Passes, NEW j, NEW w,
           Lapse(j) \/ Heartbeat(w) \/ Reap
    PROVE  Passes'
<1>1. UNCHANGED << jobRun, worker, run >>
  BY DEF Lapse, Heartbeat, Reap
<1>2. stalled \subseteq stalled'
  BY DEF Lapse, Heartbeat, Reap
<1>3. \A i \in Jobs : jobStatus'[i] = "absent" <=> jobStatus[i] = "absent"
  <2>1. CASE Reap
    BY <2>1 DEF Reap, ReapExpired, Expired, BackTo
  <2>2. CASE Lapse(j) \/ Heartbeat(w)
    BY <2>2 DEF Lapse, Heartbeat, queueVars
  <2>3. QED
    BY <2>1, <2>2
<1>4. QED
  BY <1>1, <1>2, <1>3, OnlyRowsMove DEF StatusOf

\* The repair leaves a run alone whose thread is about to begin: its job is claimed.
LEMMA RepairPasses ==
    ASSUME Inv, Passes, Repair
    PROVE  Passes'
<1>1. UNCHANGED << jobRun, worker, stalled, jobStatus >>
  BY DEF Repair, queueVars
<1>2. CASE UNCHANGED run
  BY <1>1, <1>2, OnlyRowsMove DEF StatusOf
<1>3. CASE run' = [r \in Runs |-> [run[r] EXCEPT !.status = Repaired(r)]]
  <2>1. \A r \in Runs : run'[r].reviewed = run[r].reviewed /\ run'[r].status = Repaired(r)
    BY <1>3 DEF Inv, TypeOK, RunRow
  <2>2. \A r \in Runs : \/ Repaired(r) = run[r].status
                        \/ Repaired(r) \in {"failed", "retrying"} /\ run[r].status # "absent"
    BY DEF Repaired
  <2>3. ASSUME NEW w \in Workers, worker[w].at = "begin", Undisturbed(RunOf(w))
        PROVE  Repaired(RunOf(w)) = StatusOf(w)
    <3>1. RunOf(w) \in Runs /\ worker[w].job \in JobsOf(RunOf(w))
      BY <2>3, HasARun DEF RunOf, JobsOf
    <3>2. JobsOf(RunOf(w)) = {worker[w].job} /\ worker[w].job \notin stalled
      BY <2>3, <3>1 DEF Undisturbed, Stalled
    <3>3. worker[w].job \in Nat
      BY <3>1, WorkQueueAssumption DEF JobsOf
    <3>4. NewestJob(RunOf(w)) = worker[w].job
      BY <3>2, <3>3 DEF NewestJob
    <3>5. jobStatus[worker[w].job] = "claimed"
      BY <2>3, <3>2 DEF Inv, Links, Exclusive, HoldsOrStalled, Holds
    <3>6. QED
      BY <3>4, <3>5 DEF Repaired, StatusOf
  <2>4. \A w \in Workers : worker[w].at = "begin" => RunOf(w) \in Runs
    BY HasARun
  <2>5. QED
    BY <1>1, <2>1, <2>2, <2>3, <2>4, OnlyRowsMove
<1>4. QED
  BY <1>2, <1>3 DEF Repair

LEMMA FaultPasses ==
    ASSUME Inv, Passes, NEW w \in Workers, Die(w) \/ Crash(w)
    PROVE  Passes'
<1>1. worker[w].at # "idle" /\ UNCHANGED << run, jobRun, stalled, jobStatus >>
  BY DEF Die, Crash, queueVars
<1>2. \/ \E place \in {"crashed", "abandon"} : Goes(w, place)
      \/ worker' = [worker EXCEPT ![w] = Idle]
  BY DEF Die, Crash
<1>3. QED
  BY <1>1, <1>2, ThreadStopsPasses DEF Places, Steps

LEMMA NextPasses == Inv /\ Passes /\ [Next]_vars => Passes'
<1> SUFFICES ASSUME Inv, Passes, [Next]_vars PROVE Passes'
  OBVIOUS
<1>1. ASSUME NEW r \in Runs, NEW e \in Employees, CreateRun(r, e) PROVE Passes'
  BY <1>1, ApiPasses
<1>2. ASSUME NEW r \in Runs, NEW accept \in BOOLEAN, CancelRun(r) \/ Resolve(r, accept)
      PROVE  Passes'
  BY <1>2, ApiPasses
<1>3. ASSUME NEW w \in Workers, NEW j \in Jobs, ClaimJob(w, j) PROVE Passes'
  BY <1>3, ClaimJobPasses
<1>4. ASSUME NEW w \in Workers, WorkerStep(w) \/ Die(w) \/ Crash(w) PROVE Passes'
  BY <1>4, WorkerStepPasses, FaultPasses
<1>5. ASSUME NEW w \in Workers, Heartbeat(w) PROVE Passes'
  BY <1>5, LeasePasses
<1>6. ASSUME NEW j \in Jobs, Lapse(j) PROVE Passes'
  BY <1>6, LeasePasses
<1>7. CASE Reap \/ Repair
  BY <1>7, LeasePasses, RepairPasses
<1>8. CASE UNCHANGED vars
  BY <1>8, OnlyRowsMove DEF vars, leaseVars, queueVars, StatusOf
<1>9. QED
  BY <1>1, <1>2, <1>3, <1>4, <1>5, <1>6, <1>7, <1>8 DEF Next

\* Passes holds in every reachable state, with any faults: who may be where in
\* a run that was reviewed or was enqueued once.
THEOREM PassesInvariance == Spec => []Passes
<1>1. Init => Passes
  BY InitPasses
<1>2. Inv /\ Passes /\ [Next]_vars => Passes'
  BY NextPasses
<1>3. QED
  BY <1>1, <1>2, Invariance, PTL DEF Spec

-----------------------------------------------------------------------------
(* The two action properties of the run with faults. *)

LEMMA OrderedIfAllowed ==
    ASSUME Inv, NEW r \in Runs, NEW s \in Runs, NEW status,
           CanTransition(run[s].status, status), SetStatus(s, status)
    PROVE  Ordered(r)
BY DEF Ordered, SetStatus, Inv, TypeOK, RunRow

LEMMA WorkerStepFollows ==
    ASSUME Inv, Passes, NEW w \in Workers, WorkerStep(w), NEW r \in Runs
    PROVE  Ordered(r)
<1>0. run \in [Runs -> RunRow]
  BY DEF Inv, TypeOK
<1>1. CASE UNCHANGED run
  BY <1>1 DEF Ordered
<1>2. CASE \E status : CanTransition(StatusOf(w), status) /\ SetStatus(RunOf(w), status)
  <2>1. worker[w].at # "idle"
    BY DEF WorkerStep, Handle, Begin, Step, StopCancelled, StepFails, TransientFailure, GiveUp,
           PermanentFailure, Finish, FailPermanently, ReportComplete, ReportFail, Steps
  <2>2. QED
    BY <1>2, <2>1, HasARun, OrderedIfAllowed DEF StatusOf
<1>3. CASE Handle(w) /\ StatusOf(w) = "claimed" /\ Running(w)
  BY <1>0, <1>3 DEF Ordered, Running, StatusOf, CanTransition, TRANSITIONS, RunRow
<1>4. CASE Begin(w)
  <2>1. r = RunOf(w) /\ Undisturbed(r) => run[r].status \in {"claimed", "cancelled"}
    BY <1>4 DEF Begin, Passes, Begins, BeginsIt, StatusOf
  <2>2. /\ run'[r].status = IF r = RunOf(w) THEN "running" ELSE run[r].status
    BY <1>0, <1>4 DEF Begin, Running, RunRow
  <2>3. QED
    BY <2>1, <2>2 DEF Ordered, CanTransition, TRANSITIONS
<1>5. CASE Step(w)
  BY <1>0, <1>5 DEF Step, Ordered, RunRow
<1>6. CASE Finish(w)
  <2> DEFINE outcome == IF worker[w].review /\ ~worker[w].resume
                        THEN "needs_review" ELSE "succeeded"
  <2>1. \/ run' = run
        \/ /\ CanTransition(StatusOf(w), outcome)
           /\ run' = [run EXCEPT ![RunOf(w)].status = outcome,
                        ![RunOf(w)].reviewed = run[RunOf(w)].reviewed \/ outcome = "needs_review"]
    BY <1>6 DEF Finish
  <2> HIDE DEF outcome
  <2>2. run'[r].status = run[r].status \/ CanTransition(run[r].status, run'[r].status)
    BY <1>0, <2>1 DEF RunRow, StatusOf
  <2>3. QED
    BY <2>2 DEF Ordered
<1>7. QED
  BY <1>1, <1>2, <1>3, <1>4, <1>5, <1>6
     DEF WorkerStep, Handle, StopCancelled, StepFails, TransientFailure, GiveUp,
         PermanentFailure, FailPermanently, CrashUnless, ReportComplete, ReportFail, SetStatus

LEMMA StepsFollow ==
    ASSUME Inv, Passes, [Next]_vars, NEW r \in Runs
    PROVE  Ordered(r)
<1>0. run \in [Runs -> RunRow]
  BY DEF Inv, TypeOK
<1>1. ASSUME NEW s \in Runs, NEW e \in Employees, CreateRun(s, e) PROVE Ordered(r)
  BY <1>0, <1>1 DEF CreateRun, NoRun, Ordered
<1>2. ASSUME NEW s \in Runs, CancelRun(s) PROVE Ordered(r)
  <2>1. CanTransition(run[s].status, "cancelled")
    BY <1>0, <1>2 DEF CancelRun, RunRow, RunStatus, TERMINAL_STATUSES, CanTransition, TRANSITIONS
  <2>2. QED
    BY <1>2, <2>1, OrderedIfAllowed DEF CancelRun
<1>3. ASSUME NEW s \in Runs, NEW accept \in BOOLEAN, Resolve(s, accept) PROVE Ordered(r)
  <2>1. run'[r].status = IF r = s /\ WaitsForReview(s)
                         THEN IF accept THEN "pending" ELSE "succeeded" ELSE run[r].status
    BY <1>0, <1>3 DEF Resolve, RunRow
  <2>2. QED
    BY <2>1 DEF Ordered, WaitsForReview, CanTransition, TRANSITIONS
<1>4. ASSUME NEW w \in Workers, WorkerStep(w) PROVE Ordered(r)
  BY <1>4, WorkerStepFollows
<1>5. CASE Repair
  <2>1. run' = run \/ run'[r].status = Repaired(r)
    BY <1>0, <1>5 DEF Repair, RunRow
  <2>2. QED
    BY <2>1 DEF Ordered, Repaired, CanTransition, TRANSITIONS
<1>6. CASE UNCHANGED run
  BY <1>6 DEF Ordered
<1>7. QED
  BY <1>1, <1>2, <1>3, <1>4, <1>5, <1>6
     DEF Next, ClaimJob, Heartbeat, Die, Crash, Lapse, Reap, vars

\* A run that was enqueued once moves along TRANSITIONS, or goes from NEEDS_REVIEW
\* through RETRYING to PENDING in the reviewer's one commit, or from CANCELLED to
\* RUNNING, which is no transition of the table but what Begin writes over a
\* cancellation; whatever dies, crashes or is repaired around it, unless a thread of
\* it outlived its lease.
THEOREM StatusesFollow == Spec => FollowsTransitions
<1>1. Inv /\ Passes /\ [Next]_vars => [\A r \in Runs : Ordered(r)]_vars
  BY StepsFollow
<1>2. QED
  BY <1>1, Invariance, PassesInvariance, PTL DEF Spec, FollowsTransitions

\* What a person decided about an invoice of a run is not taken back: no thread
\* of it that keeps its lease is at the two steps that could.
LEMMA StepKeepsDecision ==
    ASSUME Inv, Passes, NEW w \in Workers, Step(w), NEW r \in Runs,
           run[r].reviewed, run[r].invoice \in {"ok", "rejected"}, ~Stalled(r)
    PROVE  run'[r].invoice # "needs_review"
<1>0. run \in [Runs -> RunRow] /\ worker[w].at \in Steps
  BY DEF Step, Inv, TypeOK
<1>1. CASE r # RunOf(w)
  BY <1>0, <1>1 DEF Step
<1>2. CASE r = RunOf(w)
  <2>1. worker[w].at = "write"
    BY <1>0, <1>2 DEF Passes, Resumes, ResumesIt
  <2>2. PICK doubt : \E status \in Found(w, doubt) : run' = [run EXCEPT ![RunOf(w)].invoice = status]
    BY DEF Step
  <2>3. Found(w, doubt) = {run[r].invoice}
    BY <1>2, <2>1 DEF Found
  <2>4. run'[r].invoice = run[r].invoice
    BY <1>0, <1>2, <2>2, <2>3 DEF RunRow
  <2>5. QED
    BY <2>4
<1>3. QED
  BY <1>1, <1>2

LEMMA DecisionKept ==
    ASSUME Inv, Passes, [Next]_vars, NEW r \in Runs,
           run[r].reviewed, run[r].invoice \in {"ok", "rejected"}, ~Stalled(r)
    PROVE  run'[r].invoice # "needs_review"
<1>0. run \in [Runs -> RunRow]
  BY DEF Inv, TypeOK
<1>1. ASSUME NEW s \in Runs, NEW e \in Employees, CreateRun(s, e)
      PROVE  run'[r].invoice # "needs_review"
  BY <1>0, <1>1 DEF CreateRun, NoRun
<1>2. ASSUME NEW s \in Runs, CancelRun(s) PROVE run'[r].invoice # "needs_review"
  BY <1>0, <1>2 DEF CancelRun, SetStatus, RunRow
<1>3. ASSUME NEW s \in Runs, NEW accept \in BOOLEAN, Resolve(s, accept)
      PROVE  run'[r].invoice # "needs_review"
  BY <1>0, <1>3 DEF Resolve, RunRow
<1>4. ASSUME NEW w \in Workers, WorkerStep(w) PROVE run'[r].invoice # "needs_review"
  <2>1. CASE Step(w)
    BY <2>1, StepKeepsDecision
  <2>2. CASE UNCHANGED run \/ \E status : SetStatus(RunOf(w), status)
    BY <1>0, <2>2 DEF SetStatus, RunRow
  <2>3. CASE Finish(w)
    <3> DEFINE outcome == IF worker[w].review /\ ~worker[w].resume
                          THEN "needs_review" ELSE "succeeded"
    <3>1. \/ run' = run
          \/ run' = [run EXCEPT ![RunOf(w)].status = outcome,
                        ![RunOf(w)].reviewed = run[RunOf(w)].reviewed \/ outcome = "needs_review"]
      BY <2>3 DEF Finish
    <3> HIDE DEF outcome
    <3>2. QED
      BY <1>0, <3>1 DEF RunRow
  <2>4. QED
    BY <1>4, <2>1, <2>2, <2>3
       DEF WorkerStep, Handle, Begin, Running, StopCancelled, StepFails, TransientFailure, GiveUp,
           PermanentFailure, FailPermanently, CrashUnless, ReportComplete, ReportFail, SetStatus
<1>5. CASE Repair
  BY <1>0, <1>5 DEF Repair, RunRow
<1>6. CASE UNCHANGED run
  BY <1>6
<1>7. QED
  BY <1>1, <1>2, <1>3, <1>4, <1>5, <1>6
     DEF Next, ClaimJob, Heartbeat, Die, Crash, Lapse, Reap, vars

\* A later pass over a run that has been NEEDS_REVIEW neither checks nor escalates,
\* whatever dies or crashes, so the reviewer's decision about its invoice stands,
\* unless a thread of it outlived its lease.  A decision that came earlier, while the
\* run was RUNNING, is not meant: its check step may be tried again.
THEOREM DecisionsStand == Spec => DecisionStands
<1>1. Inv /\ Passes /\ [Next]_vars
        => [\A r \in Runs :
                run[r].reviewed /\ run[r].invoice \in {"ok", "rejected"} /\ ~Stalled(r)
                    => run'[r].invoice # "needs_review"]_vars
  BY DecisionKept
<1>2. QED
  BY <1>1, Invariance, PassesInvariance, PTL DEF Spec, DecisionStands

-----------------------------------------------------------------------------
(* Without faults: no thread dies, crashes or outlives its lease. *)

\* Rows of job_queue get their ids in turn.
IdsInTurn == \A i, j \in Jobs : i < j /\ jobStatus[i] = "absent" => jobStatus[j] = "absent"

\* Nothing is left for the reaper: a claimed job has a thread that renews it.
NothingLapses ==
    /\ stalled = {} /\ lapsed = {}
    /\ \A j \in Jobs : jobStatus[j] = "claimed" => \E w \in Workers : worker[w].job = j

\* A job is done with its run, although its thread may still have to report it.
Done(j) ==
    \/ jobStatus[j] = "succeeded"
    \/ \E w \in Workers : worker[w].job = j /\ worker[w].at = "complete"

\* OneExecutor is not inductive: a claim keeps it only if the run's other jobs are
\* done, which is so because a review comes after the job before it was done.
OlderAreDone ==
    \A i, j \in Jobs : i < j /\ jobRun[i] = jobRun[j] /\ jobRun[j] \in Runs => Done(i)
ReviewIsOver ==
    \A j \in Jobs : jobRun[j] \in Runs /\ run[jobRun[j]].status = "needs_review" => Done(j)

\* What a run's status says of its jobs, and a job's of its run.
ActiveIsLive ==
    \A r \in Runs : Active(r) => \E j \in JobsOf(r) : jobStatus[j] \in {"pending", "claimed"}
                                                     /\ ~Done(j)
PendingWaits ==
    \A j \in Jobs : jobStatus[j] = "pending"
        => run[jobRun[j]].status \in {"pending", "retrying", "cancelled"}

\* What the place of a thread says of the status of its run.
Fits(place, status, last) ==
    /\ place = "handle" => status \in {"pending", "retrying", "cancelled"}
    /\ place = "begin" => status \in {"claimed", "cancelled"}
    /\ place \in Executing => status \in {"running", "cancelled"}
    /\ place = "giveup" => status \in {"retrying", "cancelled"} /\ last
    /\ place = "fail" => status \in IF last THEN {"failed"} ELSE {"retrying", "cancelled"}
    /\ place \in {"crashed", "abandon"} => status = "cancelled"
InPlace(w) == Fits(worker[w].at, StatusOf(w), LastAttempt(w))

Calm ==
    /\ IdsInTurn /\ NothingLapses /\ OlderAreDone /\ ReviewIsOver /\ ActiveIsLive /\ PendingWaits
    /\ \A w \in Workers : InPlace(w)

LEMMA InitCalm == Init => Calm
<1> SUFFICES ASSUME Init PROVE Calm
  OBVIOUS
<1>1. /\ \A j \in Jobs : jobStatus[j] = "absent" /\ jobRun[j] = None /\ None \notin Runs
      /\ \A r \in Runs : run[r].status = "absent"
      /\ \A w \in Workers : worker[w].at = "idle"
  BY IdleIsAThread, RunLifecycleAssumption DEF Init, QueueInit, NoRun
<1>2. IdsInTurn /\ NothingLapses /\ OlderAreDone /\ ReviewIsOver /\ PendingWaits
  BY <1>1 DEF Init, IdsInTurn, NothingLapses, OlderAreDone, ReviewIsOver, PendingWaits
<1>3. ActiveIsLive
  BY <1>1 DEF ActiveIsLive, Active, ACTIVE_STATUSES
<1>4. \A w \in Workers : InPlace(w)
  BY <1>1 DEF InPlace, Fits, Executing, Steps
<1>5. QED
  BY <1>2, <1>3, <1>4 DEF Calm

\* A thread has its job to itself, and the job is done when the thread is.
LEMMA MyJob ==
    ASSUME Inv, Calm, NEW w \in Workers, worker[w].at # "idle"
    PROVE  /\ worker[w].job \in Jobs /\ RunOf(w) \in Runs /\ Holds(w)
           /\ \A v \in Workers : v # w => worker[v].job # worker[w].job
           /\ Done(worker[w].job) <=> worker[w].at = "complete"
<1>1. worker[w].job \in Jobs /\ RunOf(w) \in Runs /\ worker[w].job # None
  BY HasARun, RunLifecycleAssumption
<1>2. Holds(w) /\ \A v \in Workers : v # w => worker[v].job # worker[w].job
  BY <1>1 DEF Calm, NothingLapses, Inv, Exclusive, OnlyThread, HoldsOrStalled
<1>3. QED
  BY <1>1, <1>2 DEF Done, Holds

LEMMA PendingIsLive ==
    ASSUME Inv, Calm, NEW j \in Jobs, jobStatus[j] = "pending"
    PROVE  ~Done(j) /\ jobRun[j] \in Runs /\ \A w \in Workers : worker[w].job # j
<1>1. \A w \in Workers : worker[w].job # j
  BY MyJob, RunLifecycleAssumption DEF Inv, Links, Holds
<1>2. QED
  BY <1>1 DEF Done, Inv, Links

\* A run has at most one job that is not done.
LEMMA OneIsLive ==
    ASSUME Calm, NEW i \in Jobs, NEW j \in Jobs, jobRun[i] = jobRun[j], jobRun[j] \in Runs,
           ~Done(i), ~Done(j)
    PROVE  i = j
BY WorkQueueAssumption DEF Calm, OlderAreDone

\* While a thread works on a run, any other thread that has it is about to report.
LEMMA OthersAreDone ==
    ASSUME Inv, Calm, NEW v \in Workers, NEW w \in Workers, v # w,
           worker[v].at # "idle", worker[w].at # "idle", worker[w].at # "complete",
           RunOf(v) = RunOf(w)
    PROVE  worker[v].at = "complete"
BY MyJob, OneIsLive DEF RunOf

\* One thread goes on with its job.
LEMMA CalmGoesOn ==
    ASSUME Inv, Calm, NEW w \in Workers, worker[w].at \notin {"idle", "complete"},
           \A v \in Workers : v # w => worker'[v] = worker[v],
           worker'[w].job = worker[w].job, worker'[w].at # "idle",
           UNCHANGED << queueVars, jobRun, leaseVars >>,
           \A r \in Runs : r # RunOf(w) => run'[r] = run[r],
           run'[RunOf(w)].status = "needs_review" => worker'[w].at = "complete",
           worker'[w].at = "complete" => run'[RunOf(w)].status \notin ACTIVE_STATUSES,
           InPlace(w)'
    PROVE  Calm'
<1>0. /\ worker[w].job \in Jobs /\ RunOf(w) \in Runs /\ Holds(w) /\ ~Done(worker[w].job)
      /\ jobRun[worker[w].job] = RunOf(w) /\ jobStatus[worker[w].job] = "claimed"
  BY MyJob DEF Holds, RunOf
<1>1. \A j \in Jobs : Done(j)' <=> (Done(j) \/ (j = worker[w].job /\ worker'[w].at = "complete"))
  BY <1>0 DEF Done, queueVars
<1>2. IdsInTurn' /\ OlderAreDone'
  BY <1>1 DEF Calm, IdsInTurn, OlderAreDone, queueVars
<1>3. NothingLapses'
  BY DEF Calm, NothingLapses, queueVars, leaseVars
<1>4. ReviewIsOver'
  <2> SUFFICES ASSUME NEW j \in Jobs, jobRun[j] \in Runs, run'[jobRun[j]].status = "needs_review"
               PROVE  Done(j)'
    BY DEF ReviewIsOver
  <2>1. CASE jobRun[j] # RunOf(w)
    BY <1>1, <2>1 DEF Calm, ReviewIsOver
  <2>2. CASE jobRun[j] = RunOf(w)
    BY <1>0, <1>1, <2>2, OneIsLive
  <2>3. QED
    BY <2>1, <2>2
<1>5. ActiveIsLive'
  <2> SUFFICES ASSUME NEW r \in Runs, Active(r)'
               PROVE  \E j \in JobsOf(r)' : jobStatus'[j] \in {"pending", "claimed"} /\ ~Done(j)'
    BY DEF ActiveIsLive
  <2>1. JobsOf(r)' = JobsOf(r) /\ jobStatus' = jobStatus
    BY DEF JobsOf, queueVars
  <2>2. CASE r # RunOf(w)
    <3>1. PICK j \in JobsOf(r) : jobStatus[j] \in {"pending", "claimed"} /\ ~Done(j)
      BY <2>2 DEF Calm, ActiveIsLive, Active
    <3>2. j \in Jobs /\ j # worker[w].job
      BY <1>0, <2>2 DEF JobsOf
    <3>3. QED
      BY <1>1, <2>1, <3>1, <3>2
  <2>3. CASE r = RunOf(w)
    <3>1. worker[w].job \in JobsOf(r) /\ ~Done(worker[w].job)'
      BY <1>0, <1>1, <2>3 DEF JobsOf, Active
    <3>2. QED
      BY <1>0, <2>1, <3>1
  <2>4. QED
    BY <2>2, <2>3
<1>6. PendingWaits'
  <2> SUFFICES ASSUME NEW j \in Jobs, jobStatus[j] = "pending"
               PROVE  run'[jobRun[j]].status \in {"pending", "retrying", "cancelled"}
    BY DEF PendingWaits, queueVars
  <2>1. jobRun[j] \in Runs /\ jobRun[j] # RunOf(w)
    BY <1>0, PendingIsLive, OneIsLive
  <2>2. QED
    BY <2>1 DEF Calm, PendingWaits
<1>7. ASSUME NEW v \in Workers, v # w PROVE InPlace(v)'
  <2>1. CASE worker[v].at \in {"idle", "complete"}
    BY <1>7, <2>1 DEF InPlace, Fits, Executing, Steps
  <2>2. CASE worker[v].at \notin {"idle", "complete"}
    <3>1. RunOf(v) \in Runs /\ RunOf(v) # RunOf(w) /\ RunOf(v)' = RunOf(v)
      BY <1>7, <2>2, MyJob, OthersAreDone DEF RunOf
    <3>2. InPlace(v)
      BY DEF Calm
    <3>3. QED
      BY <1>7, <3>1, <3>2 DEF InPlace, StatusOf, LastAttempt
  <2>3. QED
    BY <2>1, <2>2
<1>8. QED
  BY <1>2, <1>3, <1>4, <1>5, <1>6, <1>7 DEF Calm

LEMMA CalmMoves ==
    ASSUME Inv, Calm, NEW w \in Workers, worker[w].at \notin {"idle", "complete"},
           NEW place \in Places \ {"idle"}, Goes(w, place),
           NEW status, run'[RunOf(w)].status = status,
           \A r \in Runs : r # RunOf(w) => run'[r] = run[r],
           UNCHANGED << queueVars, jobRun, leaseVars >>,
           status = "needs_review" => place = "complete",
           place = "complete" => status \notin ACTIVE_STATUSES,
           Fits(place, status, LastAttempt(w))
    PROVE  Calm'
<1>0. /\ worker \in [Workers -> Thread] /\ run \in [Runs -> RunRow]
      /\ RunOf(w) \in Runs /\ worker[w].job \in Jobs
  BY HasARun DEF Inv, TypeOK
<1>1. /\ \A v \in Workers : v # w => worker'[v] = worker[v]
      /\ worker'[w].at = place /\ worker'[w].job = worker[w].job
      /\ worker'[w].attempts = worker[w].attempts
  BY <1>0 DEF Goes, Thread
<1>2. InPlace(w)'
  BY <1>1 DEF InPlace, StatusOf, RunOf, LastAttempt
<1>3. QED
  BY <1>1, <1>2, CalmGoesOn

LEMMA SetsOneStatus ==
    ASSUME Inv, NEW w \in Workers, worker[w].at # "idle", NEW status,
           SetStatus(RunOf(w), status)
    PROVE  /\ run'[RunOf(w)].status = status
           /\ \A r \in Runs : r # RunOf(w) => run'[r] = run[r]
BY HasARun DEF SetStatus, Inv, TypeOK, RunRow

LEMMA CalmRunning ==
    ASSUME Inv, Calm, NEW w \in Workers, worker[w].at \notin {"idle", "complete"}, Running(w),
           UNCHANGED << queueVars, jobRun, leaseVars >>
    PROVE  Calm'
<1>0. /\ worker \in [Workers -> Thread] /\ run \in [Runs -> RunRow]
      /\ RunOf(w) \in Runs /\ worker[w].job \in Jobs
  BY HasARun DEF Inv, TypeOK
<1>1. /\ \A v \in Workers : v # w => worker'[v] = worker[v]
      /\ worker'[w].at \in {"check", "write"} /\ worker'[w].job = worker[w].job
  BY <1>0 DEF Running, Thread, StartPlace
<1>2. (\A r \in Runs : r # RunOf(w) => run'[r] = run[r]) /\ run'[RunOf(w)].status = "running"
  BY <1>0 DEF Running, RunRow
<1>3. InPlace(w)'
  BY <1>1, <1>2 DEF InPlace, Fits, StatusOf, RunOf, Executing, Steps
<1>4. QED
  BY <1>1, <1>2, <1>3, CalmGoesOn

LEMMA CalmStep ==
    ASSUME Inv, Calm, NEW w \in Workers, Step(w)
    PROVE  Calm'
<1>0. /\ worker \in [Workers -> Thread] /\ run \in [Runs -> RunRow]
      /\ worker[w].at \in Steps /\ worker[w].at \notin {"idle", "complete"}
      /\ RunOf(w) \in Runs /\ worker[w].job \in Jobs
  BY HasARun DEF Step, Inv, TypeOK, Steps
<1>1. /\ \A v \in Workers : v # w => worker'[v] = worker[v]
      /\ worker'[w].at = After(w) /\ worker'[w].job = worker[w].job
  BY <1>0 DEF Step, Thread
<1>2. After(w) \in {"write", "escalate", "finish"}
  BY <1>0 DEF After, Steps
<1>3. /\ \A r \in Runs : r # RunOf(w) => run'[r] = run[r]
      /\ run'[RunOf(w)].status = run[RunOf(w)].status
  BY <1>0 DEF Step, RunRow
<1>4. StatusOf(w) \in {"running", "cancelled"}
  BY <1>0 DEF Calm, InPlace, Fits, Executing
<1>5. InPlace(w)'
  BY <1>1, <1>2, <1>3, <1>4 DEF Step, InPlace, Fits, StatusOf, RunOf, Executing, Steps
<1>6. QED
  BY <1>0, <1>1, <1>2, <1>3, <1>4, <1>5, CalmGoesOn DEF Step, StatusOf

LEMMA CalmFinish ==
    ASSUME Inv, Calm, NEW w \in Workers, Finish(w)
    PROVE  Calm'
<1> DEFINE outcome == IF worker[w].review /\ ~worker[w].resume
                      THEN "needs_review" ELSE "succeeded"
<1>0. /\ worker \in [Workers -> Thread] /\ run \in [Runs -> RunRow]
      /\ worker[w].at = "finish" /\ worker[w].at \notin {"idle", "complete"}
      /\ RunOf(w) \in Runs /\ worker[w].job \in Jobs
  BY HasARun DEF Finish, Inv, TypeOK
<1>1. /\ \A v \in Workers : v # w => worker'[v] = worker[v]
      /\ worker'[w].at = "complete" /\ worker'[w].job = worker[w].job
  BY <1>0 DEF Finish, Goes, Thread
<1>2. StatusOf(w) \in {"running", "cancelled"}
  BY <1>0 DEF Calm, InPlace, Fits, Executing
<1>3. outcome \in {"needs_review", "succeeded"}
  OBVIOUS
<1>4. \/ run' = run /\ ~CanTransition(StatusOf(w), outcome)
      \/ run' = [run EXCEPT ![RunOf(w)].status = outcome,
                            ![RunOf(w)].reviewed = run[RunOf(w)].reviewed \/ outcome = "needs_review"]
  BY DEF Finish
<1> HIDE DEF outcome
<1>5. \A r \in Runs : r # RunOf(w) => run'[r] = run[r]
  BY <1>0, <1>4
<1>6. run'[RunOf(w)].status \in {"needs_review", "succeeded", "cancelled"}
  <2>1. CASE run' = run /\ ~CanTransition(StatusOf(w), outcome)
    BY <1>2, <1>3, <2>1 DEF CanTransition, TRANSITIONS, StatusOf
  <2>2. CASE run' = [run EXCEPT ![RunOf(w)].status = outcome,
                         ![RunOf(w)].reviewed = run[RunOf(w)].reviewed \/ outcome = "needs_review"]
    BY <1>0, <1>3, <2>2 DEF RunRow
  <2>3. QED
    BY <1>4, <2>1, <2>2
<1>7. InPlace(w)'
  BY <1>1 DEF InPlace, Fits, Executing, Steps
<1>8. QED
  BY <1>0, <1>1, <1>5, <1>6, <1>7, CalmGoesOn DEF Finish, ACTIVE_STATUSES

\* The reports: the job is in its last place, or waits for the next attempt.
LEMMA CalmReport ==
    ASSUME Inv, Calm, NEW w \in Workers, ReportComplete(w) \/ ReportFail(w)
    PROVE  Calm'
<1>g. PICK g \in Jobs, r \in Runs : g = worker[w].job /\ r = RunOf(w)
  BY MyJob DEF ReportComplete, ReportFail
<1>0. /\ g \in Jobs /\ r \in Runs /\ jobStatus[g] = "claimed" /\ jobRun[g] = r
      /\ jobAttempts[g] = worker[w].attempts /\ worker[w].at # "idle" /\ g # None
      /\ \A v \in Workers : v # w => worker[v].job # g
      /\ Done(g) <=> worker[w].at = "complete"
      /\ worker \in [Workers -> Thread]
  BY <1>g, MyJob DEF ReportComplete, ReportFail, Holds, RunOf, Inv, TypeOK
<1>1. /\ \A v \in Workers : v # w => worker'[v] = worker[v]
      /\ worker'[w].at = "idle" /\ worker'[w].job = None
      /\ UNCHANGED << jobAttempts, run, jobRun, reaper, faults, stalled >>
      /\ lapsed' = lapsed \ {g}
  BY <1>0, <1>g, IdleIsAThread DEF ReportComplete, ReportFail, Complete, Fail
<1>2. PICK status \in {"succeeded", "pending", "failed"} :
        /\ jobStatus' = [jobStatus EXCEPT ![g] = status]
        /\ worker[w].at = "complete" <=> status = "succeeded"
        /\ status = "pending" => StatusOf(w) \in {"retrying", "cancelled"}
        /\ status = "failed" => StatusOf(w) \in {"failed", "cancelled"}
  <2>1. CASE ReportComplete(w)
    BY <1>g, <2>1 DEF ReportComplete, Complete
  <2>2. CASE ReportFail(w)
    <3>1. jobStatus' = [jobStatus EXCEPT ![g] =
                            IF worker[w].at = "fail" THEN BackTo(g) ELSE "failed"]
      BY <1>g, <2>2 DEF ReportFail, Fail
    <3>2. worker[w].at \in {"fail", "abandon"} /\ InPlace(w)
      BY <2>2 DEF ReportFail, Calm
    <3>3. CASE worker[w].at = "fail" /\ LastAttempt(w)
      BY <1>0, <3>1, <3>2, <3>3 DEF InPlace, Fits, LastAttempt, BackTo
    <3>4. CASE worker[w].at = "fail" /\ ~LastAttempt(w)
      BY <1>0, <3>1, <3>2, <3>4 DEF InPlace, Fits, LastAttempt, BackTo
    <3>5. CASE worker[w].at = "abandon"
      BY <3>1, <3>2, <3>5 DEF InPlace, Fits
    <3>6. QED
      BY <3>2, <3>3, <3>4, <3>5
  <2>3. QED
    BY <2>1, <2>2
<1>3. /\ jobStatus'[g] = status
      /\ \A j \in Jobs : j # g => jobStatus'[j] = jobStatus[j]
  BY <1>0, <1>2 DEF Inv, TypeOK
<1>4. \A j \in Jobs : Done(j)' <=> Done(j)
  <2>1. ASSUME NEW j \in Jobs, j # g PROVE Done(j)' <=> Done(j)
    BY <1>0, <1>1, <1>3, <1>g, <2>1, RunLifecycleAssumption DEF Done
  <2>2. Done(g)' <=> Done(g)
    BY <1>0, <1>1, <1>2, <1>3, <1>g, RunLifecycleAssumption DEF Done
  <2>3. QED
    BY <2>1, <2>2
<1>5. IdsInTurn'
  BY <1>0, <1>2, <1>3 DEF Calm, IdsInTurn
<1>6. NothingLapses'
  <2>1. ASSUME NEW j \in Jobs, jobStatus'[j] = "claimed" PROVE \E v \in Workers : worker'[v].job = j
    <3>1. j # g /\ jobStatus[j] = "claimed"
      BY <1>2, <1>3, <2>1
    <3>2. PICK v \in Workers : worker[v].job = j
      BY <3>1 DEF Calm, NothingLapses
    <3>3. QED
      BY <1>1, <1>g, <3>1, <3>2
  <2>2. QED
    BY <1>1, <2>1 DEF Calm, NothingLapses
<1>7. OlderAreDone' /\ ReviewIsOver'
  BY <1>1, <1>4 DEF Calm, OlderAreDone, ReviewIsOver
<1>8. ActiveIsLive'
  <2> SUFFICES ASSUME NEW s \in Runs, Active(s)
               PROVE  \E j \in JobsOf(s) : jobStatus'[j] \in {"pending", "claimed"} /\ ~Done(j)'
    BY <1>1 DEF ActiveIsLive, Active, JobsOf
  <2>1. PICK j \in JobsOf(s) : jobStatus[j] \in {"pending", "claimed"} /\ ~Done(j)
    BY DEF Calm, ActiveIsLive
  <2>2. j \in Jobs /\ jobRun[j] = s
    BY DEF JobsOf
  <2>3. j = g => status = "pending"
    BY <1>0, <1>2, <1>g, <2>1, <2>2 DEF Active, ACTIVE_STATUSES, StatusOf
  <2>4. QED
    BY <1>3, <1>4, <2>1, <2>2, <2>3
<1>9. PendingWaits'
  BY <1>0, <1>1, <1>2, <1>3, <1>g DEF Calm, PendingWaits, StatusOf
<1>10. \A v \in Workers : InPlace(v)'
  <2>1. InPlace(w)'
    BY <1>1 DEF InPlace, Fits, Executing, Steps
  <2>2. ASSUME NEW v \in Workers, v # w PROVE InPlace(v)'
    BY <1>1, <2>2 DEF Calm, InPlace, StatusOf, RunOf, LastAttempt
  <2>3. QED
    BY <2>1, <2>2
<1>11. QED
  BY <1>5, <1>6, <1>7, <1>8, <1>9, <1>10 DEF Calm

LEMMA WorkerStepCalm ==
    ASSUME Inv, Passes, Calm, NEW w \in Workers, WorkerStep(w)
    PROVE  Calm'
<1> USE DEF ACTIVE_STATUSES
<1>0. InPlace(w)
  BY DEF Calm
<1>1. CASE Handle(w)
  <2>1. UNCHANGED << queueVars, jobRun, leaseVars >> /\ worker[w].at = "handle"
    BY <1>1 DEF Handle
  <2>2. CASE SetStatus(RunOf(w), "claimed") /\ Goes(w, "begin")
    <3>1. Fits("begin", "claimed", LastAttempt(w)) /\ "begin" \in Places \ {"idle"}
      BY <2>1, <2>2 DEF Fits, Executing, Steps, Places
    <3>2. QED
      BY <2>1, <2>2, <3>1, CalmMoves, SetsOneStatus
  <2>3. CASE Running(w)
    BY <2>1, <2>3, CalmRunning
  <2>4. CASE ~CanTransition(StatusOf(w), "claimed") /\ Goes(w, "complete") /\ UNCHANGED run
    <3>1. StatusOf(w) = "cancelled"
      BY <1>0, <2>1, <2>4 DEF InPlace, Fits, CanTransition, TRANSITIONS
    <3>2. QED
      BY <2>1, <2>4, <3>1, CalmMoves DEF StatusOf, Fits, Executing, Steps, Places
  <2>5. QED
    BY <1>1, <2>2, <2>3, <2>4 DEF Handle
<1>2. CASE Begin(w)
  BY <1>2, CalmRunning DEF Begin
<1>3. CASE Step(w)
  BY <1>3, CalmStep
<1>4. CASE StopCancelled(w)
  BY <1>4, CalmMoves DEF StopCancelled, StatusOf, Fits, Executing, Steps, Places
<1>5. CASE StepFails(w)
  <2>1. worker[w].at \in Steps /\ StatusOf(w) \in {"running", "cancelled"}
    BY <1>0, <1>5 DEF StepFails, InPlace, Fits, Executing
  <2>2. QED
    BY <1>5, <2>1, CalmMoves DEF StepFails, StatusOf, Fits, Executing, Steps, Places
<1>6. CASE TransientFailure(w)
  <2>1. /\ worker[w].at = "transient" /\ UNCHANGED << queueVars, jobRun, leaseVars >>
        /\ StatusOf(w) \in {"running", "cancelled"}
    BY <1>0, <1>6 DEF TransientFailure, InPlace, Fits, Executing
  <2>2. CASE SetStatus(RunOf(w), "retrying") /\ Goes(w, IF LastAttempt(w) THEN "giveup" ELSE "fail")
    <3>1. CASE LastAttempt(w)
      <4>1. Fits("giveup", "retrying", LastAttempt(w)) /\ "giveup" \in Places \ {"idle"}
        BY <2>1, <2>2, <3>1 DEF Fits, Executing, Steps, Places
      <4>2. QED
        BY <2>1, <2>2, <3>1, <4>1, CalmMoves, SetsOneStatus
    <3>2. CASE ~LastAttempt(w)
      <4>1. Fits("fail", "retrying", LastAttempt(w)) /\ "fail" \in Places \ {"idle"}
        BY <2>1, <2>2, <3>2 DEF Fits, Executing, Steps, Places
      <4>2. QED
        BY <2>1, <2>2, <3>2, <4>1, CalmMoves, SetsOneStatus
    <3>3. QED
      BY <3>1, <3>2
  <2>3. CASE CrashUnless(w, CanTransition(StatusOf(w), "retrying"))
    <3>1. StatusOf(w) = "cancelled" /\ Goes(w, "crashed") /\ UNCHANGED run
      BY <2>1, <2>3 DEF CrashUnless, CanTransition, TRANSITIONS
    <3>2. QED
      BY <2>1, <3>1, CalmMoves DEF StatusOf, Fits, Executing, Steps, Places
  <2>4. QED
    BY <1>6, <2>2, <2>3 DEF TransientFailure
<1>7. CASE GiveUp(w)
  <2>1. /\ worker[w].at = "giveup" /\ UNCHANGED << queueVars, jobRun, leaseVars >>
        /\ StatusOf(w) \in {"retrying", "cancelled"} /\ LastAttempt(w)
    BY <1>0, <1>7 DEF GiveUp, InPlace, Fits
  <2>2. CASE SetStatus(RunOf(w), "failed") /\ Goes(w, "fail")
    <3>1. Fits("fail", "failed", LastAttempt(w)) /\ "fail" \in Places \ {"idle"}
      BY <2>1, <2>2 DEF Fits, Executing, Steps, Places
    <3>2. QED
      BY <2>1, <2>2, <3>1, CalmMoves, SetsOneStatus
  <2>3. CASE CrashUnless(w, CanTransition(StatusOf(w), "failed"))
    <3>1. StatusOf(w) = "cancelled" /\ Goes(w, "crashed") /\ UNCHANGED run
      BY <2>1, <2>3 DEF CrashUnless, CanTransition, TRANSITIONS
    <3>2. QED
      BY <2>1, <3>1, CalmMoves DEF StatusOf, Fits, Executing, Steps, Places
  <2>4. QED
    BY <1>7, <2>2, <2>3 DEF GiveUp
<1>8. CASE PermanentFailure(w)
  <2>1. /\ worker[w].at = "permanent" /\ UNCHANGED << queueVars, jobRun, leaseVars >>
        /\ StatusOf(w) \in {"running", "cancelled"}
    BY <1>0, <1>8 DEF PermanentFailure, InPlace, Fits, Executing
  <2>2. CASE SetStatus(RunOf(w), "failed") /\ Goes(w, "complete")
    <3>1. Fits("complete", "failed", LastAttempt(w)) /\ "complete" \in Places \ {"idle"}
      BY <2>1, <2>2 DEF Fits, Executing, Steps, Places
    <3>2. QED
      BY <2>1, <2>2, <3>1, CalmMoves, SetsOneStatus
  <2>3. CASE CrashUnless(w, CanTransition(StatusOf(w), "failed"))
    <3>1. StatusOf(w) = "cancelled" /\ Goes(w, "crashed") /\ UNCHANGED run
      BY <2>1, <2>3 DEF CrashUnless, CanTransition, TRANSITIONS
    <3>2. QED
      BY <2>1, <3>1, CalmMoves DEF StatusOf, Fits, Executing, Steps, Places
  <2>4. QED
    BY <1>8, <2>2, <2>3 DEF PermanentFailure
<1>9. CASE Finish(w)
  BY <1>9, CalmFinish
<1>10. CASE FailPermanently(w)
  <2>1. StatusOf(w) = "cancelled" /\ worker[w].at = "crashed"
    BY <1>0, <1>10 DEF FailPermanently, InPlace, Fits
  <2>2. UNCHANGED run
    BY <1>10, <2>1 DEF FailPermanently, CanTransition, TRANSITIONS
  <2>3. QED
    <3>1. Goes(w, "abandon") /\ UNCHANGED << queueVars, jobRun, leaseVars >>
      BY <1>10 DEF FailPermanently
    <3>2. QED
      BY <2>1, <2>2, <3>1, CalmMoves DEF StatusOf, Fits, Executing, Steps, Places
<1>11. CASE ReportComplete(w) \/ ReportFail(w)
  BY <1>11, CalmReport
<1>12. QED
  BY <1>1, <1>2, <1>3, <1>4, <1>5, <1>6, <1>7, <1>8, <1>9, <1>10, <1>11 DEF WorkerStep

LEMMA ClaimJobCalm ==
    ASSUME Inv, Calm, NEW w \in Workers, NEW j \in Jobs, ClaimJob(w, j)
    PROVE  Calm'
<1>0. /\ worker \in [Workers -> Thread] /\ jobStatus \in [Jobs -> JobStatuses]
      /\ jobAttempts \in [Jobs -> Nat]
  BY DEF Inv, TypeOK
<1>1. /\ jobStatus[j] = "pending" /\ jobStatus'[j] = "claimed"
      /\ \A i \in Jobs : i # j => jobStatus'[i] = jobStatus[i]
      /\ \A v \in Workers : v # w => worker'[v] = worker[v]
      /\ worker[w].at = "idle" /\ worker'[w].at = "handle" /\ worker'[w].job = j
      /\ UNCHANGED << run, jobRun, leaseVars >>
  BY <1>0 DEF ClaimJob, Claim, Idle
<1>2. ~Done(j) /\ jobRun[j] \in Runs /\ worker[w].job = None
  BY <1>1, PendingIsLive DEF Inv, Links
<1>3. \A i \in Jobs : Done(i)' <=> Done(i)
  BY <1>1, <1>2, RunLifecycleAssumption DEF Done
<1>4. IdsInTurn'
  BY <1>1 DEF Calm, IdsInTurn
<1>5. NothingLapses'
  <2>1. ASSUME NEW i \in Jobs, jobStatus'[i] = "claimed", i # j
        PROVE  \E v \in Workers : worker'[v].job = i
    <3>1. PICK v \in Workers : worker[v].job = i
      BY <1>1, <2>1 DEF Calm, NothingLapses
    <3>2. v # w
      BY <1>2, <3>1, RunLifecycleAssumption
    <3>3. QED
      BY <1>1, <3>1, <3>2
  <2>2. QED
    BY <1>1, <2>1 DEF Calm, NothingLapses, leaseVars
<1>6. OlderAreDone' /\ ReviewIsOver'
  BY <1>1, <1>3 DEF Calm, OlderAreDone, ReviewIsOver
<1>7. ActiveIsLive'
  <2> SUFFICES ASSUME NEW s \in Runs, Active(s)
               PROVE  \E i \in JobsOf(s) : jobStatus'[i] \in {"pending", "claimed"} /\ ~Done(i)'
    BY <1>1 DEF ActiveIsLive, Active, JobsOf
  <2>1. PICK i \in JobsOf(s) : jobStatus[i] \in {"pending", "claimed"} /\ ~Done(i)
    BY DEF Calm, ActiveIsLive
  <2>2. QED
    BY <1>1, <1>3, <2>1 DEF JobsOf
<1>8. PendingWaits'
  BY <1>1 DEF Calm, PendingWaits
<1>9. \A v \in Workers : InPlace(v)'
  <2>1. InPlace(w)'
    BY <1>1 DEF Calm, PendingWaits, InPlace, Fits, StatusOf, RunOf, Executing, Steps
  <2>2. ASSUME NEW v \in Workers, v # w PROVE InPlace(v)'
    BY <1>1, <2>2 DEF Calm, InPlace, StatusOf, RunOf, LastAttempt
  <2>3. QED
    BY <2>1, <2>2
<1>10. QED
  BY <1>4, <1>5, <1>6, <1>7, <1>8, <1>9 DEF Calm

\* A run is cancelled, or its review ends it: its threads and jobs stay as they are.
LEMMA CalmRowMoves ==
    ASSUME Inv, Calm, NEW r \in Runs, UNCHANGED << queueVars, jobRun, worker, leaseVars >>,
           \A s \in Runs : s # r => run'[s] = run[s],
           \/ run'[r].status = run[r].status
           \/ run'[r].status = "cancelled" /\ run[r].status \notin TERMINAL_STATUSES
           \/ run'[r].status = "succeeded" /\ run[r].status = "needs_review"
    PROVE  Calm'
<1>1. \A j \in Jobs : Done(j)' <=> Done(j)
  BY DEF Done, queueVars
<1>2. IdsInTurn' /\ NothingLapses' /\ OlderAreDone'
  BY <1>1 DEF Calm, IdsInTurn, NothingLapses, OlderAreDone, queueVars, leaseVars
<1>3. ReviewIsOver'
  BY <1>1 DEF Calm, ReviewIsOver
<1>4. ActiveIsLive'
  <2> SUFFICES ASSUME NEW s \in Runs, Active(s)'
               PROVE  \E i \in JobsOf(s) : jobStatus[i] \in {"pending", "claimed"} /\ ~Done(i)'
    BY DEF ActiveIsLive, JobsOf, queueVars
  <2>1. Active(s)
    BY DEF Active, ACTIVE_STATUSES
  <2>2. PICK i \in JobsOf(s) : jobStatus[i] \in {"pending", "claimed"} /\ ~Done(i)
    BY <2>1 DEF Calm, ActiveIsLive
  <2>3. QED
    BY <1>1, <2>2 DEF JobsOf
<1>5. PendingWaits'
  <2> SUFFICES ASSUME NEW j \in Jobs, jobStatus[j] = "pending"
               PROVE  run'[jobRun[j]].status \in {"pending", "retrying", "cancelled"}
    BY DEF PendingWaits, queueVars
  <2>1. /\ run[jobRun[j]].status \in {"pending", "retrying", "cancelled"}
        /\ jobRun[j] \in Runs
    BY PendingIsLive DEF Calm, PendingWaits
  <2>2. QED
    BY <2>1 DEF TERMINAL_STATUSES
<1>6. ASSUME NEW v \in Workers PROVE InPlace(v)'
  <2>1. CASE worker[v].at \in {"idle", "complete"}
    BY <2>1 DEF InPlace, Fits, Executing, Steps
  <2>2. CASE worker[v].at \notin {"idle", "complete"}
    <3>1. RunOf(v) \in Runs /\ InPlace(v) /\ StatusOf(v) # "needs_review"
      <4>1. RunOf(v) \in Runs /\ worker[v].job \in Jobs /\ ~Done(worker[v].job)
        BY <2>2, MyJob
      <4>2. QED
        BY <4>1 DEF Calm, ReviewIsOver, StatusOf, RunOf
    <3>2. RunOf(v)' = RunOf(v) /\ LastAttempt(v)' = LastAttempt(v)
      BY DEF RunOf, LastAttempt
    <3>3. StatusOf(v)' = StatusOf(v) \/ (StatusOf(v)' = "cancelled" /\ StatusOf(v) \notin TERMINAL_STATUSES)
      BY <3>1, <3>2 DEF StatusOf
    <3>4. QED
      BY <3>1, <3>2, <3>3 DEF InPlace, Fits, TERMINAL_STATUSES
  <2>3. QED
    BY <2>1, <2>2
<1>7. QED
  BY <1>2, <1>3, <1>4, <1>5, <1>6 DEF Calm

\* A job is added: to a run without jobs, or to one whose jobs are all done.
LEMMA CalmJobAdded ==
    ASSUME Inv, Passes, Calm, NEW j \in Jobs, NEW r \in Runs, Enqueue(j),
           jobRun' = [jobRun EXCEPT ![j] = r], UNCHANGED << worker, leaseVars >>,
           run[r].status = "absent" \/ run[r].status = "needs_review",
           run'[r].status = "pending", \A s \in Runs : s # r => run'[s] = run[s]
    PROVE  Calm'
<1>1. /\ jobStatus[j] = "absent" /\ jobRun[j] = None /\ jobRun'[j] = r /\ None \notin Runs \cup Jobs
      /\ \A i \in Jobs : i # j => jobRun'[i] = jobRun[i] /\ jobStatus'[i] = jobStatus[i]
      /\ \A i \in Jobs : i < j => jobStatus[i] # "absent"
      /\ jobStatus'[j] = "pending"
  BY RunLifecycleAssumption DEF Enqueue, IsNextId, Passes, Rows, Inv, TypeOK
<1>2. \A w \in Workers : worker[w].job # j
  BY <1>1 DEF Inv, Links
<1>3. \A i \in Jobs : Done(i)' <=> Done(i)
  BY <1>1, <1>2 DEF Done
<1>4. \A i \in Jobs : jobRun[i] = r => Done(i)
  BY DEF Calm, ReviewIsOver, Passes, Rows
<1>5. IdsInTurn'
  BY <1>1, WorkQueueAssumption DEF Calm, IdsInTurn
<1>6. NothingLapses'
  BY <1>1 DEF Calm, NothingLapses, leaseVars
<1>7. OlderAreDone'
  <2> SUFFICES ASSUME NEW i \in Jobs, NEW k \in Jobs, i < k, jobRun'[i] = jobRun'[k],
                      jobRun'[k] \in Runs
               PROVE  Done(i)
    BY <1>3 DEF OlderAreDone
  <2>1. i # j
    <3>1. SUFFICES ASSUME i = j PROVE FALSE
      OBVIOUS
    <3>2. jobStatus[k] = "absent" /\ k # j
      BY <1>1, <3>1, WorkQueueAssumption DEF Calm, IdsInTurn
    <3>3. QED
      BY <1>1, <3>2 DEF Passes, Rows
  <2>2. CASE k = j
    BY <1>1, <1>4, <2>1, <2>2
  <2>3. CASE k # j
    BY <1>1, <2>1, <2>3 DEF Calm, OlderAreDone
  <2>4. QED
    BY <2>2, <2>3
<1>8. ReviewIsOver'
  BY <1>1, <1>3 DEF Calm, ReviewIsOver
<1>9. ActiveIsLive'
  <2> SUFFICES ASSUME NEW s \in Runs, Active(s)'
               PROVE  \E i \in JobsOf(s)' : jobStatus'[i] \in {"pending", "claimed"} /\ ~Done(i)'
    BY DEF ActiveIsLive
  <2>1. CASE s = r
    <3>1. j \in JobsOf(s)' /\ ~Done(j)
      BY <1>1, <1>2, <2>1 DEF JobsOf, Done
    <3>2. QED
      BY <1>1, <1>3, <3>1
  <2>2. CASE s # r
    <3>1. PICK i \in JobsOf(s) : jobStatus[i] \in {"pending", "claimed"} /\ ~Done(i)
      BY <2>2 DEF Calm, ActiveIsLive, Active
    <3>2. i \in Jobs /\ jobRun[i] = s /\ i # j
      BY <1>1, <3>1 DEF JobsOf
    <3>3. i \in JobsOf(s)'
      BY <1>1, <3>2 DEF JobsOf
    <3>4. QED
      BY <1>1, <1>3, <3>1, <3>2, <3>3
  <2>3. QED
    BY <2>1, <2>2
<1>10. PendingWaits'
  <2> SUFFICES ASSUME NEW i \in Jobs, jobStatus'[i] = "pending"
               PROVE  run'[jobRun'[i]].status \in {"pending", "retrying", "cancelled"}
    BY DEF PendingWaits
  <2>1. CASE i = j
    BY <1>1, <2>1
  <2>2. CASE i # j
    <3>1. jobRun[i] \in Runs /\ jobRun[i] # r
      BY <1>1, <1>4, <2>2, PendingIsLive
    <3>2. QED
      BY <1>1, <2>2, <3>1 DEF Calm, PendingWaits
  <2>3. QED
    BY <2>1, <2>2
<1>11. ASSUME NEW v \in Workers PROVE InPlace(v)'
  <2>1. CASE worker[v].at \in {"idle", "complete"}
    BY <2>1 DEF InPlace, Fits, Executing, Steps
  <2>2. CASE worker[v].at \notin {"idle", "complete"}
    <3>1. /\ worker[v].job \in Jobs /\ worker[v].job # j /\ RunOf(v) \in Runs /\ RunOf(v) # r
      BY <1>2, <1>4, <2>2, MyJob DEF RunOf
    <3>2. QED
      BY <1>1, <3>1 DEF Calm, InPlace, StatusOf, RunOf, LastAttempt
  <2>3. QED
    BY <2>1, <2>2
<1>12. QED
  BY <1>5, <1>6, <1>7, <1>8, <1>9, <1>10, <1>11 DEF Calm

LEMMA ApiCalm ==
    ASSUME Inv, Passes, Calm, NEW r \in Runs, NEW e, NEW accept,
           CreateRun(r, e) \/ CancelRun(r) \/ Resolve(r, accept)
    PROVE  Calm'
<1>0. run \in [Runs -> RunRow]
  BY DEF Inv, TypeOK
<1>1. CASE CreateRun(r, e)
  <2>1. PICK j \in Jobs : Enqueue(j) /\ jobRun' = [jobRun EXCEPT ![j] = r]
    BY <1>1 DEF CreateRun
  <2>2. QED
    BY <1>0, <1>1, <2>1, CalmJobAdded DEF CreateRun, NoRun
<1>2. CASE CancelRun(r)
  BY <1>0, <1>2, CalmRowMoves DEF CancelRun, SetStatus, RunRow
<1>3. CASE Resolve(r, accept)
  <2>1. /\ \A s \in Runs : s # r => run'[s] = run[s]
        /\ run'[r].status = IF ~WaitsForReview(r) THEN run[r].status
                            ELSE IF accept THEN "pending" ELSE "succeeded"
    BY <1>0, <1>3 DEF Resolve, RunRow
  <2>2. UNCHANGED << worker, leaseVars >> /\ Requeue(r, WaitsForReview(r) /\ accept)
    BY <1>3 DEF Resolve
  <2>3. CASE WaitsForReview(r) /\ accept
    <3>1. PICK j \in Jobs : Enqueue(j) /\ jobRun' = [jobRun EXCEPT ![j] = r]
      BY <2>2, <2>3 DEF Requeue
    <3>2. run[r].status = "needs_review" /\ run'[r].status = "pending"
      BY <2>1, <2>3 DEF WaitsForReview
    <3>3. QED
      BY <2>1, <2>2, <3>1, <3>2, CalmJobAdded
  <2>4. CASE ~(WaitsForReview(r) /\ accept)
    BY <2>1, <2>2, <2>4, CalmRowMoves DEF Requeue, WaitsForReview
  <2>5. QED
    BY <2>3, <2>4
<1>4. QED
  BY <1>1, <1>2, <1>3

\* The reaper finds nothing to repair: a run that is worked on has a claimed job,
\* and it is the newest one.
LEMMA NothingToRepair ==
    ASSUME Inv, Calm, NEW r \in Runs
    PROVE  Repaired(r) = run[r].status
<1>1. CASE run[r].status \notin {"claimed", "running"}
  BY <1>1 DEF Repaired
<1>2. CASE run[r].status \in {"claimed", "running"}
  <2>1. PICK j \in JobsOf(r) : jobStatus[j] \in {"pending", "claimed"} /\ ~Done(j)
    BY <1>2 DEF Calm, ActiveIsLive, Active, ACTIVE_STATUSES
  <2>2. j \in Jobs /\ jobRun[j] = r /\ jobStatus[j] = "claimed"
    BY <1>2, <2>1 DEF JobsOf, Calm, PendingWaits
  <2>3. \A i \in JobsOf(r) : i <= j
    <3> TAKE i \in JobsOf(r)
    <3>1. i \in Jobs /\ jobRun[i] = jobRun[j] /\ i \in Nat /\ j \in Nat
      BY <2>2, WorkQueueAssumption DEF JobsOf
    <3>2. ~(j < i)
      BY <2>1, <2>2, <3>1 DEF Calm, OlderAreDone
    <3>3. QED
      BY <3>1, <3>2
  <2>4. NewestJob(r) = j
    <3>1. NewestJob(r) \in JobsOf(r) /\ \A i \in JobsOf(r) : i <= NewestJob(r)
      BY <2>1, <2>3 DEF NewestJob
    <3>2. NewestJob(r) \in Nat /\ j \in Nat
      BY <2>2, <3>1, WorkQueueAssumption DEF JobsOf
    <3>3. QED
      BY <2>1, <2>3, <3>1, <3>2
  <2>5. QED
    BY <2>2, <2>4 DEF Repaired
<1>3. QED
  BY <1>1, <1>2

LEMMA NextCalm ==
    ASSUME FaultFree, Inv, Passes, Calm, [Next]_vars
    PROVE  Calm'
<1>0. /\ ~Fault("die") /\ ~Fault("crash") /\ ~Fault("stall")
      /\ run \in [Runs -> RunRow] /\ jobStatus \in [Jobs -> JobStatuses]
  BY RunLifecycleAssumption DEF FaultFree, Fault, Inv, TypeOK
<1>1. ASSUME NEW r \in Runs, NEW e \in Employees, CreateRun(r, e) PROVE Calm'
  BY <1>1, ApiCalm
<1>2. ASSUME NEW r \in Runs, NEW accept \in BOOLEAN, CancelRun(r) \/ Resolve(r, accept)
      PROVE  Calm'
  BY <1>2, ApiCalm
<1>3. ASSUME NEW w \in Workers, NEW j \in Jobs, ClaimJob(w, j) PROVE Calm'
  BY <1>3, ClaimJobCalm
<1>4. ASSUME NEW w \in Workers, WorkerStep(w) PROVE Calm'
  BY <1>4, WorkerStepCalm
<1>5. ASSUME NEW w \in Workers PROVE ~Die(w) /\ ~Crash(w) /\ ~Heartbeat(w)
  BY <1>0 DEF Die, Crash, Heartbeat, Calm, NothingLapses
<1>6. ASSUME NEW j \in Jobs PROVE ~Lapse(j)
  <2> SUFFICES ASSUME Lapse(j) PROVE FALSE
    OBVIOUS
  <2>1. PICK w \in Workers : worker[w].job = j
    BY DEF Lapse, Calm, NothingLapses
  <2>2. Holds(w)
    BY <2>1, MyJob, RunLifecycleAssumption DEF Inv, Links
  <2>3. QED
    BY <1>0, <2>1, <2>2 DEF Lapse
<1>7. ASSUME UNCHANGED << queueVars, jobRun, worker, run, lapsed, stalled >>
      PROVE  Calm'
  BY <1>7 DEF Calm, IdsInTurn, NothingLapses, OlderAreDone, ReviewIsOver, ActiveIsLive,
              PendingWaits, InPlace, Done, Active, JobsOf, StatusOf, RunOf, LastAttempt, queueVars
<1>8. CASE Reap
  <2>1. Expired = {} /\ lapsed = {}
    BY DEF Expired, Calm, NothingLapses
  <2>2. jobStatus' = jobStatus
    BY <1>0, <1>8, <2>1 DEF Reap, ReapExpired
  <2>3. QED
    BY <1>7, <1>8, <2>1, <2>2 DEF Reap, ReapExpired, queueVars
<1>9. CASE Repair
  <2>1. run' = [r \in Runs |-> [run[r] EXCEPT !.status = Repaired(r)]]
    BY <1>0, <1>9 DEF Repair
  <2>2. \A r \in Runs : [run[r] EXCEPT !.status = Repaired(r)] = run[r]
    BY <1>0, NothingToRepair DEF RunRow
  <2>3. run' = run
    BY <1>0, <2>1, <2>2
  <2>4. QED
    BY <1>7, <1>9, <2>3 DEF Repair
<1>10. CASE UNCHANGED vars
  BY <1>7, <1>10 DEF vars, leaseVars
<1>11. QED
  BY <1>1, <1>2, <1>3, <1>4, <1>5, <1>6, <1>8, <1>9, <1>10 DEF Next

\* Calm holds in every reachable state of a system without faults: a run is
\* where its last job and that job's thread say it is.
THEOREM CalmInvariance ==
    ASSUME FaultFree
    PROVE  Spec => []Calm
<1>1. Init => Calm
  BY InitCalm
<1>2. Inv /\ Passes /\ Calm /\ [Next]_vars => Calm'
  BY NextCalm
<1>3. QED
  BY <1>1, <1>2, Invariance, PassesInvariance, PTL DEF Spec

\* Without faults a run is executed by one thread at a time, although the job of
\* its first pass may still have to be reported when the second is claimed.
THEOREM RunsHaveOneExecutor ==
    ASSUME FaultFree
    PROVE  Spec => []OneExecutor
<1>1. Inv /\ Calm => OneExecutor
  BY OthersAreDone DEF OneExecutor, Executing, Steps
<1>2. QED
  BY <1>1, Invariance, CalmInvariance, PTL

\* Without faults an employee is never blocked by a run nobody will touch again.
THEOREM ActiveRunsHaveJobs ==
    ASSUME FaultFree
    PROVE  Spec => []ActiveRunHasJob
<1>1. Calm => ActiveRunHasJob
  BY DEF Calm, ActiveIsLive, ActiveRunHasJob
<1>2. QED
  BY <1>1, CalmInvariance, PTL

LEMMA SettledStep ==
    ASSUME Inv, Passes, Calm, [Next]_vars, NEW r \in Runs,
           run[r].status \in {"succeeded", "failed"}
    PROVE  run'[r].status = run[r].status
<1>0. run \in [Runs -> RunRow]
  BY DEF Inv, TypeOK
<1>1. ASSUME NEW s \in Runs, NEW e \in Employees, CreateRun(s, e)
      PROVE  run'[r].status = run[r].status
  BY <1>0, <1>1 DEF CreateRun
<1>2. ASSUME NEW s \in Runs, CancelRun(s) PROVE run'[r].status = run[r].status
  BY <1>0, <1>2 DEF CancelRun, SetStatus, TERMINAL_STATUSES
<1>3. ASSUME NEW s \in Runs, NEW accept \in BOOLEAN, Resolve(s, accept)
      PROVE  run'[r].status = run[r].status
  BY <1>0, <1>3 DEF Resolve, WaitsForReview, RunRow
<1>4. ASSUME NEW w \in Workers, WorkerStep(w) PROVE run'[r].status = run[r].status
  <2>1. CASE UNCHANGED run
    BY <2>1
  <2>2. CASE \E status : CanTransition(StatusOf(w), status) /\ SetStatus(RunOf(w), status)
    <3>1. PICK status : CanTransition(StatusOf(w), status) /\ SetStatus(RunOf(w), status)
      BY <2>2
    <3>2. RunOf(w) # r
      BY <3>1 DEF CanTransition, TRANSITIONS, StatusOf
    <3>3. QED
      BY <1>0, <3>1, <3>2 DEF SetStatus
  <2>3. CASE Running(w) /\ worker[w].at \in {"handle", "begin"}
    <3>1. RunOf(w) # r
      BY <2>3 DEF Calm, InPlace, Fits, StatusOf
    <3>2. QED
      BY <1>0, <2>3, <3>1 DEF Running
  <2>4. CASE Step(w)
    BY <1>0, <2>4 DEF Step, RunRow
  <2>5. CASE Finish(w)
    <3>1. RunOf(w) # r
      BY <2>5 DEF Finish, Calm, InPlace, Fits, StatusOf, Executing
    <3>2. QED
      BY <1>0, <2>5, <3>1 DEF Finish
  <2>6. QED
    BY <1>4, <2>1, <2>2, <2>3, <2>4, <2>5
       DEF WorkerStep, Handle, Begin, StopCancelled, StepFails, TransientFailure, GiveUp,
           PermanentFailure, FailPermanently, CrashUnless, ReportComplete, ReportFail, SetStatus
<1>5. CASE Repair
  BY <1>0, <1>5 DEF Repair, Repaired, RunRow
<1>6. CASE UNCHANGED run
  BY <1>6
<1>7. QED
  BY <1>1, <1>2, <1>3, <1>4, <1>5, <1>6
     DEF Next, ClaimJob, Heartbeat, Die, Crash, Lapse, Reap, vars

\* Without faults a run that succeeded or failed stays so: no thread writes over
\* it from memory, since none is about to begin.  (A CANCELLED run may become RUNNING
\* without any fault, and is not spoken of.)
THEOREM SettledRunsStaySettled ==
    ASSUME FaultFree
    PROVE  Spec => SettledRunsStay
<1>1. Inv /\ Passes /\ Calm /\ [Next]_vars
        => [\A r \in Runs : run[r].status \in {"succeeded", "failed"}
                                => run'[r].status = run[r].status]_vars
  BY SettledStep
<1>2. QED
  BY <1>1, Invariance, PassesInvariance, CalmInvariance, PTL DEF Spec, SettledRunsStay

-----------------------------------------------------------------------------
(* The life of a run implements RunPromise. *)

\* The thread that executes a run finds it RUNNING or cancelled, and knows whether
\* it was reviewed: it does not make the run wait a second time.
InPace(w) ==
    worker[w].at \in Executing /\ Told(RunOf(w)) =>
        /\ StatusOf(w) \in {"running", "cancelled"}
        /\ run[RunOf(w)].reviewed => worker[w].resume
Pace == \A w \in Workers : InPace(w)

\* Without faults the jobs and threads are where Calm has them.
Sound == Inv /\ Passes /\ (FaultFree => Calm)

\* A run that is told of has one thread at most that is not about to report.
LEMMA ToldHasOneThread ==
    ASSUME Sound, NEW v \in Workers, NEW w \in Workers, v # w,
           worker[v].at # "idle", worker[w].at \notin {"idle", "complete"},
           RunOf(v) = RunOf(w), Told(RunOf(w))
    PROVE  worker[v].at = "complete"
<1>1. CASE FaultFree
  BY <1>1, OthersAreDone DEF Sound
<1>2. CASE Undisturbed(RunOf(w))
  BY <1>2, Alone DEF Sound, Undisturbed
<1>3. QED
  BY <1>1, <1>2 DEF Told

\* What is told of a run, when no job is added and no lease runs out.
LEMMA SameTold ==
    ASSUME UNCHANGED << jobRun, stalled >>, NEW r
    PROVE  Told(r)' <=> Told(r)
BY DEF Told, Undisturbed, Stalled, JobsOf

\* The reaper leaves a run alone that a thread is at work on.
LEMMA WorkedOnIsLeft ==
    ASSUME Sound, NEW w \in Workers, worker[w].at # "idle", Told(RunOf(w))
    PROVE  Repaired(RunOf(w)) = StatusOf(w)
<1>1. RunOf(w) \in Runs /\ worker[w].job \in JobsOf(RunOf(w))
  BY HasARun DEF Sound, RunOf, JobsOf
<1>2. CASE FaultFree
  BY <1>1, <1>2, NothingToRepair DEF Sound, StatusOf
<1>3. CASE Undisturbed(RunOf(w))
  <2>1. JobsOf(RunOf(w)) = {worker[w].job} /\ worker[w].job \notin stalled
    BY <1>1, <1>3 DEF Undisturbed, Stalled
  <2>2. worker[w].job \in Nat
    BY <1>1, WorkQueueAssumption DEF JobsOf
  <2>3. NewestJob(RunOf(w)) = worker[w].job
    BY <2>1, <2>2 DEF NewestJob
  <2>4. jobStatus[worker[w].job] = "claimed"
    BY <1>1, <2>1 DEF Sound, Inv, Links, Exclusive, HoldsOrStalled, Holds
  <2>5. QED
    BY <2>3, <2>4 DEF Repaired, StatusOf
<1>4. QED
  BY <1>2, <1>3 DEF Told

-----------------------------------------------------------------------------
(* Pace. *)

LEMMA InitPace == Init => Pace
BY IdleIsAThread DEF Init, Pace, InPace, Executing, Steps

\* One thread moves.
LEMMA OneThreadPaces ==
    ASSUME Sound, Pace, NEW w \in Workers,
           \A v \in Workers : v # w => worker'[v] = worker[v],
           UNCHANGED << jobRun, stalled >>,
           \/ run' = run
           \/ /\ worker[w].at \notin {"idle", "complete"}
              /\ \A r \in Runs : r # RunOf(w) => run'[r] = run[r],
           InPace(w)'
    PROVE  Pace'
<1>1. ASSUME NEW v \in Workers, v # w, worker[v].at \in Executing, Told(RunOf(v))
      PROVE  InPace(v)'
  <2>1. worker'[v] = worker[v] /\ RunOf(v)' = RunOf(v) /\ RunOf(v) \in Runs /\ InPace(v)
    BY <1>1, HasARun DEF Sound, Pace, RunOf, Executing, Steps
  <2>2. run'[RunOf(v)] = run[RunOf(v)]
    BY <1>1, <2>1, ToldHasOneThread DEF Executing, Steps
  <2>3. QED
    BY <1>1, <2>1, <2>2 DEF InPace, StatusOf
<1>2. ASSUME NEW v \in Workers, v # w PROVE InPace(v)'
  <2>1. worker'[v] = worker[v] /\ RunOf(v)' = RunOf(v) /\ (Told(RunOf(v))' <=> Told(RunOf(v)))
    BY <1>2, SameTold DEF RunOf
  <2>2. QED
    BY <1>1, <1>2, <2>1 DEF InPace
<1>3. QED
  BY <1>2 DEF Pace

\* No thread moves.
LEMMA RowsPace ==
    ASSUME Sound, Pace, UNCHANGED worker, stalled \subseteq stalled',
           \A j \in Jobs : jobRun[j] \in Runs => jobRun'[j] = jobRun[j],
           \A w \in Workers : worker[w].at \in Executing /\ Told(RunOf(w)) =>
                /\ run'[RunOf(w)].status \in {StatusOf(w), "cancelled"}
                /\ run'[RunOf(w)].reviewed = run[RunOf(w)].reviewed
    PROVE  Pace'
<1> SUFFICES ASSUME NEW w \in Workers, worker[w].at \in Executing, Told(RunOf(w))'
             PROVE  InPace(w)'
  BY DEF Pace, InPace
<1>1. /\ worker[w].at # "idle" /\ worker[w].job \in Jobs /\ RunOf(w) \in Runs
      /\ jobRun[worker[w].job] = RunOf(w)
  BY HasARun DEF Sound, RunOf, Executing, Steps
<1>2. RunOf(w)' = RunOf(w)
  BY <1>1 DEF RunOf
<1>3. Told(RunOf(w))
  <2>1. JobsOf(RunOf(w)) \subseteq JobsOf(RunOf(w))'
    BY <1>1, <1>2 DEF JobsOf
  <2>2. QED
    BY <1>2, <2>1 DEF Told, Undisturbed, Stalled
<1>4. QED
  BY <1>2, <1>3 DEF Pace, InPace, StatusOf

LEMMA RunningPaces ==
    ASSUME Sound, Pace, NEW w \in Workers, worker[w].at \notin {"idle", "complete"}, Running(w),
           UNCHANGED << jobRun, stalled >>
    PROVE  Pace'
<1>0. /\ run \in [Runs -> RunRow] /\ worker \in [Workers -> Thread]
      /\ RunOf(w) \in Runs /\ worker[w].job \in Jobs
  BY HasARun DEF Sound, Inv, TypeOK
<1>1. /\ \A v \in Workers : v # w => worker'[v] = worker[v]
      /\ worker'[w].job = worker[w].job /\ worker'[w].resume = run[RunOf(w)].reviewed
  BY <1>0 DEF Running, Thread
<1>2. /\ \A r \in Runs : r # RunOf(w) => run'[r] = run[r]
      /\ run'[RunOf(w)].status = "running"
      /\ run'[RunOf(w)].reviewed = run[RunOf(w)].reviewed
  BY <1>0 DEF Running, RunRow
<1>3. InPace(w)'
  BY <1>1, <1>2 DEF InPace, StatusOf, RunOf
<1>4. QED
  BY <1>1, <1>2, <1>3, OneThreadPaces

LEMMA StepPaces ==
    ASSUME Sound, Pace, NEW w \in Workers, Step(w)
    PROVE  Pace'
<1>0. /\ run \in [Runs -> RunRow] /\ worker \in [Workers -> Thread]
      /\ worker[w].at \in Steps /\ worker[w].at \notin {"idle", "complete"}
      /\ RunOf(w) \in Runs /\ worker[w].job \in Jobs
      /\ UNCHANGED << jobRun, stalled >>
  BY HasARun DEF Step, Sound, Inv, TypeOK, Steps, leaseVars
<1>1. /\ \A v \in Workers : v # w => worker'[v] = worker[v]
      /\ worker'[w].job = worker[w].job /\ worker'[w].resume = worker[w].resume
  BY <1>0 DEF Step, Thread
<1>2. /\ \A r \in Runs : r # RunOf(w) => run'[r] = run[r]
      /\ run'[RunOf(w)].status = run[RunOf(w)].status
      /\ run'[RunOf(w)].reviewed = run[RunOf(w)].reviewed
  BY <1>0 DEF Step, RunRow
<1>3. RunOf(w)' = RunOf(w) /\ (Told(RunOf(w))' <=> Told(RunOf(w)))
  BY <1>0, <1>1, SameTold DEF RunOf
<1>4. InPace(w)'
  BY <1>0, <1>1, <1>2, <1>3 DEF Pace, InPace, StatusOf, Executing
<1>5. QED
  BY <1>0, <1>1, <1>2, <1>4, OneThreadPaces

LEMMA WorkerStepPaces ==
    ASSUME Sound, Pace, NEW w \in Workers, WorkerStep(w)
    PROVE  Pace'
<1>0. /\ run \in [Runs -> RunRow] /\ worker \in [Workers -> Thread]
      /\ UNCHANGED << jobRun, stalled >> /\ worker[w].at # "idle"
  BY DEF Sound, Inv, TypeOK, leaseVars, WorkerStep, Handle, Begin, Step, StopCancelled,
         StepFails, TransientFailure, GiveUp, PermanentFailure, Finish, FailPermanently,
         ReportComplete, ReportFail, Steps
<1>s. ASSUME worker'[w].at \notin Executing,
             \A v \in Workers : v # w => worker'[v] = worker[v],
             \/ run' = run
             \/ /\ worker[w].at \notin {"idle", "complete"}
                /\ \A r \in Runs : r # RunOf(w) => run'[r] = run[r]
      PROVE  Pace'
  BY <1>0, <1>s, OneThreadPaces DEF InPace
<1>1. CASE Handle(w) /\ ~Running(w)
  <2>1. \/ SetStatus(RunOf(w), "claimed") /\ Goes(w, "begin")
        \/ Goes(w, "complete") /\ UNCHANGED run
    BY <1>1 DEF Handle
  <2>2. worker[w].at = "handle"
    BY <1>1 DEF Handle
  <2>3. QED
    BY <1>0, <1>s, <2>1, <2>2 DEF Goes, SetStatus, Thread, Executing, Steps
<1>2. CASE (Handle(w) \/ Begin(w)) /\ Running(w)
  BY <1>0, <1>2, RunningPaces DEF Handle, Begin
<1>3. CASE Step(w)
  BY <1>3, StepPaces
<1>4. CASE StepFails(w)
  <2>1. PICK place \in {"transient", "permanent"} : Goes(w, place)
    BY <1>4 DEF StepFails
  <2>2. /\ run' = run /\ worker[w].at \in Executing /\ worker[w].job \in Jobs
    BY <1>0, <1>4, HasARun DEF StepFails, Executing, Sound
  <2>3. /\ \A v \in Workers : v # w => worker'[v] = worker[v]
        /\ worker'[w].job = worker[w].job /\ worker'[w].resume = worker[w].resume
    BY <1>0, <2>1 DEF Goes, Thread
  <2>4. RunOf(w)' = RunOf(w) /\ (Told(RunOf(w))' <=> Told(RunOf(w)))
    BY <1>0, <2>3, SameTold DEF RunOf
  <2>5. InPace(w)'
    BY <2>2, <2>3, <2>4 DEF Pace, InPace, StatusOf
  <2>6. QED
    BY <1>0, <2>2, <2>3, <2>5, OneThreadPaces
<1>5. CASE Finish(w)
  <2>1. \A r \in Runs : r # RunOf(w) => run'[r] = run[r]
    BY <1>0, <1>5 DEF Finish
  <2>2. worker[w].at = "finish" /\ Goes(w, "complete")
    BY <1>5 DEF Finish
  <2>3. QED
    BY <1>0, <1>s, <2>1, <2>2 DEF Goes, Thread, Executing, Steps
<1>6. CASE \/ StopCancelled(w) \/ TransientFailure(w) \/ GiveUp(w) \/ PermanentFailure(w)
           \/ FailPermanently(w)
  <2>1. PICK place \in {"complete", "giveup", "fail", "crashed", "abandon"} : Goes(w, place)
    BY <1>6 DEF StopCancelled, TransientFailure, GiveUp, PermanentFailure, FailPermanently,
                CrashUnless
  <2>2. worker[w].at \notin {"idle", "complete"}
    BY <1>6 DEF StopCancelled, TransientFailure, GiveUp, PermanentFailure, FailPermanently, Steps
  <2>3. \A r \in Runs : r # RunOf(w) => run'[r] = run[r]
    <3>1. run' = run \/ \E status : SetStatus(RunOf(w), status)
      BY <1>6 DEF StopCancelled, TransientFailure, GiveUp, PermanentFailure, FailPermanently,
                  CrashUnless, SetStatus
    <3>2. QED
      BY <1>0, <3>1 DEF SetStatus
  <2>4. QED
    BY <1>0, <1>s, <2>1, <2>2, <2>3 DEF Goes, Thread, Executing, Steps
<1>7. CASE ReportComplete(w) \/ ReportFail(w)
  BY <1>0, <1>7, <1>s, IdleIsAThread DEF ReportComplete, ReportFail, Executing, Steps
<1>8. QED
  BY <1>1, <1>2, <1>3, <1>4, <1>5, <1>6, <1>7 DEF WorkerStep, Begin

LEMMA ApiPaces ==
    ASSUME Sound, Pace, NEW r \in Runs, NEW e, NEW accept,
           CreateRun(r, e) \/ CancelRun(r) \/ Resolve(r, accept)
    PROVE  Pace'
<1>0. run \in [Runs -> RunRow] /\ UNCHANGED << worker, stalled >>
  BY DEF Sound, Inv, TypeOK, CreateRun, CancelRun, Resolve, leaseVars
<1>1. \A j \in Jobs : jobRun[j] \in Runs => jobRun'[j] = jobRun[j]
  <2>1. UNCHANGED jobRun \/ \E j \in Jobs : Enqueue(j) /\ jobRun' = [jobRun EXCEPT ![j] = r]
    BY DEF CreateRun, CancelRun, Resolve, Requeue
  <2>2. ASSUME NEW j \in Jobs, Enqueue(j), jobRun' = [jobRun EXCEPT ![j] = r]
        PROVE  \A i \in Jobs : jobRun[i] \in Runs => jobRun'[i] = jobRun[i]
    <3>1. jobRun[j] \notin Runs
      BY <2>2, RunLifecycleAssumption DEF Enqueue, IsNextId, Sound, Passes, Rows
    <3>2. QED
      BY <2>2, <3>1 DEF Sound, Inv, TypeOK
  <2>3. QED
    BY <2>1, <2>2
<1>2. ASSUME NEW w \in Workers, worker[w].at \in Executing, Told(RunOf(w))
      PROVE  /\ run'[RunOf(w)].status \in {StatusOf(w), "cancelled"}
             /\ run'[RunOf(w)].reviewed = run[RunOf(w)].reviewed
  <2>1. RunOf(w) \in Runs /\ StatusOf(w) \in {"running", "cancelled"}
    BY <1>2, HasARun DEF Sound, Pace, InPace, Executing, Steps
  <2>2. CASE CreateRun(r, e)
    <3>1. RunOf(w) # r
      BY <2>1, <2>2 DEF CreateRun, StatusOf
    <3>2. QED
      BY <1>0, <2>1, <2>2, <3>1 DEF CreateRun, StatusOf
  <2>3. CASE CancelRun(r)
    BY <1>0, <2>1, <2>3 DEF CancelRun, SetStatus, RunRow, StatusOf
  <2>4. CASE Resolve(r, accept)
    BY <1>0, <2>1, <2>4 DEF Resolve, WaitsForReview, RunRow, StatusOf
  <2>5. QED
    BY <2>2, <2>3, <2>4
<1>3. QED
  BY <1>0, <1>1, <1>2, RowsPace

LEMMA NextPace == Sound /\ Pace /\ [Next]_vars => Pace'
<1> SUFFICES ASSUME Sound, Pace, [Next]_vars PROVE Pace'
  OBVIOUS
<1>0. run \in [Runs -> RunRow] /\ worker \in [Workers -> Thread]
  BY DEF Sound, Inv, TypeOK
<1>1. ASSUME NEW r \in Runs, NEW e \in Employees, CreateRun(r, e) PROVE Pace'
  BY <1>1, ApiPaces
<1>2. ASSUME NEW r \in Runs, NEW accept \in BOOLEAN, CancelRun(r) \/ Resolve(r, accept)
      PROVE  Pace'
  BY <1>2, ApiPaces
<1>3. ASSUME NEW w \in Workers, WorkerStep(w) PROVE Pace'
  BY <1>3, WorkerStepPaces
<1>4. ASSUME NEW w \in Workers, (\E j \in Jobs : ClaimJob(w, j)) \/ Die(w) \/ Crash(w)
      PROVE  Pace'
  <2>1. UNCHANGED << run, jobRun, stalled >>
    BY <1>4 DEF ClaimJob, Die, Crash, leaseVars
  <2>2. /\ \A v \in Workers : v # w => worker'[v] = worker[v]
        /\ worker'[w].at \in {"handle", "crashed", "abandon", "idle"}
    <3>1. CASE \E j \in Jobs : ClaimJob(w, j)
      BY <1>0, <3>1 DEF ClaimJob, Idle
    <3>2. CASE Die(w) \/ Crash(w)
      BY <1>0, <3>2, IdleIsAThread DEF Die, Crash, Goes, Thread
    <3>3. QED
      BY <1>4, <3>1, <3>2
  <2>3. QED
    BY <2>1, <2>2, OneThreadPaces DEF InPace, Executing, Steps
<1>5. ASSUME UNCHANGED << run, jobRun, worker >>, stalled \subseteq stalled'
      PROVE  Pace'
  BY <1>5, RowsPace DEF StatusOf
<1>6. CASE Repair
  <2>1. CASE run' = run
    BY <1>5, <1>6, <2>1 DEF Repair
  <2>2. CASE run' = [r \in Runs |-> [run[r] EXCEPT !.status = Repaired(r)]]
    <3>1. \A w \in Workers : worker[w].at \in Executing /\ Told(RunOf(w)) =>
                /\ run'[RunOf(w)].status = StatusOf(w)
                /\ run'[RunOf(w)].reviewed = run[RunOf(w)].reviewed
      BY <1>0, <2>2, HasARun, WorkedOnIsLeft DEF Sound, RunRow, Executing, Steps
    <3>2. QED
      BY <1>6, <3>1, RowsPace DEF Repair
  <2>3. QED
    BY <1>6, <2>1, <2>2 DEF Repair
<1>7. QED
  BY <1>1, <1>2, <1>3, <1>4, <1>5, <1>6
     DEF Next, Heartbeat, Lapse, Reap, vars, leaseVars

-----------------------------------------------------------------------------
(* The steps, as RunPromise has them. *)

\* The statuses of a row and the phases they stand for.
LEMMA Phasing ==
    /\ \A status \in {"pending", "claimed", "retrying"} : PhaseOf(status) = "queued"
    /\ PhaseOf("needs_review") = "waiting"
    /\ \A status \in {"absent", "running", "succeeded", "failed", "cancelled"} :
            PhaseOf(status) = status
BY DEF PhaseOf

PassAt(place) ==
    IF place \in Executing THEN "underway" ELSE IF place = "begin" THEN "taken" ELSE "none"

\* Nothing changes for r, seen as RunPromise sees it.
Same(r) == RunPhase(r)' = RunPhase(r) /\ RunPass(r)' = RunPass(r) /\ RunWaited(r)' = RunWaited(r)
Moves(r, p, q) == RunPhase(r)' = p /\ RunPass(r)' = q /\ (RunWaited(r)' <=> RunWaited(r))

Stutters == UNCHANGED << [r \in Runs |-> RunPhase(r)], [r \in Runs |-> RunPass(r)],
                         [r \in Runs |-> RunWaited(r)] >>

LEMMA AllSame ==
    ASSUME \A r \in Runs : Same(r)
    PROVE  Stutters
BY DEF Same, Stutters

LEMMA OneMoves ==
    ASSUME NEW r \in Runs, NEW p, NEW q, \A s \in Runs : s # r => Same(s), Moves(r, p, q)
    PROVE  /\ Promised!Becomes(r, p, q)
           /\ [s \in Runs |-> RunWaited(s)]' = [s \in Runs |-> RunWaited(s)]
BY DEF Same, Moves, Promised!Becomes, RunWaited

LEMMA OneWaits ==
    ASSUME NEW r \in Runs, NEW p, NEW q, NEW z \in BOOLEAN, \A s \in Runs : s # r => Same(s),
           RunPhase(r)' = p, RunPass(r)' = q, RunWaited(r)' <=> z
    PROVE  /\ Promised!Becomes(r, p, q)
           /\ [s \in Runs |-> RunWaited(s)]' = [[s \in Runs |-> RunWaited(s)] EXCEPT ![r] = z]
BY DEF Same, Promised!Becomes, RunWaited

\* Runs that no pass is made over are recovered.
LEMMA RunsRecover ==
    ASSUME Inv', ~FaultFree,
           \A r \in Runs : \/ Same(r)
                           \/ /\ RunPass(r) = "none" /\ Moves(r, RunPhase(r)', "none")
                              /\ RunPhase(r)' \in Promised!RecoveredTo(RunPhase(r))
    PROVE  Promised!Recover
<1>1. \A r \in Runs : RunPhase(r)' \in Promised!Phases
  BY DEF Inv, TypeOK, RunRow, RunStatus, RunPhase, PhaseOf, Promised!Phases
<1>2. \A r \in Runs :
        /\ RunPass(r)' = RunPass(r) /\ RunWaited(r)' = RunWaited(r)
        /\ \/ RunPhase(r)' = RunPhase(r)
           \/ RunPass(r) = "none" /\ RunPhase(r)' \in Promised!RecoveredTo(RunPhase(r))
  BY DEF Same, Moves, RunWaited
<1>3. QED
  BY <1>1, <1>2 DEF Promised!Recover

\* Who makes a pass over which run, when one thread moves.
LEMMA OneThreadPasses ==
    ASSUME Sound, NEW w \in Workers, worker[w].at \notin {"idle", "complete"},
           \A v \in Workers : v # w => worker'[v] = worker[v],
           worker'[w].job = worker[w].job \/ worker'[w].at = "idle",
           UNCHANGED << jobRun, stalled >>, NEW r \in Runs
    PROVE  /\ r # RunOf(w) => PassOver(r)' = PassOver(r)
           /\ r = RunOf(w) /\ Told(r) => /\ PassOver(r) = PassAt(worker[w].at)
                                         /\ PassOver(r)' = PassAt(worker'[w].at)
<1> DEFINE Making == Executing \cup {"begin"}
<1>0. "idle" \notin Making /\ "complete" \notin Making
  BY DEF Executing, Steps
<1>1. \A v \in Workers : /\ v # w => RunOf(v)' = RunOf(v)
                         /\ v = w /\ worker'[w].at \in Making => RunOf(v)' = RunOf(v)
  BY <1>0 DEF RunOf
<1>2. ASSUME r # RunOf(w), NEW places \in SUBSET Making
      PROVE  ThreadIn(r, places)' <=> ThreadIn(r, places)
  BY <1>1, <1>2 DEF ThreadIn
<1>3. ASSUME r = RunOf(w), Told(r), NEW places \in SUBSET Making
      PROVE  /\ ThreadIn(r, places) <=> worker[w].at \in places
             /\ ThreadIn(r, places)' <=> worker'[w].at \in places
  <2>1. \A v \in Workers : v # w /\ RunOf(v) = r => worker[v].at \notin places
    BY <1>0, <1>3, ToldHasOneThread
  <2>2. QED
    BY <1>1, <1>3, <2>1 DEF ThreadIn
<1>4. Executing \in SUBSET Making /\ {"begin"} \in SUBSET Making
  OBVIOUS
<1> HIDE DEF Making
<1>5. ASSUME r # RunOf(w) PROVE PassOver(r)' = PassOver(r)
  BY <1>2, <1>4, <1>5 DEF PassOver
<1>6. ASSUME r = RunOf(w), Told(r)
      PROVE  PassOver(r) = PassAt(worker[w].at) /\ PassOver(r)' = PassAt(worker'[w].at)
  BY <1>3, <1>4, <1>6 DEF PassOver, PassAt
<1>7. QED
  BY <1>5, <1>6

\* Its row and its thread show what becomes of r.
Shown(w, r) ==
    /\ RunPhase(r) = PhaseOf(run[r].status) /\ RunPass(r) = PassAt(worker[w].at)
    /\ RunPhase(r)' = PhaseOf(run'[r].status) /\ RunPass(r)' = PassAt(worker'[w].at)
    /\ RunWaited(r) <=> run[r].reviewed
    /\ RunWaited(r)' <=> run'[r].reviewed
    /\ Told(r)

\* What one step of a thread does, seen as RunPromise sees it.
LEMMA OneThreadIsSeen ==
    ASSUME Sound, NEW w \in Workers, worker[w].at \notin {"idle", "complete"},
           \A v \in Workers : v # w => worker'[v] = worker[v],
           worker'[w].job = worker[w].job \/ worker'[w].at = "idle",
           UNCHANGED << jobRun, stalled >>, NEW r \in Runs, r = RunOf(w),
           \A s \in Runs : s # r => run'[s] = run[s]
    PROVE  /\ \A s \in Runs : s # r => Same(s)
           /\ Same(r) \/ Shown(w, r)
<1>1. \A s \in Runs : Told(s)' <=> Told(s)
  BY SameTold
<1>2. \A s \in Runs : s # r => Same(s)
  BY <1>1, OneThreadPasses DEF Same, RunPhase, RunPass, RunWaited
<1>3. CASE ~Told(r)
  BY <1>1, <1>2, <1>3 DEF Same, RunPhase, RunPass, RunWaited
<1>4. CASE Told(r)
  <2>1. PassOver(r) = PassAt(worker[w].at) /\ PassOver(r)' = PassAt(worker'[w].at)
    BY <1>4, OneThreadPasses
  <2>2. Told(r)'
    BY <1>1, <1>4
  <2>3. /\ RunPhase(r) = PhaseOf(run[r].status) /\ RunPhase(r)' = PhaseOf(run'[r].status)
        /\ RunWaited(r) <=> run[r].reviewed
        /\ RunWaited(r)' <=> run'[r].reviewed
    BY <1>4, <2>2 DEF RunPhase, RunWaited
  <2>4. RunPass(r) = PassOver(r) /\ RunPass(r)' = PassOver(r)'
    BY <1>4, <2>2 DEF RunPass
  <2>5. QED
    BY <1>2, <1>4, <2>1, <2>3, <2>4 DEF Shown
<1>5. QED
  BY <1>2, <1>3, <1>4

\* A thread moves that makes a pass neither before nor after.
LEMMA Aside ==
    ASSUME NEW w \in Workers, worker[w].at \notin Executing \cup {"begin"},
           worker'[w].at \notin Executing \cup {"begin"},
           \A v \in Workers : v # w => worker'[v] = worker[v],
           UNCHANGED << jobRun, stalled, run >>
    PROVE  Stutters
<1>1. \A r \in Runs : PassOver(r)' = PassOver(r)
  BY DEF PassOver, ThreadIn, RunOf
<1>2. \A r \in Runs : Same(r)
  BY <1>1, SameTold DEF Same, RunPhase, RunPass, RunWaited
<1>3. QED
  BY <1>2, AllSame

\* A run is given up that no pass is made over.
LEMMA GivenUp ==
    ASSUME Inv', NEW r \in Runs, \A s \in Runs : s # r => Same(s),
           run[r].status \in {"claimed", "running", "retrying", "needs_review"},
           FaultFree => run[r].status = "retrying",
           RunPhase(r) = PhaseOf(run[r].status), RunPass(r) = "none", Moves(r, "failed", "none")
    PROVE  Promised!Next
<1>1. CASE FaultFree
  <2>1. Promised!GiveUp(r)
    BY <1>1, Phasing, OneMoves DEF Promised!GiveUp
  <2>2. QED
    BY <2>1 DEF Promised!Next, Promised!RunStep
<1>2. CASE ~FaultFree
  <2>1. "failed" \in Promised!RecoveredTo(RunPhase(r))
    BY Phasing DEF Promised!RecoveredTo
  <2>2. Moves(r, RunPhase(r)', "none") /\ RunPhase(r)' = "failed"
    BY DEF Moves
  <2>3. Promised!Recover
    BY <1>2, <2>1, <2>2, RunsRecover
  <2>4. QED
    BY <2>3 DEF Promised!Next
<1>3. QED
  BY <1>1, <1>2

\* A pass that is underway ends, or finds its run cancelled and ends.
LEMMA PassEnds ==
    ASSUME NEW r \in Runs, NEW place, \A s \in Runs : s # r => Same(s),
           run[r].status \in {"running", "cancelled"},
           RunPhase(r) = PhaseOf(run[r].status), RunPass(r) = "underway",
           RunPass(r)' = "none", RunPhase(r)' = PhaseOf(run'[r].status),
           \/ /\ run[r].status = "cancelled" /\ run'[r].status = "cancelled"
              /\ RunWaited(r)' <=> RunWaited(r)
           \/ /\ run[r].status = "running"
              /\ run'[r].status \in {"retrying", "failed", "succeeded"}
              /\ RunWaited(r)' <=> RunWaited(r)
           \/ /\ run[r].status = "running" /\ run'[r].status = "needs_review"
              /\ ~RunWaited(r) /\ RunWaited(r)'
    PROVE  Promised!Next
<1>1. CASE run[r].status = "cancelled" /\ run'[r].status = "cancelled"
            /\ (RunWaited(r)' <=> RunWaited(r))
  <2>1. RunPhase(r) = "cancelled" /\ Moves(r, "cancelled", "none")
    BY <1>1, Phasing DEF Moves
  <2>2. Promised!Stop(r)
    BY <2>1, OneMoves DEF Promised!Stop
  <2>3. QED
    BY <2>2 DEF Promised!Next, Promised!RunStep
<1>2. CASE run[r].status = "running" /\ run'[r].status \in {"retrying", "failed", "succeeded"}
            /\ (RunWaited(r)' <=> RunWaited(r))
  <2>1. RunPhase(r) = "running"
    BY <1>2, Phasing
  <2>2. PICK next \in {"queued", "succeeded", "failed"} : Moves(r, next, "none")
    BY <1>2, Phasing DEF Moves
  <2>3. Promised!Leave(r)
    BY <2>1, <2>2, OneMoves DEF Promised!Leave, Promised!Underway
  <2>4. QED
    BY <2>3 DEF Promised!Next, Promised!RunStep
<1>3. CASE run[r].status = "running" /\ run'[r].status = "needs_review"
            /\ ~RunWaited(r) /\ RunWaited(r)'
  <2>1. RunPhase(r) = "running" /\ RunPhase(r)' = "waiting"
    BY <1>3, Phasing
  <2>2. Promised!Wait(r)
    BY <1>3, <2>1, OneWaits DEF Promised!Wait, Promised!Underway
  <2>3. QED
    BY <2>2 DEF Promised!Next, Promised!RunStep
<1>4. QED
  BY <1>1, <1>2, <1>3

\* What one of its steps leaves alone of the threads and the runs.
LEMMA WorkerStepShape ==
    ASSUME Sound, NEW w \in Workers, WorkerStep(w)
    PROVE  /\ worker[w].at # "idle" /\ RunOf(w) \in Runs
           /\ UNCHANGED << jobRun, stalled >>
           /\ \A v \in Workers : v # w => worker'[v] = worker[v]
           /\ worker'[w].job = worker[w].job \/ worker'[w].at = "idle"
           /\ \A s \in Runs : s # RunOf(w) => run'[s] = run[s]
<1>0. /\ run \in [Runs -> RunRow] /\ worker \in [Workers -> Thread]
  BY DEF Sound, Inv, TypeOK
<1>1. worker[w].at # "idle" /\ UNCHANGED << jobRun, stalled >>
  BY DEF leaseVars, WorkerStep, Handle, Begin, Step, StopCancelled, StepFails, TransientFailure,
         GiveUp, PermanentFailure, Finish, FailPermanently, ReportComplete, ReportFail, Steps
<1>2. RunOf(w) \in Runs
  BY <1>1, HasARun DEF Sound
<1>3. \/ \E place : Goes(w, place)
      \/ Running(w)
      \/ Step(w)
      \/ worker' = [worker EXCEPT ![w] = Idle]
  BY DEF WorkerStep, Handle, Begin, StopCancelled, StepFails, TransientFailure, CrashUnless,
         GiveUp, PermanentFailure, Finish, FailPermanently, ReportComplete, ReportFail
<1>4. /\ \A v \in Workers : v # w => worker'[v] = worker[v]
      /\ worker'[w].job = worker[w].job \/ worker'[w].at = "idle"
  <2>1. worker[w] \in Thread
    BY <1>0
  <2>2. CASE \E place : Goes(w, place)
    BY <1>0, <2>1, <2>2 DEF Goes, Thread
  <2>3. CASE Running(w)
    BY <1>0, <2>1, <2>3 DEF Running, Thread
  <2>4. CASE Step(w)
    BY <1>0, <2>1, <2>4 DEF Step, Thread
  <2>5. CASE worker' = [worker EXCEPT ![w] = Idle]
    BY <1>0, <2>5, IdleIsAThread
  <2>6. QED
    BY <1>3, <2>2, <2>3, <2>4, <2>5
<1>5. \A s \in Runs : s # RunOf(w) => run'[s] = run[s]
  <2>1. \/ UNCHANGED run
        \/ \E status : SetStatus(RunOf(w), status)
        \/ Running(w)
        \/ Step(w)
        \/ Finish(w)
    BY DEF WorkerStep, Handle, Begin, StopCancelled, StepFails, TransientFailure, CrashUnless,
           GiveUp, PermanentFailure, FailPermanently, ReportComplete, ReportFail, SetStatus
  <2>2. QED
    BY <1>0, <2>1 DEF SetStatus, Running, Step, Finish
<1>6. QED
  BY <1>1, <1>2, <1>4, <1>5

LEMMA HandleIsPromised ==
    ASSUME Sound, NEW w \in Workers, NEW r \in Runs, r = RunOf(w), Handle(w)
    PROVE  Promised!Next \/ Stutters
<1>0. /\ run \in [Runs -> RunRow] /\ worker \in [Workers -> Thread] /\ WorkerStep(w)
      /\ worker[w].at = "handle" /\ r \in Runs /\ run[r].status # "absent"
  <2>1. worker[w].at = "handle" /\ worker[w].job \in Jobs
    BY HasARun DEF Sound, Handle
  <2>2. QED
    BY <2>1 DEF Sound, Inv, TypeOK, WorkerStep, Passes, Rows, RunOf
<1>1. /\ UNCHANGED << jobRun, stalled >>
      /\ \A v \in Workers : v # w => worker'[v] = worker[v]
      /\ worker'[w].job = worker[w].job \/ worker'[w].at = "idle"
      /\ \A s \in Runs : s # r => run'[s] = run[s]
  BY <1>0, WorkerStepShape
<1>2. CASE Goes(w, "complete") /\ UNCHANGED run
  BY <1>0, <1>1, <1>2, Aside DEF Goes, Thread, Executing, Steps
<1>3. /\ \A s \in Runs : s # r => Same(s)
      /\ Same(r) \/ Shown(w, r)
  BY <1>0, <1>1, OneThreadIsSeen
<1>4. CASE Same(r)
  BY <1>3, <1>4, AllSame
<1>5. CASE Shown(w, r) /\ CanTransition(StatusOf(w), "claimed")
            /\ SetStatus(r, "claimed") /\ Goes(w, "begin")
  <2>0. run[r] \in RunRow /\ run[r].status \in RunStatus /\ StatusOf(w) = run[r].status
    BY <1>0 DEF RunRow, StatusOf
  <2>1. /\ run[r].status \in {"pending", "retrying"}
        /\ run'[r].status = "claimed" /\ run'[r].reviewed = run[r].reviewed
        /\ worker'[w].at = "begin"
    <3>1. run[r].status \in {"pending", "retrying"}
      BY <1>5, <2>0 DEF CanTransition, TRANSITIONS, RunStatus
    <3>2. run'[r].status = "claimed" /\ run'[r].reviewed = run[r].reviewed
      BY <1>0, <1>5 DEF RunRow, SetStatus
    <3>3. worker'[w].at = "begin"
      BY <1>0, <1>5 DEF Goes, Thread
    <3>4. QED
      BY <3>1, <3>2, <3>3
  <2>2. PassAt("handle") = "none" /\ PassAt("begin") = "taken"
    BY DEF PassAt, Executing, Steps
  <2>3. /\ RunPhase(r) = "queued" /\ RunPass(r) = "none"
        /\ Moves(r, "queued", "taken")
    BY <1>0, <1>3, <1>5, <2>1, <2>2, Phasing DEF Shown, Moves
  <2>4. Promised!Take(r)
    BY <1>0, <1>3, <2>3, OneMoves DEF Promised!Take
  <2>5. QED
    BY <1>0, <2>4 DEF Promised!Next, Promised!RunStep
<1>6. CASE Shown(w, r) /\ StatusOf(w) = "claimed" /\ Running(w)
  <2>1. /\ StatusOf(w) = run[r].status
        /\ run'[r].status = "running" /\ run'[r].reviewed = run[r].reviewed
        /\ worker'[w].at \in Executing
    BY <1>0, <1>6 DEF StatusOf, RunRow, Running, StartPlace, Thread, Executing, Steps
  <2>2. PassAt("handle") = "none" /\ PassAt(worker'[w].at) = "underway"
    BY <2>1 DEF PassAt, Executing, Steps
  <2>3. /\ RunPhase(r) = "queued" /\ RunPass(r) = "none"
        /\ Moves(r, "running", "underway")
    BY <1>0, <1>3, <1>6, <2>1, <2>2, Phasing DEF Shown, Moves
  <2>4. Promised!Begin(r)
    BY <1>0, <1>3, <2>3, OneMoves DEF Promised!Begin
  <2>5. QED
    BY <1>0, <2>4 DEF Promised!Next, Promised!RunStep
<1>7. QED
  BY <1>2, <1>3, <1>4, <1>5, <1>6 DEF Handle

LEMMA BeginIsPromised ==
    ASSUME Sound, NEW w \in Workers, NEW r \in Runs, r = RunOf(w), Begin(w)
    PROVE  Promised!Next \/ Stutters
<1>0. /\ run \in [Runs -> RunRow] /\ worker \in [Workers -> Thread] /\ WorkerStep(w)
      /\ worker[w].at = "begin" /\ r \in Runs /\ Running(w)
  BY HasARun DEF Sound, Inv, TypeOK, Begin, WorkerStep
<1>1. /\ UNCHANGED << jobRun, stalled >>
      /\ \A v \in Workers : v # w => worker'[v] = worker[v]
      /\ worker'[w].job = worker[w].job \/ worker'[w].at = "idle"
      /\ \A s \in Runs : s # r => run'[s] = run[s]
  BY <1>0, WorkerStepShape
<1>2. /\ run'[r].status = "running" /\ run'[r].reviewed = run[r].reviewed
      /\ worker'[w].at \in Executing
  BY <1>0 DEF RunRow, Running, StartPlace, Thread, Executing, Steps
<1>3. Told(r) => run[r].status \in {"claimed", "cancelled"}
  BY <1>0 DEF Told, Sound, Passes, Begins, BeginsIt, Calm, InPlace, Fits, StatusOf
<1>4. /\ \A s \in Runs : s # r => Same(s)
      /\ Same(r) \/ Shown(w, r)
  BY <1>0, <1>1, OneThreadIsSeen
<1>5. CASE Same(r)
  BY <1>4, <1>5, AllSame
<1>6. CASE Shown(w, r)
  <2>1. PassAt("begin") = "taken" /\ PassAt(worker'[w].at) = "underway"
    BY <1>2 DEF PassAt, Executing, Steps
  <2>2. /\ RunPhase(r) \in {"queued", "cancelled"} /\ RunPass(r) = "taken"
        /\ Moves(r, "running", "underway")
    BY <1>0, <1>2, <1>3, <1>6, <2>1, Phasing DEF Shown, Moves
  <2>3. Promised!Begin(r)
    BY <1>0, <1>4, <2>2, OneMoves DEF Promised!Begin
  <2>4. QED
    BY <1>0, <2>3 DEF Promised!Next, Promised!RunStep
<1>7. QED
  BY <1>4, <1>5, <1>6

\* A thread that goes on with its pass, and leaves the run's status.
LEMMA GoesOnAsPromised ==
    ASSUME Sound, NEW w \in Workers, NEW r \in Runs, r = RunOf(w),
           Step(w) \/ StepFails(w)
    PROVE  Stutters
<1>0. /\ run \in [Runs -> RunRow] /\ worker \in [Workers -> Thread] /\ WorkerStep(w)
      /\ worker[w].at \in Steps /\ worker[w].at \notin {"idle", "complete"}
  BY HasARun DEF Sound, Inv, TypeOK, Step, StepFails, Steps, WorkerStep
<1>1. /\ UNCHANGED << jobRun, stalled >>
      /\ \A v \in Workers : v # w => worker'[v] = worker[v]
      /\ worker'[w].job = worker[w].job \/ worker'[w].at = "idle"
      /\ \A s \in Runs : s # r => run'[s] = run[s]
  BY <1>0, WorkerStepShape
<1>2. /\ run'[r].status = run[r].status /\ run'[r].reviewed = run[r].reviewed
      /\ worker'[w].at \in Executing
  <2>1. CASE Step(w)
    <3>1. After(w) \in Executing /\ worker'[w].at = After(w)
      BY <1>0, <2>1 DEF Step, After, Thread, Executing, Steps
    <3>2. PICK status : run' = [run EXCEPT ![r].invoice = status]
      BY <2>1 DEF Step
    <3>3. QED
      BY <1>0, <3>1, <3>2 DEF RunRow
  <2>2. CASE StepFails(w)
    BY <1>0, <2>2 DEF StepFails, Goes, Thread, Executing
  <2>3. QED
    BY <2>1, <2>2
<1>3. /\ \A s \in Runs : s # r => Same(s)
      /\ Same(r) \/ Shown(w, r)
  BY <1>0, <1>1, OneThreadIsSeen
<1>4. PassAt(worker[w].at) = PassAt(worker'[w].at)
  BY <1>0, <1>2 DEF PassAt, Executing
<1>5. Same(r)
  BY <1>2, <1>3, <1>4 DEF Shown, Same, RunWaited
<1>6. QED
  BY <1>3, <1>5, AllSame

\* A pass that is underway ends.
LEMMA PassEndsAsPromised ==
    ASSUME Sound, Pace, NEW w \in Workers, NEW r \in Runs, r = RunOf(w),
           StopCancelled(w) \/ TransientFailure(w) \/ PermanentFailure(w) \/ Finish(w)
    PROVE  Promised!Next \/ Stutters
<1>0. /\ run \in [Runs -> RunRow] /\ worker \in [Workers -> Thread] /\ WorkerStep(w)
      /\ worker[w].at \in Executing /\ worker[w].at \notin {"idle", "complete"}
  BY DEF Sound, Inv, TypeOK, StopCancelled, TransientFailure, PermanentFailure, Finish,
         Executing, Steps, WorkerStep
<1>1. /\ UNCHANGED << jobRun, stalled >>
      /\ \A v \in Workers : v # w => worker'[v] = worker[v]
      /\ worker'[w].job = worker[w].job \/ worker'[w].at = "idle"
      /\ \A s \in Runs : s # r => run'[s] = run[s]
  BY <1>0, WorkerStepShape
<1>2. /\ \A s \in Runs : s # r => Same(s)
      /\ Same(r) \/ Shown(w, r)
  BY <1>0, <1>1, OneThreadIsSeen
<1>3. CASE Same(r)
  BY <1>2, <1>3, AllSame
<1>4. CASE Shown(w, r)
  <2>1. /\ run[r].status \in {"running", "cancelled"} /\ StatusOf(w) = run[r].status
        /\ run[r].reviewed => worker[w].resume
    BY <1>0, <1>4 DEF Shown, Pace, InPace, StatusOf
  <2>2. PICK place \in {"giveup", "fail", "complete", "crashed"} : Goes(w, place)
    BY DEF StopCancelled, TransientFailure, PermanentFailure, Finish, CrashUnless
  <2>3. worker'[w].at = place
    BY <1>0, <2>2 DEF Goes, Thread
  <2>4. RunPass(r) = "underway" /\ RunPass(r)' = "none"
    BY <1>0, <1>4, <2>3 DEF Shown, PassAt, Executing, Steps
  <2>5. \/ /\ run[r].status = "cancelled" /\ run'[r].status = "cancelled"
           /\ run'[r].reviewed <=> run[r].reviewed
        \/ /\ run[r].status = "running"
           /\ run'[r].status \in {"retrying", "failed", "succeeded"}
           /\ run'[r].reviewed <=> run[r].reviewed
        \/ /\ run[r].status = "running" /\ run'[r].status = "needs_review"
           /\ ~run[r].reviewed /\ run'[r].reviewed
    <3>1. CASE run' = run /\ run[r].status = "cancelled"
      BY <3>1
    <3>2. CASE run[r].status = "running" /\ \E status \in {"retrying", "failed"} : SetStatus(r, status)
      BY <1>0, <3>2 DEF SetStatus, RunRow
    <3>3. CASE Finish(w)
      <4> DEFINE outcome == IF worker[w].review /\ ~worker[w].resume
                            THEN "needs_review" ELSE "succeeded"
      <4>1. IF CanTransition(run[r].status, outcome)
            THEN /\ run'[r].status = outcome
                 /\ run'[r].reviewed <=> (run[r].reviewed \/ outcome = "needs_review")
            ELSE run' = run
        BY <1>0, <2>1, <3>3 DEF Finish, RunRow
      <4>2. outcome = "needs_review" => ~run[r].reviewed
        BY <2>1
      <4>3. outcome \in {"needs_review", "succeeded"}
        OBVIOUS
      <4> HIDE DEF outcome
      <4>4. CanTransition(run[r].status, outcome) <=> run[r].status = "running"
        BY <2>1, <4>3 DEF CanTransition, TRANSITIONS
      <4>5. QED
        BY <2>1, <4>1, <4>2, <4>3, <4>4
    <3>4. CASE ~Finish(w)
      <4>1. CanTransition("running", "retrying") /\ CanTransition("running", "failed")
        BY DEF CanTransition, TRANSITIONS
      <4>2. ~CanTransition("cancelled", "retrying") /\ ~CanTransition("cancelled", "failed")
        BY DEF CanTransition, TRANSITIONS
      <4>3. QED
        BY <2>1, <3>1, <3>2, <3>4, <4>1, <4>2
           DEF StopCancelled, TransientFailure, PermanentFailure, CrashUnless
    <3>5. QED
      BY <3>3, <3>4
  <2>6. Promised!Next
    BY <1>2, <1>4, <2>1, <2>4, <2>5, PassEnds DEF Shown
  <2>7. QED
    BY <2>6
<1>5. QED
  BY <1>2, <1>3, <1>4

\* A thread that reports a failure, and gives its run up or not.
LEMMA GivesUpAsPromised ==
    ASSUME Sound, Inv', NEW w \in Workers, NEW r \in Runs, r = RunOf(w),
           GiveUp(w) \/ FailPermanently(w)
    PROVE  Promised!Next \/ Stutters
<1>0. /\ run \in [Runs -> RunRow] /\ worker \in [Workers -> Thread] /\ WorkerStep(w)
      /\ worker[w].at \in {"giveup", "crashed"} /\ worker[w].at \notin {"idle", "complete"}
  BY DEF Sound, Inv, TypeOK, GiveUp, FailPermanently, WorkerStep
<1>1. /\ UNCHANGED << jobRun, stalled >>
      /\ \A v \in Workers : v # w => worker'[v] = worker[v]
      /\ worker'[w].job = worker[w].job \/ worker'[w].at = "idle"
      /\ \A s \in Runs : s # r => run'[s] = run[s]
  BY <1>0, WorkerStepShape
<1>2. PICK place \in {"fail", "crashed", "abandon"} : Goes(w, place)
  BY DEF GiveUp, FailPermanently, CrashUnless
<1>3. worker'[w].at = place
  BY <1>0, <1>2 DEF Goes, Thread
<1>4. CASE run' = run
  BY <1>0, <1>1, <1>3, <1>4, Aside DEF Executing, Steps
<1>5. CASE run' # run
  <2>1. CanTransition(run[r].status, "failed") /\ SetStatus(r, "failed")
    BY <1>5 DEF GiveUp, FailPermanently, CrashUnless, StatusOf, SetStatus
  <2>2. run[r].status # "absent"
    <3>1. worker[w].job \in Jobs
      BY <1>0, HasARun DEF Sound
    <3>2. QED
      BY <3>1 DEF Sound, Passes, Rows, RunOf
  <2>3. run[r].status \in {"claimed", "running", "retrying", "needs_review"}
    <3>1. run[r].status \in RunStatus
      BY <1>0, <2>2 DEF RunRow
    <3>2. QED
      BY <2>1, <3>1 DEF CanTransition, TRANSITIONS, RunStatus
  <2>4. FaultFree => run[r].status = "retrying"
    <3>1. FaultFree => run[r].status \in {"retrying", "cancelled"}
      BY <1>0 DEF Sound, Calm, InPlace, Fits, StatusOf
    <3>2. QED
      BY <2>3, <3>1
  <2>5. run'[r].status = "failed" /\ run'[r].reviewed = run[r].reviewed
    BY <1>0, <2>1 DEF SetStatus, RunRow
  <2>6. /\ \A s \in Runs : s # r => Same(s)
        /\ Same(r) \/ Shown(w, r)
    BY <1>0, <1>1, OneThreadIsSeen
  <2>7. CASE Same(r)
    BY <2>6, <2>7, AllSame
  <2>8. CASE Shown(w, r)
    <3>1. PassAt(worker[w].at) = "none" /\ PassAt(worker'[w].at) = "none"
      BY <1>0, <1>3 DEF PassAt, Executing, Steps
    <3>2. RunPhase(r) = PhaseOf(run[r].status) /\ RunPass(r) = "none"
      BY <2>8, <3>1 DEF Shown
    <3>3. Moves(r, "failed", "none")
      BY <2>5, <2>8, <3>1, Phasing DEF Shown, Moves
    <3>4. QED
      BY <2>3, <2>4, <2>6, <3>2, <3>3, GivenUp
  <2>9. QED
    BY <2>6, <2>7, <2>8
<1>6. QED
  BY <1>4, <1>5

\* Every step of a thread that has a job is one RunPromise allows, or none to it.
LEMMA WorkerStepIsPromised ==
    ASSUME Sound, Pace, Inv', NEW w \in Workers, WorkerStep(w)
    PROVE  Promised!Next \/ Stutters
<1>1. PICK r \in Runs : r = RunOf(w)
  BY WorkerStepShape
<1>2. CASE Handle(w) \/ Begin(w) \/ Step(w) \/ StepFails(w)
  BY <1>1, <1>2, HandleIsPromised, BeginIsPromised, GoesOnAsPromised
<1>3. CASE StopCancelled(w) \/ TransientFailure(w) \/ PermanentFailure(w) \/ Finish(w)
  BY <1>1, <1>3, PassEndsAsPromised
<1>4. CASE GiveUp(w) \/ FailPermanently(w)
  BY <1>1, <1>4, GivesUpAsPromised
<1>5. CASE ReportComplete(w) \/ ReportFail(w)
  <2>1. UNCHANGED << run, jobRun, stalled >> /\ worker' = [worker EXCEPT ![w] = Idle]
    BY <1>5 DEF ReportComplete, ReportFail
  <2>2. worker[w].at \in {"complete", "fail", "abandon"}
    BY <1>5 DEF ReportComplete, ReportFail
  <2>3. worker'[w].at = "idle" /\ \A v \in Workers : v # w => worker'[v] = worker[v]
    BY <2>1, IdleIsAThread DEF Sound, Inv, TypeOK
  <2>4. QED
    BY <2>1, <2>2, <2>3, Aside DEF Executing, Steps
<1>6. QED
  BY <1>2, <1>3, <1>4, <1>5 DEF WorkerStep

-----------------------------------------------------------------------------
(* The other steps. *)

\* Rows change, no thread, job or lease does.
LEMMA RowIsSeen ==
    ASSUME UNCHANGED << worker, jobRun, stalled >>, NEW r \in Runs
    PROVE  /\ RunPass(r)' = RunPass(r)
           /\ ~Told(r) => Same(r)
           /\ run'[r].status = run[r].status /\ run'[r].reviewed = run[r].reviewed => Same(r)
           /\ Told(r) => /\ RunPhase(r) = PhaseOf(run[r].status)
                         /\ RunPhase(r)' = PhaseOf(run'[r].status)
                         /\ RunWaited(r) <=> run[r].reviewed
                         /\ RunWaited(r)' <=> run'[r].reviewed
<1>1. (Told(r)' <=> Told(r)) /\ PassOver(r)' = PassOver(r)
  BY SameTold DEF PassOver, ThreadIn, RunOf
<1>2. QED
  BY <1>1 DEF Same, RunPhase, RunPass, RunWaited

LEMMA NothingIsSeen ==
    ASSUME UNCHANGED << worker, jobRun, stalled, run >>
    PROVE  Stutters
BY RowIsSeen, AllSame

\* A run is given a job that was not there.
LEMMA JobIsSeen ==
    ASSUME Sound, NEW r \in Runs, NEW j \in Jobs, Enqueue(j),
           jobRun' = [jobRun EXCEPT ![j] = r], UNCHANGED << worker, stalled >>,
           \A s \in Runs : s # r => run'[s] = run[s]
    PROVE  /\ \A s \in Runs : s # r => Same(s)
           /\ Told(r)' => Told(r)
           /\ PassOver(r)' = PassOver(r)
<1>1. jobRun[j] = None /\ None \notin Runs /\ jobRun \in [Jobs -> Runs \cup {None}]
  BY RunLifecycleAssumption DEF Enqueue, IsNextId, Sound, Inv, TypeOK, Passes, Rows
<1>2. \A w \in Workers : worker[w].at # "idle" => RunOf(w)' = RunOf(w)
  BY <1>1, HasARun DEF Sound, RunOf
<1>3. \A s \in Runs : PassOver(s)' = PassOver(s)
  BY <1>2 DEF PassOver, ThreadIn, Executing, Steps
<1>4. \A s \in Runs : s # r => JobsOf(s)' = JobsOf(s)
  BY <1>1 DEF JobsOf
<1>5. \A s \in Runs : s # r => (Told(s)' <=> Told(s))
  BY <1>4 DEF Told, Undisturbed, Stalled
<1>6. JobsOf(r) \subseteq JobsOf(r)'
  BY <1>1 DEF JobsOf
<1>7. Told(r)' => Told(r)
  BY <1>6 DEF Told, Undisturbed, Stalled
<1>8. QED
  BY <1>3, <1>5, <1>7 DEF Same, RunPhase, RunPass, RunWaited

\* A run with a second job, or a lease that ran out under a thread, is adrift.
LEMMA Drifts ==
    ASSUME NEW r \in Runs, \A s \in Runs : s # r => Same(s), ~Told(r)'
    PROVE  Promised!Next
<1>1. ~FaultFree
  BY DEF Told, FaultFree
<1>2. RunPhase(r)' = "adrift" /\ RunPass(r)' = "none" /\ ~RunWaited(r)'
  BY DEF RunPhase, RunPass, RunWaited
<1>3. Promised!Drift(r)
  BY <1>1, <1>2, OneWaits DEF Promised!Drift
<1>4. QED
  BY <1>3 DEF Promised!Next, Promised!RunStep

LEMMA CreateRunIsPromised ==
    ASSUME Sound, NEW r \in Runs, NEW e, CreateRun(r, e)
    PROVE  Promised!Next
<1>1. PICK j \in Jobs : Enqueue(j) /\ jobRun' = [jobRun EXCEPT ![j] = r]
  BY DEF CreateRun
<1>2. /\ UNCHANGED << worker, stalled >>
      /\ \A s \in Runs : s # r => run'[s] = run[s]
      /\ run'[r].status = "pending" /\ ~run'[r].reviewed
  BY DEF CreateRun, leaseVars, Sound, Inv, TypeOK, NoRun
<1>3. /\ \A s \in Runs : s # r => Same(s)
      /\ PassOver(r)' = PassOver(r)
  BY <1>1, <1>2, JobIsSeen
<1>4. CASE ~Told(r)'
  BY <1>3, <1>4, Drifts
<1>5. CASE Told(r)'
  <2>1. run[r].status = "absent" /\ JobsOf(r) = {}
    BY DEF CreateRun, Sound, Passes, Rows, JobsOf
  <2>2. Told(r) /\ PassOver(r) = "none"
    <3>1. \A w \in Workers : worker[w].at # "idle" => RunOf(w) # r
      BY <2>1, HasARun DEF Sound, RunOf, JobsOf
    <3>2. QED
      BY <2>1, <3>1 DEF Told, Undisturbed, Stalled, PassOver, ThreadIn, Executing, Steps
  <2>3. RunPhase(r) = "absent" /\ RunPhase(r)' = "queued" /\ RunPass(r)' = "none" /\ ~RunWaited(r)'
    BY <1>2, <1>3, <1>5, <2>1, <2>2, Phasing DEF RunPhase, RunPass, RunWaited
  <2>4. Promised!Create(r)
    BY <1>3, <2>3, OneWaits DEF Promised!Create
  <2>5. QED
    BY <2>4 DEF Promised!Next, Promised!RunStep
<1>6. QED
  BY <1>4, <1>5

LEMMA CancelRunIsPromised ==
    ASSUME Sound, NEW r \in Runs, CancelRun(r)
    PROVE  Promised!Next \/ Stutters
<1>1. /\ UNCHANGED << worker, jobRun, stalled >>
      /\ run[r].status \in RunStatus \ TERMINAL_STATUSES
      /\ \A s \in Runs : s # r => run'[s] = run[s]
      /\ run'[r].status = "cancelled" /\ run'[r].reviewed = run[r].reviewed
  BY DEF CancelRun, SetStatus, leaseVars, Sound, Inv, TypeOK, RunRow
<1>2. \A s \in Runs : s # r => Same(s)
  BY <1>1, RowIsSeen
<1>3. CASE ~Told(r)
  BY <1>1, <1>2, <1>3, RowIsSeen, AllSame
<1>4. CASE Told(r)
  <2>1. RunPhase(r) \in {"queued", "running", "waiting"}
    BY <1>1, <1>4, RowIsSeen, Phasing DEF RunStatus, TERMINAL_STATUSES
  <2>2. Moves(r, "cancelled", RunPass(r))
    BY <1>1, <1>4, RowIsSeen, Phasing DEF Moves
  <2>3. Promised!Cancel(r)
    BY <1>2, <2>1, <2>2, OneMoves DEF Promised!Cancel
  <2>4. QED
    BY <2>3 DEF Promised!Next, Promised!RunStep
<1>5. QED
  BY <1>3, <1>4

\* No thread has a run that waits for a reviewer.
LEMMA NoPassWaits ==
    ASSUME Sound, Pace, NEW r \in Runs, Told(r), run[r].status = "needs_review"
    PROVE  PassOver(r) = "none"
<1>1. ASSUME NEW w \in Workers, RunOf(w) = r PROVE worker[w].at \notin Executing \cup {"begin"}
  <2>1. worker[w].at \notin Executing
    BY <1>1 DEF Pace, InPace, StatusOf
  <2>2. worker[w].at # "begin"
    BY <1>1 DEF Told, Sound, Passes, Begins, BeginsIt, Calm, InPlace, Fits, StatusOf
  <2>3. QED
    BY <2>1, <2>2
<1>2. QED
  BY <1>1 DEF PassOver, ThreadIn

LEMMA ResolveIsPromised ==
    ASSUME Sound, Pace, NEW r \in Runs, NEW accept \in BOOLEAN, Resolve(r, accept)
    PROVE  Promised!Next \/ Stutters
<1>1. /\ UNCHANGED << worker, stalled >>
      /\ \A s \in Runs : s # r => run'[s] = run[s]
      /\ run'[r].reviewed = run[r].reviewed
      /\ run'[r].status = IF ~WaitsForReview(r) THEN run[r].status
                          ELSE IF accept THEN "pending" ELSE "succeeded"
  BY DEF Resolve, leaseVars, Sound, Inv, TypeOK, RunRow
<1>2. CASE ~WaitsForReview(r)
  <2>1. UNCHANGED jobRun /\ run'[r].status = run[r].status
    BY <1>1, <1>2 DEF Resolve, Requeue
  <2>2. QED
    BY <1>1, <2>1, RowIsSeen, AllSame
<1>3. ASSUME WaitsForReview(r), \A s \in Runs : s # r => Same(s), Told(r), Told(r)',
             PassOver(r)' = PassOver(r)
      PROVE  Promised!Next
  <2>1. RunPhase(r) = "waiting" /\ PassOver(r) = "none"
    BY <1>3, NoPassWaits, Phasing DEF RunPhase, WaitsForReview
  <2>2. PICK next \in {"queued", "succeeded"} : Moves(r, next, "none")
    BY <1>1, <1>3, <2>1, Phasing DEF Moves, RunPhase, RunPass, RunWaited
  <2>3. Promised!Decide(r)
    BY <1>3, <2>1, <2>2, OneMoves DEF Promised!Decide
  <2>4. QED
    BY <2>3 DEF Promised!Next, Promised!RunStep
<1>4. CASE WaitsForReview(r) /\ accept
  <2>1. PICK j \in Jobs : Enqueue(j) /\ jobRun' = [jobRun EXCEPT ![j] = r]
    BY <1>4 DEF Resolve, Requeue
  <2>2. /\ \A s \in Runs : s # r => Same(s)
        /\ Told(r)' => Told(r)
        /\ PassOver(r)' = PassOver(r)
    BY <1>1, <2>1, JobIsSeen
  <2>3. QED
    BY <1>3, <1>4, <2>2, Drifts
<1>5. CASE WaitsForReview(r) /\ ~accept
  <2>1. UNCHANGED << worker, jobRun, stalled >>
    BY <1>1, <1>5 DEF Resolve, Requeue
  <2>2. \A s \in Runs : s # r => Same(s)
    BY <1>1, <2>1, RowIsSeen
  <2>3. ~Told(r) => Same(r)
    BY <2>1, RowIsSeen
  <2>4. (Told(r)' <=> Told(r)) /\ PassOver(r)' = PassOver(r)
    BY <2>1, SameTold DEF PassOver, ThreadIn, RunOf
  <2>5. QED
    BY <1>3, <1>5, <2>2, <2>3, <2>4, AllSame
<1>6. QED
  BY <1>2, <1>4, <1>5

\* The thread of a run dies or crashes.
LEMMA FaultIsPromised ==
    ASSUME Sound, NEW w \in Workers, Die(w) \/ Crash(w)
    PROVE  Promised!Next \/ Stutters
<1>1. /\ worker[w].at # "idle" /\ UNCHANGED << run, jobRun, stalled >>
      /\ \A v \in Workers : v # w => worker'[v] = worker[v]
      /\ worker'[w].at \in {"idle", "crashed", "abandon"}
      /\ worker'[w].job = worker[w].job \/ worker'[w].at = "idle"
  BY IdleIsAThread DEF Die, Crash, Goes, Sound, Inv, TypeOK, Thread
<1>2. ~FaultFree
  BY RunLifecycleAssumption DEF Die, Crash, Fault, FaultFree, Sound, Inv, TypeOK
<1>3. PassAt(worker'[w].at) = "none"
  BY <1>1 DEF PassAt, Executing, Steps
<1>4. CASE worker[w].at = "complete"
  BY <1>1, <1>4, Aside DEF Executing, Steps
<1>5. CASE worker[w].at # "complete"
  <2>1. PICK r \in Runs : r = RunOf(w)
    BY <1>1, HasARun DEF Sound
  <2>2. /\ \A s \in Runs : s # r => Same(s)
        /\ Same(r) \/ Shown(w, r)
    BY <1>1, <1>5, <2>1, OneThreadIsSeen
  <2>3. CASE Same(r)
    BY <2>2, <2>3, AllSame
  <2>4. CASE Shown(w, r)
    <3>1. Moves(r, RunPhase(r), "none")
      BY <1>1, <1>3, <2>4 DEF Shown, Moves
    <3>2. Promised!Lose(r)
      BY <1>2, <2>2, <3>1, OneMoves DEF Promised!Lose
    <3>3. QED
      BY <3>2 DEF Promised!Next, Promised!RunStep
  <2>5. QED
    BY <2>2, <2>3, <2>4
<1>6. QED
  BY <1>4, <1>5

\* A lease runs out, under a thread or not.
LEMMA LapseIsPromised ==
    ASSUME Sound, NEW j \in Jobs, Lapse(j)
    PROVE  Promised!Next \/ Stutters
<1>1. UNCHANGED << run, jobRun, worker >> /\ jobStatus[j] = "claimed"
  BY DEF Lapse
<1>2. CASE UNCHANGED stalled
  BY <1>1, <1>2, NothingIsSeen
<1>3. CASE stalled' = stalled \cup {j}
  <2>1. PICK r \in Runs : r = jobRun[j]
    BY <1>1 DEF Sound, Inv, Links
  <2>2. \A s \in Runs : s # r => (Told(s)' <=> Told(s)) /\ PassOver(s)' = PassOver(s)
    BY <1>1, <1>3, <2>1 DEF Told, Undisturbed, Stalled, JobsOf, PassOver, ThreadIn, RunOf
  <2>3. \A s \in Runs : s # r => Same(s)
    BY <1>1, <2>2 DEF Same, RunPhase, RunPass, RunWaited
  <2>4. CASE UNCHANGED faults
    <3>1. UNCHANGED stalled
      BY <2>4 DEF Lapse, Fault, Sound, Inv, TypeOK
    <3>2. QED
      BY <1>2, <3>1
  <2>5. CASE faults' # faults
    <3>1. ~FaultFree
      BY <2>5, RunLifecycleAssumption DEF Lapse, Fault, FaultFree, Sound, Inv, TypeOK
    <3>2. ~Undisturbed(r)'
      BY <1>1, <1>3, <2>1 DEF Undisturbed, Stalled, JobsOf
    <3>3. ~Told(r)'
      BY <3>1, <3>2 DEF Told, FaultFree
    <3>4. QED
      BY <2>3, <3>3, Drifts
  <2>6. QED
    BY <2>4, <2>5
<1>4. QED
  BY <1>2, <1>3 DEF Lapse

\* The reaper moves runs that no thread is at work on.
LEMMA RepairIsPromised ==
    ASSUME Sound, Inv', Repair
    PROVE  Promised!Next \/ Stutters
<1>0. run \in [Runs -> RunRow] /\ UNCHANGED << worker, jobRun, stalled >>
  BY DEF Sound, Inv, TypeOK, Repair
<1>1. CASE run' = run
  BY <1>0, <1>1, NothingIsSeen
<1>2. CASE run' # run
  <2>1. run' = [r \in Runs |-> [run[r] EXCEPT !.status = Repaired(r)]]
    BY <1>2 DEF Repair
  <2>2. \A r \in Runs : run'[r].status = Repaired(r) /\ run'[r].reviewed = run[r].reviewed
    BY <1>0, <2>1 DEF RunRow
  <2>3. ~FaultFree
    <3>1. SUFFICES ASSUME FaultFree PROVE FALSE
      OBVIOUS
    <3>2. \A r \in Runs : [run[r] EXCEPT !.status = Repaired(r)] = run[r]
      BY <1>0, <3>1, NothingToRepair DEF Sound, RunRow
    <3>3. QED
      BY <1>0, <1>2, <2>1, <3>2
  <2>4. ASSUME NEW r \in Runs, ~Same(r)
        PROVE  /\ RunPass(r) = "none" /\ Moves(r, RunPhase(r)', "none")
               /\ RunPhase(r)' \in Promised!RecoveredTo(RunPhase(r))
    <3>1. Told(r) /\ Repaired(r) # run[r].status
      BY <1>0, <2>2, <2>4, RowIsSeen
    <3>2. PassOver(r) = "none"
      BY <3>1, WorkedOnIsLeft DEF PassOver, ThreadIn, StatusOf, Executing, Steps
    <3>3. \/ run[r].status = "claimed" /\ Repaired(r) = "failed"
          \/ run[r].status = "running" /\ Repaired(r) \in {"failed", "retrying"}
      BY <3>1 DEF Repaired
    <3>4. RunPass(r) = "none" /\ RunPass(r)' = "none" /\ (RunWaited(r)' <=> RunWaited(r))
      BY <1>0, <2>2, <3>1, <3>2, RowIsSeen DEF RunPass
    <3>5. RunPhase(r)' \in Promised!RecoveredTo(RunPhase(r))
      BY <1>0, <2>2, <3>1, <3>3, RowIsSeen, Phasing DEF Promised!RecoveredTo
    <3>6. QED
      BY <3>4, <3>5 DEF Moves
  <2>5. Promised!Recover
    BY <2>3, <2>4, RunsRecover
  <2>6. QED
    BY <2>5 DEF Promised!Next
<1>3. QED
  BY <1>1, <1>2

LEMMA NextIsPromised ==
    ASSUME Sound, Pace, Inv', [Next]_vars
    PROVE  Promised!Next \/ Stutters
<1>1. ASSUME NEW r \in Runs, NEW e \in Employees, CreateRun(r, e)
      PROVE  Promised!Next \/ Stutters
  BY <1>1, CreateRunIsPromised
<1>2. ASSUME NEW r \in Runs, NEW accept \in BOOLEAN, CancelRun(r) \/ Resolve(r, accept)
      PROVE  Promised!Next \/ Stutters
  BY <1>2, CancelRunIsPromised, ResolveIsPromised
<1>3. ASSUME NEW w \in Workers, NEW j \in Jobs, ClaimJob(w, j) PROVE Stutters
  <2>1. /\ UNCHANGED << run, jobRun, stalled >>
        /\ \A v \in Workers : v # w => worker'[v] = worker[v]
        /\ worker[w].at = "idle" /\ worker'[w].at = "handle"
    BY <1>3 DEF ClaimJob, leaseVars, Idle, Sound, Inv, TypeOK
  <2>2. QED
    BY <2>1, Aside DEF Executing, Steps
<1>4. ASSUME NEW w \in Workers, WorkerStep(w) PROVE Promised!Next \/ Stutters
  BY <1>4, WorkerStepIsPromised
<1>5. ASSUME NEW w \in Workers, Heartbeat(w) PROVE Stutters
  BY <1>5, NothingIsSeen DEF Heartbeat
<1>6. ASSUME NEW w \in Workers, Die(w) \/ Crash(w) PROVE Promised!Next \/ Stutters
  BY <1>6, FaultIsPromised
<1>7. ASSUME NEW j \in Jobs, Lapse(j) PROVE Promised!Next \/ Stutters
  BY <1>7, LapseIsPromised
<1>8. CASE Repair
  BY <1>8, RepairIsPromised
<1>9. CASE Reap \/ UNCHANGED vars
  BY <1>9, NothingIsSeen DEF Reap, vars, leaseVars
<1>10. QED
  BY <1>1, <1>2, <1>3, <1>4, <1>5, <1>6, <1>7, <1>8, <1>9 DEF Next

LEMMA InitIsPromised == Init => Promised!Init
<1> SUFFICES ASSUME Init PROVE Promised!Init
  OBVIOUS
<1>1. /\ \A r \in Runs : run[r].status = "absent" /\ ~run[r].reviewed /\ JobsOf(r) = {}
      /\ \A w \in Workers : worker[w].at = "idle"
  BY IdleIsAThread, RunLifecycleAssumption DEF Init, NoRun, JobsOf
<1>2. \A r \in Runs : Told(r) /\ PassOver(r) = "none"
  BY <1>1 DEF Told, Undisturbed, Stalled, PassOver, ThreadIn, Executing, Steps
<1>3. \A r \in Runs : RunPhase(r) = "absent" /\ RunPass(r) = "none" /\ RunWaited(r) = FALSE
  BY <1>1, <1>2, Phasing DEF RunPhase, RunPass, RunWaited
<1>4. QED
  BY <1>3 DEF Promised!Init

\* The life of a run is one RunPromise allows, for every number of runs, jobs and
\* threads and with whatever faults: one pass at a time, one review, one end.
THEOREM RunsKeepTheirPromise == Spec => ImplementsRuns
<1>1. Init => Inv /\ Passes /\ (FaultFree => Calm) /\ Pace
  BY InitInv, InitPasses, InitCalm, InitPace
<1>2. Inv /\ Passes /\ (FaultFree => Calm) /\ Pace /\ [Next]_vars
        => /\ (Inv /\ Passes /\ (FaultFree => Calm) /\ Pace)'
           /\ [Promised!Next]_(Promised!vars)
  <2> SUFFICES ASSUME Sound, Pace, [Next]_vars
               PROVE  /\ Inv' /\ Passes' /\ (FaultFree => Calm)' /\ Pace'
                      /\ [Promised!Next]_(Promised!vars)
    BY DEF Sound
  <2>1. Inv' /\ Passes' /\ Pace'
    BY NextInv, NextPasses, NextPace DEF Sound
  <2>2. (FaultFree => Calm)'
    BY NextCalm DEF Sound, FaultFree
  <2>3. [Promised!Next]_(Promised!vars)
    BY <2>1, NextIsPromised DEF Stutters, Promised!vars
  <2>4. QED
    BY <2>1, <2>2, <2>3
<1>3. QED
  BY <1>1, <1>2, InitIsPromised, PTL DEF Spec, ImplementsRuns, Promised!Spec

-----------------------------------------------------------------------------
(* The log of a run. *)

\* No thread is at the run, or about to be; those that are resume it.
Nobody(r) == PassOver(r) = "none"
Resuming(r) ==
    \A w \in Workers : worker[w].at \in Executing /\ RunOf(w) = r => worker[w].resume

LEMMA NobodyIsThere ==
    ASSUME NEW r
    PROVE  Nobody(r) <=> \A w \in Workers : worker[w].at \in Executing \cup {"begin"} => RunOf(w) # r
BY DEF Nobody, PassOver, ThreadIn

\* The threads of the run and their run stay what they were.
LEMMA ThreadsOfRunStay ==
    ASSUME NEW r, UNCHANGED worker,
           \A w \in Workers : worker[w].at # "idle" => RunOf(w)' = RunOf(w)
    PROVE  (Nobody(r) => Nobody(r)') /\ (Resuming(r) => Resuming(r)')
<1>1. "idle" \notin Executing \cup {"begin"}
  BY DEF Executing, Steps
<1>2. \A w \in Workers : worker[w].at \in Executing \cup {"begin"} => RunOf(w)' = RunOf(w)
  BY <1>1
<1>3. QED
  BY <1>2 DEF Nobody, PassOver, ThreadIn, Resuming

\* One thread moves, and is not at the run afterwards, or is it as one may be.
LEMMA OneThreadOfRunMoves ==
    ASSUME Sound, NEW r, NEW w \in Workers, UNCHANGED jobRun,
           \A v \in Workers : v # w => worker'[v] = worker[v]
    PROVE  /\ Nobody(r) /\ (worker'[w].at \in Executing \cup {"begin"} => RunOf(w)' # r) => Nobody(r)'
           /\ Resuming(r) /\ (worker'[w].at \in Executing /\ RunOf(w)' = r => worker'[w].resume)
                => Resuming(r)'
<1>1. \A v \in Workers : v # w => RunOf(v)' = RunOf(v)
  BY DEF RunOf
<1>2. QED
  BY <1>1 DEF Nobody, PassOver, ThreadIn, Resuming

\* A thread of another run.
LEMMA OtherRunsThread ==
    ASSUME Sound, NEW r \in Runs, NEW w \in Workers, WorkerStep(w), RunOf(w) # r
    PROVE  run'[r] = run[r] /\ (Nobody(r) => Nobody(r)') /\ (Resuming(r) => Resuming(r)')
<1>1. /\ worker[w].at # "idle" /\ UNCHANGED jobRun
      /\ \A v \in Workers : v # w => worker'[v] = worker[v]
      /\ worker'[w].job = worker[w].job \/ worker'[w].at = "idle"
      /\ run'[r] = run[r]
  BY WorkerStepShape
<1>2. "idle" \notin Executing \cup {"begin"}
  BY DEF Executing, Steps
<1>3. worker'[w].at \in Executing \cup {"begin"} => RunOf(w)' # r
  BY <1>1, <1>2 DEF RunOf
<1>4. QED
  BY <1>1, <1>3, OneThreadOfRunMoves

\* A job is added to a run.
LEMMA AddedJobKeepsThreads ==
    ASSUME Sound, NEW r, NEW s, NEW j \in Jobs, Enqueue(j), UNCHANGED worker,
           jobRun' = [jobRun EXCEPT ![j] = s]
    PROVE  (Nobody(r) => Nobody(r)') /\ (Resuming(r) => Resuming(r)')
<1>1. \A w \in Workers : worker[w].at # "idle" => worker[w].job # j /\ worker[w].job \in Jobs
  BY HasARun DEF Sound, Inv, Links, Enqueue, IsNextId
<1>2. \A w \in Workers : worker[w].at # "idle" => RunOf(w)' = RunOf(w)
  BY <1>1 DEF Sound, Inv, TypeOK, RunOf
<1>3. QED
  BY <1>2, ThreadsOfRunStay

\* What the other steps leave alone.
LEMMA UnworkedKeepsThreads ==
    ASSUME Sound, [Next]_vars, NEW r \in Runs, ~\E w \in Workers : WorkerStep(w)
    PROVE  (Nobody(r) => Nobody(r)') /\ (Resuming(r) => Resuming(r)')
<1>0. "idle" \notin Executing \cup {"begin"} /\ worker \in [Workers -> Thread]
  BY DEF Executing, Steps, Sound, Inv, TypeOK
<1>1. ASSUME UNCHANGED << worker, jobRun >>
      PROVE  (Nobody(r) => Nobody(r)') /\ (Resuming(r) => Resuming(r)')
  BY <1>1, ThreadsOfRunStay DEF RunOf
<1>2. ASSUME NEW s \in Runs, NEW e \in Employees, CreateRun(s, e)
      PROVE  (Nobody(r) => Nobody(r)') /\ (Resuming(r) => Resuming(r)')
  BY <1>2, AddedJobKeepsThreads DEF CreateRun
<1>3. ASSUME NEW s \in Runs, NEW accept \in BOOLEAN, Resolve(s, accept)
      PROVE  (Nobody(r) => Nobody(r)') /\ (Resuming(r) => Resuming(r)')
  <2>1. UNCHANGED worker
    BY <1>3 DEF Resolve
  <2>2. UNCHANGED jobRun \/ \E j \in Jobs : Enqueue(j) /\ jobRun' = [jobRun EXCEPT ![j] = s]
    BY <1>3 DEF Resolve, Requeue
  <2>3. QED
    BY <1>1, <2>1, <2>2, AddedJobKeepsThreads
<1>4. ASSUME NEW w \in Workers, NEW j \in Jobs, ClaimJob(w, j)
      PROVE  (Nobody(r) => Nobody(r)') /\ (Resuming(r) => Resuming(r)')
  <2>1. /\ UNCHANGED jobRun /\ worker'[w].at = "handle"
        /\ \A v \in Workers : v # w => worker'[v] = worker[v]
    BY <1>0, <1>4 DEF ClaimJob, Idle
  <2>2. "handle" \notin Executing \cup {"begin"}
    BY DEF Executing, Steps
  <2>3. QED
    BY <2>1, <2>2, OneThreadOfRunMoves
<1>5. ASSUME NEW w \in Workers, Die(w) \/ Crash(w)
      PROVE  (Nobody(r) => Nobody(r)') /\ (Resuming(r) => Resuming(r)')
  <2>1. /\ UNCHANGED jobRun /\ worker'[w].at \in {"idle", "crashed", "abandon"}
        /\ \A v \in Workers : v # w => worker'[v] = worker[v]
    BY <1>0, <1>5, IdleIsAThread DEF Die, Crash, Goes, Thread
  <2>2. worker'[w].at \notin Executing \cup {"begin"}
    BY <2>1 DEF Executing, Steps
  <2>3. QED
    BY <2>1, <2>2, OneThreadOfRunMoves
<1>6. ASSUME NEW s \in Runs, CancelRun(s) PROVE UNCHANGED << worker, jobRun >>
  BY <1>6 DEF CancelRun
<1>7. ASSUME NEW w \in Workers, Heartbeat(w) PROVE UNCHANGED << worker, jobRun >>
  BY <1>7 DEF Heartbeat
<1>8. ASSUME NEW j \in Jobs, Lapse(j) PROVE UNCHANGED << worker, jobRun >>
  BY <1>8 DEF Lapse
<1>9. CASE Reap \/ Repair \/ UNCHANGED vars
  BY <1>1, <1>9 DEF Reap, Repair, vars
<1>10. QED
  BY <1>1, <1>2, <1>3, <1>4, <1>5, <1>6, <1>7, <1>8, <1>9 DEF Next

\* What the other steps make of a run's row.
LEMMA UnworkedRows ==
    ASSUME Sound, [Next]_vars, NEW r \in Runs, ~\E w \in Workers : WorkerStep(w),
           run[r].status # "absent"
    PROVE  /\ run'[r].status # "absent" /\ run'[r].reviewed = run[r].reviewed
           /\ run'[r].status = "needs_review" => run[r].status = "needs_review"
           /\ run[r].status \in TERMINAL_STATUSES => run'[r].status = run[r].status
<1>0. run \in [Runs -> RunRow]
  BY DEF Sound, Inv, TypeOK
<1> DEFINE Goal == /\ run'[r].status # "absent" /\ run'[r].reviewed = run[r].reviewed
                   /\ run'[r].status = "needs_review" => run[r].status = "needs_review"
                   /\ run[r].status \in TERMINAL_STATUSES => run'[r].status = run[r].status
<1>1. ASSUME NEW s \in Runs, NEW e \in Employees, CreateRun(s, e) PROVE Goal
  BY <1>0, <1>1 DEF CreateRun
<1>2. ASSUME NEW s \in Runs, CancelRun(s) PROVE Goal
  BY <1>0, <1>2 DEF CancelRun, SetStatus, RunRow
<1>3. ASSUME NEW s \in Runs, NEW accept \in BOOLEAN, Resolve(s, accept) PROVE Goal
  <2>1. /\ run'[r].reviewed = run[r].reviewed
        /\ run'[r].status = IF r = s /\ WaitsForReview(s)
                            THEN IF accept THEN "pending" ELSE "succeeded" ELSE run[r].status
    BY <1>0, <1>3 DEF Resolve, RunRow
  <2>2. QED
    BY <2>1 DEF WaitsForReview, TERMINAL_STATUSES
<1>4. CASE Repair
  <2>1. run' = run \/ (run'[r].status = Repaired(r) /\ run'[r].reviewed = run[r].reviewed)
    BY <1>0, <1>4 DEF Repair, RunRow
  <2>2. QED
    BY <2>1 DEF Repaired, TERMINAL_STATUSES
<1>5. CASE UNCHANGED run
  BY <1>5
<1>6. QED
  BY <1>1, <1>2, <1>3, <1>4, <1>5 DEF Next, ClaimJob, Heartbeat, Die, Crash, Lapse, Reap, vars
\* A run that is over, or waits, and that no thread is at: its own threads leave it
\* alone, but for one that crashed and fails a run that waits.
LEMMA OverIsLeft ==
    ASSUME Sound, NEW r \in Runs, NEW w \in Workers, WorkerStep(w), RunOf(w) = r, Nobody(r),
           run[r].status \in TERMINAL_STATUSES \cup {"needs_review"}
    PROVE  /\ Nobody(r)' /\ run'[r].reviewed = run[r].reviewed
           /\ \/ run'[r].status = run[r].status
              \/ run[r].status = "needs_review" /\ run'[r].status = "failed"
<1>0. /\ run \in [Runs -> RunRow] /\ worker \in [Workers -> Thread]
      /\ UNCHANGED jobRun /\ \A v \in Workers : v # w => worker'[v] = worker[v]
  BY WorkerStepShape DEF Sound, Inv, TypeOK
<1>1. worker[w].at \notin Executing \cup {"begin"}
  BY NobodyIsThere
<1>2. StatusOf(w) = run[r].status /\ ~CanTransition(StatusOf(w), "claimed")
  BY DEF StatusOf, CanTransition, TRANSITIONS, TERMINAL_STATUSES
<1>3. \/ UNCHANGED run
      \/ run[r].status = "needs_review" /\ run' = [run EXCEPT ![r].status = "failed"]
  <2>1. CASE Handle(w)
    BY <1>2, <2>1 DEF Handle, TERMINAL_STATUSES
  <2>2. CASE GiveUp(w)
    BY <1>2, <2>2 DEF GiveUp, CrashUnless, SetStatus, CanTransition, TRANSITIONS, TERMINAL_STATUSES
  <2>3. CASE FailPermanently(w)
    BY <1>2, <2>3 DEF FailPermanently, CanTransition, TRANSITIONS, TERMINAL_STATUSES
  <2>4. CASE ReportComplete(w) \/ ReportFail(w)
    BY <2>4 DEF ReportComplete, ReportFail
  <2>5. QED
    BY <1>1, <2>1, <2>2, <2>3, <2>4
       DEF WorkerStep, Begin, Step, StopCancelled, StepFails, TransientFailure,
           PermanentFailure, Finish, Executing
<1>4. worker'[w].at \in {"idle", "complete", "fail", "crashed", "abandon"}
  <2>1. CASE Handle(w)
    BY <1>0, <1>2, <2>1 DEF Handle, Goes, Thread, TERMINAL_STATUSES
  <2>2. CASE GiveUp(w)
    BY <1>0, <2>2 DEF GiveUp, CrashUnless, Goes, Thread
  <2>3. CASE FailPermanently(w)
    BY <1>0, <2>3 DEF FailPermanently, Goes, Thread
  <2>4. CASE ReportComplete(w) \/ ReportFail(w)
    BY <1>0, <2>4, IdleIsAThread DEF ReportComplete, ReportFail
  <2>5. QED
    BY <1>1, <2>1, <2>2, <2>3, <2>4
       DEF WorkerStep, Begin, Step, StopCancelled, StepFails, TransientFailure,
           PermanentFailure, Finish, Executing
<1>5. worker'[w].at \notin Executing \cup {"begin"}
  BY <1>4 DEF Executing, Steps
<1>6. Nobody(r)'
  BY <1>0, <1>5, OneThreadOfRunMoves
<1>7. QED
  BY <1>0, <1>3, <1>6 DEF RunRow

\* A run that went on after its review, and that only threads execute that resume it,
\* does not wait again.
LEMMA ResumersStay ==
    ASSUME Sound, NEW r \in Runs, NEW w \in Workers, WorkerStep(w), RunOf(w) = r, Resuming(r),
           run[r].reviewed, run[r].status \notin {"needs_review", "absent"}
    PROVE  /\ Resuming(r)' /\ run'[r].reviewed
           /\ run'[r].status \notin {"needs_review", "absent"}
<1>0. /\ run \in [Runs -> RunRow] /\ worker \in [Workers -> Thread]
      /\ UNCHANGED jobRun /\ \A v \in Workers : v # w => worker'[v] = worker[v]
      /\ run[r] \in RunRow /\ worker[w] \in Thread
  BY WorkerStepShape DEF Sound, Inv, TypeOK
<1>1. /\ run'[r].reviewed /\ run'[r].status \notin {"needs_review", "absent"}
  <2>1. ASSUME NEW status \in RunStatus \ {"needs_review"}, SetStatus(r, status)
        PROVE  run'[r].reviewed /\ run'[r].status \notin {"needs_review", "absent"}
    BY <1>0, <2>1 DEF SetStatus, RunRow, RunStatus
  <2>2. CASE UNCHANGED run
    BY <2>2
  <2>3. CASE Handle(w) \/ Begin(w)
    BY <2>1, <2>2, <2>3 DEF Handle, Begin, Running, SetStatus, RunStatus
  <2>4. CASE Step(w)
    <3>1. PICK status : run' = [run EXCEPT ![r].invoice = status]
      BY <2>4 DEF Step
    <3>2. QED
      BY <1>0, <3>1 DEF RunRow
  <2>5. CASE TransientFailure(w) \/ GiveUp(w) \/ PermanentFailure(w) \/ FailPermanently(w)
    BY <2>1, <2>2, <2>5
       DEF TransientFailure, GiveUp, PermanentFailure, CrashUnless, FailPermanently, SetStatus,
           RunStatus
  <2>6. CASE Finish(w)
    <3>1. worker[w].resume
      BY <2>6 DEF Finish, Resuming, Executing
    <3>2. UNCHANGED run \/ run' = [run EXCEPT ![r].status = "succeeded",
                                              ![r].reviewed = run[r].reviewed \/ FALSE]
      BY <2>6, <3>1 DEF Finish
    <3>3. QED
      BY <1>0, <2>2, <3>2 DEF RunRow
  <2>7. CASE StopCancelled(w) \/ StepFails(w) \/ ReportComplete(w) \/ ReportFail(w)
    BY <2>2, <2>7 DEF StopCancelled, StepFails, ReportComplete, ReportFail
  <2>8. QED
    BY <2>3, <2>4, <2>5, <2>6, <2>7 DEF WorkerStep
<1>2. worker'[w].at \in Executing => worker'[w].resume
  <2>1. CASE worker[w].at \in Executing /\ (Step(w) \/ \E place : Goes(w, place))
    <3>1. worker[w].resume
      BY <2>1 DEF Resuming
    <3>2. ASSUME NEW place, Goes(w, place) PROVE worker'[w].resume = worker[w].resume
      BY <1>0, <3>2 DEF Goes, Thread
    <3>3. ASSUME Step(w) PROVE worker'[w].resume = worker[w].resume
      <4>1. PICK doubt : worker' = [worker EXCEPT ![w] = [@ EXCEPT !.at = After(w), !.review = doubt,
                            !.seen = IF doubt THEN "needs_review" ELSE "ok"]]
        BY <3>3 DEF Step
      <4>2. QED
        BY <1>0, <4>1 DEF Thread
    <3>4. QED
      BY <2>1, <3>1, <3>2, <3>3
  <2>2. CASE Running(w)
    BY <1>0, <2>2 DEF Running, Thread
  <2>3. CASE \E place \in {"begin", "complete", "fail", "crashed", "abandon"} : Goes(w, place)
    BY <1>0, <2>3 DEF Goes, Thread, Executing, Steps
  <2>4. CASE worker' = [worker EXCEPT ![w] = Idle]
    BY <1>0, <2>4, IdleIsAThread DEF Executing, Steps
  <2>5. QED
    BY <2>1, <2>2, <2>3, <2>4
       DEF WorkerStep, Handle, Begin, Step, StopCancelled, StepFails, TransientFailure, GiveUp,
           CrashUnless, PermanentFailure, Finish, FailPermanently, ReportComplete, ReportFail,
           Executing
<1>3. Resuming(r)'
  BY <1>0, <1>2, OneThreadOfRunMoves
<1>4. QED
  BY <1>1, <1>3

\* A run of which nothing is told is never told of again.
LEMMA NeverToldAgain ==
    ASSUME Sound, [Next]_vars, NEW r \in Runs, Told(r)'
    PROVE  Told(r)
<1>1. stalled \subseteq stalled' /\ \A j \in Jobs : jobRun[j] = r => jobRun'[j] = r
  <2>1. ASSUME NEW j \in Jobs, NEW s \in Runs, Enqueue(j), jobRun' = [jobRun EXCEPT ![j] = s]
        PROVE  \A i \in Jobs : jobRun[i] = r => jobRun'[i] = r
    BY <2>1, RunLifecycleAssumption DEF Enqueue, IsNextId, Sound, Inv, TypeOK, Passes, Rows
  <2>2. ASSUME NEW s \in Runs, NEW e \in Employees, CreateRun(s, e)
        PROVE  stalled \subseteq stalled' /\ \A j \in Jobs : jobRun[j] = r => jobRun'[j] = r
    BY <2>1, <2>2 DEF CreateRun, leaseVars
  <2>3. ASSUME NEW s \in Runs, NEW accept \in BOOLEAN, Resolve(s, accept)
        PROVE  stalled \subseteq stalled' /\ \A j \in Jobs : jobRun[j] = r => jobRun'[j] = r
    <3>1. Requeue(s, WaitsForReview(s) /\ accept) /\ UNCHANGED stalled
      BY <2>3 DEF Resolve, leaseVars
    <3>2. QED
      BY <2>1, <3>1 DEF Requeue
  <2>4. ASSUME NEW s \in Runs, CancelRun(s) PROVE UNCHANGED << jobRun, stalled >>
    BY <2>4 DEF CancelRun, leaseVars
  <2>5. ASSUME NEW w \in Workers, WorkerStep(w) PROVE UNCHANGED << jobRun, stalled >>
    BY <2>5, WorkerStepShape
  <2>6. ASSUME NEW w \in Workers, NEW j \in Jobs, ClaimJob(w, j) PROVE UNCHANGED << jobRun, stalled >>
    BY <2>6 DEF ClaimJob, leaseVars
  <2>7. ASSUME NEW w \in Workers, Heartbeat(w) \/ Die(w) \/ Crash(w)
        PROVE  UNCHANGED << jobRun, stalled >>
    BY <2>7 DEF Heartbeat, Die, Crash
  <2>8. ASSUME NEW j \in Jobs, Lapse(j) PROVE stalled \subseteq stalled' /\ UNCHANGED jobRun
    BY <2>8 DEF Lapse
  <2>9. CASE Reap \/ Repair \/ UNCHANGED vars
    BY <2>9 DEF Reap, Repair, vars, leaseVars
  <2>10. QED
    BY <2>2, <2>3, <2>4, <2>5, <2>6, <2>7, <2>8, <2>9 DEF Next
<1>2. JobsOf(r) \subseteq JobsOf(r)'
  BY <1>1 DEF JobsOf
<1>3. QED
  BY <1>1, <1>2 DEF Told, Undisturbed, Stalled

\* A run that is told of and is over has a thread only if it was cancelled.
LEMMA EarlyIsCancelled ==
    ASSUME Sound, Pace, NEW r \in Runs, Told(r), ~Nobody(r), ~Active(r)
    PROVE  run[r].status = "cancelled"
<1>1. PICK w \in Workers : worker[w].at \in Executing \cup {"begin"} /\ RunOf(w) = r
  BY NobodyIsThere
<1>2. StatusOf(w) \in {"running", "claimed", "cancelled"}
  <2>1. CASE worker[w].at \in Executing
    BY <1>1, <2>1 DEF Pace, InPace
  <2>2. CASE worker[w].at = "begin"
    BY <1>1, <2>2 DEF Told, Sound, Passes, Begins, BeginsIt, Calm, InPlace, Fits
  <2>3. QED
    BY <1>1, <2>1, <2>2
<1>3. QED
  BY <1>1, <1>2 DEF StatusOf, Active, ACTIVE_STATUSES

-----------------------------------------------------------------------------
(* The stream. *)

\* A run of which the log is done is over or waits, and nobody is at it; or it has gone
\* on after its review and will not wait again; or the exception is on record.
LeftOver ==
    /\ Nobody(Watched) /\ run[Watched].status = stream.end
    /\ run[Watched].status \in TERMINAL_STATUSES \cup {"needs_review"}
    /\ Len(stream.got) = lines
WentOn ==
    /\ stream.end = "needs_review" /\ run[Watched].status \notin {"needs_review", "absent"}
    /\ run[Watched].reviewed /\ Resuming(Watched)
DoneIsOver == stream.at = "done" => LeftOver \/ WentOn \/ ToldTooEarly

\* The server goes on where the browser is, which has no line that is not there.
StreamIsAhead ==
    /\ Len(stream.got) <= lines
    /\ stream.at = "open" => stream.last = Len(stream.got)
    /\ stream.at # "off" => run[Watched].status # "absent"

LogTypes == lines \in Nat /\ stream \in Stream
LogInv == LogTypes /\ ReceivedInOrder /\ StreamIsAhead /\ DoneIsOver

LEMMA StreamParts ==
    ASSUME NEW row \in Stream
    PROVE  /\ row.got \in Seq(Nat) /\ Len(row.got) \in Nat /\ row.last \in Nat
           /\ row.end \in RunStatus \cup {"absent"} /\ row.early \in BOOLEAN
<1>1. /\ row.got \in Seq(Nat) /\ row.last \in Nat
      /\ row.end \in RunStatus \cup {"absent"} /\ row.early \in BOOLEAN
  BY DEF Stream
<1>2. QED
  BY <1>1

\* Once a run waited, nothing brings it back to wait while only such threads execute it
\* that resume it.
LEMMA NeverWaitsAgain ==
    ASSUME Sound, [Next]_vars, NEW r \in Runs, Resuming(r), run[r].reviewed,
           run[r].status \notin {"needs_review", "absent"}
    PROVE  /\ Resuming(r)' /\ run'[r].reviewed
           /\ run'[r].status \notin {"needs_review", "absent"}
<1>1. CASE ~\E w \in Workers : WorkerStep(w)
  BY <1>1, UnworkedKeepsThreads, UnworkedRows
<1>2. ASSUME NEW w \in Workers, WorkerStep(w), RunOf(w) = r
      PROVE  /\ Resuming(r)' /\ run'[r].reviewed
             /\ run'[r].status \notin {"needs_review", "absent"}
  BY <1>2, ResumersStay
<1>3. ASSUME NEW w \in Workers, WorkerStep(w), RunOf(w) # r
      PROVE  /\ Resuming(r)' /\ run'[r].reviewed
             /\ run'[r].status \notin {"needs_review", "absent"}
  BY <1>3, OtherRunsThread
<1>4. QED
  BY <1>1, <1>2, <1>3

\* A run that is over, or waits, and that nobody is at stays so, or goes on after its
\* review.
LEMMA NobodyComes ==
    ASSUME Sound, [Next]_vars, NEW r \in Runs, Nobody(r),
           run[r].status \in TERMINAL_STATUSES \cup {"needs_review"}
    PROVE  /\ Nobody(r)' /\ run'[r].reviewed = run[r].reviewed
           /\ \/ run'[r].status = run[r].status
              \/ /\ run[r].status = "needs_review"
                 /\ run'[r].status \notin {"needs_review", "absent"}
<1>0. run[r].status # "absent"
  BY DEF TERMINAL_STATUSES
<1>1. CASE ~\E w \in Workers : WorkerStep(w)
  BY <1>0, <1>1, UnworkedKeepsThreads, UnworkedRows
<1>2. ASSUME NEW w \in Workers, WorkerStep(w), RunOf(w) = r
      PROVE  /\ Nobody(r)' /\ run'[r].reviewed = run[r].reviewed
             /\ \/ run'[r].status = run[r].status
                \/ run[r].status = "needs_review" /\ run'[r].status = "failed"
  BY <1>2, OverIsLeft
<1>3. ASSUME NEW w \in Workers, WorkerStep(w), RunOf(w) # r
      PROVE  Nobody(r)' /\ run'[r] = run[r]
  BY <1>3, OtherRunsThread
<1>4. QED
  BY <1>1, <1>2, <1>3

\* A run that is there stays.
LEMMA RunsStay ==
    ASSUME Sound, [Next]_vars, NEW r \in Runs, run[r].status # "absent"
    PROVE  run'[r].status # "absent"
<1>0. run \in [Runs -> RunRow]
  BY DEF Sound, Inv, TypeOK
<1>1. CASE ~\E w \in Workers : WorkerStep(w)
  BY <1>1, UnworkedRows
<1>2. ASSUME NEW w \in Workers, WorkerStep(w) PROVE run'[r].status # "absent"
  <2>1. CASE RunOf(w) # r
    BY <1>2, <2>1, OtherRunsThread
  <2>2. ASSUME RunOf(w) = r, NEW status \in RunStatus, SetStatus(r, status)
        PROVE  run'[r].status # "absent"
    BY <1>0, <2>2 DEF SetStatus, RunRow, RunStatus
  <2>3. CASE UNCHANGED run
    BY <2>3
  <2>4. CASE Step(w)
    <3>1. PICK status : run' = [run EXCEPT ![RunOf(w)].invoice = status]
      BY <2>4 DEF Step
    <3>2. QED
      BY <1>0, <3>1 DEF RunRow
  <2>5. CASE Finish(w)
    BY <1>0, <2>5 DEF Finish, RunRow
  <2>6. CASE Handle(w) \/ Begin(w) \/ StopCancelled(w) \/ StepFails(w) \/ TransientFailure(w)
    BY <2>1, <2>2, <2>3, <2>6
       DEF Handle, Begin, Running, StopCancelled, StepFails, TransientFailure, CrashUnless,
           SetStatus, RunStatus
  <2>7. CASE GiveUp(w) \/ PermanentFailure(w) \/ FailPermanently(w)
                \/ ReportComplete(w) \/ ReportFail(w)
    BY <2>1, <2>2, <2>3, <2>7
       DEF GiveUp, PermanentFailure, CrashUnless, FailPermanently, ReportComplete, ReportFail,
           SetStatus, RunStatus
  <2>8. QED
    BY <1>2, <2>4, <2>5, <2>6, <2>7 DEF WorkerStep
<1>3. QED
  BY <1>1, <1>2

\* What a transition writes is a number of lines, and none if there was no transition.
LEMMA LinesOfIsNat ==
    ASSUME NEW before, NEW after
    PROVE  LinesOf(before, after) \in Nat /\ (after = before => LinesOf(before, after) = 0)
BY DEF LinesOf

LEMMA RunMovesKeeps == ASSUME Sound, LogInv, RunMoves PROVE LogInv'
<1> DEFINE n == LinesOf(run[Watched].status, run'[Watched].status)
<1>0. Watched \in Runs /\ [Next]_vars
  BY LogStreamAssumption DEF RunMoves
<1>1. /\ n \in Nat /\ (run'[Watched].status = run[Watched].status => n = 0)
      /\ lines' = lines + n /\ stream' = stream
  BY LinesOfIsNat DEF RunMoves
<1> HIDE DEF n
<1>2. lines \in Nat /\ stream \in Stream /\ Len(stream.got) \in Nat
  BY StreamParts DEF LogInv, LogTypes
<1>3. LogTypes' /\ ReceivedInOrder'
  BY <1>1, <1>2 DEF LogInv, LogTypes, ReceivedInOrder
<1>4. StreamIsAhead'
  <2>1. stream.at # "off" => run'[Watched].status # "absent"
    BY <1>0, RunsStay DEF LogInv, StreamIsAhead
  <2>2. QED
    BY <1>1, <1>2, <2>1 DEF LogInv, StreamIsAhead
<1>5. ASSUME LeftOver PROVE LeftOver' \/ WentOn'
  <2>1. /\ Nobody(Watched)' /\ run'[Watched].reviewed = run[Watched].reviewed
        /\ \/ run'[Watched].status = run[Watched].status
           \/ /\ run[Watched].status = "needs_review"
              /\ run'[Watched].status \notin {"needs_review", "absent"}
    BY <1>0, <1>5, NobodyComes DEF LeftOver
  <2>2. CASE run'[Watched].status = run[Watched].status
    BY <1>1, <1>2, <1>5, <2>1, <2>2 DEF LeftOver
  <2>3. CASE /\ run[Watched].status = "needs_review"
             /\ run'[Watched].status \notin {"needs_review", "absent"}
    <3>1. run[Watched].reviewed
      BY <1>0, <2>3 DEF Sound, Passes, Reviews
    <3>2. Resuming(Watched)'
      BY <2>1 DEF Nobody, PassOver, ThreadIn, Resuming
    <3>3. QED
      BY <1>1, <1>5, <2>1, <2>3, <3>1, <3>2 DEF LeftOver, WentOn
  <2>4. QED
    BY <2>1, <2>2, <2>3
<1>6. ASSUME WentOn PROVE WentOn'
  BY <1>0, <1>1, <1>6, NeverWaitsAgain DEF WentOn
<1>7. ASSUME ToldTooEarly PROVE ToldTooEarly'
  BY <1>0, <1>1, <1>7, NeverToldAgain DEF ToldTooEarly
<1>8. DoneIsOver'
  BY <1>1, <1>5, <1>6, <1>7 DEF LogInv, DoneIsOver
<1>9. QED
  BY <1>3, <1>4, <1>8 DEF LogInv

\* The runs, their jobs and their threads are where they were.
LEMMA RunsAreLeft ==
    ASSUME UNCHANGED vars
    PROVE  /\ Nobody(Watched)' <=> Nobody(Watched)
           /\ Resuming(Watched)' <=> Resuming(Watched)
           /\ Told(Watched)' <=> Told(Watched)
           /\ run' = run
BY SameTold DEF vars, leaseVars, Nobody, PassOver, ThreadIn, Resuming, RunOf

LEMMA SaysKeeps == ASSUME Sound, LogInv, NEW w \in Workers, Says(w) PROVE LogInv'
<1>1. lines \in Nat /\ lines' = lines + 1 /\ stream' = stream /\ UNCHANGED vars
  BY DEF LogInv, LogTypes, Says
<1>2. Len(stream.got) \in Nat
  BY StreamParts DEF LogInv, LogTypes
<1>3. ~LeftOver
  BY NobodyIsThere DEF LeftOver, Says
<1>4. DoneIsOver'
  BY <1>1, <1>3, RunsAreLeft DEF LogInv, DoneIsOver, WentOn, ToldTooEarly
<1>5. StreamIsAhead'
  BY <1>1, <1>2, RunsAreLeft DEF LogInv, StreamIsAhead
<1>6. QED
  BY <1>1, <1>4, <1>5 DEF LogInv, LogTypes, ReceivedInOrder

\* The next lines continue what was sent.
LEMMA LinesAfterParts ==
    ASSUME LogTypes, NEW n \in Nat, n <= lines
    PROVE  /\ LinesAfter(n) \in Seq(Nat)
           /\ n + Len(LinesAfter(n)) <= lines
           /\ \A i \in 1 .. Len(LinesAfter(n)) : LinesAfter(n)[i] = n + i
           /\ LinesAfter(n) = << >> => n = lines
<1> DEFINE k == IF lines - n < Limit THEN lines - n ELSE Limit
<1>0. Limit \in Nat /\ Limit # 0 /\ lines \in Nat /\ lines - n \in Nat
  BY LogStreamAssumption DEF LogTypes
<1>1. k \in Nat /\ k <= lines - n /\ (k = 0 => n = lines)
  BY <1>0
<1>2. LinesAfter(n) = [i \in 1 .. k |-> n + i]
  BY DEF LinesAfter
<1> HIDE DEF k
<1>3. LinesAfter(n) \in Seq(Nat) /\ Len(LinesAfter(n)) = k
  BY <1>1, <1>2
<1>4. \A i \in 1 .. k : LinesAfter(n)[i] = n + i
  BY <1>2
<1>5. QED
  BY <1>0, <1>1, <1>3, <1>4

LEMMA InOrder ==
    ASSUME NEW got \in Seq(Nat), \A i \in DOMAIN got : got[i] = i,
           NEW more \in Seq(Nat), \A i \in 1 .. Len(more) : more[i] = Len(got) + i
    PROVE  /\ got \o more \in Seq(Nat) /\ Len(got \o more) = Len(got) + Len(more)
           /\ \A i \in DOMAIN (got \o more) : (got \o more)[i] = i
<1>1. /\ got \o more \in Seq(Nat) /\ Len(got \o more) = Len(got) + Len(more)
      /\ DOMAIN (got \o more) = 1 .. Len(got) + Len(more)
  OBVIOUS
<1>2. ASSUME NEW i \in 1 .. Len(got) + Len(more) PROVE (got \o more)[i] = i
  <2>1. CASE i <= Len(got)
    BY <2>1
  <2>2. CASE i > Len(got)
    <3>1. i - Len(got) \in 1 .. Len(more)
      BY <2>2
    <3>2. QED
      BY <2>2, <3>1
  <2>3. QED
    BY <2>1, <2>2
<1>3. QED
  BY <1>1, <1>2

\* Only the stream has changed, and it is as it should be.
LEMMA StreamChanges ==
    ASSUME LogInv, NEW row \in Stream, Watching(row),
           \A i \in DOMAIN row.got : row.got[i] = i,
           Len(row.got) <= lines, row.at = "open" => row.last = Len(row.got),
           row.at # "off" => run[Watched].status # "absent",
           row.at = "done" => DoneIsOver'
    PROVE  LogInv'
<1>1. UNCHANGED vars /\ stream' = row /\ lines' = lines
  BY DEF Watching
<1>2. DoneIsOver'
  BY <1>1 DEF DoneIsOver
<1>3. QED
  BY <1>1, <1>2, RunsAreLeft DEF LogInv, LogTypes, ReceivedInOrder, StreamIsAhead

LEMMA ConnectKeeps == ASSUME LogInv, Connect PROVE LogInv'
<1> DEFINE row == [stream EXCEPT !.at = "open", !.last = LastEventId(stream.got)]
<1>1. /\ stream \in Stream /\ stream.got \in Seq(Nat) /\ Len(stream.got) \in Nat
      /\ Len(stream.got) <= lines
      /\ \A i \in DOMAIN stream.got : stream.got[i] = i
  BY StreamParts DEF LogInv, LogTypes, StreamIsAhead, ReceivedInOrder
<1>2. LastEventId(stream.got) = Len(stream.got)
  BY <1>1 DEF LastEventId
<1>3. /\ row \in Stream /\ row.at = "open" /\ row.last = Len(stream.got)
      /\ row.got = stream.got
  BY <1>1, <1>2 DEF Stream
<1>4. Watching(row) /\ run[Watched].status # "absent"
  BY DEF Connect
<1> HIDE DEF row
<1>5. QED
  BY <1>1, <1>3, <1>4, StreamChanges

LEMMA PollKeeps == ASSUME Sound, Pace, LogInv, Poll PROVE LogInv'
<1> DEFINE batch == LinesAfter(stream.last)
           row == [at |-> IF NoMore(batch) THEN "done" ELSE "open",
                   last |-> stream.last + Len(batch), got |-> stream.got \o batch,
                   end |-> run[Watched].status, early |-> PassOver(Watched) # "none"]
<1>1. /\ LogTypes /\ stream.got \in Seq(Nat) /\ Len(stream.got) \in Nat
      /\ stream.last = Len(stream.got) /\ stream.last <= lines /\ stream.last \in Nat
      /\ \A i \in DOMAIN stream.got : stream.got[i] = i
      /\ lines \in Nat /\ run[Watched].status # "absent"
  BY StreamParts DEF Poll, LogInv, LogTypes, StreamIsAhead, ReceivedInOrder
<1>2. /\ batch \in Seq(Nat) /\ stream.last + Len(batch) <= lines
      /\ \A i \in 1 .. Len(batch) : batch[i] = Len(stream.got) + i
      /\ batch = << >> => stream.last = lines
  BY <1>1, LinesAfterParts
<1>3. Watching(row)
  BY DEF Poll
<1> HIDE DEF batch
<1>4. /\ stream.got \o batch \in Seq(Nat)
      /\ Len(stream.got \o batch) = Len(stream.got) + Len(batch)
      /\ \A i \in DOMAIN (stream.got \o batch) : (stream.got \o batch)[i] = i
  BY <1>1, <1>2, InOrder
<1>5. run[Watched].status \in RunStatus
  BY <1>1, LogStreamAssumption DEF Sound, Inv, TypeOK, RunRow
<1>6. /\ row \in Stream /\ row.got = stream.got \o batch
      /\ row.last = stream.last + Len(batch)
      /\ row.end = run[Watched].status /\ (row.early <=> ~Nobody(Watched))
      /\ row.at = "done" <=> NoMore(batch)
  <2>1. row.at \in {"open", "done"} /\ row.last \in Nat /\ row.early \in BOOLEAN
    BY <1>1, <1>2
  <2>2. row.got \in Seq(Nat) /\ row.end \in RunStatus
    BY <1>4, <1>5
  <2>3. row \in Stream
    BY <2>1, <2>2 DEF Stream
  <2>4. QED
    BY <2>3 DEF Nobody
<1> HIDE DEF row
<1>7. ASSUME row.at = "done" PROVE DoneIsOver'
  <2>1. /\ Len(row.got) = lines /\ ~Active(Watched)
    BY <1>1, <1>2, <1>4, <1>6, <1>7 DEF NoMore
  <2>2. run[Watched].status \in TERMINAL_STATUSES \cup {"needs_review"}
    BY <1>5, <2>1 DEF Active, ACTIVE_STATUSES, TERMINAL_STATUSES, RunStatus
  <2>3. UNCHANGED vars /\ stream' = row /\ lines' = lines
    BY <1>3 DEF Watching
  <2>4. CASE Nobody(Watched)
    BY <1>6, <2>1, <2>2, <2>3, <2>4, RunsAreLeft DEF DoneIsOver, LeftOver
  <2>5. CASE ~Nobody(Watched)
    <3>1. row.end = "cancelled" \/ ~Told(Watched)
      BY <1>6, <2>1, <2>5, EarlyIsCancelled, LogStreamAssumption
    <3>2. QED
      BY <1>6, <2>3, <2>5, <3>1, RunsAreLeft DEF DoneIsOver, ToldTooEarly
  <2>6. QED
    BY <2>4, <2>5
<1>8. Len(row.got) <= lines /\ row.last = Len(row.got)
  BY <1>1, <1>2, <1>4, <1>6
<1>9. \A i \in DOMAIN row.got : row.got[i] = i
  BY <1>4, <1>6
<1>10. QED
  BY <1>1, <1>3, <1>6, <1>7, <1>8, <1>9, StreamChanges

LEMMA LoseKeeps == ASSUME LogInv, Lose PROVE LogInv'
<1> DEFINE batch == LinesAfter(stream.last)
<1>1. /\ LogTypes /\ stream \in Stream /\ stream.got \in Seq(Nat) /\ Len(stream.got) \in Nat
      /\ stream.last = Len(stream.got) /\ stream.last <= lines /\ stream.last \in Nat
      /\ \A i \in DOMAIN stream.got : stream.got[i] = i
      /\ lines \in Nat /\ run[Watched].status # "absent"
  BY StreamParts DEF Lose, LogInv, LogTypes, StreamIsAhead, ReceivedInOrder
<1>2. /\ batch \in Seq(Nat) /\ stream.last + Len(batch) <= lines
      /\ \A i \in 1 .. Len(batch) : batch[i] = Len(stream.got) + i
  BY <1>1, LinesAfterParts
<1>3. PICK n \in 0 .. Len(batch) :
          Watching([stream EXCEPT !.at = "lost", !.got = stream.got \o SubSeq(batch, 1, n)])
  BY DEF Lose
<1> HIDE DEF batch
<1> DEFINE more == SubSeq(batch, 1, n)
           row == [stream EXCEPT !.at = "lost", !.got = stream.got \o more]
<1>4. more \in Seq(Nat) /\ Len(more) = n /\ \A i \in 1 .. n : more[i] = batch[i]
  BY <1>2, <1>3
<1>5. Watching(row)
  BY <1>3
<1> HIDE DEF more
<1>6. n \in Nat /\ \A i \in 1 .. n : i \in 1 .. Len(batch)
  BY <1>2, <1>3
<1>7. \A i \in 1 .. Len(more) : more[i] = Len(stream.got) + i
  BY <1>2, <1>4, <1>6
<1>8. /\ stream.got \o more \in Seq(Nat)
      /\ Len(stream.got \o more) = Len(stream.got) + Len(more)
      /\ \A i \in DOMAIN (stream.got \o more) : (stream.got \o more)[i] = i
  BY <1>1, <1>4, <1>7, InOrder
<1>9. /\ row \in Stream /\ row.got = stream.got \o more /\ row.at = "lost"
  BY <1>1, <1>8 DEF Stream
<1> HIDE DEF row
<1>10. Len(row.got) <= lines
  BY <1>1, <1>2, <1>3, <1>4, <1>6, <1>8, <1>9
<1>11. QED
  BY <1>1, <1>5, <1>8, <1>9, <1>10, StreamChanges

LEMMA NoStreamParts ==
    NoStream \in Stream /\ NoStream.at = "off" /\ NoStream.got = << >>
BY DEF NoStream, Stream

LEMMA LogNextKeeps == Sound /\ Pace /\ LogInv /\ [LogNext]_logVars => LogInv'
<1> SUFFICES ASSUME Sound, Pace, LogInv, [LogNext]_logVars PROVE LogInv'
  OBVIOUS
<1>1. CASE RunMoves
  BY <1>1, RunMovesKeeps
<1>2. ASSUME NEW w \in Workers, Says(w) PROVE LogInv'
  BY <1>2, SaysKeeps
<1>3. CASE Connect \/ Poll \/ Lose
  BY <1>3, ConnectKeeps, PollKeeps, LoseKeeps
<1>4. CASE Reload
  <2>1. Watching(NoStream) /\ lines \in Nat
    BY <1>4 DEF Reload, LogInv, LogTypes
  <2>2. QED
    BY <2>1, NoStreamParts, StreamChanges
<1>5. CASE UNCHANGED logVars
  <2>1. UNCHANGED << vars, lines, stream >>
    BY <1>5 DEF logVars
  <2>2. QED
    BY <2>1, RunsAreLeft DEF LogInv, LogTypes, ReceivedInOrder, StreamIsAhead, DoneIsOver,
                             LeftOver, WentOn, ToldTooEarly
<1>6. QED
  BY <1>1, <1>2, <1>3, <1>4, <1>5 DEF LogNext

LEMMA InitLog == LogInit => LogInv
<1> SUFFICES ASSUME LogInit PROVE LogInv
  OBVIOUS
<1>1. lines = 0 /\ stream \in Stream /\ stream.at = "off" /\ stream.got = << >>
  BY NoStreamParts DEF LogInit
<1>2. QED
  BY <1>1 DEF LogInv, LogTypes, ReceivedInOrder, StreamIsAhead, DoneIsOver

LEMMA LogIsDelivered == LogInv => LogArrives
BY DEF LogInv, DoneIsOver, LogArrives, DoneIsComplete, LeftOver, WentOn, GoneOn

\* However connections are lost and made again, with whatever faults of the threads that
\* write it: the browser gets the lines of the log in order, each once, and all of them
\* when it is told that the log is done, but for a run that goes on after its review and
\* a thread that was still at a run when it was cancelled or, past its lease or beside
\* another job of the run, ended.
THEOREM LogAlwaysArrives == LogSpec => []LogArrives
<1> DEFINE All == Inv /\ Passes /\ (FaultFree => Calm) /\ Pace /\ LogInv
<1>1. LogInit => All
  BY InitInv, InitPasses, InitCalm, InitPace, InitLog DEF LogInit
<1>2. All /\ [LogNext]_logVars => All'
  <2> SUFFICES ASSUME Sound, Pace, LogInv, [LogNext]_logVars PROVE All'
    BY DEF Sound
  <2>1. [Next]_vars
    BY DEF LogNext, RunMoves, Says, Connect, Poll, Lose, Reload, Watching, logVars
  <2>2. Inv' /\ Passes' /\ Pace'
    BY <2>1, NextInv, NextPasses, NextPace DEF Sound
  <2>3. (FaultFree => Calm)'
    BY <2>1, NextCalm DEF Sound, FaultFree
  <2>4. QED
    BY <2>2, <2>3, LogNextKeeps
<1>3. All => LogArrives
  BY LogIsDelivered
<1>4. QED
  BY <1>1, <1>2, <1>3, PTL DEF LogSpec
=============================================================================
