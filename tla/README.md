# Verification of sme-ai-workforce

A small company describes an "AI employee" in words; the system compiles the
description into a workflow of document-processing steps and runs it on a schedule,
by hand, or when files arrive. Invoices that fail the quality rules wait for a person.
Everything lives in one SQLite database shared by an API process and a worker process
with several threads. The specifications here model that program: the job queue, the
life of a run, what a run does with the invoices, the versions and schedules of an
employee, the compilation of a description with an unreliable model, accounts and
refresh tokens, files and log lines a run leaves behind, and the tables and rules the tools
work with. TLC checks them on small instances, TLAPS proves the main invariants for all.

Paths below are relative to `src/backend/app/` unless they start with `src/`.

## 1. Inventory

### Components, their state and operations

| component | code | state | operations that change state |
|---|---|---|---|
| Job queue | `adapters/queue_sqlite.py`, table `job_queue` | status, priority, attempts, run_after, lease_until, claimed_by of each job | enqueue, claim, complete, extend_lease, fail, reap_expired |
| Run state machine | `domain/state.py` | column `status` of `runs` | transition |
| Run service | `services/run_service.py` | rows of `runs`, `run_steps`, `run_logs` | create_run, cancel_run |
| Worker | `workers/worker.py` | threads, a heartbeat thread per job | process_one, _handle, _heartbeat, _fail_permanently |
| Execution | `services/execution_service.py` | memory of a pass (`state`, `outcome`), status of steps | execute, _run_step, _finish |
| Reaper | `workers/reaper.py` | none | reap |
| Review | `services/review_service.py` | documents, `human_reviews` | resolve, _maybe_resume_run |
| Scheduler | `workers/scheduler.py` | APScheduler's jobs in memory | sync_schedules, watch_folders, create_scheduled_run |
| Workflow service | `services/workflow_service.py` | versions, steps, edges, `schedules.enabled` | save_new_version, approve, sync_schedule_enabled |
| Employee service | `services/employee_service.py` | status and current version of an employee | create, update, archive |
| Validators | `domain/validators.py` | none | V-1 .. V-5 on a specification |
| Tools | `tools/*.py` | documents, extractions, workbooks | list_new_files, extract_invoice, validate_invoice, append_rows, escalate, others |
| Document service | `services/document_service.py` | documents, extractions, artifacts | ingest, extract_document, ensure_artifact |
| Quality rules | `domain/qc_rules.py`, `services/qc_service.py` | `qc_results` | evaluate |
| Compiler | `domain/compiler.py`, `services/compiler_service.py` | `llm_calls` | compile |
| Model adapter | `adapters/llm_openai_compatible.py` | failure count and opening time of the breaker | complete |
| Storage | `adapters/storage_local.py` | files named by content | save, delete |
| Accounts | `services/auth_service.py`, `core/security.py` | users, refresh tokens | login, rotate, revoke, update_user |
| Log stream | `api/v1/runs.py` | position of each client | stream_logs |
| Reports, metrics, settings | `services/{report,metrics,settings}_service.py` | a table of settings | queries, one update |
| Frontend | `src/frontend` | tokens in memory, query cache | calls of the API |

### How they interact

- `POST /runs`, cron and folder watch call `create_run`, which puts the run and its
  job into the database in one commit. A worker thread claims a job in a transaction of
  its own, moves the run to CLAIMED in a second, executes it in many, and reports to
  the queue in a last one. Between any two of them other processes may write.
- The heartbeat thread extends the lease while `_handle` runs; the reaper gives a job whose
  lease ran out back to the queue, and in another transaction repairs the runs.
- The check step of a run leaves documents in `needs_review`; a reviewer, through
  `POST /reviews` or `PATCH /documents`, decides; the last decision about a run that is
  NEEDS_REVIEW puts it back into the queue with a new job, and `execute` then runs
  the pass branch only.
- The scheduler reads `schedules.enabled`, which approving, pausing and archiving write,
  and acts on it later.
- Compilations, uploads and readings call one model server through one adapter, whose
  breaker all threads of a process share.
- Uploads, exports and the steps of runs put files into one store, outside of any
  transaction, and list them in `artifacts`; the browser follows a run through its
  details and a stream of log lines that it takes up again where it was lost.

### What is hard here

1. Jobs are delivered again after a lease ends, a thread dies or a report is lost, to a run
   that may have moved on.
2. A session keeps the objects it loaded over a commit (`expire_on_commit=False`,
   `db/session.py:80`), so a status in memory can be old; SQLite on the other hand refuses a transaction that
   read and then writes when somebody committed in between.
3. Users cancel and review while a thread is anywhere in its pass.
4. A run is executed in several passes: retries of a step, of a job, a resumption after a
   review. What it read, checked and wrote before must count exactly once.
5. The scheduler acts on what it read earlier; so does every request about accounts and
   tokens, which hashes passwords between what it reads and what it writes.
6. The model server answers late, wrongly or not at all, to several threads at once.
7. Files are not transactional, and a transaction that is undone leaves them.

### What makes each part correct

- Queue: nobody is handed a job another holds; the budget of attempts; a settled job
  stays settled; every job ends.
- Runs: statuses move along `TRANSITIONS`; an active run has a job that will move it;
  what is over stays over (for cancelled runs see findings); a person's decision stands; every run ends or waits for a person.
- Execution: no file of the folder is missed, none is read twice by a run, no accepted
  invoice is left out of the workbooks of a run that succeeded, nothing is written that
  was not accepted, and a run that succeeded has no step left to do.
- Versions and schedules: at most one approved version, which is the current one; enabled
  schedules are those of the current version of an active employee; the scheduler runs
  only what is approved; the order of execution respects the edges and is the order shown.
- Compiler and validators: errors exactly if there is no valid workflow; whatever is saved
  can be executed by the worker; the breaker closes when the server is back.
- Sessions: what locking or a new password ends stays ended; a token is exchanged once;
  somebody can always administer the installation.
- Outputs: what is listed can be downloaded.
- Log: no line is lost or shown twice, and after "done" none is missing (the code keeps this with
  exceptions, see `LogStream`).
- Tables and rules: no row of the files disappears or changes columns, different files
  are never reported equal, an invoice with one thing misread is seen by a person.

## 2. Modules

    WorkQueue   what the queue promises: statuses and attempts of jobs
      ^ implemented by       ^ extended by
    JobQueue               RunLifecycle  --- RunState ---  Execution --- Workflows
                           | \                               /              |
                           |  `--- both implement RunPromise'           Employees
                         LogStream   the log of a run and the page that follows it
    Compiler --- Workflows, Validators, ModelCalls
    Documents   the documents of all runs, uploads and reviewers
    Sessions    accounts, refresh tokens, requests
    Outputs     store, artifacts, exports, outputs of steps
    Data = Tables, QualityRules or Outputs, one at a time

| module | models | state in the model |
|---|---|---|
| `WorkQueue` | the promise of `ports/queue.py`, without clock and leases | `jobStatus`, `jobAttempts` |
| `JobQueue` | the adapter: every operation, the clock, backoff, leases; what each worker believes about its lease (`grant`) | `job`, `grant`, `late` |
| `RunState` | `domain/state.py`: statuses, table of transitions, groups, the phase a status belongs to | none |
| `RunPromise` | what a run promises its user, without queue, threads, steps and invoices | `phase`, `pass`, `waited` |
| `RunLifecycle` | API, scheduler, worker threads, heartbeats, reaper and reviewer around runs and jobs, transaction by transaction, with faults | `run`, `jobRun`, `worker`, `reaper`, the queue's two variables, `lapsed` |
| `LogStream` | `run_logs` of one run of `RunLifecycle`, whose every transition and thread writes it; both ends of the stream | `lines`, `stream`, and all of `RunLifecycle`'s |
| `Workflows` | graphs of steps: `topo_order`, `topo_levels`, V-2, V-3, the plan of `execute`, the pass branch | none (operators) |
| `Execution` | one employee's folder, documents, workbooks and runs; the steps of `invoice_to_excel` | `mtime`, `documents`, `run`, `step`, `books`, `exec` |
| `Employees` | versions, approval, status, schedules, the scheduler's memory, scheduled runs | `employee`, `workflow`, `run`, `wanted`, `jobs`, `due` |
| `Documents` | documents, readings with their verdicts, uploads in two transactions, the reading and checking thread of any run, reviewers | `documents`, `extractions`, `upload`, `thread`, `passes` |
| `Validators` | the catalogue of tools with their schemas, the five templates, V-1 to V-5 | none (operators) |
| `ModelCalls` | the adapter of the model and its breaker, shared by threads | `failures`, `openFor`, `waiting`, `up` |
| `Compiler` | `POST /employees`: classification, three attempts, the end of the transaction | `request`, `employees` |
| `Sessions` | login, refresh, logout, creating and changing users, as overlapping transactions | `account`, `tokens`, `request` |
| `Outputs` | store, `artifacts`, `run.output` rows; steps, uploads and exports that store files | `files`, `artifacts`, `outputs`, `writer` |
| `Tables` | merge, normalize, dedupe and reconcile on sheets of cells | `sheets`, `keys`, `table`, `step`, `found` |
| `QualityRules` | QC-01 to QC-08 with the arithmetic of amounts and check digits, and a reading that gets one thing wrong | `printed`, `read`, `at`, `review` |
| `Data` | `Tables`, `QualityRules` or `Outputs`, each alone, for one run of TLC | |
| `*Proofs` | theorems about `JobQueue`, `RunLifecycle`, `Employees`, `Documents`, `Sessions`, `Compiler`, `Outputs`, `Execution` | |
| `MC*` | instances for TLC | |

### JobQueue

A row of `job` is a row of `job_queue`; `run_after` and `lease_until` are kept as distances
from now, so that `Tick` makes them shrink and the state space is finite. An adapter call is
one action because each runs in a `BEGIN IMMEDIATE` transaction. `grant[w]` is what `claim`
returned to the thread, with the time its lease has left as the thread knows it: this
is what the code acts on when it reports. `late` collects the jobs that were settled or
failed by somebody whose lease was over; `complete` and `fail` do not look at
`claimed_by`, and several properties hold only apart from that. `WorkQueue` is the
abstract specification; `ImplementsWorkQueue` says that the table, forgetting clocks,
leases and priorities, is one.

### RunLifecycle

Uses the promise instead of the table: `lapsed` is the set of jobs whose lease is over,
`Lapse` and `Heartbeat` are the passing of time and the renewal. A thread's `at` names the
transaction it does next: `handle` (CLAIMED), `begin` (RUNNING), the steps, `finish`,
`complete`, `fail`, and so on. Two rules about SQLite and SQLAlchemy decide what
is atomic:

- Inside ONE transaction a read followed by a write is one step, because the write fails
  if anybody committed in between; that failure is the fault `crash`.
- What a thread carries over a commit in memory is not protected. `Begin` writes
  RUNNING over whatever the row says, since the `Run` object was loaded before
  CLAIMED was committed. `seen` is the session's copy of the document's status:
  assigning the value the copy has already writes nothing.

Faults are bounded in number: `die` (a thread ends anywhere), `crash` (an unexpected
exception, with the path through `_fail_permanently` and the loop), `stall` (the lease ends
although the thread lives). `attempts` stands for `claimed_by` as well; all jobs have the
same `MaxAttempts`; a run has one invoice, which stands for all of its documents.

### LogStream

Extends `RunLifecycle`, so the run whose log is read has its threads, reaper, reviewer and faults, and nothing is
assumed of when they write: a transition writes its line in its own commit (`RunMoves`), and a thread that executes
writes one whenever it likes (`Says`), also past its lease, since `_log` asks nothing. The stream reads lines and status in one
transaction, sends them, may be cut after any line, and is taken up by the browser with the last id it received; `end` and `early` are
history: which status the server saw last, and whether a thread was at the run then. `LogArrives` has two parts. The lines
come in order, each once, always. When the page was told "done" it has all lines there are, and no more come, with
two exceptions in which the code goes on writing after it said so (`api/v1/runs.py:129-131` asks for the status only):

- `GoneOn`: NEEDS_REVIEW is not active, so "done" is sent, and the run goes on after the review.
- `ToldTooEarly`: a thread is still at the run. Of a cancelled run it has not noticed the cancellation yet.
  With faults, the reaper fails a run by the status of its newest job (`workers/reaper.py:36-50`) while a thread
  past its lease goes on, which notices a cancellation only (`execution_service.py:352-364`); or a second thread has
  taken the run to its end. These lines are in the log and appear when the page is opened again.

### RunPromise

The abstract specification of a run, of which `RunLifecycle` shows how queue, threads, reaper and reviewer
keep it, and `Execution` how the work on the invoices does. `phase` puts together the statuses that a user
takes for one: PENDING, CLAIMED and RETRYING are all "queued", and the rest are phases of their own (`PhaseOf`
in `RunState`). `pass` says whether a thread has taken the run or executes it, and `waited` that it has
come to wait for a reviewer. The promise is in the guards: a pass is taken up only when none is underway;
only the pass underway ends the run, puts it back or lets it wait, and that once; a run that succeeded or failed
has no action left that changes its phase; a cancelled one goes on only if it had been taken and not begun, which is
what the code does (see findings).

With faults there are three more actions. `Lose`: the pass is gone, the phase stays. `Recover`: runs that no pass is made over
are put back or failed, one by the thread that reports an exception, any number at once by the reaper.
`Drift`: nothing is promised of the run from here on. `RunLifecycle` maps a run to
"adrift" when there are faults at all and the run has had a thread that outlived its lease, or has a second job, which
without the first one's report may overtake it (`Told`): then two passes can meet, and TLC shows that they do.
Without faults no run is ever adrift, whether it was reviewed or not. `Execution`, where a fault and what the reaper makes of
it are one step, implements the promise with `Faulty` FALSE.

Both refinements were tried against weaker promises: with any one of the actions of `RunPromise` left out, the instance of
`calm` or that of `faults` violates it, so that none is there for nothing.

### Execution

`documents[d]` joins a row of `documents` with the origin of its extractions; `books[r]` is
the sequence of workbooks a run saved (each a new file, `append_rows` never overwrites).
`exec` is the thread's memory: the position in the order, the attempt of the step, the
position in the input, the keys of `state` that tools read, the outcomes, and the
session's copies. A step of the model is a transaction: the model call is split into the commit before it
and the commit of its answer, so uploads, reviews and cancellations fall in
between. An error may occur at any place of a tool: transient ones are retried
as `retry_max` and `on_error` say, then the run is RETRYING; permanent ones follow `on_error`.
`Interrupt` is a death of the thread with the reaper's repair, or an exception out of `execute`.

### Documents

Where `Execution` follows two runs closely and lets an upload be one step, `Documents`
follows the rows: a document has one status but readings of several origins, each with
what was read and the verdict of its own. An upload commits before and after the model call, a
run reads and later checks, reviewers decide or correct, and any of them may write
the status last. `OtherNumbers` is the query behind QC-06 (numbers of all other documents,
superseded readings included); the rules that look at one invoice only are the flag
`sound` of what was read. `passed` is a history variable: whether this reading was
ever judged clean; a later check of the same reading may find a duplicate that came
since. A pass that ends early is `Abandon`; the next one starts with a session without copies.

### Workflows and Employees

`Workflows` follows the code's two sorts: `topo_order` is repeated selection by position in
the specification among steps without open parents; `topo_levels` gives the stored position,
which `_plans` sorts by again. Whatever V-2 and V-3 accept is what `Employees` may save.
`Employees` keeps the scheduler's `sync_schedules` as two actions, read (`wanted`)
and register (`jobs`), and the firing of a job as a further one (`due`) before the run
is created, since each is a transaction or a callback of its own.

### Validators, ModelCalls, Compiler

`TOOL_REGISTRY` gives of each tool what V-4 and V-5 look at: the required fields of its input,
the fields of its output, its required parameters. A draft is what the model fills in; `Errors`
are what the validators say of it. `SavedWorkflowsRun` does not repeat the rules: `Executable`
goes through a workflow as the worker does, by the order of `Workflows` and the memory that is
handed from step to step. The compiler holds a template and one thing wrong for each
rule to catch. V-4 looks at edges only: a step
with required fields and no edge into it passes, and so do `normalize` and `dedupe` without a workbook,
which they read but do not declare. `Executable` asks no more than that of a step without
parents, and no draft has such a step.

`ModelCalls` splits a call at its only interruption, the request: `Send` tests the breaker,
`Answered`, `Failed` and `Refused` count. `openFor` is the distance to `_circuit_open_until`. A thread's
frame in `request` is that of `compile`; `heard` is history. `Fail` is the end that SQLite
makes of a request during which somebody else committed; `Unreadable` is an answer that is not JSON.

### Sessions

A request is its transaction: `Begin...` reads and decides, the action of the same name writes
and commits. In between others do the same; `fresh` says that nobody has committed since, and
only then SQLite takes the write (`MayWrite`), otherwise the request fails. `Token` has two columns of
history, the password of the account when the session began and the token it was exchanged for,
by which the properties are stated. `Allowed` are the two conflicts of `update_user`.

### Outputs

`ensure_artifact` and `save` are five steps of a `writer`, since other writers can come between any
two: the question whether any file of that content exists, the search for its row as this
transaction sees it, the temporary file, `os.replace`, and the row. An upload or export may be
turned away anywhere and leaves its file. Which run a step belongs to, and whether that run is over,
does not matter to the store; two threads that execute one run, as after a lease that ran out, are two
`Executions`.

### Tables, QualityRules

A cell is what it is compared as, with what tidying makes of it as constants. The steps are the tools
as they hand a workbook on, through writing and reading. `CleanedIsComplete` compares the end
with the rows of the files themselves, heading by heading; `NothingListedIsEqual` relates the three
lists of `reconcile` to whether each file has a row for each of the other. Both state what
they exclude: two columns of one file with one heading, a key in several rows (see findings).
`QualityRules` reads a printed invoice with at most one field wrong and asks which misreadings get
through. `Tolerated` is the answer: within the tolerance of 1, another date, and a tax code whose
check digit 0 stands for the remainders 0 and 10. Nothing relates `vat_amount` to `vat_rate`, so
the rate is not among the fields that are misread.

## 3. Runs

| run | shows | instance |
|---|---|---|
| `queue` | budget, exclusive leases, no two holders, settled stays settled, every job settles, refinement of `WorkQueue` | 2 jobs, 2 workers, 2 attempts, 2 priorities, lease of 2 ticks |
| `calm` | without faults: one executor per run, an active run has a job, refinement of `RunPromise`, every run ends or waits | 2 runs of one employee, 3 jobs, 2 threads, a cancellation and a review |
| `faults` | with two faults of any kind: one executor per job, legal transitions but for the overwritten cancellation, decisions about a run that has been NEEDS_REVIEW stand, no run is left CLAIMED or RUNNING | 1 run, 2 jobs, 2 threads |
| `employees` | versions, flags and jobs are consistent under late scheduling; orders of all graphs over three steps | 3 versions, 1 restart |
| `documents` | a document is ok only with a vouched reading; of two documents with one number a person saw one; both except readings no check has judged yet (a finding: one may stay ok for ever) | 2 files with one number, an upload, 2 runs, 3 readings, 2 passes |
| `execution` | nothing missed, nothing read twice, nothing forgotten, nothing wrong written, refinement of `RunPromise` | 2 runs, 2 invoices, an upload, a doubtful invoice, a cancellation, 1 fault |
| `sessions` | no session outlives a new password or a locking, tokens are exchanged once, an administrator remains | 2 accounts, 2 requests at a time, 3 tokens, 1 change of password (821,571 states) |
| `compiler` | outcomes are explained, saved workflows run, the breaker recovers | 2 threads, 6 drafts, threshold 5 as in the code, 2 employees (89,196 states) |
| `log` | the log arrives in order and whole, with the two exceptions | 1 run, 2 jobs of one attempt, 2 threads, a fault of any kind, a cancellation, a review, reads of 2 lines (2,025,020 states) |
| `data` | cleaning loses nothing, nothing listed is equal, one misreading is caught, listed files are stored | sheets of 2 columns and up to 2 and 1 rows with every order of headings; invoices of up to 2 lines, every digit and amount; 2 threads that execute steps, an export of the same content under another suffix, 3 listed outputs (194,244 states) |

Two more runs reproduce disagreements between the code and what its comments or documents
say; each checks the one property that quotes the statement, and `PROJECT.json` has the quote.

| run | statement | what happens |
|---|---|---|
| `forgotten` | the last decision puts the run back | decided while the run is still RUNNING, the run then waits for ever |
| `lost` | trying again is safe | a new run skips what a failed one read, and nobody writes it |

The other disagreements are listed in `PROJECT.json` under findings, with the line of the
statement, and are described by the actions they come from rather than by runs of their own: a
cancellation between the CLAIMED and the RUNNING commit is overwritten; a job out of attempts
leaves its run PENDING if the workers died before CLAIMED, and RETRYING if it was claimed between
the reaper's two transactions (TLC finds each of the three in `RunLifecycle` when its opposite is stated); two runs of
one employee can be active after a review; a retry does not pass on an invoice that was uploaded in between;
a compilation is lost when anybody commits meanwhile, or when an answer is not JSON; `presign`
takes any file for a document; a repeated step lists its file twice; `merge_files` loses the first of two columns with
one heading, and `reconcile` all rows of a key but the last.

Why these bounds are enough: two threads are what every race here needs, and the code treats
threads alike; two attempts are the least where the first and the last differ, and the rules
compare with `MaxAttempts` only; a second job of a run exists only after a review;
two runs are needed for a busy employee and for "the last success"; two invoices are needed
for a check that splits its input and for a number that occurs twice; three readings
are an upload's, a run's and a correction. Two requests are enough for `sessions`, since a
third can only make the others outdated, which the second does; three tokens are a login, its
exchange, and a competing one. In `compiler`, five failures need both threads to go on while the breaker opens. In
`log`, reads of two lines make logs of several reads. One or two faults reach every window between two
transactions, because a fault's consequences are over, in these systems, once the
reaper has come round. In `log` each job has one attempt: with two the instance takes longer than is useful, and what
follows from a second attempt, two threads at one run, comes from its second job as well. Its two threads are
symmetric, which is sound since the code treats them alike and `LogArrives` is an invariant. `Cancellable`, `Questionable`, `Uploadable`, `Faults`,
`MaxFaults`, `MaxRestarts`, `MaxExtractions`, `MaxPasses`, `Offered`, `MaxTokens`,
`MaxPasswords`, `Changes`, `MaxEmployees`, `MaxOutputs`, `MaxLines`, `Pairs`, `KeyColumns`, `Vats`, `Codes` and `Amounts` bound what users and the environment do and are named
as bounds in the modules. The
actions of users end when these bounds are used up, and where nothing else goes on TLC
would call that a deadlock: this is the only reason for `CHECK_DEADLOCK FALSE` in the
`employees`, `documents`, `execution`, `lost` and `data` configurations. In the others the clock,
the reaper or another request always goes on, so that liveness, and not the absence of deadlock, is
what says something there.

Fairness. Worker threads and the reaper are loops that always come round again
(`workers/worker.py`, an interval job of APScheduler), leases run out with the clock, so
each is weakly fair; `sync_schedules` is an interval job too. A thread that compiles goes on, and
time passes while the breaker is open. Nothing is assumed of
users, of the arrival of files, of the environment's faults, nor that a model call
succeeds or its server comes back.

## 4. Proofs

All theorems hold for every value of the constants allowed by the modules' assumptions.

- `JobQueueProofs`: `TypeCorrect`, `BudgetHolds`, `LeaseHolds`, `HoldersExclude`,
  `SettledStays` and `QueueRefinement`. The type invariant is carried together with
  `AttemptBudget`'s bounds and the fact that a job somebody was granted had an attempt. On top
  of it `LeaseIsExclusive` needs `RowsAreAsTold`: whoever holds a row knows its attempts
  and its lease, also after the lease ran out, which the property itself does not say. The
  refinement maps every action to a step of `WorkQueue` or to a stutter.
- `RunLifecycleProofs`: `TypeCorrect`, `JobsHaveRuns` (a thread that is not idle works for a
  run that exists) and `AttemptsFollow`: two threads execute one job at a time only if a
  lease ran out under a live one. That alone is not inductive: a claim keeps it only if nobody
  works on a job that is not claimed (`HoldsOrStalled`), and a reap keeps that only if
  an expired job has no live thread left (`LapsedIsFree`).
  `StatusesFollow` and `DecisionsStand` add `Passes`, about what a thread writes from memory: between its CLAIMED and
  RUNNING commits only a cancellation comes (`Begins`), a thread in a step of a run that was reviewed resumes it, is past
  the check and will not escalate (`Resumes`), and only a review gives a run a second job (`Reviews`). `Begins` speaks of
  runs that were enqueued once, and both of runs without a stalled thread, as the two properties do; apart from that the code's writes from memory break them.
  What the two say has limits that the code sets: `StatusesFollow` permits the step from CANCELLED to RUNNING (see
  findings), and `DecisionsStand` is about runs that have been NEEDS_REVIEW; a decision made earlier, while the
  run executes, can be taken back when the check step is tried again.
  `SettledRunsStaySettled` is about SUCCEEDED and FAILED runs for the same reason as the first.
  `RunsHaveOneExecutor`, `ActiveRunsHaveJobs` (both checked by the run `calm`) and `SettledRunsStaySettled` assume
  `FaultFree` (no fault is possible), without which TLC refutes each of them on the instance of `faults`. None of the three is inductive, nor are they together: that a second
  job of a run finds no thread in the first needs that the older job is done with the run (`OlderAreDone`), that a run is
  reviewed only when its thread is behind its last write (`ReviewIsOver`), and what thread and row are to each other at each transaction (`InPlace`);
  `Calm` is their conjunction.
  `RunsKeepTheirPromise` is the refinement of `RunPromise`, with no hypothesis: it holds with faults and without. The invariants are those above, `Calm` only
  where there are no faults, and `Pace`: the thread that executes a run which is told of finds it RUNNING or cancelled, and
  if it was reviewed knows so, which is why it will not let it wait again. `ToldHasOneThread` (of two threads with one run one is about to
  report and does nothing else) makes the step of one thread the step of the run's one pass, and `WorkedOnIsLeft` keeps the
  reaper from a run somebody works on; both have an argument for runs without a second job and another for systems without
  faults. Each action of `RunLifecycle` is then a step of `RunPromise` or a stutter, the repair one step for all runs. TLC
  checked it on the instance of `faults` as well (665,949 states), where it holds too.
  `LogAlwaysArrives` is about `LogStream`, with every fault of `RunLifecycle`: `StreamIsAhead` ties what the server sent last to
  what the browser has, and `DoneIsOver` says of a page that was told "done" that nobody is at the run and it is over or waits for its review
  (`LeftOver`), that it went on after its review and is resuming (`WentOn`), or that it was told too early. That a run nobody is at
  and that is over has no further line comes from the invariants of the theorems before.
- `EmployeesProofs`: `TypeCorrect`, `ApprovedIsCurrent`, `EnabledFollows`,
  `ApprovalsAdvance`, `ScheduledRunsApproved`. `CurrentIsApproved` alone is not inductive for
  approvals: that an older draft is never approved needs `DraftsAreNewer` (a draft was saved after the
  current version, because approving one archives the older) and `SavedInOrder`.
  `OrdersRespectEdges` and `WorkflowsRunAsShown` are about graphs of any size. `ValidatedIsOrdered` shows that `topo_order` raises for no graph
  V-2 and V-3 let pass: the recursive functions of `topo_order` and of V-3 are unfolded by induction for sets of numbers
  (`EveryNatural`), and as long as a step is missing, the first round of V-3 that visits a missing step visits one that
  is ready. `KeptIsExecuted` adds the sort by level: a step's level is above those of its parents, so that sorting keeps every
  step behind its parents, and repeated selection by position then takes the sorted steps as they stand. `SavedIsValid` carries it to
  the saved versions. It also shows that the assumption of `Execution`, that the workflow has an order, excludes no
  workflow that can be saved.
- `DocumentsProofs`: `TypeCorrect`, `OkVouched`, `DuplicatesSeen`. `NumbersPassOnce` (no two
  readings of different documents with one number both pass) is what QC-06 gives, since
  a verdict saw all committed readings. `OkIsVouchedFor` needs, document by document, `Sound`: where a pass remembers
  `needs_review` of a document that has become ok since, the latest reading passed; otherwise
  the check step, whose assignment of `needs_review` would write nothing, could leave a
  failed reading ok. `CopiesAreOfDone` gives that no reading of the pass itself comes in between.
  Both together give `DuplicatesAreSeen`. `Latest` is a `CHOOSE`; `LatestIsLast` is carried as an
  invariant, so that no induction over the table is needed.

- `SessionsProofs`: `TypeCorrect`, `SessionsStayCurrent`, `TokensAreExchangedOnce`,
  `AlwaysAdministered`. A request that is still `fresh` may rely on what it read (`FreshIsTrue`, with what each
  kind relies on in `Relies`), and a commit makes all others outdated, so that the
  statement is inductive; `FromEarlier` says that a token was issued after the one it was exchanged for.
- `CompilerProofs`: `TypeCorrect`, `OutcomesExplained`, `SavedAreValid`, `SavedCanBeExecuted`. `Looping` relates, between two attempts, the number of
  failed calls to the attempts, and the draft and errors that are kept: without it the counting that
  tells "out of reach" from "wrong" cannot be followed to the last attempt. `SavedCanBeExecuted` goes through the order of
  execution step by step: the memory a step is handed has the outputs of all its parents, which V-4 compared its input
  with. The lemmas about graphs are those of `EmployeesProofs` again, since `Compiler` and `Employees` are two systems with
  variables of their own and neither proof can extend the other.
- `OutputsProofs`: `TypeCorrect`, `ListedStaysStored`, `OutputsStayListed`. Each writer
  carries that its file is there before its row is inserted (`Backed`), and that a row it found
  stays, since nothing is deleted.
- `ExecutionProofs`: all properties of the run `execution`, and its types. The inductive invariant common to them is `Everything`, with a part
  for each kind of state: `Shape` and `Rows` (columns and what a row may hold), `Progress` (the pass), `Readings` (who read what),
  `Papers` (what the thread has in memory: lists of existing documents, `passed` and `review` only of what was read),
  `Filing` and `Shelf` (documents and workbooks). In the order in which they build on each other:
  - `TypeCorrectness`. That a document's number stays in range needs a bound on how many there are: one per
    upload and one per invoice that a run read (`OneForRuns`), by cardinality.
  - `SucceededRunsAreComplete`. `Progress` says of the pass under way that every step in front of the one executed is
    over (`FrontIsOver`), of a run that was reviewed that the steps outside the pass branch are and stay over, since a pass after
    a review marks only steps of the branch, and of the thread that its run is RUNNING or CANCELLED, so that nobody resumes it meanwhile.
  - `NothingReadTwice`. `Readings`: each document is read at most once, one document of an invoice at most is not that
    of an upload, and the document the model is asked about has not been read (`AskedIsUnread`).
  - `WorkbooksHoldAcceptedInvoices` (`WrittenAreAccepted`), for workflows that satisfy `WritesWhatPassed`: writing is behind a pass edge, escalating
    behind a fail edge, checking is not skipped on failure. `Judged` says that everything in `passed` is ok, and after a
    review accepted, although the session's copies may be older than the rows: a copy that differs can only be of a
    document a person decided (`Remembers`).
  - `NothingInTheFolderIsMissed` (`NoFileMissed`), for workflows that satisfy `ReadsItsFolder`: one step lists the folder, one reads the list, neither is
    skipped on failure. `FolderInv` has `Past` (files that are older than a successful run have a document) and `Toward` (how
    much of that the pass under way has done: `Listed`, `Reading`, `LookedAt`), which `Past` alone does not follow from.
  - `ReadInvoicesAreWritten` (`NothingForgotten`), for workflows that satisfy both `WritesWhatPassed` and `ReadsChecksAndWrites`: list, read, check and,
    behind the pass edge, write follow one another. The property is about the end of a run and its whole history,
    so `WorkInv` follows what a run has yet to write (`Due`) through every transaction: `OnTheWay`, the
    documents of the pass are in the list the next step is given; `Written`, behind the writing step what passed is in a
    workbook; `Resumed` and `Reviewed`, what a review leaves is accepted or written already; and, about other runs, `Queue` (a run
    begins when those before it are over or wait for a person), `Dated`, `FilesAreNew` and `Rivals` (the start of a run that waits, and
    that may count as the last success when it goes on, is too old to hide a file from one that reads now).
  - `ExecutionKeepsThePromise` (`ImplementsRuns`), for every workflow: from `Progress` (the thread's run is RUNNING or CANCELLED, and
    resumed if it was reviewed) each transaction is a step of `RunPromise` or a stutter. With `RunsKeepTheirPromise` the two models, which
    look at the same code from two sides, are shown to speak of one life of a run.

  What the hypotheses ask of a workflow the properties need: TLC finds `WrittenAreAccepted` violated when the writing step
  is behind an unconditional edge, `NothingForgotten` when the check or the writing may be skipped, and `NoFileMissed` when the listing
  or the reading may. Only what `WritesWhatPassed` asks of the checking and escalating steps serves the proof alone; TLC finds
  no violation of `WrittenAreAccepted` without it. The workflow made from the template `invoice_to_excel`
  satisfies all three, with the positions 1 to 4 in the order, which TLC evaluated.

  `NothingForgotten` excludes an invoice whose file is older than the start of an EARLIER run that succeeded. The proof asked for this, and
  TLC confirms it with two invoices in `Questionable` (`MCExecution` has one): run 1 reads one invoice, fails to
  read the other and waits for a review; run 2 reads the other and is interrupted; run 1 goes on and
  succeeds; the retry of run 2 takes the start of run 1 for the last success, lists nothing, and succeeds, with the invoice in
  nobody's workbook. It is one more way into what the run `lost` shows, through a review.

The modules' assumptions are those the proofs use: sets of ids that are finite and numbered from 1, attempts that are positive, and
of the inputs only their shape (`OfferedAssumption` of `Employees` and `DraftsAssumption` of `Compiler`: the steps of a
specification are a sequence). That the workflow of `Execution` has an order is the conclusion of `ValidatedIsOrdered`.

Only model-checked: liveness (`JobsSettle`, `RunsEnd`, `NoneLeftBehind`, `JobsFollow`, `Recovers`), which is
out of the prover's reach; and the properties of `Tables` and `QualityRules` (`CleanedIsComplete`, `NothingListedIsEqual`, `MisreadIsCaught`), where
everything lies in what functions over tables and digits compute for every input, so that each would be an induction over data, or false beyond the
tolerances that the instance makes concrete. Every other property of a passing run is stated by a theorem. The type
invariants of all modules with proofs are proved and are not checked by runs as well.

## 5. Not modelled, and abstractions

- Content: names, texts, layout and formats of workbooks, progress figures, log wording, prompts.
- `Documents` and `Execution` take the verdict of the rules on one invoice as a flag, or let
  the invoices in `Questionable` get either; the rules themselves are in `QualityRules`. Amounts
  there are whole numbers, and the dates are recent, old, in the future or missing.
- `Documents` knows no statuses of runs, and `RunLifecycle` no second origin of a reading:
  what a review of such a document does to its runs is left for a composition.
- `Execution` has one thread, the default of `WORKER_CONCURRENCY` (`core/config.py`); its files
  differ in content, are complete when they appear, and arrive at distinct times; an upload
  is one step; a correction does not add to `readBy`, which the code copies.
- `Employees` has one employee, and what it saves is any of a set of workflows that V-2 and V-3
  accept; `next_run_at` is for display.
- `Sessions`: the expiry of tokens (they would only fail earlier), the check of a role for each
  endpoint, and lists of users. An access token stays valid until it expires,
  which the code intends; only refresh tokens are looked at.
- `LogStream` has one page; the wording and levels of lines are left out. In `Outputs` the deletion of a file is called by nobody.
- `Heartbeat` may renew a little longer than the real thread does, which only makes fewer
  leases end; `stall` covers those that end anyway.
- Reports and metrics are queries over committed rows, settings one table of values; agents,
  configuration and schemas keep no state; migrations, scripts, evaluation and deployment run outside of the program.
  Of the frontend only the log stream is modelled: pages render what the API returns.

## 6. Plan

1. (done) the queue and its refinement; the life of a run; proofs of both.
2. (done) workflows, employees and scheduler with proofs; execution over the folder;
   documents with uploads, runs and reviewers, with proofs.
3. (done) model calls, compiler and validators; accounts and refresh tokens, with proofs; files and
   the log stream; quality rules and spreadsheet tools against reference definitions.
4. The composition of `Documents` with the statuses of runs: a review of a document with
   readings of two origins.
5. (done) proofs about `Execution`, for every workflow or for those of the template's shape; the stored order of steps; the life of a run
   without faults, and its statuses with them.
6. (done) `RunPromise`, the abstract specification of a run, which `RunLifecycle` implements with faults and without, and
   `Execution` for every workflow.
