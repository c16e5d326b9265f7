------------------------------- MODULE Execution -------------------------------
(***************************************************************************)
(* What one AI employee does with the invoices of its folder: the steps of *)
(* its workflow, executed run after run by one worker thread (the default  *)
(* WORKER_CONCURRENCY), and the people who upload, review and cancel       *)
(* meanwhile.  The folder, the documents and the workbooks are the state;  *)
(* leases and the queue are in RunLifecycle and appear here as Begin and   *)
(* Interrupt.                                                              *)
(*                                                                         *)
(* A step is one committed transaction of the tool.  The session keeps its *)
(* objects over commits (expire_on_commit=False): assigning a document the *)
(* status its copy in memory already has writes nothing.                   *)
(***************************************************************************)
EXTENDS Workflows, RunState

CONSTANTS Runs,           \* the ids of the employee's runs, 1 .. n
          Invoices,       \* the files that can come into the folder, by name, no two alike
          Workflow,       \* [steps, edges, tool, onError, retryMax]
          MaxAttempts,    \* max_attempts of a job
          Questionable,   \* bound: the invoices that may fail the rules, and be corrected
          Uploadable,     \* bound: the files in the folder somebody also uploads, once
          Cancellable,    \* bound: the runs somebody may cancel
          MaxFaults,      \* bound: how many errors and interruptions occur
          None

ASSUME ExecutionAssumption ==
    /\ Invoices \subseteq Nat /\ IsFiniteSet(Invoices)
    /\ Runs = 1 .. Cardinality(Runs) /\ IsFiniteSet(Runs)
    /\ None \notin Runs
    /\ MaxAttempts \in Nat \ {0}
    /\ MaxFaults \in Nat
    /\ Questionable \subseteq Invoices
    /\ Uploadable \subseteq Invoices
    /\ Cancellable \subseteq Runs
    /\ Workflow.steps \in Seq(ToSet(Workflow.steps))
    /\ IsOrdered(Workflow.steps, Workflow.edges)
    /\ \A k \in ToSet(Workflow.steps) :
        /\ Workflow.tool[k] \in {"list", "read", "check", "write", "escalate"}
        /\ Workflow.onError[k] \in {"stop", "skip", "retry"}
        /\ Workflow.retryMax[k] \in Nat

VARIABLES now,       \* a clock that ticks with each file and each start of a run
          mtime,     \* mtime[i]: when the file of invoice i was last written, 0 if not yet
          documents, \* documents[d]: the row of documents and of its latest extraction
          run,       \* run[r]: the row of runs
          step,      \* step[r][k]: the status of the row of run_steps
          books,     \* books[r]: the documents in each workbook r saved
          exec,      \* what the thread has in memory
          faults     \* how many faults happened so far

vars == << now, mtime, documents, run, step, books, exec, faults >>

Order == TopoOrder(Workflow.steps, Workflow.edges)
Keys == {Order[n] : n \in 1 .. Len(Order)}
Parent == [k \in Keys |-> Parents(Workflow.steps, Workflow.edges, k)]
PassBranch == DownstreamOfPass(Workflow.steps, Workflow.edges)

\* An invoice has a document for each upload and at most one for the runs.
Ids == 1 .. (Cardinality(Invoices) + Cardinality(Uploadable))
Known == DOMAIN documents

DocumentStatus == {"processing", "ok", "needs_review", "rejected", "failed"}

\* readBy: the run_id of each extraction, oldest first (a correction copies the
\* last one and is left out); faulty: the latest extraction fails the rules;
\* accepted: human_reviews has an approve or correct.
Document == [invoice : Invoices, status : DocumentStatus, readBy : Seq(Runs \cup {None}),
             faulty : BOOLEAN, accepted : BOOLEAN]

\* started: started_at, 0 if NULL; attempts: of its live job; reviewed: its log
\* has a transition to NEEDS_REVIEW.
RunRow == [status : RunStatus \cup {"absent"}, started : Nat, attempts : 0 .. MaxAttempts,
           reviewed : BOOLEAN]

StepStatus == {"none", "PENDING", "RUNNING", "SUCCEEDED", "FAILED", "SKIPPED"}

\* The keys of state that the tools read, each a sequence of invoices or ids.
NoMemory == [files |-> << >>, document_ids |-> << >>, passed |-> << >>, review |-> << >>]

\* place: "start" before a step (index of the order), in the "tool", waiting for
\* the "answer" of the model, or "done" but for _mark; todo: the position in its
\* input the tool has come to; reading: the document the model is asked about; out:
\* memory as the tool will leave it; seen: the documents' status in the session.
Idle == [run |-> None, index |-> 0, place |-> "idle", attempt |-> 0, todo |-> 0, reading |-> 0,
         memory |-> NoMemory, out |-> NoMemory, outcome |-> [k \in Keys |-> "none"],
         resume |-> FALSE, since |-> 0, seen |-> [d \in Ids |-> "none"]]

Init ==
    /\ now = 0
    /\ mtime = [i \in Invoices |-> 0]
    /\ documents = << >>
    /\ run = [r \in Runs |-> [status |-> "absent", started |-> 0, attempts |-> 0,
                              reviewed |-> FALSE]]
    /\ step = [r \in Runs |-> [k \in Keys |-> "none"]]
    /\ books = [r \in Runs |-> << >>]
    /\ exec = Idle
    /\ faults = 0

\* The numbers in S, the smallest first.
Ascending(S) ==
    [n \in 1 .. Cardinality(S) |->
        CHOOSE x \in S : Cardinality({y \in S : y < x}) = n - 1]

ReadBy(r) == {d \in Known : r \in ToSet(documents[d].readBy)}
SetStatus(r, status) == run' = [run EXCEPT ![r].status = status]
Tick == now' = now + 1

-----------------------------------------------------------------------------
(* The world: files, uploads, the API. *)

Arrive(i) ==
    /\ mtime[i] = 0
    /\ Tick
    /\ mtime' = [mtime EXCEPT ![i] = now + 1]
    /\ UNCHANGED << documents, run, step, books, exec, faults >>

\* POST /documents: ingest, in one step; it always makes a document of its own.
Upload(i) ==
    /\ i \in Uploadable /\ mtime[i] # 0
    /\ \A d \in Known : documents[d].invoice = i => None \notin ToSet(documents[d].readBy)
    /\ \E doubt \in IF i \in Questionable THEN BOOLEAN ELSE {FALSE} :
        documents' = Append(documents,
            [invoice |-> i, status |-> IF doubt THEN "needs_review" ELSE "ok",
             readBy |-> << None >>, faulty |-> doubt, accepted |-> FALSE])
    /\ UNCHANGED << now, mtime, run, step, books, exec, faults >>

CreateRun(r) ==
    /\ run[r].status = "absent"
    /\ \A s \in Runs : s < r => run[s].status # "absent"
    /\ \A s \in Runs : run[s].status \notin ACTIVE_STATUSES
    /\ SetStatus(r, "pending")
    /\ UNCHANGED << now, mtime, documents, step, books, exec, faults >>

CancelRun(r) ==
    /\ r \in Cancellable
    /\ run[r].status \notin TERMINAL_STATUSES \cup {"absent"}
    /\ SetStatus(r, "cancelled")
    /\ UNCHANGED << now, mtime, documents, step, books, exec, faults >>

\* Through RETRYING to PENDING, with a job of its own.
Requeued(row) == [row EXCEPT !.status = "pending", !.attempts = 0]

\* _maybe_resume_run, after the decision left the documents as docs.
AfterReview(r, docs) ==
    LET own == {d \in Known : r \in ToSet(docs[d].readBy)}
        accepted == {d \in own : docs[d].status = "ok" /\ docs[d].accepted}
    IN IF run[r].status # "needs_review" \/ (\E d \in own : docs[d].status = "needs_review")
       THEN run[r]
       ELSE IF accepted = {} THEN [run[r] EXCEPT !.status = "succeeded"]
       ELSE Requeued(run[r])

\* resolve: POST /reviews decides about a document that waits, PATCH /documents
\* can also confirm one that is ok; a correction may or may not meet the rules.
Resolve(d, accept) ==
    /\ \/ documents[d].status = "needs_review"
       \/ documents[d].status = "ok" /\ accept /\ documents[d].invoice \in Questionable
    /\ \E faulty \in IF accept THEN {FALSE, documents[d].faulty} ELSE {documents[d].faulty} :
        LET docs == [documents EXCEPT
                        ![d].status = IF accept THEN "ok" ELSE "rejected",
                        ![d].accepted = accept \/ documents[d].accepted,
                        ![d].faulty = faulty]
            r == Last(documents[d].readBy)
        IN /\ documents' = docs
           /\ run' = IF r = None THEN run ELSE [run EXCEPT ![r] = AfterReview(r, docs)]
    /\ UNCHANGED << now, mtime, step, books, exec, faults >>

-----------------------------------------------------------------------------
(* The thread between two steps: execute. *)

\* _reviewed_ok_documents
ReviewedOk(r) == {d \in ReadBy(r) : documents[d].accepted /\ documents[d].status = "ok"}

PreviousSuccess(r) ==
    Max({0} \cup {run[s].started : s \in
            {t \in Runs \ {r} : run[t].status \in {"succeeded", "needs_review"}}})

\* A mutated form of StartedAt: each attempt is a start.
StartedAgain(r) == now + 1

\* run.started_at or now
StartedAt(r) == IF run[r].started = 0 THEN now + 1 ELSE run[r].started

Begin(r) ==
    /\ exec.run = None
    /\ run[r].status \in {"pending", "retrying"}
    /\ Tick
    /\ run' = [run EXCEPT ![r].status = "running", ![r].started = StartedAt(r),
                          ![r].attempts = run[r].attempts + 1]
    /\ step' = [step EXCEPT ![r] =
                   [k \in Keys |-> IF step[r][k] = "none" THEN "PENDING" ELSE step[r][k]]]
    /\ exec' = [Idle EXCEPT !.run = r, !.index = 1, !.place = "start",
                            !.resume = run[r].reviewed,
                            !.memory.passed = IF run[r].reviewed
                                              THEN Ascending(ReviewedOk(r)) ELSE << >>,
                            !.since = PreviousSuccess(r)]
    /\ UNCHANGED << mtime, documents, books, faults >>

Key == Order[exec.index]

\* A mutated form of Cancelled: the row is not read again.
NeverCancelled == FALSE

Cancelled == run[exec.run].status = "cancelled"

\* A mutated form of ResumeKeys: every pass is taken for one after a review.
ResumeKeysAlways == PassBranch

\* The keys the pass goes through: all of them, or the pass branch after a review.
ResumeKeys == IF exec.resume THEN PassBranch ELSE Keys

\* The first condition on the edges into the step; it decides about its input.
Condition(k) ==
    LET conditional == SelectSeq(Incoming(Workflow.edges, k), LAMBDA e : e.condition # "none")
    IN IF conditional = << >> THEN "none" ELSE Head(conditional).condition

\* A mutated form of Input: the condition on the edge is not looked at.
InputOfAll(k) ==
    IF Workflow.tool[k] = "read" THEN exec.memory.files ELSE exec.memory.document_ids

Input(k) ==
    IF Workflow.tool[k] = "read" THEN exec.memory.files
    ELSE CASE Condition(k) = "pass" -> exec.memory.passed
           [] Condition(k) = "fail" -> exec.memory.review
           [] OTHER -> exec.memory.document_ids

\* Every tool but fs.list_new_files requires its input.
HasInput(k) == Workflow.tool[k] = "list" \/ Input(k) # << >>

OK_OUTCOMES == {"SUCCEEDED", "FAILED_SKIPPED"}
ParentsDone(k) == \A p \in Parent[k] : exec.outcome[p] \in OK_OUTCOMES

\* What the tool starts with, again for each of its attempts.
Fresh(k) ==
    CASE Workflow.tool[k] = "read" -> [exec.memory EXCEPT !.document_ids = << >>]
      [] Workflow.tool[k] = "check" -> [exec.memory EXCEPT !.passed = << >>, !.review = << >>]
      [] OTHER -> exec.memory

Mark(status) == step' = [step EXCEPT ![exec.run][Key] = status]
NextStep(outcome) ==
    [exec EXCEPT !.index = exec.index + 1, !.place = "start", !.outcome[Key] = outcome]

AtStart == exec.place = "start" /\ exec.index <= Len(Order)

\* key not in resume_keys: the outcome is what the row says.
LeaveOut ==
    /\ AtStart
    /\ Key \notin ResumeKeys
    /\ exec' = NextStep(step[exec.run][Key])
    /\ UNCHANGED << now, mtime, documents, run, step, books, faults >>

StopCancelled ==
    /\ AtStart
    /\ Key \in ResumeKeys
    /\ Cancelled
    /\ exec' = Idle
    /\ UNCHANGED << now, mtime, documents, run, step, books, faults >>

SkipStep ==
    /\ AtStart
    /\ Key \in ResumeKeys
    /\ ~Cancelled
    /\ ~(ParentsDone(Key) /\ HasInput(Key))
    /\ Mark("SKIPPED")
    /\ exec' = NextStep("SKIPPED")
    /\ UNCHANGED << now, mtime, documents, run, books, faults >>

StartStep ==
    /\ AtStart
    /\ Key \in ResumeKeys
    /\ ~Cancelled
    /\ ParentsDone(Key) /\ HasInput(Key)
    /\ Mark("RUNNING")
    /\ exec' = [exec EXCEPT !.place = "tool", !.attempt = 1, !.todo = 1, !.out = Fresh(Key)]
    /\ UNCHANGED << now, mtime, documents, run, books, faults >>

\* _finish; a transition that is not allowed any more is dropped.
Finish ==
    /\ exec.place = "start"
    /\ exec.index > Len(Order)
    /\ LET outcome == IF exec.memory.review # << >> /\ ~exec.resume
                      THEN "needs_review" ELSE "succeeded"
       IN run' = IF CanTransition(run[exec.run].status, outcome)
                 THEN [run EXCEPT ![exec.run].status = outcome,
                                  ![exec.run].reviewed = run[exec.run].reviewed
                                                         \/ outcome = "needs_review"]
                 ELSE run
    /\ exec' = Idle
    /\ UNCHANGED << now, mtime, documents, step, books, faults >>

-----------------------------------------------------------------------------
(* The tools. *)

InTool(tool) == exec.place = "tool" /\ Workflow.tool[Key] = tool

\* only_new: st_mtime > since
NewFiles == {i \in Invoices : mtime[i] > exec.since}

\* outputs go to state, and the step is marked.
Complete(out, seen) ==
    /\ Mark("SUCCEEDED")
    /\ exec' = [NextStep("SUCCEEDED") EXCEPT !.memory = out, !.out = NoMemory, !.seen = seen]

\* The tool changes nothing, so that _mark can be the end of the same step.
ListNewFiles ==
    /\ InTool("list")
    /\ Complete([exec.out EXCEPT !.files = Ascending(NewFiles)], exec.seen)
    /\ UNCHANGED << now, mtime, documents, run, books, faults >>

DONE_STATUSES == {"ok", "needs_review", "rejected"}
\* A mutated form of DocumentsOf: nothing is compared by sha256.
NoDocumentsOf(i) == {}

DocumentsOf(i) == {d \in Known : documents[d].invoice = i}

\* A mutated form of ReadByThisRun: the runs' own readings are not recognised.
NeverRead(d) == FALSE

ReadByThisRun(d) == exec.run \in ToSet(documents[d].readBy)

\* One turn of the loop up to the call of the model: the newest document of the
\* same content decides whether the file is passed on, skipped or read.
ReadFile ==
    /\ InTool("read")
    /\ exec.todo <= Len(exec.memory.files)
    /\ LET i == exec.memory.files[exec.todo]
           d == IF DocumentsOf(i) = {} THEN Len(documents) + 1 ELSE Max(DocumentsOf(i))
           ours == d \in Known /\ ReadByThisRun(d)
           handled == d \in Known /\ \/ documents[d].status \in DONE_STATUSES
                                     \/ documents[d].readBy # << >>
       IN \/ /\ ours
             /\ exec' = [exec EXCEPT !.out.document_ids = Append(exec.out.document_ids, d),
                                     !.todo = exec.todo + 1,
                                     !.seen[d] = documents[d].status]
             /\ UNCHANGED documents
          \/ /\ ~ours /\ handled
             /\ exec' = [exec EXCEPT !.todo = exec.todo + 1]
             /\ UNCHANGED documents
          \/ /\ ~ours /\ ~handled
             /\ exec' = [exec EXCEPT !.place = "answer", !.reading = d]
             /\ documents' = IF d \in Known THEN documents
                             ELSE Append(documents, [invoice |-> i, status |-> "processing",
                                        readBy |-> << >>, faulty |-> FALSE, accepted |-> FALSE])
    /\ UNCHANGED << now, mtime, run, step, books, faults >>

MayFail(d) == documents[d].invoice \in Questionable

\* The answer is an invoice, which the check step will judge, or nothing usable,
\* or the file could not be decoded in the first place.
ReadAnswer ==
    /\ exec.place = "answer"
    /\ LET d == exec.reading
           goesOn == [exec EXCEPT !.place = "tool", !.todo = exec.todo + 1]
       IN \/ \E faulty \in IF MayFail(d) THEN BOOLEAN ELSE {FALSE} :
                /\ documents' = [documents EXCEPT
                        ![d].readBy = Append(documents[d].readBy, exec.run),
                        ![d].status = "processing", ![d].faulty = faulty]
                /\ exec' = [goesOn EXCEPT !.seen[d] = "processing",
                                !.out.document_ids = Append(exec.out.document_ids, d)]
          \/ /\ MayFail(d)
             /\ \E status \in {"failed", "rejected"} :
                    documents' = [documents EXCEPT ![d].status = status]
             /\ exec' = goesOn
    /\ UNCHANGED << now, mtime, run, step, books, faults >>

\* What may be in the rows once each d has been assigned status[d]: a row whose
\* copy in the session says so already is not written, and may differ by now.
Assigned(status) ==
    {new \in [DOMAIN status -> DocumentStatus] : \A d \in DOMAIN status :
        \/ new[d] = status[d]
        \/ exec.seen[d] = status[d] /\ new[d] = documents[d].status}

Seen(status) == [d \in Ids |-> IF d \in DOMAIN status THEN status[d] ELSE exec.seen[d]]

\* The verdict on the documents at positions from to last of the input: all pass
\* but those in bad.  A document that met the rules may fail them later, when
\* another invoice has the same number (QC-06), and the rules are asked each time.
Verdict(from, last, bad) ==
    [d \in {Input(Key)[n] : n \in from .. last} |->
        IF d \in bad THEN "needs_review" ELSE "ok"]

Judge(verdict) ==
    \E new \in Assigned(verdict) :
        documents' = [d \in Known |->
            IF d \in DOMAIN verdict
            THEN [documents[d] EXCEPT !.status = new[d], !.faulty = verdict[d] # "ok"]
            ELSE documents[d]]

Passing(from, last) == \A n \in from .. last : ~documents[Input(Key)[n]].faulty

\* ctx.log commits with each document that fails, together with those that
\* passed since the last one.
CheckSome ==
    /\ InTool("check")
    /\ \E n \in exec.todo .. Len(Input(Key)) :
        LET d == Input(Key)[n]
            verdict == Verdict(exec.todo, n, {d})
        IN /\ Passing(exec.todo, n - 1)
           /\ documents[d].faulty \/ MayFail(d)
           /\ Judge(verdict)
           /\ exec' = [exec EXCEPT !.todo = n + 1, !.seen = Seen(verdict),
                    !.out.passed = exec.out.passed \o SubSeq(Input(Key), exec.todo, n - 1),
                    !.out.review = Append(exec.out.review, d)]
    /\ UNCHANGED << now, mtime, run, step, books, faults >>

\* The documents after the last one that failed are committed by _mark.
CheckRest ==
    /\ InTool("check")
    /\ Passing(exec.todo, Len(Input(Key)))
    /\ LET verdict == Verdict(exec.todo, Len(Input(Key)), {})
           passed == exec.out.passed \o SubSeq(Input(Key), exec.todo, Len(Input(Key)))
       IN /\ Judge(verdict)
          /\ Complete([exec.out EXCEPT !.passed = passed,
                            !.document_ids = passed \o exec.out.review], Seen(verdict))
    /\ UNCHANGED << now, mtime, run, books, faults >>

\* A new workbook with a row for each document, saved and logged.
AppendRows ==
    /\ InTool("write")
    /\ books' = [books EXCEPT ![exec.run] = Append(books[exec.run], Input(Key))]
    /\ exec' = [exec EXCEPT !.place = "done"]
    /\ UNCHANGED << now, mtime, documents, run, step, faults >>

Escalate ==
    /\ InTool("escalate")
    /\ LET status == [d \in ToSet(Input(Key)) |-> "needs_review"] IN
       /\ \E new \in Assigned(status) :
            documents' = [d \in Known |-> IF d \in DOMAIN status
                            THEN [documents[d] EXCEPT !.status = new[d]] ELSE documents[d]]
       /\ exec' = [exec EXCEPT !.place = "done", !.out.review = Input(Key),
                               !.seen = Seen(status)]
    /\ UNCHANGED << now, mtime, run, step, books, faults >>

StepDone ==
    /\ \/ exec.place = "done"
       \/ InTool("read") /\ exec.todo > Len(exec.memory.files)
    /\ Complete(exec.out, exec.seen)
    /\ UNCHANGED << now, mtime, documents, run, books, faults >>

-----------------------------------------------------------------------------
(* Errors and interruptions. *)

Fault == faults < MaxFaults /\ faults' = faults + 1

\* The tool raised a transient error: another attempt of the step, as long as its
\* retry_max allows; the rollback expires the session.
RetryStep ==
    /\ exec.place \in {"tool", "answer"}
    /\ Fault
    /\ Workflow.onError[Key] = "retry" /\ exec.attempt <= Workflow.retryMax[Key]
    /\ exec' = [exec EXCEPT !.place = "tool", !.attempt = exec.attempt + 1, !.todo = 1,
                            !.out = Fresh(Key), !.seen = Idle.seen]
    /\ UNCHANGED << now, mtime, documents, run, step, books >>

\* A permanent error in a step with on_error=skip.
PassOver ==
    /\ exec.place \in {"tool", "answer"}
    /\ Fault
    /\ Workflow.onError[Key] = "skip"
    /\ Mark("FAILED")
    /\ exec' = [NextStep("FAILED_SKIPPED") EXCEPT !.out = NoMemory, !.seen = Idle.seen]
    /\ UNCHANGED << now, mtime, documents, run, books >>

\* Where a pass that broke off leaves its run, unless it was cancelled meanwhile.
BreakOff(status) ==
    /\ run' = IF Cancelled THEN run ELSE [run EXCEPT ![exec.run].status = status]
    /\ exec' = Idle

\* RETRYING, and FAILED at once if this was the last attempt of the job.
Again == IF run[exec.run].attempts < MaxAttempts THEN "retrying" ELSE "failed"

\* The step failed for good: a transient error whatever on_error says, or a
\* permanent one where on_error is not skip.
StepFails ==
    /\ exec.place \in {"tool", "answer"}
    /\ Fault
    /\ Mark("FAILED")
    /\ \/ /\ Workflow.onError[Key] = "retry" => exec.attempt > Workflow.retryMax[Key]
          /\ BreakOff(Again)
       \/ Workflow.onError[Key] # "skip" /\ BreakOff("failed")
    /\ UNCHANGED << now, mtime, documents, books >>

\* The worker died, and the reaper gave the job back or up; or an exception came
\* out of execute itself.
Interrupt ==
    /\ exec.run # None
    /\ Fault
    /\ \E status \in {Again, "failed"} : BreakOff(status)
    /\ UNCHANGED << now, mtime, documents, step, books >>

Execute ==
    \/ LeaveOut \/ StopCancelled \/ SkipStep \/ StartStep \/ Finish
    \/ ListNewFiles \/ ReadFile \/ ReadAnswer \/ CheckSome \/ CheckRest
    \/ AppendRows \/ Escalate \/ StepDone

Next ==
    \/ \E i \in Invoices : Arrive(i) \/ Upload(i)
    \/ \E r \in Runs : CreateRun(r) \/ CancelRun(r) \/ Begin(r)
    \/ \E d \in Known, accept \in BOOLEAN : Resolve(d, accept)
    \/ Execute
    \/ RetryStep \/ PassOver \/ StepFails \/ Interrupt

Spec == Init /\ [][Next]_vars

-----------------------------------------------------------------------------
(* Properties. *)

\* The rows have the columns declared above.
TypeOK ==
    /\ mtime \in [Invoices -> 0 .. now]
    /\ \A d \in Known : d \in Ids /\ documents[d].status \in DocumentStatus
                                /\ ToSet(documents[d].readBy) \subseteq Runs \cup {None}
    /\ \A r \in Runs : run[r] \in RunRow
    /\ step \in [Runs -> [Keys -> StepStatus]]
    /\ \A r \in Runs : \A n \in DOMAIN books[r] : ToSet(books[r][n]) \subseteq Known
    /\ exec.run \in Runs \cup {None}

Booked(r) == UNION {ToSet(books[r][n]) : n \in DOMAIN books[r]}

\* A run that SUCCEEDED has every invoice it read, and that is ok, in one of its
\* workbooks, whatever errors, attempts and reviews there were on the way, unless
\* somebody uploaded the same invoice after the run had read it, or a run before
\* it, which began after the file had come, succeeded meanwhile: to an attempt
\* after that the file is an old one.
NothingForgotten ==
    \A r \in Runs : run[r].status = "succeeded" =>
        \A d \in ReadBy(r) : LET i == documents[d].invoice IN
            /\ documents[d].status = "ok" /\ d = Max(DocumentsOf(i))
            /\ \A s \in 1 .. (r - 1) : run[s].status = "succeeded" => run[s].started < mtime[i]
            => d \in Booked(r)

\* When a workbook is saved, every invoice in it is ok, and after a review
\* somebody accepted each of them.
WrittenAreAccepted ==
    [][\A r \in Runs : books'[r] # books[r] =>
        \A d \in ToSet(Last(books'[r])) :
            documents[d].status = "ok" /\ (exec.resume => documents[d].accepted)]_vars

\* A run never has the model read an invoice twice, however often it is retried.
ReadOnce ==
    \A i \in Invoices : \A r \in Runs :
        Cardinality(UNION {{<< d, n >> : n \in
                               {m \in DOMAIN documents[d].readBy : documents[d].readBy[m] = r}} :
                           d \in {e \in Known : documents[e].invoice = i}}) <= 1

\* A file as old as the start of the last successful run, which the next run takes
\* for an old one, has been looked at: it has a document.
NoFileMissed ==
    LET cutoff == Max({0} \cup {run[r].started : r \in
                        {s \in Runs : run[s].status \in {"succeeded", "needs_review"}}})
    IN \A i \in Invoices : mtime[i] \in 1 .. cutoff => DocumentsOf(i) # {}

\* A run that SUCCEEDED has no step left to do, and none that failed unless its
\* on_error says so.
SucceededIsComplete ==
    \A r \in Runs : run[r].status = "succeeded" =>
        \A k \in Keys : \/ step[r][k] \in {"SUCCEEDED", "SKIPPED"}
                        \/ step[r][k] = "FAILED" /\ Workflow.onError[k] = "skip"

\* vision_tools.py:5-7: files already processed are skipped, so trying again is
\* safe: after a successful run no ok invoice of its folder is in no workbook.
NoInvoiceLost ==
    \A r \in Runs : run[r].status = "succeeded" =>
        \A d \in Known : LET i == documents[d].invoice IN
            (mtime[i] \in 1 .. run[r].started /\ documents[d].status = "ok"
                /\ None \notin ToSet(documents[d].readBy))
                => \E s \in Runs : d \in Booked(s)
-----------------------------------------------------------------------------
(* What the life of a run promises: RunPromise. *)

\* Claim and start are one step here, and so are a fault and what is made of it.
RunPass(r) == IF exec.run = r THEN "underway" ELSE "none"

Promised == INSTANCE RunPromise WITH
    Faulty <- FALSE,
    phase <- [r \in Runs |-> PhaseOf(run[r].status)],
    pass <- [r \in Runs |-> RunPass(r)],
    waited <- [r \in Runs |-> run[r].reviewed]

\* What is done with the invoices keeps every run to that promise, the one that
\* RunLifecycle keeps with the queue, the threads and the reaper.
ImplementsRuns == Promised!Spec
=============================================================================
