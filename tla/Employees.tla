------------------------------- MODULE Employees -------------------------------
(***************************************************************************)
(* An AI employee, the versions of its workflow with their schedules, and  *)
(* the scheduler of the worker process, which follows the schedules from   *)
(* another process and makes runs of them.                                 *)
(*                                                                         *)
(* A request is one transaction.  The scheduler's jobs are not: each reads *)
(* the tables, and acts on what it read later.                             *)
(***************************************************************************)
EXTENDS Workflows

CONSTANTS Versions,     \* the numbers of the versions, 1 .. n
          Offered,      \* bound: Offered[v], the specifications sent for version v
          MaxRestarts,  \* bound: how often the worker process is restarted
          None

ASSUME EmployeesAssumption ==
    /\ Versions \subseteq Nat
    /\ MaxRestarts \in Nat
    /\ None \notin Versions

\* The steps of a specification are a list.
ASSUME OfferedAssumption ==
    \A v \in Versions : \A spec \in Offered[v] : spec.steps \in Seq(ToSet(spec.steps))

VARIABLES employee,  \* the row of ai_employees: its status and current_workflow_id
          workflow,  \* workflow[v]: version v and is_enabled of its schedule
          run,       \* the newest run and whether some run is active
          wanted,    \* what sync_schedules has read, None when it is not at work
          jobs,      \* the versions whose schedules are registered as cron jobs
          due,       \* the schedules the scheduler is about to make a run of
          restarts

vars == << employee, workflow, run, wanted, jobs, due, restarts >>

EmployeeStatus == {"absent", "draft", "active", "paused", "archived"}
WorkflowStatus == {"absent", "pending", "approved", "archived"}
Specs == UNION {Offered[v] : v \in Versions}

\* What the specifications come to, each computed once.
Valid == {s \in Specs : IsValid(s.steps, s.edges)}
StoredSteps == [s \in Valid |-> Stored(s.steps, s.edges)]
ExecutionOrder == [s \in Valid |-> TopoOrder(StoredSteps[s], s.edges)]

NoWorkflow == [status |-> "absent", spec |-> None, enabled |-> FALSE]

Init ==
    /\ employee = [status |-> "absent", current |-> None]
    /\ workflow = [v \in Versions |-> NoWorkflow]
    /\ run = [version |-> None, trigger |-> "manual", active |-> FALSE]
    /\ wanted = None
    /\ jobs = {}
    /\ due = {}
    /\ restarts = 0

-----------------------------------------------------------------------------
(* Requests. *)

\* A new version is pending, and its schedule disabled.
SaveNewVersion(v, spec) ==
    /\ workflow[v].status = "absent"
    /\ \A w \in Versions : w < v => workflow[w].status # "absent"
    /\ spec \in Offered[v] \cap Valid
    /\ workflow' = [workflow EXCEPT ![v] =
                       [status |-> "pending", spec |-> spec, enabled |-> FALSE]]

\* POST /employees; nothing is kept if the description does not compile.
Create(v, spec) ==
    /\ employee.status = "absent"
    /\ SaveNewVersion(v, spec)
    /\ employee' = [employee EXCEPT !.status = "draft"]
    /\ UNCHANGED << run, wanted, jobs, due, restarts >>

\* PUT /workflows/{id}, whatever the status of the employee and of the version edited.
UpdateWorkflow(v, spec) ==
    /\ employee.status # "absent"
    /\ SaveNewVersion(v, spec)
    /\ UNCHANGED << employee, run, wanted, jobs, due, restarts >>

\* A mutated form of SyncScheduleEnabled: whether the employee is active is not asked.
SyncCurrentOnly(emp, versions) ==
    [v \in Versions |-> [versions[v] EXCEPT !.enabled = v = emp.current]]

SyncScheduleEnabled(emp, versions) ==
    [v \in Versions |-> [versions[v] EXCEPT !.enabled =
        emp.status = "active" /\ v = emp.current]]

\* Mutated forms of ArchiveOthers: only the approved ones, as the docstring of
\* approve has it; only those that wait.
ArchiveApproved(v) ==
    [w \in Versions |-> IF w # v /\ workflow[w].status = "approved"
                        THEN [workflow[w] EXCEPT !.status = "archived"] ELSE workflow[w]]
ArchivePending(v) ==
    [w \in Versions |-> IF w # v /\ workflow[w].status = "pending"
                        THEN [workflow[w] EXCEPT !.status = "archived"] ELSE workflow[w]]

ArchiveOthers(v) ==
    [w \in Versions |-> IF w # v /\ workflow[w].status \in {"approved", "pending"}
                        THEN [workflow[w] EXCEPT !.status = "archived"] ELSE workflow[w]]

Approve(v) ==
    /\ workflow[v].status \in {"pending", "approved"}
    /\ employee.status # "archived"
    /\ employee' = [status |-> IF employee.status = "draft" THEN "active" ELSE employee.status,
                    current |-> v]
    /\ workflow' = SyncScheduleEnabled(employee',
                       [ArchiveOthers(v) EXCEPT ![v].status = "approved"])
    /\ UNCHANGED << run, wanted, jobs, due, restarts >>

\* PATCH /employees/{id}
SetStatus(status) ==
    /\ employee.status \notin {"absent", "archived", status}
    /\ status = "active" => employee.current # None
    /\ employee' = [employee EXCEPT !.status = status]
    /\ workflow' = SyncScheduleEnabled(employee', workflow)
    /\ UNCHANGED << run, wanted, jobs, due, restarts >>

\* DELETE /employees/{id}
Archive ==
    /\ employee.status # "absent"
    /\ employee' = [employee EXCEPT !.status = "archived"]
    /\ workflow' = SyncScheduleEnabled(employee', workflow)
    /\ UNCHANGED << run, wanted, jobs, due, restarts >>

\* create_run; otherwise it raises Conflict.
MayCreateRun ==
    /\ employee.status \notin {"absent", "archived"}
    /\ employee.current # None
    /\ ~run.active

NewRun(trigger) == [version |-> employee.current, trigger |-> trigger, active |-> TRUE]

\* POST /runs
TriggerRun ==
    /\ MayCreateRun
    /\ run' = NewRun("manual")
    /\ UNCHANGED << employee, workflow, wanted, jobs, due, restarts >>

\* A run leaves the active statuses, and comes back after a review.
RunEndsOrResumes ==
    /\ run.version # None
    /\ run' = [run EXCEPT !.active = ~run.active]
    /\ UNCHANGED << employee, workflow, wanted, jobs, due, restarts >>

-----------------------------------------------------------------------------
(* The scheduler. *)

ActiveSchedules(trigger) ==
    {v \in Versions : /\ workflow[v].enabled
                      /\ workflow[v].spec.trigger = trigger
                      /\ employee.current = v
                      /\ employee.status = "active"}

\* The first half of sync_schedules, a session of its own.
ReadSchedules ==
    /\ wanted = None
    /\ wanted' = ActiveSchedules("cron")
    /\ UNCHANGED << employee, workflow, run, jobs, due, restarts >>

\* A mutated form of Registered: nothing is removed.
RegisteredOnly == jobs \cup wanted

\* The jobs not wanted are removed, and those missing are added.
Registered == wanted

RegisterJobs ==
    /\ wanted # None
    /\ jobs' = Registered
    /\ wanted' = None
    /\ UNCHANGED << employee, workflow, run, due, restarts >>

\* The hour of a cron job: APScheduler calls _fire_cron in a thread of its pool.
CronFires(v) ==
    /\ v \in jobs
    /\ due' = due \cup {<< v, "cron" >>}
    /\ UNCHANGED << employee, workflow, run, wanted, jobs, restarts >>

\* The first half of watch_folders, when has_new_files says so.
WatchFolders(v) ==
    /\ v \in ActiveSchedules("file_watch")
    /\ due' = due \cup {<< v, "file_watch" >>}
    /\ UNCHANGED << employee, workflow, run, wanted, jobs, restarts >>

\* A mutated form of StillWanted: only the flag of the schedule is read again.
StillEnabled(v) == employee.status = "active"

StillWanted(v) ==
    workflow[v].enabled /\ employee.status = "active" /\ employee.current = v

CreateScheduledRun(v, trigger) ==
    /\ << v, trigger >> \in due
    /\ due' = due \ {<< v, trigger >>}
    /\ run' = IF StillWanted(v) /\ MayCreateRun THEN NewRun(trigger) ELSE run
    /\ UNCHANGED << employee, workflow, wanted, jobs, restarts >>

\* The jobs are in memory only.
Restart ==
    /\ restarts < MaxRestarts
    /\ restarts' = restarts + 1
    /\ jobs' = {} /\ wanted' = None /\ due' = {}
    /\ UNCHANGED << employee, workflow, run >>

Next ==
    \/ \E v \in Versions : \E spec \in Offered[v] : Create(v, spec) \/ UpdateWorkflow(v, spec)
    \/ \E v \in Versions : Approve(v) \/ CronFires(v) \/ WatchFolders(v)
    \/ \E status \in {"active", "paused", "archived"} : SetStatus(status)
    \/ Archive \/ TriggerRun \/ RunEndsOrResumes
    \/ ReadSchedules \/ RegisterJobs
    \/ \E v \in Versions, trigger \in {"cron", "file_watch"} : CreateScheduledRun(v, trigger)
    \/ Restart

\* sync_schedules is a job of the scheduler with an interval of its own.
Fairness == WF_vars(ReadSchedules) /\ WF_vars(RegisterJobs)

Spec == Init /\ [][Next]_vars /\ Fairness

-----------------------------------------------------------------------------
(* Properties. *)

\* The rows have the columns declared above.
TypeOK ==
    /\ employee \in [status : EmployeeStatus, current : Versions \cup {None}]
    /\ workflow \in [Versions -> [status : WorkflowStatus, spec : Specs \cup {None},
                                  enabled : BOOLEAN]]
    /\ run \in [version : Versions \cup {None}, trigger : {"manual", "cron", "file_watch"},
                active : BOOLEAN]
    /\ wanted = None \/ wanted \subseteq Versions
    /\ jobs \subseteq Versions
    /\ due \subseteq Versions \X {"cron", "file_watch"}
    /\ restarts \in 0 .. MaxRestarts

\* The version an employee points at is its only approved one, and an employee
\* that is active has one.
CurrentIsApproved ==
    /\ {v \in Versions : workflow[v].status = "approved"} = {employee.current} \ {None}
    /\ employee.status = "active" => employee.current # None

\* Exactly the schedule of the current version of an active employee is enabled,
\* by whatever way the employee came to its status.
EnabledIfActive ==
    \A v \in Versions :
        workflow[v].enabled <=> employee.status = "active" /\ v = employee.current

\* Approvals go forward only: once a version was approved, no older one becomes
\* the current one, even if it was still a draft at that time.
CurrentAdvances ==
    [][employee'.current # employee.current =>
        employee.current = None \/ employee'.current > employee.current]_employee

\* The scheduler makes a run only of a version that is approved when the run is
\* made, with the trigger of that version, though it read the schedule earlier.
FiresWhatIsApproved ==
    [][(run' # run /\ run'.active /\ ~run.active /\ due' # due) =>
        /\ workflow[run'.version].status = "approved"
        /\ workflow[run'.version].spec.trigger = run'.trigger
        /\ employee.status = "active"]_vars

\* Once the employee and its versions change no more, the cron jobs become and
\* stay the schedules that are enabled.
JobsFollow ==
    <>[][FALSE]_<< employee, workflow >> => <>[](jobs = ActiveSchedules("cron"))

Position(s, k) == CHOOSE i \in DOMAIN ExecutionOrder[s] : ExecutionOrder[s][i] = k

\* Every version that was saved can be executed: each of its steps has a place in
\* the order, behind every step it depends on.
OrderRespectsEdges ==
    \A v \in Versions : workflow[v].status # "absent" =>
        LET s == workflow[v].spec IN
        /\ ToSet(ExecutionOrder[s]) = ToSet(s.steps)
        /\ Len(ExecutionOrder[s]) = Len(s.steps)
        /\ \A e \in ToSet(s.edges) : Position(s, e.from) < Position(s, e.to)

\* A workflow is executed in the order in which it is kept and shown.
ExecutedAsShown ==
    \A v \in Versions : workflow[v].status # "absent" =>
        ExecutionOrder[workflow[v].spec] = StoredSteps[workflow[v].spec]
=============================================================================
