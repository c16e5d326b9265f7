-------------------------------- MODULE Compiler --------------------------------
(***************************************************************************)
(* POST /employees: threads that compile a description into a workflow,    *)
(* by a call that classifies it and up to three that fill in a template,   *)
(* and save an employee if the result is valid.                            *)
(*                                                                         *)
(* A request is one transaction, which reads (the user, the catalogue)     *)
(* before the model is called and writes after the last answer.            *)
(***************************************************************************)
EXTENDS Validators, ModelCalls

CONSTANTS Drafts,       \* Drafts[d]: the WorkflowSpecs that the model fills in
          MaxEmployees, \* bound: the employees that are saved
          Malformed,    \* an answer that is no WorkflowSpec
          None

ASSUME CompilerAssumption == {None, Malformed} \cap DOMAIN Drafts = {}

\* The steps of a WorkflowSpec are a list.
ASSUME DraftsAssumption ==
    \A d \in DOMAIN Drafts : Drafts[d].steps \in Seq(ToSet(Drafts[d].steps))

VARIABLES request,   \* request[c]: the frame of compile in thread c
          employees  \* the workflows saved

vars == << failures, openFor, waiting, up, request, employees >>

MAX_COMPILE_ATTEMPTS == 3

\* What the validators say of each draft, computed once.
Errors == [d \in DOMAIN Drafts |-> ValidateSpec(Drafts[d])]

\* errors are last_errors; previous_errors are their messages.
\* heard: history, an attempt got an answer.
Idle == [pc |-> "idle", attempt |-> 0, spec |-> None, errors |-> {}, failed |-> 0,
         heard |-> FALSE]

Codes == {"V1", "V2", "V3", "V4", "V5", "COMPILE-0", "COMPILE-1", "COMPILE-2"}

Frame == [pc : {"idle", "classify", "extract", "save"},
          attempt : 0 .. MAX_COMPILE_ATTEMPTS, failed : 0 .. MAX_COMPILE_ATTEMPTS,
          spec : DOMAIN Drafts \cup {None}, errors : SUBSET Codes, heard : BOOLEAN]

Init ==
    /\ CallsInit
    /\ request = [c \in Callers |-> Idle]
    /\ employees = {}

\* get_current_user and tool_catalog have read.
Begin(c) ==
    /\ request[c].pc = "idle"
    /\ request' = [request EXCEPT ![c] = [Idle EXCEPT !.pc = "classify"]]
    /\ UNCHANGED << failures, openFor, waiting, up, employees >>

Calls(c) ==
    /\ request[c].pc \in {"classify", "extract"}
    /\ Send(c)
    /\ UNCHANGED << request, employees >>

-----------------------------------------------------------------------------
(* What compile makes of the outcome of a call. *)

\* The end of compile: the answer is written with the audit record.
Ends(row, spec, errors) == [row EXCEPT !.pc = "save", !.spec = spec, !.errors = errors]

\* The loop goes round, or the last attempt is over.
Continues(row) ==
    IF row.attempt < MAX_COMPILE_ATTEMPTS THEN [row EXCEPT !.attempt = @ + 1]
    ELSE IF row.failed = MAX_COMPILE_ATTEMPTS THEN Ends(row, None, {"COMPILE-1"})
    ELSE Ends(row, row.spec, row.errors)

\* LLMTimeout, LLMInvalidOutput or LLMUnavailable; in the first call it ends compile
\* and compile_text makes COMPILE-1 of it.
AfterFailure(row) ==
    IF row.pc = "classify" THEN Ends(row, None, {"COMPILE-1"})
    ELSE Continues([row EXCEPT !.failed = @ + 1])

AfterClassified(row, found) ==
    IF found THEN [row EXCEPT !.pc = "extract", !.attempt = 1]
    ELSE Ends(row, None, {"COMPILE-0"})

\* A mutated form of AfterDraft: an answer that is no WorkflowSpec leaves last_errors.
AfterDraftSilent(row, draft) ==
    LET heard == [row EXCEPT !.heard = TRUE] IN
    IF draft = Malformed THEN Continues(heard)
    ELSE IF Errors[draft] = {} THEN Ends(heard, draft, {})
    ELSE Continues([heard EXCEPT !.spec = draft, !.errors = Errors[draft]])

AfterDraft(row, draft) ==
    LET heard == [row EXCEPT !.heard = TRUE] IN
    IF draft = Malformed THEN Continues([heard EXCEPT !.errors = {"COMPILE-2"}])
    ELSE IF Errors[draft] = {} THEN Ends(heard, draft, {})
    ELSE Continues([heard EXCEPT !.spec = draft, !.errors = Errors[draft]])

\* The call ends with one of the three errors of the port.
CallFails(c) ==
    /\ request[c].pc \in {"classify", "extract"}
    /\ Rejected(c) \/ Failed(c) \/ Refused(c) \/ Answered(c)
    /\ request' = [request EXCEPT ![c] = AfterFailure(@)]
    /\ UNCHANGED employees

Classified(c, found) ==
    /\ request[c].pc = "classify"
    /\ Answered(c)
    /\ request' = [request EXCEPT ![c] = AfterClassified(@, found)]
    /\ UNCHANGED employees

Extracted(c, draft) ==
    /\ request[c].pc = "extract"
    /\ Answered(c)
    /\ request' = [request EXCEPT ![c] = AfterDraft(@, draft)]
    /\ UNCHANGED employees

\* The body is no JSON at all: resp.json raises what nobody catches, and the request
\* ends with nothing written.
Unreadable(c) ==
    /\ request[c].pc \in {"classify", "extract"}
    /\ Answered(c)
    /\ request' = [request EXCEPT ![c] = Idle]
    /\ UNCHANGED employees

-----------------------------------------------------------------------------
(* The end of the request. *)

Ok(row) == row.spec # None /\ row.errors = {}

\* create and the commit of the endpoint: the audit record and the calls in any case,
\* the employee with its workflow if the outcome is ok.
Save(c) ==
    /\ request[c].pc = "save"
    /\ Ok(request[c]) => Cardinality(employees) < MaxEmployees
    /\ employees' = employees \cup (IF Ok(request[c]) THEN {request[c].spec} ELSE {})
    /\ request' = [request EXCEPT ![c] = Idle]
    /\ UNCHANGED callVars

\* The database is locked, since somebody committed while the model was asked: nothing
\* of the request is left.
Fail(c) ==
    /\ request[c].pc = "save"
    /\ request' = [request EXCEPT ![c] = Idle]
    /\ UNCHANGED << failures, openFor, waiting, up, employees >>

Advance(c) ==
    \/ Calls(c) \/ CallFails(c) \/ Unreadable(c)
    \/ \E found \in BOOLEAN : Classified(c, found)
    \/ \E draft \in DOMAIN Drafts \cup {Malformed} : Extracted(c, draft)
    \/ Save(c) \/ Fail(c)

Clock == Tick /\ UNCHANGED << request, employees >>

Next ==
    \/ \E c \in Callers : Begin(c) \/ Advance(c)
    \/ Clock
    \/ ServerChanges /\ UNCHANGED << request, employees >>

Spec == Init /\ [][Next]_vars

\* Time passes, and a thread that has begun goes on; users need not come, nor does
\* the server come back.
FairSpec == Spec /\ WF_vars(Clock) /\ \A c \in Callers : WF_vars(Advance(c))

-----------------------------------------------------------------------------
(* Properties. *)

\* What a thread and the table may hold.
TypeOK ==
    /\ CallsTypeOK
    /\ request \in [Callers -> Frame]
    /\ employees \subseteq DOMAIN Drafts

\* What compile_text returns can be told apart: no errors means a workflow that keeps
\* every rule and no workflow means errors, whichever attempts failed in between;
\* and the model is said to be out of reach exactly if no attempt was answered.
OutcomeIsExplained ==
    \A c \in Callers : request[c].pc = "save" =>
        LET row == request[c] IN
        /\ row.errors = {} <=> row.spec # None /\ Errors[row.spec] = {}
        /\ row.errors # {"COMPILE-0"} => (row.errors = {"COMPILE-1"} <=> ~row.heard)

\* The steps that are executed before a step of a workflow on some way to it.
Before(spec, key) ==
    LET keys == StepKeys(spec)
        reached[n \in 0 .. Len(keys)] ==
            IF n = 0 THEN Parents(keys, spec.edges, key)
            ELSE reached[n - 1] \cup UNION {Parents(keys, spec.edges, k) : k \in reached[n - 1]}
    IN reached[Len(keys)]

\* A workflow as the worker goes through it: every step has a place in the order, a
\* tool that may be used and the parameters it must have; and whichever step leads
\* to it, that step and those before it have written what it reads.
Executable(spec) ==
    LET keys == StepKeys(spec) IN
    /\ IsOrdered(keys, spec.edges)
    /\ ToSet(TopoOrder(Stored(keys, spec.edges), spec.edges)) = ToSet(keys)
    /\ \A key \in ToSet(keys) :
          LET tool == TOOL_REGISTRY[ToolOf(spec, key)] IN
          /\ ToolOf(spec, key) \in DOMAIN TOOL_REGISTRY \ Disabled
          /\ tool.params \subseteq StepOf(spec, key).given
          /\ \A parent \in Parents(keys, spec.edges, key) :
                tool.required \subseteq
                    UNION {TOOL_REGISTRY[ToolOf(spec, k)].properties :
                               k \in {parent} \cup Before(spec, parent)}

Runs == {d \in DOMAIN Drafts : Executable(Drafts[d])}

\* Whatever the model answers, an employee is saved only with a workflow that the
\* worker can go through.
SavedWorkflowsRun == employees \subseteq Runs

\* When the server stays up, the breaker closes and stays closed, however many threads
\* go on calling while it is open.
Recovers == <>[]up => <>[](openFor = 0)
=============================================================================
