------------------------------ MODULE RunPromise ------------------------------
(***************************************************************************)
(* What a run promises whoever waits for it, with the queue, the threads,  *)
(* the steps of the workflow and the invoices left out: one pass at a time *)
(* is made over it, it waits for a reviewer at most once, it ends once,    *)
(* and only a pass that is underway, a decision or a cancellation moves it *)
(* out of the queue and on.                                                *)
(*                                                                         *)
(* RunLifecycle.tla implements this module, with and without faults, and   *)
(* so does Execution.tla.                                                  *)
(***************************************************************************)
CONSTANTS Runs,    \* the ids a row of runs can get
          Faulty   \* whether threads die, crash or outlive their lease

VARIABLES phase,   \* phase[r]: how far run r has come, as its user sees it
          pass,    \* pass[r]: whether a thread took r, and is executing it
          waited   \* waited[r]: r has come to wait for a reviewer

vars == << phase, pass, waited >>

\* "adrift": nothing is promised of the run any more, see Drift.
Phases == {"absent", "queued", "running", "waiting", "succeeded", "failed", "cancelled",
           "adrift"}

Init ==
    /\ phase = [r \in Runs |-> "absent"]
    /\ pass = [r \in Runs |-> "none"]
    /\ waited = [r \in Runs |-> FALSE]

Becomes(r, newPhase, newPass) ==
    /\ phase' = [phase EXCEPT ![r] = newPhase]
    /\ pass' = [pass EXCEPT ![r] = newPass]

-----------------------------------------------------------------------------
(* Its users. *)

Create(r) ==
    /\ phase[r] = "absent"
    /\ Becomes(r, "queued", "none")
    /\ waited' = [waited EXCEPT ![r] = FALSE]

\* The pass that is underway is not stopped at once.
Cancel(r) ==
    /\ phase[r] \in {"queued", "running", "waiting"}
    /\ Becomes(r, "cancelled", pass[r])
    /\ UNCHANGED waited

\* The reviewer's last decision: there is something to go on with, or not.
Decide(r) ==
    /\ phase[r] = "waiting"
    /\ \E next \in {"queued", "succeeded"} : Becomes(r, next, "none")
    /\ UNCHANGED waited

-----------------------------------------------------------------------------
(* A pass over it. *)

Take(r) ==
    /\ phase[r] = "queued" /\ pass[r] = "none"
    /\ Becomes(r, "queued", "taken")
    /\ UNCHANGED waited

\* A run that was cancelled after it was taken runs all the same: the pass does
\* not look again.
Begin(r) ==
    /\ \/ phase[r] = "queued" /\ pass[r] # "underway"
       \/ phase[r] = "cancelled" /\ pass[r] = "taken"
    /\ Becomes(r, "running", "underway")
    /\ UNCHANGED waited

Underway(r) == phase[r] = "running" /\ pass[r] = "underway"

\* It comes to an end, or goes back into the queue after an error.
Leave(r) ==
    /\ Underway(r)
    /\ \E next \in {"queued", "succeeded", "failed"} : Becomes(r, next, "none")
    /\ UNCHANGED waited

Wait(r) ==
    /\ Underway(r)
    /\ ~waited[r]
    /\ Becomes(r, "waiting", "none")
    /\ waited' = [waited EXCEPT ![r] = TRUE]

\* It finds the run cancelled.
Stop(r) ==
    /\ phase[r] = "cancelled" /\ pass[r] = "underway"
    /\ Becomes(r, "cancelled", "none")
    /\ UNCHANGED waited

\* The attempts are used up.
GiveUp(r) ==
    /\ phase[r] = "queued" /\ pass[r] = "none"
    /\ Becomes(r, "failed", "none")
    /\ UNCHANGED waited

-----------------------------------------------------------------------------
(* With faults. *)

\* The thread is gone, or has to report an exception before anything else.
Lose(r) ==
    /\ Faulty
    /\ Becomes(r, phase[r], "none")
    /\ UNCHANGED waited

\* Where a run that no pass is made over may be put.
RecoveredTo(before) ==
    CASE before = "running" -> {"queued", "failed"}
      [] before \in {"queued", "waiting"} -> {"failed"}
      [] OTHER -> {}

\* The thread that reports an exception recovers its run, the reaper all of them.
Recover ==
    /\ Faulty
    /\ phase' \in [Runs -> Phases]
    /\ \A r \in Runs : \/ phase'[r] = phase[r]
                       \/ pass[r] = "none" /\ phase'[r] \in RecoveredTo(phase[r])
    /\ UNCHANGED << pass, waited >>

\* A thread of the run worked past its lease, or a second job of it may overtake
\* the first: two passes may meet.
Drift(r) ==
    /\ Faulty
    /\ Becomes(r, "adrift", "none")
    /\ waited' = [waited EXCEPT ![r] = FALSE]

RunStep(r) ==
    \/ Create(r) \/ Cancel(r) \/ Decide(r)
    \/ Take(r) \/ Begin(r) \/ Leave(r) \/ Wait(r) \/ Stop(r) \/ GiveUp(r)
    \/ Lose(r) \/ Drift(r)

Next == Recover \/ \E r \in Runs : RunStep(r)

Spec == Init /\ [][Next]_vars
=============================================================================
