------------------------------- MODULE RunState -------------------------------
(***************************************************************************)
(* The state machine of a run, domain/state.py: the statuses, the table of *)
(* allowed transitions, and the groups of statuses the services ask for.   *)
(***************************************************************************)

RunStatus == {"pending", "claimed", "running", "retrying", "needs_review",
              "succeeded", "failed", "cancelled"}

TERMINAL_STATUSES == {"succeeded", "failed", "cancelled"}

\* run_service.ACTIVE_STATUSES: an employee has at most one such run.
ACTIVE_STATUSES == {"pending", "claimed", "running", "retrying"}

TRANSITIONS ==
    [pending      |-> {"claimed", "cancelled"},
     claimed      |-> {"running", "failed", "cancelled"},
     running      |-> {"succeeded", "failed", "retrying", "needs_review", "cancelled"},
     retrying     |-> {"pending", "claimed", "failed", "cancelled"},
     needs_review |-> {"succeeded", "failed", "retrying", "cancelled"},
     succeeded    |-> {},
     failed       |-> {},
     cancelled    |-> {}]

CanTransition(a, b) == b \in TRANSITIONS[a]

\* How far a run with this status has come, in the words of RunPromise.tla.
PhaseOf(status) ==
    CASE status \in {"pending", "claimed", "retrying"} -> "queued"
      [] status = "needs_review" -> "waiting"
      [] OTHER -> status
=============================================================================
