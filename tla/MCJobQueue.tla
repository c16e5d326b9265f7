----------------------------- MODULE MCJobQueue -----------------------------
(* JobQueue on two jobs and two worker threads. *)
EXTENDS JobQueue

CONSTANTS w1, w2

MCJobs == 1..2
MCWorkers == {w1, w2}
MCPriorities == {0, 1}
\* min(30 * 2^a, 900) in units of 60 s.
MCBackoff == [a \in 1..MaxAttempts |-> IF 2^a < 30 THEN 2^(a - 1) ELSE 15]
=============================================================================
