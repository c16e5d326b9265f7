--------------------------- MODULE MCRunLifecycle ---------------------------
(* RunLifecycle on one employee and two worker threads, with one or two runs. *)
EXTENDS RunLifecycle

CONSTANTS w1, w2, e1

TwoRuns == 1..2
OneRun == {1}
NoRuns == {}
TwoJobs == 1..2
ThreeJobs == 1..3
BothWorkers == {w1, w2}
OneEmployee == {e1}
NoFaults == {}
AllFaults == {"die", "crash", "stall"}
=============================================================================
