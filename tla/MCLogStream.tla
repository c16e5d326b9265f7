---------------------------- MODULE MCLogStream ----------------------------
(* LogStream on the run of MCRunLifecycle, with two jobs and two threads. *)
EXTENDS LogStream, MCRunLifecycle, TLC

Alike == Permutations(Workers)
=============================================================================
