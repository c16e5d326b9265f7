-------------------------------- MODULE LogStream --------------------------------
(***************************************************************************)
(* The log of one run and the page that follows it: the table run_logs,    *)
(* which every transition of the run and every thread that executes it     *)
(* adds lines to, and the stream that a browser reads over connections     *)
(* that may be lost.  The run itself, its threads, the reaper and their    *)
(* faults are those of RunLifecycle.                                       *)
(*                                                                         *)
(* Lines are numbered by their commits: only one transaction at a time     *)
(* writes, and the numbers are given when it does.                         *)
(***************************************************************************)
EXTENDS RunLifecycle, Sequences

CONSTANTS Watched,   \* the run whose page is open
          Limit,     \* lines per read of the log
          MaxLines   \* bound: the lines up to which a step has something to say

ASSUME LogStreamAssumption ==
    /\ Watched \in Runs
    /\ Limit \in Nat \ {0}
    /\ MaxLines \in Nat

VARIABLES lines,   \* how many rows run_logs has of Watched; an id is a position
          stream   \* the stream of the log, both ends

logVars == << vars, lines, stream >>

\* got: what the browser received, in order; last: what the server sent last on this
\* connection; end: the run's status when it was read last; early: whether a thread
\* was still at the run, which the server cannot see.
Stream == [at : {"off", "open", "lost", "done"}, last : Nat, got : Seq(Nat),
           end : RunStatus \cup {"absent"}, early : BOOLEAN]
NoStream == [at |-> "off", last |-> 0, got |-> << >>, end |-> "absent", early |-> FALSE]

LogInit ==
    /\ Init
    /\ lines = 0
    /\ stream = NoStream

-----------------------------------------------------------------------------
(* Who writes the log. *)

\* A run that is created and every transition add a line; a run that is put back
\* into the queue by its reviewer makes two transitions in one commit.
LinesOf(before, after) ==
    CASE after = before -> 0
      [] before = "needs_review" /\ after = "pending" -> 2
      [] OTHER -> 1

RunMoves ==
    /\ Next
    /\ lines' = lines + LinesOf(run[Watched].status, run'[Watched].status)
    /\ UNCHANGED stream

\* _log, in a commit of its own, of a thread that executes the run: it asks nothing,
\* whatever became of the run and of its lease meanwhile.
Says(w) ==
    /\ worker[w].at \in Executing
    /\ RunOf(w) = Watched
    /\ lines < MaxLines
    /\ lines' = lines + 1
    /\ UNCHANGED << vars, stream >>

-----------------------------------------------------------------------------
(* GET /runs/{id}/logs. *)

Watching(row) ==
    /\ stream' = row
    /\ UNCHANGED << vars, lines >>

\* The header of a connection: what the browser received last.
LastEventId(got) == IF got = << >> THEN 0 ELSE got[Len(got)]

Connect ==
    /\ stream.at \in {"off", "lost"}
    /\ run[Watched].status # "absent"
    /\ Watching([stream EXCEPT !.at = "open", !.last = LastEventId(stream.got)])

\* logs_after: the next lines, at most Limit.
LinesAfter(n) == [i \in 1 .. (IF lines - n < Limit THEN lines - n ELSE Limit) |-> n + i]

\* A mutated form of NoMore: a run that is over has no line left to send.
NoMoreOnceOver(batch) == ~Active(Watched)

NoMore(batch) == batch = << >> /\ ~Active(Watched)

\* _poll reads lines and status in one transaction, and nothing else is looked at
\* while the lines are sent: one step.
Poll ==
    LET batch == LinesAfter(stream.last) IN
    /\ stream.at = "open"
    /\ Watching([at |-> IF NoMore(batch) THEN "done" ELSE "open",
                 last |-> stream.last + Len(batch), got |-> stream.got \o batch,
                 end |-> run[Watched].status, early |-> PassOver(Watched) # "none"])

\* The connection is lost, before a read or while lines are sent.  The browser tries
\* again after a while, until it was told that the log is done.
Lose ==
    /\ stream.at = "open"
    /\ \E n \in 0 .. Len(LinesAfter(stream.last)) :
          Watching([stream EXCEPT !.at = "lost",
                                  !.got = @ \o SubSeq(LinesAfter(stream.last), 1, n)])

\* The page is left, and opened again later.
Reload ==
    /\ stream.at # "off"
    /\ Watching(NoStream)

LogNext ==
    \/ RunMoves
    \/ \E w \in Workers : Says(w)
    \/ Connect \/ Poll \/ Lose \/ Reload

LogSpec == LogInit /\ [][LogNext]_logVars

-----------------------------------------------------------------------------
(* Properties. *)

ReceivedInOrder == \A i \in DOMAIN stream.got : stream.got[i] = i

\* The run has gone on since the browser was told that it waits for a review.
GoneOn == stream.end = "needs_review" /\ run[Watched].status # "needs_review"

\* A thread was still at it: the run had been cancelled under it, or, with faults, had a
\* thread past its lease or a second job, and the other one ended the run.
ToldTooEarly == stream.early /\ (stream.end = "cancelled" \/ ~Told(Watched))

DoneIsComplete ==
    stream.at = "done" => Len(stream.got) = lines \/ GoneOn \/ ToldTooEarly

\* The browser receives the lines of the log in order, each exactly once and none left
\* out, whenever connections are lost and made again; and when it is told that the log
\* is done, no line is missing and none will come.  There are two exceptions, in which
\* the code goes on writing after it said so.  A run that waited for a review goes on.
\* And a thread may still be at the run: one that has not noticed the cancellation, or
\* one past its lease, which notices nothing but a cancellation, while the reaper failed
\* the run by the status of its job, or another thread took it to its end.
LogArrives == ReceivedInOrder /\ DoneIsComplete
=============================================================================
