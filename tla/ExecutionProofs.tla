---------------------------- MODULE ExecutionProofs ----------------------------
(***************************************************************************)
(* Proofs about Execution, for every workflow, any number of runs,         *)
(* invoices, faults, reviews and uploads: the rows keep their types, a run *)
(* that succeeded has done all of its steps, no run has the model read an  *)
(* invoice twice; and, for workflows shaped like the templates, a workbook *)
(* holds accepted invoices only, no file of the folder is missed, and no   *)
(* invoice that was read and accepted is left out of the workbooks.  Last, *)
(* for every workflow, a run keeps what RunPromise says of it.             *)
(*                                                                         *)
(* The inductive invariant is Everything: Shape (columns), Progress (the   *)
(* steps behind the pass are over), Readings (a document is read once),    *)
(* Papers (what the thread has in memory), Rows, Filing, Shelf. Judged,    *)
(* FolderInv and WorkInv add what the three about such workflows need.     *)
(***************************************************************************)
EXTENDS Execution, FiniteSetTheorems, SequenceTheorems, WellFoundedInduction, TLAPS

ExecFields == {"run", "index", "place", "attempt", "todo", "reading", "memory", "out",
               "outcome", "resume", "since", "seen"}
RunFields == {"status", "started", "attempts", "reviewed"}
DocumentFields == {"invoice", "status", "readBy", "faulty", "accepted"}
InStep == {"tool", "answer", "done"}

\* What the rows hold, as far as the argument needs it.
Shape ==
    /\ DOMAIN exec = ExecFields
    /\ exec.run \in Runs \cup {None}
    /\ exec.index \in Nat
    /\ exec.place \in {"idle", "start"} \cup InStep
    /\ exec.place = "idle" <=> exec.run = None
    /\ DOMAIN run = Runs
    /\ \A r \in Runs : DOMAIN run[r] = RunFields
    /\ step \in [Runs -> [Keys -> StepStatus]]

\* A step that holds up no run: it is over, or it failed and may be skipped.
Over(k, status) ==
    \/ status \in {"SUCCEEDED", "SKIPPED"}
    \/ status = "FAILED" /\ Workflow.onError[k] = "skip"

\* The steps of r in the set ks are over.
AllOver(r, ks) == \A k \in ks : Over(k, step[r][k])

\* Before a step is started every step in front of it is over; while one is
\* executed, every other.  The same key twice in the order would do no harm.
FrontIsOver(row, steps) ==
    \A n \in 1 .. Len(Order) : n < row.index =>
        \/ Over(Order[n], steps[Order[n]])
        \/ row.place \in InStep /\ Order[n] = Order[row.index]

\* The pass that is executed: a pass after a review leaves alone what is not in
\* the pass branch.
PassInv(row, runs, steps) ==
    row.run # None =>
        /\ runs[row.run].status \in {"running", "cancelled"}
        /\ row.resume = runs[row.run].reviewed
        /\ row.index >= 1
        /\ FrontIsOver(row, steps[row.run])
        /\ row.place \in InStep =>
            /\ row.index <= Len(Order)
            /\ row.resume => Order[row.index] \in PassBranch

Progress ==
    /\ \A r \in Runs : run[r].status \in {"succeeded", "needs_review"} => AllOver(r, Keys)
    /\ \A r \in Runs : run[r].reviewed => AllOver(r, Keys \ PassBranch)
    /\ PassInv(exec, run, step)

\* Each document was read at most once, by one run or for an upload.
ReadAtMostOnce(row) ==
    row.readBy = << >> \/ \E r \in Runs \cup {None} : row.readBy = << r >>

\* Of the documents of an invoice, one at most is not that of an upload.
OneForRuns(docs) ==
    \A d, e \in DOMAIN docs :
        docs[d].invoice = docs[e].invoice /\ docs[d].readBy # << None >>
            /\ docs[e].readBy # << None >> => d = e

\* The document the model is asked about has not been read.
AskedIsUnread(row, docs) ==
    row.place = "answer" => row.reading \in DOMAIN docs /\ docs[row.reading].readBy = << >>

Readings ==
    /\ documents \in Seq(ToSet(documents))
    /\ \A d \in Known : DOMAIN documents[d] = DocumentFields /\ ReadAtMostOnce(documents[d])
    /\ OneForRuns(documents)
    /\ AskedIsUnread(exec, documents)

IInv == Shape /\ Progress /\ Readings

-----------------------------------------------------------------------------
(* The order, and the greatest of a set. *)

LEMMA OrderIsFinite == Len(Order) \in Nat
<1>1. Len(Workflow.steps) \in Nat
  BY ExecutionAssumption
<1> QED  BY <1>1, ExecutionAssumption DEF IsOrdered, Order

LEMMA KeyIsAKey == exec.index \in 1 .. Len(Order) => Key \in Keys
BY DEF Key, Keys

LEMMA RunsAreNotNone == None \notin Runs
BY ExecutionAssumption

LEMMA Smallest ==
    ASSUME NEW S, S \subseteq Nat, S # {}
    PROVE  \E n \in S : \A m \in S : n <= m
<1>1. PICK n \in S : \A m \in S : << m, n >> \notin OpToRel(<, Nat)
  BY NatLessThanWellFounded, WFMin
<1>2. n \in S /\ \A m \in S : ~(m < n)
  BY <1>1 DEF OpToRel
<1>3. \A m \in S : m \in Nat /\ n \in Nat
  OBVIOUS
<1>4. \A m \in S : n <= m
  BY <1>2, <1>3
<1> QED  BY <1>2, <1>4

LEMMA Greatest ==
    ASSUME NEW L \in Nat, NEW S, S \subseteq 1 .. L, S # {}
    PROVE  Max(S) \in S /\ \A s \in S : s <= Max(S)
<1> DEFINE T == {L - s : s \in S}
<1>1. T \subseteq Nat
  <2>1. \A s \in S : s \in Int /\ L - s >= 0
    OBVIOUS
  <2> QED  BY <2>1
<1>2. T # {}
  OBVIOUS
<1>3. \E n \in T : \A m \in T : n <= m
  <2> HIDE DEF T
  <2> QED  BY <1>1, <1>2, Smallest
<1>4. PICK n \in T : \A m \in T : n <= m
  BY <1>3
<1>5. L - n \in S /\ \A y \in S : L - n >= y
  BY <1>4
<1> QED  BY <1>5 DEF Max

-----------------------------------------------------------------------------
(* The steps of a run. *)

LEMMA IdlePass ==
    /\ DOMAIN Idle = ExecFields
    /\ Idle.run = None /\ Idle.index = 0 /\ Idle.place = "idle"
BY DEF Idle, ExecFields

LEMMA MarkedOver ==
    Over(Key, "SUCCEEDED") /\ Over(Key, "SKIPPED")
    /\ (Workflow.onError[Key] = "skip" => Over(Key, "FAILED"))
BY DEF Over

\* What happens within a step, and in the world around, leaves the rows of runs
\* and their steps alone.
LEMMA WithinStep ==
    ASSUME Shape, Progress, UNCHANGED << run, step >>,
           DOMAIN exec' = ExecFields, exec'.run = exec.run, exec'.index = exec.index,
           exec'.resume = exec.resume,
           exec'.place = exec.place \/ (exec.place \in InStep /\ exec'.place \in InStep)
    PROVE  Shape' /\ Progress'
<1>1. Shape'
  BY DEF Shape, InStep
<1>2. PassInv(exec', run, step)
  BY DEF Progress, PassInv, FrontIsOver, InStep
<1> QED  BY <1>1, <1>2 DEF Progress, AllOver

\* What people do to runs.
LEMMA RowsChange ==
    ASSUME Shape, Progress, UNCHANGED << exec, step >>,
           DOMAIN run' = Runs,
           \A r \in Runs :
               /\ DOMAIN run'[r] = RunFields /\ run'[r].reviewed = run[r].reviewed
               /\ \/ run'[r].status = run[r].status
                  \/ /\ run'[r].status = "cancelled"
                  \/ /\ run[r].status \notin {"running", "cancelled"}
                     /\ \/ run'[r].status = "pending"
                        \/ run[r].status = "needs_review" /\ run'[r].status = "succeeded"
    PROVE  Shape' /\ Progress'
<1>1. Shape'
  BY DEF Shape
<1>2. PassInv(exec, run', step)
  BY DEF Progress, PassInv, Shape
<1>3. \A r \in Runs : run'[r].status \in {"succeeded", "needs_review"} =>
            run[r].status \in {"succeeded", "needs_review"}
  OBVIOUS
<1> QED  BY <1>1, <1>2, <1>3 DEF Progress, AllOver

\* The thread comes to the next step: the last one is over.
LEMMA Advance ==
    ASSUME Shape, Progress, NEW status \in StepStatus,
           exec.place # "idle", exec.index \in 1 .. Len(Order), run' = run,
           \/ /\ Over(Key, status)
              /\ exec.resume => Key \in PassBranch
              /\ step' = [step EXCEPT ![exec.run][Key] = status]
           \/ /\ exec.place = "start" /\ Over(Key, step[exec.run][Key])
              /\ step' = step,
           DOMAIN exec' = ExecFields, exec'.run = exec.run, exec'.index = exec.index + 1,
           exec'.resume = exec.resume, exec'.place = "start"
    PROVE  Shape' /\ Progress'
<1> DEFINE r == exec.run
<1>1. r \in Runs /\ Key \in Keys /\ exec.index \in Nat
  BY KeyIsAKey DEF Shape
<1>2. step' \in [Runs -> [Keys -> StepStatus]]
  BY <1>1 DEF Shape
<1>3. Shape'
  BY <1>1, <1>2, RunsAreNotNone DEF Shape
<1>4. \A s \in Runs, k \in Keys :
        step'[s][k] = step[s][k] \/ (s = r /\ k = Key /\ Over(k, step'[s][k])
                                        /\ (exec.resume => Key \in PassBranch))
  BY <1>1 DEF Shape
<1>5. Over(Key, step'[r][Key])
  BY <1>1 DEF Shape
<1>6. \A s \in Runs, k \in Keys : Over(k, step[s][k]) => Over(k, step'[s][k])
  BY <1>4
<1>7. PassInv(exec, run, step)
  BY DEF Progress
<1>8. \A n \in 1 .. Len(Order) : Order[n] \in Keys
  BY DEF Keys
<1>9. FrontIsOver(exec', step'[r])
  <2> SUFFICES ASSUME NEW n \in 1 .. Len(Order), n < exec'.index
               PROVE  Over(Order[n], step'[r][Order[n]])
    BY DEF FrontIsOver
  <2>1. CASE Order[n] = Key
    BY <1>5, <2>1
  <2>2. CASE Order[n] # Key
    <3>1. n < exec.index
      BY <2>2, <1>1 DEF Key
    <3>2. Over(Order[n], step[r][Order[n]])
      BY <1>1, <1>7, <2>2, <3>1, RunsAreNotNone DEF PassInv, FrontIsOver, Key
    <3> QED  BY <1>1, <1>6, <1>8, <3>2
  <2> QED  BY <2>1, <2>2
<1>10. PassInv(exec', run, step')
  BY <1>1, <1>7, <1>9, RunsAreNotNone DEF PassInv, InStep
<1> QED  BY <1>3, <1>6, <1>10 DEF Progress, AllOver

\* The thread takes up a step.
LEMMA TakeUp ==
    ASSUME Shape, Progress, exec.place = "start", exec.index \in 1 .. Len(Order),
           run' = run, step' = [step EXCEPT ![exec.run][Key] = "RUNNING"],
           exec.resume => Key \in PassBranch,
           DOMAIN exec' = ExecFields, exec'.run = exec.run, exec'.index = exec.index,
           exec'.resume = exec.resume, exec'.place = "tool"
    PROVE  Shape' /\ Progress'
<1> DEFINE r == exec.run
<1>1. r \in Runs /\ Key \in Keys /\ exec.index \in Nat
  BY KeyIsAKey DEF Shape
<1>2. step' \in [Runs -> [Keys -> StepStatus]]
  BY <1>1 DEF Shape, StepStatus
<1>3. Shape'
  BY <1>1, <1>2, RunsAreNotNone DEF Shape, InStep
<1>4. \A s \in Runs, k \in Keys : step'[s][k] = step[s][k] \/ (s = r /\ k = Key)
  BY <1>1 DEF Shape
<1>5. PassInv(exec, run, step)
  BY DEF Progress
<1>6. \A n \in 1 .. Len(Order) : Order[n] \in Keys
  BY DEF Keys
<1>7. run[r].status \in {"running", "cancelled"} /\ exec.resume = run[r].reviewed
      /\ FrontIsOver(exec, step[r])
  BY <1>1, <1>5, RunsAreNotNone DEF PassInv
<1>8. FrontIsOver(exec', step'[r])
  <2> SUFFICES ASSUME NEW n \in 1 .. Len(Order), n < exec.index, Order[n] # Key
               PROVE  Over(Order[n], step'[r][Order[n]])
    BY DEF FrontIsOver, InStep, Key
  <2>1. Over(Order[n], step[r][Order[n]])
    BY <1>7 DEF FrontIsOver, InStep
  <2> QED  BY <1>1, <1>4, <1>6, <2>1
<1>9. PassInv(exec', run, step')
  BY <1>1, <1>7, <1>8 DEF PassInv, InStep, Key
<1>10. \A s \in Runs : run[s].status \in {"succeeded", "needs_review"} =>
            AllOver(s, Keys)'
  BY <1>4, <1>7 DEF Progress, AllOver
<1>11. \A s \in Runs : run[s].reviewed => AllOver(s, Keys \ PassBranch)'
  BY <1>4, <1>7 DEF Progress, AllOver
<1> QED  BY <1>3, <1>9, <1>10, <1>11 DEF Progress, AllOver

\* The thread lets its run go, before the end.
LEMMA LetGo ==
    ASSUME Shape, Progress, exec.run # None, exec' = Idle,
           DOMAIN run' = Runs,
           \A r \in Runs :
               /\ DOMAIN run'[r] = RunFields /\ run'[r].reviewed = run[r].reviewed
               /\ \/ run'[r].status = run[r].status
                  \/ r = exec.run /\ run'[r].status \in {"retrying", "failed"},
           \/ step' = step
           \/ /\ exec.place \in InStep
              /\ step' = [step EXCEPT ![exec.run][Key] = "FAILED"]
    PROVE  Shape' /\ Progress'
<1> DEFINE r == exec.run
<1>1. r \in Runs /\ PassInv(exec, run, step)
  BY DEF Shape, Progress
<1>2. run[r].status \in {"running", "cancelled"} /\ exec.resume = run[r].reviewed
      /\ (exec.place \in InStep /\ exec.resume => Key \in PassBranch)
  BY <1>1 DEF PassInv, Key
<1>3. step' \in [Runs -> [Keys -> StepStatus]]
  BY <1>1 DEF Shape, StepStatus
<1>4. Shape'
  BY <1>1, <1>3, IdlePass DEF Shape
<1>5. \A s \in Runs, k \in Keys : step'[s][k] = step[s][k]
        \/ (s = r /\ k = Key /\ exec.place \in InStep)
  BY <1>1 DEF Shape
<1>6. \A s \in Runs : run'[s].status \in {"succeeded", "needs_review"} =>
            AllOver(s, Keys)'
  BY <1>2, <1>5 DEF Progress, AllOver
<1>7. \A s \in Runs : run'[s].reviewed => AllOver(s, Keys \ PassBranch)'
  BY <1>2, <1>5 DEF Progress, AllOver
<1>8. PassInv(exec', run', step')
  BY IdlePass DEF PassInv
<1> QED  BY <1>4, <1>6, <1>7, <1>8 DEF Progress

LEMMA RunStarts ==
    ASSUME Shape, Progress, NEW r \in Runs, Begin(r)
    PROVE  Shape' /\ Progress'
<1>1. /\ DOMAIN exec' = ExecFields /\ exec'.run = r /\ exec'.index = 1
      /\ exec'.place = "start" /\ exec'.resume = run[r].reviewed
  BY DEF Begin, Idle, ExecFields
<1>2. /\ DOMAIN run' = Runs /\ \A s \in Runs : DOMAIN run'[s] = RunFields
      /\ \A s \in Runs : run'[s].reviewed = run[s].reviewed
      /\ \A s \in Runs \ {r} : run'[s].status = run[s].status
      /\ run'[r].status = "running"
  BY DEF Begin, Shape, RunFields
<1>3. /\ step' \in [Runs -> [Keys -> StepStatus]]
      /\ \A s \in Runs, k \in Keys : step'[s][k] = step[s][k] \/ step[s][k] = "none"
  BY DEF Begin, Shape, StepStatus
<1>4. Shape'
  BY <1>1, <1>2, <1>3, RunsAreNotNone DEF Shape
<1>5. \A s \in Runs, k \in Keys : Over(k, step[s][k]) => Over(k, step'[s][k])
  BY <1>3 DEF Over
<1>6. PassInv(exec', run', step')
  BY <1>1, <1>2 DEF PassInv, FrontIsOver, InStep
<1>7. \A s \in Runs : run'[s].status \in {"succeeded", "needs_review"} => AllOver(s, Keys)'
  BY <1>2, <1>5 DEF Progress, AllOver
<1>8. \A s \in Runs : run'[s].reviewed => AllOver(s, Keys \ PassBranch)'
  BY <1>2, <1>5 DEF Progress, AllOver
<1> QED  BY <1>4, <1>6, <1>7, <1>8 DEF Progress

LEMMA RunFinishes ==
    ASSUME Shape, Progress, Finish
    PROVE  Shape' /\ Progress'
<1> DEFINE r == exec.run
<1>1. exec.place = "start" /\ exec.index > Len(Order) /\ exec' = Idle /\ step' = step
  BY DEF Finish
<1>2. r \in Runs /\ r # None /\ PassInv(exec, run, step)
  BY <1>1, RunsAreNotNone DEF Shape, Progress
<1>3. AllOver(r, Keys)
  <2> SUFFICES ASSUME NEW n \in 1 .. Len(Order)
               PROVE  Over(Order[n], step[r][Order[n]])
    BY DEF AllOver, Keys
  <2>1. n < exec.index
    BY <1>1, OrderIsFinite DEF Shape
  <2> QED  BY <1>1, <1>2, <2>1 DEF PassInv, FrontIsOver, InStep
<1>4. \/ run' = run
      \/ \E status, seen : run' = [run EXCEPT ![r].status = status, ![r].reviewed = seen]
  BY DEF Finish
<1>5. /\ DOMAIN run' = Runs
      /\ \A s \in Runs : DOMAIN run'[s] = RunFields
      /\ \A s \in Runs \ {r} : run'[s] = run[s]
  BY <1>4 DEF Shape, RunFields
<1>6. Shape'
  BY <1>1, <1>5, IdlePass DEF Shape
<1>7. PassInv(exec', run', step')
  BY <1>1, IdlePass DEF PassInv
<1>8. \A s \in Runs : run'[s].status \in {"succeeded", "needs_review"} => AllOver(s, Keys)
  BY <1>3, <1>5 DEF Progress
<1>9. \A s \in Runs : run'[s].reviewed => AllOver(s, Keys \ PassBranch)
  BY <1>3, <1>5 DEF Progress, AllOver
<1> QED  BY <1>1, <1>6, <1>7, <1>8, <1>9 DEF Progress, AllOver

LEMMA DecisionResolves ==
    ASSUME Shape, Progress, NEW d \in Known, NEW accept \in BOOLEAN, Resolve(d, accept)
    PROVE  Shape' /\ Progress'
<1>1. UNCHANGED << exec, step >>
  BY DEF Resolve
<1>2. \/ run' = run
      \/ \E r, docs : run' = [run EXCEPT ![r] = AfterReview(r, docs)]
  BY DEF Resolve
<1>3. \A r, docs : \/ AfterReview(r, docs) = run[r]
                   \/ /\ run[r].status = "needs_review"
                      /\ \/ AfterReview(r, docs) = [run[r] EXCEPT !.status = "succeeded"]
                         \/ AfterReview(r, docs) =
                                [run[r] EXCEPT !.status = "pending", !.attempts = 0]
  BY DEF AfterReview, Requeued
<1>4. CASE run' = run
  BY <1>1, <1>4, RowsChange DEF Shape
<1>5. ASSUME NEW r, NEW docs, run' = [run EXCEPT ![r] = AfterReview(r, docs)]
      PROVE  Shape' /\ Progress'
  <2>1. DOMAIN run' = Runs /\ \A s \in Runs \ {r} : run'[s] = run[s]
    BY <1>5 DEF Shape
  <2>2. r \in Runs => run'[r] = AfterReview(r, docs)
    BY <1>5 DEF Shape
  <2>3. r \in Runs =>
          /\ DOMAIN run'[r] = RunFields /\ run'[r].reviewed = run[r].reviewed
          /\ \/ run'[r].status = run[r].status
             \/ /\ run[r].status = "needs_review"
                /\ run'[r].status \in {"succeeded", "pending"}
    <3> SUFFICES ASSUME r \in Runs
                 PROVE  /\ DOMAIN run'[r] = RunFields /\ run'[r].reviewed = run[r].reviewed
                        /\ \/ run'[r].status = run[r].status
                           \/ /\ run[r].status = "needs_review"
                              /\ run'[r].status \in {"succeeded", "pending"}
      OBVIOUS
    <3>1. DOMAIN run[r] = RunFields
      BY DEF Shape
    <3>2. CASE run'[r] = run[r]
      BY <3>1, <3>2
    <3>3. CASE run[r].status = "needs_review"
                /\ run'[r] = [run[r] EXCEPT !.status = "succeeded"]
      BY <3>1, <3>3 DEF RunFields
    <3>4. CASE run[r].status = "needs_review"
                /\ run'[r] = [run[r] EXCEPT !.status = "pending", !.attempts = 0]
      BY <3>1, <3>4 DEF RunFields
    <3> QED  BY <1>3, <2>2, <3>2, <3>3, <3>4
  <2>4. \A s \in Runs : DOMAIN run[s] = RunFields
    BY DEF Shape
  <2> QED  BY <1>1, <2>1, <2>3, <2>4, RowsChange
<1> QED  BY <1>2, <1>4, <1>5

LEMMA StepIsCompleted ==
    ASSUME Shape, Progress, exec.place \in InStep, NEW out, NEW seen, Complete(out, seen),
           run' = run
    PROVE  Shape' /\ Progress'
<1>1. /\ exec.run \in Runs /\ exec.index \in 1 .. Len(Order)
      /\ (exec.resume => Key \in PassBranch)
  BY OrderIsFinite, RunsAreNotNone DEF Shape, Progress, PassInv, InStep, Key
<1>2. /\ DOMAIN exec' = ExecFields /\ exec'.run = exec.run /\ exec'.index = exec.index + 1
      /\ exec'.resume = exec.resume /\ exec'.place = "start"
  BY DEF Complete, NextStep, Shape, ExecFields
<1>3. step' = [step EXCEPT ![exec.run][Key] = "SUCCEEDED"]
  BY DEF Complete, Mark
<1>4. "SUCCEEDED" \in StepStatus /\ exec.place # "idle"
  BY DEF StepStatus, InStep
<1> QED  BY <1>1, <1>2, <1>3, <1>4, MarkedOver, Advance

LEMMA ToolWorks ==
    ASSUME Shape, Progress,
           ReadFile \/ ReadAnswer \/ CheckSome \/ AppendRows \/ Escalate \/ RetryStep
    PROVE  Shape' /\ Progress'
<1>1. /\ exec.place \in InStep /\ exec'.place \in InStep
      /\ DOMAIN exec' = ExecFields /\ exec'.run = exec.run /\ exec'.index = exec.index
      /\ exec'.resume = exec.resume /\ run' = run /\ step' = step
  <2>1. CASE ReadFile
    BY Zenon, <2>1 DEF ReadFile, InTool, InStep, Shape, ExecFields
  <2>2. CASE ReadAnswer
    BY <2>2 DEF ReadAnswer, InStep, Shape, ExecFields
  <2>3. CASE CheckSome
    BY <2>3 DEF CheckSome, InTool, InStep, Shape, ExecFields
  <2>4. CASE AppendRows
    BY <2>4 DEF AppendRows, InTool, InStep, Shape, ExecFields
  <2>5. CASE Escalate
    BY <2>5 DEF Escalate, InTool, InStep, Shape, ExecFields
  <2>6. CASE RetryStep
    BY <2>6 DEF RetryStep, InStep, Shape, ExecFields
  <2> QED  BY <2>1, <2>2, <2>3, <2>4, <2>5, <2>6
<1> QED  BY <1>1, WithinStep

LEMMA ToolEnds ==
    ASSUME Shape, Progress, ListNewFiles \/ CheckRest \/ StepDone
    PROVE  Shape' /\ Progress'
<1>1. exec.place \in InStep /\ run' = run /\ \E out, seen : Complete(out, seen)
  BY DEF ListNewFiles, CheckRest, StepDone, InTool, InStep
<1> QED  BY <1>1, StepIsCompleted

LEMMA StepIsBegun ==
    ASSUME Shape, Progress, LeaveOut \/ SkipStep \/ StartStep \/ StopCancelled
    PROVE  Shape' /\ Progress'
<1>1. /\ exec.place = "start" /\ exec.place # "idle" /\ exec.run \in Runs
      /\ exec.run # None /\ exec.index \in 1 .. Len(Order) /\ run' = run
      /\ exec.resume = run[exec.run].reviewed
  BY OrderIsFinite, RunsAreNotNone
  DEF Shape, Progress, PassInv, InStep, LeaveOut, SkipStep, StartStep, StopCancelled, AtStart
<1>2. Key \in ResumeKeys => (exec.resume => Key \in PassBranch)
  BY DEF ResumeKeys
<1>3. \A outcome : LET row == NextStep(outcome) IN
        /\ DOMAIN row = ExecFields /\ row.run = exec.run /\ row.index = exec.index + 1
        /\ row.resume = exec.resume /\ row.place = "start"
  BY DEF NextStep, Shape, ExecFields
<1>4. CASE LeaveOut
  <2>1. exec.resume /\ Key \notin PassBranch /\ Key \in Keys
    BY <1>1, <1>4, KeyIsAKey DEF LeaveOut, ResumeKeys
  <2>2. Over(Key, step[exec.run][Key])
    BY <1>1, <2>1 DEF Progress, AllOver
  <2>3. step' = step /\ exec' = NextStep(step[exec.run][Key]) /\ "none" \in StepStatus
    BY <1>4 DEF LeaveOut, StepStatus
  <2> QED  BY <1>1, <1>3, <2>2, <2>3, Advance
<1>5. CASE SkipStep
  <2>1. /\ step' = [step EXCEPT ![exec.run][Key] = "SKIPPED"] /\ exec' = NextStep("SKIPPED")
        /\ Key \in ResumeKeys /\ "SKIPPED" \in StepStatus
    BY <1>5 DEF SkipStep, Mark, StepStatus
  <2> QED  BY <1>1, <1>2, <1>3, <2>1, MarkedOver, Advance
<1>6. CASE StartStep
  <2>1. /\ step' = [step EXCEPT ![exec.run][Key] = "RUNNING"] /\ Key \in ResumeKeys
        /\ DOMAIN exec' = ExecFields /\ exec'.run = exec.run /\ exec'.index = exec.index
        /\ exec'.resume = exec.resume /\ exec'.place = "tool"
    BY <1>6 DEF StartStep, Mark, Shape, ExecFields
  <2> QED  BY <1>1, <1>2, <2>1, TakeUp
<1>7. CASE StopCancelled
  <2>1. exec' = Idle /\ step' = step
    BY <1>7 DEF StopCancelled
  <2> QED  BY <1>1, <2>1, LetGo DEF Shape
<1> QED  BY <1>4, <1>5, <1>6, <1>7

LEMMA PassBreaks ==
    ASSUME Shape, Progress, PassOver \/ StepFails \/ Interrupt
    PROVE  Shape' /\ Progress'
<1>1. exec.run \in Runs /\ exec.run # None /\ exec.place # "idle"
  BY RunsAreNotNone DEF Shape, PassOver, StepFails, Interrupt
<1>2. ASSUME NEW status \in {"retrying", "failed"}, BreakOff(status)
      PROVE  /\ exec' = Idle /\ DOMAIN run' = Runs
             /\ \A r \in Runs :
                    /\ DOMAIN run'[r] = RunFields /\ run'[r].reviewed = run[r].reviewed
                    /\ \/ run'[r].status = run[r].status
                       \/ r = exec.run /\ run'[r].status \in {"retrying", "failed"}
  BY <1>2 DEF BreakOff, Shape, RunFields
<1>3. Again \in {"retrying", "failed"}
  BY DEF Again
<1>4. CASE PassOver
  <2>1. /\ step' = [step EXCEPT ![exec.run][Key] = "FAILED"] /\ "FAILED" \in StepStatus
        /\ exec.place \in InStep /\ Workflow.onError[Key] = "skip" /\ run' = run
        /\ DOMAIN exec' = ExecFields /\ exec'.run = exec.run /\ exec'.index = exec.index + 1
        /\ exec'.resume = exec.resume /\ exec'.place = "start"
    BY <1>4 DEF PassOver, Mark, NextStep, StepStatus, InStep, Shape, ExecFields
  <2>2. exec.index \in 1 .. Len(Order) /\ (exec.resume => Key \in PassBranch)
    BY <1>1, <2>1, OrderIsFinite DEF Shape, Progress, PassInv, Key
  <2> QED  BY <1>1, <2>1, <2>2, MarkedOver, Advance
<1>5. CASE StepFails
  <2>1. step' = [step EXCEPT ![exec.run][Key] = "FAILED"] /\ exec.place \in InStep
    BY <1>5 DEF StepFails, Mark, InStep
  <2>2. \E status \in {"retrying", "failed"} : BreakOff(status)
    BY <1>3, <1>5 DEF StepFails
  <2> QED  BY <1>1, <1>2, <2>1, <2>2, LetGo
<1>6. CASE Interrupt
  <2>1. step' = step
    BY <1>6 DEF Interrupt
  <2>2. \E status \in {"retrying", "failed"} : BreakOff(status)
    BY <1>3, <1>6 DEF Interrupt
  <2> QED  BY <1>1, <1>2, <2>1, <2>2, LetGo
<1> QED  BY <1>4, <1>5, <1>6

LEMMA ProgressHolds == Shape /\ Progress /\ [Next]_vars => (Shape /\ Progress)'
<1> SUFFICES ASSUME Shape, Progress, [Next]_vars PROVE (Shape /\ Progress)'
  OBVIOUS
<1>1. CASE UNCHANGED vars
  BY <1>1, WithinStep DEF vars, Shape
<1>2. ASSUME NEW i \in Invoices, Arrive(i) \/ Upload(i)
      PROVE  Shape' /\ Progress'
  <2>1. UNCHANGED << run, step, exec >>
    BY <1>2 DEF Arrive, Upload
  <2> QED  BY <2>1, WithinStep DEF Shape
<1>3. ASSUME NEW r \in Runs, CreateRun(r) \/ CancelRun(r)
      PROVE  Shape' /\ Progress'
  <2>1. UNCHANGED << exec, step >>
    BY <1>3 DEF CreateRun, CancelRun
  <2>2. /\ DOMAIN run' = Runs
        /\ \A s \in Runs :
            /\ DOMAIN run'[s] = RunFields /\ run'[s].reviewed = run[s].reviewed
            /\ \/ run'[s].status = run[s].status
               \/ run'[s].status = "cancelled"
               \/ run[s].status = "absent" /\ run'[s].status = "pending"
    BY <1>3 DEF CreateRun, CancelRun, SetStatus, Shape, RunFields
  <2> QED  BY <2>1, <2>2, RowsChange
<1>4. ASSUME NEW r \in Runs, Begin(r)
      PROVE  Shape' /\ Progress'
  BY <1>4, RunStarts
<1>5. ASSUME NEW d \in Known, NEW accept \in BOOLEAN, Resolve(d, accept)
      PROVE  Shape' /\ Progress'
  BY <1>5, DecisionResolves
<1>6. CASE Execute
  BY <1>6, ToolWorks, ToolEnds, StepIsBegun, RunFinishes DEF Execute
<1>7. CASE RetryStep \/ PassOver \/ StepFails \/ Interrupt
  BY <1>7, ToolWorks, PassBreaks
<1> QED  BY <1>1, <1>2, <1>3, <1>4, <1>5, <1>6, <1>7 DEF Next

-----------------------------------------------------------------------------
(* The readings of an invoice. *)

LEMMA RowsAreASequence ==
    ASSUME NEW n \in Nat, NEW rows, rows = [d \in 1 .. n |-> rows[d]]
    PROVE  rows \in Seq(ToSet(rows)) /\ Len(rows) = n /\ DOMAIN rows = 1 .. n
<1>1. DOMAIN rows = 1 .. n
  OBVIOUS
<1>2. \A d \in 1 .. n : rows[d] \in ToSet(rows)
  BY <1>1 DEF ToSet
<1>3. rows \in [1 .. n -> ToSet(rows)]
  BY <1>2
<1> QED  BY <1>1, <1>3

\* Everything but a reading leaves the readings as they are.
LEMMA SameReadings ==
    ASSUME Readings,
           documents' = [d \in Known |-> documents'[d]],
           \A d \in Known :
               /\ DOMAIN documents'[d] = DocumentFields
               /\ documents'[d].invoice = documents[d].invoice
               /\ documents'[d].readBy = documents[d].readBy,
           exec'.place = "answer" => exec.place = "answer" /\ exec'.reading = exec.reading
    PROVE  Readings'
<1>1. Len(documents) \in Nat /\ Known = 1 .. Len(documents)
  BY DEF Readings, Known
<1>2. Known' = Known /\ DOMAIN documents' = Known /\ documents' \in Seq(ToSet(documents'))
  BY <1>1, RowsAreASequence DEF Known
<1>3. \A d \in Known : ReadAtMostOnce(documents'[d])
  BY DEF Readings, ReadAtMostOnce
<1>4. OneForRuns(documents')
  BY <1>2 DEF Readings, OneForRuns, Known
<1>5. AskedIsUnread(exec', documents')
  BY <1>2 DEF Readings, AskedIsUnread, Known
<1> QED  BY <1>2, <1>3, <1>4, <1>5 DEF Readings

LEMMA UntouchedReadings ==
    ASSUME Readings, documents' = documents,
           exec'.place = "answer" => exec.place = "answer" /\ exec'.reading = exec.reading
    PROVE  Readings'
<1>1. documents = [d \in Known |-> documents[d]]
  BY DEF Readings, Known
<1>2. \A d \in Known : DOMAIN documents[d] = DocumentFields
  BY DEF Readings
<1> QED  BY <1>1, <1>2, SameReadings

LEMMA NewRow ==
    ASSUME Readings, NEW row, DOMAIN row = DocumentFields, ReadAtMostOnce(row),
           documents' = Append(documents, row),
           row.readBy = << None >> \/ \A d \in Known : documents[d].invoice # row.invoice,
           exec'.place = "answer" =>
                \/ exec.place = "answer" /\ exec'.reading = exec.reading
                \/ exec'.reading = Len(documents) + 1 /\ row.readBy = << >>
    PROVE  Readings'
<1> DEFINE n == Len(documents)
<1>1. n \in Nat /\ Known = 1 .. n
  BY DEF Readings, Known
<1>2. documents \in Seq(ToSet(documents) \cup {row})
  BY DEF Readings
<1>3. /\ DOMAIN documents' = 1 .. (n + 1)
      /\ \A d \in Known : documents'[d] = documents[d]
      /\ documents'[n + 1] = row
      /\ documents' = [d \in 1 .. (n + 1) |-> documents'[d]]
  <2>1. documents' \in Seq(ToSet(documents) \cup {row}) /\ Len(documents') = n + 1
    BY <1>2
  <2>2. DOMAIN documents' = 1 .. (n + 1)
    BY <2>1
  <2>3. documents' \in [1 .. (n + 1) -> ToSet(documents) \cup {row}]
    BY <2>1, LenProperties
  <2>4. documents'[n + 1] = row /\ \A d \in Known : documents'[d] = documents[d]
    BY <1>1, <1>2
  <2> QED  BY <2>2, <2>3, <2>4
<1>4. documents' \in Seq(ToSet(documents'))
  <2>1. n + 1 \in Nat /\ documents' = [d \in 1 .. (n + 1) |-> documents'[d]]
    BY <1>1, <1>3
  <2> QED  BY <2>1, RowsAreASequence
<1>5. Known' = 1 .. (n + 1) /\ \A d \in Known' : d \in Known \/ d = n + 1
  BY <1>1, <1>3 DEF Known
<1>6. \A d \in Known' : DOMAIN documents'[d] = DocumentFields /\ ReadAtMostOnce(documents'[d])
  BY <1>3, <1>5 DEF Readings
<1>7. OneForRuns(documents')
  BY <1>3, <1>5 DEF Readings, OneForRuns, Known
<1>8. AskedIsUnread(exec', documents')
  BY <1>1, <1>3, <1>5 DEF Readings, AskedIsUnread, Known
<1> QED  BY <1>4, <1>6, <1>7, <1>8 DEF Readings

LEMMA FileIsRead ==
    ASSUME Shape, Readings, ReadFile
    PROVE  Readings'
<1> DEFINE i == exec.memory.files[exec.todo]
           d == IF DocumentsOf(i) = {} THEN Len(documents) + 1 ELSE Max(DocumentsOf(i))
           handled == d \in Known /\ \/ documents[d].status \in DONE_STATUSES
                                     \/ documents[d].readBy # << >>
           row == [invoice |-> i, status |-> "processing", readBy |-> << >>,
                   faulty |-> FALSE, accepted |-> FALSE]
<1>1. exec.place = "tool"
  BY Zenon DEF ReadFile, InTool
<1>3. \/ documents' = documents /\ exec'.place # "answer"
      \/ /\ ~handled /\ (exec'.place = "answer" => exec'.reading = d)
         /\ documents' = IF d \in Known THEN documents ELSE Append(documents, row)
  <2>1. DOMAIN exec = ExecFields
    BY DEF Shape
  <2>2. \/ /\ exec' = [exec EXCEPT !.out.document_ids = Append(exec.out.document_ids, d),
                                   !.todo = exec.todo + 1, !.seen[d] = documents[d].status]
           /\ documents' = documents
        \/ /\ exec' = [exec EXCEPT !.todo = exec.todo + 1]
           /\ documents' = documents
        \/ /\ ~handled
           /\ exec' = [exec EXCEPT !.place = "answer", !.reading = d]
           /\ documents' = IF d \in Known THEN documents ELSE Append(documents, row)
    BY Zenon DEF ReadFile
  <2> HIDE DEF d, handled, row
  <2>3. CASE exec' = [exec EXCEPT !.out.document_ids = Append(exec.out.document_ids, d),
                                  !.todo = exec.todo + 1, !.seen[d] = documents[d].status]
             /\ documents' = documents
    BY <1>1, <2>1, <2>3 DEF ExecFields
  <2>4. CASE exec' = [exec EXCEPT !.todo = exec.todo + 1] /\ documents' = documents
    BY <1>1, <2>1, <2>4 DEF ExecFields
  <2>5. CASE /\ ~handled
             /\ exec' = [exec EXCEPT !.place = "answer", !.reading = d]
             /\ documents' = IF d \in Known THEN documents ELSE Append(documents, row)
    BY <2>1, <2>5 DEF ExecFields
  <2> QED  BY <2>2, <2>3, <2>4, <2>5
<1>4. Len(documents) \in Nat /\ Known = 1 .. Len(documents)
  BY DEF Readings, Known
<1>5. DocumentsOf(i) # {} => d \in Known
  <2>1. DocumentsOf(i) \subseteq 1 .. Len(documents)
    BY <1>4 DEF DocumentsOf
  <2> QED  BY <1>4, <2>1, Greatest DEF DocumentsOf
<1>6. DocumentsOf(i) = {} =>
        d = Len(documents) + 1 /\ d \notin Known
        /\ \A e \in Known : documents[e].invoice # row.invoice
  BY <1>4 DEF DocumentsOf
<1>7. DOMAIN row = DocumentFields /\ ReadAtMostOnce(row) /\ row.readBy = << >>
  BY DEF DocumentFields, ReadAtMostOnce
<1>8. CASE documents' = documents /\ exec'.place # "answer"
  BY <1>8, UntouchedReadings
<1>9. CASE ~handled /\ d \in Known /\ documents' = documents
            /\ (exec'.place = "answer" => exec'.reading = d)
  <2>1. documents[d].readBy = << >>
    BY <1>9
  <2> QED  BY <1>9, <2>1 DEF Readings, AskedIsUnread, Known
<1>10. CASE d \notin Known /\ documents' = Append(documents, row)
            /\ (exec'.place = "answer" => exec'.reading = d)
  <2>1. d = Len(documents) + 1 /\ \A e \in Known : documents[e].invoice # row.invoice
    BY <1>5, <1>6, <1>10
  <2> HIDE DEF d, row
  <2> QED  BY <1>7, <1>10, <2>1, NewRow
<1> QED
  <2> HIDE DEF d, handled, row
  <2> QED  BY <1>3, <1>8, <1>9, <1>10

LEMMA AnswerIsKept ==
    ASSUME Shape, Readings, ReadAnswer
    PROVE  Readings'
<1> DEFINE d == exec.reading
<1>1. /\ exec.run \in Runs /\ exec.run # None /\ d \in Known
      /\ documents[d].readBy = << >> /\ DOMAIN documents[d] = DocumentFields
      /\ documents = [e \in Known |-> documents[e]]
      /\ \A e \in Known : DOMAIN documents[e] = DocumentFields
  <2>1. exec.run \in Runs /\ exec.run # None
    BY RunsAreNotNone DEF Shape, ReadAnswer
  <2>2. d \in Known /\ documents[d].readBy = << >>
    BY DEF Readings, ReadAnswer, AskedIsUnread, Known
  <2>3. documents = [e \in Known |-> documents[e]]
        /\ \A e \in Known : DOMAIN documents[e] = DocumentFields
    BY DEF Readings, Known
  <2> QED  BY <2>1, <2>2, <2>3
<1>2. exec'.place = "tool"
  BY DEF ReadAnswer, Shape, ExecFields
<1>3. CASE \E status \in {"failed", "rejected"} :
                documents' = [documents EXCEPT ![d].status = status]
  <2>1. documents' = [e \in Known |-> documents'[e]]
    BY <1>1, <1>3 DEF Known
  <2>2. \A e \in Known :
            /\ DOMAIN documents'[e] = DocumentFields
            /\ documents'[e].invoice = documents[e].invoice
            /\ documents'[e].readBy = documents[e].readBy
    BY <1>1, <1>3 DEF Known, DocumentFields
  <2> QED  BY <1>2, <2>1, <2>2, SameReadings
<1>4. CASE \E faulty \in BOOLEAN : documents' = [documents EXCEPT
                ![d].readBy = Append(documents[d].readBy, exec.run),
                ![d].status = "processing", ![d].faulty = faulty]
  <2>1. Append(documents[d].readBy, exec.run) = << exec.run >>
    BY <1>1
  <2>2. PICK faulty \in BOOLEAN : documents' = [documents EXCEPT
                ![d].readBy = << exec.run >>, ![d].status = "processing", ![d].faulty = faulty]
    BY <1>4, <2>1
  <2>3. /\ DOMAIN documents' = Known /\ documents' = [e \in Known |-> documents'[e]]
        /\ \A e \in Known :
            /\ DOMAIN documents'[e] = DocumentFields
            /\ documents'[e].invoice = documents[e].invoice
            /\ e # d => documents'[e].readBy = documents[e].readBy
        /\ documents'[d].readBy = << exec.run >>
    BY <1>1, <2>2 DEF Known, DocumentFields
  <2>4. Len(documents) \in Nat /\ Known = 1 .. Len(documents)
    BY DEF Readings, Known
  <2>5. documents' \in Seq(ToSet(documents'))
    BY <2>3, <2>4, RowsAreASequence
  <2>6. \A e \in Known : ReadAtMostOnce(documents'[e])
    BY <1>1, <2>3 DEF Readings, ReadAtMostOnce
  <2>7. << >> # << None >>
    OBVIOUS
  <2>8. \A e \in Known : documents'[e].readBy # << None >> => documents[e].readBy # << None >>
    BY <1>1, <2>3, <2>7
  <2>9. OneForRuns(documents')
    BY <2>3, <2>8 DEF Readings, OneForRuns, Known
  <2> QED  BY <1>2, <2>3, <2>5, <2>6, <2>9 DEF Readings, AskedIsUnread, Known
<1> QED  BY <1>3, <1>4 DEF ReadAnswer

\* The rows get another status, or become faulty or accepted.
Touched(before, after) ==
    \/ after = before
    \/ \E status : after = [before EXCEPT !.status = status]
    \/ \E status, faulty : after = [before EXCEPT !.status = status, !.faulty = faulty]
    \/ \E status, accepted, faulty :
            after = [before EXCEPT !.status = status, !.accepted = accepted, !.faulty = faulty]

LEMMA TouchedRow ==
    ASSUME NEW before, NEW after, Touched(before, after), DOMAIN before = DocumentFields
    PROVE  DOMAIN after = DocumentFields /\ after.invoice = before.invoice
           /\ after.readBy = before.readBy
BY DEF Touched, DocumentFields

LEMMA RowsKeepReadings ==
    ASSUME Readings, exec'.place # "answer" \/ UNCHANGED exec,
           documents' = [d \in Known |-> documents'[d]],
           \A d \in Known : Touched(documents[d], documents'[d])
    PROVE  Readings'
<1>1. \A d \in Known : DOMAIN documents[d] = DocumentFields
  BY DEF Readings
<1>2. \A d \in Known :
        /\ DOMAIN documents'[d] = DocumentFields
        /\ documents'[d].invoice = documents[d].invoice
        /\ documents'[d].readBy = documents[d].readBy
  BY <1>1, TouchedRow
<1> QED  BY <1>2, SameReadings

LEMMA UploadIsAdded ==
    ASSUME Readings, NEW i, Upload(i)
    PROVE  Readings'
<1>1. PICK doubt : documents' = Append(documents,
            [invoice |-> i, status |-> IF doubt THEN "needs_review" ELSE "ok",
             readBy |-> << None >>, faulty |-> doubt, accepted |-> FALSE])
  BY DEF Upload
<1> DEFINE row == [invoice |-> i, status |-> IF doubt THEN "needs_review" ELSE "ok",
                   readBy |-> << None >>, faulty |-> doubt, accepted |-> FALSE]
<1>2. DOMAIN row = DocumentFields /\ ReadAtMostOnce(row) /\ row.readBy = << None >>
  BY DEF DocumentFields, ReadAtMostOnce
<1>3. exec' = exec
  BY DEF Upload
<1> HIDE DEF row
<1>4. documents' = Append(documents, row)
  BY <1>1 DEF row
<1> QED  BY <1>2, <1>3, <1>4, NewRow

LEMMA ReadingsHold == Shape /\ Readings /\ [Next]_vars => Readings'
<1> SUFFICES ASSUME Shape, Readings, [Next]_vars PROVE Readings'
  OBVIOUS
<1>0. DOMAIN exec = ExecFields /\ Idle.place # "answer"
  BY IdlePass DEF Shape
<1>1. CASE UNCHANGED vars
  BY <1>1, UntouchedReadings DEF vars
<1>2. ASSUME NEW i \in Invoices, Arrive(i) \/ Upload(i)
      PROVE  Readings'
  BY <1>2, UploadIsAdded, UntouchedReadings DEF Arrive
<1>3. ASSUME NEW r \in Runs, CreateRun(r) \/ CancelRun(r)
      PROVE  Readings'
  BY <1>3, UntouchedReadings DEF CreateRun, CancelRun
<1>4. ASSUME NEW r \in Runs, Begin(r)
      PROVE  Readings'
  <2>1. exec'.place = "start" /\ documents' = documents
    BY <1>4 DEF Begin, Idle
  <2> QED  BY <2>1, UntouchedReadings
<1>5. ASSUME NEW d \in Known, NEW accept \in BOOLEAN, Resolve(d, accept)
      PROVE  Readings'
  <2>1. UNCHANGED exec
    BY <1>5 DEF Resolve
  <2>2. PICK status, accepted, faulty : documents' = [documents EXCEPT
            ![d].status = status, ![d].accepted = accepted, ![d].faulty = faulty]
    <3>1. PICK faulty : documents' = [documents EXCEPT
                ![d].status = IF accept THEN "ok" ELSE "rejected",
                ![d].accepted = accept \/ documents[d].accepted, ![d].faulty = faulty]
      BY <1>5 DEF Resolve
    <3> DEFINE newStatus == IF accept THEN "ok" ELSE "rejected"
               newAccepted == accept \/ documents[d].accepted
    <3>2. documents' = [documents EXCEPT
                ![d].status = newStatus, ![d].accepted = newAccepted, ![d].faulty = faulty]
      BY <3>1
    <3> HIDE DEF newStatus, newAccepted
    <3> QED  BY <3>2
  <2>3. documents' = [e \in Known |-> documents'[e]]
    BY <2>2 DEF Known
  <2>4. ASSUME NEW e \in Known PROVE Touched(documents[e], documents'[e])
    <3>1. documents'[e] = documents[e] \/ documents'[e] =
            [documents[e] EXCEPT !.status = status, !.accepted = accepted, !.faulty = faulty]
      BY <2>2 DEF Known
    <3> QED  BY <3>1 DEF Touched
  <2> QED  BY <2>1, <2>3, <2>4, RowsKeepReadings
<1>6. ASSUME NEW out, NEW seen, Complete(out, seen)
      PROVE  exec'.place = "start"
  BY <1>0, <1>6 DEF Complete, NextStep, ExecFields
<1>7. CASE LeaveOut \/ SkipStep \/ StartStep \/ StopCancelled \/ Finish
  <2>1. exec'.place # "answer" /\ documents' = documents
    BY <1>0, <1>7 DEF LeaveOut, SkipStep, StartStep, StopCancelled, Finish, NextStep, ExecFields
  <2> QED  BY <2>1, UntouchedReadings
<1>8. CASE ListNewFiles \/ StepDone
  <2>1. documents' = documents /\ \E out, seen : Complete(out, seen)
    BY <1>8 DEF ListNewFiles, StepDone
  <2> QED  BY <1>6, <2>1, UntouchedReadings
<1>9. CASE ReadFile \/ ReadAnswer
  BY <1>9, FileIsRead, AnswerIsKept
<1>10. CASE CheckSome \/ CheckRest
  <2>1. \E verdict : Judge(verdict)
    BY <1>10 DEF CheckSome, CheckRest
  <2>2. PICK verdict, new : documents' = [d \in Known |-> IF d \in DOMAIN verdict
            THEN [documents[d] EXCEPT !.status = new[d], !.faulty = verdict[d] # "ok"]
            ELSE documents[d]]
    BY Zenon, <2>1 DEF Judge
  <2>4. documents' = [e \in Known |-> documents'[e]]
    BY <2>2
  <2>5. ASSUME NEW e \in Known PROVE Touched(documents[e], documents'[e])
    <3>1. documents'[e] = documents[e] \/ documents'[e] =
            [documents[e] EXCEPT !.status = new[e], !.faulty = verdict[e] # "ok"]
      BY <2>2
    <3> QED  BY <3>1 DEF Touched
  <2>3. exec'.place # "answer"
    <3>1. CASE CheckSome
      BY <1>0, <3>1 DEF CheckSome, InTool, ExecFields
    <3>2. CASE CheckRest
      BY <1>6, <3>2 DEF CheckRest
    <3> QED  BY <1>10, <3>1, <3>2
  <2> QED  BY <2>3, <2>4, <2>5, RowsKeepReadings
<1>11. CASE AppendRows
  <2>1. exec'.place # "answer" /\ documents' = documents
    BY <1>0, <1>11 DEF AppendRows, ExecFields
  <2> QED  BY <2>1, UntouchedReadings
<1>12. CASE Escalate
  <2>1. exec'.place # "answer"
    BY <1>0, <1>12 DEF Escalate, ExecFields
  <2>2. PICK status, new : documents' = [d \in Known |-> IF d \in DOMAIN status
                    THEN [documents[d] EXCEPT !.status = new[d]] ELSE documents[d]]
    BY <1>12 DEF Escalate
  <2>3. documents' = [e \in Known |-> documents'[e]]
    BY <2>2
  <2>4. ASSUME NEW e \in Known PROVE Touched(documents[e], documents'[e])
    <3>1. documents'[e] = documents[e]
            \/ documents'[e] = [documents[e] EXCEPT !.status = new[e]]
      BY <2>2
    <3> QED  BY <3>1 DEF Touched
  <2> QED  BY <2>1, <2>3, <2>4, RowsKeepReadings
<1>13. CASE RetryStep \/ PassOver \/ StepFails \/ Interrupt
  <2>1. exec'.place # "answer" /\ documents' = documents
    BY <1>0, <1>13
    DEF RetryStep, PassOver, StepFails, Interrupt, BreakOff, NextStep, ExecFields
  <2> QED  BY <2>1, UntouchedReadings
<1> QED
  BY <1>1, <1>2, <1>3, <1>4, <1>5, <1>7, <1>8, <1>9, <1>10, <1>11, <1>12, <1>13
  DEF Next, Execute

-----------------------------------------------------------------------------
(* The theorems. *)

LEMMA InitHolds == Init => IInv
<1> SUFFICES ASSUME Init PROVE IInv
  OBVIOUS
<1>1. Shape
  BY IdlePass DEF Init, Shape, RunFields, StepStatus
<1>2. Progress
  BY IdlePass DEF Init, Progress, PassInv
<1>3. Readings
  BY IdlePass DEF Init, Readings, Known, OneForRuns, AskedIsUnread
<1> QED  BY <1>1, <1>2, <1>3 DEF IInv

LEMMA IInvHolds == Spec => []IInv
<1>1. IInv /\ [Next]_vars => IInv'
  BY ProgressHolds, ReadingsHold DEF IInv
<1> QED  BY InitHolds, <1>1, PTL DEF Spec

\* A run that SUCCEEDED has no step left to do, whatever workflow it executes,
\* however often it broke off, was tried again or went through a review: the
\* early returns of execute and the rows a resumed pass leaves alone included.
THEOREM SucceededRunsAreComplete == Spec => []SucceededIsComplete
<1>1. IInv => SucceededIsComplete
  BY DEF IInv, Progress, AllOver, Over, SucceededIsComplete
<1> QED  BY <1>1, IInvHolds, PTL

LEMMA ReadingsAreOne == IInv => ReadOnce
<1> SUFFICES ASSUME IInv, NEW i \in Invoices, NEW r \in Runs
             PROVE  Cardinality(UNION {{<< d, n >> : n \in
                               {m \in DOMAIN documents[d].readBy : documents[d].readBy[m] = r}} :
                           d \in {e \in Known : documents[e].invoice = i}}) <= 1
  BY DEF ReadOnce
<1> DEFINE at(d) == {m \in DOMAIN documents[d].readBy : documents[d].readBy[m] = r}
           S == UNION {{<< d, n >> : n \in at(d)} : d \in {e \in Known : documents[e].invoice = i}}
<1>1. \A d \in Known : at(d) \subseteq {1} /\ (at(d) # {} => documents[d].readBy # << None >>)
  <2> SUFFICES ASSUME NEW d \in Known
               PROVE  at(d) \subseteq {1} /\ (at(d) # {} => documents[d].readBy # << None >>)
    OBVIOUS
  <2>1. CASE documents[d].readBy = << >>
    BY <2>1
  <2>2. ASSUME NEW s \in Runs \cup {None}, documents[d].readBy = << s >>
        PROVE  at(d) \subseteq {1} /\ (at(d) # {} => documents[d].readBy # << None >>)
    BY <2>2, RunsAreNotNone
  <2> QED  BY <2>1, <2>2 DEF IInv, Readings, ReadAtMostOnce
<1>2. \A d, e \in Known : documents[d].invoice = i /\ documents[e].invoice = i
            /\ at(d) # {} /\ at(e) # {} => d = e
  BY <1>1 DEF IInv, Readings, OneForRuns, Known
<1>3. CASE S = {}
  BY <1>3, FS_EmptySet
<1>4. CASE S # {}
  <2>1. PICK d \in Known : documents[d].invoice = i /\ at(d) # {}
    BY <1>4
  <2>2. S = {<< d, 1 >>}
    BY <1>1, <1>2, <2>1
  <2> HIDE DEF S
  <2>3. Cardinality(S) = 1
    BY <2>2, FS_Singleton
  <2> QED  BY <2>3 DEF S
<1> QED  BY <1>3, <1>4

\* No run has the model read an invoice twice, whatever workflow it executes and
\* however often read_invoice starts from the first file again, although the
\* same file may be uploaded and reviewed at the same time.
THEOREM NothingReadTwice == Spec => []ReadOnce
BY ReadingsAreOne, IInvHolds, PTL

-----------------------------------------------------------------------------
(* Sequences that hold nothing twice. *)

LEMMA Appended ==
    ASSUME NEW T, NEW s \in Seq(T), NEW x \in T
    PROVE  /\ Append(s, x) \in Seq(T)
           /\ ToSet(Append(s, x)) = ToSet(s) \cup {x}
           /\ IsInjective(s) /\ x \notin ToSet(s) => IsInjective(Append(s, x))
<1> DEFINE t == Append(s, x)
           n == Len(s)
<1>1. /\ n \in Nat /\ DOMAIN s = 1 .. n
      /\ t \in Seq(T) /\ DOMAIN t = 1 .. (n + 1)
      /\ t[n + 1] = x /\ \A i \in 1 .. n : t[i] = s[i]
  OBVIOUS
<1> HIDE DEF t, n
<1>2. ToSet(t) = ToSet(s) \cup {x}
  <2>1. ToSet(t) = {t[i] : i \in 1 .. (n + 1)} /\ ToSet(s) = {s[i] : i \in 1 .. n}
    BY <1>1 DEF ToSet
  <2>2. 1 .. (n + 1) = (1 .. n) \cup {n + 1}
    BY <1>1
  <2> QED  BY <1>1, <2>1, <2>2
<1>3. IsInjective(s) /\ x \notin ToSet(s) => IsInjective(t)
  <2>1. \A i \in 1 .. n : s[i] \in ToSet(s)
    BY <1>1 DEF ToSet
  <2> QED  BY <1>1, <2>1 DEF IsInjective
<1> QED  BY <1>1, <1>2, <1>3 DEF t

LEMMA Joined ==
    ASSUME NEW T, NEW s \in Seq(T), NEW t \in Seq(T)
    PROVE  /\ s \o t \in Seq(T)
           /\ ToSet(s \o t) = ToSet(s) \cup ToSet(t)
           /\ IsInjective(s) /\ IsInjective(t) /\ ToSet(s) \cap ToSet(t) = {} =>
                IsInjective(s \o t)
<1> DEFINE u == s \o t
           m == Len(s)
           n == Len(t)
<1>1. /\ m \in Nat /\ DOMAIN s = 1 .. m /\ n \in Nat /\ DOMAIN t = 1 .. n
      /\ u \in Seq(T) /\ DOMAIN u = 1 .. (m + n)
      /\ \A i \in 1 .. (m + n) : u[i] = IF i <= m THEN s[i] ELSE t[i - m]
  BY ConcatProperties
<1> HIDE DEF u, m, n
<1>2. \A i \in 1 .. m : u[i] = s[i] /\ i \in 1 .. (m + n)
  BY <1>1
<1>3. \A i \in 1 .. n : u[i + m] = t[i] /\ i + m \in 1 .. (m + n)
  BY <1>1
<1>4. \A i \in 1 .. (m + n) : i \in 1 .. m \/ (i - m \in 1 .. n /\ u[i] = t[i - m])
  BY <1>1
<1>5. ToSet(u) = ToSet(s) \cup ToSet(t)
  <2>1. ToSet(u) = {u[i] : i \in 1 .. (m + n)} /\ ToSet(s) = {s[i] : i \in 1 .. m}
        /\ ToSet(t) = {t[i] : i \in 1 .. n}
    BY <1>1 DEF ToSet
  <2>2. ToSet(u) \subseteq ToSet(s) \cup ToSet(t)
    BY <1>2, <1>4, <2>1
  <2>3. ToSet(s) \subseteq ToSet(u)
    BY <1>2, <2>1
  <2>4. ToSet(t) \subseteq ToSet(u)
    BY <1>3, <2>1
  <2> QED  BY <2>2, <2>3, <2>4
<1>6. IsInjective(s) /\ IsInjective(t) /\ ToSet(s) \cap ToSet(t) = {} => IsInjective(u)
  <2> SUFFICES ASSUME IsInjective(s), IsInjective(t), ToSet(s) \cap ToSet(t) = {},
                      NEW i \in 1 .. (m + n), NEW j \in 1 .. (m + n), u[i] = u[j]
               PROVE  i = j
    BY <1>1 DEF IsInjective
  <2>1. (\A k \in 1 .. m : s[k] \in ToSet(s)) /\ (\A k \in 1 .. n : t[k] \in ToSet(t))
    BY <1>1 DEF ToSet
  <2>2. CASE i \in 1 .. m /\ j \in 1 .. m
    BY <1>1, <1>2, <2>2 DEF IsInjective
  <2>3. CASE i \notin 1 .. m /\ j \notin 1 .. m
    <3>1. t[i - m] = t[j - m] /\ i - m \in 1 .. n /\ j - m \in 1 .. n
      BY <1>4, <2>3
    <3>2. i - m = j - m
      BY <1>1, <3>1 DEF IsInjective
    <3> QED  BY <1>1, <3>2
  <2>4. CASE i \in 1 .. m /\ j \notin 1 .. m
    BY <1>2, <1>4, <2>1, <2>4
  <2>5. CASE i \notin 1 .. m /\ j \in 1 .. m
    BY <1>2, <1>4, <2>1, <2>5
  <2> QED  BY <2>2, <2>3, <2>4, <2>5
<1> QED  BY <1>1, <1>5, <1>6 DEF u

LEMMA Cut ==
    ASSUME NEW T, NEW s \in Seq(T), NEW a \in Nat \ {0}, NEW b \in Nat, b <= Len(s)
    PROVE  /\ SubSeq(s, a, b) \in Seq(T)
           /\ ToSet(SubSeq(s, a, b)) = {s[n] : n \in a .. b}
           /\ IsInjective(s) => IsInjective(SubSeq(s, a, b))
<1> DEFINE u == SubSeq(s, a, b)
           m == IF a <= b THEN b - a + 1 ELSE 0
<1>0. Len(s) \in Nat /\ DOMAIN s = 1 .. Len(s)
  OBVIOUS
<1>1. \A i \in a .. b : i \in 1 .. Len(s) /\ s[i] \in T
  BY <1>0, ElementOfSeq
<1>2. /\ u \in Seq(T) /\ Len(u) = m
      /\ \A i \in 1 .. (b - a + 1) : u[i] = s[a + i - 1]
  BY <1>1, SubSeqProperties
<1>3. m \in Nat /\ DOMAIN u = 1 .. m
  BY <1>2
<1> HIDE DEF u
<1>4. \A i \in 1 .. m : a + i - 1 \in a .. b /\ u[i] = s[a + i - 1]
  BY <1>2
<1>5. \A i \in a .. b : i - a + 1 \in 1 .. m /\ u[i - a + 1] = s[i]
  BY <1>4
<1> HIDE DEF m
<1>6. ToSet(u) = {s[n] : n \in a .. b}
  <2>1. ToSet(u) = {u[i] : i \in 1 .. m}
    BY <1>3 DEF ToSet
  <2>2. ToSet(u) \subseteq {s[n] : n \in a .. b}
    BY <1>4, <2>1
  <2>3. {s[n] : n \in a .. b} \subseteq ToSet(u)
    BY <1>5, <2>1
  <2> QED  BY <2>2, <2>3
<1>7. IsInjective(s) => IsInjective(u)
  <2> SUFFICES ASSUME IsInjective(s), NEW i \in 1 .. m, NEW j \in 1 .. m, u[i] = u[j]
               PROVE  i = j
    BY <1>3 DEF IsInjective
  <2>1. a + i - 1 = a + j - 1
    BY <1>0, <1>1, <1>4 DEF IsInjective
  <2> QED  BY <1>3, <2>1
<1> QED  BY <1>2, <1>6, <1>7 DEF u

LEMMA EmptySequence ==
    ASSUME NEW T
    PROVE  << >> \in Seq(T) /\ ToSet(<< >>) = {} /\ IsInjective(<< >>) /\ Len(<< >>) = 0
BY DEF ToSet, IsInjective

Below(S, x) == {y \in S : y < x}

\* A finite set of numbers in ascending order.
LEMMA Ascended ==
    ASSUME NEW S, S \subseteq Nat, IsFiniteSet(S)
    PROVE  /\ Ascending(S) \in Seq(S) /\ ToSet(Ascending(S)) = S
           /\ IsInjective(Ascending(S))
<1> DEFINE L == Cardinality(S)
           count(x) == Cardinality(Below(S, x))
<1>1. L \in Nat /\ IsFiniteSet(1 .. L) /\ Cardinality(1 .. L) = L
  <2>1. L \in Nat
    BY FS_CardinalityType
  <2> QED  BY <2>1, FS_Interval
<1> HIDE DEF L
<1>2. ASSUME NEW x \in S
      PROVE  IsFiniteSet(Below(S, x)) /\ count(x) \in 0 .. (L - 1)
  <2>1. Below(S, x) \subseteq S /\ x \notin Below(S, x)
    BY DEF Below
  <2>2. IsFiniteSet(Below(S, x)) /\ count(x) <= L /\ (count(x) = L => S = Below(S, x))
    BY <2>1, FS_Subset DEF L
  <2>3. count(x) \in Nat
    BY <2>2, FS_CardinalityType
  <2> QED  BY <1>1, <2>1, <2>2, <2>3
<1>3. ASSUME NEW x \in S, NEW y \in S, x < y
      PROVE  count(x) < count(y)
  <2>0. x \in Nat /\ y \in Nat /\ \A z \in S : z \in Nat
    OBVIOUS
  <2>1. Below(S, x) \subseteq Below(S, y) /\ x \in Below(S, y) /\ x \notin Below(S, x)
    <3>1. \A z \in S : z < x => z < y
      BY <1>3, <2>0
    <3>2. ~(x < x)
      BY <2>0
    <3> QED  BY <1>3, <3>1, <3>2 DEF Below
  <2>2. IsFiniteSet(Below(S, y)) /\ count(x) \in Nat /\ count(y) \in Nat
    BY <1>1, <1>2
  <2>3. count(x) <= count(y) /\ count(x) # count(y)
    BY <2>1, <2>2, FS_Subset
  <2> QED  BY <2>2, <2>3
<1> HIDE DEF count
<1>0. \A x \in S : count(x) \in Nat /\ count(x) + 1 \in 1 .. L
  BY <1>1, <1>2
<1> DEFINE rank == [x \in S |-> count(x) + 1]
<1>4. rank \in Injection(S, 1 .. L)
  <2>1. \A x, y \in S : count(x) + 1 = count(y) + 1 => x = y
    <3>1. \A x, y \in S : x = y \/ x < y \/ y < x
      OBVIOUS
    <3> QED  BY <1>0, <1>3, <3>1
  <2> QED  BY <1>0, <2>1 DEF Injection, IsInjective
<1>5. rank \in Surjection(S, 1 .. L)
  <2> HIDE DEF rank
  <2> QED  BY <1>1, <1>4, FS_Injection DEF L
<1>6. ASSUME NEW n \in 1 .. L
      PROVE  \E x \in S : count(x) = n - 1
  <2>1. PICK x \in S : rank[x] = n
    BY <1>5 DEF Surjection
  <2>2. count(x) + 1 = n /\ count(x) \in Nat
    BY <1>0, <2>1
  <2> QED  BY <2>2
<1> DEFINE s == [n \in 1 .. L |-> CHOOSE x \in S : count(x) = n - 1]
<1>7. \A n \in 1 .. L : s[n] \in S /\ count(s[n]) = n - 1
  BY <1>6
<1>8. s \in Seq(S) /\ DOMAIN s = 1 .. L
  <2>1. s \in [1 .. L -> S]
    BY <1>7
  <2> HIDE DEF s
  <2> QED  BY <1>1, <2>1, SeqDef
<1>9. \A x \in S : \E n \in 1 .. L : s[n] = x
  <2> SUFFICES ASSUME NEW x \in S PROVE \E n \in 1 .. L : s[n] = x
    OBVIOUS
  <2> HIDE DEF s
  <2>1. \E n \in 1 .. L : count(x) = n - 1
    <3>1. count(x) + 1 \in 1 .. L /\ count(x) = (count(x) + 1) - 1
      BY <1>0
    <3> QED  BY <3>1
  <2> PICK n \in 1 .. L : count(x) = n - 1
    BY <2>1
  <2>2. s[n] \in S /\ count(s[n]) = count(x)
    BY <1>7
  <2>3. \A y \in S : count(y) = count(x) => y = x
    <3>1. \A y, z \in S : y = z \/ y < z \/ z < y
      OBVIOUS
    <3> QED  BY <1>0, <1>3, <3>1
  <2> QED  BY <2>2, <2>3
<1>10. IsInjective(s)
  <2> SUFFICES ASSUME NEW m \in 1 .. L, NEW n \in 1 .. L, s[m] = s[n] PROVE m = n
    BY <1>8 DEF IsInjective
  <2>1. m - 1 = n - 1
    <3> HIDE DEF s
    <3> QED  BY <1>7
  <2> QED  BY <2>1
<1>11. ToSet(s) = S
  <2> HIDE DEF s
  <2>1. ToSet(s) = {s[n] : n \in 1 .. L}
    BY <1>8 DEF ToSet
  <2> QED  BY <1>7, <1>9, <2>1
<1>12. s = Ascending(S)
  BY DEF Ascending, L, count, Below
<1> QED  BY <1>8, <1>10, <1>11, <1>12

\* The documents that run r has read.
Own(r, docs) == {d \in DOMAIN docs : r \in ToSet(docs[d].readBy)}

\* How the row of a document can change: a person decides, the run that is
\* executed judges or escalates what it is given, or the model answers.
Decided(before, after) ==
    \/ before.status = "needs_review" /\ after.status = "rejected"
    \/ /\ before.status \in {"needs_review", "ok"}
       /\ after.status = "ok" /\ after.accepted

RowChange(d, before, after) ==
    /\ DOMAIN after = DocumentFields
    /\ after.invoice = before.invoice
    /\ before.accepted => after.accepted
    /\ \/ after.readBy = before.readBy
       \/ /\ ReadAnswer /\ d = exec.reading
          /\ before.readBy = << >> /\ after.readBy = << exec.run >>
          /\ after.status = "processing"
    /\ \/ after.status = before.status
       \/ Decided(before, after) /\ exec' = exec
       \/ /\ ReadAnswer /\ d = exec.reading /\ before.readBy = << >>
          /\ after.status \in {"processing", "failed", "rejected"}
       \/ /\ CheckSome \/ CheckRest \/ Escalate
          /\ d \in ToSet(Input(Key)) /\ after.status \in DocumentStatus

NewDocument(row) ==
    /\ DOMAIN row = DocumentFields /\ row.status \in DocumentStatus
    /\ \A d \in Known : documents[d].invoice = row.invoice => documents[d].readBy # row.readBy
    /\ \/ /\ row.readBy = << None >> /\ row.invoice \in Uploadable
          /\ mtime[row.invoice] # 0 /\ exec' = exec
       \/ /\ ReadFile /\ row.readBy = << >> /\ exec.todo <= Len(exec.memory.files)
          /\ row.invoice = exec.memory.files[exec.todo]
          /\ \A d \in Known : documents[d].invoice # row.invoice

DocumentsChange ==
    /\ Len(documents) \in Nat /\ Known = 1 .. Len(documents)
    /\ \A d \in Known : RowChange(d, documents[d], documents'[d])
    /\ \/ Known' = Known
       \/ /\ Known' = Known \cup {Len(documents) + 1}
          /\ NewDocument(documents'[Len(documents) + 1])

LEMMA SameDocuments ==
    ASSUME Readings, documents' = documents
    PROVE  DocumentsChange
<1>1. Len(documents) \in Nat /\ Known = 1 .. Len(documents)
  BY DEF Readings, Known
<1>2. \A d \in Known : DOMAIN documents[d] = DocumentFields
  BY DEF Readings
<1>3. Known' = Known
  BY DEF Known
<1> QED  BY <1>1, <1>2, <1>3 DEF DocumentsChange, RowChange

LEMMA RowsAreTouched ==
    ASSUME Readings, documents' = [d \in Known |-> documents'[d]],
           \A d \in Known : RowChange(d, documents[d], documents'[d])
    PROVE  DocumentsChange
<1>1. Len(documents) \in Nat /\ Known = 1 .. Len(documents)
  BY DEF Readings, Known
<1>2. Known' = Known
  BY DEF Known
<1> QED  BY <1>1, <1>2 DEF DocumentsChange

LEMMA RowIsAdded ==
    ASSUME Readings, NEW row, documents' = Append(documents, row), NewDocument(row)
    PROVE  DocumentsChange
<1> DEFINE n == Len(documents)
<1>1. n \in Nat /\ Known = 1 .. n /\ documents \in Seq(ToSet(documents) \cup {row})
  BY DEF Readings, Known
<1>2. /\ DOMAIN documents' = 1 .. (n + 1) /\ documents'[n + 1] = row
      /\ \A d \in Known : documents'[d] = documents[d]
  <2>1. documents' \in Seq(ToSet(documents) \cup {row}) /\ Len(documents') = n + 1
    BY <1>1
  <2>2. DOMAIN documents' = 1 .. (n + 1)
    BY <2>1
  <2>3. documents'[n + 1] = row /\ \A d \in Known : documents'[d] = documents[d]
    BY <1>1
  <2> QED  BY <2>2, <2>3
<1> HIDE DEF n
<1>3. Known' = Known \cup {n + 1}
  BY <1>1, <1>2 DEF Known
<1>4. \A d \in Known : DOMAIN documents[d] = DocumentFields
  BY DEF Readings
<1>5. \A d \in Known : RowChange(d, documents[d], documents'[d])
  BY <1>2, <1>4 DEF RowChange
<1>6. NewDocument(documents'[n + 1])
  BY <1>2
<1> QED  BY <1>1, <1>3, <1>5, <1>6 DEF DocumentsChange, n

LEMMA UploadChanges ==
    ASSUME Readings, NEW i \in Invoices, Upload(i)
    PROVE  DocumentsChange
<1>1. PICK doubt : documents' = Append(documents,
            [invoice |-> i, status |-> IF doubt THEN "needs_review" ELSE "ok",
             readBy |-> << None >>, faulty |-> doubt, accepted |-> FALSE])
  BY DEF Upload
<1> DEFINE row == [invoice |-> i, status |-> IF doubt THEN "needs_review" ELSE "ok",
                   readBy |-> << None >>, faulty |-> doubt, accepted |-> FALSE]
<1>2. /\ DOMAIN row = DocumentFields /\ row.status \in DocumentStatus
      /\ row.readBy = << None >> /\ row.invoice = i
  BY DEF DocumentFields, DocumentStatus
<1>3. exec' = exec /\ i \in Uploadable /\ mtime[i] # 0
      /\ \A d \in Known : documents[d].invoice = i => None \notin ToSet(documents[d].readBy)
  BY DEF Upload
<1>4. None \in ToSet(<< None >>)
  BY DEF ToSet
<1> HIDE DEF row
<1>5. NewDocument(row)
  BY <1>2, <1>3, <1>4 DEF NewDocument
<1>6. documents' = Append(documents, row)
  BY <1>1 DEF row
<1> QED  BY <1>5, <1>6, RowIsAdded

LEMMA ResolveChanges ==
    ASSUME Readings, NEW d \in Known, NEW accept \in BOOLEAN, Resolve(d, accept)
    PROVE  DocumentsChange
<1> DEFINE newStatus == IF accept THEN "ok" ELSE "rejected"
           newAccepted == accept \/ documents[d].accepted
<1>1. PICK faulty : documents' = [documents EXCEPT
            ![d].status = newStatus, ![d].accepted = newAccepted, ![d].faulty = faulty]
  BY DEF Resolve
<1>2. /\ documents[d].status \in {"needs_review", "ok"}
      /\ documents[d].status = "ok" => accept
      /\ exec' = exec
  BY DEF Resolve
<1>3. \/ newStatus = "ok" /\ newAccepted
      \/ newStatus = "rejected" /\ documents[d].status = "needs_review"
  <2>1. CASE accept
    <3>1. newStatus = "ok"
      BY <2>1
    <3>2. newAccepted
      BY <2>1
    <3> HIDE DEF newStatus, newAccepted
    <3> QED  BY <3>1, <3>2
  <2>2. CASE ~accept
    BY <1>2, <2>2
  <2> QED  BY <2>1, <2>2
<1>4. documents[d].accepted => newAccepted
  OBVIOUS
<1> HIDE DEF newStatus, newAccepted
<1>5. documents' = [e \in Known |-> documents'[e]]
  BY <1>1 DEF Known, Readings
<1>6. ASSUME NEW e \in Known
      PROVE  RowChange(e, documents[e], documents'[e])
  <2>1. DOMAIN documents[e] = DocumentFields
    BY DEF Readings
  <2>2. CASE e # d
    <3>1. documents'[e] = documents[e]
      BY <1>1, <2>2 DEF Known
    <3> QED  BY <2>1, <3>1 DEF RowChange
  <2>3. CASE e = d
    <3>1. documents'[e] = [documents[e] EXCEPT !.status = newStatus,
                               !.accepted = newAccepted, !.faulty = faulty]
      BY <1>1, <2>3 DEF Known
    <3>2. /\ DOMAIN documents'[e] = DocumentFields
          /\ documents'[e].invoice = documents[e].invoice
          /\ documents'[e].readBy = documents[e].readBy
          /\ documents'[e].status = newStatus /\ documents'[e].accepted = newAccepted
      BY <2>1, <3>1 DEF DocumentFields
    <3>3. Decided(documents[e], documents'[e])
      BY <1>2, <1>3, <2>3, <3>2 DEF Decided
    <3> QED  BY <1>2, <1>4, <2>3, <3>2, <3>3 DEF RowChange
  <2> QED  BY <2>2, <2>3
<1> QED  BY <1>5, <1>6, RowsAreTouched

LEMMA ReadFileChanges ==
    ASSUME Shape, Readings, ReadFile
    PROVE  DocumentsChange
<1> DEFINE i == exec.memory.files[exec.todo]
           d == IF DocumentsOf(i) = {} THEN Len(documents) + 1 ELSE Max(DocumentsOf(i))
           row == [invoice |-> i, status |-> "processing", readBy |-> << >>,
                   faulty |-> FALSE, accepted |-> FALSE]
<1>1. \/ documents' = documents
      \/ d \notin Known /\ documents' = Append(documents, row)
  BY Zenon DEF ReadFile
<1>2. CASE documents' = documents
  BY <1>2, SameDocuments
<1>3. CASE d \notin Known /\ documents' = Append(documents, row)
  <2>1. Len(documents) \in Nat /\ Known = 1 .. Len(documents)
    BY DEF Readings, Known
  <2>2. DocumentsOf(i) # {} => d \in Known
    <3>1. DocumentsOf(i) \subseteq 1 .. Len(documents)
      BY <2>1 DEF DocumentsOf
    <3> QED  BY <2>1, <3>1, Greatest DEF DocumentsOf
  <2>3. DocumentsOf(i) = {}
    BY <1>3, <2>2
  <2>4. \A e \in Known : documents[e].invoice # i
    BY <2>3 DEF DocumentsOf
  <2>5. /\ DOMAIN row = DocumentFields /\ row.status \in DocumentStatus
        /\ row.readBy = << >> /\ row.invoice = i
    BY DEF DocumentFields, DocumentStatus
  <2>6. exec.todo <= Len(exec.memory.files)
    BY Zenon DEF ReadFile
  <2> HIDE DEF d, row
  <2>7. NewDocument(row)
    BY <2>4, <2>5, <2>6 DEF NewDocument
  <2> QED  BY <1>3, <2>7, RowIsAdded
<1> QED
  <2> HIDE DEF d, row
  <2> QED  BY <1>1, <1>2, <1>3

LEMMA ReadAnswerChanges ==
    ASSUME Shape, Readings, ReadAnswer
    PROVE  DocumentsChange
<1> DEFINE d == exec.reading
<1>1. d \in Known /\ documents[d].readBy = << >>
  BY DEF Readings, ReadAnswer, AskedIsUnread, Known
<1>2. \/ \E faulty \in BOOLEAN : documents' = [documents EXCEPT
                ![d].readBy = Append(documents[d].readBy, exec.run),
                ![d].status = "processing", ![d].faulty = faulty]
      \/ \E status \in {"failed", "rejected"} :
                documents' = [documents EXCEPT ![d].status = status]
  BY DEF ReadAnswer
<1>3. Append(documents[d].readBy, exec.run) = << exec.run >>
  BY <1>1
<1>4. documents' = [e \in Known |-> documents'[e]]
      /\ \A e \in Known \ {d} : documents'[e] = documents[e]
  <2>1. documents = [e \in Known |-> documents[e]]
    BY DEF Readings, Known
  <2> QED  BY <1>2, <2>1 DEF Known
<1>5. \A e \in Known : DOMAIN documents[e] = DocumentFields
  BY DEF Readings
<1>6. RowChange(d, documents[d], documents'[d])
  <2>1. CASE \E status \in {"failed", "rejected"} :
                documents' = [documents EXCEPT ![d].status = status]
    <3>1. PICK status \in {"failed", "rejected"} :
                documents' = [documents EXCEPT ![d].status = status]
      BY <2>1
    <3>2. documents'[d] = [documents[d] EXCEPT !.status = status]
      BY <1>1, <3>1 DEF Known
    <3>3. /\ DOMAIN documents'[d] = DocumentFields
          /\ documents'[d].invoice = documents[d].invoice
          /\ documents'[d].readBy = documents[d].readBy
          /\ documents'[d].status = status /\ documents'[d].accepted = documents[d].accepted
      BY <1>1, <1>5, <3>2 DEF DocumentFields
    <3> QED  BY <1>1, <3>3 DEF RowChange
  <2>2. CASE \E faulty \in BOOLEAN : documents' = [documents EXCEPT
                ![d].readBy = Append(documents[d].readBy, exec.run),
                ![d].status = "processing", ![d].faulty = faulty]
    <3>1. PICK faulty \in BOOLEAN : documents' = [documents EXCEPT
                ![d].readBy = << exec.run >>, ![d].status = "processing", ![d].faulty = faulty]
      BY <1>3, <2>2
    <3>2. documents'[d] = [documents[d] EXCEPT !.readBy = << exec.run >>,
                                !.status = "processing", !.faulty = faulty]
      BY <1>1, <3>1 DEF Known
    <3>3. /\ DOMAIN documents'[d] = DocumentFields
          /\ documents'[d].invoice = documents[d].invoice
          /\ documents'[d].readBy = << exec.run >>
          /\ documents'[d].status = "processing"
          /\ documents'[d].accepted = documents[d].accepted
      BY <1>1, <1>5, <3>2 DEF DocumentFields
    <3> QED  BY <1>1, <3>3 DEF RowChange
  <2> QED  BY <1>2, <2>1, <2>2
<1>7. \A e \in Known \ {d} : RowChange(e, documents[e], documents'[e])
  BY <1>4, <1>5 DEF RowChange
<1> QED  BY <1>4, <1>6, <1>7, RowsAreTouched

\* The values that Assigned allows are statuses.
LEMMA AssignedStatuses ==
    ASSUME NEW status, NEW new \in Assigned(status), NEW d \in DOMAIN status
    PROVE  new[d] \in DocumentStatus
BY DEF Assigned

LEMMA JudgeChanges ==
    ASSUME Readings, CheckSome \/ CheckRest, NEW verdict, Judge(verdict),
           DOMAIN verdict \subseteq ToSet(Input(Key))
    PROVE  DocumentsChange
<1>1. PICK new \in Assigned(verdict) : documents' = [d \in Known |-> IF d \in DOMAIN verdict
            THEN [documents[d] EXCEPT !.status = new[d], !.faulty = verdict[d] # "ok"]
            ELSE documents[d]]
  BY Zenon DEF Judge
<1>2. ASSUME NEW d \in Known
      PROVE  RowChange(d, documents[d], documents'[d])
  <2>1. DOMAIN documents[d] = DocumentFields
    BY DEF Readings
  <2>2. CASE d \notin DOMAIN verdict
    <3>1. documents'[d] = documents[d]
      BY <1>1, <2>2
    <3> QED  BY <2>1, <3>1 DEF RowChange
  <2>3. CASE d \in DOMAIN verdict
    <3>1. documents'[d] =
            [documents[d] EXCEPT !.status = new[d], !.faulty = verdict[d] # "ok"]
      BY <1>1, <2>3
    <3>2. /\ DOMAIN documents'[d] = DocumentFields
          /\ documents'[d].invoice = documents[d].invoice
          /\ documents'[d].readBy = documents[d].readBy
          /\ documents'[d].status = new[d] /\ documents'[d].accepted = documents[d].accepted
      BY <2>1, <3>1 DEF DocumentFields
    <3>3. new[d] \in DocumentStatus
      BY <2>3, AssignedStatuses
    <3> QED  BY <2>3, <3>2, <3>3 DEF RowChange
  <2> QED  BY <2>2, <2>3
<1>3. documents' = [d \in Known |-> documents'[d]]
  BY <1>1
<1> QED  BY <1>2, <1>3, RowsAreTouched

LEMMA EscalateChanges ==
    ASSUME Readings, Escalate
    PROVE  DocumentsChange
<1> DEFINE status == [d \in ToSet(Input(Key)) |-> "needs_review"]
<1>0. DOMAIN status = ToSet(Input(Key))
  OBVIOUS
<1>1. PICK new \in Assigned(status) : documents' = [d \in Known |-> IF d \in DOMAIN status
                    THEN [documents[d] EXCEPT !.status = new[d]] ELSE documents[d]]
  BY DEF Escalate
<1> HIDE DEF status
<1>2. ASSUME NEW d \in Known
      PROVE  RowChange(d, documents[d], documents'[d])
  <2>1. DOMAIN documents[d] = DocumentFields
    BY DEF Readings
  <2>2. CASE d \notin DOMAIN status
    <3>1. documents'[d] = documents[d]
      BY <1>1, <2>2
    <3> QED  BY <2>1, <3>1 DEF RowChange
  <2>3. CASE d \in DOMAIN status
    <3>1. documents'[d] = [documents[d] EXCEPT !.status = new[d]]
      BY <1>1, <2>3
    <3>2. /\ DOMAIN documents'[d] = DocumentFields
          /\ documents'[d].invoice = documents[d].invoice
          /\ documents'[d].readBy = documents[d].readBy
          /\ documents'[d].status = new[d] /\ documents'[d].accepted = documents[d].accepted
      BY <2>1, <3>1 DEF DocumentFields
    <3>3. new[d] \in DocumentStatus
      BY <2>3, AssignedStatuses
    <3> QED  BY <1>0, <2>3, <3>2, <3>3 DEF RowChange
  <2> QED  BY <2>2, <2>3
<1>3. documents' = [d \in Known |-> documents'[d]]
  BY <1>1
<1> QED  BY <1>2, <1>3, RowsAreTouched

Memory == [files : Seq(Invoices), document_ids : Seq(Nat), passed : Seq(Nat),
           review : Seq(Nat)]

\* Input, of the memory of a row.
InputFrom(k, memory) ==
    IF Workflow.tool[k] = "read" THEN memory.files
    ELSE CASE Condition(k) = "pass" -> memory.passed
           [] Condition(k) = "fail" -> memory.review
           [] OTHER -> memory.document_ids

\* The tools hand on documents that the run has read, none of them twice.
Sound(row, docs) ==
    /\ row.memory \in Memory
    /\ ToSet(row.memory.document_ids) \subseteq Own(row.run, docs)
    /\ ToSet(row.memory.passed) \subseteq Own(row.run, docs)
    /\ ToSet(row.memory.review) \subseteq Own(row.run, docs)
    /\ IsInjective(row.memory.files) /\ IsInjective(row.memory.document_ids)
    /\ IsInjective(row.memory.passed) /\ IsInjective(row.memory.review)

\* What stands in the input in front of the position the tool has come to.
Taken(row) ==
    LET input == InputFrom(Order[row.index], row.memory)
    IN {input[n] : n \in 1 .. (row.todo - 1)}

InputLen(row) == Len(InputFrom(Order[row.index], row.memory))

\* What the tool will leave differs from what it got in its own results only,
\* and these are about the part of its input it has been through.
ReadSoFar(row, docs) ==
    /\ row.place \in {"tool", "answer"}
    /\ row.out = [row.memory EXCEPT !.document_ids = row.out.document_ids]
    /\ row.out.document_ids \in Seq(Nat) /\ IsInjective(row.out.document_ids)
    /\ ToSet(row.out.document_ids) \subseteq Own(row.run, docs)
    /\ \A d \in ToSet(row.out.document_ids) : docs[d].invoice \in Taken(row)
    /\ row.todo <= InputLen(row) + 1
    /\ row.place = "answer" =>
        row.todo <= InputLen(row) /\ docs[row.reading].invoice = row.memory.files[row.todo]

CheckedSoFar(row) ==
    /\ row.place = "tool"
    /\ row.out = [row.memory EXCEPT !.passed = row.out.passed, !.review = row.out.review]
    /\ row.out.passed \in Seq(Nat) /\ IsInjective(row.out.passed)
    /\ row.out.review \in Seq(Nat) /\ IsInjective(row.out.review)
    /\ ToSet(row.out.passed) \cap ToSet(row.out.review) = {}
    /\ ToSet(row.out.passed) \cup ToSet(row.out.review) = Taken(row)
    /\ row.todo <= InputLen(row) + 1

InTheTool(row, docs) ==
    LET k == Order[row.index] tool == Workflow.tool[k]
    IN /\ row.todo \in Nat \ {0}
       /\ row.place = "answer" => tool = "read"
       /\ row.place = "done" => tool \in {"write", "escalate"}
       /\ tool = "list" => row.place = "tool" /\ row.out = row.memory
       /\ tool = "read" => ReadSoFar(row, docs)
       /\ tool = "check" => CheckedSoFar(row)
       /\ tool = "write" => row.place \in {"tool", "done"} /\ row.out = row.memory
       /\ tool = "escalate" =>
            \/ row.place = "tool" /\ row.out = row.memory
            \/ row.place = "done"
               /\ row.out = [row.memory EXCEPT !.review = InputFrom(k, row.memory)]

Papers(row, docs) ==
    row.run # None =>
        /\ Sound(row, docs)
        /\ row.place \in InStep => InTheTool(row, docs)

-----------------------------------------------------------------------------
(* What the steps of the thread do to its memory. *)

LEMMA MemoryFields ==
    ASSUME NEW m \in Memory
    PROVE  /\ DOMAIN m = {"files", "document_ids", "passed", "review"}
           /\ m.files \in Seq(Invoices) /\ m.document_ids \in Seq(Nat)
           /\ m.passed \in Seq(Nat) /\ m.review \in Seq(Nat)
BY DEF Memory

LEMMA NoMemoryIsEmpty ==
    /\ NoMemory \in Memory /\ NoMemory.files = << >> /\ NoMemory.document_ids = << >>
    /\ NoMemory.passed = << >> /\ NoMemory.review = << >>
BY DEF NoMemory, Memory

\* What has not been touched yet.
Rest(fields) == \A f \in ExecFields \ fields : exec'[f] = exec[f]

LEMMA NextStepDoes ==
    ASSUME Shape, NEW outcome, exec' = NextStep(outcome)
    PROVE  /\ DOMAIN exec' = ExecFields /\ Rest({"index", "place", "outcome"})
           /\ exec'.index = exec.index + 1 /\ exec'.place = "start"
           /\ exec'.outcome = [exec.outcome EXCEPT ![Key] = outcome]
<1>1. DOMAIN exec = ExecFields
  BY DEF Shape
<1> QED  BY <1>1 DEF NextStep, Rest, ExecFields

LEMMA CompleteDoes ==
    ASSUME Shape, NEW out, NEW seen, Complete(out, seen)
    PROVE  /\ DOMAIN exec' = ExecFields
           /\ Rest({"index", "place", "outcome", "memory", "out", "seen"})
           /\ exec'.index = exec.index + 1 /\ exec'.place = "start"
           /\ exec'.outcome = [exec.outcome EXCEPT ![Key] = "SUCCEEDED"]
           /\ exec'.memory = out /\ exec'.out = NoMemory /\ exec'.seen = seen
<1>1. DOMAIN exec = ExecFields
  BY DEF Shape
<1> QED  BY <1>1 DEF Complete, NextStep, Rest, ExecFields

LEMMA PassOverDoes ==
    ASSUME Shape, PassOver
    PROVE  /\ DOMAIN exec' = ExecFields
           /\ Rest({"index", "place", "outcome", "out", "seen"})
           /\ exec'.index = exec.index + 1 /\ exec'.place = "start"
           /\ exec'.outcome = [exec.outcome EXCEPT ![Key] = "FAILED_SKIPPED"]
           /\ exec'.out = NoMemory /\ exec'.seen = Idle.seen
<1>1. DOMAIN exec = ExecFields
  BY DEF Shape
<1> QED  BY <1>1 DEF PassOver, NextStep, Rest, ExecFields

LEMMA StartStepDoes ==
    ASSUME Shape, StartStep
    PROVE  /\ DOMAIN exec' = ExecFields /\ Rest({"place", "attempt", "todo", "out"})
           /\ exec'.place = "tool" /\ exec'.todo = 1 /\ exec'.out = Fresh(Key)
<1>1. DOMAIN exec = ExecFields
  BY DEF Shape
<1> QED  BY <1>1 DEF StartStep, Rest, ExecFields

LEMMA RetryStepDoes ==
    ASSUME Shape, RetryStep
    PROVE  /\ DOMAIN exec' = ExecFields
           /\ Rest({"place", "attempt", "todo", "out", "seen"})
           /\ exec'.place = "tool" /\ exec'.todo = 1 /\ exec'.out = Fresh(Key)
           /\ exec'.seen = Idle.seen
<1>1. DOMAIN exec = ExecFields
  BY DEF Shape
<1> QED  BY <1>1 DEF RetryStep, Rest, ExecFields

LEMMA BeginDoes ==
    ASSUME NEW r \in Runs, Begin(r)
    PROVE  /\ DOMAIN exec' = ExecFields
           /\ exec'.run = r /\ exec'.index = 1 /\ exec'.place = "start"
           /\ exec'.memory = [NoMemory EXCEPT !.passed =
                    IF run[r].reviewed THEN Ascending(ReviewedOk(r)) ELSE << >>]
           /\ exec'.out = NoMemory /\ exec'.outcome = Idle.outcome
           /\ exec'.resume = run[r].reviewed /\ exec'.since = PreviousSuccess(r)
           /\ exec'.seen = Idle.seen
<1>1. Idle.memory = NoMemory /\ Idle.out = NoMemory
  BY DEF Idle
<1> QED  BY <1>1 DEF Begin, Idle, ExecFields

LEMMA AppendRowsDoes ==
    ASSUME Shape, AppendRows
    PROVE  DOMAIN exec' = ExecFields /\ Rest({"place"}) /\ exec'.place = "done"
<1>1. DOMAIN exec = ExecFields
  BY DEF Shape
<1> QED  BY <1>1 DEF AppendRows, Rest, ExecFields

LEMMA EscalateDoes ==
    ASSUME Shape, Escalate, DOMAIN exec.out = DOMAIN NoMemory
    PROVE  /\ DOMAIN exec' = ExecFields /\ Rest({"place", "out", "seen"})
           /\ exec'.place = "done" /\ exec'.out = [exec.out EXCEPT !.review = Input(Key)]
           /\ exec'.seen = Seen([d \in ToSet(Input(Key)) |-> "needs_review"])
<1>1. DOMAIN exec = ExecFields
  BY DEF Shape
<1>2. exec' = [exec EXCEPT !.place = "done", !.out.review = Input(Key),
                   !.seen = Seen([d \in ToSet(Input(Key)) |-> "needs_review"])]
  BY DEF Escalate
<1> DEFINE inp == Input(Key)
           seen == Seen([d \in ToSet(Input(Key)) |-> "needs_review"])
<1>3. exec' = [exec EXCEPT !.place = "done", !.out.review = inp, !.seen = seen]
  BY <1>2
<1> HIDE DEF inp, seen
<1>4. /\ DOMAIN exec' = ExecFields /\ Rest({"place", "out", "seen"})
      /\ exec'.place = "done" /\ exec'.out = [exec.out EXCEPT !.review = inp]
      /\ exec'.seen = seen
  BY Zenon, <1>1, <1>3 DEF Rest, ExecFields
<1> QED  BY <1>4 DEF inp, seen

\* The file a tool reads and the document it knows of it.
ThisFile == exec.memory.files[exec.todo]
ThisDocument ==
    IF DocumentsOf(ThisFile) = {} THEN Len(documents) + 1 ELSE Max(DocumentsOf(ThisFile))

\* What a turn of the loop does with the file: it was read by this run, it was
\* handled otherwise, or the model is asked about it.
ReadFileDoes ==
    \/ /\ ThisDocument \in Known /\ exec.run \in ToSet(documents[ThisDocument].readBy)
       /\ DOMAIN exec' = ExecFields /\ Rest({"out", "todo", "seen"})
       /\ exec'.out = [exec.out EXCEPT !.document_ids =
                            Append(exec.out.document_ids, ThisDocument)]
       /\ exec'.todo = exec.todo + 1
       /\ exec'.seen = [exec.seen EXCEPT ![ThisDocument] = documents[ThisDocument].status]
       /\ documents' = documents
    \/ /\ ThisDocument \in Known /\ exec.run \notin ToSet(documents[ThisDocument].readBy)
       /\ DOMAIN exec' = ExecFields /\ Rest({"todo"}) /\ exec'.todo = exec.todo + 1
       /\ documents' = documents
    \/ /\ DOMAIN exec' = ExecFields /\ Rest({"place", "reading"})
       /\ exec'.place = "answer" /\ exec'.reading = ThisDocument
       /\ \/ documents' = documents /\ ThisDocument \in Known
             /\ exec.run \notin ToSet(documents[ThisDocument].readBy)
          \/ ThisDocument \notin Known /\ documents' = Append(documents,
                [invoice |-> ThisFile, status |-> "processing", readBy |-> << >>,
                 faulty |-> FALSE, accepted |-> FALSE])

LEMMA FileIsLookedAt ==
    ASSUME Shape, ReadFile
    PROVE  ReadFileDoes
<1> DEFINE d == ThisDocument
           ours == d \in Known /\ exec.run \in ToSet(documents[d].readBy)
           handled == d \in Known /\ \/ documents[d].status \in DONE_STATUSES
                                     \/ documents[d].readBy # << >>
           row == [invoice |-> ThisFile, status |-> "processing", readBy |-> << >>,
                   faulty |-> FALSE, accepted |-> FALSE]
<1>1. DOMAIN exec = ExecFields
  BY DEF Shape
<1>2. \/ /\ ours
         /\ exec' = [exec EXCEPT !.out.document_ids = Append(exec.out.document_ids, d),
                                 !.todo = exec.todo + 1, !.seen[d] = documents[d].status]
         /\ documents' = documents
      \/ /\ ~ours /\ handled
         /\ exec' = [exec EXCEPT !.todo = exec.todo + 1]
         /\ documents' = documents
      \/ /\ ~ours /\ ~handled
         /\ exec' = [exec EXCEPT !.place = "answer", !.reading = d]
         /\ documents' = IF d \in Known THEN documents ELSE Append(documents, row)
  BY Zenon DEF ReadFile, ThisFile, ThisDocument, ReadByThisRun
<1>3. CASE /\ ours
           /\ exec' = [exec EXCEPT !.out.document_ids = Append(exec.out.document_ids, d),
                                   !.todo = exec.todo + 1, !.seen[d] = documents[d].status]
           /\ documents' = documents
  <2> HIDE DEF d
  <2>1. /\ DOMAIN exec' = ExecFields /\ Rest({"out", "todo", "seen"})
        /\ exec'.out = [exec.out EXCEPT !.document_ids = Append(exec.out.document_ids, d)]
        /\ exec'.todo = exec.todo + 1
        /\ exec'.seen = [exec.seen EXCEPT ![d] = documents[d].status]
    BY <1>1, <1>3 DEF Rest, ExecFields
  <2> QED  BY <1>3, <2>1 DEF ReadFileDoes, d
<1>4. CASE /\ ~ours /\ handled
           /\ exec' = [exec EXCEPT !.todo = exec.todo + 1]
           /\ documents' = documents
  <2>1. DOMAIN exec' = ExecFields /\ Rest({"todo"}) /\ exec'.todo = exec.todo + 1
    BY <1>1, <1>4 DEF Rest, ExecFields
  <2> QED  BY <1>4, <2>1 DEF ReadFileDoes
<1>5. CASE /\ ~ours /\ ~handled
           /\ exec' = [exec EXCEPT !.place = "answer", !.reading = d]
           /\ documents' = IF d \in Known THEN documents ELSE Append(documents, row)
  <2> HIDE DEF d
  <2>1. /\ DOMAIN exec' = ExecFields /\ Rest({"place", "reading"})
        /\ exec'.place = "answer" /\ exec'.reading = d
    BY <1>1, <1>5 DEF Rest, ExecFields
  <2> QED  BY <1>5, <2>1 DEF ReadFileDoes, d
<1> QED
  <2> HIDE DEF d, ours, handled, row
  <2> QED  BY <1>2, <1>3, <1>4, <1>5

ReadAnswerDoes ==
    /\ DOMAIN exec' = ExecFields /\ exec'.place = "tool" /\ exec'.todo = exec.todo + 1
    /\ exec.reading \in Known
    /\ \/ /\ Rest({"place", "todo", "seen", "out"})
          /\ exec'.seen = [exec.seen EXCEPT ![exec.reading] = "processing"]
          /\ exec'.out = [exec.out EXCEPT !.document_ids =
                            Append(exec.out.document_ids, exec.reading)]
          /\ documents'[exec.reading].readBy = << exec.run >>
       \/ /\ Rest({"place", "todo"})
          /\ documents'[exec.reading].readBy = << >>
          /\ \A d \in Known : documents'[d].readBy = documents[d].readBy

LEMMA AnswerIsUsed ==
    ASSUME Shape, Readings, ReadAnswer
    PROVE  ReadAnswerDoes
<1> DEFINE d == exec.reading
           goesOn == [exec EXCEPT !.place = "tool", !.todo = exec.todo + 1]
<1>1. d \in Known /\ documents[d].readBy = << >>
  BY DEF Readings, ReadAnswer, AskedIsUnread, Known
<1>2. DOMAIN exec = ExecFields /\ \A e \in Known : DOMAIN documents[e] = DocumentFields
  BY DEF Shape, Readings
<1>3. \/ \E faulty \in BOOLEAN :
            /\ documents' = [documents EXCEPT
                    ![d].readBy = Append(documents[d].readBy, exec.run),
                    ![d].status = "processing", ![d].faulty = faulty]
            /\ exec' = [goesOn EXCEPT !.seen[d] = "processing",
                            !.out.document_ids = Append(exec.out.document_ids, d)]
      \/ /\ \E status \in {"failed", "rejected"} :
                documents' = [documents EXCEPT ![d].status = status]
         /\ exec' = goesOn
  BY DEF ReadAnswer
<1>4. CASE \E faulty \in BOOLEAN :
            /\ documents' = [documents EXCEPT
                    ![d].readBy = Append(documents[d].readBy, exec.run),
                    ![d].status = "processing", ![d].faulty = faulty]
            /\ exec' = [goesOn EXCEPT !.seen[d] = "processing",
                            !.out.document_ids = Append(exec.out.document_ids, d)]
  <2>1. Append(documents[d].readBy, exec.run) = << exec.run >>
    BY <1>1
  <2>2. PICK faulty \in BOOLEAN : documents' = [documents EXCEPT
                ![d].readBy = << exec.run >>, ![d].status = "processing", ![d].faulty = faulty]
    BY <1>4, <2>1
  <2>3. documents'[d] = [documents[d] EXCEPT !.readBy = << exec.run >>,
                                !.status = "processing", !.faulty = faulty]
    BY <1>1, <2>2 DEF Known
  <2>4. documents'[d].readBy = << exec.run >>
    BY <1>1, <1>2, <2>3 DEF DocumentFields
  <2>5. /\ DOMAIN exec' = ExecFields /\ exec'.place = "tool" /\ exec'.todo = exec.todo + 1
        /\ Rest({"place", "todo", "seen", "out"})
        /\ exec'.seen = [exec.seen EXCEPT ![d] = "processing"]
        /\ exec'.out = [exec.out EXCEPT !.document_ids = Append(exec.out.document_ids, d)]
    BY <1>2, <1>4 DEF Rest, ExecFields
  <2> QED  BY <1>1, <2>4, <2>5 DEF ReadAnswerDoes
<1>5. CASE /\ \E status \in {"failed", "rejected"} :
                    documents' = [documents EXCEPT ![d].status = status]
           /\ exec' = goesOn
  <2>1. PICK status : documents' = [documents EXCEPT ![d].status = status]
    BY <1>5
  <2>2. \A e \in Known : documents'[e] = documents[e]
            \/ documents'[e] = [documents[e] EXCEPT !.status = status]
    BY <2>1 DEF Known
  <2>3. \A e \in Known : documents'[e].readBy = documents[e].readBy
    BY <1>2, <2>2 DEF DocumentFields
  <2>4. /\ DOMAIN exec' = ExecFields /\ exec'.place = "tool" /\ exec'.todo = exec.todo + 1
        /\ Rest({"place", "todo"})
    BY <1>2, <1>5 DEF Rest, ExecFields
  <2> QED  BY <1>1, <2>3, <2>4 DEF ReadAnswerDoes
<1> QED  BY <1>3, <1>4, <1>5

Upto(s, n) == {s[m] : m \in 1 .. n}

\* The first n of the input, each once, are in passed or in review.
SplitOf(input, n, passed, review) ==
    /\ input \in Seq(Nat) /\ IsInjective(input)
    /\ passed \in Seq(Nat) /\ IsInjective(passed)
    /\ review \in Seq(Nat) /\ IsInjective(review)
    /\ ToSet(passed) \cap ToSet(review) = {}
    /\ ToSet(passed) \cup ToSet(review) = Upto(input, n)

LEMMA Taking ==
    ASSUME NEW input, NEW s \in Nat, NEW n \in Nat, s <= n, n <= Len(input),
           NEW passed, NEW review, SplitOf(input, s, passed, review)
    PROVE  SplitOf(input, n, passed \o SubSeq(input, s + 1, n), review)
<1> DEFINE t == s + 1
           T == Nat
<1>9. /\ t \in Nat \ {0} /\ t <= n + 1 /\ t - 1 = s
      /\ input \in Seq(T) /\ IsInjective(input)
      /\ passed \in Seq(T) /\ IsInjective(passed)
      /\ review \in Seq(T) /\ IsInjective(review)
      /\ ToSet(passed) \cap ToSet(review) = {}
      /\ ToSet(passed) \cup ToSet(review) = Upto(input, t - 1)
  BY DEF SplitOf
<1> HIDE DEF t, T
<1> DEFINE part == SubSeq(input, t, n)
<1>1. /\ part \in Seq(T) /\ IsInjective(part)
      /\ ToSet(part) = {input[m] : m \in t .. n}
  BY <1>9, Cut
<1>2. Len(input) \in Nat /\ DOMAIN input = 1 .. Len(input)
  BY <1>9
<1>0. ToSet(passed) \cup ToSet(review) = {input[m] : m \in 1 .. (t - 1)}
  BY <1>9 DEF Upto
<1> HIDE DEF part
<1>3. {input[m] : m \in 1 .. (t - 1)} \cap ToSet(part) = {}
  <2>1. \A a \in 1 .. (t - 1), b \in t .. n : input[a] # input[b]
    BY <1>2, <1>9 DEF IsInjective
  <2> QED  BY <1>1, <2>1
<1>4. /\ passed \o part \in Seq(T)
      /\ ToSet(passed \o part) = ToSet(passed) \cup ToSet(part)
      /\ IsInjective(passed \o part)
  <2>1. ToSet(passed) \cap ToSet(part) = {}
    BY <1>0, <1>3
  <2> QED  BY <1>1, <1>9, <2>1, Joined
<1>5. {input[m] : m \in 1 .. n} =
        {input[m] : m \in 1 .. (t - 1)} \cup {input[m] : m \in t .. n}
  <2>1. 1 .. n = (1 .. (t - 1)) \cup (t .. n)
    BY <1>9
  <2> QED  BY <2>1
<1>6. ToSet(passed \o part) \cap ToSet(review) = {}
  <2>1. ToSet(review) \subseteq {input[m] : m \in 1 .. (t - 1)}
    BY <1>0
  <2>2. ToSet(passed) \cap ToSet(review) = {}
    BY <1>9
  <2> QED  BY <1>3, <1>4, <2>1, <2>2
<1>7. ToSet(passed \o part) \cup ToSet(review) = {input[m] : m \in 1 .. n}
  BY <1>0, <1>1, <1>4, <1>5
<1> QED  BY <1>1, <1>4, <1>6, <1>7, <1>9 DEF part, Upto, SplitOf, t, T

LEMMA OwnGrows ==
    ASSUME DocumentsChange
    PROVE  /\ \A r : Own(r, documents) \subseteq Own(r, documents')
           /\ \A d \in Known : d \in Known' /\ documents'[d].invoice = documents[d].invoice
           /\ \A r : Own(r, documents) \subseteq Known
<1>1. Known \subseteq Known'
  BY DEF DocumentsChange
<1>2. ToSet(<< >>) = {}
  BY DEF ToSet
<1>3. \A d \in Known : RowChange(d, documents[d], documents'[d])
  BY DEF DocumentsChange
<1>4. \A d \in Known : documents'[d].invoice = documents[d].invoice
        /\ (documents'[d].readBy = documents[d].readBy \/ documents[d].readBy = << >>)
  BY <1>3 DEF RowChange
<1>5. \A r : Own(r, documents) \subseteq Known
  BY DEF Own, Known
<1>6. ASSUME NEW r, NEW d \in Own(r, documents)
      PROVE  d \in Own(r, documents')
  <2>1. d \in Known /\ r \in ToSet(documents[d].readBy)
    BY <1>6 DEF Own, Known
  <2>2. documents'[d].readBy = documents[d].readBy
    BY <1>2, <1>4, <2>1
  <2> QED  BY <1>1, <2>1, <2>2 DEF Own, Known
<1> QED  BY <1>1, <1>4, <1>5, <1>6

LEMMA InputFacts ==
    ASSUME Sound(exec, documents), NEW k
    PROVE  /\ Input(k) = InputFrom(k, exec.memory)
           /\ Workflow.tool[k] = "read" => Input(k) = exec.memory.files
                                            /\ Input(k) \in Seq(Invoices)
           /\ Workflow.tool[k] # "read" =>
                /\ Input(k) \in Seq(Nat) /\ ToSet(Input(k)) \subseteq Own(exec.run, documents)
           /\ IsInjective(Input(k))
<1>1. Input(k) = InputFrom(k, exec.memory)
  BY DEF Input, InputFrom
<1>2. /\ exec.memory.files \in Seq(Invoices) /\ exec.memory.document_ids \in Seq(Nat)
      /\ exec.memory.passed \in Seq(Nat) /\ exec.memory.review \in Seq(Nat)
  BY MemoryFields DEF Sound
<1>3. \/ Input(k) = exec.memory.files /\ Workflow.tool[k] = "read"
      \/ Workflow.tool[k] # "read" /\ \/ Input(k) = exec.memory.passed
                                      \/ Input(k) = exec.memory.review
                                      \/ Input(k) = exec.memory.document_ids
  BY DEF Input
<1> QED  BY <1>1, <1>2, <1>3 DEF Sound

LEMMA SoundKept ==
    ASSUME Sound(exec, documents), DocumentsChange,
           exec'.memory = exec.memory, exec'.run = exec.run
    PROVE  Sound(exec', documents')
BY OwnGrows DEF Sound

\* A person, or a file that arrives, does not disturb the tool.
LEMMA PapersGrow ==
    ASSUME Papers(exec, documents), Readings, DocumentsChange, exec' = exec
    PROVE  Papers(exec', documents')
<1> SUFFICES ASSUME exec.run # None PROVE Papers(exec', documents')
  BY DEF Papers
<1>1. Sound(exec, documents) /\ Sound(exec', documents')
  BY SoundKept DEF Papers
<1>2. \A d \in Own(exec.run, documents) : documents'[d].invoice = documents[d].invoice
  BY OwnGrows
<1>3. ASSUME exec.place \in InStep
      PROVE  InTheTool(exec, documents')
  <2>1. InTheTool(exec, documents)
    BY <1>3 DEF Papers
  <2>2. ReadSoFar(exec, documents) => ReadSoFar(exec, documents')
    <3> SUFFICES ASSUME ReadSoFar(exec, documents) PROVE ReadSoFar(exec, documents')
      OBVIOUS
    <3>1. ToSet(exec.out.document_ids) \subseteq Own(exec.run, documents')
      BY OwnGrows DEF ReadSoFar
    <3>2. \A d \in ToSet(exec.out.document_ids) : documents'[d].invoice \in Taken(exec)
      BY <1>2 DEF ReadSoFar
    <3>3. exec.place = "answer" =>
            documents'[exec.reading].invoice = documents[exec.reading].invoice
      BY OwnGrows DEF Readings, AskedIsUnread, Known
    <3> QED  BY <3>1, <3>2, <3>3 DEF ReadSoFar
  <2> QED  BY <2>1, <2>2 DEF InTheTool
<1> QED  BY <1>1, <1>3 DEF Papers

\* The tool starts, for the first time or again.
LEMMA ToolStarts ==
    ASSUME Sound(exec, documents), Sound(exec', documents'), exec'.run = exec.run,
           exec'.memory = exec.memory, exec'.index = exec.index,
           exec'.place = "tool", exec'.todo = 1, exec'.out = Fresh(Key)
    PROVE  Papers(exec', documents')
<1> DEFINE k == Order[exec.index]
           m == exec.memory
<1>1. /\ m \in Memory /\ DOMAIN m = {"files", "document_ids", "passed", "review"}
  BY MemoryFields DEF Sound
<1>2. Taken(exec') = {}
  <2>1. 1 .. (1 - 1) = {}
    OBVIOUS
  <2> QED  BY <2>1 DEF Taken
<1>3. InputLen(exec') \in Nat
  <2>1. InputFrom(k, m) \in Seq(Invoices) \/ InputFrom(k, m) \in Seq(Nat)
    BY InputFacts
  <2>2. InputLen(exec') = Len(InputFrom(k, m))
    BY DEF InputLen
  <2> HIDE DEF k, m
  <2> QED  BY <2>1, <2>2
<1>4. CASE Workflow.tool[k] = "read"
  <2>1. exec'.out = [m EXCEPT !.document_ids = << >>]
    BY <1>4 DEF Fresh, Key
  <2>2. exec'.out.document_ids = << >>
    BY <1>1, <2>1
  <2>3. ReadSoFar(exec', documents')
    BY <1>2, <1>3, <2>1, <2>2, EmptySequence DEF ReadSoFar
  <2> QED  BY <1>4, <2>3 DEF Papers, InTheTool
<1>5. CASE Workflow.tool[k] = "check"
  <2>1. exec'.out = [m EXCEPT !.passed = << >>, !.review = << >>]
    BY <1>5 DEF Fresh, Key
  <2>2. exec'.out.passed = << >> /\ exec'.out.review = << >>
    BY <1>1, <2>1
  <2>3. CheckedSoFar(exec')
    BY <1>2, <1>3, <2>1, <2>2, EmptySequence DEF CheckedSoFar
  <2> QED  BY <1>5, <2>3 DEF Papers, InTheTool
<1>6. CASE Workflow.tool[k] \notin {"read", "check"}
  <2>1. exec'.out = m
    BY <1>6 DEF Fresh, Key
  <2> QED  BY <1>6, <2>1 DEF Papers, InTheTool
<1> QED  BY <1>4, <1>5, <1>6

\* The thread comes to the next step, or is told that there is none.
LEMMA StepEnds ==
    ASSUME exec'.place = "start", Sound(exec', documents')
    PROVE  Papers(exec', documents')
BY DEF Papers, InStep

\* What an exec.out that InTheTool describes can hand over to memory.
LEMMA OutIsSound ==
    ASSUME Sound(exec, documents), documents' = documents, exec'.run = exec.run,
           NEW m, exec'.memory = m, m \in Memory,
           \/ m.document_ids = exec.memory.document_ids
           \/ ToSet(m.document_ids) \subseteq Own(exec.run, documents)
              /\ IsInjective(m.document_ids),
           \/ m.passed = exec.memory.passed
           \/ ToSet(m.passed) \subseteq Own(exec.run, documents) /\ IsInjective(m.passed),
           \/ m.review = exec.memory.review
           \/ ToSet(m.review) \subseteq Own(exec.run, documents) /\ IsInjective(m.review),
           IsInjective(m.files)
    PROVE  Sound(exec', documents')
BY DEF Sound

\* The newest document of the file the tool has come to.
LEMMA ThisIsTheNewest ==
    ASSUME Readings
    PROVE  /\ DocumentsOf(ThisFile) # {} <=> ThisDocument \in Known
           /\ ThisDocument \in Known =>
                /\ documents[ThisDocument].invoice = ThisFile
                /\ \A e \in Known : documents[e].invoice = ThisFile => e <= ThisDocument
           /\ ThisDocument \notin Known => ThisDocument = Len(documents) + 1
<1>1. Len(documents) \in Nat /\ Known = 1 .. Len(documents)
  BY DEF Readings, Known
<1>2. DocumentsOf(ThisFile) \subseteq 1 .. Len(documents)
  BY <1>1 DEF DocumentsOf
<1>3. CASE DocumentsOf(ThisFile) = {}
  <2>1. ThisDocument = Len(documents) + 1
    BY <1>3 DEF ThisDocument
  <2> QED  BY <1>1, <1>3, <2>1
<1>4. CASE DocumentsOf(ThisFile) # {}
  <2>1. ThisDocument = Max(DocumentsOf(ThisFile))
    BY <1>4 DEF ThisDocument
  <2>2. /\ ThisDocument \in DocumentsOf(ThisFile)
        /\ \A e \in DocumentsOf(ThisFile) : e <= ThisDocument
    BY <1>1, <1>2, <1>4, <2>1, Greatest
  <2> QED  BY <1>4, <2>2 DEF DocumentsOf
<1> QED  BY <1>3, <1>4

\* While a tool works the pass is under way.
LEMMA AtWork ==
    ASSUME Shape, Progress, Papers(exec, documents), exec.place \in InStep
    PROVE  /\ exec.run \in Runs /\ exec.run # None /\ exec.index \in 1 .. Len(Order)
           /\ Sound(exec, documents) /\ InTheTool(exec, documents) /\ Key = Order[exec.index]
<1>1. exec.run # None /\ exec.run \in Runs
  BY RunsAreNotNone DEF Shape, InStep
<1>2. exec.index \in 1 .. Len(Order)
  BY <1>1, OrderIsFinite DEF Shape, Progress, PassInv
<1> QED  BY <1>1, <1>2 DEF Papers, Key

LEMMA ReadingAFile ==
    ASSUME Shape, Progress, Readings, Papers(exec, documents), InTool("read")
    PROVE  /\ exec.place = "tool" /\ ReadSoFar(exec, documents)
           /\ InputLen(exec) = Len(exec.memory.files) /\ Len(exec.memory.files) \in Nat
           /\ DOMAIN exec.memory.files = 1 .. Len(exec.memory.files)
           /\ Taken(exec) = {exec.memory.files[n] : n \in 1 .. (exec.todo - 1)}
           /\ exec.todo \in Nat \ {0} /\ exec.out \in Memory
           /\ Workflow.tool[Order[exec.index]] = "read"
<1>1. exec.place = "tool" /\ Workflow.tool[Order[exec.index]] = "read"
  BY DEF InTool, Key
<1>2. InTheTool(exec, documents) /\ Sound(exec, documents)
  BY <1>1, AtWork DEF InStep
<1>3. exec.memory \in Memory /\ exec.memory.files \in Seq(Invoices)
  BY <1>2, MemoryFields DEF Sound
<1>4. InputFrom(Order[exec.index], exec.memory) = exec.memory.files
  BY <1>1 DEF InputFrom
<1>5. ReadSoFar(exec, documents) /\ exec.todo \in Nat \ {0}
  BY <1>1, <1>2 DEF InTheTool
<1>6. exec.out \in Memory
  BY <1>3, <1>5 DEF ReadSoFar, Memory
<1>7. Len(exec.memory.files) \in Nat /\ DOMAIN exec.memory.files = 1 .. Len(exec.memory.files)
  BY <1>3
<1> QED  BY <1>1, <1>4, <1>5, <1>6, <1>7 DEF Taken, InputLen

\* One more file has been looked at, and perhaps its document is handed on.
LEMMA OneMoreFile ==
    ASSUME Shape, Progress, Readings, Papers(exec, documents), DocumentsChange,
           exec.place \in {"tool", "answer"}, ReadSoFar(exec, documents),
           Workflow.tool[Order[exec.index]] = "read",
           exec.todo <= Len(exec.memory.files),
           exec'.run = exec.run, exec'.index = exec.index, exec'.memory = exec.memory,
           exec'.place = "tool", exec'.todo = exec.todo + 1,
           \/ exec'.out = exec.out
           \/ \E d \in Own(exec.run, documents') :
                /\ d \in Known /\ documents[d].invoice = exec.memory.files[exec.todo]
                /\ exec'.out = [exec.out EXCEPT !.document_ids =
                                    Append(exec.out.document_ids, d)]
    PROVE  Papers(exec', documents')
<1> DEFINE files == exec.memory.files
           ids == exec.out.document_ids
<1>0. exec.place \in InStep
  BY DEF InStep
<1>1. /\ Sound(exec, documents) /\ exec.memory \in Memory /\ files \in Seq(Invoices)
      /\ IsInjective(files) /\ exec.todo \in Nat \ {0} /\ exec.run \in Runs
  BY <1>0, AtWork, MemoryFields DEF Sound, InTheTool
<1>2. Len(files) \in Nat /\ DOMAIN files = 1 .. Len(files)
  BY <1>1
<1>3. /\ InputFrom(Order[exec.index], exec.memory) = files
      /\ Taken(exec) = {files[n] : n \in 1 .. (exec.todo - 1)}
      /\ Taken(exec') = {files[n] : n \in 1 .. ((exec.todo + 1) - 1)}
      /\ InputLen(exec') = Len(files)
  BY DEF Taken, InputLen, InputFrom
<1>4. Taken(exec') = Taken(exec) \cup {files[exec.todo]}
  <2>1. 1 .. ((exec.todo + 1) - 1) = (1 .. (exec.todo - 1)) \cup {exec.todo}
    BY <1>1
  <2> QED  BY <1>3, <2>1
<1>5. files[exec.todo] \notin Taken(exec)
  <2>1. exec.todo \in 1 .. Len(files)
        /\ \A n \in 1 .. (exec.todo - 1) : n \in 1 .. Len(files) /\ n # exec.todo
    BY <1>1, <1>2
  <2>2. \A n \in 1 .. (exec.todo - 1) : files[n] # files[exec.todo]
    BY <1>1, <1>2, <2>1 DEF IsInjective
  <2> QED  BY <1>3, <2>2
<1>6. /\ exec.out = [exec.memory EXCEPT !.document_ids = ids] /\ ids \in Seq(Nat)
      /\ IsInjective(ids) /\ ToSet(ids) \subseteq Own(exec.run, documents)
      /\ \A d \in ToSet(ids) : documents[d].invoice \in Taken(exec)
  BY DEF ReadSoFar
<1>7. \A d \in ToSet(ids) : d \in Known /\ documents'[d].invoice = documents[d].invoice
                            /\ d \in Own(exec.run, documents')
  BY <1>6, OwnGrows
<1>8. DOMAIN exec.memory = {"files", "document_ids", "passed", "review"}
  BY <1>1, MemoryFields
<1>9. ASSUME NEW new \in Seq(Nat), exec'.out = [exec.out EXCEPT !.document_ids = new],
             IsInjective(new), ToSet(new) \subseteq Own(exec.run, documents'),
             \A d \in ToSet(new) : documents'[d].invoice \in Taken(exec')
      PROVE  Papers(exec', documents')
  <2>1. exec'.out = [exec.memory EXCEPT !.document_ids = new]
    BY <1>6, <1>8, <1>9
  <2>2. exec'.out.document_ids = new
    BY <1>8, <2>1
  <2>3. exec'.todo <= InputLen(exec') + 1 /\ exec'.todo \in Nat \ {0}
    BY <1>1, <1>2, <1>3
  <2>4. ReadSoFar(exec', documents')
    BY <1>9, <2>1, <2>2, <2>3 DEF ReadSoFar
  <2>5. Sound(exec', documents')
    BY <1>1, SoundKept
  <2> QED  BY <2>3, <2>4, <2>5 DEF Papers, InTheTool
<1>10. CASE exec'.out = exec.out
  <2>1. exec'.out = [exec.out EXCEPT !.document_ids = ids]
    BY <1>6, <1>8, <1>10
  <2>2. \A d \in ToSet(ids) : documents'[d].invoice \in Taken(exec')
    BY <1>4, <1>6, <1>7
  <2>3. ToSet(ids) \subseteq Own(exec.run, documents')
    BY <1>7
  <2> HIDE DEF ids
  <2> QED  BY <1>6, <1>9, <2>1, <2>2, <2>3
<1>11. ASSUME NEW d \in Own(exec.run, documents'),
              d \in Known, documents[d].invoice = files[exec.todo],
              exec'.out = [exec.out EXCEPT !.document_ids = Append(ids, d)]
       PROVE  Papers(exec', documents')
  <2>1. d \notin ToSet(ids)
    BY <1>5, <1>6, <1>11
  <2>2. d \in Nat
    BY <1>11 DEF DocumentsChange
  <2>3. /\ Append(ids, d) \in Seq(Nat) /\ IsInjective(Append(ids, d))
        /\ ToSet(Append(ids, d)) = ToSet(ids) \cup {d}
    BY <1>6, <2>1, <2>2, Appended
  <2>4. documents'[d].invoice = files[exec.todo]
    BY <1>11, OwnGrows
  <2>5. \A e \in ToSet(Append(ids, d)) : documents'[e].invoice \in Taken(exec')
    BY <1>4, <1>6, <1>7, <2>3, <2>4
  <2>6. ToSet(Append(ids, d)) \subseteq Own(exec.run, documents')
    BY <1>7, <2>3
  <2> QED  BY <1>9, <1>11, <2>3, <2>5, <2>6
<1> QED  BY <1>10, <1>11

LEMMA ReadFileKeepsPapers ==
    ASSUME Shape, Progress, Readings, Papers(exec, documents), ReadFile
    PROVE  Papers(exec', documents')
<1>1. InTool("read") /\ exec.todo <= Len(exec.memory.files) /\ ReadFileDoes
  BY Zenon, FileIsLookedAt DEF ReadFile
<1>2. /\ exec.place = "tool" /\ ReadSoFar(exec, documents)
      /\ InputLen(exec) = Len(exec.memory.files) /\ exec.todo \in Nat \ {0}
      /\ Workflow.tool[Order[exec.index]] = "read" /\ DocumentsChange
  BY <1>1, ReadingAFile, ReadFileChanges
<1>3. CASE /\ ThisDocument \in Known /\ exec.run \in ToSet(documents[ThisDocument].readBy)
           /\ DOMAIN exec' = ExecFields /\ Rest({"out", "todo", "seen"})
           /\ exec'.out = [exec.out EXCEPT !.document_ids =
                                Append(exec.out.document_ids, ThisDocument)]
           /\ exec'.todo = exec.todo + 1
           /\ documents' = documents
  <2>1. /\ exec'.run = exec.run /\ exec'.index = exec.index /\ exec'.memory = exec.memory
        /\ exec'.place = exec.place
    BY <1>3 DEF Rest, ExecFields
  <2>2. ThisDocument \in Own(exec.run, documents')
    BY <1>3 DEF Own, Known
  <2>3. documents[ThisDocument].invoice = exec.memory.files[exec.todo]
    BY <1>3, ThisIsTheNewest DEF ThisFile
  <2> QED  BY <1>1, <1>2, <1>3, <2>1, <2>2, <2>3, OneMoreFile
<1>4. CASE /\ DOMAIN exec' = ExecFields /\ Rest({"todo"}) /\ exec'.todo = exec.todo + 1
           /\ documents' = documents
  <2>1. /\ exec'.run = exec.run /\ exec'.index = exec.index /\ exec'.memory = exec.memory
        /\ exec'.place = exec.place /\ exec'.out = exec.out
    BY <1>4 DEF Rest, ExecFields
  <2> QED  BY <1>1, <1>2, <1>4, <2>1, OneMoreFile
<1>5. CASE /\ DOMAIN exec' = ExecFields /\ Rest({"place", "reading"})
           /\ exec'.place = "answer" /\ exec'.reading = ThisDocument
           /\ \/ documents' = documents /\ ThisDocument \in Known
              \/ ThisDocument \notin Known /\ documents' = Append(documents,
                    [invoice |-> ThisFile, status |-> "processing", readBy |-> << >>,
                     faulty |-> FALSE, accepted |-> FALSE])
  <2>1. /\ exec'.run = exec.run /\ exec'.index = exec.index /\ exec'.memory = exec.memory
        /\ exec'.todo = exec.todo /\ exec'.out = exec.out
    BY <1>5 DEF Rest, ExecFields
  <2>2. documents'[ThisDocument].invoice = ThisFile
    <3>1. CASE documents' = documents /\ ThisDocument \in Known
      BY <3>1, ThisIsTheNewest
    <3>2. CASE ThisDocument \notin Known /\ documents' = Append(documents,
                    [invoice |-> ThisFile, status |-> "processing", readBy |-> << >>,
                     faulty |-> FALSE, accepted |-> FALSE])
      <4> DEFINE row == [invoice |-> ThisFile, status |-> "processing", readBy |-> << >>,
                         faulty |-> FALSE, accepted |-> FALSE]
      <4>1. row.invoice = ThisFile
        OBVIOUS
      <4> HIDE DEF row
      <4>2. documents' = Append(documents, row)
        BY <3>2 DEF row
      <4>3. ThisDocument = Len(documents) + 1 /\ documents \in Seq(ToSet(documents))
        BY <3>2, ThisIsTheNewest DEF Readings
      <4>4. documents \in Seq(ToSet(documents) \cup {row})
        BY <4>3
      <4>5. documents'[Len(documents) + 1] = row
        BY <4>2, <4>4
      <4> QED  BY <4>1, <4>3, <4>5
    <3> QED  BY <1>5, <3>1, <3>2
  <2>3. /\ Sound(exec, documents) /\ Sound(exec', documents')
        /\ exec.run # None
    BY <1>2, <2>1, AtWork, SoundKept DEF InStep
  <2>4. Taken(exec') = Taken(exec) /\ InputLen(exec') = InputLen(exec)
    BY <2>1 DEF Taken, InputLen
  <2>5. \A d \in Own(exec.run, documents) :
            d \in Own(exec.run, documents') /\ documents'[d].invoice = documents[d].invoice
    BY <1>2, OwnGrows
  <2>6. ReadSoFar(exec', documents')
    BY <1>1, <1>2, <1>5, <2>1, <2>2, <2>4, <2>5 DEF ReadSoFar, ThisFile
  <2> QED  BY <1>2, <1>5, <2>1, <2>3, <2>6 DEF Papers, InTheTool
<1> QED  BY <1>1, <1>3, <1>4, <1>5 DEF ReadFileDoes

LEMMA ReadAnswerKeepsPapers ==
    ASSUME Shape, Progress, Readings, Papers(exec, documents), ReadAnswer
    PROVE  Papers(exec', documents')
<1>1. exec.place = "answer" /\ DocumentsChange /\ ReadAnswerDoes
  BY ReadAnswerChanges, AnswerIsUsed DEF ReadAnswer
<1>2. /\ exec.run \in Runs /\ Sound(exec, documents) /\ InTheTool(exec, documents)
  BY <1>1, AtWork DEF InStep
<1>3. Workflow.tool[Order[exec.index]] = "read" /\ ReadSoFar(exec, documents)
  BY <1>1, <1>2 DEF InTheTool
<1>4. InputLen(exec) = Len(exec.memory.files)
  BY <1>3 DEF InputLen, InputFrom
<1>5. /\ exec.todo <= Len(exec.memory.files)
      /\ documents[exec.reading].invoice = exec.memory.files[exec.todo]
  BY <1>1, <1>3, <1>4 DEF ReadSoFar
<1>6. CASE /\ Rest({"place", "todo", "seen", "out"})
           /\ exec'.out = [exec.out EXCEPT !.document_ids =
                             Append(exec.out.document_ids, exec.reading)]
           /\ documents'[exec.reading].readBy = << exec.run >>
  <2>1. exec'.run = exec.run /\ exec'.index = exec.index /\ exec'.memory = exec.memory
    BY <1>6 DEF Rest, ExecFields
  <2>2. exec.reading \in Own(exec.run, documents') /\ exec.reading \in Known
    <3>1. exec.reading \in Known /\ exec.reading \in Known'
      BY <1>1, OwnGrows DEF ReadAnswerDoes
    <3>2. exec.run \in ToSet(<< exec.run >>)
      BY DEF ToSet
    <3> QED  BY <1>6, <3>1, <3>2 DEF Own, Known
  <2> QED  BY <1>1, <1>3, <1>5, <1>6, <2>1, <2>2, OneMoreFile DEF ReadAnswerDoes
<1>7. CASE Rest({"place", "todo"})
  <2>1. exec'.run = exec.run /\ exec'.index = exec.index /\ exec'.memory = exec.memory
        /\ exec'.out = exec.out
    BY <1>7 DEF Rest, ExecFields
  <2> QED  BY <1>1, <1>3, <1>5, <2>1, OneMoreFile DEF ReadAnswerDoes
<1> QED  BY <1>1, <1>6, <1>7 DEF ReadAnswerDoes

LEMMA MemoryWith ==
    ASSUME NEW m \in Memory
    PROVE  /\ \A s \in Seq(Invoices) : [m EXCEPT !.files = s] \in Memory
                                       /\ [m EXCEPT !.files = s].files = s
           /\ \A s \in Seq(Nat) : [m EXCEPT !.document_ids = s] \in Memory
                                  /\ [m EXCEPT !.document_ids = s].document_ids = s
           /\ \A s \in Seq(Nat) : [m EXCEPT !.passed = s] \in Memory
                                  /\ [m EXCEPT !.passed = s].passed = s
           /\ \A s \in Seq(Nat) : [m EXCEPT !.review = s] \in Memory
                                  /\ [m EXCEPT !.review = s].review = s
BY DEF Memory

LEMMA Checking ==
    ASSUME Shape, Progress, Readings, Papers(exec, documents), InTool("check")
    PROVE  /\ exec.run \in Runs /\ exec.run # None /\ exec.place = "tool"
           /\ Workflow.tool[Order[exec.index]] = "check" /\ Key = Order[exec.index]
           /\ Sound(exec, documents) /\ CheckedSoFar(exec)
           /\ Input(Key) \in Seq(Nat) /\ IsInjective(Input(Key))
           /\ ToSet(Input(Key)) \subseteq Own(exec.run, documents)
           /\ InputFrom(Order[exec.index], exec.memory) = Input(Key)
           /\ Len(Input(Key)) \in Nat /\ DOMAIN Input(Key) = 1 .. Len(Input(Key))
           /\ Taken(exec) = {Input(Key)[n] : n \in 1 .. (exec.todo - 1)}
           /\ exec.todo \in Nat \ {0} /\ exec.todo <= Len(Input(Key)) + 1
           /\ exec.memory \in Memory /\ exec.out \in Memory
<1>1. exec.place = "tool" /\ Workflow.tool[Key] = "check"
  BY DEF InTool
<1>2. /\ exec.run \in Runs /\ exec.run # None /\ Sound(exec, documents)
      /\ InTheTool(exec, documents) /\ Key = Order[exec.index]
  BY <1>1, AtWork DEF InStep
<1>3. CheckedSoFar(exec) /\ exec.todo \in Nat \ {0}
  BY <1>1, <1>2 DEF InTheTool
<1>4. /\ Input(Key) \in Seq(Nat) /\ IsInjective(Input(Key))
      /\ ToSet(Input(Key)) \subseteq Own(exec.run, documents)
      /\ InputFrom(Order[exec.index], exec.memory) = Input(Key)
  BY <1>1, <1>2, InputFacts
<1>5. Len(Input(Key)) \in Nat /\ DOMAIN Input(Key) = 1 .. Len(Input(Key))
  BY <1>4
<1>6. exec.memory \in Memory
  BY <1>2 DEF Sound
<1>7. exec.out \in Memory
  BY <1>3, <1>6 DEF CheckedSoFar, Memory
<1>8. /\ Taken(exec) = {Input(Key)[n] : n \in 1 .. (exec.todo - 1)}
      /\ exec.todo <= Len(Input(Key)) + 1
  BY <1>3, <1>4 DEF CheckedSoFar, Taken, InputLen
<1> QED  BY <1>1, <1>2, <1>3, <1>4, <1>5, <1>6, <1>7, <1>8

\* The documents up to one that fails have been judged.
CheckSomeDoes(n) ==
    LET d == Input(Key)[n] verdict == Verdict(exec.todo, n, {d}) IN
    /\ Passing(exec.todo, n - 1)
    /\ Judge(verdict)
    /\ DOMAIN exec' = ExecFields /\ Rest({"todo", "seen", "out"})
    /\ exec'.todo = n + 1 /\ exec'.seen = Seen(verdict)
    /\ exec'.out = [exec.out EXCEPT
            !.passed = exec.out.passed \o SubSeq(Input(Key), exec.todo, n - 1),
            !.review = Append(exec.out.review, d)]

LEMMA SomeAreChecked ==
    ASSUME Shape, CheckSome, exec.out \in Memory
    PROVE  \E n \in exec.todo .. Len(Input(Key)) : CheckSomeDoes(n)
<1>1. DOMAIN exec = ExecFields
  BY DEF Shape
<1>2. DOMAIN exec.out = {"files", "document_ids", "passed", "review"}
  BY MemoryFields
<1>3. PICK n \in exec.todo .. Len(Input(Key)) :
        /\ Passing(exec.todo, n - 1)
        /\ Judge(Verdict(exec.todo, n, {Input(Key)[n]}))
        /\ exec' = [exec EXCEPT !.todo = n + 1,
                !.seen = Seen(Verdict(exec.todo, n, {Input(Key)[n]})),
                !.out.passed = exec.out.passed \o SubSeq(Input(Key), exec.todo, n - 1),
                !.out.review = Append(exec.out.review, Input(Key)[n])]
  BY DEF CheckSome
<1> DEFINE seen == Seen(Verdict(exec.todo, n, {Input(Key)[n]}))
           passed == exec.out.passed \o SubSeq(Input(Key), exec.todo, n - 1)
           review == Append(exec.out.review, Input(Key)[n])
<1>4. exec' = [exec EXCEPT !.todo = n + 1, !.seen = seen, !.out.passed = passed,
                           !.out.review = review]
  BY <1>3
<1> HIDE DEF seen, passed, review
<1>5. /\ DOMAIN exec' = ExecFields /\ Rest({"todo", "seen", "out"})
      /\ exec'.todo = n + 1 /\ exec'.seen = seen
      /\ exec'.out = [exec.out EXCEPT !.passed = passed, !.review = review]
  BY <1>1, <1>2, <1>4 DEF Rest, ExecFields
<1> QED  BY <1>3, <1>5 DEF CheckSomeDoes, seen, passed, review

LEMMA VerdictDomain ==
    ASSUME NEW from \in Nat \ {0}, NEW last, NEW bad, last \in Nat, last <= Len(Input(Key)),
           Len(Input(Key)) \in Nat, DOMAIN Input(Key) = 1 .. Len(Input(Key))
    PROVE  /\ DOMAIN Verdict(from, last, bad) = {Input(Key)[n] : n \in from .. last}
           /\ DOMAIN Verdict(from, last, bad) \subseteq ToSet(Input(Key))
<1>1. DOMAIN Verdict(from, last, bad) = {Input(Key)[n] : n \in from .. last}
  BY DEF Verdict
<1>2. \A n \in from .. last : n \in DOMAIN Input(Key)
  OBVIOUS
<1> QED  BY <1>1, <1>2 DEF ToSet

LEMMA CheckSomeChanges ==
    ASSUME Shape, Progress, Readings, Papers(exec, documents), CheckSome
    PROVE  DocumentsChange
<1>1. InTool("check")
  BY DEF CheckSome
<1>2. PICK n \in exec.todo .. Len(Input(Key)) : CheckSomeDoes(n)
  BY <1>1, Checking, SomeAreChecked
<1>3. n \in Nat /\ n <= Len(Input(Key))
  BY <1>1, Checking
<1>4. DOMAIN Verdict(exec.todo, n, {Input(Key)[n]}) \subseteq ToSet(Input(Key))
  BY <1>1, <1>3, Checking, VerdictDomain
<1> QED  BY <1>1, <1>2, <1>4, JudgeChanges DEF CheckSomeDoes

LEMMA CheckRestChanges ==
    ASSUME Shape, Progress, Readings, Papers(exec, documents), CheckRest
    PROVE  DocumentsChange
<1>1. InTool("check")
  BY DEF CheckRest
<1>2. DOMAIN Verdict(exec.todo, Len(Input(Key)), {}) \subseteq ToSet(Input(Key))
  <2>1. /\ exec.todo \in Nat \ {0} /\ Len(Input(Key)) \in Nat
        /\ DOMAIN Input(Key) = 1 .. Len(Input(Key)) /\ Len(Input(Key)) <= Len(Input(Key))
    BY <1>1, Checking
  <2> HIDE DEF DocumentsChange
  <2> QED  BY <2>1, VerdictDomain
<1>3. Judge(Verdict(exec.todo, Len(Input(Key)), {}))
  BY DEF CheckRest
<1> QED  BY <1>1, <1>2, <1>3, JudgeChanges

LEMMA CheckSomeKeepsPapers ==
    ASSUME Shape, Progress, Readings, Papers(exec, documents), CheckSome
    PROVE  Papers(exec', documents')
<1> DEFINE input == Input(Key)
<1>1. InTool("check") /\ DocumentsChange
  BY CheckSomeChanges DEF CheckSome
<1>2. /\ exec.run \in Runs /\ exec.run # None /\ exec.place = "tool"
      /\ Workflow.tool[Order[exec.index]] = "check"
      /\ Sound(exec, documents) /\ CheckedSoFar(exec)
      /\ input \in Seq(Nat) /\ IsInjective(input)
      /\ InputFrom(Order[exec.index], exec.memory) = input
      /\ Len(input) \in Nat /\ DOMAIN input = 1 .. Len(input)
      /\ Taken(exec) = {input[n] : n \in 1 .. (exec.todo - 1)}
      /\ exec.todo \in Nat \ {0} /\ exec.todo <= Len(input) + 1
      /\ exec.memory \in Memory /\ exec.out \in Memory
  BY <1>1, Checking
<1>3. PICK n \in exec.todo .. Len(input) : CheckSomeDoes(n)
  BY <1>2, SomeAreChecked
<1> DEFINE passed == exec.out.passed \o SubSeq(input, exec.todo, n - 1)
           review == Append(exec.out.review, input[n])
<1>4. /\ Rest({"todo", "seen", "out"}) /\ exec'.todo = n + 1
      /\ exec'.out = [exec.out EXCEPT !.passed = passed, !.review = review]
  BY <1>3 DEF CheckSomeDoes
<1>5. /\ exec'.run = exec.run /\ exec'.index = exec.index /\ exec'.memory = exec.memory
      /\ exec'.place = exec.place
  BY <1>4 DEF Rest, ExecFields
<1> HIDE DEF input
<1>6. n \in Nat \ {0} /\ n - 1 \in Nat /\ exec.todo <= (n - 1) + 1 /\ n <= Len(input)
  BY <1>2, <1>3 DEF input
<1>7. /\ exec.out.passed \in Seq(Nat) /\ IsInjective(exec.out.passed)
      /\ exec.out.review \in Seq(Nat) /\ IsInjective(exec.out.review)
      /\ ToSet(exec.out.passed) \cap ToSet(exec.out.review) = {}
      /\ ToSet(exec.out.passed) \cup ToSet(exec.out.review) = {input[m] : m \in 1 .. (exec.todo - 1)}
      /\ exec.out = [exec.memory EXCEPT !.passed = exec.out.passed, !.review = exec.out.review]
  BY <1>2 DEF CheckedSoFar, input
<1>8. /\ passed \in Seq(Nat) /\ IsInjective(passed)
      /\ ToSet(passed) \cap ToSet(exec.out.review) = {}
      /\ ToSet(passed) \cup ToSet(exec.out.review) = {input[m] : m \in 1 .. (n - 1)}
  <2>1. /\ input \in Seq(Nat) /\ IsInjective(input) /\ exec.todo \in Nat \ {0}
        /\ n - 1 \in Nat /\ exec.todo <= (n - 1) + 1 /\ n - 1 <= Len(input)
    BY <1>2, <1>6
  <2>2. SplitOf(input, exec.todo - 1, exec.out.passed, exec.out.review)
    BY <1>7, <2>1 DEF Upto, SplitOf
  <2>3. exec.todo - 1 \in Nat /\ exec.todo - 1 <= n - 1 /\ (exec.todo - 1) + 1 = exec.todo
    BY <2>1
  <2>4. SplitOf(input, n - 1, passed, exec.out.review)
    BY <2>1, <2>2, <2>3, Taking
  <2> QED  BY <2>4 DEF Upto, SplitOf
<1> HIDE DEF passed
<1>9. input[n] \notin {input[m] : m \in 1 .. (n - 1)} /\ input[n] \in Nat
  <2>1. \A m \in 1 .. (n - 1) : m \in DOMAIN input /\ n \in DOMAIN input /\ m # n
    BY <1>2, <1>6 DEF input
  <2>2. IsInjective(input)
    BY <1>2
  <2>3. \A m \in 1 .. (n - 1) : input[m] # input[n]
    BY <2>1, <2>2 DEF IsInjective
  <2>4. input \in Seq(Nat) /\ n \in 1 .. Len(input)
    BY <1>2, <1>6
  <2> QED  BY <2>3, <2>4
<1>10. /\ review \in Seq(Nat) /\ IsInjective(review)
       /\ ToSet(review) = ToSet(exec.out.review) \cup {input[n]}
  <2>1. input[n] \notin ToSet(exec.out.review)
    BY <1>8, <1>9
  <2> QED  BY <1>7, <1>9, <2>1, Appended
<1> HIDE DEF review
<1>11. /\ ToSet(passed) \cap ToSet(review) = {}
       /\ ToSet(passed) \cup ToSet(review) = {input[m] : m \in 1 .. n}
  <2>1. 1 .. n = (1 .. (n - 1)) \cup {n}
    BY <1>6
  <2>2. {input[m] : m \in 1 .. n} = {input[m] : m \in 1 .. (n - 1)} \cup {input[n]}
    BY <2>1
  <2> QED  BY <1>8, <1>9, <1>10, <2>2
<1>12. DOMAIN exec.memory = {"files", "document_ids", "passed", "review"}
       /\ DOMAIN exec.out = {"files", "document_ids", "passed", "review"}
  BY <1>2, MemoryFields
<1>13. /\ exec'.out = [exec.memory EXCEPT !.passed = passed, !.review = review]
       /\ exec'.out.passed = passed /\ exec'.out.review = review
  BY <1>4, <1>7, <1>12
<1>14. Taken(exec') = {input[m] : m \in 1 .. n} /\ InputLen(exec') = Len(input)
  <2>1. InputFrom(Order[exec'.index], exec'.memory) = input
    BY <1>2, <1>5
  <2>2. (n + 1) - 1 = n
    BY <1>6
  <2> QED  BY <1>4, <2>1, <2>2 DEF Taken, InputLen
<1>15. CheckedSoFar(exec')
  <2>1. exec'.todo <= InputLen(exec') + 1
    BY <1>2, <1>4, <1>6, <1>14
  <2>2. exec'.out = [exec'.memory EXCEPT !.passed = exec'.out.passed,
                                         !.review = exec'.out.review]
    BY <1>5, <1>13
  <2>3. /\ exec'.out.passed \in Seq(Nat) /\ IsInjective(exec'.out.passed)
        /\ exec'.out.review \in Seq(Nat) /\ IsInjective(exec'.out.review)
        /\ ToSet(exec'.out.passed) \cap ToSet(exec'.out.review) = {}
        /\ ToSet(exec'.out.passed) \cup ToSet(exec'.out.review) = Taken(exec')
    BY <1>8, <1>10, <1>11, <1>13, <1>14
  <2> QED  BY <1>2, <1>5, <2>1, <2>2, <2>3 DEF CheckedSoFar
<1>16. Sound(exec', documents')
  BY <1>1, <1>2, <1>5, SoundKept
<1>17. exec'.todo \in Nat \ {0}
  BY <1>4, <1>6
<1> QED  BY <1>2, <1>5, <1>15, <1>16, <1>17 DEF Papers, InTheTool

LEMMA CheckRestKeepsPapers ==
    ASSUME Shape, Progress, Readings, Papers(exec, documents), CheckRest
    PROVE  /\ Papers(exec', documents')
           /\ ToSet(exec'.memory.passed) \cup ToSet(exec'.memory.review) = ToSet(Input(Key))
<1> DEFINE input == Input(Key)
           passed == exec.out.passed \o SubSeq(input, exec.todo, Len(input))
<1>1. InTool("check") /\ DocumentsChange
  BY CheckRestChanges DEF CheckRest
<1>2. /\ exec.run \in Runs /\ exec.run # None /\ exec.place = "tool"
      /\ Sound(exec, documents) /\ CheckedSoFar(exec)
      /\ input \in Seq(Nat) /\ IsInjective(input)
      /\ ToSet(input) \subseteq Own(exec.run, documents)
      /\ Len(input) \in Nat /\ DOMAIN input = 1 .. Len(input)
      /\ Taken(exec) = {input[n] : n \in 1 .. (exec.todo - 1)}
      /\ exec.todo \in Nat \ {0} /\ exec.todo <= Len(input) + 1
      /\ exec.memory \in Memory /\ exec.out \in Memory
  BY <1>1, Checking
<1>3. Complete([exec.out EXCEPT !.passed = passed, !.document_ids = passed \o exec.out.review],
               Seen(Verdict(exec.todo, Len(input), {})))
  BY DEF CheckRest
<1>4. /\ Rest({"index", "place", "outcome", "memory", "out", "seen"})
      /\ exec'.place = "start"
      /\ exec'.memory = [exec.out EXCEPT !.passed = passed,
                             !.document_ids = passed \o exec.out.review]
  BY <1>3, CompleteDoes
<1>5. exec'.run = exec.run
  BY <1>4 DEF Rest, ExecFields
<1> HIDE DEF input
<1>7. /\ exec.out.passed \in Seq(Nat) /\ IsInjective(exec.out.passed)
      /\ exec.out.review \in Seq(Nat) /\ IsInjective(exec.out.review)
      /\ ToSet(exec.out.passed) \cap ToSet(exec.out.review) = {}
      /\ ToSet(exec.out.passed) \cup ToSet(exec.out.review) = {input[m] : m \in 1 .. (exec.todo - 1)}
      /\ exec.out = [exec.memory EXCEPT !.passed = exec.out.passed, !.review = exec.out.review]
  BY <1>2 DEF CheckedSoFar, input
<1>8. /\ passed \in Seq(Nat) /\ IsInjective(passed)
      /\ ToSet(passed) \cap ToSet(exec.out.review) = {}
      /\ ToSet(passed) \cup ToSet(exec.out.review) = {input[m] : m \in 1 .. Len(input)}
  <2>1. /\ input \in Seq(Nat) /\ IsInjective(input) /\ exec.todo \in Nat \ {0}
        /\ Len(input) \in Nat /\ exec.todo <= Len(input) + 1 /\ Len(input) <= Len(input)
    BY <1>2
  <2>2. SplitOf(input, exec.todo - 1, exec.out.passed, exec.out.review)
    BY <1>7, <2>1 DEF Upto, SplitOf
  <2>3. exec.todo - 1 \in Nat /\ exec.todo - 1 <= Len(input) /\ (exec.todo - 1) + 1 = exec.todo
    BY <2>1
  <2>4. SplitOf(input, Len(input), passed, exec.out.review)
    BY <2>1, <2>2, <2>3, Taking
  <2> QED  BY <2>4 DEF Upto, SplitOf
<1>9. ToSet(input) = {input[m] : m \in 1 .. Len(input)}
  BY <1>2 DEF ToSet, input
<1> HIDE DEF passed
<1> DEFINE ids == passed \o exec.out.review
<1>10. ids \in Seq(Nat) /\ IsInjective(ids) /\ ToSet(ids) = ToSet(input)
  <2>1. exec.out.review \in Seq(Nat) /\ IsInjective(exec.out.review)
    BY <1>7
  <2>2. /\ ids \in Seq(Nat) /\ ToSet(ids) = ToSet(passed) \cup ToSet(exec.out.review)
        /\ IsInjective(ids)
    BY <1>8, <2>1, Joined
  <2> QED  BY <1>8, <1>9, <2>2
<1> HIDE DEF ids
<1>11. DOMAIN exec.out = {"files", "document_ids", "passed", "review"}
       /\ DOMAIN exec.memory = {"files", "document_ids", "passed", "review"}
  BY <1>2, MemoryFields
<1>12. /\ exec'.memory.passed = passed /\ exec'.memory.review = exec.out.review
       /\ exec'.memory.document_ids = ids
       /\ exec'.memory.files = exec.memory.files
  <2>1. exec'.memory = [exec.out EXCEPT !.passed = passed, !.document_ids = ids]
    BY <1>4 DEF ids
  <2> QED  BY <1>7, <1>11, <2>1
<1>13. exec'.memory \in Memory
  <2>1. exec'.memory = [exec.out EXCEPT !.passed = passed, !.document_ids = ids]
    BY <1>4 DEF ids
  <2> QED  BY <1>2, <1>8, <1>10, <2>1 DEF Memory
<1>14. ToSet(input) \subseteq Own(exec.run, documents')
  BY <1>1, <1>2, OwnGrows DEF input
<1>15. Sound(exec', documents')
  BY <1>2, <1>5, <1>7, <1>8, <1>9, <1>10, <1>12, <1>13, <1>14 DEF Sound
<1>16. Papers(exec', documents')
  BY <1>4, <1>15, StepEnds
<1>17. ToSet(exec'.memory.passed) \cup ToSet(exec'.memory.review) = ToSet(input)
  BY <1>8, <1>9, <1>12
<1> QED  BY <1>16, <1>17 DEF input

LEMMA ListKeepsPapers ==
    ASSUME Shape, Progress, Papers(exec, documents), ListNewFiles
    PROVE  Papers(exec', documents')
<1>1. exec.place = "tool" /\ Workflow.tool[Key] = "list"
  BY DEF ListNewFiles, InTool
<1>2. /\ Sound(exec, documents) /\ InTheTool(exec, documents) /\ Key = Order[exec.index]
  BY <1>1, AtWork DEF InStep
<1>3. exec.out = exec.memory /\ exec.memory \in Memory
  BY <1>1, <1>2 DEF InTheTool, Sound
<1>4. /\ Ascending(NewFiles) \in Seq(Invoices) /\ IsInjective(Ascending(NewFiles))
  <2>1. NewFiles \subseteq Invoices /\ Invoices \subseteq Nat /\ IsFiniteSet(Invoices)
    BY ExecutionAssumption DEF NewFiles
  <2>2. IsFiniteSet(NewFiles) /\ NewFiles \subseteq Nat
    BY <2>1, FS_Subset
  <2>3. Ascending(NewFiles) \in Seq(NewFiles) /\ IsInjective(Ascending(NewFiles))
    BY <2>2, Ascended
  <2> QED  BY <2>1, <2>3, SeqMonotonic
<1> DEFINE files == Ascending(NewFiles)
           m == [exec.memory EXCEPT !.files = files]
<1>5. Complete(m, exec.seen)
  BY <1>3 DEF ListNewFiles
<1>6. exec'.memory = m /\ exec'.place = "start" /\ exec'.run = exec.run
  BY <1>5, CompleteDoes DEF Rest, ExecFields
<1> HIDE DEF files
<1>7. /\ m \in Memory /\ m.files = files /\ m.document_ids = exec.memory.document_ids
      /\ m.passed = exec.memory.passed /\ m.review = exec.memory.review
  BY <1>3, <1>4 DEF Memory, files
<1>8. documents' = documents /\ IsInjective(m.files)
  BY <1>4, <1>7 DEF ListNewFiles, files
<1> HIDE DEF m
<1>9. Sound(exec', documents')
  BY <1>2, <1>6, <1>7, <1>8, OutIsSound
<1> QED  BY <1>6, <1>9, StepEnds

LEMMA AppendRowsKeepsPapers ==
    ASSUME Shape, Progress, Readings, Papers(exec, documents), AppendRows
    PROVE  Papers(exec', documents')
<1>1. exec.place = "tool" /\ Workflow.tool[Key] = "write" /\ documents' = documents
  BY DEF AppendRows, InTool
<1>2. /\ Sound(exec, documents) /\ InTheTool(exec, documents) /\ Key = Order[exec.index]
  BY <1>1, AtWork DEF InStep
<1>3. /\ exec'.run = exec.run /\ exec'.index = exec.index /\ exec'.memory = exec.memory
      /\ exec'.out = exec.out /\ exec'.todo = exec.todo /\ exec'.place = "done"
  BY AppendRowsDoes DEF Rest, ExecFields
<1>4. exec.out = exec.memory /\ exec.todo \in Nat \ {0}
  BY <1>1, <1>2 DEF InTheTool
<1>5. Sound(exec', documents')
  BY <1>1, <1>2, <1>3, SameDocuments, SoundKept
<1> QED  BY <1>1, <1>2, <1>3, <1>4, <1>5 DEF Papers, InTheTool

LEMMA EscalateKeepsPapers ==
    ASSUME Shape, Progress, Readings, Papers(exec, documents), Escalate
    PROVE  Papers(exec', documents')
<1>1. exec.place = "tool" /\ Workflow.tool[Key] = "escalate"
  BY DEF Escalate, InTool
<1>2. /\ Sound(exec, documents) /\ InTheTool(exec, documents) /\ Key = Order[exec.index]
  BY <1>1, AtWork DEF InStep
<1>3. exec.out = exec.memory /\ exec.todo \in Nat \ {0} /\ exec.memory \in Memory
  BY <1>1, <1>2 DEF InTheTool, Sound
<1>4. DOMAIN exec.out = DOMAIN NoMemory
  BY <1>3, MemoryFields, NoMemoryIsEmpty
<1>5. /\ exec'.run = exec.run /\ exec'.index = exec.index /\ exec'.memory = exec.memory
      /\ exec'.todo = exec.todo /\ exec'.place = "done"
      /\ exec'.out = [exec.memory EXCEPT !.review = Input(Key)]
  BY <1>3, <1>4, EscalateDoes DEF Rest, ExecFields
<1>6. Input(Key) = InputFrom(Order[exec'.index], exec'.memory)
  BY <1>2, <1>5, InputFacts
<1>7. Sound(exec', documents')
  BY <1>2, <1>5, EscalateChanges, SoundKept
<1> QED  BY <1>1, <1>2, <1>3, <1>5, <1>6, <1>7 DEF Papers, InTheTool

LEMMA StepDoneKeepsPapers ==
    ASSUME Shape, Progress, Readings, Papers(exec, documents), StepDone
    PROVE  Papers(exec', documents')
<1>1. /\ exec.place \in InStep /\ documents' = documents /\ Complete(exec.out, exec.seen)
      /\ exec.place = "done" \/ InTool("read")
  BY DEF StepDone, InStep, InTool
<1>2. /\ Sound(exec, documents) /\ InTheTool(exec, documents) /\ Key = Order[exec.index]
  BY <1>1, AtWork
<1>3. exec'.memory = exec.out /\ exec'.place = "start" /\ exec'.run = exec.run
  BY <1>1, CompleteDoes DEF Rest, ExecFields
<1>4. exec.memory \in Memory /\ IsInjective(exec.memory.files)
  BY <1>2 DEF Sound
<1>5. CASE InTool("read")
  <2>1. ReadSoFar(exec, documents) /\ exec.out \in Memory
    BY <1>5, ReadingAFile
  <2>2. exec.out = [exec.memory EXCEPT !.document_ids = exec.out.document_ids]
        /\ IsInjective(exec.out.document_ids)
        /\ ToSet(exec.out.document_ids) \subseteq Own(exec.run, documents)
    BY <2>1 DEF ReadSoFar
  <2>3. exec.out.files = exec.memory.files /\ exec.out.passed = exec.memory.passed
        /\ exec.out.review = exec.memory.review
    BY <1>4, <2>2, MemoryFields
  <2>4. Sound(exec', documents')
    BY <1>1, <1>2, <1>3, <1>4, <2>1, <2>2, <2>3, OutIsSound
  <2> QED  BY <1>3, <2>4, StepEnds
<1>6. CASE exec.place = "done" /\ Workflow.tool[Key] = "write"
  <2>1. exec.out = exec.memory
    BY <1>2, <1>6 DEF InTheTool
  <2>2. Sound(exec', documents')
    BY <1>1, <1>2, <1>3, <2>1, SameDocuments, SoundKept
  <2> QED  BY <1>3, <2>2, StepEnds
<1>7. CASE exec.place = "done" /\ Workflow.tool[Key] = "escalate"
  <2>1. exec.out = [exec.memory EXCEPT !.review = Input(Key)]
    BY <1>2, <1>7, InputFacts DEF InTheTool
  <2>2. /\ Input(Key) \in Seq(Nat) /\ IsInjective(Input(Key))
        /\ ToSet(Input(Key)) \subseteq Own(exec.run, documents)
    BY <1>2, <1>7, InputFacts
  <2>3. exec.out \in Memory /\ exec.out.review = Input(Key)
        /\ exec.out.files = exec.memory.files /\ exec.out.passed = exec.memory.passed
        /\ exec.out.document_ids = exec.memory.document_ids
    BY <1>4, <2>1, <2>2 DEF Memory
  <2>4. Sound(exec', documents')
    BY <1>1, <1>2, <1>3, <1>4, <2>2, <2>3, OutIsSound
  <2> QED  BY <1>3, <2>4, StepEnds
<1>8. exec.place = "done" => Workflow.tool[Key] \in {"write", "escalate"}
  BY <1>2 DEF InTheTool
<1> QED  BY <1>1, <1>5, <1>6, <1>7, <1>8

LEMMA BeginMakesPapers ==
    ASSUME Readings, NEW r \in Runs, Begin(r)
    PROVE  Papers(exec', documents')
<1> DEFINE passed == IF run[r].reviewed THEN Ascending(ReviewedOk(r)) ELSE << >>
<1>1. /\ exec'.run = r /\ exec'.place = "start" /\ documents' = documents
      /\ exec'.memory = [NoMemory EXCEPT !.passed = passed]
  BY BeginDoes DEF Begin
<1>2. passed \in Seq(Nat) /\ IsInjective(passed) /\ ToSet(passed) \subseteq Own(r, documents)
  <2>1. CASE run[r].reviewed
    <3>1. ReviewedOk(r) \subseteq Own(r, documents) /\ Own(r, documents) \subseteq Known
      BY DEF ReviewedOk, ReadBy, Own, Known
    <3>2. Len(documents) \in Nat /\ Known = 1 .. Len(documents)
      BY DEF Readings, Known
    <3>3. IsFiniteSet(ReviewedOk(r)) /\ ReviewedOk(r) \subseteq Nat
      <4>1. IsFiniteSet(1 .. Len(documents)) /\ ReviewedOk(r) \subseteq 1 .. Len(documents)
        BY <3>1, <3>2, FS_Interval
      <4> QED  BY <4>1, FS_Subset
    <3>4. /\ Ascending(ReviewedOk(r)) \in Seq(ReviewedOk(r))
          /\ ToSet(Ascending(ReviewedOk(r))) = ReviewedOk(r)
          /\ IsInjective(Ascending(ReviewedOk(r)))
      BY <3>3, Ascended
    <3>5. Ascending(ReviewedOk(r)) \in Seq(Nat)
      BY <3>3, <3>4, SeqMonotonic
    <3> QED  BY <2>1, <3>1, <3>4, <3>5
  <2>2. CASE ~run[r].reviewed
    BY <2>2, EmptySequence
  <2> QED  BY <2>1, <2>2
<1> HIDE DEF passed
<1>3. /\ exec'.memory \in Memory /\ exec'.memory.passed = passed
      /\ exec'.memory.files = << >> /\ exec'.memory.document_ids = << >>
      /\ exec'.memory.review = << >>
  BY <1>1, <1>2, NoMemoryIsEmpty, MemoryWith, MemoryFields
<1>4. Sound(exec', documents')
  BY <1>1, <1>2, <1>3, EmptySequence DEF Sound
<1> QED  BY <1>1, <1>4, StepEnds

LEMMA ThreadKeepsPapers ==
    ASSUME Shape, Progress, Readings, Papers(exec, documents), Execute
    PROVE  Papers(exec', documents') /\ DocumentsChange
<1>1. ASSUME documents' = documents PROVE DocumentsChange
  BY <1>1, SameDocuments
<1>2. ASSUME exec' = Idle PROVE Papers(exec', documents')
  BY <1>2 DEF Papers, Idle
<1>3. ASSUME AtStart, documents' = documents, exec.run # None,
             NEW outcome, exec' = NextStep(outcome)
      PROVE  Papers(exec', documents')
  <2>1. /\ exec'.place = "start" /\ exec'.run = exec.run /\ exec'.memory = exec.memory
    BY <1>3, NextStepDoes DEF Rest, ExecFields
  <2>2. Sound(exec', documents')
    BY <1>1, <1>3, <2>1, SoundKept DEF Papers
  <2> QED  BY <2>1, <2>2, StepEnds
<1>4. AtStart => exec.run # None
  BY DEF AtStart, Shape
<1>5. CASE LeaveOut
  BY <1>1, <1>3, <1>4, <1>5 DEF LeaveOut
<1>6. CASE StopCancelled
  BY <1>1, <1>2, <1>6 DEF StopCancelled
<1>7. CASE SkipStep
  BY <1>1, <1>3, <1>4, <1>7 DEF SkipStep
<1>8. CASE StartStep
  <2>1. /\ exec'.run = exec.run /\ exec'.index = exec.index /\ exec'.memory = exec.memory
        /\ exec'.place = "tool" /\ exec'.todo = 1 /\ exec'.out = Fresh(Key)
    BY <1>8, StartStepDoes DEF Rest, ExecFields
  <2>2. DocumentsChange /\ Sound(exec, documents)
    BY <1>1, <1>4, <1>8 DEF StartStep, Papers
  <2>3. Sound(exec', documents')
    BY <2>1, <2>2, SoundKept
  <2> QED  BY <2>1, <2>2, <2>3, ToolStarts
<1>9. CASE Finish
  BY <1>1, <1>2, <1>9 DEF Finish
<1>10. CASE ListNewFiles
  BY <1>1, <1>10, ListKeepsPapers DEF ListNewFiles
<1>11. CASE ReadFile
  BY <1>11, ReadFileKeepsPapers, ReadFileChanges
<1>12. CASE ReadAnswer
  BY <1>12, ReadAnswerKeepsPapers, ReadAnswerChanges
<1>13. CASE CheckSome
  BY <1>13, CheckSomeKeepsPapers, CheckSomeChanges
<1>14. CASE CheckRest
  BY <1>14, CheckRestKeepsPapers, CheckRestChanges
<1>15. CASE AppendRows
  BY <1>1, <1>15, AppendRowsKeepsPapers DEF AppendRows
<1>16. CASE Escalate
  BY <1>16, EscalateKeepsPapers, EscalateChanges
<1>17. CASE StepDone
  BY <1>1, <1>17, StepDoneKeepsPapers DEF StepDone
<1> QED
  BY <1>5, <1>6, <1>7, <1>8, <1>9, <1>10, <1>11, <1>12, <1>13, <1>14, <1>15, <1>16, <1>17
  DEF Execute

LEMMA FaultKeepsPapers ==
    ASSUME Shape, Progress, Readings, Papers(exec, documents),
           RetryStep \/ PassOver \/ StepFails \/ Interrupt
    PROVE  Papers(exec', documents') /\ DocumentsChange
<1>1. documents' = documents
  BY DEF RetryStep, PassOver, StepFails, Interrupt
<1>2. DocumentsChange
  BY <1>1, SameDocuments
<1>3. CASE StepFails \/ Interrupt
  <2>1. exec' = Idle
    BY <1>3 DEF StepFails, Interrupt, BreakOff
  <2> QED  BY <1>2, <2>1 DEF Papers, Idle
<1>4. exec.place \in InStep => Sound(exec, documents)
  BY AtWork
<1>5. CASE PassOver
  <2>1. /\ exec'.place = "start" /\ exec'.run = exec.run /\ exec'.memory = exec.memory
        /\ exec.place \in InStep
    BY <1>5, PassOverDoes DEF Rest, ExecFields, PassOver, InStep
  <2>2. Sound(exec', documents')
    BY <1>2, <1>4, <2>1, SoundKept
  <2> QED  BY <1>2, <2>1, <2>2, StepEnds
<1>6. CASE RetryStep
  <2>1. /\ exec'.run = exec.run /\ exec'.index = exec.index /\ exec'.memory = exec.memory
        /\ exec'.place = "tool" /\ exec'.todo = 1 /\ exec'.out = Fresh(Key)
        /\ exec.place \in InStep
    BY <1>6, RetryStepDoes DEF Rest, ExecFields, RetryStep, InStep
  <2>2. Sound(exec, documents) /\ Sound(exec', documents')
    BY <1>2, <1>4, <2>1, SoundKept
  <2> QED  BY <1>2, <2>1, <2>2, ToolStarts
<1> QED  BY <1>3, <1>5, <1>6

LEMMA PapersHold ==
    ASSUME Shape, Progress, Readings, Papers(exec, documents), [Next]_vars
    PROVE  Papers(exec', documents') /\ DocumentsChange
<1>1. ASSUME exec' = exec, DocumentsChange
      PROVE  Papers(exec', documents') /\ DocumentsChange
  BY <1>1, PapersGrow
<1>2. ASSUME documents' = documents, exec' = exec
      PROVE  Papers(exec', documents') /\ DocumentsChange
  BY <1>1, <1>2, SameDocuments
<1>3. CASE UNCHANGED vars
  BY <1>2, <1>3 DEF vars
<1>4. ASSUME NEW i \in Invoices, Arrive(i) \/ Upload(i)
      PROVE  Papers(exec', documents') /\ DocumentsChange
  <2>1. CASE Arrive(i)
    BY <1>2, <2>1 DEF Arrive
  <2>2. CASE Upload(i)
    <3>1. exec' = exec
      BY <2>2 DEF Upload
    <3> QED  BY <1>1, <2>2, <3>1, UploadChanges
  <2> QED  BY <1>4, <2>1, <2>2
<1>5. ASSUME NEW r \in Runs, CreateRun(r) \/ CancelRun(r) \/ Begin(r)
      PROVE  Papers(exec', documents') /\ DocumentsChange
  <2>1. CASE CreateRun(r)
    BY <1>2, <2>1 DEF CreateRun
  <2>2. CASE CancelRun(r)
    BY <1>2, <2>2 DEF CancelRun
  <2>3. CASE Begin(r)
    <3>1. documents' = documents
      BY <2>3 DEF Begin
    <3> QED  BY <2>3, <3>1, BeginMakesPapers, SameDocuments
  <2> QED  BY <1>5, <2>1, <2>2, <2>3
<1>6. ASSUME NEW d \in Known, NEW accept \in BOOLEAN, Resolve(d, accept)
      PROVE  Papers(exec', documents') /\ DocumentsChange
  <2>1. exec' = exec
    BY <1>6 DEF Resolve
  <2> QED  BY <1>1, <1>6, <2>1, ResolveChanges
<1>7. CASE Execute
  BY <1>7, ThreadKeepsPapers
<1>8. CASE RetryStep \/ PassOver \/ StepFails \/ Interrupt
  BY <1>8, FaultKeepsPapers
<1> QED  BY <1>3, <1>4, <1>5, <1>6, <1>7, <1>8 DEF Next

-----------------------------------------------------------------------------
(* How a step changes the runs and the clock. *)

\* The clock is ahead of all it has told, and a job has attempts left.
Rows ==
    /\ now \in Nat /\ mtime \in [Invoices -> 0 .. now]
    /\ \A r \in Runs :
        /\ run[r] \in RunRow /\ run[r].started <= now
        /\ run[r].status \in {"absent", "pending"} => run[r].attempts = 0
        /\ run[r].status = "retrying" => run[r].attempts < MaxAttempts
        /\ run[r].status = "absent" => run[r].started = 0 /\ ~run[r].reviewed

\* What the end of a pass makes of its run.
Finished(before) ==
    IF exec.memory.review # << >> /\ ~exec.resume
    THEN [before EXCEPT !.status = "needs_review", !.reviewed = TRUE]
    ELSE [before EXCEPT !.status = "succeeded"]

\* The row of run r becomes another one.
RunMoves(r, before, after) ==
    \/ CreateRun(r) /\ after = [before EXCEPT !.status = "pending"]
    \/ CancelRun(r) /\ after = [before EXCEPT !.status = "cancelled"]
    \/ /\ Begin(r)
       /\ after = [before EXCEPT !.status = "running", !.started = StartedAt(r),
                                 !.attempts = before.attempts + 1]
    \/ /\ exec' = exec /\ step' = step /\ books' = books /\ now' = now /\ mtime' = mtime
       /\ before.status = "needs_review"
       /\ \A d \in Own(r, documents') : documents'[d].status # "needs_review"
       /\ \/ /\ after = [before EXCEPT !.status = "succeeded"]
             /\ \A d \in Own(r, documents') :
                    documents'[d].status = "ok" => ~documents'[d].accepted
          \/ after = Requeued(before)
    \/ Finish /\ r = exec.run /\ before.status = "running" /\ after = Finished(before)
    \/ /\ StepFails \/ Interrupt
       /\ r = exec.run /\ before.status = "running"
       /\ \/ after = [before EXCEPT !.status = "failed"]
          \/ before.attempts < MaxAttempts /\ after = [before EXCEPT !.status = "retrying"]

RunsChange ==
    \/ \A r \in Runs : run'[r] = run[r]
    \/ \E r \in Runs :
        /\ \A s \in Runs \ {r} : run'[s] = run[s]
        /\ RunMoves(r, run[r], run'[r])

\* A tick belongs to a file or to the start of a run.
ClockChange ==
    \/ now' = now /\ mtime' = mtime /\ \A r \in Runs : ~Begin(r)
    \/ now' = now + 1 /\ mtime' = mtime /\ \E r \in Runs : Begin(r)
    \/ /\ now' = now + 1
       /\ \E i \in Invoices : mtime[i] = 0 /\ mtime' = [mtime EXCEPT ![i] = now + 1]
       /\ UNCHANGED << documents, run, step, books, exec >>

LEMMA DecisionMovesRun ==
    ASSUME Shape, Readings, NEW d \in Known, NEW accept \in BOOLEAN, Resolve(d, accept)
    PROVE  RunsChange
<1>1. PICK docs, r :
        /\ documents' = docs
        /\ run' = IF r = None THEN run ELSE [run EXCEPT ![r] = AfterReview(r, docs)]
  BY DEF Resolve
<1>2. UNCHANGED << now, mtime, step, books, exec >>
  BY DEF Resolve
<1>3. CASE r = None \/ r \notin Runs
  BY <1>1, <1>3 DEF RunsChange, Shape
<1>4. CASE r \in Runs /\ AfterReview(r, docs) = run[r]
  BY <1>1, <1>4 DEF RunsChange, Shape
<1>5. CASE r \in Runs /\ r # None /\ AfterReview(r, docs) # run[r]
  <2>1. /\ run'[r] = AfterReview(r, docs) /\ \A s \in Runs \ {r} : run'[s] = run[s]
    BY <1>1, <1>5 DEF Shape
  <2>2. Known' = Known
    <3>1. PICK faulty : documents' = [documents EXCEPT
                ![d].status = IF accept THEN "ok" ELSE "rejected",
                ![d].accepted = accept \/ documents[d].accepted, ![d].faulty = faulty]
      BY DEF Resolve
    <3> QED  BY <3>1 DEF Known
  <2>3. Own(r, documents') = {e \in Known : r \in ToSet(docs[e].readBy)}
    BY <1>1, <2>2 DEF Own, Known
  <2>4. /\ run[r].status = "needs_review"
        /\ \A e \in Own(r, documents') : documents'[e].status # "needs_review"
        /\ \/ /\ run'[r] = [run[r] EXCEPT !.status = "succeeded"]
              /\ \A e \in Own(r, documents') :
                    documents'[e].status = "ok" => ~documents'[e].accepted
           \/ run'[r] = Requeued(run[r])
    BY <1>1, <1>5, <2>1, <2>3 DEF AfterReview
  <2>5. RunMoves(r, run[r], run'[r])
    BY <1>2, <2>4 DEF RunMoves
  <2> QED  BY <1>5, <2>1, <2>5 DEF RunsChange
<1> QED  BY <1>3, <1>4, <1>5

LEMMA PassMovesRun ==
    ASSUME Shape, Progress, Rows, Finish \/ StepFails \/ Interrupt
    PROVE  RunsChange
<1> DEFINE r == exec.run
<1>1. r \in Runs /\ r # None
  BY RunsAreNotNone DEF Finish, StepFails, Interrupt, Shape, InStep
<1>2. run[r].status \in {"running", "cancelled"} /\ DOMAIN run = Runs
  BY <1>1 DEF Progress, PassInv, Shape
<1>3. run[r] \in RunRow
  BY <1>1 DEF Rows
<1>4. CASE Finish
  <2>1. CASE run[r].status = "cancelled"
    <3>1. \A status : ~CanTransition(run[r].status, status)
      BY <2>1 DEF CanTransition, TRANSITIONS
    <3> QED  BY <1>4, <3>1 DEF Finish, RunsChange
  <2>2. CASE run[r].status = "running"
    <3>1. \A status \in {"needs_review", "succeeded"} : CanTransition(run[r].status, status)
      BY <2>2 DEF CanTransition, TRANSITIONS
    <3>2. CASE exec.memory.review # << >> /\ ~exec.resume
      <4>1. run' = [run EXCEPT ![r].status = "needs_review", ![r].reviewed = run[r].reviewed \/ TRUE]
        BY <1>4, <3>1, <3>2 DEF Finish
      <4>2. /\ run'[r] = [run[r] EXCEPT !.status = "needs_review", !.reviewed = TRUE]
            /\ \A s \in Runs \ {r} : run'[s] = run[s]
        BY Zenon, <1>1, <1>2, <1>3, <4>1 DEF RunRow
      <4> QED  BY Zenon, <1>1, <1>4, <2>2, <3>2, <4>2 DEF RunsChange, RunMoves, Finished
    <3>3. CASE ~(exec.memory.review # << >> /\ ~exec.resume)
      <4>1. run' = [run EXCEPT ![r].status = "succeeded", ![r].reviewed = run[r].reviewed \/ FALSE]
        BY <1>4, <3>1, <3>3 DEF Finish
      <4>2. run'[r] = [run[r] EXCEPT !.status = "succeeded",
                                     !.reviewed = run[r].reviewed \/ FALSE]
            /\ \A s \in Runs \ {r} : run'[s] = run[s]
        BY <1>1, <1>2, <4>1
      <4>3. (run[r].reviewed \/ FALSE) = run[r].reviewed
        BY <1>3 DEF RunRow
      <4>4. run'[r] = [run[r] EXCEPT !.status = "succeeded"]
        BY <1>3, <4>2, <4>3 DEF RunRow
      <4> QED  BY Zenon, <1>1, <1>4, <2>2, <3>3, <4>2, <4>4 DEF RunsChange, RunMoves, Finished
    <3> QED  BY <3>2, <3>3
  <2> QED  BY <1>2, <2>1, <2>2
<1>5. CASE StepFails \/ Interrupt
  <2>1. CASE run' = run
    BY <2>1 DEF RunsChange
  <2>2. CASE run' # run
    <3>1. PICK status \in {"failed", "retrying"} :
            /\ run' = [run EXCEPT ![r].status = status]
            /\ status = "retrying" => run[r].attempts < MaxAttempts
      BY <1>5, <2>2 DEF StepFails, Interrupt, BreakOff, Again
    <3>2. run[r].status = "running"
      BY <1>2, <1>5, <2>2 DEF StepFails, Interrupt, BreakOff, Cancelled
    <3>3. /\ run'[r] = [run[r] EXCEPT !.status = status]
          /\ \A s \in Runs \ {r} : run'[s] = run[s]
      BY <1>1, <1>2, <3>1
    <3> QED  BY <1>1, <1>5, <3>1, <3>2, <3>3 DEF RunsChange, RunMoves
  <2> QED  BY <2>1, <2>2
<1> QED  BY <1>4, <1>5

LEMMA RunsMove ==
    ASSUME Shape, Progress, Readings, Rows, [Next]_vars
    PROVE  RunsChange
<1>1. CASE run' = run
  BY <1>1 DEF RunsChange
<1>2. ASSUME NEW r \in Runs, CreateRun(r) \/ CancelRun(r) \/ Begin(r)
      PROVE  RunsChange
  <2>1. DOMAIN run = Runs
    BY DEF Shape
  <2>2. \A s \in Runs \ {r} : run'[s] = run[s]
    BY <1>2, <2>1 DEF CreateRun, CancelRun, Begin, SetStatus
  <2>3. CASE CreateRun(r)
    BY <2>1, <2>2, <2>3 DEF RunsChange, RunMoves, CreateRun, SetStatus
  <2>4. CASE CancelRun(r)
    BY <2>1, <2>2, <2>4 DEF RunsChange, RunMoves, CancelRun, SetStatus
  <2>5. CASE Begin(r)
    <3>1. run'[r] = [run[r] EXCEPT !.status = "running", !.started = StartedAt(r),
                                   !.attempts = run[r].attempts + 1]
      BY <2>1, <2>5 DEF Begin
    <3> QED  BY Zenon, <2>2, <2>5, <3>1 DEF RunsChange, RunMoves
  <2> QED  BY <1>2, <2>3, <2>4, <2>5
<1>3. ASSUME NEW i \in Invoices, Arrive(i) \/ Upload(i) PROVE RunsChange
  BY Zenon, <1>1, <1>3 DEF Arrive, Upload
<1>4. CASE Execute
  BY Zenon, <1>1, <1>4, PassMovesRun DEF Execute, LeaveOut, StopCancelled, SkipStep, StartStep,
     ListNewFiles, ReadFile, ReadAnswer, CheckSome, CheckRest, AppendRows, Escalate, StepDone
<1>5. CASE RetryStep \/ PassOver \/ StepFails \/ Interrupt
  BY <1>1, <1>5, PassMovesRun DEF RetryStep, PassOver
<1>6. CASE UNCHANGED vars
  BY <1>1, <1>6 DEF vars
<1> QED  BY <1>2, <1>3, <1>4, <1>5, <1>6, DecisionMovesRun DEF Next

LEMMA ClockTicks ==
    ASSUME now \in Nat, [Next]_vars
    PROVE  ClockChange
<1>1. ASSUME now' = now, mtime' = mtime PROVE ClockChange
  <2>1. \A r \in Runs : Begin(r) => now' = now + 1
    BY DEF Begin, Tick
  <2>2. now + 1 # now
    OBVIOUS
  <2> QED  BY <1>1, <2>1, <2>2 DEF ClockChange
<1>2. ASSUME NEW i \in Invoices, Arrive(i) PROVE ClockChange
  BY <1>2 DEF Arrive, Tick, ClockChange
<1>3. ASSUME NEW i \in Invoices, Upload(i) PROVE ClockChange
  BY <1>1, <1>3 DEF Upload
<1>4. ASSUME NEW r \in Runs, CreateRun(r) \/ CancelRun(r) PROVE ClockChange
  BY <1>1, <1>4 DEF CreateRun, CancelRun
<1>5. ASSUME NEW r \in Runs, Begin(r) PROVE ClockChange
  <2>1. now' = now + 1 /\ mtime' = mtime
    BY <1>5 DEF Begin, Tick
  <2> QED  BY <1>5, <2>1 DEF ClockChange
<1>6. ASSUME NEW d \in Known, NEW accept \in BOOLEAN, Resolve(d, accept) PROVE ClockChange
  BY <1>1, <1>6 DEF Resolve
<1>7. CASE Execute
  BY Zenon, <1>1, <1>7 DEF Execute, LeaveOut, StopCancelled, SkipStep, StartStep, Finish,
     ListNewFiles, ReadFile, ReadAnswer, CheckSome, CheckRest, AppendRows, Escalate, StepDone
<1>8. CASE RetryStep \/ PassOver \/ StepFails \/ Interrupt
  BY <1>1, <1>8 DEF RetryStep, PassOver, StepFails, Interrupt
<1>9. CASE UNCHANGED vars
  BY <1>1, <1>9 DEF vars
<1> QED  BY <1>2, <1>3, <1>4, <1>5, <1>6, <1>7, <1>8, <1>9 DEF Next

LEMMA RowsHold ==
    ASSUME Shape, Progress, Readings, Rows, [Next]_vars
    PROVE  Rows'
<1>1. ClockChange /\ RunsChange
  BY ClockTicks, RunsMove DEF Rows
<1>2. now \in Nat /\ now' \in Nat /\ now <= now' /\ mtime' \in [Invoices -> 0 .. now']
  <2>1. now \in Nat /\ mtime \in [Invoices -> 0 .. now]
    BY DEF Rows
  <2>2. CASE mtime' = mtime /\ now' \in {now, now + 1}
    BY <2>1, <2>2
  <2>3. CASE /\ now' = now + 1
             /\ \E i \in Invoices : mtime' = [mtime EXCEPT ![i] = now + 1]
    BY <2>1, <2>3
  <2> QED  BY <1>1, <2>2, <2>3 DEF ClockChange
<1> DEFINE Good(row, t) ==
        /\ row \in RunRow /\ row.started <= t
        /\ row.status \in {"absent", "pending"} => row.attempts = 0
        /\ row.status = "retrying" => row.attempts < MaxAttempts
        /\ row.status = "absent" => row.started = 0 /\ ~row.reviewed
<1>3. \A r \in Runs : Good(run[r], now) /\ Good(run[r], now')
  BY <1>2 DEF Rows, RunRow
<1>4. \A r \in Runs : Good(run'[r], now')
  <2>1. CASE run' = run
    BY <1>3, <2>1
  <2>2. ASSUME NEW r \in Runs, RunMoves(r, run[r], run'[r])
        PROVE  Good(run'[r], now')
    <3> DEFINE b == run[r]
               a == run'[r]
    <3>1. Good(b, now) /\ Good(b, now')
      BY <1>3
    <3>2. MaxAttempts \in Nat
      BY ExecutionAssumption
    <3>3. CASE b.status = "absent" /\ a = [b EXCEPT !.status = "pending"]
      BY <3>1, <3>3 DEF RunRow, RunStatus
    <3>4. CASE a = [b EXCEPT !.status = "cancelled"]
      BY <3>1, <3>4 DEF RunRow, RunStatus
    <3>5. CASE Begin(r) /\ a = [b EXCEPT !.status = "running", !.started = StartedAt(r),
                                          !.attempts = b.attempts + 1]
      <4>1. /\ b.status \in {"pending", "retrying"} /\ now' = now + 1
        BY <3>5 DEF Begin, Tick
      <4>2. StartedAt(r) \in Nat /\ StartedAt(r) <= now'
        BY <1>2, <3>1, <4>1 DEF StartedAt, RunRow
      <4>3. b.attempts + 1 \in 0 .. MaxAttempts
        BY <3>1, <3>2, <4>1, ExecutionAssumption DEF RunRow
      <4> QED  BY <3>1, <3>5, <4>2, <4>3 DEF RunRow, RunStatus
    <3>6. CASE a = [b EXCEPT !.status = "succeeded"]
      BY <3>1, <3>6 DEF RunRow, RunStatus
    <3>7. CASE a = Requeued(b)
      <4>1. 0 \in 0 .. MaxAttempts
        BY <3>2
      <4> QED  BY <3>1, <3>7, <4>1 DEF RunRow, RunStatus, Requeued
    <3>8. CASE a = Finished(b)
      BY <3>1, <3>8 DEF RunRow, RunStatus, Finished
    <3>9. CASE a = [b EXCEPT !.status = "failed"]
      BY <3>1, <3>9 DEF RunRow, RunStatus
    <3>10. CASE b.attempts < MaxAttempts /\ a = [b EXCEPT !.status = "retrying"]
      BY <3>1, <3>10 DEF RunRow, RunStatus
    <3> HIDE DEF Good
    <3> QED
      BY <2>2, <3>3, <3>4, <3>5, <3>6, <3>7, <3>8, <3>9, <3>10 DEF RunMoves, CreateRun
  <2> HIDE DEF Good
  <2> QED  BY <1>1, <1>3, <2>1, <2>2 DEF RunsChange
<1> QED  BY <1>2, <1>4 DEF Rows

\* Uploads are of uploadable invoices, one of each, and workbooks hold documents.
Filing ==
    /\ \A d \in Known :
        /\ documents[d].invoice \in Invoices /\ documents[d].status \in DocumentStatus
        /\ documents[d].readBy = << None >> => documents[d].invoice \in Uploadable
    /\ \A d, e \in Known :
        /\ documents[d].readBy = << None >> /\ documents[e].readBy = << None >>
        /\ documents[d].invoice = documents[e].invoice
        => d = e

Shelf ==
    /\ DOMAIN books = Runs
    /\ \A r \in Runs :
        /\ books[r] \in Seq(Seq(Nat))
        /\ \A n \in DOMAIN books[r] : ToSet(books[r][n]) \subseteq Known

\* A workbook is saved by the step that writes, for the run that is executed.
BooksChange ==
    \/ books' = books
    \/ /\ AppendRows
       /\ books' = [books EXCEPT ![exec.run] = Append(books[exec.run], Input(Key))]

LEMMA BooksMove ==
    ASSUME [Next]_vars
    PROVE  BooksChange
<1>1. ASSUME books' = books PROVE BooksChange
  BY <1>1 DEF BooksChange
<1>2. CASE Execute
  BY Zenon, <1>1, <1>2 DEF Execute, LeaveOut, StopCancelled, SkipStep, StartStep, Finish,
     ListNewFiles, ReadFile, ReadAnswer, CheckSome, CheckRest, AppendRows, Escalate,
     StepDone, BooksChange
<1>3. CASE RetryStep \/ PassOver \/ StepFails \/ Interrupt
  BY <1>1, <1>3 DEF RetryStep, PassOver, StepFails, Interrupt
<1>4. CASE UNCHANGED vars
  BY <1>1, <1>4 DEF vars
<1>5. ASSUME NEW i \in Invoices, Arrive(i) \/ Upload(i) PROVE BooksChange
  BY <1>1, <1>5 DEF Arrive, Upload
<1>6. ASSUME NEW r \in Runs, CreateRun(r) \/ CancelRun(r) \/ Begin(r) PROVE BooksChange
  BY <1>1, <1>6 DEF CreateRun, CancelRun, Begin
<1>7. ASSUME NEW d \in Known, NEW accept \in BOOLEAN, Resolve(d, accept) PROVE BooksChange
  BY <1>1, <1>7 DEF Resolve
<1> QED  BY <1>2, <1>3, <1>4, <1>5, <1>6, <1>7 DEF Next

LEMMA FilingHolds ==
    ASSUME Shape, Progress, Readings, Papers(exec, documents), DocumentsChange, Filing
    PROVE  Filing'
<1>1. \A d \in Known : RowChange(d, documents[d], documents'[d])
  BY DEF DocumentsChange
<1>2. ReadAnswer => exec.run # None
  BY DEF ReadAnswer, Shape
<1>3. \A d \in Known :
        /\ documents'[d].invoice = documents[d].invoice
        /\ documents'[d].status \in DocumentStatus
        /\ documents'[d].readBy = << None >> => documents[d].readBy = << None >>
  <2> SUFFICES ASSUME NEW d \in Known
               PROVE  /\ documents'[d].invoice = documents[d].invoice
                      /\ documents'[d].status \in DocumentStatus
                      /\ documents'[d].readBy = << None >> => documents[d].readBy = << None >>
    OBVIOUS
  <2>1. RowChange(d, documents[d], documents'[d]) /\ documents[d].status \in DocumentStatus
    BY <1>1 DEF Filing
  <2>2. documents'[d].status \in DocumentStatus
    BY <2>1 DEF RowChange, Decided, DocumentStatus
  <2>3. << exec.run >> = << None >> => exec.run = None
    OBVIOUS
  <2> QED  BY <1>2, <2>1, <2>2, <2>3 DEF RowChange
<1> DEFINE n == Len(documents) + 1
<1>4. CASE Known' = Known
  BY <1>3, <1>4 DEF Filing
<1>5. CASE Known' = Known \cup {n} /\ NewDocument(documents'[n])
  <2>1. /\ documents'[n].invoice \in Invoices /\ documents'[n].status \in DocumentStatus
        /\ documents'[n].readBy = << None >> => documents'[n].invoice \in Uploadable
    <3>1. CASE documents'[n].readBy = << None >> /\ documents'[n].invoice \in Uploadable
      BY Zenon, <1>5, <3>1, ExecutionAssumption DEF NewDocument
    <3>2. CASE /\ ReadFile /\ documents'[n].readBy = << >>
               /\ exec.todo <= Len(exec.memory.files)
               /\ documents'[n].invoice = exec.memory.files[exec.todo]
      <4>1. InTool("read")
        BY Zenon, <3>2 DEF ReadFile
      <4>2. /\ exec.todo \in Nat \ {0} /\ Len(exec.memory.files) \in Nat
            /\ exec.place \in InStep
        BY <4>1, ReadingAFile DEF InStep
      <4>3. exec.memory.files \in Seq(Invoices)
        BY <4>2, AtWork, MemoryFields DEF Sound
      <4>4. exec.memory.files[exec.todo] \in Invoices
        BY <3>2, <4>2, <4>3
      <4>5. << >> # << None >>
        OBVIOUS
      <4> QED  BY <1>5, <3>2, <4>4, <4>5 DEF NewDocument
    <3> QED  BY <1>5, <3>1, <3>2 DEF NewDocument
  <2>2. \A d \in Known : documents[d].invoice = documents'[n].invoice =>
            documents[d].readBy # documents'[n].readBy
    BY <1>5 DEF NewDocument
  <2>3. \A d \in Known : documents'[d].readBy = << None >> => documents[d].readBy = << None >>
    BY <1>3
  <2> HIDE DEF n
  <2>4. \A d \in Known' :
        /\ documents'[d].invoice \in Invoices /\ documents'[d].status \in DocumentStatus
        /\ documents'[d].readBy = << None >> => documents'[d].invoice \in Uploadable
    BY <1>3, <1>5, <2>1 DEF Filing
  <2>5. ASSUME NEW d \in Known', NEW e \in Known',
               documents'[d].readBy = << None >>, documents'[e].readBy = << None >>,
               documents'[d].invoice = documents'[e].invoice
        PROVE  d = e
    <3>1. CASE d \in Known /\ e \in Known
      BY <1>3, <2>5, <3>1 DEF Filing
    <3>2. CASE d = n /\ e \in Known
      BY <1>3, <2>2, <2>5, <3>2
    <3>3. CASE e = n /\ d \in Known
      BY <1>3, <2>2, <2>5, <3>3
    <3> QED  BY <1>5, <3>1, <3>2, <3>3
  <2> QED  BY <2>4, <2>5 DEF Filing
<1> QED  BY <1>4, <1>5 DEF DocumentsChange

LEMMA ShelfHolds ==
    ASSUME Shape, Progress, Readings, Papers(exec, documents), DocumentsChange, BooksChange, Shelf
    PROVE  Shelf'
<1>1. Known \subseteq Known'
  BY DEF DocumentsChange
<1>2. CASE books' = books
  BY <1>1, <1>2 DEF Shelf
<1>3. CASE /\ AppendRows
           /\ books' = [books EXCEPT ![exec.run] = Append(books[exec.run], Input(Key))]
  <2>1. exec.place \in InStep /\ Workflow.tool[Key] = "write"
    BY <1>3 DEF AppendRows, InTool, InStep
  <2>2. exec.run \in Runs /\ Sound(exec, documents)
    BY <2>1, AtWork
  <2>3. Input(Key) \in Seq(Nat) /\ ToSet(Input(Key)) \subseteq Known
    BY <2>1, <2>2, InputFacts, OwnGrows
  <2> DEFINE b == books[exec.run]
             input == Input(Key)
  <2>4. b \in Seq(Seq(Nat)) /\ \A n \in DOMAIN b : ToSet(b[n]) \subseteq Known
    BY <2>2 DEF Shelf
  <2>5. /\ books'[exec.run] = Append(b, input) /\ DOMAIN books' = Runs
        /\ \A r \in Runs \ {exec.run} : books'[r] = books[r]
    BY <1>3, <2>2 DEF Shelf
  <2> HIDE DEF b, input
  <2>6. /\ Append(b, input) \in Seq(Seq(Nat))
        /\ \A n \in DOMAIN Append(b, input) : ToSet(Append(b, input)[n]) \subseteq Known
    <3>1. input \in Seq(Nat) /\ ToSet(input) \subseteq Known
      BY <2>3 DEF input
    <3>2. Len(b) \in Nat /\ DOMAIN b = 1 .. Len(b) /\ DOMAIN Append(b, input) = 1 .. (Len(b) + 1)
      BY <2>4, <3>1
    <3>3. \A n \in 1 .. (Len(b) + 1) : Append(b, input)[n] = IF n <= Len(b) THEN b[n] ELSE input
      BY <2>4, <3>1, AppendProperties
    <3>4. Append(b, input) \in Seq(Seq(Nat))
      BY <2>4, <3>1
    <3> QED  BY <2>4, <3>1, <3>2, <3>3, <3>4
  <2>7. \A r \in Runs : /\ books'[r] \in Seq(Seq(Nat))
                        /\ \A n \in DOMAIN books'[r] : ToSet(books'[r][n]) \subseteq Known
    BY <2>5, <2>6 DEF Shelf
  <2> QED  BY <1>1, <2>5, <2>7 DEF Shelf
<1> QED  BY <1>2, <1>3 DEF BooksChange

\* As many documents as invoices and uploads.
LEMMA DocumentsAreFew ==
    ASSUME Readings, Filing
    PROVE  Known \subseteq Ids
<1> DEFINE Slots == (Invoices \X {1}) \cup (Uploadable \X {2})
           slot == [d \in Known |-> << documents[d].invoice,
                        IF documents[d].readBy = << None >> THEN 2 ELSE 1 >>]
           n == Len(documents)
<1>1. n \in Nat /\ Known = 1 .. n
  BY DEF Readings, Known
<1>2. slot \in Injection(Known, Slots)
  <2>1. slot \in [Known -> Slots]
    BY DEF Filing
  <2>2. ASSUME NEW d \in Known, NEW e \in Known, slot[d] = slot[e]
        PROVE  d = e
    <3>1. documents[d].invoice = documents[e].invoice
          /\ (documents[d].readBy = << None >> <=> documents[e].readBy = << None >>)
      BY <2>2
    <3> QED  BY <3>1 DEF Filing, Readings, OneForRuns, Known
  <2>3. DOMAIN slot = Known
    OBVIOUS
  <2> HIDE DEF slot, Slots
  <2> QED  BY <2>1, <2>2, <2>3 DEF Injection, IsInjective
<1>3. /\ IsFiniteSet(Invoices) /\ IsFiniteSet(Uploadable)
      /\ Cardinality(Invoices) \in Nat /\ Cardinality(Uploadable) \in Nat
  BY ExecutionAssumption, FS_Subset, FS_CardinalityType
<1>4. /\ IsFiniteSet(Invoices \X {1}) /\ Cardinality(Invoices \X {1}) = Cardinality(Invoices)
      /\ IsFiniteSet(Uploadable \X {2})
      /\ Cardinality(Uploadable \X {2}) = Cardinality(Uploadable)
  <2>1. /\ IsFiniteSet({1}) /\ Cardinality({1}) = 1 /\ IsFiniteSet({2}) /\ Cardinality({2}) = 1
    BY FS_Singleton
  <2>2. Cardinality(Invoices) * 1 = Cardinality(Invoices)
        /\ Cardinality(Uploadable) * 1 = Cardinality(Uploadable)
    BY <1>3
  <2>3. /\ IsFiniteSet(Invoices \X {1})
        /\ Cardinality(Invoices \X {1}) = Cardinality(Invoices) * Cardinality({1})
    BY <1>3, <2>1, FS_Product
  <2>4. /\ IsFiniteSet(Uploadable \X {2})
        /\ Cardinality(Uploadable \X {2}) = Cardinality(Uploadable) * Cardinality({2})
    BY <1>3, <2>1, FS_Product
  <2>5. /\ Cardinality(Invoices) * Cardinality({1}) = Cardinality(Invoices)
        /\ Cardinality(Uploadable) * Cardinality({2}) = Cardinality(Uploadable)
    BY <2>1, <2>2
  <2> QED  BY <2>3, <2>4, <2>5
<1>5. /\ IsFiniteSet(Slots)
      /\ Cardinality(Slots) = Cardinality(Invoices) + Cardinality(Uploadable)
  <2>1. (Invoices \X {1}) \cap (Uploadable \X {2}) = {}
    OBVIOUS
  <2>2. Cardinality((Invoices \X {1}) \cap (Uploadable \X {2})) = 0
    BY <2>1, FS_EmptySet
  <2>3. Cardinality(Invoices) + Cardinality(Uploadable) - 0
            = Cardinality(Invoices) + Cardinality(Uploadable)
    BY <1>3
  <2> QED  BY <1>4, <2>2, <2>3, FS_Union
<1>6. IsFiniteSet(Known) /\ Cardinality(Known) = n
  <2>1. 1 \in Int /\ n \in Int /\ (IF 1 > n THEN 0 ELSE n - 1 + 1) = n
    BY <1>1
  <2> HIDE DEF n
  <2>2. IsFiniteSet(1 .. n) /\ Cardinality(1 .. n) = IF 1 > n THEN 0 ELSE n - 1 + 1
    BY <2>1, FS_Interval
  <2> QED  BY <1>1, <2>1, <2>2
<1> HIDE DEF Slots, slot, n
<1>7. n <= Cardinality(Invoices) + Cardinality(Uploadable)
  BY <1>2, <1>5, <1>6, FS_Injection
<1> QED  BY <1>1, <1>3, <1>7 DEF Ids

Everything ==
    Shape /\ Progress /\ Readings /\ Papers(exec, documents) /\ Rows /\ Filing /\ Shelf

LEMMA InitIsInOrder == Init => Everything
<1> SUFFICES ASSUME Init PROVE Everything
  OBVIOUS
<1>1. Shape /\ Progress /\ Readings
  BY InitHolds DEF IInv
<1>2. Papers(exec, documents)
  BY DEF Init, Papers, Idle
<1>3. Known = {}
  BY DEF Init, Known
<1>4. Rows
  BY ExecutionAssumption DEF Init, Rows, RunRow, RunStatus
<1>5. Filing /\ Shelf
  BY <1>3 DEF Init, Filing, Shelf
<1> QED  BY <1>1, <1>2, <1>4, <1>5 DEF Everything

LEMMA EverythingHolds == Everything /\ [Next]_vars => Everything'
<1> SUFFICES ASSUME Everything, [Next]_vars PROVE Everything'
  OBVIOUS
<1>1. (Shape /\ Progress)'
  BY ProgressHolds DEF Everything
<1>2. Readings'
  BY ReadingsHold DEF Everything
<1>3. Papers(exec', documents') /\ DocumentsChange
  BY PapersHold DEF Everything
<1>4. Rows' /\ Filing' /\ Shelf'
  BY <1>3, RowsHold, FilingHolds, ShelfHolds, BooksMove DEF Everything
<1> QED  BY <1>1, <1>2, <1>3, <1>4 DEF Everything

LEMMA EverythingAlways == Spec => []Everything
BY InitIsInOrder, EverythingHolds, PTL DEF Spec

LEMMA EverythingIsTyped == Everything => TypeOK
<1> SUFFICES ASSUME Everything PROVE TypeOK
  OBVIOUS
<1>1. \A d \in Known : /\ d \in Ids /\ documents[d].status \in DocumentStatus
                       /\ ToSet(documents[d].readBy) \subseteq Runs \cup {None}
  <2>1. \A d \in Known : d \in Ids /\ documents[d].status \in DocumentStatus
    BY DocumentsAreFew DEF Everything, Filing
  <2>2. \A d \in Known : ReadAtMostOnce(documents[d])
    BY DEF Everything, Readings
  <2>3. \A d \in Known : ToSet(documents[d].readBy) \subseteq Runs \cup {None}
    <3>1. ToSet(<< >>) = {} /\ \A r : ToSet(<< r >>) = {r}
      BY DEF ToSet
    <3> QED  BY <2>2, <3>1 DEF ReadAtMostOnce
  <2> QED  BY <2>1, <2>3
<1>2. mtime \in [Invoices -> 0 .. now] /\ \A r \in Runs : run[r] \in RunRow
  BY DEF Everything, Rows
<1>3. step \in [Runs -> [Keys -> StepStatus]] /\ exec.run \in Runs \cup {None}
  BY DEF Everything, Shape
<1>4. \A r \in Runs : \A n \in DOMAIN books[r] : ToSet(books[r][n]) \subseteq Known
  BY DEF Everything, Shelf
<1> QED  BY <1>1, <1>2, <1>3, <1>4 DEF TypeOK

\* The rows have the columns TypeOK declares.
THEOREM TypeCorrectness == Spec => []TypeOK
BY EverythingAlways, EverythingIsTyped, PTL

-----------------------------------------------------------------------------
(* What the tools hand on has been judged. *)

\* The workflow writes what passed the check, escalates what did not, and checks
\* in no step that may fail and be skipped or that comes behind a pass edge.
WritesWhatPassed ==
    \A k \in Keys :
        /\ Workflow.tool[k] = "write" => Condition(k) = "pass"
        /\ Workflow.tool[k] = "escalate" => Condition(k) = "fail"
        /\ Workflow.tool[k] = "check" => k \notin PassBranch /\ Workflow.onError[k] # "skip"

Fine(ids, docs) == \A d \in ToSet(ids) : docs[d].status = "ok"
Answered(ids, docs) == \A d \in ToSet(ids) : docs[d].status = "ok" => docs[d].accepted

\* A status the session remembers can be another one by now only if a person
\* decided.
Remembers(seen, own, docs) ==
    \A d \in own :
        /\ seen[d] = "ok" => docs[d].status = "ok"
        /\ seen[d] = "needs_review" /\ docs[d].status = "ok" => docs[d].accepted

InCheck(row) == row.place \in InStep /\ Workflow.tool[Order[row.index]] = "check"

Judged(row, docs) ==
    row.run # None =>
        /\ DOMAIN row.seen = Ids /\ Remembers(row.seen, Own(row.run, docs), docs)
        /\ InCheck(row) =>
            ~row.resume /\ Fine(row.out.passed, docs) /\ Answered(row.out.review, docs)
        /\ ~InCheck(row) =>
            /\ Fine(row.memory.passed, docs) /\ Answered(row.memory.review, docs)
            /\ ToSet(row.memory.passed) \cap ToSet(row.memory.review) = {}
        /\ row.resume => \A d \in ToSet(row.memory.passed) : docs[d].accepted

\* Apart from the judgements of the thread, only people change what is known.
Gentle ==
    \A d \in Known :
        /\ documents[d].accepted => documents'[d].accepted
        /\ \/ documents'[d].status = documents[d].status
           \/ Decided(documents[d], documents'[d])

Judging == CheckSome \/ CheckRest \/ Escalate \/ ReadAnswer

LEMMA OthersAreGentle ==
    ASSUME DocumentsChange, ~Judging
    PROVE  /\ Gentle /\ \A r \in Runs : Own(r, documents') = Own(r, documents)
<1>1. \A d \in Known : RowChange(d, documents[d], documents'[d])
  BY DEF DocumentsChange
<1>2. Gentle /\ \A d \in Known : documents'[d].readBy = documents[d].readBy
  BY <1>1 DEF Gentle, Judging, RowChange
<1> DEFINE n == Len(documents) + 1
<1>3. Known' # Known => Known' = Known \cup {n} /\ documents'[n].readBy \in {<< >>, << None >>}
  BY DEF DocumentsChange, NewDocument
<1>4. ToSet(<< >>) = {} /\ ToSet(<< None >>) = {None}
  BY DEF ToSet
<1> HIDE DEF n
<1>5. ASSUME NEW r \in Runs PROVE Own(r, documents') = Own(r, documents)
  <2>1. \A d \in Known' \ Known : r \notin ToSet(documents'[d].readBy)
    BY <1>3, <1>4, RunsAreNotNone
  <2>2. Known \subseteq Known'
    BY <1>3
  <2> QED  BY <1>2, <2>1, <2>2 DEF Own, Known
<1> QED  BY <1>2, <1>5

LEMMA OutIsOwn ==
    ASSUME Shape, Progress, Readings, Papers(exec, documents), InCheck(exec)
    PROVE  /\ ToSet(exec.out.passed) \subseteq Own(exec.run, documents)
           /\ ToSet(exec.out.review) \subseteq Own(exec.run, documents)
           /\ exec.place = "tool"
<1>1. /\ Sound(exec, documents) /\ InTheTool(exec, documents) /\ Key = Order[exec.index]
  BY AtWork DEF InCheck
<1>2. InTool("check")
  BY <1>1 DEF InCheck, InTheTool, CheckedSoFar, InTool
<1>3. /\ CheckedSoFar(exec) /\ ToSet(Input(Key)) \subseteq Own(exec.run, documents)
      /\ DOMAIN Input(Key) = 1 .. Len(Input(Key)) /\ Len(Input(Key)) \in Nat
      /\ Taken(exec) = {Input(Key)[n] : n \in 1 .. (exec.todo - 1)}
      /\ exec.todo \in Nat \ {0} /\ exec.todo <= Len(Input(Key)) + 1 /\ exec.place = "tool"
  BY <1>2, Checking
<1>4. Taken(exec) \subseteq ToSet(Input(Key))
  <2>1. \A n \in 1 .. (exec.todo - 1) : n \in DOMAIN Input(Key)
    BY <1>3
  <2> QED  BY <1>3, <2>1 DEF ToSet
<1> QED  BY <1>3, <1>4 DEF CheckedSoFar

\* What people do meanwhile does not spoil a judgement.
LEMMA JudgedStays ==
    ASSUME Shape, Progress, Readings, Papers(exec, documents), Judged(exec, documents),
           DocumentsChange, ~Judging
    PROVE  Judged(exec, documents')
<1> SUFFICES ASSUME exec.run # None PROVE Judged(exec, documents')
  BY DEF Judged
<1>1. /\ exec.run \in Runs /\ Gentle /\ Own(exec.run, documents') = Own(exec.run, documents)
      /\ Own(exec.run, documents) \subseteq Known
  BY OthersAreGentle, OwnGrows DEF Shape
<1>2. Remembers(exec.seen, Own(exec.run, documents'), documents')
  BY <1>1 DEF Judged, Remembers, Gentle, Decided
<1>3. ASSUME NEW ids, ToSet(ids) \subseteq Known
      PROVE  /\ Fine(ids, documents) => Fine(ids, documents')
             /\ Answered(ids, documents) => Answered(ids, documents')
  BY <1>1, <1>3 DEF Fine, Answered, Gentle, Decided
<1>4. /\ ToSet(exec.memory.passed) \subseteq Known /\ ToSet(exec.memory.review) \subseteq Known
  BY <1>1 DEF Papers, Sound
<1>5. InCheck(exec) =>
        /\ ToSet(exec.out.passed) \subseteq Known /\ ToSet(exec.out.review) \subseteq Known
  BY <1>1, OutIsOwn
<1>6. exec.resume => \A d \in ToSet(exec.memory.passed) : documents'[d].accepted
  BY <1>1, <1>4 DEF Judged, Gentle
<1> QED  BY <1>2, <1>3, <1>4, <1>5, <1>6 DEF Judged

\* What is in the rows after an assignment, in spite of the copies in memory.
LEMMA AssignedRows ==
    ASSUME NEW own, Remembers(exec.seen, own, documents), NEW status,
           NEW new \in Assigned(status), NEW d \in DOMAIN status, d \in own
    PROVE  /\ status[d] = "ok" => new[d] = "ok"
           /\ status[d] = "needs_review" /\ new[d] = "ok" => documents[d].accepted
BY DEF Assigned, Remembers

LEMMA JudgedRows ==
    ASSUME Readings, NEW own, own \subseteq Known, Remembers(exec.seen, own, documents),
           NEW verdict, DOMAIN verdict \subseteq own, Judge(verdict)
    PROVE  /\ \A d \in DOMAIN verdict :
                /\ verdict[d] = "ok" => documents'[d].status = "ok"
                /\ verdict[d] = "needs_review" /\ documents'[d].status = "ok"
                        => documents'[d].accepted
           /\ \A d \in Known \ DOMAIN verdict : documents'[d] = documents[d]
           /\ \A d \in Known : documents'[d].accepted = documents[d].accepted
                               /\ documents'[d].readBy = documents[d].readBy
           /\ Known' = Known
<1>1. PICK new \in Assigned(verdict) : documents' = [d \in Known |-> IF d \in DOMAIN verdict
            THEN [documents[d] EXCEPT !.status = new[d], !.faulty = verdict[d] # "ok"]
            ELSE documents[d]]
  BY Zenon DEF Judge
<1>2. Known' = Known /\ \A d \in Known \ DOMAIN verdict : documents'[d] = documents[d]
  BY <1>1 DEF Known
<1>3. ASSUME NEW d \in DOMAIN verdict
      PROVE  documents'[d].status = new[d] /\ documents'[d].accepted = documents[d].accepted
             /\ documents'[d].readBy = documents[d].readBy
  <2>1. d \in Known /\ DOMAIN documents[d] = DocumentFields
    BY DEF Readings
  <2>2. documents'[d] = [documents[d] EXCEPT !.status = new[d], !.faulty = verdict[d] # "ok"]
    BY <1>1, <2>1
  <2> QED  BY <2>1, <2>2 DEF DocumentFields
<1>4. ASSUME NEW d \in DOMAIN verdict
      PROVE  /\ verdict[d] = "ok" => new[d] = "ok"
             /\ verdict[d] = "needs_review" /\ new[d] = "ok" => documents[d].accepted
  BY AssignedRows
<1> QED  BY <1>2, <1>3, <1>4

LEMMA EscalatedRows ==
    ASSUME Readings, NEW own, own \subseteq Known, Remembers(exec.seen, own, documents),
           ToSet(Input(Key)) \subseteq own, Escalate
    PROVE  /\ \A d \in ToSet(Input(Key)) :
                documents'[d].status = "ok" => documents'[d].accepted
           /\ \A d \in Known \ ToSet(Input(Key)) : documents'[d] = documents[d]
           /\ \A d \in Known : documents'[d].accepted = documents[d].accepted
                               /\ documents'[d].readBy = documents[d].readBy
           /\ Known' = Known
<1> DEFINE status == [d \in ToSet(Input(Key)) |-> "needs_review"]
<1>1. PICK new \in Assigned(status) : documents' = [d \in Known |-> IF d \in DOMAIN status
                    THEN [documents[d] EXCEPT !.status = new[d]] ELSE documents[d]]
  BY DEF Escalate
<1>2. DOMAIN status = ToSet(Input(Key)) /\ \A d \in DOMAIN status : status[d] = "needs_review"
  OBVIOUS
<1> HIDE DEF status
<1>3. Known' = Known /\ \A d \in Known \ DOMAIN status : documents'[d] = documents[d]
  BY <1>1 DEF Known
<1>4. ASSUME NEW d \in DOMAIN status
      PROVE  documents'[d].status = new[d] /\ documents'[d].accepted = documents[d].accepted
             /\ documents'[d].readBy = documents[d].readBy
  <2>1. d \in Known /\ DOMAIN documents[d] = DocumentFields
    BY <1>2 DEF Readings
  <2>2. documents'[d] = [documents[d] EXCEPT !.status = new[d]]
    BY <1>1, <2>1
  <2> QED  BY <2>1, <2>2 DEF DocumentFields
<1>5. \A d \in DOMAIN status : new[d] = "ok" => documents[d].accepted
  <2> SUFFICES ASSUME NEW d \in DOMAIN status, new[d] = "ok" PROVE documents[d].accepted
    OBVIOUS
  <2>1. d \in own /\ status[d] = "needs_review"
    BY <1>2
  <2> QED  BY <2>1, AssignedRows
<1> QED  BY <1>2, <1>3, <1>4, <1>5

LEMMA StillJudged ==
    ASSUME exec.run # None, Judged(exec, documents'), ~InCheck(exec), ~InCheck(exec'),
           exec'.run = exec.run, exec'.resume = exec.resume,
           exec'.memory.passed = exec.memory.passed,
           exec'.memory.review = exec.memory.review,
           DOMAIN exec'.seen = Ids,
           Remembers(exec'.seen, Own(exec.run, documents'), documents')
    PROVE  Judged(exec', documents')
BY DEF Judged

LEMMA NothingIsRemembered ==
    /\ DOMAIN Idle.seen = Ids
    /\ \A own, docs : own \subseteq Ids => Remembers(Idle.seen, own, docs)
BY DEF Idle, Remembers

LEMMA NotInCheck ==
    ASSUME exec.place \notin InStep \/ Workflow.tool[Key] # "check"
    PROVE  ~InCheck(exec)
BY DEF InCheck, Key

LEMMA BetweenStepsJudged ==
    ASSUME WritesWhatPassed, Everything, Judged(exec, documents'), documents' = documents,
           LeaveOut \/ SkipStep \/ StartStep
    PROVE  Judged(exec', documents')
<1>1. exec.run # None /\ ~InCheck(exec)
  BY DEF LeaveOut, SkipStep, StartStep, AtStart, Everything, Shape, InCheck, InStep
<1>2. Shape
  BY DEF Everything
<1>3. CASE LeaveOut \/ SkipStep
  <2>1. \E outcome : exec' = NextStep(outcome)
    BY <1>3 DEF LeaveOut, SkipStep
  <2>2. /\ exec'.run = exec.run /\ exec'.resume = exec.resume /\ exec'.memory = exec.memory
        /\ exec'.seen = exec.seen /\ exec'.place = "start"
    BY <1>2, <2>1, NextStepDoes DEF Rest, ExecFields
  <2>3. ~InCheck(exec')
    BY <2>2 DEF InCheck, InStep
  <2> QED  BY <1>1, <2>2, <2>3, StillJudged DEF Judged
<1>4. CASE StartStep
  <2>1. /\ exec'.run = exec.run /\ exec'.resume = exec.resume /\ exec'.memory = exec.memory
        /\ exec'.seen = exec.seen /\ exec'.index = exec.index /\ exec'.out = Fresh(Key)
    BY <1>2, <1>4, StartStepDoes DEF Rest, ExecFields
  <2>2. CASE Workflow.tool[Key] # "check"
    <3>1. ~InCheck(exec')
      BY <2>1, <2>2 DEF InCheck, Key
    <3> QED  BY <1>1, <2>1, <3>1, StillJudged DEF Judged
  <2>3. CASE Workflow.tool[Key] = "check"
    <3>1. exec.memory \in Memory
      BY <1>1 DEF Everything, Papers, Sound
    <3>2. exec'.out = [exec.memory EXCEPT !.passed = << >>, !.review = << >>]
      BY <2>1, <2>3 DEF Fresh
    <3>3. exec'.out.passed = << >> /\ exec'.out.review = << >>
      BY <3>1, <3>2, MemoryFields
    <3>4. exec.index \in 1 .. Len(Order)
      BY <1>4, OrderIsFinite DEF StartStep, AtStart, Everything, Shape, Progress, PassInv
    <3>5. ~exec.resume
      BY <1>4, <2>3, <3>4, KeyIsAKey DEF StartStep, ResumeKeys, WritesWhatPassed
    <3>6. InCheck(exec')
      BY <1>2, <1>4, <2>1, <2>3, StartStepDoes DEF InCheck, InStep, Key
    <3>7. Fine(<< >>, documents') /\ Answered(<< >>, documents')
      BY EmptySequence DEF Fine, Answered
    <3> QED  BY <1>1, <2>1, <3>3, <3>5, <3>6, <3>7 DEF Judged
  <2> QED  BY <2>2, <2>3
<1> QED  BY <1>3, <1>4

LEMMA FaultsJudged ==
    ASSUME WritesWhatPassed, Everything, Judged(exec, documents'), documents' = documents,
           RetryStep \/ PassOver
    PROVE  Judged(exec', documents')
<1>1. /\ exec.place \in {"tool", "answer"} /\ exec.place \in InStep
      /\ Shape /\ Progress /\ Papers(exec, documents)
  BY DEF RetryStep, PassOver, InStep, Everything
<1>2. /\ exec.run # None /\ exec.run \in Runs /\ Sound(exec, documents)
      /\ exec.index \in 1 .. Len(Order) /\ Key \in Keys
  BY <1>1, AtWork, KeyIsAKey
<1>3. Remembers(Idle.seen, Own(exec.run, documents'), documents')
  <2>1. Own(exec.run, documents') \subseteq Ids
    BY DocumentsAreFew DEF Everything, Own, Known
  <2> QED  BY <2>1, NothingIsRemembered
<1>4. CASE PassOver
  <2>1. /\ exec'.run = exec.run /\ exec'.resume = exec.resume /\ exec'.memory = exec.memory
        /\ exec'.seen = Idle.seen /\ exec'.place = "start"
    BY <1>1, <1>4, PassOverDoes DEF Rest, ExecFields
  <2>2. ~InCheck(exec) /\ ~InCheck(exec')
    BY <1>2, <1>4, <2>1 DEF PassOver, WritesWhatPassed, InCheck, Key, InStep
  <2> QED  BY <1>2, <1>3, <2>1, <2>2, StillJudged, NothingIsRemembered
<1>5. CASE RetryStep
  <2>1. /\ exec'.run = exec.run /\ exec'.resume = exec.resume /\ exec'.memory = exec.memory
        /\ exec'.seen = Idle.seen /\ exec'.place = "tool" /\ exec'.index = exec.index
        /\ exec'.out = Fresh(Key)
    BY <1>1, <1>5, RetryStepDoes DEF Rest, ExecFields
  <2>2. CASE Workflow.tool[Key] # "check"
    <3>1. ~InCheck(exec) /\ ~InCheck(exec')
      BY <2>1, <2>2 DEF InCheck, Key
    <3> QED  BY <1>2, <1>3, <2>1, <3>1, StillJudged, NothingIsRemembered
  <2>3. CASE Workflow.tool[Key] = "check"
    <3>1. exec'.out = [exec.memory EXCEPT !.passed = << >>, !.review = << >>]
      BY <2>1, <2>3 DEF Fresh
    <3>2. exec'.out.passed = << >> /\ exec'.out.review = << >>
      BY <1>2, <3>1, MemoryFields DEF Sound
    <3>3. InCheck(exec) /\ InCheck(exec')
      BY <1>1, <2>1, <2>3 DEF InCheck, InStep, Key
    <3>4. Fine(<< >>, documents') /\ Answered(<< >>, documents')
      BY EmptySequence DEF Fine, Answered
    <3> QED  BY <1>2, <1>3, <2>1, <3>2, <3>3, <3>4, NothingIsRemembered DEF Judged
  <2> QED  BY <2>2, <2>3
<1> QED  BY <1>4, <1>5

LEMMA ListJudged ==
    ASSUME Everything, Judged(exec, documents'), ListNewFiles
    PROVE  Judged(exec', documents')
<1>1. /\ exec.place = "tool" /\ Workflow.tool[Key] = "list" /\ exec.place \in InStep
      /\ Shape /\ Progress /\ Papers(exec, documents)
      /\ Complete([exec.out EXCEPT !.files = Ascending(NewFiles)], exec.seen)
  BY DEF ListNewFiles, InTool, InStep, Everything
<1>2. /\ exec.run # None /\ Sound(exec, documents) /\ InTheTool(exec, documents)
      /\ Key = Order[exec.index]
  BY <1>1, AtWork
<1>3. exec.out = exec.memory /\ exec.memory \in Memory
  BY <1>1, <1>2 DEF InTheTool, Sound
<1>4. /\ exec'.run = exec.run /\ exec'.resume = exec.resume /\ exec'.place = "start"
      /\ exec'.seen = exec.seen
      /\ exec'.memory = [exec.out EXCEPT !.files = Ascending(NewFiles)]
  BY <1>1, CompleteDoes DEF Rest, ExecFields
<1>5. exec'.memory.passed = exec.memory.passed /\ exec'.memory.review = exec.memory.review
  BY <1>3, <1>4, MemoryFields
<1>6. ~InCheck(exec) /\ ~InCheck(exec')
  BY <1>1, <1>4 DEF InCheck, Key, InStep
<1> QED  BY <1>2, <1>4, <1>5, <1>6, StillJudged DEF Judged

LEMMA ReadFileJudged ==
    ASSUME Everything, Judged(exec, documents'), ReadFile
    PROVE  Judged(exec', documents')
<1>1. /\ exec.place = "tool" /\ Workflow.tool[Key] = "read" /\ exec.place \in InStep
      /\ Shape /\ Progress /\ Papers(exec, documents) /\ ReadFileDoes
  BY Zenon, FileIsLookedAt DEF ReadFile, InTool, InStep, Everything
<1>2. exec.run # None
  BY <1>1, AtWork
<1>3. /\ exec'.run = exec.run /\ exec'.resume = exec.resume /\ exec'.memory = exec.memory
      /\ exec'.index = exec.index
  BY <1>1 DEF ReadFileDoes, Rest, ExecFields
<1>4. ~InCheck(exec) /\ ~InCheck(exec')
  BY <1>1, <1>3 DEF InCheck, Key
<1>5. DOMAIN exec.seen = Ids /\ Remembers(exec.seen, Own(exec.run, documents'), documents')
  BY <1>2 DEF Judged
<1>6. \/ exec'.seen = exec.seen
      \/ /\ exec'.seen = [exec.seen EXCEPT ![ThisDocument] = documents[ThisDocument].status]
         /\ documents' = documents
  BY <1>1 DEF ReadFileDoes, Rest, ExecFields
<1>7. /\ DOMAIN exec'.seen = Ids
      /\ Remembers(exec'.seen, Own(exec.run, documents'), documents')
  <2>1. CASE exec'.seen = exec.seen
    BY <1>5, <2>1
  <2>2. CASE /\ exec'.seen = [exec.seen EXCEPT ![ThisDocument] = documents[ThisDocument].status]
             /\ documents' = documents
    <3>1. Own(exec.run, documents') \subseteq Ids
      BY <2>2, DocumentsAreFew DEF Everything, Own, Known
    <3> QED  BY <1>5, <2>2, <3>1 DEF Remembers
  <2> QED  BY <1>6, <2>1, <2>2
<1> QED  BY <1>2, <1>3, <1>4, <1>7, StillJudged

LEMMA WriteJudged ==
    ASSUME Everything, Judged(exec, documents'), AppendRows
    PROVE  Judged(exec', documents')
<1>1. /\ exec.place = "tool" /\ Workflow.tool[Key] = "write" /\ exec.place \in InStep
      /\ Shape /\ Progress /\ Papers(exec, documents)
  BY DEF AppendRows, InTool, InStep, Everything
<1>2. exec.run # None
  BY <1>1, AtWork
<1>3. /\ exec'.run = exec.run /\ exec'.resume = exec.resume /\ exec'.memory = exec.memory
      /\ exec'.seen = exec.seen /\ exec'.index = exec.index
  BY <1>1, AppendRowsDoes DEF Rest, ExecFields
<1>4. ~InCheck(exec) /\ ~InCheck(exec')
  BY <1>1, <1>3 DEF InCheck, Key
<1> QED  BY <1>2, <1>3, <1>4, StillJudged DEF Judged

LEMMA StepDoneJudged ==
    ASSUME WritesWhatPassed, Everything, Judged(exec, documents'), StepDone
    PROVE  Judged(exec', documents')
<1>1. /\ exec.place \in InStep /\ Complete(exec.out, exec.seen)
      /\ exec.place = "done" \/ InTool("read")
      /\ Shape /\ Progress /\ Readings /\ Papers(exec, documents)
  BY DEF StepDone, InStep, InTool, Everything
<1>2. /\ exec.run # None /\ Sound(exec, documents) /\ InTheTool(exec, documents)
      /\ Key = Order[exec.index] /\ Key \in Keys /\ exec.memory \in Memory
  BY <1>1, AtWork, KeyIsAKey DEF Sound
<1>3. /\ exec'.run = exec.run /\ exec'.resume = exec.resume /\ exec'.place = "start"
      /\ exec'.seen = exec.seen /\ exec'.memory = exec.out
  BY <1>1, CompleteDoes DEF Rest, ExecFields
<1>4. exec.out.passed = exec.memory.passed /\ exec.out.review = exec.memory.review
  <2>1. CASE InTool("read")
    <3>1. ReadSoFar(exec, documents)
      BY <1>1, <2>1, ReadingAFile
    <3>2. exec.out = [exec.memory EXCEPT !.document_ids = exec.out.document_ids]
      BY <3>1 DEF ReadSoFar
    <3> QED  BY <1>2, <3>2, MemoryFields
  <2>2. CASE exec.place = "done" /\ Workflow.tool[Key] = "write"
    BY <1>2, <2>2 DEF InTheTool
  <2>3. CASE exec.place = "done" /\ Workflow.tool[Key] = "escalate"
    <3>1. exec.out = [exec.memory EXCEPT !.review = InputFrom(Key, exec.memory)]
      BY <1>2, <2>3 DEF InTheTool
    <3>2. InputFrom(Key, exec.memory) = exec.memory.review
      BY <1>2, <2>3 DEF InputFrom, WritesWhatPassed
    <3> QED  BY <1>2, <3>1, <3>2, MemoryFields
  <2>4. exec.place = "done" => Workflow.tool[Key] \in {"write", "escalate"}
    BY <1>2 DEF InTheTool
  <2> QED  BY <1>1, <2>1, <2>2, <2>3, <2>4
<1>5. ~InCheck(exec) /\ ~InCheck(exec')
  BY <1>1, <1>2, <1>3 DEF InCheck, InTheTool, InTool, InStep
<1> QED  BY <1>2, <1>3, <1>4, <1>5, StillJudged DEF Judged

LEMMA BeginJudged ==
    ASSUME Everything, NEW r \in Runs, Begin(r)
    PROVE  Judged(exec', documents')
<1>1. /\ exec'.run = r /\ exec'.place = "start" /\ documents' = documents
      /\ exec'.memory = [NoMemory EXCEPT !.passed =
                IF run[r].reviewed THEN Ascending(ReviewedOk(r)) ELSE << >>]
      /\ exec'.resume = run[r].reviewed /\ exec'.seen = Idle.seen
  BY BeginDoes DEF Begin
<1>2. Papers(exec', documents')
  BY BeginMakesPapers DEF Everything
<1>3. /\ exec'.memory.passed = IF run[r].reviewed THEN Ascending(ReviewedOk(r)) ELSE << >>
      /\ exec'.memory.review = << >>
  BY <1>1, NoMemoryIsEmpty, MemoryFields
<1>4. ASSUME NEW d \in ToSet(exec'.memory.passed)
      PROVE  documents[d].status = "ok" /\ documents[d].accepted
  <2>1. run[r].reviewed /\ d \in ToSet(Ascending(ReviewedOk(r)))
    BY <1>3, <1>4, EmptySequence
  <2>2. ReviewedOk(r) \subseteq Known /\ Known = 1 .. Len(documents) /\ Len(documents) \in Nat
    BY DEF ReviewedOk, ReadBy, Everything, Readings, Known
  <2>3. IsFiniteSet(ReviewedOk(r)) /\ ReviewedOk(r) \subseteq Nat
    <3>1. IsFiniteSet(1 .. Len(documents)) /\ ReviewedOk(r) \subseteq 1 .. Len(documents)
      BY <2>2, FS_Interval
    <3> QED  BY <3>1, FS_Subset
  <2>4. d \in ReviewedOk(r)
    BY <2>1, <2>3, Ascended
  <2> QED  BY <2>4 DEF ReviewedOk
<1>5. ~InCheck(exec')
  BY <1>1 DEF InCheck, InStep
<1>6. Remembers(Idle.seen, Own(r, documents), documents)
  <2>1. Own(r, documents) \subseteq Ids
    BY DocumentsAreFew DEF Everything, Own, Known
  <2> QED  BY <2>1, NothingIsRemembered
<1>7. Fine(exec'.memory.passed, documents) /\ Answered(exec'.memory.review, documents)
      /\ ToSet(exec'.memory.passed) \cap ToSet(exec'.memory.review) = {}
  BY <1>3, <1>4, EmptySequence DEF Fine, Answered
<1> QED  BY <1>1, <1>4, <1>5, <1>6, <1>7, NothingIsRemembered DEF Judged

LEMMA VerdictIsKept ==
    ASSUME Everything, Judged(exec, documents), InTool("check"),
           NEW last \in Nat, last <= Len(Input(Key)), NEW bad,
           Judge(Verdict(exec.todo, last, bad))
    PROVE  /\ exec.run # None /\ ~exec.resume
           /\ Own(exec.run, documents') = Own(exec.run, documents)
           /\ DOMAIN Seen(Verdict(exec.todo, last, bad)) = Ids
           /\ Remembers(Seen(Verdict(exec.todo, last, bad)), Own(exec.run, documents'), documents')
           /\ Fine(exec.out.passed, documents') /\ Answered(exec.out.review, documents')
           /\ \A m \in exec.todo .. last :
                /\ Input(Key)[m] \notin bad => documents'[Input(Key)[m]].status = "ok"
                /\ Input(Key)[m] \in bad /\ documents'[Input(Key)[m]].status = "ok"
                        => documents'[Input(Key)[m]].accepted
<1> DEFINE own == Own(exec.run, documents)
           verdict == Verdict(exec.todo, last, bad)
           input == Input(Key)
<1>1. /\ Shape /\ Progress /\ Readings /\ Papers(exec, documents)
  BY DEF Everything
<1>2. /\ exec.run \in Runs /\ exec.run # None /\ exec.place = "tool"
      /\ Workflow.tool[Order[exec.index]] = "check"
      /\ CheckedSoFar(exec) /\ IsInjective(input) /\ ToSet(input) \subseteq own
      /\ Len(input) \in Nat /\ DOMAIN input = 1 .. Len(input)
      /\ Taken(exec) = {input[n] : n \in 1 .. (exec.todo - 1)}
      /\ exec.todo \in Nat \ {0} /\ exec.todo <= Len(input) + 1
  BY <1>1, Checking
<1>3. InCheck(exec)
  BY <1>2 DEF InCheck, InStep
<1>4. /\ Remembers(exec.seen, own, documents) /\ DOMAIN exec.seen = Ids /\ ~exec.resume
      /\ Fine(exec.out.passed, documents) /\ Answered(exec.out.review, documents)
  BY <1>2, <1>3 DEF Judged
<1>5. DOMAIN verdict = {input[n] : n \in exec.todo .. last} /\ DOMAIN verdict \subseteq own
  <2>1. DOMAIN verdict = {input[n] : n \in exec.todo .. last} /\ DOMAIN verdict \subseteq ToSet(input)
    BY <1>2, VerdictDomain
  <2> QED  BY <1>2, <2>1
<1>6. \A d \in DOMAIN verdict : verdict[d] = IF d \in bad THEN "needs_review" ELSE "ok"
  BY <1>5 DEF Verdict
<1> HIDE DEF verdict
<1>7. own \subseteq Known /\ own \subseteq Ids
  BY DocumentsAreFew DEF Everything, Own, Known
<1>8. Judge(verdict)
  BY DEF verdict
<1>9. /\ \A d \in DOMAIN verdict :
            /\ verdict[d] = "ok" => documents'[d].status = "ok"
            /\ verdict[d] = "needs_review" /\ documents'[d].status = "ok"
                        => documents'[d].accepted
      /\ \A d \in Known \ DOMAIN verdict : documents'[d] = documents[d]
      /\ \A d \in Known : documents'[d].accepted = documents[d].accepted
                          /\ documents'[d].readBy = documents[d].readBy
      /\ Known' = Known
  <2> HIDE DEF own, input
  <2> QED  BY <1>1, <1>4, <1>5, <1>7, <1>8, JudgedRows
<1>10. Own(exec.run, documents') = own
  BY <1>9 DEF Own, Known
<1>11. DOMAIN Seen(verdict) = Ids
       /\ \A d \in Ids : Seen(verdict)[d] = IF d \in DOMAIN verdict THEN verdict[d] ELSE exec.seen[d]
  BY DEF Seen
<1> HIDE DEF own
<1>12. Remembers(Seen(verdict), own, documents')
  <2> SUFFICES ASSUME NEW d \in own
               PROVE  /\ Seen(verdict)[d] = "ok" => documents'[d].status = "ok"
                      /\ Seen(verdict)[d] = "needs_review" /\ documents'[d].status = "ok"
                            => documents'[d].accepted
    BY DEF Remembers
  <2>1. d \in Known /\ d \in Ids
    BY <1>7
  <2>2. CASE d \in DOMAIN verdict
    BY <1>9, <1>11, <2>1, <2>2
  <2>3. CASE d \notin DOMAIN verdict
    <3>1. documents'[d] = documents[d] /\ Seen(verdict)[d] = exec.seen[d]
      BY <1>9, <1>11, <2>1, <2>3
    <3> QED  BY <1>4, <3>1 DEF Remembers
  <2> QED  BY <2>2, <2>3
<1>13. \A d \in Taken(exec) : d \in Known \ DOMAIN verdict
  <2>1. \A a \in 1 .. (exec.todo - 1), b \in exec.todo .. last : input[a] # input[b]
    <3>1. \A a \in 1 .. (exec.todo - 1), b \in exec.todo .. last :
            a \in DOMAIN input /\ b \in DOMAIN input /\ a # b
      BY <1>2
    <3> QED  BY <1>2, <3>1 DEF IsInjective
  <2>2. \A a \in 1 .. (exec.todo - 1) : input[a] \in Known
    <3>1. \A a \in 1 .. (exec.todo - 1) : a \in DOMAIN input
      BY <1>2
    <3> QED  BY <1>2, <1>7, <3>1 DEF ToSet
  <2> QED  BY <1>2, <1>5, <2>1, <2>2
<1>14. \A d \in ToSet(exec.out.passed) \cup ToSet(exec.out.review) : documents'[d] = documents[d]
  BY <1>2, <1>9, <1>13 DEF CheckedSoFar
<1>15. Fine(exec.out.passed, documents') /\ Answered(exec.out.review, documents')
  BY <1>4, <1>14 DEF Fine, Answered
<1>16. \A m \in exec.todo .. last :
            /\ input[m] \notin bad => documents'[input[m]].status = "ok"
            /\ input[m] \in bad /\ documents'[input[m]].status = "ok"
                    => documents'[input[m]].accepted
  BY <1>5, <1>6, <1>9
<1> QED  BY <1>2, <1>4, <1>10, <1>11, <1>12, <1>15, <1>16 DEF own, verdict

LEMMA CheckSomeJudged ==
    ASSUME Everything, Judged(exec, documents), CheckSome
    PROVE  Judged(exec', documents')
<1> DEFINE input == Input(Key)
<1>1. /\ Shape /\ Progress /\ Readings /\ Papers(exec, documents) /\ InTool("check")
  BY DEF CheckSome, Everything
<1>2. /\ exec.place = "tool" /\ Workflow.tool[Order[exec.index]] = "check"
      /\ input \in Seq(Nat) /\ IsInjective(input) /\ Len(input) \in Nat
      /\ DOMAIN input = 1 .. Len(input)
      /\ exec.todo \in Nat \ {0} /\ exec.todo <= Len(input) + 1
      /\ exec.out \in Memory /\ exec.memory \in Memory
  BY <1>1, Checking
<1>3. PICK n \in exec.todo .. Len(input) : CheckSomeDoes(n)
  BY <1>1, <1>2, SomeAreChecked
<1>4. n \in Nat \ {0} /\ n - 1 \in Nat /\ n <= Len(input)
  BY <1>2, <1>3
<1> DEFINE bad == {input[n]}
           verdict == Verdict(exec.todo, n, bad)
           part == SubSeq(input, exec.todo, n - 1)
<1>5. /\ exec.run # None /\ ~exec.resume
      /\ DOMAIN Seen(verdict) = Ids
      /\ Remembers(Seen(verdict), Own(exec.run, documents'), documents')
      /\ Fine(exec.out.passed, documents') /\ Answered(exec.out.review, documents')
      /\ \A m \in exec.todo .. n :
                /\ input[m] \notin bad => documents'[input[m]].status = "ok"
                /\ input[m] \in bad /\ documents'[input[m]].status = "ok"
                        => documents'[input[m]].accepted
  <2>1. Judge(verdict)
    BY <1>3 DEF CheckSomeDoes
  <2> QED  BY <1>1, <1>4, <2>1, VerdictIsKept
<1>6. /\ Rest({"todo", "seen", "out"}) /\ exec'.seen = Seen(verdict)
      /\ exec'.out = [exec.out EXCEPT !.passed = exec.out.passed \o part,
                                      !.review = Append(exec.out.review, input[n])]
  BY <1>3 DEF CheckSomeDoes
<1>7. /\ exec'.run = exec.run /\ exec'.index = exec.index /\ exec'.memory = exec.memory
      /\ exec'.place = exec.place /\ exec'.resume = exec.resume
  BY <1>6 DEF Rest, ExecFields
<1> HIDE DEF verdict
<1>8. /\ exec.out.passed \in Seq(Nat) /\ exec.out.review \in Seq(Nat)
      /\ DOMAIN exec.out = {"files", "document_ids", "passed", "review"}
  BY <1>2, MemoryFields
<1>9. input[n] \in Nat
  BY <1>2, <1>4
<1>10. part \in Seq(Nat) /\ ToSet(part) = {input[m] : m \in exec.todo .. (n - 1)}
  <2>1. n - 1 <= Len(input)
    BY <1>2, <1>4
  <2>2. ASSUME NEW b \in Nat, b <= Len(input)
        PROVE  /\ SubSeq(input, exec.todo, b) \in Seq(Nat)
               /\ ToSet(SubSeq(input, exec.todo, b)) = {input[m] : m \in exec.todo .. b}
    BY <1>2, <2>2, Cut
  <2> QED  BY <1>4, <2>1, <2>2
<1>11. \A d \in ToSet(part) : documents'[d].status = "ok"
  <2>1. \A m \in exec.todo .. (n - 1) : m \in DOMAIN input /\ n \in DOMAIN input /\ m # n
    BY <1>2, <1>4
  <2>2. \A m \in exec.todo .. (n - 1) : input[m] # input[n]
    BY <1>2, <2>1 DEF IsInjective
  <2>3. \A m \in exec.todo .. (n - 1) : m \in exec.todo .. n
    BY <1>2, <1>4
  <2> QED  BY <1>5, <1>10, <2>2, <2>3
<1>12. n \in exec.todo .. n
  BY <1>2, <1>3
<1> HIDE DEF part, input
<1>13. ToSet(exec.out.passed \o part) = ToSet(exec.out.passed) \cup ToSet(part)
  BY <1>8, <1>10, Joined
<1>14. ToSet(Append(exec.out.review, input[n])) = ToSet(exec.out.review) \cup {input[n]}
  <2>1. exec.out.review \in Seq(Nat)
    BY <1>8
  <2> QED  BY <1>9, <2>1, Appended
<1>15. exec'.out.passed = exec.out.passed \o part
       /\ exec'.out.review = Append(exec.out.review, input[n])
  BY <1>6, <1>8
<1>16. Fine(exec'.out.passed, documents') /\ Answered(exec'.out.review, documents')
  BY <1>5, <1>11, <1>12, <1>13, <1>14, <1>15 DEF Fine, Answered
<1>17. InCheck(exec')
  BY <1>2, <1>7 DEF InCheck, InStep
<1> QED  BY <1>5, <1>6, <1>7, <1>16, <1>17 DEF Judged

LEMMA CheckRestJudged ==
    ASSUME Everything, Judged(exec, documents), CheckRest
    PROVE  Judged(exec', documents')
<1> DEFINE input == Input(Key)
           verdict == Verdict(exec.todo, Len(input), {})
           part == SubSeq(input, exec.todo, Len(input))
<1>1. /\ Shape /\ Progress /\ Readings /\ Papers(exec, documents) /\ InTool("check")
      /\ Judge(verdict)
  BY DEF CheckRest, Everything
<1>2. /\ input \in Seq(Nat) /\ IsInjective(input) /\ Len(input) \in Nat
      /\ DOMAIN input = 1 .. Len(input)
      /\ exec.todo \in Nat \ {0} /\ exec.todo <= Len(input) + 1
      /\ exec.out \in Memory /\ exec.memory \in Memory /\ CheckedSoFar(exec)
      /\ Taken(exec) = {input[n] : n \in 1 .. (exec.todo - 1)}
  BY <1>1, Checking
<1>3. /\ exec.run # None /\ ~exec.resume
      /\ DOMAIN Seen(verdict) = Ids
      /\ Remembers(Seen(verdict), Own(exec.run, documents'), documents')
      /\ Fine(exec.out.passed, documents') /\ Answered(exec.out.review, documents')
      /\ \A m \in exec.todo .. Len(input) : documents'[input[m]].status = "ok"
  <2>1. Len(input) <= Len(input)
    BY <1>2
  <2>2. /\ exec.run # None /\ ~exec.resume
        /\ DOMAIN Seen(verdict) = Ids
        /\ Remembers(Seen(verdict), Own(exec.run, documents'), documents')
        /\ Fine(exec.out.passed, documents') /\ Answered(exec.out.review, documents')
        /\ \A m \in exec.todo .. Len(input) :
                input[m] \notin {} => documents'[input[m]].status = "ok"
    BY <1>1, <1>2, <2>1, VerdictIsKept
  <2> QED  BY <2>2
<1>4. Complete([exec.out EXCEPT !.passed = exec.out.passed \o part,
                   !.document_ids = (exec.out.passed \o part) \o exec.out.review], Seen(verdict))
  BY DEF CheckRest
<1> HIDE DEF verdict
<1> DEFINE passed == exec.out.passed \o part
           ids == passed \o exec.out.review
<1>5. /\ exec'.run = exec.run /\ exec'.resume = exec.resume /\ exec'.place = "start"
      /\ exec'.seen = Seen(verdict)
      /\ exec'.memory = [exec.out EXCEPT !.passed = passed, !.document_ids = ids]
  BY <1>1, <1>4, CompleteDoes DEF Rest, ExecFields
<1>6. /\ exec.out.passed \in Seq(Nat) /\ exec.out.review \in Seq(Nat)
      /\ DOMAIN exec.out = {"files", "document_ids", "passed", "review"}
  BY <1>2, MemoryFields
<1>7. part \in Seq(Nat) /\ ToSet(part) = {input[m] : m \in exec.todo .. Len(input)}
  <2>1. Len(input) <= Len(input)
    BY <1>2
  <2> QED  BY <1>2, <2>1, Cut
<1>8. \A d \in ToSet(part) : documents'[d].status = "ok"
  BY <1>3, <1>7
<1>9. ToSet(part) \cap ToSet(exec.out.review) = {}
  <2>1. \A a \in 1 .. (exec.todo - 1), b \in exec.todo .. Len(input) :
            a \in DOMAIN input /\ b \in DOMAIN input /\ a # b
    BY <1>2
  <2>2. \A a \in 1 .. (exec.todo - 1), b \in exec.todo .. Len(input) : input[a] # input[b]
    BY <1>2, <2>1 DEF IsInjective
  <2>3. ToSet(exec.out.review) \subseteq {input[n] : n \in 1 .. (exec.todo - 1)}
    BY <1>2 DEF CheckedSoFar
  <2> QED  BY <1>7, <2>2, <2>3
<1>10. ToSet(exec.out.passed) \cap ToSet(exec.out.review) = {}
  BY <1>2 DEF CheckedSoFar
<1> HIDE DEF part, input
<1>11. ToSet(passed) = ToSet(exec.out.passed) \cup ToSet(part)
  BY <1>6, <1>7, Joined
<1> HIDE DEF passed, ids
<1>12. exec'.memory.passed = passed /\ exec'.memory.review = exec.out.review
  BY <1>5, <1>6
<1>13. /\ Fine(exec'.memory.passed, documents') /\ Answered(exec'.memory.review, documents')
       /\ ToSet(exec'.memory.passed) \cap ToSet(exec'.memory.review) = {}
  BY <1>3, <1>8, <1>9, <1>10, <1>11, <1>12 DEF Fine
<1>14. ~InCheck(exec')
  BY <1>5 DEF InCheck, InStep
<1> QED  BY <1>3, <1>5, <1>13, <1>14 DEF Judged

LEMMA EscalateJudged ==
    ASSUME WritesWhatPassed, Everything, Judged(exec, documents), Escalate
    PROVE  Judged(exec', documents')
<1> DEFINE own == Own(exec.run, documents)
           verdict == [d \in ToSet(Input(Key)) |-> "needs_review"]
<1>1. /\ exec.place = "tool" /\ Workflow.tool[Key] = "escalate" /\ exec.place \in InStep
      /\ Shape /\ Progress /\ Readings /\ Papers(exec, documents)
  BY DEF Escalate, InTool, InStep, Everything
<1>2. /\ exec.run # None /\ Sound(exec, documents) /\ InTheTool(exec, documents)
      /\ Key = Order[exec.index] /\ Key \in Keys
  BY <1>1, AtWork, KeyIsAKey
<1>3. /\ Input(Key) = exec.memory.review /\ ToSet(Input(Key)) \subseteq own
  BY <1>1, <1>2, InputFacts DEF WritesWhatPassed, Input
<1>4. exec.out = exec.memory /\ exec.memory \in Memory
  BY <1>1, <1>2 DEF InTheTool, Sound
<1>5. DOMAIN exec.out = DOMAIN NoMemory
  BY <1>4, MemoryFields, NoMemoryIsEmpty
<1>6. /\ exec'.run = exec.run /\ exec'.index = exec.index /\ exec'.memory = exec.memory
      /\ exec'.resume = exec.resume /\ exec'.seen = Seen(verdict)
  BY <1>1, <1>5, EscalateDoes DEF Rest, ExecFields
<1>7. ~InCheck(exec) /\ ~InCheck(exec')
  BY <1>1, <1>6 DEF InCheck, Key
<1>8. /\ DOMAIN exec.seen = Ids /\ Remembers(exec.seen, own, documents)
      /\ Fine(exec.memory.passed, documents)
      /\ ToSet(exec.memory.passed) \cap ToSet(exec.memory.review) = {}
      /\ exec.resume => \A d \in ToSet(exec.memory.passed) : documents[d].accepted
  BY <1>2, <1>7 DEF Judged
<1>9. own \subseteq Known /\ own \subseteq Ids
  BY DocumentsAreFew DEF Everything, Own, Known
<1>10. /\ \A d \in ToSet(Input(Key)) :
                documents'[d].status = "ok" => documents'[d].accepted
       /\ \A d \in Known \ ToSet(Input(Key)) : documents'[d] = documents[d]
       /\ \A d \in Known : documents'[d].accepted = documents[d].accepted
                           /\ documents'[d].readBy = documents[d].readBy
       /\ Known' = Known
  <2> HIDE DEF own
  <2> QED  BY <1>1, <1>3, <1>8, <1>9, EscalatedRows
<1>11. Own(exec.run, documents') = own
  BY <1>10 DEF Own, Known
<1>12. /\ DOMAIN Seen(verdict) = Ids
       /\ \A d \in Ids : Seen(verdict)[d] =
                IF d \in ToSet(Input(Key)) THEN "needs_review" ELSE exec.seen[d]
  BY DEF Seen
<1> HIDE DEF verdict
<1>13. Remembers(Seen(verdict), own, documents')
  <2> HIDE DEF own
  <2> SUFFICES ASSUME NEW d \in own
               PROVE  /\ Seen(verdict)[d] = "ok" => documents'[d].status = "ok"
                      /\ Seen(verdict)[d] = "needs_review" /\ documents'[d].status = "ok"
                            => documents'[d].accepted
    BY DEF Remembers
  <2>1. d \in Known /\ d \in Ids
    BY <1>9
  <2>2. CASE d \in ToSet(Input(Key))
    BY <1>10, <1>12, <2>1, <2>2
  <2>3. CASE d \notin ToSet(Input(Key))
    <3>1. documents'[d] = documents[d] /\ Seen(verdict)[d] = exec.seen[d]
      BY <1>10, <1>12, <2>1, <2>3
    <3> QED  BY <1>8, <3>1 DEF Remembers
  <2> QED  BY <2>2, <2>3
<1>14. ToSet(exec.memory.passed) \subseteq Known
  BY <1>2, <1>9 DEF Sound
<1>15. Fine(exec.memory.passed, documents') /\ Answered(exec.memory.review, documents')
  BY <1>3, <1>8, <1>10, <1>14 DEF Fine, Answered
<1>16. exec.resume => \A d \in ToSet(exec.memory.passed) : documents'[d].accepted
  BY <1>8, <1>10, <1>14
<1> QED  BY <1>2, <1>6, <1>7, <1>8, <1>11, <1>12, <1>13, <1>15, <1>16 DEF Judged

LEMMA ReadAnswerJudged ==
    ASSUME Everything, Judged(exec, documents), ReadAnswer
    PROVE  Judged(exec', documents')
<1> DEFINE own == Own(exec.run, documents)
           d == exec.reading
<1>1. /\ exec.place = "answer" /\ exec.place \in InStep
      /\ Shape /\ Progress /\ Readings /\ Papers(exec, documents)
      /\ ReadAnswerDoes /\ DocumentsChange
  BY AnswerIsUsed, ReadAnswerChanges DEF ReadAnswer, InStep, Everything
<1>2. /\ exec.run # None /\ exec.run \in Runs /\ Sound(exec, documents)
      /\ InTheTool(exec, documents) /\ Key = Order[exec.index]
  BY <1>1, AtWork
<1>3. Workflow.tool[Key] = "read"
  BY <1>1, <1>2 DEF InTheTool
<1>4. /\ exec'.run = exec.run /\ exec'.index = exec.index /\ exec'.memory = exec.memory
      /\ exec'.resume = exec.resume
  BY <1>1 DEF ReadAnswerDoes, Rest, ExecFields
<1>5. ~InCheck(exec) /\ ~InCheck(exec')
  BY <1>3, <1>4 DEF InCheck, Key
<1>6. /\ DOMAIN exec.seen = Ids /\ Remembers(exec.seen, own, documents)
      /\ Fine(exec.memory.passed, documents) /\ Answered(exec.memory.review, documents)
      /\ ToSet(exec.memory.passed) \cap ToSet(exec.memory.review) = {}
      /\ exec.resume => \A e \in ToSet(exec.memory.passed) : documents[e].accepted
  BY <1>2, <1>5 DEF Judged
<1>7. ~CheckSome /\ ~CheckRest /\ ~Escalate
  BY <1>1 DEF CheckSome, CheckRest, Escalate, InTool
<1>8. \A e \in Known : RowChange(e, documents[e], documents'[e])
  BY <1>1 DEF DocumentsChange
<1>9. ASSUME NEW e \in own
      PROVE  /\ documents[e].accepted => documents'[e].accepted
             /\ \/ documents'[e].status = documents[e].status
                \/ Decided(documents[e], documents'[e])
  <2>1. e \in Known /\ documents[e].readBy # << >>
    BY EmptySequence DEF Own, Known
  <2> QED  BY <1>7, <1>8, <2>1 DEF RowChange
<1>10. \A e \in Own(exec.run, documents') : e \in own \/ e = d
  <2>1. \A e \in Known : documents'[e].readBy = documents[e].readBy \/ e = d
    BY <1>8 DEF RowChange
  <2>2. Known' = Known
    <3>1. ~ReadFile
      BY <1>1 DEF ReadFile, InTool
    <3>2. exec' # exec
      BY <1>1 DEF ReadAnswerDoes
    <3> QED  BY <1>1, <3>1, <3>2 DEF DocumentsChange, NewDocument
  <2> QED  BY <2>1, <2>2 DEF Own, Known
<1>11. \/ exec'.seen = [exec.seen EXCEPT ![d] = "processing"]
       \/ exec'.seen = exec.seen /\ Own(exec.run, documents') \subseteq own
  <2>1. CASE exec'.seen = [exec.seen EXCEPT ![exec.reading] = "processing"]
    BY <2>1
  <2>2. CASE Rest({"place", "todo"}) /\ documents'[exec.reading].readBy = << >>
    <3>1. exec'.seen = exec.seen
      BY <2>2 DEF Rest, ExecFields
    <3>2. d \notin Own(exec.run, documents')
      BY <2>2, EmptySequence DEF Own
    <3> QED  BY <1>10, <3>1, <3>2
  <2> QED  BY <1>1, <2>1, <2>2 DEF ReadAnswerDoes
<1>12. own \subseteq Ids
  BY DocumentsAreFew DEF Everything, Own, Known
<1> HIDE DEF own, d
<1>13. DOMAIN exec'.seen = Ids
       /\ Remembers(exec'.seen, Own(exec.run, documents'), documents')
  <2>1. DOMAIN exec'.seen = Ids
    BY <1>6, <1>11
  <2>2. ASSUME NEW e \in Own(exec.run, documents')
        PROVE  /\ exec'.seen[e] = "ok" => documents'[e].status = "ok"
               /\ exec'.seen[e] = "needs_review" /\ documents'[e].status = "ok"
                    => documents'[e].accepted
    <3>1. CASE e \in own /\ exec'.seen[e] = exec.seen[e]
      BY <1>6, <1>9, <3>1 DEF Remembers, Decided
    <3>2. CASE exec'.seen[e] = "processing"
      BY <3>2
    <3>3. CASE e = d /\ exec'.seen = [exec.seen EXCEPT ![d] = "processing"]
      <4>1. e \in Ids
        <5>1. d \in Known
          BY <1>1 DEF ReadAnswerDoes, d
        <5> QED  BY <3>3, <5>1, DocumentsAreFew DEF Everything
      <4> QED  BY <1>6, <3>2, <3>3, <4>1
    <3>4. CASE e \in own /\ e # d
      BY <1>6, <1>11, <1>12, <3>1, <3>4
    <3> QED  BY <1>10, <1>11, <3>1, <3>3, <3>4
  <2> QED  BY <2>1, <2>2 DEF Remembers
<1>14. ToSet(exec.memory.passed) \subseteq own /\ ToSet(exec.memory.review) \subseteq own
  BY <1>2 DEF Sound, own
<1>15. /\ Fine(exec.memory.passed, documents') /\ Answered(exec.memory.review, documents')
       /\ exec.resume => \A e \in ToSet(exec.memory.passed) : documents'[e].accepted
  BY <1>6, <1>9, <1>14 DEF Fine, Answered, Decided
<1> QED  BY <1>4, <1>5, <1>6, <1>13, <1>15 DEF Judged

LEMMA JudgedHolds ==
    ASSUME WritesWhatPassed, Everything, Judged(exec, documents), [Next]_vars
    PROVE  Judged(exec', documents')
<1>1. /\ Shape /\ Progress /\ Readings /\ Papers(exec, documents) /\ DocumentsChange
  BY PapersHold DEF Everything
<1>2. CASE Judging
  BY <1>2, CheckSomeJudged, CheckRestJudged, EscalateJudged, ReadAnswerJudged DEF Judging
<1>3. CASE ~Judging
  <2>1. Judged(exec, documents')
    BY <1>1, <1>3, JudgedStays
  <2>2. CASE exec' = exec
    BY <2>1, <2>2
  <2>3. CASE exec' = Idle
    BY <2>3 DEF Judged, Idle
  <2>4. CASE Execute
    <3>1. CASE LeaveOut \/ SkipStep \/ StartStep
      <4>1. documents' = documents
        BY <3>1 DEF LeaveOut, SkipStep, StartStep
      <4> QED  BY <2>1, <3>1, <4>1, BetweenStepsJudged
    <3>2. CASE StopCancelled \/ Finish
      BY <2>3, <3>2 DEF StopCancelled, Finish
    <3> QED
      BY <1>3, <2>1, <2>4, <3>1, <3>2, ListJudged, ReadFileJudged, WriteJudged, StepDoneJudged
      DEF Execute, Judging
  <2>5. CASE RetryStep \/ PassOver
    <3>1. documents' = documents
      BY <2>5 DEF RetryStep, PassOver
    <3> QED  BY <2>1, <2>5, <3>1, FaultsJudged
  <2>6. CASE StepFails \/ Interrupt
    BY <2>3, <2>6 DEF StepFails, Interrupt, BreakOff
  <2>7. ASSUME NEW i \in Invoices, Arrive(i) \/ Upload(i) PROVE Judged(exec', documents')
    BY <2>2, <2>7 DEF Arrive, Upload
  <2>8. ASSUME NEW r \in Runs, CreateRun(r) \/ CancelRun(r) PROVE Judged(exec', documents')
    BY <2>2, <2>8 DEF CreateRun, CancelRun
  <2>9. ASSUME NEW r \in Runs, Begin(r) PROVE Judged(exec', documents')
    BY <2>9, BeginJudged
  <2>10. ASSUME NEW d \in Known, NEW accept \in BOOLEAN, Resolve(d, accept)
         PROVE  Judged(exec', documents')
    BY <2>2, <2>10 DEF Resolve
  <2>11. CASE UNCHANGED vars
    BY <2>2, <2>11 DEF vars
  <2> QED  BY <2>4, <2>5, <2>6, <2>7, <2>8, <2>9, <2>10, <2>11 DEF Next
<1> QED  BY <1>2, <1>3

JudgedInv == Everything /\ Judged(exec, documents)

\* A workbook is saved with what passed only.
LEMMA WritingIsJudged ==
    ASSUME WritesWhatPassed, JudgedInv, [Next]_vars
    PROVE  \A r \in Runs : books'[r] # books[r] =>
                \A d \in ToSet(Last(books'[r])) :
                    documents[d].status = "ok" /\ (exec.resume => documents[d].accepted)
<1>1. /\ Shape /\ Progress /\ Papers(exec, documents) /\ Shelf /\ Judged(exec, documents)
      /\ BooksChange
  BY BooksMove DEF JudgedInv, Everything
<1>2. CASE books' = books
  BY <1>2
<1>3. CASE /\ AppendRows
           /\ books' = [books EXCEPT ![exec.run] = Append(books[exec.run], Input(Key))]
  <2>1. exec.place = "tool" /\ exec.place \in InStep /\ Workflow.tool[Key] = "write"
    BY <1>3 DEF AppendRows, InTool, InStep
  <2>2. /\ exec.run \in Runs /\ exec.run # None /\ Key = Order[exec.index] /\ Key \in Keys
        /\ Sound(exec, documents)
    BY <1>1, <2>1, AtWork, KeyIsAKey
  <2>3. Input(Key) = exec.memory.passed
    BY <2>1, <2>2 DEF Input, WritesWhatPassed
  <2>4. exec.memory.passed \in Seq(Nat) /\ books[exec.run] \in Seq(Seq(Nat))
    BY <1>1, <2>2, MemoryFields DEF Sound, Shelf
  <2>5. /\ \A r \in Runs \ {exec.run} : books'[r] = books[r]
        /\ books'[exec.run] = Append(books[exec.run], exec.memory.passed)
    BY <1>1, <1>3, <2>2, <2>3 DEF Shelf
  <2>6. Last(Append(books[exec.run], exec.memory.passed)) = exec.memory.passed
    BY <2>4 DEF Last
  <2>7. ~InCheck(exec)
    BY <2>1 DEF InCheck, Key
  <2> QED  BY <1>1, <2>2, <2>5, <2>6, <2>7 DEF Judged, Fine
<1> QED  BY <1>1, <1>2, <1>3 DEF BooksChange

\* When a workbook is saved, every invoice in it is ok, and after a review
\* somebody accepted each of them, if the workflow writes what passed its check.
THEOREM WorkbooksHoldAcceptedInvoices ==
    ASSUME WritesWhatPassed
    PROVE  Spec => WrittenAreAccepted
<1>1. Init => JudgedInv
  BY InitIsInOrder DEF JudgedInv, Init, Judged, Idle
<1>2. JudgedInv /\ [Next]_vars => JudgedInv'
  BY EverythingHolds, JudgedHolds DEF JudgedInv
<1>3. JudgedInv /\ [Next]_vars =>
        [\A r \in Runs : books'[r] # books[r] =>
            \A d \in ToSet(Last(books'[r])) :
                documents[d].status = "ok" /\ (exec.resume => documents[d].accepted)]_vars
  BY WritingIsJudged
<1> QED  BY <1>1, <1>2, <1>3, PTL DEF Spec, WrittenAreAccepted

-----------------------------------------------------------------------------
(* How the thread moves. *)

\* Within a step: what the step got stays as it is.
StepGoesOn ==
    /\ exec.run # None /\ exec.index \in 1 .. Len(Order) /\ exec'.place \in InStep
    /\ Rest({"place", "attempt", "todo", "reading", "out", "seen"})
    /\ \/ StartStep /\ exec.place = "start" /\ exec'.todo = 1 /\ exec'.place = "tool"
       \/ RetryStep /\ exec.place \in InStep /\ exec'.todo = 1 /\ exec'.place = "tool"
       \/ /\ ReadFile \/ ReadAnswer \/ CheckSome \/ AppendRows \/ Escalate
          /\ exec.place \in InStep

\* From a step to the next one.
StepIsOver ==
    /\ exec.run # None /\ exec.index \in 1 .. Len(Order)
    /\ exec'.place = "start" /\ exec'.index = exec.index + 1
    /\ Rest({"index", "place", "outcome", "memory", "out", "seen"})
    /\ \/ /\ LeaveOut /\ exec.resume /\ Key \notin PassBranch /\ exec.place = "start"
          /\ exec'.outcome = [exec.outcome EXCEPT ![Key] = step[exec.run][Key]]
          /\ exec'.memory = exec.memory
       \/ /\ SkipStep /\ exec.place = "start"
          /\ exec'.outcome = [exec.outcome EXCEPT ![Key] = "SKIPPED"]
          /\ exec'.memory = exec.memory
       \/ /\ PassOver /\ exec.place \in InStep
          /\ exec'.outcome = [exec.outcome EXCEPT ![Key] = "FAILED_SKIPPED"]
          /\ exec'.memory = exec.memory
       \/ /\ ListNewFiles \/ CheckRest \/ StepDone
          /\ exec.place \in InStep
          /\ exec'.outcome = [exec.outcome EXCEPT ![Key] = "SUCCEEDED"]

ThreadMoves ==
    \/ exec' = exec
    \/ exec' = Idle
    \/ \E r \in Runs : Begin(r)
    \/ StepGoesOn
    \/ StepIsOver

LEMMA GoingOn ==
    ASSUME Shape, Progress, Readings, Papers(exec, documents),
           \/ StartStep \/ RetryStep \/ ReadFile \/ ReadAnswer \/ CheckSome \/ AppendRows
           \/ Escalate
    PROVE  StepGoesOn
<1>1. CASE StartStep
  <2>1. exec.place = "start" /\ exec.index \in 1 .. Len(Order) /\ exec.run # None
    BY <1>1, OrderIsFinite DEF StartStep, AtStart, Shape, Progress, PassInv
  <2>2. /\ Rest({"place", "attempt", "todo", "out"}) /\ exec'.place = "tool" /\ exec'.todo = 1
    BY <1>1, StartStepDoes
  <2> QED  BY <1>1, <2>1, <2>2 DEF StepGoesOn, Rest, InStep
<1>2. ASSUME exec.place \in InStep
      PROVE  exec.run # None /\ exec.index \in 1 .. Len(Order)
  BY <1>2, AtWork
<1>3. CASE RetryStep
  <2>1. exec.place \in InStep
    BY <1>3 DEF RetryStep, InStep
  <2>2. /\ Rest({"place", "attempt", "todo", "out", "seen"}) /\ exec'.place = "tool"
        /\ exec'.todo = 1
    BY <1>3, RetryStepDoes
  <2> QED  BY <1>2, <1>3, <2>1, <2>2 DEF StepGoesOn, Rest, InStep
<1>4. CASE ReadFile
  <2>1. exec.place \in InStep /\ exec.place = "tool"
    BY Zenon, <1>4 DEF ReadFile, InTool, InStep
  <2>2. /\ Rest({"place", "attempt", "todo", "reading", "out", "seen"})
        /\ exec'.place \in InStep
    BY <1>4, <2>1, FileIsLookedAt DEF ReadFileDoes, Rest, InStep, ExecFields
  <2> QED  BY <1>2, <1>4, <2>1, <2>2 DEF StepGoesOn
<1>5. CASE ReadAnswer
  <2>1. exec.place \in InStep
    BY <1>5 DEF ReadAnswer, InStep
  <2>2. /\ Rest({"place", "attempt", "todo", "reading", "out", "seen"})
        /\ exec'.place \in InStep
    BY <1>5, AnswerIsUsed DEF ReadAnswerDoes, Rest, InStep, ExecFields
  <2> QED  BY <1>2, <1>5, <2>1, <2>2 DEF StepGoesOn
<1>6. CASE CheckSome
  <2>1. InTool("check") /\ exec.place \in InStep /\ exec.place = "tool"
    BY <1>6 DEF CheckSome, InTool, InStep
  <2>2. exec.out \in Memory
    BY <2>1, Checking
  <2>3. \E n : Rest({"todo", "seen", "out"}) /\ CheckSomeDoes(n)
    BY <1>6, <2>2, SomeAreChecked DEF CheckSomeDoes
  <2>4. /\ Rest({"place", "attempt", "todo", "reading", "out", "seen"})
        /\ exec'.place = exec.place
    BY <2>3 DEF Rest, ExecFields
  <2> QED  BY <1>2, <1>6, <2>1, <2>4 DEF StepGoesOn
<1>7. CASE AppendRows
  <2>1. exec.place \in InStep
    BY <1>7 DEF AppendRows, InTool, InStep
  <2>2. /\ Rest({"place", "attempt", "todo", "reading", "out", "seen"})
        /\ exec'.place \in InStep
    BY <1>7, AppendRowsDoes DEF Rest, InStep
  <2> QED  BY <1>2, <1>7, <2>1, <2>2 DEF StepGoesOn
<1>8. CASE Escalate
  <2>1. exec.place \in InStep /\ exec.place = "tool" /\ Workflow.tool[Key] = "escalate"
    BY <1>8 DEF Escalate, InTool, InStep
  <2>2. /\ Sound(exec, documents) /\ InTheTool(exec, documents) /\ Key = Order[exec.index]
    BY <2>1, AtWork
  <2>3. DOMAIN exec.out = DOMAIN NoMemory
    BY <2>1, <2>2, MemoryFields, NoMemoryIsEmpty DEF InTheTool, Sound
  <2>4. /\ Rest({"place", "attempt", "todo", "reading", "out", "seen"})
        /\ exec'.place \in InStep
    BY <1>8, <2>3, EscalateDoes DEF Rest, InStep
  <2> QED  BY <1>2, <1>8, <2>1, <2>4 DEF StepGoesOn
<1> QED  BY <1>1, <1>3, <1>4, <1>5, <1>6, <1>7, <1>8

LEMMA GoingOver ==
    ASSUME Shape, Progress, Readings, Papers(exec, documents),
           LeaveOut \/ SkipStep \/ PassOver \/ ListNewFiles \/ CheckRest \/ StepDone
    PROVE  StepIsOver
<1>1. ASSUME AtStart PROVE exec.run # None /\ exec.index \in 1 .. Len(Order)
  BY <1>1, OrderIsFinite DEF AtStart, Shape, Progress, PassInv
<1>2. ASSUME exec.place \in InStep PROVE exec.run # None /\ exec.index \in 1 .. Len(Order)
  BY <1>2, AtWork
<1>3. ASSUME NEW outcome, exec' = NextStep(outcome)
      PROVE  /\ Rest({"index", "place", "outcome", "memory", "out", "seen"})
             /\ exec'.index = exec.index + 1 /\ exec'.place = "start"
             /\ exec'.outcome = [exec.outcome EXCEPT ![Key] = outcome]
             /\ exec'.memory = exec.memory
  BY <1>3, NextStepDoes DEF Rest, ExecFields
<1>4. CASE LeaveOut
  <2>1. AtStart /\ exec' = NextStep(step[exec.run][Key]) /\ Key \notin ResumeKeys
    BY <1>4 DEF LeaveOut
  <2>2. exec.resume /\ Key \notin PassBranch
    BY <1>1, <2>1, KeyIsAKey DEF ResumeKeys
  <2> QED  BY <1>1, <1>3, <1>4, <2>1, <2>2 DEF StepIsOver, AtStart
<1>5. CASE SkipStep
  <2>1. AtStart /\ exec' = NextStep("SKIPPED")
    BY <1>5 DEF SkipStep
  <2> QED  BY <1>1, <1>3, <1>5, <2>1 DEF StepIsOver, AtStart
<1>6. CASE PassOver
  <2>1. exec.place \in InStep
    BY <1>6 DEF PassOver, InStep
  <2>2. /\ Rest({"index", "place", "outcome", "out", "seen"})
        /\ exec'.index = exec.index + 1 /\ exec'.place = "start"
        /\ exec'.outcome = [exec.outcome EXCEPT ![Key] = "FAILED_SKIPPED"]
    BY <1>6, PassOverDoes
  <2>3. /\ Rest({"index", "place", "outcome", "memory", "out", "seen"})
        /\ exec'.memory = exec.memory
    BY <2>2 DEF Rest, ExecFields
  <2> QED  BY <1>2, <1>6, <2>1, <2>2, <2>3 DEF StepIsOver
<1>7. CASE ListNewFiles \/ CheckRest \/ StepDone
  <2>1. exec.place \in InStep
    BY <1>7 DEF ListNewFiles, CheckRest, StepDone, InTool, InStep
  <2>2. \E out, seen : Complete(out, seen)
    BY <1>7 DEF ListNewFiles, CheckRest, StepDone
  <2>3. /\ Rest({"index", "place", "outcome", "memory", "out", "seen"})
        /\ exec'.index = exec.index + 1 /\ exec'.place = "start"
        /\ exec'.outcome = [exec.outcome EXCEPT ![Key] = "SUCCEEDED"]
    BY <2>2, CompleteDoes
  <2> QED  BY <1>2, <1>7, <2>1, <2>3 DEF StepIsOver
<1> QED  BY <1>4, <1>5, <1>6, <1>7

LEMMA TheThreadMoves ==
    ASSUME Everything, [Next]_vars
    PROVE  ThreadMoves
<1>1. /\ Shape /\ Progress /\ Readings /\ Papers(exec, documents)
  BY DEF Everything
<1>2. CASE Execute
  <2>1. CASE Finish \/ StopCancelled
    BY <2>1 DEF Finish, StopCancelled, ThreadMoves
  <2> QED  BY <1>1, <1>2, <2>1, GoingOn, GoingOver DEF Execute, ThreadMoves
<1>3. CASE RetryStep \/ PassOver \/ StepFails \/ Interrupt
  <2>1. CASE StepFails \/ Interrupt
    BY <2>1 DEF StepFails, Interrupt, BreakOff, ThreadMoves
  <2> QED  BY <1>1, <1>3, <2>1, GoingOn, GoingOver DEF ThreadMoves
<1>4. ASSUME NEW i \in Invoices, Arrive(i) \/ Upload(i) PROVE ThreadMoves
  BY <1>4 DEF Arrive, Upload, ThreadMoves
<1>5. ASSUME NEW r \in Runs, CreateRun(r) \/ CancelRun(r) \/ Begin(r) PROVE ThreadMoves
  BY <1>5 DEF CreateRun, CancelRun, ThreadMoves
<1>6. ASSUME NEW d \in Known, NEW accept \in BOOLEAN, Resolve(d, accept) PROVE ThreadMoves
  BY <1>6 DEF Resolve, ThreadMoves
<1>7. CASE UNCHANGED vars
  BY <1>7 DEF vars, ThreadMoves
<1> QED  BY <1>2, <1>3, <1>4, <1>5, <1>6, <1>7 DEF Next

\* Memory at the end of each tool that ends a step.
LEMMA FilesStay ==
    ASSUME Everything, StepIsOver, ~ListNewFiles
    PROVE  exec'.memory.files = exec.memory.files
<1>1. /\ Shape /\ Progress /\ Readings /\ Papers(exec, documents)
  BY DEF Everything
<1>2. CASE exec'.memory = exec.memory
  BY <1>2
<1>3. CASE CheckRest
  <2>1. InTool("check")
    BY <1>3 DEF CheckRest
  <2>2. /\ exec.out \in Memory /\ exec.memory \in Memory /\ CheckedSoFar(exec)
    BY <1>1, <2>1, Checking
  <2>3. \E p, q, seen : Complete([exec.out EXCEPT !.passed = p, !.document_ids = q], seen)
    BY <1>3 DEF CheckRest
  <2>4. \E p, q : exec'.memory = [exec.out EXCEPT !.passed = p, !.document_ids = q]
    <3>1. PICK p, q, seen : Complete([exec.out EXCEPT !.passed = p, !.document_ids = q], seen)
      BY <2>3
    <3>2. exec'.memory = [exec.out EXCEPT !.passed = p, !.document_ids = q]
      BY <1>1, <3>1, CompleteDoes
    <3> QED  BY <3>2
  <2>5. exec.out.files = exec.memory.files
    BY <2>2, MemoryFields DEF CheckedSoFar
  <2> QED  BY <2>2, <2>4, <2>5, MemoryFields
<1>4. CASE StepDone
  <2>1. /\ exec.place \in InStep /\ Complete(exec.out, exec.seen)
        /\ exec.place = "done" \/ InTool("read")
    BY <1>4 DEF StepDone, InStep, InTool
  <2>2. /\ Sound(exec, documents) /\ InTheTool(exec, documents) /\ Key = Order[exec.index]
        /\ exec.memory \in Memory
    BY <1>1, <2>1, AtWork DEF Sound
  <2>3. exec'.memory = exec.out
    BY <1>1, <2>1, CompleteDoes
  <2>4. CASE InTool("read")
    BY <1>1, <2>2, <2>3, <2>4, ReadingAFile, MemoryFields DEF ReadSoFar
  <2>5. CASE exec.place = "done"
    BY <2>2, <2>3, <2>5, MemoryFields DEF InTheTool
  <2> QED  BY <2>1, <2>4, <2>5
<1> QED  BY <1>2, <1>3, <1>4 DEF StepIsOver

-----------------------------------------------------------------------------
(* No file is missed. *)

HasDocument(i, docs) == \E d \in DOMAIN docs : docs[d].invoice = i

\* The files that came from one time to another have documents.
LookedAt(from, upto, times, docs) ==
    \A i \in Invoices : times[i] \in from .. upto => HasDocument(i, docs)

\* The runs a later one takes its since from, and those that may become one of
\* them by a review.
Counted(row) == row.status \in {"succeeded", "needs_review"} \/ row.reviewed

Past(runs, times, docs) ==
    \A r \in Runs : Counted(runs[r]) =>
        runs[r].started # 0 /\ LookedAt(1, runs[r].started, times, docs)

\* At position l of the order the workflow lists the folder, and at position n it
\* reads what was listed; neither step may fail and be skipped.
ReadsAt(l, n) ==
    /\ l \in 1 .. Len(Order) /\ n \in 1 .. Len(Order) /\ l < n
    /\ Workflow.tool[Order[l]] = "list" /\ Parent[Order[l]] = {}
    /\ Workflow.tool[Order[n]] = "read" /\ Parent[Order[n]] = {Order[l]}
    /\ Workflow.onError[Order[l]] # "skip" /\ Workflow.onError[Order[n]] # "skip"

\* A pass that is not one after a review: what it has listed and read.
Listed(l, row, started, times) ==
    row.index > l =>
        /\ row.outcome[Order[l]] = "SUCCEEDED"
        /\ \A i \in Invoices :
            times[i] \in (row.since + 1) .. started => i \in ToSet(row.memory.files)

Reading(row, docs) ==
    row.place \in InStep /\ Workflow.tool[Order[row.index]] = "read" =>
        \A j \in 1 .. (row.todo - 1) : HasDocument(row.memory.files[j], docs)

Toward(l, n, row, started, t, times, docs) ==
    row.run # None =>
        /\ started # 0 /\ row.since \in 0 .. t /\ DOMAIN row.outcome = Keys
        /\ ~row.resume =>
            /\ LookedAt(1, row.since, times, docs)
            /\ Listed(l, row, started, times)
            /\ Reading(row, docs)
            /\ row.index > n => LookedAt(1, started, times, docs)

LEMMA GreatestOrZero ==
    ASSUME NEW L \in Nat, NEW S, S \subseteq 0 .. L
    PROVE  Max({0} \cup S) \in {0} \cup S /\ \A s \in {0} \cup S : s <= Max({0} \cup S)
<1> DEFINE T == {s + 1 : s \in {0} \cup S}
<1>1. T \subseteq 1 .. (L + 1) /\ T # {} /\ L + 1 \in Nat
  OBVIOUS
<1>2. Max(T) \in T /\ \A t \in T : t <= Max(T)
  <2> HIDE DEF T
  <2> QED  BY <1>1, Greatest
<1>3. PICK s \in {0} \cup S : Max(T) = s + 1
  BY <1>2
<1>4. \A t \in {0} \cup S : t + 1 <= s + 1
  BY <1>2, <1>3
<1>5. \A t \in {0} \cup S : t <= s /\ t \in Int /\ s \in Int
  BY <1>4
<1> HIDE DEF T
<1>6. \E x \in {0} \cup S : \A y \in {0} \cup S : x >= y
  BY <1>5
<1>7. Max({0} \cup S) \in {0} \cup S /\ \A y \in {0} \cup S : Max({0} \cup S) >= y
  BY <1>6 DEF Max
<1> QED  BY <1>5, <1>7

\* A document stays, and the files that come are too new to matter.
LEMMA StillLookedAt ==
    ASSUME Rows, ClockChange, DocumentsChange, NEW from \in Nat, NEW upto \in Nat,
           upto <= now, LookedAt(from, upto, mtime, documents)
    PROVE  LookedAt(from, upto, mtime', documents')
<1>1. now \in Nat /\ mtime \in [Invoices -> 0 .. now]
  BY DEF Rows
<1> SUFFICES ASSUME NEW i \in Invoices, mtime'[i] \in from .. upto
             PROVE  HasDocument(i, documents')
  BY DEF LookedAt
<1>2. mtime'[i] = mtime[i] \/ mtime'[i] = now + 1
  BY <1>1 DEF ClockChange
<1>3. mtime[i] \in from .. upto
  BY <1>1, <1>2
<1>4. PICK d \in Known : documents[d].invoice = i
  BY <1>3 DEF LookedAt, HasDocument, Known
<1>5. d \in Known' /\ documents'[d].invoice = i
  BY <1>4, OwnGrows
<1> QED  BY <1>5 DEF HasDocument, Known

\* When a run is started does not change any more, once it was, and only the end
\* of a pass makes it one that counts.
LEMMA RunsAreCounted ==
    ASSUME Shape, Rows, RunsChange, NEW r \in Runs
    PROVE  /\ run[r].started # 0 \/ exec.run # None => run'[r].started = run[r].started
           /\ Counted(run'[r]) => Counted(run[r]) \/ (Finish /\ r = exec.run)
           /\ run[r].reviewed => run'[r].reviewed
<1>1. CASE run'[r] = run[r]
  BY <1>1
<1>2. CASE RunMoves(r, run[r], run'[r])
  <2> DEFINE b == run[r]
             a == run'[r]
  <2>1. b \in RunRow /\ DOMAIN b = RunFields /\ b.reviewed \in BOOLEAN
    BY DEF Rows, Shape, RunRow
  <2>2. ASSUME NEW status, a = [b EXCEPT !.status = status]
        PROVE  a.started = b.started /\ a.reviewed = b.reviewed /\ a.status = status
    BY <2>1, <2>2 DEF RunFields
  <2>3. CASE CreateRun(r) /\ a = [b EXCEPT !.status = "pending"]
    BY <2>2, <2>3 DEF Counted
  <2>4. CASE CancelRun(r) /\ a = [b EXCEPT !.status = "cancelled"]
    BY <2>2, <2>4 DEF Counted
  <2>5. CASE Begin(r) /\ a = [b EXCEPT !.status = "running", !.started = StartedAt(r),
                                        !.attempts = b.attempts + 1]
    <3>1. a.started = StartedAt(r) /\ a.reviewed = b.reviewed /\ a.status = "running"
      BY <2>1, <2>5 DEF RunFields
    <3>2. exec.run = None
      BY <2>5 DEF Begin
    <3> QED  BY <3>1, <3>2 DEF Counted, StartedAt
  <2>6. CASE b.status = "needs_review" /\ a = [b EXCEPT !.status = "succeeded"]
    BY <2>2, <2>6 DEF Counted
  <2>7. CASE b.status = "needs_review" /\ a = Requeued(b)
    <3>1. a.started = b.started /\ a.reviewed = b.reviewed
      BY <2>1, <2>7 DEF RunFields, Requeued
    <3> QED  BY <2>7, <3>1 DEF Counted
  <2>8. CASE Finish /\ r = exec.run /\ a = Finished(b)
    <3>1. a.started = b.started /\ (b.reviewed => a.reviewed)
      BY <2>1, <2>8 DEF RunFields, Finished
    <3> QED  BY <2>8, <3>1
  <2>9. CASE \E status \in {"failed", "retrying"} : a = [b EXCEPT !.status = status]
    BY <2>2, <2>9 DEF Counted
  <2> QED  BY <1>2, <2>3, <2>4, <2>5, <2>6, <2>7, <2>8, <2>9 DEF RunMoves
<1> QED  BY <1>1, <1>2 DEF RunsChange

LEMMA PastHolds ==
    ASSUME NEW l, NEW n, ReadsAt(l, n), Everything, RunsChange, ClockChange, DocumentsChange,
           Past(run, mtime, documents),
           Toward(l, n, exec, run[exec.run].started, now, mtime, documents)
    PROVE  Past(run', mtime', documents')
<1> SUFFICES ASSUME NEW r \in Runs, Counted(run'[r])
             PROVE  run'[r].started # 0 /\ LookedAt(1, run'[r].started, mtime', documents')
  BY DEF Past
<1>1. Shape /\ Progress /\ Rows
  BY DEF Everything
<1>2. run[r].started \in Nat /\ run[r].started <= now
  BY <1>1 DEF Rows, RunRow
<1>3. run[r].started # 0 /\ LookedAt(1, run[r].started, mtime, documents)
  <2>1. CASE Counted(run[r])
    BY <2>1 DEF Past
  <2>2. CASE ~Counted(run[r]) /\ Finish /\ r = exec.run
    <3>1. exec.index > Len(Order) /\ r # None /\ exec.run # None
      BY <2>2, RunsAreNotNone DEF Finish
    <3>2. ~exec.resume
      BY <1>1, <2>2, <3>1 DEF Progress, PassInv, Counted
    <3>3. exec.index > n
      BY <1>1, <3>1, OrderIsFinite DEF Shape, ReadsAt
    <3> QED  BY <2>2, <3>1, <3>2, <3>3 DEF Toward
  <2> QED  BY <1>1, <2>1, <2>2, RunsAreCounted
<1>4. run'[r].started = run[r].started
  BY <1>1, <1>3, RunsAreCounted
<1>5. LookedAt(1, run[r].started, mtime', documents')
  BY <1>1, <1>2, <1>3, StillLookedAt
<1> QED  BY <1>3, <1>4, <1>5

\* What is on the way stays so while the thread is in the same step.
LEMMA StillToward ==
    ASSUME NEW l, NEW n, Everything, RunsChange, ClockChange, DocumentsChange,
           exec.run # None,
           Toward(l, n, exec, run[exec.run].started, now, mtime, documents)
    PROVE  LET started == run[exec.run].started IN
           /\ run'[exec.run].started = started /\ started \in Nat /\ started <= now
           /\ started # 0 /\ exec.since \in 0 .. now' /\ DOMAIN exec.outcome = Keys
           /\ exec.since \in Nat
           /\ ~exec.resume =>
                /\ LookedAt(1, exec.since, mtime', documents')
                /\ Listed(l, exec, started, mtime')
                /\ \A j \in 1 .. (exec.todo - 1) :
                    HasDocument(exec.memory.files[j], documents) =>
                        HasDocument(exec.memory.files[j], documents')
                /\ exec.index > n => LookedAt(1, started, mtime', documents')
<1> DEFINE started == run[exec.run].started
<1>1. Shape /\ Progress /\ Rows /\ exec.run \in Runs
  BY DEF Everything, Shape
<1>2. run'[exec.run].started = started
  BY <1>1, RunsAreCounted
<1>3. /\ started \in Nat /\ started <= now /\ now \in Nat
      /\ mtime \in [Invoices -> 0 .. now] /\ now <= now'  /\ now' \in Nat
  BY <1>1 DEF Rows, RunRow, ClockChange
<1>4. started # 0 /\ exec.since \in 0 .. now /\ DOMAIN exec.outcome = Keys
  BY DEF Toward
<1>5. exec.since \in Nat /\ exec.since <= now /\ exec.since \in 0 .. now'
  BY <1>3, <1>4
<1>6. ASSUME ~exec.resume
      PROVE  /\ LookedAt(1, exec.since, mtime', documents')
             /\ exec.index > n => LookedAt(1, started, mtime', documents')
  BY <1>1, <1>3, <1>5, <1>6, StillLookedAt DEF Toward
<1>7. \A i \in Invoices : mtime'[i] = mtime[i] \/ mtime'[i] = now + 1
  BY <1>3 DEF ClockChange
<1>8. ASSUME ~exec.resume PROVE Listed(l, exec, started, mtime')
  <2>1. \A i \in Invoices : mtime'[i] \in (exec.since + 1) .. started =>
            mtime[i] \in (exec.since + 1) .. started
    BY <1>3, <1>7
  <2>2. Listed(l, exec, started, mtime)
    BY <1>8 DEF Toward
  <2> QED  BY <2>1, <2>2 DEF Listed
<1>9. \A i : HasDocument(i, documents) => HasDocument(i, documents')
  BY OwnGrows DEF HasDocument, Known
<1> QED  BY <1>2, <1>3, <1>4, <1>5, <1>6, <1>8, <1>9

LEMMA BeginToward ==
    ASSUME NEW l, NEW n, ReadsAt(l, n), Everything, Past(run, mtime, documents),
           NEW r \in Runs, Begin(r)
    PROVE  Toward(l, n, exec', run'[exec'.run].started, now', mtime', documents')
<1>1. Shape /\ Rows
  BY DEF Everything
<1>2. /\ exec'.run = r /\ exec'.index = 1 /\ exec'.place = "start"
      /\ exec'.outcome = Idle.outcome /\ exec'.since = PreviousSuccess(r)
      /\ mtime' = mtime /\ documents' = documents /\ now' = now + 1
  BY BeginDoes DEF Begin, Tick
<1>3. now \in Nat /\ \A s \in Runs : run[s].started \in 0 .. now
  BY <1>1 DEF Rows, RunRow
<1>4. run'[r].started # 0
  <2>1. run'[r].started = StartedAt(r)
    BY <1>1 DEF Begin, Shape, RunFields
  <2> QED  BY <1>3, <2>1 DEF StartedAt
<1> DEFINE S == {run[s].started :
                    s \in {t \in Runs \ {r} : run[t].status \in {"succeeded", "needs_review"}}}
<1>5. S \subseteq 0 .. now
  BY <1>3
<1>6. PreviousSuccess(r) = Max({0} \cup S)
  BY DEF PreviousSuccess
<1>7. PreviousSuccess(r) \in {0} \cup S
  <2> HIDE DEF S
  <2> QED  BY <1>3, <1>5, <1>6, GreatestOrZero
<1>8. exec'.since \in 0 .. now'
  BY <1>2, <1>3, <1>5, <1>7
<1>9. LookedAt(1, exec'.since, mtime', documents')
  <2>1. CASE exec'.since = 0
    BY <1>2, <2>1 DEF LookedAt
  <2>2. CASE exec'.since \in S
    BY <1>2, <2>2 DEF Past, Counted
  <2> QED  BY <1>2, <1>7, <2>1, <2>2
<1>10. DOMAIN exec'.outcome = Keys
  BY <1>2 DEF Idle
<1>11. Listed(l, exec', run'[exec'.run].started, mtime') /\ Reading(exec', documents')
       /\ ~(exec'.index > n)
  BY <1>2, OrderIsFinite DEF Listed, Reading, InStep, ReadsAt
<1> QED  BY <1>2, <1>4, <1>8, <1>9, <1>10, <1>11 DEF Toward

\* Each turn of the loop that reads leaves a document.
LEMMA FilesAreRead ==
    ASSUME Everything, DocumentsChange, Reading(exec, documents), StepGoesOn
    PROVE  Reading(exec', documents')
<1>1. /\ Shape /\ Progress /\ Readings /\ Papers(exec, documents)
  BY DEF Everything
<1>2. exec'.index = exec.index /\ exec'.memory = exec.memory
  BY DEF StepGoesOn, Rest, ExecFields
<1> DEFINE files == exec.memory.files
<1>3. \A i : HasDocument(i, documents) => HasDocument(i, documents')
  BY OwnGrows DEF HasDocument, Known
<1> SUFFICES ASSUME Workflow.tool[Order[exec.index]] = "read",
                    NEW j \in 1 .. (exec'.todo - 1)
             PROVE  HasDocument(files[j], documents')
  BY <1>2 DEF Reading
<1>4. CASE exec'.todo = 1
  BY <1>4
<1>5. CASE exec.place \in InStep /\ exec'.todo = exec.todo
  BY <1>3, <1>5 DEF Reading
<1>6. CASE ReadFile /\ exec'.todo # exec.todo
  <2>1. InTool("read") /\ exec.place \in InStep
    BY Zenon, <1>6 DEF ReadFile, InTool, InStep
  <2>2. exec'.todo = exec.todo + 1 /\ ThisDocument \in Known
    BY <1>1, <1>6, FileIsLookedAt DEF ReadFileDoes, Rest, ExecFields
  <2>3. exec.todo \in Nat \ {0}
    BY <1>1, <2>1, ReadingAFile
  <2>4. DocumentsOf(ThisFile) # {}
    BY <1>1, <2>2 DEF ThisDocument, Readings, Known
  <2>5. HasDocument(files[exec.todo], documents)
    BY <2>4 DEF HasDocument, DocumentsOf, ThisFile, Known
  <2>6. j = exec.todo \/ j \in 1 .. (exec.todo - 1)
    BY <2>2, <2>3
  <2> QED  BY <1>3, <2>1, <2>5, <2>6 DEF Reading
<1>7. CASE ReadAnswer
  <2>1. exec.place = "answer" /\ exec.place \in InStep
    BY <1>7 DEF ReadAnswer, InStep
  <2>2. exec'.todo = exec.todo + 1 /\ exec.reading \in Known
    BY <1>1, <1>7, AnswerIsUsed DEF ReadAnswerDoes
  <2>3. InTheTool(exec, documents)
    BY <1>1, <2>1, AtWork
  <2>4. exec.todo \in Nat \ {0} /\ ReadSoFar(exec, documents)
    BY <2>3 DEF InTheTool
  <2>5. HasDocument(files[exec.todo], documents)
    BY <2>1, <2>2, <2>4 DEF HasDocument, ReadSoFar, Known
  <2>6. j = exec.todo \/ j \in 1 .. (exec.todo - 1)
    BY <2>2, <2>4
  <2> QED  BY <1>3, <2>1, <2>5, <2>6 DEF Reading
<1>8. CASE CheckSome \/ AppendRows \/ Escalate
  BY <1>8 DEF CheckSome, AppendRows, Escalate, InTool, Key
<1> QED  BY <1>4, <1>5, <1>6, <1>7, <1>8 DEF StepGoesOn

\* A step that lists, and waits for nothing, ends in one way.
LEMMA ListingEnds ==
    ASSUME Everything, StepIsOver, ~exec.resume, Workflow.tool[Key] = "list",
           Parent[Key] = {}, Workflow.onError[Key] # "skip"
    PROVE  ListNewFiles /\ exec'.outcome = [exec.outcome EXCEPT ![Key] = "SUCCEEDED"]
<1>1. /\ Shape /\ Progress /\ Readings /\ Papers(exec, documents)
  BY DEF Everything
<1>2. ~SkipStep
  BY DEF SkipStep, ParentsDone, HasInput
<1>3. ~PassOver
  BY DEF PassOver
<1>4. ~CheckRest
  BY DEF CheckRest, InTool
<1>5. ~StepDone
  <2>1. CASE exec.place = "done"
    <3>1. InTheTool(exec, documents) /\ Key = Order[exec.index]
      BY <1>1, <2>1, AtWork DEF InStep
    <3> QED  BY <2>1, <3>1 DEF InTheTool
  <2> QED  BY <2>1 DEF StepDone, InTool
<1> QED  BY <1>2, <1>3, <1>4, <1>5 DEF StepIsOver

\* What a step that lists leaves to read.
LEMMA NewFilesAreListed ==
    ASSUME Everything, ListNewFiles
    PROVE  /\ ToSet(exec'.memory.files) = NewFiles
           /\ exec'.memory.document_ids = exec.memory.document_ids
           /\ exec'.memory.passed = exec.memory.passed
           /\ exec'.memory.review = exec.memory.review
<1>1. /\ Shape /\ Progress /\ Readings /\ Papers(exec, documents) /\ Rows
  BY DEF Everything
<1>2. exec.place \in InStep /\ exec.place = "tool" /\ Workflow.tool[Key] = "list"
  BY DEF ListNewFiles, InTool, InStep
<1>3. InTheTool(exec, documents) /\ Key = Order[exec.index] /\ exec.memory \in Memory
  BY <1>1, <1>2, AtWork DEF Sound
<1>4. exec.out = exec.memory
  BY <1>2, <1>3 DEF InTheTool
<1>5. exec'.memory = [exec.memory EXCEPT !.files = Ascending(NewFiles)]
  BY <1>1, <1>4, CompleteDoes DEF ListNewFiles
<1>6. /\ exec'.memory.files = Ascending(NewFiles)
      /\ exec'.memory.document_ids = exec.memory.document_ids
      /\ exec'.memory.passed = exec.memory.passed
      /\ exec'.memory.review = exec.memory.review
  BY <1>3, <1>5, MemoryFields
<1>7. NewFiles \subseteq Nat /\ IsFiniteSet(NewFiles)
  BY ExecutionAssumption, FS_Subset DEF NewFiles
<1>8. ToSet(Ascending(NewFiles)) = NewFiles
  BY <1>7, Ascended
<1> QED  BY <1>6, <1>8

LEMMA FilesAreListed ==
    ASSUME NEW l, NEW n, ReadsAt(l, n), Everything, StepIsOver, NEW started \in Nat,
           exec.since \in Nat, DOMAIN exec.outcome = Keys, ~exec.resume,
           Listed(l, exec, started, mtime)
    PROVE  Listed(l, exec', started, mtime)
<1>1. /\ Shape /\ Progress /\ Readings /\ Papers(exec, documents) /\ Rows
  BY DEF Everything
<1>2. /\ exec'.index = exec.index + 1 /\ exec'.since = exec.since
      /\ exec.index \in 1 .. Len(Order) /\ Key \in Keys
  BY KeyIsAKey DEF StepIsOver, Rest, ExecFields
<1>3. \A i \in Invoices : mtime[i] \in Nat
  BY <1>1 DEF Rows
<1> SUFFICES ASSUME exec'.index > l
             PROVE  /\ exec'.outcome[Order[l]] = "SUCCEEDED"
                    /\ \A i \in Invoices : mtime[i] \in (exec.since + 1) .. started =>
                            i \in ToSet(exec'.memory.files)
  BY <1>2 DEF Listed
<1>4. ASSUME ListNewFiles, NEW i \in Invoices, mtime[i] \in (exec.since + 1) .. started
      PROVE  i \in ToSet(exec'.memory.files)
  <2>1. i \in NewFiles
    BY <1>3, <1>4 DEF NewFiles
  <2> QED  BY <1>4, <2>1, NewFilesAreListed
<1>5. CASE Key = Order[l]
  <2>1. ListNewFiles /\ exec'.outcome = [exec.outcome EXCEPT ![Key] = "SUCCEEDED"]
    BY <1>5, ListingEnds DEF ReadsAt
  <2> QED  BY <1>2, <1>4, <1>5, <2>1
<1>6. CASE Key # Order[l]
  <2>1. exec.index > l
    <3>1. exec.index # l
      BY <1>6 DEF Key
    <3> QED  BY <1>2, <3>1 DEF ReadsAt
  <2>2. /\ exec.outcome[Order[l]] = "SUCCEEDED"
        /\ \A i \in Invoices : mtime[i] \in (exec.since + 1) .. started =>
                i \in ToSet(exec.memory.files)
    BY <2>1 DEF Listed
  <2>3. exec'.outcome[Order[l]] = "SUCCEEDED"
    <3>1. \E outcome : exec'.outcome = [exec.outcome EXCEPT ![Key] = outcome]
      BY DEF StepIsOver
    <3>2. Order[l] \in Keys
      BY DEF ReadsAt, Keys
    <3> QED  BY <1>6, <2>2, <3>1, <3>2
  <2>4. CASE ListNewFiles
    BY <1>4, <2>3, <2>4
  <2>5. CASE ~ListNewFiles
    BY <2>2, <2>3, <2>5, FilesStay
  <2> QED  BY <2>4, <2>5
<1> QED  BY <1>5, <1>6

\* A step that reads what was listed ends at the end of the list.
LEMMA ReadEnds ==
    ASSUME NEW l, NEW n, ReadsAt(l, n), Everything, StepIsOver, ~exec.resume,
           exec.index = n, exec.outcome[Order[l]] = "SUCCEEDED"
    PROVE  \/ SkipStep /\ exec.memory.files = << >>
           \/ StepDone /\ InTool("read") /\ exec.todo > Len(exec.memory.files)
<1>1. /\ Shape /\ Progress /\ Readings /\ Papers(exec, documents)
  BY DEF Everything
<1>2. /\ Workflow.tool[Key] = "read" /\ Parent[Key] = {Order[l]} /\ Key = Order[exec.index]
      /\ Workflow.onError[Key] # "skip"
  BY DEF ReadsAt, Key
<1>3. CASE SkipStep
  <2>1. ParentsDone(Key)
    BY <1>2 DEF ParentsDone, OK_OUTCOMES
  <2> QED  BY <1>2, <1>3, <2>1 DEF SkipStep, HasInput, Input
<1>4. CASE StepDone
  <2>1. CASE exec.place = "done"
    <3>1. InTheTool(exec, documents)
      BY <1>1, <2>1, AtWork DEF InStep
    <3> QED  BY <1>2, <2>1, <3>1 DEF InTheTool
  <2> QED  BY <1>4, <2>1 DEF StepDone
<1>5. ~PassOver /\ ~ListNewFiles /\ ~CheckRest /\ ~LeaveOut
  BY <1>2 DEF PassOver, ListNewFiles, CheckRest, InTool, LeaveOut, ResumeKeys, Keys, StepIsOver
<1> QED  BY <1>3, <1>4, <1>5 DEF StepIsOver

\* Behind the step that reads, every file that counts has been looked at.
LEMMA ReadingEnds ==
    ASSUME NEW l, NEW n, ReadsAt(l, n), Everything, StepIsOver, NEW started \in Nat,
           exec.since \in Nat, ~exec.resume, exec.index = n,
           Listed(l, exec, started, mtime), Reading(exec, documents),
           LookedAt(1, exec.since, mtime, documents)
    PROVE  LookedAt(1, started, mtime, documents)
<1>1. /\ Shape /\ Progress /\ Readings /\ Papers(exec, documents) /\ Rows
  BY DEF Everything
<1>2. /\ exec.index > l /\ exec.run # None /\ exec.memory \in Memory
  BY <1>1 DEF ReadsAt, Papers, Sound, StepIsOver
<1>3. /\ exec.outcome[Order[l]] = "SUCCEEDED"
      /\ \A i \in Invoices : mtime[i] \in (exec.since + 1) .. started =>
            i \in ToSet(exec.memory.files)
  BY <1>2 DEF Listed
<1> DEFINE files == exec.memory.files
<1>4. files \in Seq(Invoices) /\ Len(files) \in Nat /\ DOMAIN files = 1 .. Len(files)
  BY <1>2, MemoryFields
<1>5. \A i \in ToSet(files) : \E j \in 1 .. Len(files) : i = files[j]
  BY <1>4 DEF ToSet
<1>6. \A i \in ToSet(files) : HasDocument(i, documents)
  <2>1. CASE files = << >>
    BY <2>1, EmptySequence DEF ToSet
  <2>2. CASE InTool("read") /\ exec.todo > Len(files)
    <3>1. exec.todo \in Nat
      BY <1>1, <2>2, ReadingAFile
    <3>2. \A j \in 1 .. (exec.todo - 1) : HasDocument(files[j], documents)
      BY <2>2 DEF Reading, InTool, InStep, Key
    <3>3. \A j \in 1 .. Len(files) : j \in 1 .. (exec.todo - 1)
      BY <1>4, <2>2, <3>1
    <3> QED  BY <1>5, <3>2, <3>3
  <2> QED  BY <1>3, <2>1, <2>2, ReadEnds
<1>7. \A i \in Invoices : mtime[i] \in Nat
  BY <1>1 DEF Rows
<1>8. ASSUME NEW i \in Invoices, mtime[i] \in 1 .. started PROVE HasDocument(i, documents)
  <2>1. mtime[i] \in 1 .. exec.since \/ mtime[i] \in (exec.since + 1) .. started
    BY <1>7, <1>8
  <2> QED  BY <1>3, <1>6, <2>1 DEF LookedAt
<1> QED  BY <1>8 DEF LookedAt

LEMMA StepLeavesFiles ==
    ASSUME Shape, StepIsOver, ClockChange
    PROVE  mtime' = mtime
<1>1. exec'.index # exec.index
  BY DEF StepIsOver, Shape
<1>2. exec' # exec
  BY <1>1
<1> QED  BY <1>2 DEF ClockChange

LEMMA StepOverToward ==
    ASSUME NEW l, NEW n, ReadsAt(l, n), Everything, RunsChange, ClockChange, DocumentsChange,
           StepIsOver, Toward(l, n, exec, run[exec.run].started, now, mtime, documents)
    PROVE  Toward(l, n, exec', run'[exec'.run].started, now', mtime', documents')
<1> DEFINE started == run[exec.run].started
<1>1. Shape /\ Rows /\ exec.run # None
  BY DEF Everything, StepIsOver
<1>2. /\ exec'.index = exec.index + 1 /\ exec'.run = exec.run /\ exec'.resume = exec.resume
      /\ exec'.since = exec.since /\ exec'.place = "start"
  BY DEF StepIsOver, Rest, ExecFields
<1>3. mtime' = mtime
  BY <1>1, StepLeavesFiles
<1>4. /\ run'[exec.run].started = started /\ started \in Nat /\ started <= now
      /\ started # 0 /\ exec.since \in 0 .. now' /\ DOMAIN exec.outcome = Keys
      /\ exec.since \in Nat
  BY <1>1, StillToward
<1>5. DOMAIN exec'.outcome = Keys
  BY <1>4 DEF StepIsOver
<1>6. ASSUME ~exec.resume
      PROVE  /\ LookedAt(1, exec.since, mtime', documents')
             /\ Listed(l, exec', started, mtime')
             /\ exec'.index > n => LookedAt(1, started, mtime', documents')
  <2>1. /\ LookedAt(1, exec.since, mtime, documents) /\ Listed(l, exec, started, mtime)
        /\ Reading(exec, documents)
        /\ exec.index > n => LookedAt(1, started, mtime, documents)
    BY <1>1, <1>6 DEF Toward
  <2>2. LookedAt(1, exec.since, mtime', documents')
    BY <1>1, <1>6, StillToward
  <2>3. Listed(l, exec', started, mtime)
    BY <1>4, <1>6, <2>1, FilesAreListed
  <2>4. ASSUME exec'.index > n PROVE LookedAt(1, started, mtime', documents')
    <3>1. exec.index = n \/ exec.index > n
      BY <1>1, <1>2, <2>4 DEF Shape, ReadsAt
    <3>2. LookedAt(1, started, mtime, documents)
      BY <1>4, <1>6, <2>1, <3>1, ReadingEnds
    <3> QED  BY <1>1, <1>4, <3>2, StillLookedAt
  <2> QED  BY <1>3, <2>2, <2>3, <2>4
<1>7. Reading(exec', documents')
  BY <1>2 DEF Reading, InStep
<1> QED  BY <1>2, <1>4, <1>5, <1>6, <1>7 DEF Toward

LEMMA GoingOnToward ==
    ASSUME NEW l, NEW n, Everything, RunsChange, ClockChange, DocumentsChange,
           StepGoesOn \/ (exec' = exec /\ exec.run # None),
           Toward(l, n, exec, run[exec.run].started, now, mtime, documents)
    PROVE  Toward(l, n, exec', run'[exec'.run].started, now', mtime', documents')
<1> DEFINE started == run[exec.run].started
<1>1. exec.run # None
  BY DEF StepGoesOn
<1>2. /\ exec'.index = exec.index /\ exec'.run = exec.run /\ exec'.resume = exec.resume
      /\ exec'.since = exec.since /\ exec'.memory = exec.memory
      /\ exec'.outcome = exec.outcome
  BY DEF StepGoesOn, Rest, ExecFields
<1>3. /\ run'[exec.run].started = started
      /\ started # 0 /\ exec.since \in 0 .. now' /\ DOMAIN exec.outcome = Keys
  BY <1>1, StillToward
<1>4. ASSUME ~exec.resume
      PROVE  /\ LookedAt(1, exec.since, mtime', documents')
             /\ Listed(l, exec, started, mtime')
             /\ Reading(exec', documents')
             /\ exec.index > n => LookedAt(1, started, mtime', documents')
  <2>1. Reading(exec, documents)
    BY <1>1, <1>4 DEF Toward
  <2>2. Reading(exec', documents')
    <3>1. CASE StepGoesOn
      BY <2>1, <3>1, FilesAreRead
    <3>2. CASE exec' = exec
      BY <1>1, <1>4, <2>1, <3>2, StillToward DEF Reading
    <3> QED  BY <3>1, <3>2
  <2> QED  BY <1>1, <1>4, <2>2, StillToward
<1>5. Listed(l, exec, started, mtime') => Listed(l, exec', started, mtime')
  BY <1>2 DEF Listed
<1> QED  BY <1>2, <1>3, <1>4, <1>5 DEF Toward

FolderInv(l, n) ==
    /\ Everything
    /\ Past(run, mtime, documents)
    /\ Toward(l, n, exec, run[exec.run].started, now, mtime, documents)

LEMMA FolderHolds ==
    ASSUME NEW l, NEW n, ReadsAt(l, n), FolderInv(l, n), [Next]_vars
    PROVE  /\ Everything' /\ Past(run', mtime', documents')
           /\ Toward(l, n, exec', run'[exec'.run].started, now', mtime', documents')
<1>1. /\ Everything /\ Past(run, mtime, documents)
      /\ Toward(l, n, exec, run[exec.run].started, now, mtime, documents)
  BY DEF FolderInv
<1>2. Everything'
  BY <1>1, EverythingHolds
<1>3. RunsChange /\ ClockChange /\ DocumentsChange
  BY <1>1, RunsMove, ClockTicks, PapersHold DEF Everything, Rows
<1>4. Past(run', mtime', documents')
  BY <1>1, <1>3, PastHolds
<1>5. Toward(l, n, exec', run'[exec'.run].started, now', mtime', documents')
  <2>1. CASE exec'.run = None
    BY <2>1 DEF Toward
  <2>2. CASE exec' = exec /\ exec.run # None
    BY <1>1, <1>3, <2>2, GoingOnToward
  <2>3. CASE StepGoesOn
    BY <1>1, <1>3, <2>3, GoingOnToward
  <2>4. CASE StepIsOver
    BY <1>1, <1>3, <2>4, StepOverToward
  <2>5. ASSUME NEW r \in Runs, Begin(r)
        PROVE  Toward(l, n, exec', run'[exec'.run].started, now', mtime', documents')
    BY <1>1, <2>5, BeginToward
  <2> QED  BY <1>1, <2>1, <2>2, <2>3, <2>4, <2>5, TheThreadMoves, IdlePass DEF ThreadMoves
<1> QED  BY <1>2, <1>4, <1>5

LEMMA FolderIsRead ==
    ASSUME NEW l, NEW n, FolderInv(l, n)
    PROVE  NoFileMissed
<1> DEFINE S == {run[r].started : r \in
                    {s \in Runs : run[s].status \in {"succeeded", "needs_review"}}}
           cutoff == Max({0} \cup S)
<1>1. Everything /\ Rows /\ Past(run, mtime, documents)
  BY DEF FolderInv, Everything
<1>2. now \in Nat /\ S \subseteq 0 .. now
  BY <1>1 DEF Rows, RunRow
<1>3. cutoff \in {0} \cup S
  <2> HIDE DEF S
  <2> QED  BY <1>2, GreatestOrZero
<1> SUFFICES ASSUME NEW i \in Invoices, mtime[i] \in 1 .. cutoff
             PROVE  DocumentsOf(i) # {}
  BY DEF NoFileMissed
<1>4. cutoff \in S
  BY <1>3
<1>5. PICK r \in Runs : run[r].status \in {"succeeded", "needs_review"}
                        /\ cutoff = run[r].started
  BY <1>4
<1>6. HasDocument(i, documents)
  <2>1. LookedAt(1, run[r].started, mtime, documents)
    BY <1>1, <1>5 DEF Past, Counted
  <2> QED  BY <1>5, <2>1 DEF LookedAt
<1> QED  BY <1>6 DEF HasDocument, DocumentsOf, Known

\* The workflow lists its folder in a step that waits for nothing, reads the list
\* in one that waits for the first only, and skips neither of them when it fails.
ReadsItsFolder == \E l, n \in 1 .. Len(Order) : ReadsAt(l, n)

\* What is older than the start of a run that succeeded, and so not listed again,
\* has a document, if the workflow reads its folder.
THEOREM NothingInTheFolderIsMissed ==
    ASSUME ReadsItsFolder
    PROVE  Spec => []NoFileMissed
<1>1. PICK l, n \in 1 .. Len(Order) : ReadsAt(l, n)
  BY DEF ReadsItsFolder
<1>2. Init => FolderInv(l, n)
  BY InitIsInOrder DEF FolderInv, Init, Past, Counted, Toward, Idle
<1>3. FolderInv(l, n) /\ [Next]_vars => FolderInv(l, n)'
  BY <1>1, FolderHolds DEF FolderInv
<1>4. FolderInv(l, n) => NoFileMissed
  BY FolderIsRead
<1> QED  BY <1>2, <1>3, <1>4, PTL DEF Spec

-----------------------------------------------------------------------------
(* Nothing is forgotten. *)

\* The workflow is one of those the templates make: one step lists the folder, the
\* next reads the list, the next checks all that was read, and one behind the pass
\* edge writes.  None of the four may fail and be skipped.
TemplateAt(l, rd, c, w) ==
    /\ ReadsAt(l, rd) /\ c \in 1 .. Len(Order) /\ w \in 1 .. Len(Order) /\ rd < c /\ c < w
    /\ \A n \in 1 .. Len(Order) :
        /\ Workflow.tool[Order[n]] = "list" => n = l
        /\ Workflow.tool[Order[n]] = "read" => n = rd
        /\ Workflow.tool[Order[n]] = "check" => n = c
    /\ Workflow.tool[Order[c]] = "check" /\ Parent[Order[c]] = {Order[rd]}
    /\ Condition(Order[c]) = "none"
    /\ Workflow.tool[Order[w]] = "write" /\ Parent[Order[w]] = {Order[c]}
    /\ Workflow.onError[Order[c]] # "skip" /\ Workflow.onError[Order[w]] # "skip"
    /\ Order[l] \notin PassBranch /\ Order[rd] \notin PassBranch
    /\ Order[c] \notin PassBranch /\ Order[w] \in PassBranch

Turn == Everything /\ [Next]_vars

LEMMA TurnChanges ==
    ASSUME Turn
    PROVE  /\ Shape /\ Progress /\ Readings /\ Papers(exec, documents) /\ Rows /\ Filing /\ Shelf
           /\ RunsChange /\ ClockChange /\ DocumentsChange /\ ThreadMoves /\ BooksChange
           /\ Shape' /\ Progress' /\ Readings' /\ Rows' /\ Filing'
<1>1. Everything'
  BY EverythingHolds DEF Turn
<1>2. RunsChange /\ ClockChange /\ DocumentsChange /\ ThreadMoves /\ BooksChange
  BY RunsMove, ClockTicks, PapersHold, TheThreadMoves, BooksMove DEF Turn, Everything, Rows
<1> QED  BY <1>1, <1>2 DEF Turn, Everything

\* What becomes of the row of a run.
RunFacts(r, b, a) ==
    /\ b.status \in TERMINAL_STATUSES => a = b
    /\ b.reviewed => a.reviewed
    /\ b.status # "absent" => a.status # "absent"
    /\ b.status = "absent" /\ a.status # "absent" => CreateRun(r)
    /\ a.status = "running" => b.status = "running" \/ Begin(r)
    /\ a.status \in ACTIVE_STATUSES =>
        \/ b.status \in ACTIVE_STATUSES
        \/ CreateRun(r) /\ ~a.reviewed
        \/ /\ b.status = "needs_review" /\ exec' = exec /\ books' = books
           /\ \A d \in Own(r, documents') : documents'[d].status # "needs_review"
    /\ a.status = "succeeded" =>
        \/ b.status = "succeeded"
        \/ /\ Finish /\ r = exec.run /\ b.status = "running"
           /\ exec.memory.review = << >> \/ exec.resume
        \/ /\ b.status = "needs_review" /\ exec' = exec /\ books' = books
           /\ \A d \in Own(r, documents') :
                /\ documents'[d].status # "needs_review"
                /\ documents'[d].status = "ok" => ~documents'[d].accepted
    /\ (a.status = "needs_review" /\ b.status # "needs_review") \/ (a.reviewed /\ ~b.reviewed) =>
        /\ Finish /\ r = exec.run /\ b.status = "running" /\ ~exec.resume
        /\ a.reviewed /\ a.status = "needs_review" /\ a.started = b.started

LEMMA RunIsFollowed ==
    ASSUME Shape, Rows, RunsChange, NEW r \in Runs
    PROVE  RunFacts(r, run[r], run'[r])
<1> DEFINE b == run[r]
           a == run'[r]
<1>1. b \in RunRow /\ DOMAIN b = RunFields /\ b.reviewed \in BOOLEAN
  BY DEF Rows, Shape, RunRow
<1>2. CASE run'[r] = run[r]
  <2>1. a = b
    BY <1>2
  <2> HIDE DEF a, b
  <2>2. RunFacts(r, b, a)
    BY <2>1 DEF RunFacts
  <2> QED  BY <2>2 DEF a, b
<1>3. ASSUME NEW status, a = [b EXCEPT !.status = status]
      PROVE  a.started = b.started /\ a.reviewed = b.reviewed /\ a.status = status
  BY <1>1, <1>3 DEF RunFields
<1>4. CASE CreateRun(r) /\ a = [b EXCEPT !.status = "pending"]
  <2>1. b.status = "absent" /\ ~b.reviewed
    BY <1>4 DEF CreateRun, Rows
  <2> QED  BY <1>3, <1>4, <2>1 DEF RunFacts, TERMINAL_STATUSES, ACTIVE_STATUSES
<1>5. CASE CancelRun(r) /\ a = [b EXCEPT !.status = "cancelled"]
  <2>1. b.status \notin TERMINAL_STATUSES \cup {"absent"}
    BY <1>5 DEF CancelRun
  <2> QED  BY <1>3, <1>5, <2>1 DEF RunFacts, TERMINAL_STATUSES, ACTIVE_STATUSES
<1>6. CASE Begin(r) /\ a = [b EXCEPT !.status = "running", !.started = StartedAt(r),
                                      !.attempts = b.attempts + 1]
  <2>1. a.started = StartedAt(r) /\ a.reviewed = b.reviewed /\ a.status = "running"
    BY <1>1, <1>6 DEF RunFields
  <2>2. b.status \in {"pending", "retrying"}
    BY <1>6 DEF Begin
  <2> QED  BY <1>6, <2>1, <2>2 DEF RunFacts, TERMINAL_STATUSES, ACTIVE_STATUSES
<1>7. CASE /\ exec' = exec /\ books' = books /\ b.status = "needs_review"
           /\ \A d \in Own(r, documents') : documents'[d].status # "needs_review"
           /\ a = [b EXCEPT !.status = "succeeded"]
           /\ \A d \in Own(r, documents') :
                    documents'[d].status = "ok" => ~documents'[d].accepted
  BY <1>3, <1>7 DEF RunFacts, TERMINAL_STATUSES, ACTIVE_STATUSES
<1>8. CASE /\ exec' = exec /\ books' = books /\ b.status = "needs_review"
           /\ \A d \in Own(r, documents') : documents'[d].status # "needs_review"
           /\ a = Requeued(b)
  <2>1. a.started = b.started /\ a.reviewed = b.reviewed /\ a.status = "pending"
    BY <1>1, <1>8 DEF RunFields, Requeued
  <2> QED  BY <1>8, <2>1 DEF RunFacts, TERMINAL_STATUSES, ACTIVE_STATUSES
<1>9. CASE Finish /\ r = exec.run /\ b.status = "running" /\ a = Finished(b)
  <2>1. CASE exec.memory.review # << >> /\ ~exec.resume
    <3>1. a.started = b.started /\ a.reviewed /\ a.status = "needs_review"
      BY <1>1, <1>9, <2>1 DEF RunFields, Finished
    <3> QED  BY <1>9, <2>1, <3>1 DEF RunFacts, TERMINAL_STATUSES, ACTIVE_STATUSES
  <2>2. CASE exec.memory.review = << >> \/ exec.resume
    <3>1. a = [b EXCEPT !.status = "succeeded"]
      BY <1>9, <2>2 DEF Finished
    <3> QED
      BY <1>3, <1>9, <2>2, <3>1 DEF RunFacts, TERMINAL_STATUSES, ACTIVE_STATUSES
  <2> QED  BY <2>1, <2>2
<1>10. CASE b.status = "running" /\ \E status \in {"failed", "retrying"} :
                a = [b EXCEPT !.status = status]
  BY <1>3, <1>10 DEF RunFacts, TERMINAL_STATUSES, ACTIVE_STATUSES
<1>11. CASE RunMoves(r, run[r], run'[r])
  BY <1>4, <1>5, <1>6, <1>7, <1>8, <1>9, <1>10, <1>11 DEF RunMoves
<1> QED  BY <1>2, <1>11 DEF RunsChange

\* Whose documents there are, after a step.
LEMMA OwnChanges ==
    ASSUME Shape, Readings, DocumentsChange, NEW r \in Runs, NEW d \in Own(r, documents')
    PROVE  \/ d \in Own(r, documents)
           \/ /\ ReadAnswer /\ d = exec.reading /\ r = exec.run /\ d \in Known
              /\ documents[d].readBy = << >>
<1>1. d \in Known' /\ r \in ToSet(documents'[d].readBy) /\ r # None
  BY RunsAreNotNone DEF Own, Known
<1>2. ToSet(<< >>) = {}
  BY DEF ToSet
<1>3. \A x : ToSet(<< x >>) = {x}
  BY DEF ToSet
<1>4. CASE d \in Known
  <2>1. RowChange(d, documents[d], documents'[d])
    BY <1>4 DEF DocumentsChange
  <2>2. CASE documents'[d].readBy = documents[d].readBy
    BY <1>1, <1>4, <2>2 DEF Own, Known
  <2>3. CASE /\ ReadAnswer /\ d = exec.reading /\ documents[d].readBy = << >>
             /\ documents'[d].readBy = << exec.run >>
    BY <1>1, <1>3, <1>4, <2>3
  <2> QED  BY <2>1, <2>2, <2>3 DEF RowChange
<1>5. CASE d \notin Known
  <2>1. NewDocument(documents'[d])
    BY <1>1, <1>5 DEF DocumentsChange
  <2> QED  BY <1>1, <1>2, <1>3, <2>1 DEF NewDocument
<1> QED  BY <1>4, <1>5

\* The row of a step that is over is touched by the pass that comes to it only.
StepsChange ==
    \A r \in Runs, k \in Keys :
        \/ step'[r][k] = step[r][k]
        \/ step[r][k] = "none"
        \/ /\ r = exec.run /\ exec.run # None /\ k = Key /\ exec.index \in 1 .. Len(Order)
           /\ exec.resume => Key \in PassBranch

LEMMA StepsMove ==
    ASSUME Turn
    PROVE  StepsChange
<1>1. Shape /\ Progress /\ Readings /\ Papers(exec, documents) /\ [Next]_vars
  BY DEF Turn, Everything
<1>2. CASE step' = step
  BY <1>2 DEF StepsChange
<1>3. ASSUME NEW r \in Runs, Begin(r) PROVE StepsChange
  BY <1>1, <1>3 DEF Begin, StepsChange, Shape
<1>4. ASSUME NEW status, Mark(status), exec.run # None, exec.index \in 1 .. Len(Order),
             exec.resume => Key \in PassBranch
      PROVE  StepsChange
  <2>1. exec.run \in Runs /\ Key \in Keys
    BY <1>1, <1>4, KeyIsAKey DEF Shape
  <2>2. step' = [step EXCEPT ![exec.run] = [step[exec.run] EXCEPT ![Key] = status]]
    BY <1>4 DEF Mark
  <2>3. \A r \in Runs, k \in Keys : step'[r][k] = step[r][k] \/ (r = exec.run /\ k = Key)
    BY <1>1, <2>1, <2>2 DEF Shape
  <2> QED  BY <1>4, <2>3 DEF StepsChange
<1>5. ASSUME NEW status, Mark(status), exec.place \in InStep PROVE StepsChange
  <2>1. exec.run # None /\ exec.index \in 1 .. Len(Order)
    BY <1>1, <1>5, AtWork
  <2>2. exec.resume => Key \in PassBranch
    BY <1>1, <1>5, <2>1 DEF Progress, PassInv, Key
  <2> QED  BY <1>4, <1>5, <2>1, <2>2
<1>6. ASSUME NEW status, Mark(status), AtStart, Key \in ResumeKeys PROVE StepsChange
  <2>1. exec.run # None /\ exec.index \in 1 .. Len(Order)
    BY <1>1, <1>6, OrderIsFinite DEF AtStart, Shape, Progress, PassInv
  <2> QED  BY <1>4, <1>6, <2>1 DEF ResumeKeys
<1>7. CASE SkipStep
  BY <1>6, <1>7 DEF SkipStep
<1>8. CASE StartStep
  BY <1>6, <1>8 DEF StartStep
<1>9. CASE ListNewFiles \/ CheckRest \/ StepDone
  <2>1. exec.place \in InStep /\ Mark("SUCCEEDED")
    BY <1>9 DEF ListNewFiles, CheckRest, StepDone, InTool, InStep, Complete
  <2> QED  BY <1>5, <2>1
<1>10. CASE PassOver \/ StepFails
  <2>1. exec.place \in InStep /\ Mark("FAILED")
    BY <1>10 DEF PassOver, StepFails, InStep
  <2> QED  BY <1>5, <2>1
<1>11. CASE Execute
  BY Zenon, <1>2, <1>7, <1>8, <1>9, <1>11 DEF Execute, LeaveOut, StopCancelled, Finish, ReadFile,
     ReadAnswer, CheckSome, AppendRows, Escalate
<1>12. CASE RetryStep \/ Interrupt
  BY <1>2, <1>12 DEF RetryStep, Interrupt
<1>13. ASSUME NEW i \in Invoices, Arrive(i) \/ Upload(i) PROVE StepsChange
  BY <1>2, <1>13 DEF Arrive, Upload
<1>14. ASSUME NEW r \in Runs, CreateRun(r) \/ CancelRun(r) PROVE StepsChange
  BY <1>2, <1>14 DEF CreateRun, CancelRun
<1>15. ASSUME NEW d \in Known, NEW accept \in BOOLEAN, Resolve(d, accept) PROVE StepsChange
  BY <1>2, <1>15 DEF Resolve
<1>16. CASE UNCHANGED vars
  BY <1>2, <1>16 DEF vars
<1> QED
  BY <1>1, <1>3, <1>10, <1>11, <1>12, <1>13, <1>14, <1>15, <1>16 DEF Next

\* Once a file is there its time does not change any more.
LEMMA TimesStay ==
    ASSUME Rows, ClockChange, NEW i \in Invoices, mtime[i] # 0
    PROVE  mtime'[i] = mtime[i]
BY DEF Rows, ClockChange

\* The steps in front of the pass branch are not executed after a review.
LEMMA BeforeTheReview ==
    ASSUME NEW l, NEW rd, NEW c, NEW w, TemplateAt(l, rd, c, w), Everything,
           exec.place \in InStep, Workflow.tool[Key] \in {"list", "read", "check"}
    PROVE  /\ ~exec.resume /\ exec.run \in Runs /\ exec.run # None
           /\ Workflow.tool[Key] = "list" => exec.index = l
           /\ Workflow.tool[Key] = "read" => exec.index = rd
           /\ Workflow.tool[Key] = "check" => exec.index = c
<1>1. Shape /\ Progress /\ Readings /\ Papers(exec, documents)
  BY DEF Everything
<1>2. /\ exec.run # None /\ exec.run \in Runs /\ exec.index \in 1 .. Len(Order)
      /\ Key = Order[exec.index]
  BY <1>1, AtWork
<1>3. exec.resume => Key \in PassBranch
  BY Zenon, <1>1, <1>2 DEF Progress, PassInv
<1> QED  BY <1>2, <1>3 DEF TemplateAt

-----------------------------------------------------------------------------
(* The times of the documents and of the runs. *)

Time(d) == mtime[documents[d].invoice]

Dated == \A d \in Known : Time(d) # 0

\* What a first pass is given to read is new to it.
FilesAreNew ==
    exec.run # None /\ ~exec.resume =>
        \A i \in ToSet(exec.memory.files) : mtime[i] > exec.since

SinceIsATime == exec.run # None => exec.since \in Nat

Newest(d, docs) == \A e \in DOMAIN docs : docs[e].invoice = docs[d].invoice => e <= d

Old(r, i, runs, times) ==
    \E s \in 1 .. (r - 1) : runs[s].status = "succeeded" /\ runs[s].started >= times[i]

\* The documents r answers for.
Due(r, runs, times, docs) ==
    {d \in Own(r, docs) : Newest(d, docs) /\ ~Old(r, docs[d].invoice, runs, times)}

\* The file that is read, and the document the model is asked about.
LEMMA ThisFileIsFresh ==
    ASSUME NEW l, NEW rd, NEW c, NEW w, TemplateAt(l, rd, c, w), Everything,
           FilesAreNew, SinceIsATime, ReadFile \/ ReadAnswer
    PROVE  /\ ~exec.resume /\ exec.run \in Runs /\ exec.run # None /\ exec.index = rd
           /\ exec.todo \in 1 .. Len(exec.memory.files) /\ Key = Order[exec.index]
           /\ ThisFile \in ToSet(exec.memory.files)
           /\ ThisFile \in Invoices /\ mtime[ThisFile] > exec.since /\ mtime[ThisFile] # 0
           /\ ReadAnswer => exec.reading \in Known /\ documents[exec.reading].invoice = ThisFile
                            /\ documents[exec.reading].readBy = << >>
<1>1. Shape /\ Progress /\ Readings /\ Papers(exec, documents) /\ Rows
  BY DEF Everything
<1>2. exec.place \in InStep /\ (ReadFile => InTool("read")) /\ (ReadAnswer => exec.place = "answer")
  BY Zenon DEF ReadFile, ReadAnswer, InTool, InStep
<1>3. /\ InTheTool(exec, documents) /\ Key = Order[exec.index] /\ exec.memory \in Memory
  BY <1>1, <1>2, AtWork DEF Sound
<1>4. Workflow.tool[Key] = "read"
  BY <1>2, <1>3 DEF InTheTool, InTool
<1>5. ReadSoFar(exec, documents) /\ exec.todo \in Nat \ {0}
  BY <1>3, <1>4 DEF InTheTool
<1> DEFINE files == exec.memory.files
<1>6. files \in Seq(Invoices) /\ Len(files) \in Nat /\ DOMAIN files = 1 .. Len(files)
  BY <1>3, MemoryFields
<1>7. InputLen(exec) = Len(files)
  BY <1>3, <1>4 DEF InputLen, InputFrom
<1>8. exec.todo <= Len(files)
  <2>1. CASE ReadFile
    BY Zenon, <2>1 DEF ReadFile
  <2>2. CASE ReadAnswer
    BY <1>2, <1>5, <1>7, <2>2 DEF ReadSoFar
  <2> QED  BY <2>1, <2>2
<1>9. exec.todo \in 1 .. Len(files) /\ ThisFile \in ToSet(files) /\ ThisFile \in Invoices
  BY <1>5, <1>6, <1>8 DEF ThisFile, ToSet
<1>10. ~exec.resume /\ exec.run \in Runs /\ exec.run # None /\ exec.index = rd
  BY <1>2, <1>4, BeforeTheReview
<1>11. mtime[ThisFile] > exec.since /\ mtime[ThisFile] # 0
  <2>1. mtime[ThisFile] \in Nat /\ exec.since \in Nat
    BY <1>1, <1>9, <1>10 DEF Rows, SinceIsATime
  <2> QED  BY <1>9, <1>10, <2>1 DEF FilesAreNew
<1>12. ReadAnswer => exec.reading \in Known /\ documents[exec.reading].invoice = ThisFile
                     /\ documents[exec.reading].readBy = << >>
  BY <1>1, <1>2, <1>5 DEF Readings, AskedIsUnread, ReadSoFar, ThisFile, Known
<1> QED  BY <1>3, <1>9, <1>10, <1>11, <1>12

\* The pass that is executed goes on, ends, or another one begins.
SamePass ==
    /\ exec.run # None /\ exec'.run = exec.run /\ exec'.resume = exec.resume
    /\ exec'.since = exec.since

LEMMA PassGoesOn ==
    ASSUME ThreadMoves
    PROVE  exec'.run = None \/ SamePass \/ \E r \in Runs : Begin(r)
<1>1. CASE exec' = exec
  BY <1>1 DEF SamePass
<1>2. CASE exec' = Idle
  BY <1>2, IdlePass
<1>3. CASE StepGoesOn \/ StepIsOver
  BY <1>3 DEF StepGoesOn, StepIsOver, SamePass, Rest, ExecFields
<1> QED  BY <1>1, <1>2, <1>3 DEF ThreadMoves

LEMMA RunsAreNumbers ==
    /\ \A r \in Runs : r \in Nat /\ r >= 1
    /\ \A r \in Runs : \A s \in 1 .. (r - 1) : s \in Runs
<1>1. Cardinality(Runs) \in Nat
  BY ExecutionAssumption, FS_CardinalityType
<1> QED  BY <1>1, ExecutionAssumption

LEMMA DatedHolds ==
    ASSUME NEW l, NEW rd, NEW c, NEW w, TemplateAt(l, rd, c, w), Turn, FilesAreNew, SinceIsATime,
           Dated
    PROVE  /\ Dated'
           /\ \A d \in Known : d \in Known' /\ documents'[d].invoice = documents[d].invoice
                               /\ Time(d)' = Time(d)
<1>1. /\ Shape /\ Readings /\ Rows /\ Filing /\ DocumentsChange /\ ClockChange /\ Everything
  BY TurnChanges DEF Turn
<1>2. \A d \in Known : d \in Known' /\ documents'[d].invoice = documents[d].invoice
  BY <1>1, OwnGrows
<1>3. \A d \in Known : Time(d)' = Time(d)
  <2> SUFFICES ASSUME NEW d \in Known PROVE mtime'[documents'[d].invoice] = Time(d)
    BY DEF Time
  <2>1. documents[d].invoice \in Invoices /\ mtime[documents[d].invoice] # 0
    BY <1>1 DEF Filing, Dated, Time
  <2> QED  BY <1>1, <1>2, <2>1, TimesStay DEF Time
<1>4. ASSUME NEW d \in Known', d \notin Known PROVE Time(d)' # 0
  <2> DEFINE row == documents'[d]
  <2>1. NewDocument(row)
    BY <1>1, <1>4 DEF DocumentsChange
  <2>2. row.invoice \in Invoices /\ mtime[row.invoice] # 0
    <3>1. CASE ReadFile
      <4>1. /\ ThisFile \in Invoices /\ mtime[ThisFile] # 0
        BY <1>1, <3>1, ThisFileIsFresh
      <4>2. \/ row.invoice = ThisFile
            \/ row.invoice \in Uploadable /\ mtime[row.invoice] # 0
        BY <2>1 DEF NewDocument, ThisFile
      <4> QED  BY <4>1, <4>2, ExecutionAssumption
    <3> QED  BY <2>1, <3>1, ExecutionAssumption DEF NewDocument
  <2> QED  BY <1>1, <2>2, TimesStay DEF Time
<1>5. \A d \in Known' : Time(d)' # 0
  BY <1>3, <1>4 DEF Dated
<1> QED  BY <1>2, <1>3, <1>5 DEF Dated, Known, Time

LEMMA FreshHolds ==
    ASSUME Turn, FilesAreNew, SinceIsATime
    PROVE  FilesAreNew'
<1>1. /\ Shape /\ Rows /\ ClockChange /\ ThreadMoves /\ Everything
      /\ Papers(exec, documents)
  BY TurnChanges DEF Turn
<1> SUFFICES ASSUME exec'.run # None, ~exec'.resume, NEW i \in ToSet(exec'.memory.files)
             PROVE  mtime'[i] > exec'.since
  BY DEF FilesAreNew
<1>2. CASE SamePass
  <2>1. exec.run # None /\ ~exec.resume /\ exec'.since = exec.since /\ exec.since \in Nat
    BY <1>2 DEF SamePass, SinceIsATime
  <2>2. exec.memory \in Memory
    BY <1>1, <2>1 DEF Papers, Sound
  <2>3. i \in Invoices /\ mtime[i] > exec.since
    <3>1. CASE ListNewFiles
      BY <1>1, <3>1, NewFilesAreListed DEF NewFiles
    <3>2. CASE exec'.memory.files = exec.memory.files
      <4>1. exec.memory.files \in Seq(Invoices)
        BY <2>2, MemoryFields
      <4>2. ToSet(exec.memory.files) \subseteq Invoices
        BY <4>1 DEF ToSet
      <4> QED  BY <2>1, <3>2, <4>2 DEF FilesAreNew
    <3>3. CASE exec' = exec \/ StepGoesOn
      <4>1. exec'.memory = exec.memory
        BY <3>3 DEF StepGoesOn, Rest, ExecFields
      <4> QED  BY <3>2, <4>1
    <3>4. CASE StepIsOver /\ ~ListNewFiles
      BY <1>1, <3>2, <3>4, FilesStay
    <3>5. ~\E r \in Runs : Begin(r)
      BY Zenon, <2>1 DEF Begin
    <3> QED  BY <1>1, <3>1, <3>3, <3>4, <3>5, IdlePass DEF ThreadMoves
  <2>4. mtime[i] \in Nat /\ mtime[i] # 0
    BY <1>1, <2>1, <2>3 DEF Rows
  <2> QED  BY <1>1, <2>1, <2>3, <2>4, TimesStay
<1>3. ASSUME NEW r \in Runs, Begin(r) PROVE FALSE
  <2>1. exec'.memory.files = << >>
    BY <1>3, BeginDoes DEF NoMemory
  <2> QED  BY <2>1 DEF ToSet
<1> QED  BY <1>1, <1>2, <1>3, PassGoesOn

LEMMA DueShrinks ==
    ASSUME NEW l, NEW rd, NEW c, NEW w, TemplateAt(l, rd, c, w), Turn, FilesAreNew, SinceIsATime,
           Dated, NEW r \in Runs, NEW d \in Own(r, documents),
           d \in Due(r, run', mtime', documents')
    PROVE  d \in Due(r, run, mtime, documents)
<1>1. /\ Shape /\ Readings /\ Rows /\ Filing /\ DocumentsChange /\ ClockChange /\ RunsChange
  BY TurnChanges
<1>2. \A e \in Known : e \in Known' /\ documents'[e].invoice = documents[e].invoice
                               /\ Time(e)' = Time(e)
  BY DatedHolds
<1>3. d \in Known
  BY DEF Own, Known
<1>4. Newest(d, documents') /\ ~Old(r, documents[d].invoice, run', mtime')
  BY <1>2, <1>3 DEF Due
<1>5. Newest(d, documents)
  BY <1>2, <1>3, <1>4 DEF Newest, Known
<1>6. ASSUME Old(r, documents[d].invoice, run, mtime) PROVE FALSE
  <2> DEFINE i == documents[d].invoice
  <2>1. PICK s \in 1 .. (r - 1) : run[s].status = "succeeded" /\ run[s].started >= mtime[i]
    BY <1>6 DEF Old
  <2>2. s \in Runs
    BY <2>1, RunsAreNumbers
  <2>3. run'[s] = run[s]
    BY <1>1, <2>1, <2>2, RunIsFollowed DEF RunFacts, TERMINAL_STATUSES
  <2>4. mtime'[i] = mtime[i]
    BY <1>1, <1>3, TimesStay DEF Filing, Dated, Time
  <2>5. \E q \in 1 .. (r - 1) : run'[q].status = "succeeded" /\ run'[q].started >= mtime'[i]
    BY <2>1, <2>3, <2>4
  <2>6. documents'[d].invoice = i
    BY <1>2, <1>3
  <2> QED  BY <1>4, <2>5, <2>6 DEF Old
<1> QED  BY <1>5, <1>6 DEF Due

-----------------------------------------------------------------------------
(* Which runs there can be beside each other. *)

Queue ==
    /\ \A r, s \in Runs : r < s /\ run[s].status # "absent" =>
            run[r].reviewed \/ run[r].status \in TERMINAL_STATUSES
    /\ \A r \in Runs : run[r].status = "needs_review" => run[r].reviewed
    /\ \A r \in Runs : Own(r, documents) # {} => run[r].status # "absent"

LEMMA QueueHolds ==
    ASSUME Turn, Queue
    PROVE  Queue'
<1>1. /\ Shape /\ Readings /\ Rows /\ Progress /\ DocumentsChange /\ RunsChange
  BY TurnChanges
<1>2. \A r \in Runs : RunFacts(r, run[r], run'[r])
  BY <1>1, RunIsFollowed
<1>3. ASSUME NEW r \in Runs, NEW s \in Runs, r < s, run'[s].status # "absent"
      PROVE  run'[r].reviewed \/ run'[r].status \in TERMINAL_STATUSES
  <2>1. run[r].reviewed \/ run[r].status \in TERMINAL_STATUSES
    <3>1. CASE run[s].status # "absent"
      BY <1>3, <3>1 DEF Queue
    <3>2. CASE run[s].status = "absent"
      <4>1. CreateRun(s)
        BY <1>2, <1>3, <3>2 DEF RunFacts
      <4>2. run[r].status # "absent" /\ run[r].status \notin ACTIVE_STATUSES
        BY <1>3, <4>1 DEF CreateRun
      <4>3. run[r].status \in RunStatus \cup {"absent"}
        BY <1>1 DEF Rows, RunRow
      <4>4. run[r].status \in TERMINAL_STATUSES \/ run[r].status = "needs_review"
        BY <4>2, <4>3 DEF RunStatus, ACTIVE_STATUSES, TERMINAL_STATUSES
      <4> QED  BY <4>4 DEF Queue
    <3> QED  BY <3>1, <3>2
  <2> QED  BY <1>2, <2>1 DEF RunFacts
<1>4. ASSUME NEW r \in Runs, run'[r].status = "needs_review" PROVE run'[r].reviewed
  BY <1>2, <1>4 DEF RunFacts, Queue
<1>5. ASSUME NEW r \in Runs, NEW d \in Own(r, documents') PROVE run'[r].status # "absent"
  <2>1. CASE d \in Own(r, documents)
    BY <1>2, <2>1 DEF Queue, RunFacts
  <2>2. CASE ReadAnswer /\ r = exec.run
    <3>1. run[r].status \in {"running", "cancelled"}
      BY <1>1, <2>2, RunsAreNotNone DEF Progress, PassInv
    <3> QED  BY <1>2, <3>1 DEF RunFacts
  <2> QED  BY <1>1, <2>1, <2>2, OwnChanges
<1> QED  BY <1>3, <1>4, <1>5 DEF Queue

\* The start of a run that waits for review is too old to hide a file from the run
\* that goes on, and so is the start of one that succeeded.
Rivals ==
    /\ \A r, s \in Runs :
        r # s /\ run[r].status \in ACTIVE_STATUSES /\ ~run[r].reviewed
              /\ run[s].status = "needs_review" =>
            \A d \in Own(r, documents) : Time(d) > run[s].started
    /\ exec.run # None /\ ~exec.resume =>
        /\ \A s \in Runs \ {exec.run} :
            run[s].status = "needs_review" => run[s].started <= exec.since
        /\ \A d \in Due(exec.run, run, mtime, documents) : Time(d) > exec.since

\* What this argument has of the ones before.
Dealing(l, rd, c, w) ==
    TemplateAt(l, rd, c, w) /\ Turn /\ FilesAreNew /\ SinceIsATime /\ Dated /\ Queue
        /\ Past(run, mtime, documents)

\* When a run that counts was started does not change.
LEMMA StartStays ==
    ASSUME Turn, Past(run, mtime, documents), Queue, NEW s \in Runs,
           run'[s].status = "needs_review"
    PROVE  /\ run'[s].started = run[s].started /\ run[s].started \in Nat
           /\ run[s].status # "needs_review" =>
                Finish /\ s = exec.run /\ run[s].status = "running" /\ ~exec.resume
<1>1. /\ Shape /\ Rows /\ RunsChange
  BY TurnChanges
<1>2. run[s].started \in Nat /\ RunFacts(s, run[s], run'[s])
  BY <1>1, RunIsFollowed DEF Rows, RunRow
<1>3. CASE run[s].status = "needs_review"
  <2>1. run[s].started # 0
    BY <1>3 DEF Past, Counted
  <2> QED  BY <1>1, <1>2, <1>3, <2>1, RunsAreCounted
<1>4. CASE run[s].status # "needs_review"
  BY <1>2, <1>4 DEF RunFacts
<1> QED  BY <1>3, <1>4

LEMMA TimesGoOn ==
    ASSUME NEW l, NEW rd, NEW c, NEW w, Dealing(l, rd, c, w), NEW r \in Runs,
           NEW d \in Own(r, documents')
    PROVE  \/ d \in Own(r, documents) /\ Time(d)' = Time(d)
           \/ /\ ReadAnswer /\ r = exec.run /\ ~exec.resume /\ exec.run # None
              /\ Time(d)' > exec.since /\ run[r].status \in {"running", "cancelled"}
<1>1. /\ Shape /\ Readings /\ Rows /\ Progress /\ DocumentsChange
  BY TurnChanges DEF Dealing
<1>2. \A e \in Known : Time(e)' = Time(e)
  BY DatedHolds DEF Dealing
<1>3. CASE d \in Own(r, documents)
  BY <1>2, <1>3 DEF Own, Known
<1>4. CASE ReadAnswer /\ d = exec.reading /\ r = exec.run /\ d \in Known
  <2>1. /\ ~exec.resume /\ exec.run # None /\ documents[d].invoice = ThisFile
        /\ mtime[ThisFile] > exec.since
    BY <1>4, ThisFileIsFresh DEF Dealing, Turn
  <2>2. Time(d)' > exec.since
    BY <1>2, <1>4, <2>1 DEF Time
  <2>3. run[r].status \in {"running", "cancelled"}
    BY <1>1, <1>4, <2>1 DEF Progress, PassInv
  <2> QED  BY <1>4, <2>1, <2>2, <2>3
<1> QED  BY <1>1, <1>3, <1>4, OwnChanges

LEMMA RivalsStay ==
    ASSUME NEW l, NEW rd, NEW c, NEW w, Dealing(l, rd, c, w), Rivals,
           NEW r \in Runs, NEW s \in Runs, r # s, run'[r].status \in ACTIVE_STATUSES,
           ~run'[r].reviewed, run'[s].status = "needs_review", NEW d \in Own(r, documents')
    PROVE  Time(d)' > run'[s].started
<1>1. /\ Shape /\ Readings /\ Rows /\ Progress /\ DocumentsChange /\ RunsChange
  BY TurnChanges DEF Dealing
<1>2. RunFacts(r, run[r], run'[r]) /\ run[r].reviewed \in BOOLEAN
  BY <1>1, RunIsFollowed DEF Rows, RunRow
<1>3. ~run[r].reviewed
  BY <1>2 DEF RunFacts
<1>4. run[r].status # "needs_review"
  BY <1>3 DEF Dealing, Queue
<1>5. /\ run'[s].started = run[s].started /\ run[s].started \in Nat
      /\ run[s].status # "needs_review" =>
            Finish /\ s = exec.run /\ run[s].status = "running" /\ ~exec.resume
  BY StartStays DEF Dealing
<1>6. run[r].status \in ACTIVE_STATUSES \/ CreateRun(r)
  BY <1>2, <1>4 DEF RunFacts
<1>7. CASE run[s].status = "needs_review"
  <2>1. CASE d \in Own(r, documents) /\ Time(d)' = Time(d)
    <3>1. run[r].status # "absent"
      BY <2>1 DEF Dealing, Queue
    <3>2. run[r].status \in ACTIVE_STATUSES
      BY <1>6, <3>1 DEF CreateRun
    <3> QED  BY <1>3, <1>5, <1>7, <2>1, <3>2 DEF Rivals
  <2>2. CASE /\ r = exec.run /\ ~exec.resume /\ exec.run # None
             /\ Time(d)' > exec.since
    <3>1. run[s].started <= exec.since /\ exec.since \in Nat
      BY <1>7, <2>2 DEF Rivals, Dealing, SinceIsATime
    <3>2. Time(d)' \in Nat
      <4>1. d \in Known' /\ Rows' /\ Filing'
        BY TurnChanges DEF Dealing, Own, Known
      <4> QED  BY <4>1 DEF Rows, Filing, Time, Known
    <3> QED  BY <1>5, <2>2, <3>1, <3>2
  <2> QED  BY <2>1, <2>2, TimesGoOn
<1>8. CASE run[s].status # "needs_review"
  <2>1. run[s].status = "running" /\ ~run[s].reviewed /\ s = exec.run
    <3>1. s = exec.run /\ s # None /\ ~exec.resume /\ run[s].status = "running"
      BY <1>5, <1>8, RunsAreNotNone
    <3> QED  BY <1>1, <3>1 DEF Progress, PassInv
  <2>2. run[r].status \in ACTIVE_STATUSES
    <3>1. ~CreateRun(r)
      BY <2>1 DEF CreateRun, ACTIVE_STATUSES
    <3> QED  BY <1>6, <3>1
  <2>3. r < s \/ s < r
    BY RunsAreNumbers
  <2> QED  BY <1>3, <2>1, <2>2, <2>3 DEF Dealing, Queue, ACTIVE_STATUSES, TERMINAL_STATUSES
<1> QED  BY <1>7, <1>8

\* What a pass that begins sets its cutoff to.
LEMMA CutoffIsRight ==
    ASSUME NEW l, NEW rd, NEW c, NEW w, Dealing(l, rd, c, w), Rivals,
           NEW r \in Runs, Begin(r), ~run[r].reviewed
    PROVE  /\ exec'.run = r /\ exec'.since \in Nat
           /\ \A s \in Runs \ {r} : run[s].status = "needs_review" =>
                run[s].started <= exec'.since
           /\ \A d \in Due(r, run, mtime, documents) : Time(d) > exec'.since
<1>1. Shape /\ Readings /\ Rows /\ Filing
  BY TurnChanges DEF Dealing
<1>2. exec'.run = r /\ exec'.since = PreviousSuccess(r)
  BY BeginDoes
<1>3. run[r].status \in {"pending", "retrying"} /\ run[r].status \in ACTIVE_STATUSES
  BY DEF Begin, ACTIVE_STATUSES
<1>4. now \in Nat /\ \A s \in Runs : run[s].started \in 0 .. now
  BY <1>1 DEF Rows, RunRow
<1> DEFINE S == {run[s].started :
                    s \in {t \in Runs \ {r} : run[t].status \in {"succeeded", "needs_review"}}}
<1>5. S \subseteq 0 .. now
  BY <1>4
<1>6. PreviousSuccess(r) = Max({0} \cup S)
  BY DEF PreviousSuccess
<1>7. PreviousSuccess(r) \in {0} \cup S /\ \A t \in {0} \cup S : t <= PreviousSuccess(r)
  <2> HIDE DEF S
  <2> QED  BY <1>4, <1>5, <1>6, GreatestOrZero
<1>8. exec'.since \in Nat
  BY <1>2, <1>4, <1>5, <1>7
<1>9. ASSUME NEW d \in Due(r, run, mtime, documents) PROVE Time(d) > exec'.since
  <2>1. /\ d \in Own(r, documents) /\ d \in Known /\ ~Old(r, documents[d].invoice, run, mtime)
        /\ Time(d) \in Nat
    BY <1>1 DEF Due, Own, Known, Filing, Rows, Time
  <2>2. CASE exec'.since = 0
    BY <2>1, <2>2 DEF Dealing, Dated
  <2>3. ASSUME NEW t \in Runs \ {r}, run[t].status \in {"succeeded", "needs_review"},
               exec'.since = run[t].started
        PROVE  Time(d) > exec'.since
    <3>1. t < r
      <4>1. ~(r < t)
        BY <1>3, <2>3 DEF Dealing, Queue, TERMINAL_STATUSES
      <4> QED  BY <4>1, RunsAreNumbers
    <3>2. CASE run[t].status = "succeeded"
      <4>1. t \in 1 .. (r - 1)
        <5>1. t \in Nat /\ r \in Nat /\ t >= 1
          BY RunsAreNumbers
        <5> QED  BY <3>1, <5>1
      <4>2. ~(run[t].started >= mtime[documents[d].invoice])
        BY <2>1, <3>2, <4>1 DEF Old
      <4> QED  BY <1>8, <2>1, <2>3, <4>2 DEF Time
    <3>3. CASE run[t].status = "needs_review"
      BY <1>3, <2>1, <2>3, <3>3 DEF Rivals
    <3> QED  BY <2>3, <3>2, <3>3
  <2> QED  BY <1>2, <1>7, <2>2, <2>3
<1>10. \A s \in Runs \ {r} : run[s].status = "needs_review" => run[s].started <= exec'.since
  BY <1>2, <1>7
<1> QED  BY <1>2, <1>8, <1>9, <1>10

LEMMA RivalsHold ==
    ASSUME NEW l, NEW rd, NEW c, NEW w, Dealing(l, rd, c, w), Rivals
    PROVE  Rivals'
<1>1. /\ Shape /\ Readings /\ Rows /\ RunsChange /\ ThreadMoves /\ Filing /\ Rows' /\ Filing'
  BY TurnChanges DEF Dealing
<1>2. ASSUME NEW r \in Runs, NEW s \in Runs, r # s, run'[r].status \in ACTIVE_STATUSES,
             ~run'[r].reviewed, run'[s].status = "needs_review", NEW d \in Own(r, documents')
      PROVE  Time(d)' > run'[s].started
  BY <1>2, RivalsStay
<1>3. ASSUME SamePass, ~exec.resume, NEW s \in Runs \ {exec.run},
             run'[s].status = "needs_review"
      PROVE  run'[s].started <= exec.since
  BY <1>3, StartStays DEF Dealing, SamePass, Rivals
<1>4. ASSUME SamePass, ~exec.resume, NEW r \in Runs, r = exec.run,
             NEW d \in Due(r, run', mtime', documents')
      PROVE  Time(d)' > exec.since
  <2>1. d \in Own(r, documents') /\ exec.run # None
    BY <1>4 DEF Due, SamePass
  <2>2. CASE d \in Own(r, documents) /\ Time(d)' = Time(d)
    <3>1. d \in Due(r, run, mtime, documents)
      BY <1>4, <2>2, DueShrinks DEF Dealing
    <3> QED  BY <1>4, <2>1, <2>2, <3>1 DEF Rivals
  <2>3. CASE Time(d)' > exec.since
    BY <2>3
  <2> QED  BY <1>4, <2>1, <2>2, <2>3, TimesGoOn
<1>5. ASSUME NEW r \in Runs, Begin(r), ~exec'.resume
      PROVE  /\ exec'.run = r
             /\ \A s \in Runs \ {r} :
                    run'[s].status = "needs_review" => run'[s].started <= exec'.since
             /\ \A d \in Due(r, run', mtime', documents') : Time(d)' > exec'.since
  <2>1. exec'.run = r /\ ~run[r].reviewed /\ exec.run = None /\ mtime' = mtime
        /\ documents' = documents
    BY <1>5, BeginDoes DEF Begin
  <2>2. /\ \A s \in Runs \ {r} : run[s].status = "needs_review" => run[s].started <= exec'.since
        /\ \A d \in Due(r, run, mtime, documents) : Time(d) > exec'.since
    BY <1>5, <2>1, CutoffIsRight
  <2>3. ASSUME NEW s \in Runs \ {r}, run'[s].status = "needs_review"
        PROVE  run'[s].started <= exec'.since
    <3>1. run[s].status = "needs_review" /\ run'[s].started = run[s].started
      BY <2>1, <2>3, StartStays, RunsAreNotNone DEF Dealing
    <3> QED  BY <2>2, <3>1
  <2>4. ASSUME NEW d \in Due(r, run', mtime', documents') PROVE Time(d)' > exec'.since
    <3>1. d \in Own(r, documents) /\ Time(d)' = Time(d)
      BY <2>1 DEF Due, Time
    <3>2. d \in Due(r, run, mtime, documents)
      BY <3>1, <2>4, DueShrinks DEF Dealing
    <3> QED  BY <2>2, <3>1, <3>2
  <2> QED  BY <2>1, <2>3, <2>4
<1>6. ASSUME exec'.run # None, ~exec'.resume, NEW r \in Runs, r = exec'.run
      PROVE  /\ \A s \in Runs \ {r} :
                    run'[s].status = "needs_review" => run'[s].started <= exec'.since
             /\ \A d \in Due(r, run', mtime', documents') : Time(d)' > exec'.since
  <2>1. CASE SamePass
    <3>1. r = exec.run /\ ~exec.resume /\ exec'.since = exec.since
      BY <1>6, <2>1 DEF SamePass
    <3> QED  BY <1>3, <1>4, <2>1, <3>1
  <2> QED  BY <1>1, <1>5, <1>6, <2>1, PassGoesOn
<1>7. exec'.run # None => exec'.run \in Runs
  BY TurnChanges DEF Dealing, Shape
<1> QED  BY <1>2, <1>6, <1>7 DEF Rivals

-----------------------------------------------------------------------------
(* What the pass has in hand. *)

LEMMA NewestBefore ==
    ASSUME DocumentsChange, NEW d \in Known, Newest(d, documents')
    PROVE  Newest(d, documents)
BY OwnGrows DEF Newest, Known

\* Nothing is taken out of a workbook.
LEMMA BookedGrows ==
    ASSUME Shelf, BooksChange, NEW r \in Runs
    PROVE  /\ Booked(r) \subseteq Booked(r)'
           /\ AppendRows /\ r = exec.run => ToSet(Input(Key)) \subseteq Booked(r)'
<1> DEFINE b == books[r]
           input == Input(Key)
<1>1. CASE books' = books /\ ~AppendRows
  BY <1>1 DEF Booked
<1>2. CASE books' = [books EXCEPT ![exec.run] = Append(books[exec.run], input)] /\ r = exec.run
  <2>1. b \in Seq(Seq(Nat)) /\ Len(b) \in Nat /\ DOMAIN b = 1 .. Len(b)
    BY DEF Shelf
  <2>2. books'[r] = Append(b, input)
    BY <1>2 DEF Shelf
  <2>3. /\ DOMAIN Append(b, input) = 1 .. (Len(b) + 1)
        /\ \A n \in 1 .. Len(b) : Append(b, input)[n] = b[n]
        /\ Append(b, input)[Len(b) + 1] = input
    BY <2>1
  <2>4. \A n \in DOMAIN b : n \in DOMAIN Append(b, input) /\ Append(b, input)[n] = b[n]
    BY <2>1, <2>3
  <2>5. Len(b) + 1 \in DOMAIN Append(b, input)
    BY <2>1, <2>3
  <2>6. Booked(r)' = UNION {ToSet(Append(b, input)[n]) : n \in DOMAIN Append(b, input)}
    BY <2>2 DEF Booked
  <2>7. Booked(r) = UNION {ToSet(b[n]) : n \in DOMAIN b}
    BY DEF Booked
  <2> HIDE DEF b, input
  <2>8. /\ UNION {ToSet(b[n]) : n \in DOMAIN b}
                \subseteq UNION {ToSet(Append(b, input)[n]) : n \in DOMAIN Append(b, input)}
        /\ ToSet(input) \subseteq UNION {ToSet(Append(b, input)[n]) : n \in DOMAIN Append(b, input)}
    BY <2>3, <2>4, <2>5
  <2> QED  BY <2>6, <2>7, <2>8 DEF input
<1>3. CASE books' = [books EXCEPT ![exec.run] = Append(books[exec.run], input)] /\ r # exec.run
  <2>1. books'[r] = books[r]
    BY <1>3 DEF Shelf
  <2> QED  BY <1>3, <2>1 DEF Booked
<1>4. AppendRows => books' = [books EXCEPT ![exec.run] = Append(books[exec.run], input)]
  BY DEF AppendRows
<1> QED  BY <1>1, <1>2, <1>3, <1>4 DEF BooksChange

\* What a step leaves in memory of what it got.
LEMMA MemoryAfter ==
    ASSUME WritesWhatPassed, Everything, StepIsOver, ~CheckRest
    PROVE  /\ exec'.memory.passed = exec.memory.passed
           /\ exec'.memory.review = exec.memory.review
           /\ ~(StepDone /\ InTool("read")) =>
                exec'.memory.document_ids = exec.memory.document_ids
<1>1. /\ Shape /\ Progress /\ Readings /\ Papers(exec, documents)
  BY DEF Everything
<1>2. CASE exec'.memory = exec.memory
  BY <1>2
<1>3. CASE ListNewFiles
  BY <1>3, NewFilesAreListed
<1>4. CASE StepDone
  <2>1. /\ exec.place \in InStep /\ Complete(exec.out, exec.seen)
        /\ exec.place = "done" \/ InTool("read")
    BY <1>4 DEF StepDone, InStep, InTool
  <2>2. /\ Sound(exec, documents) /\ InTheTool(exec, documents) /\ Key = Order[exec.index]
        /\ exec.memory \in Memory /\ Key \in Keys
    BY <1>1, <2>1, AtWork, KeyIsAKey DEF Sound
  <2>3. exec'.memory = exec.out
    BY <1>1, <2>1, CompleteDoes
  <2>4. CASE InTool("read")
    BY <1>1, <1>4, <2>2, <2>3, <2>4, ReadingAFile, MemoryFields DEF ReadSoFar
  <2>5. CASE exec.place = "done"
    <3>1. Workflow.tool[Key] \in {"write", "escalate"} /\ "done" # "tool"
      BY <2>2, <2>5 DEF InTheTool
    <3>2. CASE Workflow.tool[Key] = "write"
      BY <2>2, <2>3, <3>2 DEF InTheTool
    <3>3. CASE Workflow.tool[Key] = "escalate"
      <4>1. exec.out = [exec.memory EXCEPT !.review = InputFrom(Key, exec.memory)]
        BY <2>2, <2>5, <3>3 DEF InTheTool
      <4>2. InputFrom(Key, exec.memory) = exec.memory.review
        BY <2>2, <3>3 DEF InputFrom, WritesWhatPassed
      <4>3. exec.memory.review = exec.out.review /\ exec.out.passed = exec.memory.passed
            /\ exec.out.document_ids = exec.memory.document_ids
        BY <2>2, <4>1, <4>2, MemoryFields
      <4> QED  BY <2>3, <4>3
    <3> QED  BY <3>1, <3>2, <3>3
  <2> QED  BY <2>1, <2>4, <2>5
<1> QED  BY <1>2, <1>3, <1>4 DEF StepIsOver

\* What the newest of the own documents, as far as they are new, have come to in a
\* first pass: listed, read, handed to the check, and sorted by it.
Sorted(d, row) == d \in ToSet(row.memory.passed) \cup ToSet(row.memory.review)

ReadAgain(row, docs) ==
    \A d \in Own(row.run, docs) :
        Newest(d, docs) /\ (\E n \in 1 .. (row.todo - 1) :
                                row.memory.files[n] = docs[d].invoice)
            => d \in ToSet(row.out.document_ids)

NewOnes(row, times, docs) ==
    {d \in Own(row.run, docs) : Newest(d, docs) /\ times[docs[d].invoice] > row.since}

ListedAgain(l, row, times, docs) ==
    row.index > l =>
        \A d \in NewOnes(row, times, docs) : docs[d].invoice \in ToSet(row.memory.files)

HandedOn(rd, c, row, times, docs) ==
    /\ row.index <= rd => row.memory.document_ids = << >>
    /\ rd < row.index /\ row.index <= c =>
        /\ row.outcome[Order[rd]] = "SUCCEEDED" \/ row.memory.document_ids = << >>
        /\ NewOnes(row, times, docs) \subseteq ToSet(row.memory.document_ids)

SortedOut(c, row, steps, times, docs) ==
    /\ row.index <= c => row.memory.passed = << >> /\ row.memory.review = << >>
    /\ row.index > c =>
        /\ \A d \in NewOnes(row, times, docs) : Sorted(d, row)
        /\ \/ steps[row.run][Order[c]] = "SUCCEEDED" /\ row.outcome[Order[c]] = "SUCCEEDED"
           \/ row.memory.passed = << >> /\ row.memory.review = << >>

OnTheWay(l, rd, c, row, steps, times, docs) ==
    row.run # None /\ ~row.resume =>
        /\ ListedAgain(l, row, times, docs)
        /\ row.index = rd /\ row.place \in InStep => ReadAgain(row, docs)
        /\ HandedOn(rd, c, row, times, docs)
        /\ SortedOut(c, row, steps, times, docs)

LEMMA BeginOnTheWay ==
    ASSUME NEW l, NEW rd, NEW c, NEW w, TemplateAt(l, rd, c, w), NEW r \in Runs, Begin(r)
    PROVE  OnTheWay(l, rd, c, exec', step', mtime', documents')
<1>1. /\ exec'.index = 1 /\ exec'.place = "start" /\ exec'.resume = run[r].reviewed
      /\ exec'.memory = [NoMemory EXCEPT !.passed =
                    IF run[r].reviewed THEN Ascending(ReviewedOk(r)) ELSE << >>]
  BY BeginDoes
<1>2. ~run[r].reviewed => exec'.memory.passed = << >> /\ exec'.memory.review = << >>
                          /\ exec'.memory.document_ids = << >>
  BY <1>1 DEF NoMemory
<1>3. 1 <= l /\ 1 < rd /\ 1 < c /\ l \in Nat /\ rd \in Nat /\ c \in Nat
  BY OrderIsFinite DEF TemplateAt, ReadsAt
<1> QED
  BY <1>1, <1>2, <1>3 DEF OnTheWay, ListedAgain, HandedOn, SortedOut, InStep

\* A document that is new after a step of the pass was so before, unless the model
\* has just read it.
LEMMA NewOnesStay ==
    ASSUME NEW l, NEW rd, NEW c, NEW w, Dealing(l, rd, c, w), SamePass
    PROVE  \A d \in NewOnes(exec', mtime', documents') :
                \/ d \in NewOnes(exec, mtime, documents) /\ d \in Known
                   /\ documents'[d].invoice = documents[d].invoice
                \/ /\ ReadAnswer /\ d = exec.reading /\ exec.index = rd
                   /\ documents'[d].invoice = ThisFile /\ d \in Own(exec.run, documents')
<1>1. /\ Shape /\ Readings /\ Rows /\ DocumentsChange /\ Everything
  BY TurnChanges DEF Dealing, Turn
<1>2. PICK r \in Runs : r = exec.run
  BY <1>1 DEF SamePass, Shape
<1> SUFFICES ASSUME NEW d \in NewOnes(exec', mtime', documents')
             PROVE  \/ d \in NewOnes(exec, mtime, documents) /\ d \in Known
                       /\ documents'[d].invoice = documents[d].invoice
                    \/ /\ ReadAnswer /\ d = exec.reading /\ exec.index = rd
                       /\ documents'[d].invoice = ThisFile /\ d \in Own(exec.run, documents')
  OBVIOUS
<1>3. /\ d \in Own(r, documents') /\ Newest(d, documents')
      /\ mtime'[documents'[d].invoice] > exec.since
  BY <1>2 DEF NewOnes, SamePass
<1>4. CASE d \in Own(r, documents)
  <2>1. d \in Known /\ documents'[d].invoice = documents[d].invoice /\ Time(d)' = Time(d)
    BY <1>4, DatedHolds DEF Own, Known, Dealing
  <2>2. Newest(d, documents)
    BY <1>1, <1>3, <2>1, NewestBefore
  <2> QED  BY <1>2, <1>3, <1>4, <2>1, <2>2 DEF NewOnes, Time
<1>5. CASE ReadAnswer /\ d = exec.reading /\ d \in Known
  <2>1. exec.index = rd /\ documents[d].invoice = ThisFile
    BY <1>5, ThisFileIsFresh DEF Dealing, Turn
  <2>2. documents'[d].invoice = documents[d].invoice
    BY <1>1, <1>5, OwnGrows
  <2> QED  BY <1>2, <1>3, <1>5, <2>1, <2>2
<1> QED  BY <1>1, <1>2, <1>3, <1>4, <1>5, OwnChanges

LEMMA ThisIsNewest ==
    ASSUME Readings, NEW d \in Known, Newest(d, documents), documents[d].invoice = ThisFile
    PROVE  d = ThisDocument
<1>1. Len(documents) \in Nat /\ Known = 1 .. Len(documents)
  BY DEF Readings, Known
<1>2. d \in DocumentsOf(ThisFile) /\ DocumentsOf(ThisFile) \subseteq 1 .. Len(documents)
  BY <1>1 DEF DocumentsOf
<1>3. /\ Max(DocumentsOf(ThisFile)) \in DocumentsOf(ThisFile)
      /\ \A e \in DocumentsOf(ThisFile) : e <= Max(DocumentsOf(ThisFile))
  BY <1>1, <1>2, Greatest
<1>4. Max(DocumentsOf(ThisFile)) <= d
  BY <1>3 DEF Newest, DocumentsOf, Known
<1>5. d <= Max(DocumentsOf(ThisFile))
  BY <1>2, <1>3
<1>6. d = Max(DocumentsOf(ThisFile))
  BY <1>1, <1>2, <1>3, <1>4, <1>5
<1> QED  BY <1>2, <1>6 DEF ThisDocument

\* What the run has read of the part of its files it has been through, it hands on.
LEMMA ReadingOn ==
    ASSUME NEW l, NEW rd, NEW c, NEW w, Dealing(l, rd, c, w), SamePass, ~exec.resume,
           exec.index = rd, exec'.place \in InStep,
           StepGoesOn \/ (exec' = exec /\ exec.place \in InStep),
           exec.place \in InStep => ReadAgain(exec, documents)
    PROVE  ReadAgain(exec', documents')
<1>1. /\ Shape /\ Readings /\ Rows /\ DocumentsChange /\ Everything /\ Progress
      /\ Papers(exec, documents)
  BY TurnChanges DEF Dealing, Turn
<1>2. PICK r \in Runs : r = exec.run
  BY <1>1 DEF SamePass, Shape
<1>3. exec'.run = r /\ exec'.memory = exec.memory /\ Workflow.tool[Key] = "read"
  BY <1>2 DEF SamePass, StepGoesOn, Rest, ExecFields, Dealing, TemplateAt, ReadsAt, Key
<1> DEFINE files == exec.memory.files
<1> SUFFICES ASSUME NEW d \in Own(r, documents'), Newest(d, documents'),
                    NEW n \in 1 .. (exec'.todo - 1), files[n] = documents'[d].invoice
             PROVE  d \in ToSet(exec'.out.document_ids)
  BY <1>3 DEF ReadAgain
<1>4. ASSUME d \in Own(r, documents)
      PROVE  /\ d \in Known /\ Newest(d, documents) /\ files[n] = documents[d].invoice
             /\ documents[d].readBy = << r >> /\ r \in ToSet(documents[d].readBy)
  <2>1. d \in Known /\ documents'[d].invoice = documents[d].invoice
        /\ r \in ToSet(documents[d].readBy)
    BY <1>1, <1>4, OwnGrows DEF Own, Known
  <2>2. documents[d].readBy = << r >>
    <3>1. ToSet(<< >>) = {} /\ \A x : ToSet(<< x >>) = {x}
      BY DEF ToSet
    <3>2. ReadAtMostOnce(documents[d])
      BY <1>1, <2>1 DEF Readings
    <3>3. documents[d].readBy # << >>
      BY <2>1, <3>1
    <3>4. PICK s \in Runs \cup {None} : documents[d].readBy = << s >>
      BY <3>2, <3>3 DEF ReadAtMostOnce
    <3>5. r = s
      BY <2>1, <3>1, <3>4
    <3> QED  BY <3>4, <3>5
  <2> QED  BY <1>1, <2>1, <2>2, NewestBefore
<1>5. ASSUME d \in Own(r, documents), exec.place \in InStep, n \in 1 .. (exec.todo - 1)
      PROVE  d \in ToSet(exec.out.document_ids)
  BY <1>2, <1>4, <1>5 DEF ReadAgain
<1>6. exec.place \in InStep => exec.out.document_ids \in Seq(Nat) /\ exec.todo \in Nat \ {0}
  <2>1. exec.place \in InStep => InTheTool(exec, documents) /\ Key = Order[exec.index]
    BY <1>1, AtWork
  <2> QED  BY <1>3, <2>1 DEF InTheTool, ReadSoFar
<1>7. CASE ReadAnswer
  <2>1. exec.place = "answer" /\ exec.place \in InStep
    BY <1>7 DEF ReadAnswer, InStep
  <2>2. /\ documents[exec.reading].invoice = ThisFile /\ documents[exec.reading].readBy = << >>
        /\ exec.reading \in Known
    BY <1>7, ThisFileIsFresh DEF Dealing, Turn
  <2>3. ReadAnswerDoes
    BY <1>1, <1>7, AnswerIsUsed
  <2>4. exec'.todo = exec.todo + 1
    BY <2>3 DEF ReadAnswerDoes
  <2>5. CASE d \in Own(r, documents)
    <3>1. n # exec.todo
      <4> SUFFICES ASSUME n = exec.todo PROVE FALSE
        OBVIOUS
      <4>1. documents[d].invoice = documents[exec.reading].invoice
            /\ documents[d].readBy = << r >> /\ d \in Known
        BY <1>4, <2>2, <2>5 DEF ThisFile
      <4>2. << r >> # << None >> /\ << >> # << None >> /\ << r >> # << >>
        BY RunsAreNotNone
      <4>3. d = exec.reading
        BY <1>1, <2>2, <4>1, <4>2 DEF Readings, OneForRuns, Known
      <4> QED  BY <2>2, <4>1, <4>2, <4>3
    <3>2. n \in 1 .. (exec.todo - 1)
      BY <1>6, <2>1, <2>4, <3>1
    <3>3. d \in ToSet(exec.out.document_ids)
      BY <1>5, <2>1, <2>5, <3>2
    <3>4. \/ exec'.out = exec.out
          \/ exec'.out = [exec.out EXCEPT !.document_ids =
                            Append(exec.out.document_ids, exec.reading)]
      BY <2>3 DEF ReadAnswerDoes, Rest, ExecFields
    <3>5. exec.out \in Memory
      <4>1. InTheTool(exec, documents) /\ Sound(exec, documents) /\ Key = Order[exec.index]
        BY <1>1, <2>1, AtWork
      <4> QED  BY <1>3, <4>1 DEF InTheTool, ReadSoFar, Sound, Memory
    <3>6. CASE exec'.out = exec.out
      BY <3>3, <3>6
    <3>7. CASE exec'.out = [exec.out EXCEPT !.document_ids =
                            Append(exec.out.document_ids, exec.reading)]
      <4>1. exec'.out.document_ids = Append(exec.out.document_ids, exec.reading)
        BY <3>5, <3>7, MemoryFields
      <4>2. exec.reading \in Nat
        BY <1>1, <2>2 DEF DocumentsChange
      <4> QED  BY <1>6, <2>1, <3>3, <4>1, <4>2, Appended
    <3> QED  BY <3>4, <3>6, <3>7
  <2>6. CASE d \notin Own(r, documents)
    <3>1. d = exec.reading /\ r \in ToSet(documents'[d].readBy)
      BY <1>1, <2>6, OwnChanges DEF Own
    <3>2. ToSet(<< >>) = {}
      BY DEF ToSet
    <3>3. exec'.out = [exec.out EXCEPT !.document_ids =
                            Append(exec.out.document_ids, exec.reading)]
      BY <2>3, <3>1, <3>2 DEF ReadAnswerDoes
    <3>4. exec.out \in Memory
      <4>1. InTheTool(exec, documents) /\ Sound(exec, documents) /\ Key = Order[exec.index]
        BY <1>1, <2>1, AtWork
      <4> QED  BY <1>3, <4>1 DEF InTheTool, ReadSoFar, Sound, Memory
    <3>5. exec'.out.document_ids = Append(exec.out.document_ids, exec.reading)
      BY <3>3, <3>4, MemoryFields
    <3>6. exec.reading \in Nat
      BY <1>1, <2>2 DEF DocumentsChange
    <3> QED  BY <1>6, <2>1, <3>1, <3>5, <3>6, Appended
  <2> QED  BY <2>5, <2>6
<1>8. CASE ~ReadAnswer
  <2>1. d \in Own(r, documents)
    BY <1>1, <1>8, OwnChanges
  <2>2. CASE exec' = exec
    BY <1>5, <2>1, <2>2
  <2>3. CASE exec'.todo = 1
    BY <2>3
  <2>4. CASE ReadFile /\ exec.place \in InStep
    <3>1. exec.place \in InStep /\ ReadFileDoes
      BY <1>1, <2>4, FileIsLookedAt
    <3>2. exec.out \in Memory
      <4>1. InTheTool(exec, documents) /\ Sound(exec, documents) /\ Key = Order[exec.index]
        BY <1>1, <3>1, AtWork
      <4> QED  BY <1>3, <4>1 DEF InTheTool, ReadSoFar, Sound, Memory
    <3>3. ASSUME n = exec.todo PROVE d = ThisDocument /\ d \in Known
      BY <1>1, <1>4, <2>1, <3>3, ThisIsNewest DEF ThisFile
    <3>4. CASE /\ ThisDocument \in Known /\ exec.run \in ToSet(documents[ThisDocument].readBy)
               /\ exec'.out = [exec.out EXCEPT !.document_ids =
                                    Append(exec.out.document_ids, ThisDocument)]
               /\ exec'.todo = exec.todo + 1
      <4>1. exec'.out.document_ids = Append(exec.out.document_ids, ThisDocument)
        BY <3>2, <3>4, MemoryFields
      <4>2. ThisDocument \in Nat
        BY <1>1, <3>4 DEF DocumentsChange
      <4>3. ToSet(exec'.out.document_ids) = ToSet(exec.out.document_ids) \cup {ThisDocument}
        BY <1>6, <3>1, <4>1, <4>2, Appended
      <4>4. n = exec.todo \/ n \in 1 .. (exec.todo - 1)
        BY <1>6, <3>1, <3>4
      <4> QED  BY <1>5, <2>1, <3>1, <3>3, <4>3, <4>4
    <3>5. CASE /\ ThisDocument \in Known /\ exec.run \notin ToSet(documents[ThisDocument].readBy)
               /\ exec'.todo = exec.todo + 1 /\ exec'.out = exec.out
      <4>1. n = exec.todo \/ n \in 1 .. (exec.todo - 1)
        BY <1>6, <3>1, <3>5
      <4>2. n # exec.todo
        BY <1>2, <1>4, <2>1, <3>3, <3>5
      <4> QED  BY <1>5, <2>1, <3>1, <3>5, <4>1, <4>2
    <3>6. CASE exec'.todo = exec.todo /\ exec'.out = exec.out
      BY <1>5, <2>1, <3>1, <3>6
    <3> QED  BY <3>1, <3>4, <3>5, <3>6 DEF ReadFileDoes, Rest, ExecFields
  <2>5. ~(CheckSome \/ AppendRows \/ Escalate)
    BY <1>3 DEF CheckSome, AppendRows, Escalate, InTool
  <2> QED  BY <1>8, <2>2, <2>3, <2>4, <2>5 DEF StepGoesOn
<1> QED  BY <1>7, <1>8

\* Within a step nothing of this is lost.
LEMMA StaysOnTheWay ==
    ASSUME NEW l, NEW rd, NEW c, NEW w, Dealing(l, rd, c, w), SamePass, ~exec.resume,
           StepGoesOn \/ exec' = exec,
           OnTheWay(l, rd, c, exec, step, mtime, documents)
    PROVE  OnTheWay(l, rd, c, exec', step', mtime', documents')
<1>1. /\ Shape /\ Readings /\ Rows /\ DocumentsChange /\ StepsChange /\ Everything
  BY TurnChanges, StepsMove DEF Dealing, Turn
<1>2. PICK r \in Runs : r = exec.run
  BY <1>1 DEF SamePass, Shape
<1>3. /\ exec'.run = r /\ exec'.memory = exec.memory /\ exec'.index = exec.index
      /\ exec'.outcome = exec.outcome /\ ~exec'.resume /\ exec.index \in Nat
  BY <1>1, <1>2 DEF SamePass, StepGoesOn, Rest, ExecFields, Shape
<1>4. /\ ListedAgain(l, exec, mtime, documents) /\ HandedOn(rd, c, exec, mtime, documents)
      /\ SortedOut(c, exec, step, mtime, documents)
      /\ exec.index = rd /\ exec.place \in InStep => ReadAgain(exec, documents)
  BY <1>2, RunsAreNotNone DEF OnTheWay
<1>5. l < rd /\ rd < c /\ l \in Nat /\ rd \in Nat /\ c \in Nat /\ c \in 1 .. Len(Order)
      /\ Len(Order) \in Nat
  BY OrderIsFinite DEF Dealing, TemplateAt, ReadsAt
<1>6. \A d \in NewOnes(exec', mtime', documents') :
        \/ d \in NewOnes(exec, mtime, documents) /\ documents'[d].invoice = documents[d].invoice
        \/ ReadAnswer /\ exec.index = rd /\ documents'[d].invoice = ThisFile
  BY NewOnesStay
<1>7. ReadAnswer => ThisFile \in ToSet(exec.memory.files)
  BY ThisFileIsFresh DEF Dealing, Turn
<1>8. ListedAgain(l, exec', mtime', documents')
  BY <1>3, <1>4, <1>6, <1>7 DEF ListedAgain
<1>9. exec'.index = rd /\ exec'.place \in InStep => ReadAgain(exec', documents')
  BY <1>3, <1>4, ReadingOn
<1>10. HandedOn(rd, c, exec', mtime', documents')
  BY <1>3, <1>4, <1>5, <1>6 DEF HandedOn
<1>11. SortedOut(c, exec', step', mtime', documents')
  <2>1. ASSUME exec.index > c, step[r][Order[c]] = "SUCCEEDED"
        PROVE  step'[r][Order[c]] = "SUCCEEDED"
    <3>1. Order[c] \in Keys
      BY <1>5 DEF Keys
    <3>2. ~(Key = Order[c] /\ exec.index \in 1 .. Len(Order))
      BY <1>3, <1>5, <2>1 DEF Dealing, TemplateAt, Key
    <3> QED  BY <1>1, <2>1, <3>1, <3>2 DEF StepsChange
  <2>2. exec.index <= c => exec'.memory.passed = << >> /\ exec'.memory.review = << >>
    BY <1>3, <1>4 DEF SortedOut
  <2>3. ASSUME exec.index > c
        PROVE  /\ \A d \in NewOnes(exec', mtime', documents') : Sorted(d, exec')
               /\ \/ step'[r][Order[c]] = "SUCCEEDED" /\ exec'.outcome[Order[c]] = "SUCCEEDED"
                  \/ exec'.memory.passed = << >> /\ exec'.memory.review = << >>
    <3>1. \A d \in NewOnes(exec', mtime', documents') : d \in NewOnes(exec, mtime, documents)
      BY <1>3, <1>5, <1>6, <2>3
    <3>2. \/ step[r][Order[c]] = "SUCCEEDED" /\ exec.outcome[Order[c]] = "SUCCEEDED"
          \/ exec.memory.passed = << >> /\ exec.memory.review = << >>
      BY <1>2, <1>4, <2>3 DEF SortedOut
    <3>3. \A d \in NewOnes(exec, mtime, documents) : Sorted(d, exec)
      BY <1>4, <2>3 DEF SortedOut
    <3> QED  BY <1>3, <2>1, <2>3, <3>1, <3>2, <3>3 DEF Sorted
  <2> QED  BY <1>3, <2>2, <2>3 DEF SortedOut
<1> QED  BY <1>3, <1>8, <1>9, <1>10, <1>11 DEF OnTheWay

\* The step that checks sorts all it is given, or is given nothing.
LEMMA CheckEnds ==
    ASSUME NEW l, NEW rd, NEW c, NEW w, Dealing(l, rd, c, w), StepIsOver, ~exec.resume,
           exec.index = c, HandedOn(rd, c, exec, mtime, documents)
    PROVE  \/ SkipStep /\ exec.memory.document_ids = << >>
           \/ /\ CheckRest
              /\ ToSet(exec'.memory.passed) \cup ToSet(exec'.memory.review)
                    = ToSet(exec.memory.document_ids)
<1>1. /\ Shape /\ Progress /\ Readings /\ Papers(exec, documents)
  BY TurnChanges DEF Dealing
<1>2. /\ Workflow.tool[Key] = "check" /\ Parent[Key] = {Order[rd]} /\ Key = Order[exec.index]
      /\ Workflow.onError[Key] # "skip" /\ Input(Key) = exec.memory.document_ids
      /\ rd < c /\ c \in 1 .. Len(Order) /\ rd \in 1 .. Len(Order)
  BY DEF Dealing, TemplateAt, ReadsAt, Key, Input
<1>3. exec.outcome[Order[rd]] = "SUCCEEDED" \/ exec.memory.document_ids = << >>
  BY <1>2, OrderIsFinite DEF HandedOn
<1>4. CASE SkipStep
  <2>1. ParentsDone(Key) <=> exec.outcome[Order[rd]] \in OK_OUTCOMES
    BY <1>2 DEF ParentsDone
  <2> QED  BY <1>2, <1>3, <1>4, <2>1 DEF SkipStep, HasInput, OK_OUTCOMES
<1>5. CASE CheckRest
  BY <1>1, <1>2, <1>5, CheckRestKeepsPapers
<1>6. ~StepDone
  <2>1. CASE exec.place = "done"
    <3>1. InTheTool(exec, documents)
      BY <1>1, <2>1, AtWork DEF InStep
    <3> QED  BY <1>2, <2>1, <3>1 DEF InTheTool
  <2> QED  BY <1>2, <2>1 DEF StepDone, InTool
<1>7. ~PassOver /\ ~ListNewFiles /\ ~LeaveOut
  BY <1>2 DEF PassOver, ListNewFiles, InTool, LeaveOut, ResumeKeys, Keys, StepIsOver
<1> QED  BY <1>4, <1>5, <1>6, <1>7 DEF StepIsOver

\* A step that is over has neither read nor moved anything in the folder.
LEMMA OverIsQuiet ==
    ASSUME NEW l, NEW rd, NEW c, NEW w, Dealing(l, rd, c, w), StepIsOver, ~exec.resume
    PROVE  /\ mtime' = mtime /\ SamePass /\ exec.run \in Runs /\ exec'.run = exec.run
           /\ exec'.index = exec.index + 1 /\ exec'.place = "start" /\ ~exec'.resume
           /\ exec.index \in 1 .. Len(Order) /\ Key = Order[exec.index] /\ Key \in Keys
           /\ \A d \in NewOnes(exec', mtime', documents') :
                d \in NewOnes(exec, mtime, documents) /\ d \in Known
                /\ documents'[d].invoice = documents[d].invoice
           /\ \A n \in 1 .. Len(Order) :
                Workflow.tool[Order[n]] \in {"list", "read", "check"} /\ n # exec.index =>
                    /\ exec'.outcome[Order[n]] = exec.outcome[Order[n]]
                    /\ \A r \in Runs : step[r][Order[n]] # "none" =>
                            step'[r][Order[n]] = step[r][Order[n]]
<1>1. /\ Shape /\ Readings /\ Rows /\ DocumentsChange /\ StepsChange /\ ClockChange /\ Everything
  BY TurnChanges, StepsMove DEF Dealing, Turn
<1>2. /\ SamePass /\ exec.run \in Runs /\ exec'.run = exec.run
      /\ exec'.index = exec.index + 1 /\ exec'.place = "start" /\ ~exec'.resume
      /\ exec.index \in 1 .. Len(Order) /\ Key = Order[exec.index] /\ Key \in Keys
  BY <1>1, KeyIsAKey DEF SamePass, Shape, StepIsOver, Rest, ExecFields, Key
<1>3. mtime' = mtime
  BY <1>1, StepLeavesFiles
<1>4. ~ReadAnswer
  <2>1. ReadAnswer => exec'.place = "tool"
    BY <1>1, AnswerIsUsed DEF ReadAnswerDoes
  <2> QED  BY <1>2, <2>1
<1>5. \A d \in NewOnes(exec', mtime', documents') :
            d \in NewOnes(exec, mtime, documents) /\ d \in Known
            /\ documents'[d].invoice = documents[d].invoice
  BY <1>2, <1>4, NewOnesStay
<1>6. ASSUME NEW n \in 1 .. Len(Order), n # exec.index,
             Workflow.tool[Order[n]] \in {"list", "read", "check"}
      PROVE  /\ exec'.outcome[Order[n]] = exec.outcome[Order[n]]
             /\ \A r \in Runs : step[r][Order[n]] # "none" => step'[r][Order[n]] = step[r][Order[n]]
  <2>1. Key # Order[n] /\ Order[n] \in Keys
    <3>1. Order[n] \in Keys
      BY DEF Keys
    <3> QED  BY <1>2, <1>6, <3>1 DEF Dealing, TemplateAt
  <2>2. \E outcome : exec'.outcome = [exec.outcome EXCEPT ![Key] = outcome]
    BY DEF StepIsOver
  <2> QED  BY <1>1, <2>1, <2>2 DEF StepsChange
<1> QED  BY <1>2, <1>3, <1>5, <1>6

LEMMA OverListed ==
    ASSUME NEW l, NEW rd, NEW c, NEW w, Dealing(l, rd, c, w), StepIsOver, ~exec.resume,
           ListedAgain(l, exec, mtime, documents)
    PROVE  ListedAgain(l, exec', mtime', documents')
<1>1. /\ Shape /\ Rows /\ Filing /\ Everything
  BY TurnChanges DEF Dealing, Turn
<1>2. /\ mtime' = mtime /\ exec.run \in Runs
      /\ exec'.index = exec.index + 1 /\ Key = Order[exec.index] /\ exec.index \in Nat
      /\ \A d \in NewOnes(exec', mtime', documents') :
            d \in NewOnes(exec, mtime, documents) /\ d \in Known
            /\ documents'[d].invoice = documents[d].invoice
  BY <1>1, OverIsQuiet DEF Shape
<1>3. l \in Nat
  BY DEF Dealing, TemplateAt, ReadsAt
<1> SUFFICES ASSUME exec'.index > l, NEW d \in NewOnes(exec', mtime', documents')
             PROVE  documents'[d].invoice \in ToSet(exec'.memory.files)
  BY DEF ListedAgain
<1>4. d \in NewOnes(exec, mtime, documents) /\ d \in Known
      /\ documents'[d].invoice = documents[d].invoice
  BY <1>2
<1>5. CASE ListNewFiles
  <2>1. documents[d].invoice \in Invoices
    BY <1>1, <1>4 DEF Filing
  <2>2. documents[d].invoice \in NewFiles
    BY <1>4, <2>1 DEF NewOnes, NewFiles
  <2> QED  BY <1>1, <1>4, <1>5, <2>2, NewFilesAreListed
<1>6. CASE ~ListNewFiles
  <2>1. exec.index # l
    <3>1. ASSUME exec.index = l PROVE FALSE
      BY <1>1, <1>2, <1>6, <3>1, ListingEnds DEF Dealing, TemplateAt, ReadsAt
    <3> QED  BY <3>1
  <2>2. exec.index > l
    BY <1>2, <1>3, <2>1
  <2>3. exec'.memory.files = exec.memory.files
    BY <1>1, <1>6, FilesStay
  <2> QED  BY <1>4, <2>2, <2>3 DEF ListedAgain
<1> QED  BY <1>5, <1>6

LEMMA OverHanded ==
    ASSUME NEW l, NEW rd, NEW c, NEW w, Dealing(l, rd, c, w), WritesWhatPassed, StepIsOver,
           ~exec.resume, exec.outcome[Order[l]] = "SUCCEEDED" \/ exec.index <= l,
           DOMAIN exec.outcome = Keys, OnTheWay(l, rd, c, exec, step, mtime, documents)
    PROVE  HandedOn(rd, c, exec', mtime', documents')
<1>1. /\ Shape /\ Progress /\ Readings /\ Papers(exec, documents) /\ Everything
  BY TurnChanges DEF Dealing, Turn
<1>2. /\ exec.run \in Runs /\ exec.run # None
      /\ exec'.index = exec.index + 1 /\ Key = Order[exec.index] /\ Key \in Keys
      /\ exec.index \in Nat
      /\ \A d \in NewOnes(exec', mtime', documents') :
            d \in NewOnes(exec, mtime, documents) /\ d \in Known
            /\ documents'[d].invoice = documents[d].invoice
  BY <1>1, OverIsQuiet, RunsAreNotNone DEF Shape
<1>3. l < rd /\ rd < c /\ l \in Nat /\ rd \in Nat /\ c \in Nat /\ rd \in 1 .. Len(Order)
      /\ Workflow.tool[Order[rd]] = "read" /\ Workflow.tool[Order[c]] = "check"
  BY DEF Dealing, TemplateAt, ReadsAt
<1>4. /\ ListedAgain(l, exec, mtime, documents) /\ HandedOn(rd, c, exec, mtime, documents)
      /\ exec.index = rd /\ exec.place \in InStep => ReadAgain(exec, documents)
  BY <1>2 DEF OnTheWay
<1>5. exec.index < c => ~CheckRest
  <2>1. CheckRest => Workflow.tool[Key] = "check"
    BY DEF CheckRest, InTool
  <2> QED  BY <1>2, <1>3, <2>1 DEF Dealing, TemplateAt, StepIsOver
<1>6. exec.index # rd => ~InTool("read")
  BY <1>2 DEF Dealing, TemplateAt, StepIsOver, InTool
<1>7. ASSUME exec.index < rd PROVE exec'.memory.document_ids = << >>
  <2>1. exec'.memory.document_ids = exec.memory.document_ids
    BY <1>1, <1>2, <1>3, <1>5, <1>6, <1>7, MemoryAfter
  <2>2. exec.index <= rd
    BY <1>2, <1>3, <1>7
  <2> QED  BY <1>4, <2>1, <2>2 DEF HandedOn
<1>8. ASSUME exec.index = rd
      PROVE  /\ exec'.outcome[Order[rd]] = "SUCCEEDED" \/ exec'.memory.document_ids = << >>
             /\ NewOnes(exec', mtime', documents') \subseteq ToSet(exec'.memory.document_ids)
  <2>1. exec.index > l /\ exec.index <= rd /\ ~(exec.index <= l)
    BY <1>2, <1>3, <1>8
  <2>2. \A d \in NewOnes(exec, mtime, documents) :
            documents[d].invoice \in ToSet(exec.memory.files)
    BY <1>4, <2>1 DEF ListedAgain
  <2>3. CASE SkipStep /\ exec.memory.files = << >>
    <3>1. exec'.memory.document_ids = << >>
      <4>1. ~CheckRest /\ ~(StepDone /\ InTool("read"))
        BY <2>3 DEF SkipStep, AtStart, CheckRest, InTool
      <4> QED  BY <1>1, <1>4, <2>1, <4>1, MemoryAfter DEF HandedOn
    <3>2. ToSet(<< >>) = {}
      BY DEF ToSet
    <3> QED  BY <1>2, <2>2, <2>3, <3>1, <3>2
  <2>4. CASE StepDone /\ InTool("read") /\ exec.todo > Len(exec.memory.files)
    <3>1. exec'.memory = exec.out /\ exec'.outcome = [exec.outcome EXCEPT ![Key] = "SUCCEEDED"]
      BY <1>1, <2>4, CompleteDoes DEF StepDone
    <3>2. exec'.outcome[Order[rd]] = "SUCCEEDED"
      BY <1>2, <1>8, <3>1
    <3>3. /\ exec.todo \in Nat \ {0} /\ Len(exec.memory.files) \in Nat
          /\ DOMAIN exec.memory.files = 1 .. Len(exec.memory.files)
      BY <1>1, <2>4, ReadingAFile
    <3>4. ReadAgain(exec, documents)
      BY <1>4, <1>8, <2>4 DEF InTool, InStep
    <3>5. ASSUME NEW d \in NewOnes(exec, mtime, documents)
          PROVE  d \in ToSet(exec.out.document_ids)
      <4>1. documents[d].invoice \in ToSet(exec.memory.files)
        BY <2>2
      <4>2. PICK n \in 1 .. Len(exec.memory.files) :
                exec.memory.files[n] = documents[d].invoice
        BY <3>3, <4>1 DEF ToSet
      <4>3. n \in 1 .. (exec.todo - 1)
        BY <2>4, <3>3
      <4>4. d \in Own(exec.run, documents) /\ Newest(d, documents)
        BY DEF NewOnes
      <4> QED  BY <3>4, <4>2, <4>3, <4>4 DEF ReadAgain
    <3> QED  BY <1>2, <3>1, <3>2, <3>5
  <2> QED  BY <1>1, <1>8, <2>1, <2>3, <2>4, ReadEnds DEF Dealing, TemplateAt
<1>9. ASSUME exec.index > rd, exec.index < c
      PROVE  /\ exec'.outcome[Order[rd]] = "SUCCEEDED" \/ exec'.memory.document_ids = << >>
             /\ NewOnes(exec', mtime', documents') \subseteq ToSet(exec'.memory.document_ids)
  <2>1. exec'.memory.document_ids = exec.memory.document_ids
    BY <1>1, <1>2, <1>3, <1>5, <1>6, <1>9, MemoryAfter
  <2>2. exec'.outcome[Order[rd]] = exec.outcome[Order[rd]]
    BY <1>2, <1>3, <1>9, OverIsQuiet
  <2>3. rd < exec.index /\ exec.index <= c
    BY <1>2, <1>3, <1>9
  <2> QED  BY <1>2, <1>4, <2>1, <2>2, <2>3 DEF HandedOn
<1>10. exec'.index <= rd => exec.index < rd
  BY <1>2, <1>3
<1>11. rd < exec'.index /\ exec'.index <= c => exec.index = rd \/ (exec.index > rd /\ exec.index < c)
  BY <1>2, <1>3
<1> QED  BY <1>7, <1>8, <1>9, <1>10, <1>11 DEF HandedOn

LEMMA OverSorted ==
    ASSUME NEW l, NEW rd, NEW c, NEW w, Dealing(l, rd, c, w), WritesWhatPassed, StepIsOver,
           ~exec.resume, DOMAIN exec.outcome = Keys,
           OnTheWay(l, rd, c, exec, step, mtime, documents)
    PROVE  SortedOut(c, exec', step', mtime', documents')
<1>1. /\ Shape /\ Progress /\ Readings /\ Papers(exec, documents) /\ Everything
  BY TurnChanges DEF Dealing, Turn
<1>2. PICK r \in Runs : r = exec.run
  BY <1>1, OverIsQuiet
<1>3. /\ exec.run # None /\ exec'.run = r
      /\ exec'.index = exec.index + 1 /\ Key = Order[exec.index] /\ Key \in Keys
      /\ exec.index \in Nat /\ exec.index \in 1 .. Len(Order)
      /\ \A d \in NewOnes(exec', mtime', documents') :
            d \in NewOnes(exec, mtime, documents)
  BY <1>1, <1>2, OverIsQuiet, RunsAreNotNone DEF Shape
<1>4. rd < c /\ rd \in Nat /\ c \in Nat /\ c \in 1 .. Len(Order)
      /\ Workflow.tool[Order[c]] = "check"
  BY DEF Dealing, TemplateAt, ReadsAt
<1>5. HandedOn(rd, c, exec, mtime, documents) /\ SortedOut(c, exec, step, mtime, documents)
  BY <1>3 DEF OnTheWay
<1>6. exec.index # c => ~CheckRest
  <2>1. CheckRest => Workflow.tool[Key] = "check"
    BY DEF CheckRest, InTool
  <2> QED  BY <1>3, <2>1 DEF Dealing, TemplateAt
<1>7. ASSUME exec.index < c PROVE exec'.memory.passed = << >> /\ exec'.memory.review = << >>
  <2>1. exec.index <= c /\ exec.index # c
    BY <1>3, <1>4, <1>7
  <2>2. exec.memory.passed = << >> /\ exec.memory.review = << >>
    BY <1>5, <2>1 DEF SortedOut
  <2> QED  BY <1>1, <1>6, <2>1, <2>2, MemoryAfter
<1>8. ASSUME exec.index > c
      PROVE  /\ \A d \in NewOnes(exec', mtime', documents') : Sorted(d, exec')
             /\ \/ step'[r][Order[c]] = "SUCCEEDED" /\ exec'.outcome[Order[c]] = "SUCCEEDED"
                \/ exec'.memory.passed = << >> /\ exec'.memory.review = << >>
  <2>1. exec.index # c /\ ~CheckRest
    BY <1>3, <1>4, <1>6, <1>8
  <2>2. exec'.memory.passed = exec.memory.passed /\ exec'.memory.review = exec.memory.review
    BY <1>1, <2>1, MemoryAfter
  <2>3. /\ exec'.outcome[Order[c]] = exec.outcome[Order[c]]
        /\ step[r][Order[c]] # "none" => step'[r][Order[c]] = step[r][Order[c]]
    BY <1>3, <1>4, <2>1, OverIsQuiet
  <2>4. /\ \A d \in NewOnes(exec, mtime, documents) : Sorted(d, exec)
        /\ \/ step[r][Order[c]] = "SUCCEEDED" /\ exec.outcome[Order[c]] = "SUCCEEDED"
           \/ exec.memory.passed = << >> /\ exec.memory.review = << >>
    BY <1>2, <1>5, <1>8 DEF SortedOut
  <2> QED  BY <1>3, <2>2, <2>3, <2>4 DEF Sorted
<1>9. ASSUME exec.index = c
      PROVE  /\ \A d \in NewOnes(exec', mtime', documents') : Sorted(d, exec')
             /\ \/ step'[r][Order[c]] = "SUCCEEDED" /\ exec'.outcome[Order[c]] = "SUCCEEDED"
                \/ exec'.memory.passed = << >> /\ exec'.memory.review = << >>
  <2>1. rd < exec.index /\ exec.index <= c
    BY <1>3, <1>4, <1>9
  <2>2. NewOnes(exec, mtime, documents) \subseteq ToSet(exec.memory.document_ids)
    BY <1>5, <2>1 DEF HandedOn
  <2>3. CASE SkipStep /\ exec.memory.document_ids = << >>
    <3>1. ToSet(<< >>) = {}
      BY DEF ToSet
    <3>2. NewOnes(exec', mtime', documents') = {}
      BY <1>3, <2>2, <2>3, <3>1
    <3>3. ~CheckRest
      BY <2>3 DEF SkipStep, AtStart, CheckRest, InTool
    <3>4. exec.memory.passed = << >> /\ exec.memory.review = << >>
      BY <1>5, <2>1 DEF SortedOut
    <3> QED  BY <1>1, <3>2, <3>3, <3>4, MemoryAfter
  <2>4. CASE /\ CheckRest
             /\ ToSet(exec'.memory.passed) \cup ToSet(exec'.memory.review)
                    = ToSet(exec.memory.document_ids)
    <3>1. \A d \in NewOnes(exec', mtime', documents') : Sorted(d, exec')
      BY <1>3, <2>2, <2>4 DEF Sorted
    <3>2. exec'.outcome = [exec.outcome EXCEPT ![Key] = "SUCCEEDED"] /\ Mark("SUCCEEDED")
      BY <1>1, <2>4, CompleteDoes DEF CheckRest, Complete
    <3>3. exec'.outcome[Order[c]] = "SUCCEEDED"
      BY <1>3, <1>9, <3>2
    <3>4. step'[r][Order[c]] = "SUCCEEDED"
      <4>1. step' = [step EXCEPT ![r] = [step[r] EXCEPT ![Key] = "SUCCEEDED"]]
        BY <1>2, <3>2 DEF Mark
      <4> QED  BY <1>1, <1>2, <1>3, <1>9, <4>1 DEF Shape
    <3> QED  BY <3>1, <3>3, <3>4
  <2> QED  BY <1>5, <1>9, <2>3, <2>4, CheckEnds
<1>10. (exec'.index <= c => exec.index < c) /\ (exec'.index > c => exec.index = c \/ exec.index > c)
  BY <1>3, <1>4
<1> QED  BY <1>3, <1>7, <1>8, <1>9, <1>10 DEF SortedOut

LEMMA OnTheWayHolds ==
    ASSUME NEW l, NEW rd, NEW c, NEW w, Dealing(l, rd, c, w), WritesWhatPassed,
           Toward(l, rd, exec, run[exec.run].started, now, mtime, documents),
           OnTheWay(l, rd, c, exec, step, mtime, documents)
    PROVE  OnTheWay(l, rd, c, exec', step', mtime', documents')
<1>1. /\ Shape /\ ThreadMoves /\ Everything
  BY TurnChanges DEF Dealing, Turn
<1>2. TemplateAt(l, rd, c, w) /\ rd # c /\ l # rd
  BY DEF Dealing, TemplateAt, ReadsAt
<1>3. CASE exec'.run = None
  BY <1>3 DEF OnTheWay
<1>4. ASSUME NEW r \in Runs, Begin(r)
      PROVE  OnTheWay(l, rd, c, exec', step', mtime', documents')
  BY <1>2, <1>4, BeginOnTheWay
<1>5. ASSUME SamePass PROVE OnTheWay(l, rd, c, exec', step', mtime', documents')
  <2>1. CASE exec.resume
    BY <1>5, <2>1 DEF SamePass, OnTheWay
  <2>2. CASE ~exec.resume /\ (StepGoesOn \/ exec' = exec)
    BY <1>5, <2>2, StaysOnTheWay
  <2>3. CASE ~exec.resume /\ StepIsOver
    <3>1. DOMAIN exec.outcome = Keys /\ Listed(l, exec, run[exec.run].started, mtime)
      BY <1>5, <2>3 DEF SamePass, Toward
    <3>2. exec.outcome[Order[l]] = "SUCCEEDED" \/ exec.index <= l
      <4>1. exec.index \in Nat /\ l \in Nat
        BY <1>1, <1>2 DEF Shape, TemplateAt, ReadsAt
      <4> QED  BY <3>1, <4>1 DEF Listed
    <3>3. ListedAgain(l, exec, mtime, documents)
      BY <1>5, <2>3 DEF SamePass, OnTheWay
    <3>4. ListedAgain(l, exec', mtime', documents')
      BY <2>3, <3>3, OverListed
    <3>5. HandedOn(rd, c, exec', mtime', documents')
      BY <2>3, <3>1, <3>2, OverHanded
    <3>6. SortedOut(c, exec', step', mtime', documents')
      BY <2>3, <3>1, OverSorted
    <3>7. exec'.place \notin InStep
      BY <2>3 DEF StepIsOver, InStep
    <3> QED  BY <3>4, <3>5, <3>6, <3>7 DEF OnTheWay
  <2>4. ~\E r \in Runs : Begin(r)
    BY Zenon, <1>5 DEF SamePass, Begin
  <2>5. exec' # Idle
    BY <1>1, <1>5, IdlePass DEF SamePass
  <2> QED  BY <1>1, <2>1, <2>2, <2>3, <2>4, <2>5 DEF ThreadMoves
<1> QED  BY <1>1, <1>3, <1>4, <1>5, PassGoesOn

-----------------------------------------------------------------------------
(* What was written, and what a review leaves to be written. *)

\* Behind the step that writes, what passed is in a workbook.
Written(w) ==
    \A r \in Runs :
        r = exec.run /\ (exec.index > w \/ (exec.index = w /\ exec.place = "done")) =>
            ToSet(exec.memory.passed) \subseteq Booked(r)

\* A pass after a review finds nothing to escalate, and, unless it was cancelled,
\* what is ok passed or was written before.
Resumed(c) ==
    exec.run # None /\ exec.resume =>
        /\ exec.memory.review = << >>
        /\ exec.index > c => exec.outcome[Order[c]] = "SUCCEEDED"
        /\ \A r \in Runs : r = exec.run /\ run[r].status = "running" =>
            \A d \in Due(r, run, mtime, documents) :
                documents[d].status = "ok" => d \in ToSet(exec.memory.passed) \cup Booked(r)

\* The step that writes is not skipped when anything passed.
LEMMA WritingEnds ==
    ASSUME NEW l, NEW rd, NEW c, NEW w, Dealing(l, rd, c, w), WritesWhatPassed, StepIsOver,
           OnTheWay(l, rd, c, exec, step, mtime, documents), Resumed(c),
           exec.index = w
    PROVE  exec.place = "done" \/ exec.memory.passed = << >>
<1>1. /\ Shape /\ Progress /\ Readings /\ Papers(exec, documents)
  BY TurnChanges DEF Dealing
<1>2. /\ c < w /\ w \in 1 .. Len(Order) /\ c \in 1 .. Len(Order) /\ Key = Order[exec.index]
      /\ Workflow.tool[Key] = "write" /\ Parent[Key] = {Order[c]}
      /\ Workflow.onError[Key] # "skip" /\ Key \in PassBranch
  BY DEF Dealing, TemplateAt, Key
<1>3. Input(Key) = exec.memory.passed
  <2>1. Condition(Key) = "pass"
    BY <1>2 DEF WritesWhatPassed, Keys
  <2> QED  BY <1>2, <2>1 DEF Input
<1>4. exec.outcome[Order[c]] = "SUCCEEDED" \/ exec.memory.passed = << >>
  <2>1. exec.index > c /\ exec.run # None
    BY <1>2, OrderIsFinite DEF StepIsOver
  <2>2. CASE exec.resume
    BY <2>1, <2>2 DEF Resumed
  <2>3. CASE ~exec.resume
    BY <2>1, <2>3 DEF OnTheWay, SortedOut
  <2> QED  BY <2>2, <2>3
<1>5. CASE SkipStep
  <2>1. ParentsDone(Key) <=> exec.outcome[Order[c]] \in OK_OUTCOMES
    BY <1>2 DEF ParentsDone
  <2> QED  BY <1>2, <1>3, <1>4, <1>5, <2>1 DEF SkipStep, HasInput, OK_OUTCOMES
<1>6. StepDone => exec.place = "done"
  BY <1>2 DEF StepDone, InTool
<1>7. ~PassOver /\ ~ListNewFiles /\ ~CheckRest /\ ~(LeaveOut /\ Key \notin PassBranch)
  BY <1>2 DEF PassOver, ListNewFiles, CheckRest, InTool
<1> QED  BY <1>5, <1>6, <1>7 DEF StepIsOver

LEMMA WrittenHolds ==
    ASSUME NEW l, NEW rd, NEW c, NEW w, Dealing(l, rd, c, w), WritesWhatPassed,
           OnTheWay(l, rd, c, exec, step, mtime, documents), Resumed(c), Written(w)
    PROVE  Written(w)'
<1>1. /\ Shape /\ Progress /\ Readings /\ Papers(exec, documents) /\ Everything
      /\ ThreadMoves /\ BooksChange /\ Shelf
  BY TurnChanges DEF Dealing, Turn
<1>2. /\ c < w /\ w \in 1 .. Len(Order) /\ c \in 1 .. Len(Order) /\ w \in Nat /\ c \in Nat
      /\ w > 1 /\ Workflow.tool[Order[w]] = "write"
  BY OrderIsFinite DEF Dealing, TemplateAt
<1> SUFFICES ASSUME NEW r \in Runs, r = exec'.run,
                    exec'.index > w \/ (exec'.index = w /\ exec'.place = "done")
             PROVE  ToSet(exec'.memory.passed) \subseteq Booked(r)'
  BY DEF Written
<1>3. /\ Booked(r) \subseteq Booked(r)'
      /\ AppendRows /\ r = exec.run => ToSet(Input(Key)) \subseteq Booked(r)'
  BY <1>1, BookedGrows
<1>4. CASE exec' = exec
  BY <1>3, <1>4 DEF Written
<1>5. CASE exec' = Idle
  BY <1>5, IdlePass, RunsAreNotNone
<1>6. ASSUME NEW s \in Runs, Begin(s) PROVE FALSE
  <2>1. exec'.index = 1
    BY <1>6, BeginDoes
  <2> QED  BY <1>2, <2>1
<1>7. CASE StepGoesOn
  <2>1. /\ exec'.index = exec.index /\ exec'.run = exec.run /\ exec'.memory = exec.memory
        /\ exec.index \in 1 .. Len(Order)
    BY <1>7 DEF StepGoesOn, Rest, ExecFields
  <2>2. CASE exec.index > w
    BY <1>3, <2>1, <2>2 DEF Written
  <2>3. CASE exec.index = w /\ exec'.place = "done"
    <3>1. Workflow.tool[Key] = "write" /\ Key \in Keys
      BY <1>2, <2>1, <2>3, KeyIsAKey DEF Key
    <3>2. AppendRows
      <4>1. ~ReadFile /\ ~CheckSome /\ ~Escalate
        BY <3>1 DEF ReadFile, CheckSome, Escalate, InTool
      <4>2. ~ReadAnswer
        <5>1. ReadAnswer => exec'.place = "tool"
          BY <1>1, AnswerIsUsed DEF ReadAnswerDoes
        <5> QED  BY <2>3, <5>1
      <4> QED  BY <1>7, <2>3, <4>1, <4>2 DEF StepGoesOn
    <3>3. Input(Key) = exec.memory.passed
      BY <3>1 DEF WritesWhatPassed, Input
    <3> QED  BY <1>3, <2>1, <3>2, <3>3
  <2> QED  BY <2>1, <2>2, <2>3
<1>8. CASE StepIsOver
  <2>1. /\ exec'.index = exec.index + 1 /\ exec'.run = exec.run /\ exec'.place = "start"
        /\ exec.index \in Nat
    BY <1>1, <1>8 DEF StepIsOver, Rest, ExecFields, Shape
  <2>2. exec.index = w \/ exec.index > w
    BY <1>2, <2>1
  <2>3. ~CheckRest
    <3>1. exec.index # c
      BY <1>2, <2>1, <2>2
    <3>2. exec.index \in 1 .. Len(Order)
      BY <1>8 DEF StepIsOver
    <3> QED  BY <3>1, <3>2 DEF CheckRest, InTool, Key, Dealing, TemplateAt
  <2>4. exec'.memory.passed = exec.memory.passed
    BY <1>1, <1>8, <2>3, MemoryAfter
  <2>5. CASE exec.index > w
    BY <1>3, <2>1, <2>4, <2>5 DEF Written
  <2>6. CASE exec.index = w
    <3>1. exec.place = "done" \/ exec.memory.passed = << >>
      BY <1>8, <2>6, WritingEnds
    <3>2. ToSet(<< >>) = {}
      BY DEF ToSet
    <3> QED  BY <1>3, <2>1, <2>4, <2>6, <3>1, <3>2 DEF Written
  <2> QED  BY <2>2, <2>5, <2>6
<1> QED  BY <1>1, <1>4, <1>5, <1>6, <1>7, <1>8 DEF ThreadMoves

\* What a review leaves: the check of the run is done, and what is ok and not
\* written was accepted; what waits is settled before the run goes on.
Reviewed(c) ==
    \A r \in Runs :
        /\ run[r].reviewed =>
            /\ step[r][Order[c]] = "SUCCEEDED"
            /\ \A d \in Due(r, run, mtime, documents) :
                d \in Booked(r) \/ (documents[d].status = "ok" => documents[d].accepted)
        /\ run[r].reviewed /\ run[r].status \in ACTIVE_STATUSES \cup {"succeeded"} =>
            \A d \in Own(r, documents) : documents[d].status # "needs_review"
        /\ run[r].status = "succeeded" =>
            \A d \in Due(r, run, mtime, documents) :
                d \in Booked(r) \/ documents[d].status \notin {"ok", "needs_review"}

\* The documents of a run that was reviewed, or succeeded, are in the hands of
\* people.
LEMMA InTheirHands ==
    ASSUME NEW l, NEW rd, NEW c, NEW w, Dealing(l, rd, c, w), WritesWhatPassed, Resumed(c),
           NEW r \in Runs, run[r].reviewed \/ run[r].status = "succeeded",
           NEW d \in Own(r, documents')
    PROVE  /\ d \in Own(r, documents) /\ d \in Known
           /\ documents[d].accepted => documents'[d].accepted
           /\ \/ documents'[d].status = documents[d].status
              \/ Decided(documents[d], documents'[d])
<1>1. /\ Shape /\ Progress /\ Readings /\ Papers(exec, documents) /\ Everything
      /\ DocumentsChange
  BY TurnChanges DEF Dealing, Turn
<1>2. r = exec.run => exec.resume /\ exec.run # None
  BY <1>1, RunsAreNotNone DEF Progress, PassInv
<1>3. d \in Own(r, documents)
  <2>1. ~(ReadAnswer /\ r = exec.run)
    BY <1>2, ThisFileIsFresh DEF Dealing, Turn
  <2> QED  BY <1>1, <2>1, OwnChanges
<1>4. d \in Known /\ r \in ToSet(documents[d].readBy) /\ RowChange(d, documents[d], documents'[d])
  BY <1>1, <1>3 DEF Own, Known, DocumentsChange
<1>5. documents[d].readBy # << >>
  <2>1. ToSet(<< >>) = {}
    BY DEF ToSet
  <2> QED  BY <1>4, <2>1
<1>6. ~((CheckSome \/ CheckRest \/ Escalate) /\ d \in ToSet(Input(Key)))
  <2> SUFFICES ASSUME CheckSome \/ CheckRest \/ Escalate, d \in ToSet(Input(Key)) PROVE FALSE
    OBVIOUS
  <2>1. exec.place \in InStep /\ Workflow.tool[Key] \in {"check", "escalate"}
    BY Zenon DEF CheckSome, CheckRest, Escalate, InTool, InStep
  <2>2. /\ exec.run \in Runs /\ exec.run # None /\ Sound(exec, documents) /\ Key \in Keys
    BY <1>1, <2>1, AtWork, KeyIsAKey
  <2>3. d \in Own(exec.run, documents)
    BY <2>1, <2>2, InputFacts
  <2>4. r = exec.run
    <3>1. ToSet(<< >>) = {} /\ \A x : ToSet(<< x >>) = {x}
      BY DEF ToSet
    <3>2. exec.run \in ToSet(documents[d].readBy)
      BY <2>3 DEF Own
    <3>3. ReadAtMostOnce(documents[d])
      BY <1>1, <1>4 DEF Readings
    <3>4. PICK s \in Runs \cup {None} : documents[d].readBy = << s >>
      BY <1>5, <3>3 DEF ReadAtMostOnce
    <3>5. r = s /\ exec.run = s
      BY <1>4, <3>1, <3>2, <3>4
    <3> QED  BY <3>5
  <2>5. exec.resume
    BY <1>2, <2>4
  <2>6. Workflow.tool[Key] = "escalate"
    BY <1>1, <2>1, <2>5, BeforeTheReview DEF Dealing
  <2>7. Input(Key) = exec.memory.review
    BY <2>2, <2>6 DEF WritesWhatPassed, Input
  <2>8. exec.memory.review = << >>
    BY <2>2, <2>5 DEF Resumed
  <2>9. ToSet(<< >>) = {}
    BY DEF ToSet
  <2> QED  BY <2>7, <2>8, <2>9
<1> QED  BY <1>3, <1>4, <1>5, <1>6 DEF RowChange

\* The check of a run that was reviewed is not done again.
LEMMA CheckIsDone ==
    ASSUME NEW l, NEW rd, NEW c, NEW w, Dealing(l, rd, c, w), Reviewed(c),
           NEW r \in Runs, run[r].reviewed
    PROVE  step'[r][Order[c]] = "SUCCEEDED"
<1>1. Shape /\ Progress /\ StepsChange
  BY TurnChanges, StepsMove DEF Dealing
<1>2. step[r][Order[c]] = "SUCCEEDED"
  BY DEF Reviewed
<1>3. Order[c] \in Keys /\ Order[c] \notin PassBranch
  BY DEF Dealing, TemplateAt, Keys
<1>4. r = exec.run => exec.resume
  BY <1>1, RunsAreNotNone DEF Progress, PassInv
<1> QED  BY <1>1, <1>2, <1>3, <1>4 DEF StepsChange

\* What becomes of a document its run answers for.
LEMMA DueIsSettled ==
    ASSUME NEW l, NEW rd, NEW c, NEW w, Dealing(l, rd, c, w), WritesWhatPassed, Resumed(c),
           Reviewed(c), NEW r \in Runs, NEW d \in Due(r, run', mtime', documents')
    PROVE  /\ run[r].reviewed =>
                d \in Booked(r)' \/ (documents'[d].status = "ok" => documents'[d].accepted)
           /\ run[r].status = "succeeded" =>
                d \in Booked(r)' \/ documents'[d].status \notin {"ok", "needs_review"}
<1>1. Shelf /\ BooksChange
  BY TurnChanges DEF Dealing
<1>2. Booked(r) \subseteq Booked(r)'
  BY <1>1, BookedGrows
<1>3. ASSUME run[r].reviewed \/ run[r].status = "succeeded"
      PROVE  /\ d \in Due(r, run, mtime, documents)
             /\ documents[d].accepted => documents'[d].accepted
             /\ \/ documents'[d].status = documents[d].status
                \/ Decided(documents[d], documents'[d])
  <2>1. d \in Own(r, documents')
    BY DEF Due
  <2>2. /\ d \in Own(r, documents)
        /\ documents[d].accepted => documents'[d].accepted
        /\ \/ documents'[d].status = documents[d].status
           \/ Decided(documents[d], documents'[d])
    BY <1>3, <2>1, InTheirHands
  <2> QED  BY <2>2, DueShrinks DEF Dealing
<1>4. CASE run[r].reviewed
  BY <1>2, <1>3, <1>4 DEF Reviewed, Decided
<1>5. CASE run[r].status = "succeeded"
  BY <1>2, <1>3, <1>5 DEF Reviewed, Decided
<1> QED  BY <1>4, <1>5

\* What this argument keeps of the pass.
Handling(l, rd, c, w) ==
    /\ OnTheWay(l, rd, c, exec, step, mtime, documents)
    /\ Written(w) /\ Resumed(c) /\ Reviewed(c) /\ Rivals
    /\ Judged(exec, documents)

\* A first pass that has come to its end has sorted what its run answers for, and
\* written what passed.
LEMMA FirstPassEnds ==
    ASSUME NEW l, NEW rd, NEW c, NEW w, Dealing(l, rd, c, w), WritesWhatPassed,
           Handling(l, rd, c, w), Finish, ~exec.resume, NEW r \in Runs, r = exec.run
    PROVE  /\ books' = books /\ documents' = documents /\ step' = step
           /\ \A d \in Due(r, run', mtime', documents') :
                \/ d \in Booked(r)
                \/ d \in ToSet(exec.memory.review)
                   /\ (documents[d].status = "ok" => documents[d].accepted)
           /\ exec.memory.review # << >> => step[r][Order[c]] = "SUCCEEDED"
<1>1. /\ Shape /\ Readings /\ Everything
  BY TurnChanges DEF Dealing, Turn
<1>2. /\ exec.place = "start" /\ exec.index > Len(Order)
      /\ UNCHANGED << now, mtime, documents, step, books >> /\ r # None
  BY RunsAreNotNone DEF Finish
<1>3. exec.index > c /\ exec.index > w
  <2>1. c \in 1 .. Len(Order) /\ w \in 1 .. Len(Order)
    BY DEF Dealing, TemplateAt
  <2> QED  BY <1>1, <1>2, <2>1, OrderIsFinite DEF Shape
<1>4. /\ \A d \in NewOnes(exec, mtime, documents) : Sorted(d, exec)
      /\ \/ step[r][Order[c]] = "SUCCEEDED"
         \/ exec.memory.passed = << >> /\ exec.memory.review = << >>
  BY <1>2, <1>3 DEF Handling, OnTheWay, SortedOut
<1>5. ToSet(exec.memory.passed) \subseteq Booked(r)
  BY <1>3 DEF Handling, Written
<1>6. \A d \in ToSet(exec.memory.review) : documents[d].status = "ok" => documents[d].accepted
  <2>1. ~InCheck(exec)
    BY <1>2 DEF InCheck, InStep
  <2> QED  BY <1>2, <2>1 DEF Handling, Judged, Answered
<1>7. ASSUME NEW d \in Due(r, run', mtime', documents')
      PROVE  d \in Booked(r) \/ d \in ToSet(exec.memory.review)
  <2>1. d \in Own(r, documents)
    BY <1>2, <1>7 DEF Due
  <2>2. d \in Due(r, run, mtime, documents)
    BY <2>1, DueShrinks DEF Dealing
  <2>3. Time(d) > exec.since
    BY <1>2, <2>2 DEF Handling, Rivals
  <2>4. d \in NewOnes(exec, mtime, documents)
    BY <2>2, <2>3 DEF NewOnes, Due, Time
  <2> QED  BY <1>4, <1>5, <2>4 DEF Sorted
<1> QED  BY <1>2, <1>4, <1>6, <1>7

LEMMA ReviewedHolds1 ==
    ASSUME NEW l, NEW rd, NEW c, NEW w, Dealing(l, rd, c, w), WritesWhatPassed,
           Handling(l, rd, c, w), NEW r \in Runs, run'[r].reviewed
    PROVE  /\ step'[r][Order[c]] = "SUCCEEDED"
           /\ \A d \in Due(r, run', mtime', documents') :
                d \in Booked(r)' \/ (documents'[d].status = "ok" => documents'[d].accepted)
<1>1. /\ Shape /\ Rows /\ RunsChange
  BY TurnChanges DEF Dealing
<1>2. RunFacts(r, run[r], run'[r]) /\ run[r].reviewed \in BOOLEAN
  BY <1>1, RunIsFollowed DEF Rows, RunRow
<1>3. CASE run[r].reviewed
  BY <1>3, CheckIsDone, DueIsSettled DEF Handling
<1>4. CASE ~run[r].reviewed
  <2>1. Finish /\ r = exec.run /\ ~exec.resume /\ run'[r].status = "needs_review"
        /\ run[r].status = "running"
    BY <1>2, <1>4 DEF RunFacts
  <2>2. exec.memory.review # << >>
    <3>1. CASE exec.memory.review = << >>
      <4>1. \/ run' = [run EXCEPT ![r].status = "succeeded",
                                  ![r].reviewed = run[r].reviewed]
            \/ run' = run
        BY <1>4, <2>1, <3>1 DEF Finish
      <4>2. run'[r].reviewed = run[r].reviewed
        <5> DEFINE was == run[r].reviewed
                   row == run[r]
        <5>1. DOMAIN row = RunFields /\ DOMAIN run = Runs
          BY <1>1 DEF Shape
        <5>2. run'[r] = [row EXCEPT !.status = "succeeded", !.reviewed = was] \/ run'[r] = row
          BY <4>1, <5>1
        <5>3. row.reviewed = was
          OBVIOUS
        <5> HIDE DEF was, row
        <5>4. run'[r].reviewed = was
          BY <5>1, <5>2, <5>3 DEF RunFields
        <5> QED  BY <5>4 DEF was
      <4> QED  BY <1>4, <4>2
    <3> QED  BY <3>1
  <2>3. /\ books' = books /\ documents' = documents /\ step' = step
        /\ \A d \in Due(r, run', mtime', documents') :
            \/ d \in Booked(r)
            \/ documents[d].status = "ok" => documents[d].accepted
        /\ step[r][Order[c]] = "SUCCEEDED"
    BY <2>1, <2>2, FirstPassEnds
  <2>4. Booked(r)' = Booked(r)
    BY <2>3 DEF Booked
  <2> QED  BY <2>3, <2>4
<1> QED  BY <1>2, <1>3, <1>4

LEMMA ReviewedHolds2 ==
    ASSUME NEW l, NEW rd, NEW c, NEW w, Dealing(l, rd, c, w), WritesWhatPassed,
           Handling(l, rd, c, w), NEW r \in Runs, run'[r].reviewed,
           run'[r].status \in ACTIVE_STATUSES \cup {"succeeded"},
           NEW d \in Own(r, documents')
    PROVE  documents'[d].status # "needs_review"
<1>1. /\ Shape /\ Rows /\ RunsChange /\ Progress
  BY TurnChanges DEF Dealing
<1>2. RunFacts(r, run[r], run'[r]) /\ run[r].reviewed \in BOOLEAN
  BY <1>1, RunIsFollowed DEF Rows, RunRow
<1>3. run[r].reviewed
  <2>1. "needs_review" \notin ACTIVE_STATUSES \cup {"succeeded"}
    BY DEF ACTIVE_STATUSES
  <2> QED  BY <1>2, <2>1 DEF RunFacts
<1>4. \/ run[r].status \in ACTIVE_STATUSES \cup {"succeeded"}
      \/ \A e \in Own(r, documents') : documents'[e].status # "needs_review"
  <2>1. "running" \in ACTIVE_STATUSES
    BY DEF ACTIVE_STATUSES
  <2>2. CASE run'[r].status \in ACTIVE_STATUSES
    BY <1>2, <2>2 DEF RunFacts
  <2>3. CASE run'[r].status = "succeeded"
    BY <1>2, <2>1, <2>3 DEF RunFacts
  <2> QED  BY <2>2, <2>3
<1>5. CASE run[r].status \in ACTIVE_STATUSES \cup {"succeeded"}
  <2>1. d \in Own(r, documents) /\ \/ documents'[d].status = documents[d].status
                                   \/ Decided(documents[d], documents'[d])
    BY <1>3, InTheirHands DEF Handling
  <2>2. documents[d].status # "needs_review"
    BY <1>3, <1>5, <2>1 DEF Handling, Reviewed
  <2> QED  BY <2>1, <2>2 DEF Decided
<1> QED  BY <1>4, <1>5

LEMMA ReviewedHolds3 ==
    ASSUME NEW l, NEW rd, NEW c, NEW w, Dealing(l, rd, c, w), WritesWhatPassed,
           Handling(l, rd, c, w), NEW r \in Runs, run'[r].status = "succeeded",
           NEW d \in Due(r, run', mtime', documents')
    PROVE  d \in Booked(r)' \/ documents'[d].status \notin {"ok", "needs_review"}
<1>1. /\ Shape /\ Rows /\ RunsChange /\ Progress
  BY TurnChanges DEF Dealing
<1>2. RunFacts(r, run[r], run'[r])
  BY <1>1, RunIsFollowed
<1>3. CASE run[r].status = "succeeded"
  BY <1>3, DueIsSettled DEF Handling
<1>4. CASE /\ Finish /\ r = exec.run /\ run[r].status = "running"
           /\ exec.memory.review = << >> \/ exec.resume
  <2>1. CASE ~exec.resume
    <3>1. books' = books /\ (d \in Booked(r) \/ d \in ToSet(exec.memory.review))
      BY <1>4, <2>1, FirstPassEnds
    <3>2. ToSet(<< >>) = {}
      BY DEF ToSet
    <3>3. Booked(r)' = Booked(r)
      BY <3>1 DEF Booked
    <3> QED  BY <1>4, <2>1, <3>1, <3>2, <3>3
  <2>2. CASE exec.resume
    <3>1. /\ UNCHANGED << now, mtime, documents, step, books >> /\ r # None
          /\ exec.index > Len(Order)
      BY <1>4, RunsAreNotNone DEF Finish
    <3>2. run[r].reviewed
      BY <1>1, <1>4, <2>2, <3>1 DEF Progress, PassInv
    <3>3. d \in Own(r, documents)
      BY <3>1 DEF Due
    <3>4. d \in Due(r, run, mtime, documents)
      BY <3>3, DueShrinks DEF Dealing
    <3>5. documents[d].status # "needs_review"
      BY <1>4, <3>2, <3>3 DEF Handling, Reviewed, ACTIVE_STATUSES
    <3>6. documents[d].status = "ok" => d \in ToSet(exec.memory.passed) \cup Booked(r)
      BY <1>4, <2>2, <3>1, <3>4 DEF Handling, Resumed
    <3>7. ToSet(exec.memory.passed) \subseteq Booked(r)
      <4>1. exec.index > w
        <5>1. w \in 1 .. Len(Order)
          BY DEF Dealing, TemplateAt
        <5> QED  BY <1>1, <3>1, <5>1, OrderIsFinite DEF Shape
      <4> QED  BY <1>4, <4>1 DEF Handling, Written
    <3>8. Booked(r)' = Booked(r)
      BY <3>1 DEF Booked
    <3> QED  BY <3>1, <3>5, <3>6, <3>7, <3>8
  <2> QED  BY <2>1, <2>2
<1>5. CASE /\ run[r].status = "needs_review"
           /\ \A e \in Own(r, documents') :
                /\ documents'[e].status # "needs_review"
                /\ documents'[e].status = "ok" => ~documents'[e].accepted
  <2>1. run[r].reviewed
    BY <1>5 DEF Dealing, Queue
  <2>2. d \in Booked(r)' \/ (documents'[d].status = "ok" => documents'[d].accepted)
    BY <2>1, DueIsSettled DEF Handling
  <2>3. d \in Own(r, documents')
    BY DEF Due
  <2> QED  BY <1>5, <2>2, <2>3
<1> QED  BY <1>2, <1>3, <1>4, <1>5 DEF RunFacts

\* A pass after a review is given what was accepted.
LEMMA BeginResumed ==
    ASSUME NEW l, NEW rd, NEW c, NEW w, Dealing(l, rd, c, w), WritesWhatPassed,
           Handling(l, rd, c, w), NEW r \in Runs, Begin(r)
    PROVE  Resumed(c)'
<1>1. /\ Shape /\ Readings /\ Everything /\ DocumentsChange
  BY TurnChanges DEF Dealing, Turn
<1>2. /\ exec'.run = r /\ exec'.index = 1 /\ exec'.resume = run[r].reviewed
      /\ exec'.memory = [NoMemory EXCEPT !.passed =
                    IF run[r].reviewed THEN Ascending(ReviewedOk(r)) ELSE << >>]
  BY BeginDoes
<1>3. documents' = documents /\ books' = books
  BY DEF Begin
<1> SUFFICES ASSUME exec'.resume PROVE
        /\ exec'.memory.review = << >> /\ ~(exec'.index > c)
        /\ \A d \in Due(r, run', mtime', documents') :
                documents'[d].status = "ok" => d \in ToSet(exec'.memory.passed) \cup Booked(r)'
  BY <1>2 DEF Resumed
<1>4. exec'.memory.review = << >> /\ exec'.memory.passed = Ascending(ReviewedOk(r))
  BY <1>2 DEF NoMemory
<1>5. ~(exec'.index > c)
  <2>1. c \in Nat /\ 1 < c
    BY OrderIsFinite DEF Dealing, TemplateAt, ReadsAt
  <2> QED  BY <1>2, <2>1
<1>6. ToSet(Ascending(ReviewedOk(r))) = ReviewedOk(r)
  <2>1. Known = 1 .. Len(documents) /\ Len(documents) \in Nat
    BY <1>1 DEF DocumentsChange
  <2>2. ReviewedOk(r) \subseteq Known
    BY DEF ReviewedOk, ReadBy
  <2>3. IsFiniteSet(Known)
    BY <2>1, FS_Interval
  <2>4. IsFiniteSet(ReviewedOk(r)) /\ ReviewedOk(r) \subseteq Nat
    BY <2>1, <2>2, <2>3, FS_Subset
  <2> QED  BY <2>4, Ascended
<1>7. ASSUME NEW d \in Due(r, run', mtime', documents'), documents'[d].status = "ok"
      PROVE  d \in ToSet(exec'.memory.passed) \cup Booked(r)'
  <2>1. d \in Own(r, documents)
    BY <1>3 DEF Due
  <2>2. d \in Due(r, run, mtime, documents)
    BY <2>1, DueShrinks DEF Dealing
  <2>3. d \in Booked(r) \/ documents[d].accepted
    BY <1>2, <1>3, <1>7, <2>2 DEF Handling, Reviewed
  <2>4. documents[d].accepted => d \in ReviewedOk(r)
    BY <1>3, <1>7, <2>1 DEF ReviewedOk, ReadBy, Own, Known
  <2>5. Booked(r)' = Booked(r)
    BY <1>3 DEF Booked
  <2> QED  BY <1>4, <1>6, <2>3, <2>4, <2>5
<1> QED  BY <1>4, <1>5, <1>7

LEMMA ResumedHolds ==
    ASSUME NEW l, NEW rd, NEW c, NEW w, Dealing(l, rd, c, w), WritesWhatPassed,
           Handling(l, rd, c, w), DOMAIN exec.outcome = Keys \/ exec.run = None
    PROVE  Resumed(c)'
<1>1. /\ Shape /\ Readings /\ Rows /\ Everything /\ DocumentsChange /\ ThreadMoves /\ Progress
      /\ Papers(exec, documents) /\ Shelf /\ BooksChange /\ RunsChange
  BY TurnChanges DEF Dealing, Turn
<1>2. CASE exec'.run = None
  BY <1>2 DEF Resumed
<1>3. ASSUME NEW r \in Runs, Begin(r) PROVE Resumed(c)'
  BY <1>3, BeginResumed
<1>4. CASE SamePass /\ ~exec.resume
  BY <1>4 DEF SamePass, Resumed
<1>5. CASE SamePass /\ exec.resume
  <2>1. PICK r \in Runs : r = exec.run
    BY <1>1, <1>5 DEF SamePass, Shape
  <2>2. /\ exec'.run = r /\ exec.run # None /\ run[r].reviewed
        /\ exec.memory.review = << >>
        /\ exec.index > c => exec.outcome[Order[c]] = "SUCCEEDED"
        /\ DOMAIN exec.outcome = Keys
    BY <1>1, <1>5, <2>1 DEF SamePass, Progress, PassInv, Handling, Resumed
  <2>3. ~CheckRest
    <3>1. CheckRest => exec.place \in InStep /\ Workflow.tool[Key] = "check"
      BY DEF CheckRest, InTool, InStep
    <3> QED  BY <1>1, <1>5, <3>1, BeforeTheReview DEF Dealing
  <2>4. /\ exec'.memory.review = << >> /\ exec'.memory.passed = exec.memory.passed
        /\ exec'.index > c => exec'.outcome[Order[c]] = "SUCCEEDED"
    <3>1. CASE exec' = exec
      BY <2>2, <3>1
    <3>2. CASE StepGoesOn
      <4>1. exec'.memory = exec.memory /\ exec'.index = exec.index
            /\ exec'.outcome = exec.outcome
        BY <3>2 DEF StepGoesOn, Rest, ExecFields
      <4> QED  BY <2>2, <4>1
    <3>3. CASE StepIsOver
      <4>1. exec'.memory.passed = exec.memory.passed /\ exec'.memory.review = exec.memory.review
        BY <1>1, <2>3, <3>3, MemoryAfter
      <4>2. /\ exec'.index = exec.index + 1 /\ exec.index \in Nat /\ c \in Nat
            /\ c \in 1 .. Len(Order) /\ Order[c] \in Keys /\ Order[c] \notin PassBranch
            /\ exec.index \in 1 .. Len(Order) /\ Key = Order[exec.index]
        BY <1>1, <3>3 DEF StepIsOver, Shape, Dealing, TemplateAt, Keys, Key
      <4>3. ASSUME exec.index > c PROVE exec'.outcome[Order[c]] = "SUCCEEDED"
        <5>1. Key # Order[c]
          BY <4>2, <4>3 DEF Dealing, TemplateAt
        <5>2. \E outcome : exec'.outcome = [exec.outcome EXCEPT ![Key] = outcome]
          BY <3>3 DEF StepIsOver
        <5> QED  BY <2>2, <4>2, <4>3, <5>1, <5>2
      <4>4. ASSUME exec.index = c PROVE exec'.outcome[Order[c]] = "SUCCEEDED"
        <5>1. Key = Order[c] /\ Key \notin PassBranch
          BY <4>2, <4>4
        <5>2. exec.place \notin InStep
          BY <1>1, <1>5, <2>2, <5>1 DEF Progress, PassInv, Key
        <5>3. ~SkipStep
          BY <1>5, <5>1 DEF SkipStep, ResumeKeys
        <5>4. exec'.outcome = [exec.outcome EXCEPT ![Key] = step[r][Key]]
          BY <2>1, <3>3, <5>2, <5>3 DEF StepIsOver
        <5>5. step[r][Order[c]] = "SUCCEEDED"
          BY <2>2 DEF Handling, Reviewed
        <5> QED  BY <2>2, <4>2, <5>1, <5>4, <5>5
      <4>5. exec'.index > c => exec.index = c \/ exec.index > c
        BY <4>2
      <4> QED  BY <2>2, <4>1, <4>3, <4>4, <4>5
    <3>4. ~\E s \in Runs : Begin(s)
      BY Zenon, <2>2 DEF Begin
    <3>5. exec' # Idle
      BY <2>1, <2>2, IdlePass, RunsAreNotNone
    <3> QED  BY <1>1, <3>1, <3>2, <3>3, <3>4, <3>5 DEF ThreadMoves
  <2>5. ASSUME run'[r].status = "running", NEW d \in Due(r, run', mtime', documents'),
               documents'[d].status = "ok"
        PROVE  d \in ToSet(exec'.memory.passed) \cup Booked(r)'
    <3>1. run[r].status = "running"
      <4>1. RunFacts(r, run[r], run'[r])
        BY <1>1, RunIsFollowed
      <4> QED  BY <2>2, <2>5, <4>1 DEF RunFacts, Begin
    <3>2. d \in Own(r, documents')
      BY DEF Due
    <3>3. /\ d \in Own(r, documents)
          /\ \/ documents'[d].status = documents[d].status
             \/ Decided(documents[d], documents'[d])
      BY <2>2, <3>2, InTheirHands DEF Handling
    <3>4. d \in Due(r, run, mtime, documents)
      BY <3>3, DueShrinks DEF Dealing
    <3>5. documents[d].status # "needs_review"
      BY <2>2, <3>1, <3>3 DEF Handling, Reviewed, ACTIVE_STATUSES
    <3>6. documents[d].status = "ok"
      BY <2>5, <3>3, <3>5 DEF Decided
    <3>7. d \in ToSet(exec.memory.passed) \cup Booked(r)
      BY <1>5, <2>1, <2>2, <3>1, <3>4, <3>6 DEF Handling, Resumed
    <3>8. Booked(r) \subseteq Booked(r)'
      BY <1>1, BookedGrows
    <3> QED  BY <2>4, <3>7, <3>8
  <2> QED  BY <2>1, <2>2, <2>4, <2>5 DEF Resumed
<1> QED  BY <1>1, <1>2, <1>3, <1>4, <1>5, PassGoesOn

WorkInv(l, rd, c, w) ==
    FolderInv(l, rd) /\ Dated /\ FilesAreNew /\ Queue /\ Handling(l, rd, c, w)

LEMMA InitIsHandled ==
    ASSUME NEW l, NEW rd, NEW c, NEW w, Init
    PROVE  WorkInv(l, rd, c, w)
<1>1. /\ exec.run = None /\ documents = << >> /\ Known = {}
      /\ \A r \in Runs : run[r].status = "absent" /\ ~run[r].reviewed
  BY IdlePass DEF Init, Known
<1>2. FolderInv(l, rd)
  BY <1>1, InitIsInOrder DEF FolderInv, Past, Counted, Toward
<1>3. Dated /\ FilesAreNew
  BY <1>1 DEF Dated, FilesAreNew
<1>4. Queue
  <2>1. \A r \in Runs : Own(r, documents) = {}
    BY <1>1 DEF Own, Known
  <2> QED  BY <1>1, <2>1 DEF Queue
<1>5. OnTheWay(l, rd, c, exec, step, mtime, documents) /\ Judged(exec, documents)
  BY <1>1 DEF OnTheWay, Judged
<1>6. Written(w) /\ Resumed(c)
  BY <1>1, RunsAreNotNone DEF Written, Resumed
<1>7. Reviewed(c) /\ Rivals
  BY <1>1 DEF Reviewed, Rivals, ACTIVE_STATUSES
<1> QED  BY <1>2, <1>3, <1>4, <1>5, <1>6, <1>7 DEF WorkInv, Handling

LEMMA WorkHolds ==
    ASSUME NEW l, NEW rd, NEW c, NEW w, TemplateAt(l, rd, c, w), WritesWhatPassed,
           WorkInv(l, rd, c, w), [Next]_vars
    PROVE  WorkInv(l, rd, c, w)'
<1>1. /\ FolderInv(l, rd) /\ Dated /\ FilesAreNew /\ Queue /\ Handling(l, rd, c, w)
  BY DEF WorkInv
<1>2. /\ Everything /\ Past(run, mtime, documents) /\ Judged(exec, documents)
      /\ Toward(l, rd, exec, run[exec.run].started, now, mtime, documents)
  BY <1>1 DEF FolderInv, Handling
<1>3. SinceIsATime
  <2>1. now \in Nat
    BY <1>2 DEF Everything, Rows
  <2> QED  BY <1>2, <2>1 DEF Toward, SinceIsATime
<1>4. Turn /\ Dealing(l, rd, c, w)
  BY <1>1, <1>2, <1>3 DEF Turn, Dealing
<1>5. FolderInv(l, rd)'
  <2>1. ReadsAt(l, rd)
    BY DEF TemplateAt
  <2> QED  BY <1>1, <2>1, FolderHolds DEF FolderInv
<1>6. Dated' /\ FilesAreNew' /\ Queue'
  BY <1>1, <1>3, <1>4, DatedHolds, FreshHolds, QueueHolds
<1>7. OnTheWay(l, rd, c, exec', step', mtime', documents')
  BY <1>1, <1>2, <1>4, OnTheWayHolds DEF Handling
<1>8. Written(w)'
  BY <1>1, <1>4, WrittenHolds DEF Handling
<1>9. Resumed(c)'
  BY <1>1, <1>2, <1>4, ResumedHolds DEF Toward
<1>10. Reviewed(c)'
  BY <1>1, <1>4, ReviewedHolds1, ReviewedHolds2, ReviewedHolds3 DEF Reviewed
<1>11. Rivals'
  BY <1>1, <1>4, RivalsHold DEF Handling
<1>12. Judged(exec', documents')
  BY <1>2, JudgedHolds
<1> QED  BY <1>5, <1>6, <1>7, <1>8, <1>9, <1>10, <1>11, <1>12 DEF WorkInv, Handling

LEMMA WorkIsDone ==
    ASSUME NEW l, NEW rd, NEW c, NEW w, WorkInv(l, rd, c, w)
    PROVE  NothingForgotten
<1>1. Reviewed(c) /\ Readings /\ Rows /\ Filing
  BY DEF WorkInv, Handling, FolderInv, Everything
<1> SUFFICES ASSUME NEW r \in Runs, run[r].status = "succeeded", NEW d \in ReadBy(r),
                    documents[d].status = "ok", d = Max(DocumentsOf(documents[d].invoice)),
                    \A s \in 1 .. (r - 1) : run[s].status = "succeeded" =>
                        run[s].started < mtime[documents[d].invoice]
             PROVE  d \in Booked(r)
  BY DEF NothingForgotten
<1> DEFINE i == documents[d].invoice
<1>2. d \in Known /\ d \in Own(r, documents)
  BY DEF ReadBy, Own, Known
<1>3. Newest(d, documents)
  <2>1. Len(documents) \in Nat /\ Known = 1 .. Len(documents)
    BY <1>1 DEF Readings, Known
  <2>2. d \in DocumentsOf(i) /\ DocumentsOf(i) \subseteq 1 .. Len(documents)
    BY Zenon, <1>2, <2>1 DEF DocumentsOf
  <2>3. \A e \in DocumentsOf(i) : e <= d
    <3> HIDE DEF i
    <3>1. \A e \in DocumentsOf(i) : e <= Max(DocumentsOf(i))
      BY <2>1, <2>2, Greatest
    <3> QED  BY <3>1 DEF i
  <2> QED  BY Zenon, <2>3 DEF Newest, DocumentsOf, Known
<1>4. ~Old(r, i, run, mtime)
  <2> SUFFICES ASSUME NEW s \in 1 .. (r - 1), run[s].status = "succeeded",
                      run[s].started >= mtime[i]
               PROVE  FALSE
    BY DEF Old
  <2>1. s \in Runs /\ i \in Invoices
    BY <1>1, <1>2, RunsAreNumbers DEF Filing
  <2>2. run[s].started \in Nat /\ mtime[i] \in Nat
    BY <1>1, <2>1 DEF Rows, RunRow
  <2>3. run[s].started < mtime[i]
    OBVIOUS
  <2> QED  BY <2>2, <2>3
<1>5. d \in Due(r, run, mtime, documents)
  BY <1>2, <1>3, <1>4 DEF Due
<1> QED  BY <1>1, <1>5 DEF Reviewed

\* A step lists the folder, the next reads the list, the next checks all that was
\* read, and one behind its pass edge writes, as in every workflow made from the
\* template of the invoice clerk.
ReadsChecksAndWrites == \E l, rd, c, w \in 1 .. Len(Order) : TemplateAt(l, rd, c, w)

\* What a run that SUCCEEDED has read, and is ok, is in a workbook of this run, if
\* it is the newest document of its invoice and no run before took the file for an
\* old one: errors, attempts, reviews, uploads and other runs notwithstanding.
THEOREM ReadInvoicesAreWritten ==
    ASSUME WritesWhatPassed, ReadsChecksAndWrites
    PROVE  Spec => []NothingForgotten
<1>1. PICK l, rd, c, w \in 1 .. Len(Order) : TemplateAt(l, rd, c, w)
  BY DEF ReadsChecksAndWrites
<1>2. Init => WorkInv(l, rd, c, w)
  BY InitIsHandled
<1>3. WorkInv(l, rd, c, w) /\ [Next]_vars => WorkInv(l, rd, c, w)'
  BY <1>1, WorkHolds
<1>4. WorkInv(l, rd, c, w) => NothingForgotten
  BY WorkIsDone
<1> QED  BY <1>2, <1>3, <1>4, PTL DEF Spec

-----------------------------------------------------------------------------
(* Execution implements RunPromise. *)

\* The statuses of a row and the phases they stand for.
LEMMA Phasing ==
    /\ \A status \in {"pending", "claimed", "retrying"} : PhaseOf(status) = "queued"
    /\ PhaseOf("needs_review") = "waiting"
    /\ \A status \in {"absent", "running", "succeeded", "failed", "cancelled"} :
            PhaseOf(status) = status
BY DEF PhaseOf

Stutters == UNCHANGED << [r \in Runs |-> PhaseOf(run[r].status)], [r \in Runs |-> RunPass(r)],
                         [r \in Runs |-> run[r].reviewed] >>

\* No step changes the row or the pass of a run other than r.
OthersStay(r) ==
    \A s \in Runs \ {r} : run'[s] = run[s] /\ (exec'.run = s <=> exec.run = s)

LEMMA OneRunMoves ==
    ASSUME NEW r \in Runs, OthersStay(r), NEW p, NEW q,
           PhaseOf(run'[r].status) = p, RunPass(r)' = q
    PROVE  /\ Promised!Becomes(r, p, q)
           /\ run'[r].reviewed = run[r].reviewed =>
                [s \in Runs |-> run[s].reviewed]' = [s \in Runs |-> run[s].reviewed]
           /\ [s \in Runs |-> run[s].reviewed]'
                = [[s \in Runs |-> run[s].reviewed] EXCEPT ![r] = run'[r].reviewed]
<1>1. \A s \in Runs : s # r => /\ PhaseOf(run'[s].status) = PhaseOf(run[s].status)
                               /\ RunPass(s)' = RunPass(s)
                               /\ run'[s].reviewed = run[s].reviewed
  BY DEF OthersStay, RunPass
<1> QED  BY <1>1 DEF Promised!Becomes

\* The four ways a pass can end.
LEMMA PassEndsAsPromised ==
    ASSUME Everything, Finish \/ StopCancelled \/ StepFails \/ Interrupt
    PROVE  Promised!Next
<1>1. PICK r \in Runs : r = exec.run
  BY DEF Everything, Shape, InStep, Finish, StopCancelled, AtStart, StepFails, Interrupt
<1>2. /\ run[r].status \in {"running", "cancelled"} /\ exec.resume = run[r].reviewed
      /\ DOMAIN run = Runs /\ run[r] \in RunRow
  BY <1>1, RunsAreNotNone DEF Everything, Progress, PassInv, Shape, Rows
<1>3. exec'.run = None /\ RunPass(r) = "underway" /\ RunPass(r)' = "none"
  <2>1. exec' = Idle /\ Idle.run = None
    BY DEF Finish, StopCancelled, StepFails, Interrupt, BreakOff, Idle
  <2> QED  BY <1>1, <2>1, RunsAreNotNone DEF RunPass
<1>4. \/ run' = run /\ run[r].status = "cancelled"
      \/ /\ run[r].status = "running"
         /\ \E status \in {"retrying", "failed"} : run' = [run EXCEPT ![r].status = status]
      \/ Finish /\ run[r].status = "running"
  <2>1. CASE StopCancelled
    BY <1>1, <2>1 DEF StopCancelled, Cancelled
  <2>2. CASE StepFails \/ Interrupt
    BY <1>1, <1>2, <2>2 DEF StepFails, Interrupt, BreakOff, Again, Cancelled
  <2>3. CASE Finish /\ run[r].status = "cancelled"
    <3>1. \A status : ~CanTransition(run[r].status, status)
      BY <2>3 DEF CanTransition, TRANSITIONS
    <3> QED  BY <1>1, <2>3, <3>1 DEF Finish
  <2> QED  BY <1>2, <2>1, <2>2, <2>3
<1>5. OthersStay(r)
  <2>1. \A s \in Runs \ {r} : run'[s] = run[s]
    BY <1>1, <1>2, <1>4 DEF Finish
  <2> QED  BY <1>1, <1>3, <2>1, RunsAreNotNone DEF OthersStay
<1>6. CASE run' = run /\ run[r].status = "cancelled"
  <2>1. Promised!Stop(r)
    BY <1>3, <1>5, <1>6, Phasing, OneRunMoves DEF Promised!Stop
  <2> QED  BY <2>1 DEF Promised!Next, Promised!RunStep
<1>7. ASSUME run[r].status = "running", run'[r].status \in {"retrying", "failed", "succeeded"},
             run'[r].reviewed = run[r].reviewed
      PROVE  Promised!Next
  <2>1. PICK next \in {"queued", "failed", "succeeded"} : PhaseOf(run'[r].status) = next
    BY <1>7, Phasing
  <2>2. Promised!Leave(r)
    BY <1>3, <1>5, <1>7, <2>1, Phasing, OneRunMoves DEF Promised!Leave, Promised!Underway
  <2> QED  BY <2>2 DEF Promised!Next, Promised!RunStep
<1>8. ASSUME NEW status \in {"retrying", "failed"}, run[r].status = "running",
             run' = [run EXCEPT ![r].status = status]
      PROVE  Promised!Next
  <2>1. run'[r].status = status /\ run'[r].reviewed = run[r].reviewed
    BY <1>2, <1>8 DEF RunRow
  <2> QED  BY <1>7, <1>8, <2>1
<1>9. CASE Finish /\ run[r].status = "running"
  <2> DEFINE outcome == IF exec.memory.review # << >> /\ ~exec.resume
                        THEN "needs_review" ELSE "succeeded"
  <2>1. CanTransition(run[r].status, outcome)
    BY <1>9 DEF CanTransition, TRANSITIONS
  <2>2. run' = [run EXCEPT ![r].status = outcome,
                           ![r].reviewed = run[r].reviewed \/ outcome = "needs_review"]
    BY <1>1, <1>9, <2>1 DEF Finish
  <2> HIDE DEF outcome
  <2>3. /\ run'[r].status = outcome
        /\ run'[r].reviewed = (run[r].reviewed \/ outcome = "needs_review")
    BY Zenon, <1>2, <2>2 DEF RunRow
  <2>4. CASE outcome = "needs_review"
    <3>1. run[r].reviewed = FALSE /\ run'[r].reviewed = TRUE
      BY <1>2, <2>3, <2>4 DEF RunRow, outcome
    <3>2. Promised!Wait(r)
      BY <1>3, <1>5, <1>9, <2>3, <2>4, <3>1, Phasing, OneRunMoves
         DEF Promised!Wait, Promised!Underway
    <3> QED  BY <3>2 DEF Promised!Next, Promised!RunStep
  <2>5. CASE outcome = "succeeded"
    <3>1. run'[r].reviewed = run[r].reviewed
      BY <1>2, <2>3, <2>5 DEF RunRow
    <3> QED  BY <1>7, <1>9, <2>3, <2>5, <3>1
  <2> QED  BY <2>4, <2>5 DEF outcome
<1> QED  BY <1>4, <1>6, <1>8, <1>9

\* The user creates or cancels a run, the reviewer decides, the thread begins.
LEMMA RunMovesAsPromised ==
    ASSUME Everything, NEW r \in Runs, RunMoves(r, run[r], run'[r]),
           ~(Finish \/ StepFails \/ Interrupt), \A s \in Runs \ {r} : run'[s] = run[s]
    PROVE  Promised!Next
<1>1. run[r] \in RunRow /\ (exec.run = r => run[r].status \in {"running", "cancelled"})
  BY RunsAreNotNone DEF Everything, Rows, Progress, PassInv
<1>2. ASSUME NEW status, run'[r] = [run[r] EXCEPT !.status = status]
      PROVE  run'[r].status = status /\ run'[r].reviewed = run[r].reviewed
  BY <1>1, <1>2 DEF RunRow
<1>3. ASSUME exec' = exec PROVE OthersStay(r) /\ RunPass(r)' = RunPass(r)
  BY <1>3 DEF OthersStay, RunPass
<1>4. CASE CreateRun(r) /\ run'[r] = [run[r] EXCEPT !.status = "pending"]
  <2>1. run[r].status = "absent" /\ ~run[r].reviewed /\ exec' = exec
    BY <1>4 DEF CreateRun, Everything, Rows
  <2>2. run'[r].status = "pending" /\ run'[r].reviewed = FALSE
    BY <1>1, <1>2, <1>4, <2>1 DEF RunRow
  <2>3. RunPass(r)' = "none"
    BY <1>1, <1>3, <2>1 DEF RunPass
  <2>4. Promised!Create(r)
    BY <1>3, <2>1, <2>2, <2>3, Phasing, OneRunMoves DEF Promised!Create
  <2> QED  BY <2>4 DEF Promised!Next, Promised!RunStep
<1>5. CASE CancelRun(r) /\ run'[r] = [run[r] EXCEPT !.status = "cancelled"]
  <2>1. run[r].status \in RunStatus \ TERMINAL_STATUSES /\ exec' = exec
    BY <1>1, <1>5 DEF CancelRun, RunRow
  <2>2. PhaseOf(run[r].status) \in {"queued", "running", "waiting"}
    BY <2>1, Phasing DEF RunStatus, TERMINAL_STATUSES
  <2>3. Promised!Cancel(r)
    BY <1>2, <1>3, <1>5, <2>1, <2>2, Phasing, OneRunMoves DEF Promised!Cancel
  <2> QED  BY <2>3 DEF Promised!Next, Promised!RunStep
<1>6. CASE /\ Begin(r)
           /\ run'[r] = [run[r] EXCEPT !.status = "running", !.started = StartedAt(r),
                                       !.attempts = run[r].attempts + 1]
  <2>1. /\ run[r].status \in {"pending", "retrying"} /\ exec.run = None
        /\ exec'.run = r
    BY <1>6 DEF Begin, Idle
  <2>2. run'[r].status = "running" /\ run'[r].reviewed = run[r].reviewed
    BY <1>1, <1>6 DEF RunRow
  <2>3. OthersStay(r) /\ RunPass(r) = "none" /\ RunPass(r)' = "underway"
    BY <2>1, RunsAreNotNone DEF OthersStay, RunPass
  <2>4. Promised!Begin(r)
    BY <2>1, <2>2, <2>3, Phasing, OneRunMoves DEF Promised!Begin
  <2> QED  BY <2>4 DEF Promised!Next, Promised!RunStep
<1>7. ASSUME exec' = exec, run[r].status = "needs_review", NEW status \in {"pending", "succeeded"},
             run'[r].status = status, run'[r].reviewed = run[r].reviewed
      PROVE  Promised!Next
  <2>1. RunPass(r)' = "none"
    BY <1>1, <1>3, <1>7 DEF RunPass
  <2>2. PICK next \in {"queued", "succeeded"} : PhaseOf(run'[r].status) = next
    BY <1>7, Phasing
  <2>3. Promised!Decide(r)
    BY <1>3, <1>7, <2>1, <2>2, Phasing, OneRunMoves DEF Promised!Decide
  <2> QED  BY <2>3 DEF Promised!Next, Promised!RunStep
<1>8. CASE /\ exec' = exec /\ run[r].status = "needs_review"
           /\ \/ run'[r] = [run[r] EXCEPT !.status = "succeeded"]
              \/ run'[r] = Requeued(run[r])
  <2>1. run'[r].status \in {"pending", "succeeded"} /\ run'[r].reviewed = run[r].reviewed
    BY <1>1, <1>8 DEF RunRow, Requeued
  <2> QED  BY <1>7, <1>8, <2>1
<1> QED  BY <1>4, <1>5, <1>6, <1>8 DEF RunMoves

\* The thread keeps its run until the pass ends.
LEMMA ThreadKeepsItsRun ==
    ASSUME Everything, [Next]_vars, ~Finish, ~StopCancelled, ~StepFails, ~Interrupt
    PROVE  exec'.run = exec.run \/ \E r \in Runs : Begin(r)
<1>1. /\ Shape /\ Progress /\ Readings /\ Papers(exec, documents)
  BY DEF Everything
<1>2. CASE exec' = exec
  BY <1>2
<1>3. CASE StepGoesOn \/ StepIsOver
  <2>1. ASSUME NEW fields, Rest(fields), "run" \notin fields PROVE exec'.run = exec.run
    BY <2>1 DEF Rest, ExecFields
  <2> QED  BY <1>3, <2>1 DEF StepGoesOn, StepIsOver
<1>4. CASE Execute \/ RetryStep \/ PassOver
  BY <1>1, <1>3, <1>4, GoingOn, GoingOver DEF Execute
<1>5. ASSUME NEW i \in Invoices, Arrive(i) \/ Upload(i) PROVE exec' = exec
  BY <1>5 DEF Arrive, Upload
<1>6. ASSUME NEW r \in Runs, CreateRun(r) \/ CancelRun(r) PROVE exec' = exec
  BY <1>6 DEF CreateRun, CancelRun
<1>7. ASSUME NEW d \in Known, NEW accept \in BOOLEAN, Resolve(d, accept) PROVE exec' = exec
  BY <1>7 DEF Resolve
<1>8. CASE UNCHANGED vars
  BY <1>2, <1>8 DEF vars
<1>9. \/ exec' = exec \/ \E r \in Runs : Begin(r)
      \/ Execute \/ RetryStep \/ PassOver \/ UNCHANGED vars
  <2>1. CASE \E i \in Invoices : Arrive(i) \/ Upload(i)
    BY <1>5, <2>1
  <2>2. CASE \E r \in Runs : CreateRun(r) \/ CancelRun(r) \/ Begin(r)
    BY <1>6, <2>2
  <2>3. CASE \E d \in Known, accept \in BOOLEAN : Resolve(d, accept)
    BY <1>7, <2>3
  <2> QED  BY <2>1, <2>2, <2>3 DEF Next
<1> QED  BY <1>2, <1>4, <1>8, <1>9

LEMMA NextIsPromised ==
    ASSUME Everything, [Next]_vars
    PROVE  Promised!Next \/ Stutters
<1>1. CASE Finish \/ StopCancelled \/ StepFails \/ Interrupt
  BY <1>1, PassEndsAsPromised
<1>2. CASE ~(Finish \/ StopCancelled \/ StepFails \/ Interrupt)
  <2>1. RunsChange
    BY RunsMove DEF Everything
  <2>2. CASE \A r \in Runs : run'[r] = run[r]
    <3>1. ASSUME NEW r \in Runs, Begin(r) PROVE FALSE
      <4>1. /\ run[r].status # "running" /\ DOMAIN run = Runs /\ DOMAIN run[r] = RunFields
            /\ run' = [run EXCEPT ![r].status = "running", ![r].started = StartedAt(r),
                                  ![r].attempts = run[r].attempts + 1]
        BY <3>1 DEF Begin, Everything, Shape
      <4>2. run'[r].status = "running"
        BY <4>1 DEF RunFields
      <4> QED  BY <2>2, <4>1, <4>2
    <3>2. exec'.run = exec.run
      BY <1>2, <3>1, ThreadKeepsItsRun
    <3> QED  BY <2>2, <3>2 DEF Stutters, RunPass
  <2>3. CASE \E r \in Runs : /\ \A s \in Runs \ {r} : run'[s] = run[s]
                             /\ RunMoves(r, run[r], run'[r])
    BY <1>2, <2>3, RunMovesAsPromised
  <2> QED  BY <2>1, <2>2, <2>3 DEF RunsChange
<1> QED  BY <1>1, <1>2

LEMMA InitIsPromised == Init => Promised!Init
<1> SUFFICES ASSUME Init PROVE Promised!Init
  OBVIOUS
<1>1. \A r \in Runs : /\ PhaseOf(run[r].status) = "absent" /\ run[r].reviewed = FALSE
                      /\ RunPass(r) = "none"
  BY Phasing, RunsAreNotNone DEF Init, Idle, RunPass
<1> QED  BY <1>1 DEF Promised!Init

\* Whatever is done with the invoices of its folder, a run lives as RunPromise has
\* it: one pass at a time, one wait for a reviewer, one end.
THEOREM ExecutionKeepsThePromise == Spec => ImplementsRuns
<1>1. Everything /\ [Next]_vars => [Promised!Next]_(Promised!vars)
  BY NextIsPromised DEF Stutters, Promised!vars
<1> QED  BY <1>1, InitIsPromised, EverythingAlways, PTL
         DEF Spec, ImplementsRuns, Promised!Spec
=============================================================================
