--------------------------------- MODULE Outputs ---------------------------------
(***************************************************************************)
(* The files a run leaves behind: the store, the tables artifacts and      *)
(* audit_log ("run.output"), and all who store files at the same time:     *)
(* steps of runs, exports and uploads.                                     *)
(*                                                                         *)
(* The store is no part of a transaction: a file is there as soon as it is *)
(* renamed, its row when the transaction commits.  As in Sessions, SQLite  *)
(* refuses the write of a transaction that read before another commit.     *)
(***************************************************************************)
EXTENDS Naturals, Sequences

CONSTANTS Paths,       \* the files that may be stored: <<hash of the content, suffix>>
          Others,      \* exports and uploads, each of one file
          Executions,  \* the threads that execute steps; with a lease that ran out two
                       \* of them may execute one run
          StepFiles,   \* the files steps may write, whatever they find to write
          MaxOutputs,  \* bound: how many rows "run.output" there may be
          None

ASSUME OutputsAssumption ==
    /\ Paths \subseteq Nat \X Nat /\ None \notin Paths
    /\ StepFiles \subseteq Paths
    /\ Others \cap Executions = {}
    /\ MaxOutputs \in Nat

VARIABLES files,      \* the directory of the store
          artifacts,  \* the table artifacts; an id is a position
          outputs,    \* the rows "run.output": artifact ids
          writer      \* writer[w]: a call of ensure_artifact

stored == << files, artifacts >>
outputVars == << stored, outputs, writer >>

Writers == Others \cup Executions

\* The position in ensure_artifact and save; read: what this transaction read is
\* nothing, or current, or outdated by a commit.
Writer == [at : {"none", "exists", "find", "save", "replace", "insert", "found", "over"},
           path : Paths \cup {None}, read : {"nothing", "current", "outdated"}]
NoWriter == [at |-> "none", path |-> None, read |-> "nothing"]

OutputsInit ==
    /\ files = {}
    /\ artifacts = << >> /\ outputs = << >>
    /\ writer = [w \in Writers |-> NoWriter]

-----------------------------------------------------------------------------
(* Transactions. *)

Outdated(w) == IF writer[w].read = "current" THEN [writer[w] EXCEPT !.read = "outdated"]
                                             ELSE writer[w]

\* w commits, and goes on as row.
Commits(w, row) == writer' = [v \in Writers |-> IF v = w THEN row ELSE Outdated(v)]

\* Anybody commits who stores nothing: a user, the reaper, a heartbeat, a line of a log.
OthersCommit ==
    /\ writer' = [w \in Writers |-> Outdated(w)]
    /\ UNCHANGED << stored, outputs >>

\* A read: the first one of a transaction fixes what it sees.
HasRead(row) == [row EXCEPT !.read = IF @ = "nothing" THEN "current" ELSE @]

-----------------------------------------------------------------------------
(* ensure_artifact. *)

Hash(p) == p[1]
RowsOf(p) == {i \in DOMAIN artifacts : Hash(artifacts[i]) = Hash(p)}

\* storage.exists: any file of that content, whatever its suffix.
Exists(p) == \E q \in files : Hash(q) = Hash(p)

AskStore(w) ==
    /\ writer[w].at = "exists"
    /\ writer' = [writer EXCEPT ![w].at = IF Exists(writer[w].path) THEN "find" ELSE "save"]
    /\ UNCHANGED << stored, outputs >>

\* A mutated form of WithoutRow: a stored file is not stored again.
WithoutRowInsert == "insert"

\* What follows when the content is stored and has no row: it is stored under its own
\* name, which may differ in the suffix.
WithoutRow == "save"

\* The row of the content, as this transaction sees it: none that was committed
\* after its first read, which then makes the insert fail.
FindRow(w) ==
    /\ writer[w].at = "find"
    /\ \/ /\ RowsOf(writer[w].path) # {}
          /\ writer' = [writer EXCEPT ![w] = [HasRead(@) EXCEPT !.at = "found"]]
       \/ /\ RowsOf(writer[w].path) = {} \/ writer[w].read = "outdated"
          /\ writer' = [writer EXCEPT ![w] = [HasRead(@) EXCEPT !.at = WithoutRow]]
    /\ UNCHANGED << stored, outputs >>

\* save: a file that is there is not written again; otherwise the bytes go to a
\* temporary file of the writer's own, which os.replace then gives its name.
Write(w) ==
    /\ writer[w].at = "save"
    /\ writer' = [writer EXCEPT ![w].at = IF writer[w].path \in files THEN "insert" ELSE "replace"]
    /\ UNCHANGED << stored, outputs >>

Replace(w) ==
    /\ writer[w].at = "replace"
    /\ writer' = [writer EXCEPT ![w].at = "insert"]
    /\ files' = files \cup {writer[w].path}
    /\ UNCHANGED << artifacts, outputs >>

\* The call ended, and its transaction may commit: with the row there was, or with a
\* new one, which the unique hash allows only if there is none.
MayCommit(w) ==
    \/ writer[w].at = "found" /\ writer[w].read # "outdated"
    \/ /\ writer[w].at = "insert" /\ writer[w].read # "outdated"
       /\ RowsOf(writer[w].path) = {}

Kept(w) == IF writer[w].at = "found" THEN artifacts ELSE Append(artifacts, writer[w].path)
IdOf(w) == IF writer[w].at = "found" THEN CHOOSE i \in RowsOf(writer[w].path) : TRUE
                                     ELSE Len(artifacts) + 1

\* An export or an upload; it may have read before.
Request(o, p) ==
    /\ writer[o].at = "none"
    /\ \E read \in {"nothing", "current"} :
          writer' = [writer EXCEPT ![o] = [at |-> "exists", path |-> p, read |-> read]]
    /\ UNCHANGED << stored, outputs >>

RequestCommits(o) ==
    /\ MayCommit(o)
    /\ artifacts' = Kept(o)
    /\ Commits(o, [NoWriter EXCEPT !.at = "over"])
    /\ UNCHANGED << files, outputs >>

\* Turned away, or the process ends: the transaction is undone, the file stays.
RequestFails(o) ==
    /\ writer[o].at \notin {"none", "over"}
    /\ writer' = [writer EXCEPT ![o] = [NoWriter EXCEPT !.at = "over"]]
    /\ UNCHANGED << stored, outputs >>

-----------------------------------------------------------------------------
(* A step of a run. *)

\* The commits before a step are done, and its tool, which may have read, has a file.
BeginStep(e, p) ==
    /\ writer[e].at = "none"
    /\ Len(outputs) < MaxOutputs
    /\ \E read \in {"nothing", "current"} :
          Commits(e, [at |-> "exists", path |-> p, read |-> read])
    /\ UNCHANGED << stored, outputs >>

\* save_output has added its row; the next line of the tool, or _mark, commits.
StepCommits(e) ==
    /\ MayCommit(e)
    /\ artifacts' = Kept(e)
    /\ outputs' = Append(outputs, IdOf(e))
    /\ Commits(e, NoWriter)
    /\ UNCHANGED files

\* The rollback after an error, or the end of the process.  The step may be run again,
\* in place or by a later attempt.
StepFails(e) ==
    /\ writer[e].at # "none"
    /\ writer' = [writer EXCEPT ![e] = NoWriter]
    /\ UNCHANGED << stored, outputs >>

-----------------------------------------------------------------------------
Store(w) == AskStore(w) \/ FindRow(w) \/ Write(w) \/ Replace(w)

OutputsNext ==
    \/ \E w \in Writers : Store(w)
    \/ \E o \in Others : \/ \E p \in Paths : Request(o, p)
                         \/ RequestCommits(o) \/ RequestFails(o)
    \/ \E e \in Executions : \/ \E p \in StepFiles : BeginStep(e, p)
                             \/ StepCommits(e) \/ StepFails(e)
    \/ OthersCommit

OutputsSpec == OutputsInit /\ [][OutputsNext]_outputVars

-----------------------------------------------------------------------------
(* Properties. *)

\* A file that artifacts lists is in the store under the name it has there, so it can
\* be downloaded, though the store knows nothing of transactions, several store the
\* same content under different names, and any of them may end halfway.
ListedIsStored == \A i \in DOMAIN artifacts : artifacts[i] \in files
=============================================================================
