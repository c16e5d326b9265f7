----------------------------- MODULE OutputsProofs -----------------------------
(***************************************************************************)
(* Proofs about Outputs: what is listed is stored, for any files and any   *)
(* number of exports, uploads and threads that execute steps.              *)
(***************************************************************************)
EXTENDS Outputs, TLAPS

\* What the variables may hold.
TypeOK ==
    /\ files \subseteq Paths
    /\ artifacts \in Seq(Paths)
    /\ outputs \in Seq(Nat)
    /\ writer \in [Writers -> Writer]

RowsIn(p, rows) == {i \in DOMAIN rows : Hash(rows[i]) = Hash(p)}

\* A writer that is somewhere in ensure_artifact has a file, which is in the store
\* before its row is inserted; a row that was found is there.
Backed(row, store, rows) ==
    /\ row.at \notin {"none", "over"} => row.path \in Paths
    /\ row.at = "insert" => row.path \in store
    /\ row.at = "found" => RowsIn(row.path, rows) # {}

WritersAreBacked == \A w \in Writers : Backed(writer[w], files, artifacts)

\* Each file a step listed has its row.
OutputsAreListed == \A n \in DOMAIN outputs : outputs[n] \in DOMAIN artifacts

IInv == TypeOK /\ WritersAreBacked /\ ListedIsStored /\ OutputsAreListed

-----------------------------------------------------------------------------
(* Writers. *)

LEMMA WriterParts ==
    ASSUME NEW row \in Writer
    PROVE  /\ row.at \in {"none", "exists", "find", "save", "replace", "insert", "found", "over"}
           /\ row.path \in Paths \cup {None}
           /\ row.read \in {"nothing", "current", "outdated"}
  BY DEF Writer

LEMMA WriterMade ==
    ASSUME NEW a \in {"none", "exists", "find", "save", "replace", "insert", "found", "over"},
           NEW p \in Paths \cup {None}, NEW r \in {"nothing", "current", "outdated"}
    PROVE  /\ [at |-> a, path |-> p, read |-> r] \in Writer
  BY DEF Writer

LEMMA NoWriterType ==
    /\ NoWriter \in Writer /\ [NoWriter EXCEPT !.at = "over"] \in Writer
    /\ NoWriter.at = "none" /\ [NoWriter EXCEPT !.at = "over"].at = "over"
<1>1. NoWriter \in Writer
  BY DEF NoWriter, Writer
<1>2. [NoWriter EXCEPT !.at = "over"] \in Writer
  BY <1>1 DEF Writer
<1> QED
  BY <1>1, <1>2 DEF NoWriter

LEMMA MovedParts ==
    ASSUME NEW row \in Writer,
           NEW a \in {"none", "exists", "find", "save", "replace", "insert", "found", "over"}
    PROVE  /\ [row EXCEPT !.at = a] \in Writer
           /\ [row EXCEPT !.at = a].at = a /\ [row EXCEPT !.at = a].path = row.path
           /\ [row EXCEPT !.at = a].read = row.read
  BY DEF Writer

LEMMA ReadsParts ==
    ASSUME NEW row \in Writer
    PROVE  /\ HasRead(row) \in Writer
           /\ HasRead(row).at = row.at /\ HasRead(row).path = row.path
  BY DEF HasRead, Writer

LEMMA OutdatedParts ==
    ASSUME TypeOK, NEW w \in Writers
    PROVE  /\ Outdated(w) \in Writer
           /\ Outdated(w).at = writer[w].at /\ Outdated(w).path = writer[w].path
<1>1. writer[w] \in Writer
  BY DEF TypeOK
<1> QED
  BY <1>1 DEF Outdated, Writer

LEMMA NotAtWork ==
    ASSUME NEW row, row.at \in {"none", "over"}, NEW store, NEW rows
    PROVE  Backed(row, store, rows)
  BY DEF Backed

\* Rows and files only come.
LEMMA BackedStays ==
    ASSUME NEW row, NEW now, NEW store, NEW more, NEW rows, NEW longer,
           Backed(row, store, rows), now.at = row.at, now.path = row.path,
           store \subseteq more, longer = rows \/ \E p : longer = Append(rows, p),
           rows \in Seq(Paths)
    PROVE  Backed(now, more, longer)
<1>1. RowsIn(row.path, rows) # {} => RowsIn(row.path, longer) # {}
  <2>1. CASE longer = rows
    BY <2>1
  <2>2. ASSUME NEW p, longer = Append(rows, p)
        PROVE  RowsIn(row.path, rows) # {} => RowsIn(row.path, longer) # {}
    <3>1. \A i \in DOMAIN rows : i \in DOMAIN longer /\ longer[i] = rows[i]
      BY <2>2
    <3> QED
      BY <3>1 DEF RowsIn
  <2> QED
    BY <2>1, <2>2
<1> QED
  BY <1>1 DEF Backed

\* A commit: the committer goes on as row, the others keep their places.
LEMMA CommitKeepsPlaces ==
    ASSUME TypeOK, NEW w \in Writers, NEW row \in Writer, Commits(w, row)
    PROVE  /\ writer' \in [Writers -> Writer] /\ writer'[w] = row
           /\ \A v \in Writers : v # w => /\ writer'[v].at = writer[v].at
                                         /\ writer'[v].path = writer[v].path
  BY OutdatedParts DEF Commits

LEMMA OthersCommitKeepsPlaces ==
    ASSUME TypeOK, OthersCommit
    PROVE  /\ writer' \in [Writers -> Writer]
           /\ \A v \in Writers : /\ writer'[v].at = writer[v].at
                                 /\ writer'[v].path = writer[v].path
  BY OutdatedParts DEF OthersCommit

\* What a step of one writer has to show: the others are where they were.
LEMMA WritersStayBacked ==
    ASSUME TypeOK, WritersAreBacked, NEW w \in Writers,
           \A v \in Writers : v # w => /\ writer'[v].at = writer[v].at
                                       /\ writer'[v].path = writer[v].path,
           Backed(writer'[w], files', artifacts'),
           files \subseteq files',
           artifacts' = artifacts \/ \E p : artifacts' = Append(artifacts, p)
    PROVE  WritersAreBacked'
<1> SUFFICES ASSUME NEW v \in Writers PROVE Backed(writer'[v], files', artifacts')
  BY DEF WritersAreBacked
<1>1. CASE v = w
  BY <1>1
<1>2. CASE v # w
  <2>1. Backed(writer[v], files, artifacts) /\ artifacts \in Seq(Paths)
    BY DEF WritersAreBacked, TypeOK
  <2>2. writer'[v].at = writer[v].at /\ writer'[v].path = writer[v].path
    BY <1>2
  <2> QED
    BY <2>1, <2>2, BackedStays
<1> QED
  BY <1>1, <1>2

-----------------------------------------------------------------------------
(* ensure_artifact, of the run or of another. *)

LEMMA StoreKeeps ==
    ASSUME IInv, NEW w \in Writers, Store(w)
    PROVE  IInv'
<1>1. writer[w] \in Writer /\ Backed(writer[w], files, artifacts)
  BY DEF IInv, TypeOK, WritersAreBacked
<1>2. TypeOK /\ WritersAreBacked /\ writer \in [Writers -> Writer]
  BY DEF IInv, TypeOK
<1>3. \E row \in Writer :
         /\ writer' = [writer EXCEPT ![w] = row]
         /\ row.at \in {"find", "save", "insert", "replace", "found"}
         /\ row.path = writer[w].path
         /\ row.at = "insert" => row.path \in files'
         /\ row.at = "found" => RowsOf(row.path) # {}
  <2>1. CASE AskStore(w)
    <3>1. PICK a \in {"find", "save"} : writer' = [writer EXCEPT ![w].at = a]
      BY <2>1 DEF AskStore
    <3> DEFINE row == [writer[w] EXCEPT !.at = a]
    <3>2. row \in Writer /\ row.at = a /\ row.path = writer[w].path
      BY <1>1, <3>1 DEF Writer
    <3>3. writer' = [writer EXCEPT ![w] = row]
      BY <3>1
    <3> HIDE DEF row
    <3> QED
      BY <3>1, <3>2, <3>3
  <2>2. CASE FindRow(w)
    <3>1. /\ HasRead(writer[w]) \in Writer /\ HasRead(writer[w]).path = writer[w].path
      BY <1>1, ReadsParts
    <3>2. CASE /\ RowsOf(writer[w].path) # {}
               /\ writer' = [writer EXCEPT ![w] = [HasRead(@) EXCEPT !.at = "found"]]
      <4> DEFINE row == [HasRead(writer[w]) EXCEPT !.at = "found"]
      <4>1. row \in Writer /\ row.at = "found" /\ row.path = writer[w].path
        BY <3>1, MovedParts
      <4>2. writer' = [writer EXCEPT ![w] = row]
        BY <3>2
      <4> HIDE DEF row
      <4> QED
        BY <3>2, <4>1, <4>2
    <3>3. CASE writer' = [writer EXCEPT ![w] = [HasRead(@) EXCEPT !.at = WithoutRow]]
      <4> DEFINE row == [HasRead(writer[w]) EXCEPT !.at = WithoutRow]
      <4>1. row \in Writer /\ row.at = "save" /\ row.path = writer[w].path
        BY <3>1, MovedParts DEF WithoutRow
      <4>2. writer' = [writer EXCEPT ![w] = row]
        BY <3>3
      <4> HIDE DEF row
      <4> QED
        BY <4>1, <4>2
    <3> QED
      BY <2>2, <3>2, <3>3 DEF FindRow
  <2>3. CASE Write(w)
    <3>1. PICK a \in {"insert", "replace"} :
             writer' = [writer EXCEPT ![w].at = a] /\ (a = "insert" => writer[w].path \in files)
      BY <2>3 DEF Write
    <3> DEFINE row == [writer[w] EXCEPT !.at = a]
    <3>2. row \in Writer /\ row.at = a /\ row.path = writer[w].path
      BY <1>1, <3>1 DEF Writer
    <3>3. writer' = [writer EXCEPT ![w] = row] /\ files' = files
      BY <2>3, <3>1 DEF Write, stored
    <3> HIDE DEF row
    <3> QED
      BY <3>1, <3>2, <3>3
  <2>4. CASE Replace(w)
    <3> DEFINE row == [writer[w] EXCEPT !.at = "insert"]
    <3>1. row \in Writer /\ row.at = "insert" /\ row.path = writer[w].path
      BY <1>1, MovedParts
    <3>2. writer' = [writer EXCEPT ![w] = row] /\ writer[w].path \in files'
      BY <2>4 DEF Replace
    <3> HIDE DEF row
    <3> QED
      BY <3>1, <3>2
  <2> QED
    BY <2>1, <2>2, <2>3, <2>4 DEF Store
<1>4. PICK row \in Writer :
         /\ writer' = [writer EXCEPT ![w] = row]
         /\ row.at \in {"find", "save", "insert", "replace", "found"}
         /\ row.path = writer[w].path
         /\ row.at = "insert" => row.path \in files'
         /\ row.at = "found" => RowsOf(row.path) # {}
  BY <1>3
<1>5. writer[w].at \in {"exists", "find", "save", "replace"}
  BY DEF Store, AskStore, FindRow, Write, Replace
<1>6. writer[w].path \in Paths
  BY <1>1, <1>5 DEF Backed
<1>7. /\ files \subseteq files' /\ files' \subseteq Paths /\ artifacts' = artifacts
      /\ UNCHANGED outputs
  BY <1>2, <1>6 DEF Store, AskStore, FindRow, Write, Replace, stored, TypeOK
<1>8. /\ writer' \in [Writers -> Writer] /\ writer'[w] = row
      /\ \A v \in Writers : v # w => writer'[v] = writer[v]
  BY <1>2, <1>4
<1>9. TypeOK'
  BY <1>2, <1>7, <1>8 DEF TypeOK
<1>10. Backed(writer'[w], files', artifacts')
  BY <1>4, <1>6, <1>7, <1>8 DEF Backed, RowsOf, RowsIn
<1>11. WritersAreBacked'
  BY <1>2, <1>7, <1>8, <1>10, WritersStayBacked
<1>12. (ListedIsStored /\ OutputsAreListed)'
  BY <1>7 DEF IInv, ListedIsStored, OutputsAreListed
<1> QED
  BY <1>9, <1>11, <1>12 DEF IInv

\* What the writer's commit makes of the table: its file is stored and listed.
LEMMA KeptIsStored ==
    ASSUME IInv, NEW w \in Writers, MayCommit(w)
    PROVE  /\ Kept(w) \in Seq(Paths)
           /\ Kept(w) = artifacts \/ \E p : Kept(w) = Append(artifacts, p)
           /\ \A i \in DOMAIN Kept(w) : Kept(w)[i] \in files
           /\ DOMAIN artifacts \subseteq DOMAIN Kept(w)
           /\ IdOf(w) \in DOMAIN Kept(w)
<1>1. /\ artifacts \in Seq(Paths) /\ \A i \in DOMAIN artifacts : artifacts[i] \in files
      /\ Backed(writer[w], files, artifacts)
  BY DEF IInv, TypeOK, ListedIsStored, WritersAreBacked
<1>2. CASE writer[w].at = "found"
  <2>1. RowsOf(writer[w].path) # {}
    BY <1>1, <1>2 DEF Backed, RowsIn, RowsOf
  <2>2. (CHOOSE i \in RowsOf(writer[w].path) : TRUE) \in RowsOf(writer[w].path)
    BY <2>1
  <2>3. IdOf(w) \in DOMAIN artifacts
    BY <1>2, <2>2 DEF IdOf, RowsOf
  <2> QED
    BY <1>1, <1>2, <2>3 DEF Kept
<1>3. CASE writer[w].at = "insert"
  <2>1. writer[w].path \in Paths /\ writer[w].path \in files
    BY <1>1, <1>3 DEF Backed
  <2>2. Kept(w) = Append(artifacts, writer[w].path) /\ IdOf(w) = Len(artifacts) + 1
    BY <1>3 DEF Kept, IdOf
  <2> QED
    BY <1>1, <2>1, <2>2
<1> QED
  BY <1>2, <1>3 DEF MayCommit

-----------------------------------------------------------------------------
(* Who stores files. *)

\* A writer goes on or comes to an end, with or without a commit, and store and tables
\* stay as they are.
LEMMA OnlyWritersMove ==
    ASSUME IInv, NEW w \in Writers, NEW row \in Writer,
           \/ writer' = [writer EXCEPT ![w] = row]
           \/ Commits(w, row),
           row.at \in {"none", "over"} \/ (row.at = "exists" /\ row.path \in Paths),
           UNCHANGED << files, artifacts, outputs >>
    PROVE  IInv'
<1>1. TypeOK /\ WritersAreBacked /\ writer \in [Writers -> Writer]
  BY DEF IInv, TypeOK
<1>2. /\ writer' \in [Writers -> Writer] /\ writer'[w] = row
      /\ \A v \in Writers : v # w => /\ writer'[v].at = writer[v].at
                                    /\ writer'[v].path = writer[v].path
  <2>1. CASE writer' = [writer EXCEPT ![w] = row]
    BY <1>1, <2>1
  <2>2. CASE Commits(w, row)
    BY <1>1, <2>2, CommitKeepsPlaces
  <2> QED
    BY <2>1, <2>2
<1>3. TypeOK'
  BY <1>1, <1>2 DEF TypeOK
<1>4. Backed(writer'[w], files', artifacts')
  BY <1>2 DEF Backed
<1>5. WritersAreBacked'
  BY <1>1, <1>2, <1>4, WritersStayBacked
<1> QED
  BY <1>3, <1>5 DEF IInv, ListedIsStored, OutputsAreListed

LEMMA BeginsKeep ==
    ASSUME IInv, NEW w \in Writers, NEW p \in Paths, NEW read \in {"nothing", "current"},
           \/ writer' = [writer EXCEPT ![w] = [at |-> "exists", path |-> p, read |-> read]]
           \/ Commits(w, [at |-> "exists", path |-> p, read |-> read]),
           UNCHANGED << files, artifacts, outputs >>
    PROVE  IInv'
<1> DEFINE row == [at |-> "exists", path |-> p, read |-> read]
<1>1. row \in Writer /\ row.at = "exists" /\ row.path = p
  BY WriterMade
<1>2. writer' = [writer EXCEPT ![w] = row] \/ Commits(w, row)
  OBVIOUS
<1> HIDE DEF row
<1> QED
  BY <1>1, <1>2, OnlyWritersMove

LEMMA EndsKeep ==
    ASSUME IInv, NEW w \in Writers,
           \/ writer' = [writer EXCEPT ![w] = NoWriter]
           \/ writer' = [writer EXCEPT ![w] = [NoWriter EXCEPT !.at = "over"]],
           UNCHANGED << files, artifacts, outputs >>
    PROVE  IInv'
  BY NoWriterType, OnlyWritersMove

\* A writer commits its row; a step lists it as well.
LEMMA CommitKeeps ==
    ASSUME IInv, NEW w \in Writers, MayCommit(w), NEW row \in Writer,
           row.at \in {"none", "over"}, Commits(w, row), artifacts' = Kept(w),
           outputs' = outputs \/ outputs' = Append(outputs, IdOf(w)),
           UNCHANGED files
    PROVE  IInv'
<1>1. TypeOK /\ WritersAreBacked
  BY DEF IInv
<1>2. /\ writer' \in [Writers -> Writer] /\ writer'[w] = row
      /\ \A v \in Writers : v # w => /\ writer'[v].at = writer[v].at
                                    /\ writer'[v].path = writer[v].path
  BY <1>1, CommitKeepsPlaces
<1>3. /\ artifacts' \in Seq(Paths)
      /\ artifacts' = artifacts \/ \E p : artifacts' = Append(artifacts, p)
      /\ \A i \in DOMAIN artifacts' : artifacts'[i] \in files
      /\ DOMAIN artifacts \subseteq DOMAIN artifacts'
      /\ IdOf(w) \in DOMAIN artifacts'
  BY KeptIsStored
<1>4. IdOf(w) \in Nat
  BY <1>3
<1>5. outputs \in Seq(Nat) /\ outputs' \in Seq(Nat)
  <2>1. outputs \in Seq(Nat)
    BY <1>1 DEF TypeOK
  <2>2. Append(outputs, IdOf(w)) \in Seq(Nat)
    BY <1>4, <2>1
  <2> QED
    BY <2>1, <2>2
<1>6. TypeOK'
  BY <1>1, <1>2, <1>3, <1>5 DEF TypeOK
<1>7. Backed(writer'[w], files', artifacts')
  BY <1>2, NotAtWork
<1>8. WritersAreBacked'
  BY <1>1, <1>2, <1>3, <1>7, WritersStayBacked
<1>9. OutputsAreListed'
  <2> SUFFICES ASSUME NEW n \in DOMAIN outputs' PROVE outputs'[n] \in DOMAIN artifacts'
    BY DEF OutputsAreListed
  <2>1. outputs'[n] = IdOf(w) \/ (n \in DOMAIN outputs /\ outputs'[n] = outputs[n])
    BY <1>5
  <2> QED
    BY <2>1, <1>3 DEF IInv, OutputsAreListed
<1> QED
  BY <1>3, <1>6, <1>8, <1>9 DEF IInv, ListedIsStored

LEMMA OthersCommitKeeps == ASSUME IInv, OthersCommit PROVE IInv'
<1>1. TypeOK /\ UNCHANGED << files, artifacts, outputs >> /\ artifacts \in Seq(Paths)
  BY DEF IInv, OthersCommit, stored, TypeOK
<1>2. /\ writer' \in [Writers -> Writer]
      /\ \A v \in Writers : writer'[v].at = writer[v].at /\ writer'[v].path = writer[v].path
  BY <1>1, OthersCommitKeepsPlaces
<1>3. TypeOK'
  BY <1>1, <1>2 DEF TypeOK
<1>4. WritersAreBacked'
  BY <1>1, <1>2, BackedStays DEF IInv, WritersAreBacked
<1> QED
  BY <1>1, <1>3, <1>4 DEF IInv, ListedIsStored, OutputsAreListed

-----------------------------------------------------------------------------
(* The theorems. *)

LEMMA InitKeeps == OutputsInit => IInv
<1> SUFFICES ASSUME OutputsInit PROVE IInv
  OBVIOUS
<1>1. /\ files = {} /\ artifacts = << >> /\ outputs = << >>
      /\ writer = [w \in Writers |-> NoWriter]
  BY DEF OutputsInit
<1>2. TypeOK
  BY <1>1, NoWriterType DEF TypeOK
<1>3. WritersAreBacked
  BY <1>1, NoWriterType, NotAtWork DEF WritersAreBacked
<1> QED
  BY <1>1, <1>2, <1>3 DEF IInv, ListedIsStored, OutputsAreListed

LEMMA StepKeeps == IInv /\ [OutputsNext]_outputVars => IInv'
<1> SUFFICES ASSUME IInv, [OutputsNext]_outputVars PROVE IInv'
  OBVIOUS
<1>0. Others \subseteq Writers /\ Executions \subseteq Writers /\ StepFiles \subseteq Paths
  BY OutputsAssumption DEF Writers
<1>1. ASSUME NEW w \in Writers, Store(w) PROVE IInv'
  BY <1>1, StoreKeeps
<1>2. ASSUME NEW o \in Others, NEW p \in Paths, Request(o, p) PROVE IInv'
  BY <1>0, <1>2, BeginsKeep DEF Request, stored
<1>3. ASSUME NEW o \in Others, RequestCommits(o) PROVE IInv'
  BY <1>0, <1>3, NoWriterType, CommitKeeps DEF RequestCommits
<1>4. ASSUME NEW o \in Others, RequestFails(o) PROVE IInv'
  BY <1>0, <1>4, EndsKeep DEF RequestFails, stored
<1>5. ASSUME NEW e \in Executions, NEW p \in StepFiles, BeginStep(e, p) PROVE IInv'
  BY <1>0, <1>5, BeginsKeep DEF BeginStep, stored
<1>6. ASSUME NEW e \in Executions, StepCommits(e) PROVE IInv'
  BY <1>0, <1>6, NoWriterType, CommitKeeps DEF StepCommits
<1>7. ASSUME NEW e \in Executions, StepFails(e) PROVE IInv'
  BY <1>0, <1>7, EndsKeep DEF StepFails, stored
<1>8. CASE OthersCommit
  BY <1>8, OthersCommitKeeps
<1>9. CASE UNCHANGED outputVars
  BY <1>9 DEF outputVars, stored, IInv, TypeOK, WritersAreBacked, ListedIsStored, OutputsAreListed
<1> QED
  BY <1>1, <1>2, <1>3, <1>4, <1>5, <1>6, <1>7, <1>8, <1>9 DEF OutputsNext

LEMMA Inductive == OutputsSpec => []IInv
<1>1. OutputsInit => IInv
  BY InitKeeps
<1>2. IInv /\ [OutputsNext]_outputVars => IInv'
  BY StepKeeps
<1> QED
  BY <1>1, <1>2, PTL DEF OutputsSpec

\* Store, tables and writers keep their types.
THEOREM TypeCorrect == OutputsSpec => []TypeOK
  BY Inductive, PTL DEF IInv

\* However writers of one content overlap, and wherever they are turned away: what
\* artifacts lists is in the store under the name it has there.
THEOREM ListedStaysStored == OutputsSpec => []ListedIsStored
  BY Inductive, PTL DEF IInv

\* The page of the run lists files that artifacts has.
THEOREM OutputsStayListed == OutputsSpec => []OutputsAreListed
  BY Inductive, PTL DEF IInv
=============================================================================
