------------------------------- MODULE Documents -------------------------------
(***************************************************************************)
(* The documents of the whole system, their readings and the verdicts on   *)
(* them: people who upload, the worker thread that reads and checks files  *)
(* for one run after another, and reviewers, none of them waiting for the  *)
(* others while the model reads.                                           *)
(*                                                                         *)
(* Both tables only grow, and their ids are their positions.  A step is    *)
(* one committed transaction: SQLite lets none write that read before      *)
(* another one committed, so a verdict saw every reading there was, and a  *)
(* transaction it turns away is a request or a pass that fails.  What a    *)
(* session remembers of a row is as in Execution: assigning a status the   *)
(* copy already has writes nothing, and a copy nobody refers to may be     *)
(* forgotten.                                                              *)
(***************************************************************************)
EXTENDS Naturals, Sequences

CONSTANTS Contents,        \* the files there are, by content
          Uploads,         \* the requests POST /documents
          Runs,            \* the runs that read and check
          Numbers,         \* invoice numbers
          Readings,        \* Readings[c]: what the model or a person may read in c
          MaxExtractions,  \* bound: the readings of all documents together
          MaxPasses,       \* bound: the passes of the thread
          None

\* sound: the critical rules other than QC-06 hold (QC-07 covers a blank number).
Data == [number : Numbers \cup {None}, sound : BOOLEAN]

ASSUME DocumentsAssumption ==
    /\ None \notin Numbers \cup Runs
    /\ Readings \in [Contents -> SUBSET Data]
    /\ MaxPasses \in Nat

VARIABLES documents,    \* the table documents, with "somebody accepted it" of human_reviews
          extractions,  \* the table extractions, with its qc_results
          upload,       \* upload[u]: the request
          thread,       \* the worker thread
          passes        \* how many passes it began

vars == << documents, extractions, upload, thread, passes >>

DocumentStatus == {"processing", "ok", "needs_review", "rejected", "failed"}
Document == [content : Contents, status : DocumentStatus, accepted : BOOLEAN]

\* verdict: of the rows of qc_results; passed: history, a verdict was once "clean".
Extraction == [document : Nat, run : Runs \cup {None}, data : Data,
               verdict : {"none", "clean", "faulty"}, passed : BOOLEAN]

Upload == [at : {"none", "asking", "over"}, document : Nat]

\* at: between two files, waiting for the model's answer about document, of which
\* the session has the status copy, in the check step, or in the escalate step;
\* done: the files behind it; ids: document_ids still to check; review:
\* review_document_ids; seen: the copies of documents in ids.
Thread == [run : Runs \cup {None}, at : {"idle", "files", "asking", "check", "escalate"},
           done : SUBSET Contents, document : Nat, copy : DocumentStatus, ids : Seq(Nat),
           review : SUBSET Nat, seen : SUBSET (Nat \X DocumentStatus)]
Idle == [run |-> None, at |-> "idle", done |-> {}, document |-> 0, copy |-> "processing",
         ids |-> << >>, review |-> {}, seen |-> {}]

Init ==
    /\ documents = << >>
    /\ extractions = << >>
    /\ upload = [u \in Uploads |-> [at |-> "none", document |-> 0]]
    /\ thread = Idle
    /\ passes = 0

Known == DOMAIN documents
ReadingsOf(d) == {x \in DOMAIN extractions : extractions[x].document = d}
Latest(d) == CHOOSE x \in ReadingsOf(d) : \A y \in ReadingsOf(d) : y <= x

-----------------------------------------------------------------------------
(* Quality rules. *)

\* A mutated form of OtherNumbers: only numbers read by runs are compared.
OtherNumbersOfRuns(d) ==
    {extractions[x].data.number : x \in {y \in DOMAIN extractions :
        extractions[y].document # d /\ extractions[y].run # None}}

\* QC-06: the invoice numbers of all other documents, superseded readings included.
OtherNumbers(d) ==
    {extractions[x].data.number : x \in {y \in DOMAIN extractions :
        extractions[y].document # d}}

\* run_qc on a reading of document d: a critical rule fails.
Faulty(d, data) == ~data.sound \/ data.number = None \/ data.number \in OtherNumbers(d)

Verdict(d, data) == IF Faulty(d, data) THEN "faulty" ELSE "clean"

\* The status extract_document and validate_invoice give with a verdict.
StatusFor(verdict) == IF verdict = "faulty" THEN "needs_review" ELSE "ok"

\* A reading with or without a verdict of its own.
Row(d, r, data, verdict) ==
    [document |-> d, run |-> r, data |-> data, verdict |-> verdict,
     passed |-> verdict = "clean"]

-----------------------------------------------------------------------------
(* POST /documents. *)

\* ingest, up to its commit before the model is asked; a file that is neither an
\* image nor a PDF is rejected at once.
Ingest(u, c) ==
    /\ upload[u].at = "none"
    /\ \/ /\ documents' = Append(documents, [content |-> c, status |-> "processing",
                                             accepted |-> FALSE])
          /\ upload' = [upload EXCEPT ![u] = [at |-> "asking", document |-> Len(documents) + 1]]
       \/ /\ documents' = Append(documents, [content |-> c, status |-> "rejected",
                                             accepted |-> FALSE])
          /\ upload' = [upload EXCEPT ![u].at = "over"]
    /\ UNCHANGED << extractions, thread, passes >>

\* extract_document with the rules, and the commit of the endpoint.  The request
\* still has the status "processing" in memory, so what it assigns is written.
IngestAnswer(u) ==
    LET d == upload[u].document IN
    /\ upload[u].at = "asking"
    /\ upload' = [upload EXCEPT ![u] = [at |-> "over", document |-> 0]]
    /\ \/ \E data \in Readings[documents[d].content] :
            /\ Len(extractions) < MaxExtractions
            /\ extractions' = Append(extractions, Row(d, None, data, Verdict(d, data)))
            /\ documents' = [documents EXCEPT ![d].status = StatusFor(Verdict(d, data))]
       \/ \E status \in {"failed", "rejected"} :
            /\ documents' = [documents EXCEPT ![d].status = status]
            /\ UNCHANGED extractions
    /\ UNCHANGED << thread, passes >>

\* The process ends, or the commit fails.
IngestDies(u) ==
    /\ upload[u].at = "asking"
    /\ upload' = [upload EXCEPT ![u] = [at |-> "over", document |-> 0]]
    /\ UNCHANGED << documents, extractions, thread, passes >>

-----------------------------------------------------------------------------
(* A run: vision.extract_invoice, qc.validate_invoice, qc.escalate. *)

Begin(r) ==
    /\ thread.at = "idle" /\ passes < MaxPasses
    /\ thread' = [Idle EXCEPT !.run = r, !.at = "files"]
    /\ passes' = passes + 1
    /\ UNCHANGED << documents, extractions, upload >>

DONE_STATUSES == {"ok", "needs_review", "rejected"}

\* The newest document with the content, if there is one.
Existing(c) == {d \in Known : /\ documents[d].content = c
                              /\ \A e \in Known : documents[e].content = c => e <= d}

ReadBefore(d, r) == \E x \in ReadingsOf(d) : extractions[x].run = r
Skipped(d) == documents[d].status \in DONE_STATUSES \/ ReadingsOf(d) # {}

\* Up to the commit before the model is asked, or to the next file.  A document of
\* a file that is no image and no PDF is rejected already.
ReadFile(c) ==
    /\ thread.at = "files" /\ c \notin thread.done
    /\ \/ \E d \in Existing(c) :
            /\ ReadBefore(d, thread.run)
            /\ thread' = [thread EXCEPT !.done = @ \cup {c}, !.ids = Append(@, d),
                                        !.seen = @ \cup {<< d, documents[d].status >>}]
            /\ UNCHANGED documents
       \/ \E d \in Existing(c) :
            /\ ~ReadBefore(d, thread.run) /\ Skipped(d)
            /\ thread' = [thread EXCEPT !.done = @ \cup {c}]
            /\ UNCHANGED documents
       \/ \E d \in Existing(c) :
            /\ ~ReadBefore(d, thread.run) /\ ~Skipped(d)
            /\ thread' = [thread EXCEPT !.done = @ \cup {c}, !.at = "asking", !.document = d,
                                        !.copy = documents[d].status]
            /\ UNCHANGED documents
       \/ /\ Existing(c) = {}
          /\ documents' = Append(documents, [content |-> c, status |-> "processing",
                                             accepted |-> FALSE])
          /\ thread' = [thread EXCEPT !.done = @ \cup {c}, !.at = "asking",
                                      !.document = Len(documents) + 1, !.copy = "processing"]
    /\ UNCHANGED << extractions, upload, passes >>

\* extract_document without the rules.  A status the session has already is not
\* written, whatever the row says by now.
ReadAnswer ==
    LET d == thread.document
        Assign(status) == IF thread.copy = status THEN UNCHANGED documents
                          ELSE documents' = [documents EXCEPT ![d].status = status]
    IN
    /\ thread.at = "asking"
    /\ \/ \E data \in Readings[documents[d].content] :
            /\ Len(extractions) < MaxExtractions
            /\ extractions' = Append(extractions, Row(d, thread.run, data, "none"))
            /\ Assign("processing")
            /\ thread' = [thread EXCEPT !.at = "files", !.document = 0,
                                        !.copy = "processing", !.ids = Append(@, d),
                                        !.seen = @ \cup {<< d, "processing" >>}]
       \/ \E status \in {"failed", "rejected"} :
            /\ Assign(status)
            /\ thread' = [thread EXCEPT !.at = "files", !.document = 0, !.copy = "processing"]
            /\ UNCHANGED extractions
    /\ UNCHANGED << upload, passes >>

StartCheck ==
    /\ thread.at = "files" /\ thread.ids # << >>
    /\ thread' = [thread EXCEPT !.at = "check"]
    /\ UNCHANGED << documents, extractions, upload, passes >>

\* A mutated form of ToJudge: the oldest reading.
ToJudgeOldest(d) == CHOOSE x \in ReadingsOf(d) : \A y \in ReadingsOf(d) : x <= y

\* latest_extraction
ToJudge(d) == Latest(d)

\* What evaluate says of document d now.
Judged(d) == Verdict(d, extractions[ToJudge(d)].data)

\* validate_invoice commits with the log line of a document that fails, and at
\* the end: one step for the documents up to there.
CheckSome(n) ==
    LET some == {thread.ids[m] : m \in 1 .. n}
        toJudge == {ToJudge(d) : d \in some}
        judged == [d \in some |-> Judged(d)]
        row(x) == [extractions[x] EXCEPT !.verdict = judged[extractions[x].document],
                                         !.passed = @ \/ judged[extractions[x].document] = "clean"]
    IN
    /\ thread.at = "check" /\ n \in 1 .. Len(thread.ids)
    /\ \A m \in 1 .. n - 1 : judged[thread.ids[m]] = "clean"
    /\ n = Len(thread.ids) \/ judged[thread.ids[n]] = "faulty"
    /\ extractions' = [x \in DOMAIN extractions |->
                          IF x \in toJudge THEN row(x) ELSE extractions[x]]
    /\ \E kept \in SUBSET {d \in some : << d, StatusFor(judged[d]) >> \in thread.seen} :
          documents' = [d \in Known |-> IF d \in some \ kept
                            THEN [documents[d] EXCEPT !.status = StatusFor(judged[d])]
                            ELSE documents[d]]
    /\ thread' = [thread EXCEPT
          !.at = IF n = Len(thread.ids) THEN "escalate" ELSE "check",
          !.ids = SubSeq(@, n + 1, Len(@)),
          !.review = @ \cup {d \in some : judged[d] = "faulty"}]
    /\ UNCHANGED << upload, passes >>

\* The end of the pass, as far as documents are concerned.  A session that
\* remembers the verdict it just gave writes nothing.
Escalate ==
    /\ thread.at = "escalate"
    /\ \E some \in SUBSET thread.review :
          documents' = [d \in Known |-> IF d \in some
                            THEN [documents[d] EXCEPT !.status = "needs_review"]
                            ELSE documents[d]]
    /\ thread' = Idle
    /\ UNCHANGED << extractions, upload, passes >>

\* An error, a cancellation or a death: the next pass has a session of its own.
Abandon ==
    /\ thread.at # "idle"
    /\ thread' = Idle
    /\ UNCHANGED << documents, extractions, upload, passes >>

-----------------------------------------------------------------------------
(* Reviewers: POST /reviews for what waits, PATCH /documents also for what is ok. *)

Approve(d) ==
    /\ documents[d].status \in {"needs_review", "ok"} /\ ReadingsOf(d) # {}
    /\ documents' = [documents EXCEPT ![d].status = "ok", ![d].accepted = TRUE]
    /\ UNCHANGED << extractions, upload, thread, passes >>

Reject(d) ==
    /\ documents[d].status = "needs_review"
    /\ documents' = [documents EXCEPT ![d].status = "rejected"]
    /\ UNCHANGED << extractions, upload, thread, passes >>

\* A reading by hand, of the run of the last one, from which it differs; its
\* verdict is kept with it.
Correct(d, data) ==
    LET r == IF ReadingsOf(d) = {} THEN None ELSE extractions[Latest(d)].run IN
    /\ documents[d].status \in {"needs_review", "ok"}
    /\ ReadingsOf(d) # {} => data # extractions[Latest(d)].data
    /\ Len(extractions) < MaxExtractions
    /\ extractions' = Append(extractions, Row(d, r, data, Verdict(d, data)))
    /\ documents' = [documents EXCEPT ![d].status = "ok", ![d].accepted = TRUE]
    /\ UNCHANGED << upload, thread, passes >>

Next ==
    \/ \E u \in Uploads : \/ \E c \in Contents : Ingest(u, c)
                          \/ IngestAnswer(u) \/ IngestDies(u)
    \/ \E r \in Runs : Begin(r)
    \/ \E c \in Contents : ReadFile(c)
    \/ ReadAnswer \/ StartCheck
    \/ \E n \in 1 .. Len(thread.ids) : CheckSome(n)
    \/ Escalate \/ Abandon
    \/ \E d \in Known : \/ Approve(d) \/ Reject(d)
                        \/ \E data \in Readings[documents[d].content] : Correct(d, data)

Spec == Init /\ [][Next]_vars

-----------------------------------------------------------------------------
(* Properties. *)

\* The tables, requests and the thread have the columns declared above, and refer
\* to documents that exist.
TypeOK ==
    /\ documents \in Seq(Document)
    /\ extractions \in Seq(Extraction)
    /\ upload \in [Uploads -> Upload]
    /\ thread \in Thread
    /\ passes \in Nat
    /\ \A x \in DOMAIN extractions : extractions[x].document \in Known
    /\ \A u \in Uploads : upload[u].at = "asking" => upload[u].document \in Known
    /\ thread.at = "asking" => thread.document \in Known

\* A document is ok because somebody accepted it or because its latest reading
\* passed the rules when it was checked, however uploads, passes, reviews and
\* escalations mix; the exception is a reading whose check is still to come.
OkIsVouchedFor ==
    \A d \in Known : documents[d].status = "ok" =>
        /\ ReadingsOf(d) # {}
        /\ \/ documents[d].accepted
           \/ extractions[Latest(d)].passed
           \/ extractions[Latest(d)].verdict = "none"

\* Two documents with the same invoice number do not both become ok unseen: a
\* person accepted one of them, though their readings were judged by different
\* requests and runs, in any order (an unchecked reading is again excepted).
DuplicatesAreSeen ==
    \A d, e \in Known :
        LET x == Latest(d)
            y == Latest(e)
        IN (/\ d # e
            /\ documents[d].status = "ok" /\ documents[e].status = "ok"
            /\ extractions[x].data.number = extractions[y].data.number
            /\ extractions[x].verdict # "none" /\ extractions[y].verdict # "none")
              => documents[d].accepted \/ documents[e].accepted
=============================================================================
