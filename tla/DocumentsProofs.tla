---------------------------- MODULE DocumentsProofs ----------------------------
(***************************************************************************)
(* Proofs about Documents: for any number of files, uploads and runs, a    *)
(* document is ok only if somebody vouches for its latest reading, and two *)
(* documents with one number do not both become ok unseen.                 *)
(***************************************************************************)
EXTENDS Documents, SequenceTheorems, TLAPS

\* The CHOOSE of Latest is the last reading.
LatestIsLast ==
    \A d \in Nat : ReadingsOf(d) # {} =>
        /\ Latest(d) \in ReadingsOf(d)
        /\ \A y \in ReadingsOf(d) : y <= Latest(d)

\* What is still to be checked has been read.
ChecksAreOfReadings ==
    \A m \in 1 .. Len(thread.ids) : ReadingsOf(thread.ids[m]) # {}

\* Of two documents, readings with the same number do not both pass.
NumbersPassOnce ==
    \A x, y \in DOMAIN extractions :
        (/\ extractions[x].document # extractions[y].document
         /\ extractions[x].passed /\ extractions[y].passed)
            => extractions[x].data.number # extractions[y].data.number

CleanIsPassed ==
    \A x \in DOMAIN extractions :
        extractions[x].verdict = "clean" => extractions[x].passed

ReadingsInv == LatestIsLast /\ NumbersPassOnce /\ CleanIsPassed

HasPassed(d) == ReadingsOf(d) # {} /\ extractions[Latest(d)].passed

\* OkIsVouchedFor, of one document.
Vouched(d) ==
    documents[d].status = "ok" =>
        /\ ReadingsOf(d) # {}
        /\ \/ documents[d].accepted
           \/ extractions[Latest(d)].passed
           \/ extractions[Latest(d)].verdict = "none"

\* A copy that says needs_review, of a document that is ok by now and that nobody
\* accepted, is old because a reading passed, and no reading came since: a check
\* that assigns needs_review to it, and so writes nothing, judges that reading.
Sound(d) ==
    /\ Vouched(d)
    /\ (/\ documents[d].status = "ok" /\ ~documents[d].accepted
        /\ << d, "needs_review" >> \in thread.seen) => HasPassed(d)

\* The copies are of documents whose files are done; the file asked about is not
\* among them.
CopiesAreOfDone ==
    /\ \A s \in thread.seen : s[1] \in Known /\ documents[s[1]].content \in thread.done
    /\ thread.at = "asking" =>
          /\ documents[thread.document].content \in thread.done
          /\ \A s \in thread.seen : s[1] # thread.document

\* The two halves of TypeOK.
Typed ==
    /\ documents \in Seq(Document)
    /\ extractions \in Seq(Extraction)
    /\ upload \in [Uploads -> Upload]
    /\ thread \in Thread
    /\ passes \in Nat

Referring ==
    /\ \A x \in DOMAIN extractions : extractions[x].document \in Known
    /\ \A u \in Uploads : upload[u].at = "asking" => upload[u].document \in Known
    /\ thread.at = "asking" => thread.document \in Known

IInv ==
    /\ Typed
    /\ Referring
    /\ ReadingsInv
    /\ ChecksAreOfReadings
    /\ CopiesAreOfDone
    /\ \A d \in Known : Sound(d)

-----------------------------------------------------------------------------
(* Verdicts and rows. *)

LEMMA VerdictKnown ==
    ASSUME NEW d, NEW data
    PROVE  /\ Verdict(d, data) \in {"clean", "faulty"}
           /\ StatusFor(Verdict(d, data)) \in {"ok", "needs_review"}
           /\ StatusFor(Verdict(d, data)) = "ok" <=> Verdict(d, data) = "clean"
    BY DEF Verdict, StatusFor

LEMMA RowKnown ==
    ASSUME NEW d \in Nat, NEW r \in Runs \cup {None}, NEW data \in Data,
           NEW verdict \in {"none", "clean", "faulty"}
    PROVE  /\ Row(d, r, data, verdict) \in Extraction
           /\ Row(d, r, data, verdict).document = d
           /\ Row(d, r, data, verdict).data = data
           /\ Row(d, r, data, verdict).verdict = verdict
           /\ Row(d, r, data, verdict).passed <=> verdict = "clean"
    BY DEF Row, Extraction

\* A clean verdict means that no other document has the number.
LEMMA CleanIsUnique ==
    ASSUME NEW d, NEW data, Verdict(d, data) = "clean",
           NEW y \in DOMAIN extractions, extractions[y].document # d
    PROVE  extractions[y].data.number # data.number
    BY DEF Verdict, Faulty, OtherNumbers

-----------------------------------------------------------------------------
(* The last reading. *)

LEMMA LastOfSet ==
    ASSUME NEW S, S \subseteq Nat, NEW n \in S, \A y \in S : y <= n
    PROVE  (CHOOSE x \in S : \A y \in S : y <= x) = n
<1> DEFINE c == CHOOSE x \in S : \A y \in S : y <= x
<1>1. c \in S /\ \A y \in S : y <= c
  OBVIOUS
<1>2. n <= c /\ c <= n /\ n \in Nat /\ c \in Nat
  BY <1>1
<1> QED  BY <1>2

\* A table that keeps its rows' documents keeps the last readings.
LEMMA KeptReadings ==
    ASSUME DOMAIN extractions' = DOMAIN extractions,
           \A x \in DOMAIN extractions :
               extractions'[x].document = extractions[x].document,
           NEW d
    PROVE  ReadingsOf(d)' = ReadingsOf(d) /\ Latest(d)' = Latest(d)
<1>1. ReadingsOf(d)' = ReadingsOf(d)
  BY DEF ReadingsOf
<1> QED  BY <1>1 DEF Latest

\* A new row is the last reading of its document.
Grown(row) ==
    /\ extractions' \in Seq(Extraction)
    /\ Len(extractions') = Len(extractions) + 1
    /\ DOMAIN extractions' = 1 .. Len(extractions) + 1
    /\ DOMAIN extractions = 1 .. Len(extractions)
    /\ Len(extractions) \in Nat
    /\ \A x \in DOMAIN extractions : extractions'[x] = extractions[x]
    /\ extractions'[Len(extractions) + 1] = row

LEMMA AppendGrows ==
    ASSUME extractions \in Seq(Extraction), NEW row \in Extraction,
           extractions' = Append(extractions, row)
    PROVE  Grown(row)
    BY DEF Grown

LEMMA GrownReadings ==
    ASSUME NEW row, Grown(row), NEW d
    PROVE  /\ row.document # d => ReadingsOf(d)' = ReadingsOf(d) /\ Latest(d)' = Latest(d)
           /\ row.document = d =>
                /\ ReadingsOf(d)' = ReadingsOf(d) \cup {Len(extractions) + 1}
                /\ Latest(d)' = Len(extractions) + 1
                /\ \A y \in ReadingsOf(d)' : y <= Len(extractions) + 1
<1> DEFINE n == Len(extractions) + 1
<1>0. Grown(row)
  OBVIOUS
<1>1. n \notin DOMAIN extractions /\ DOMAIN extractions' = DOMAIN extractions \cup {n}
  BY <1>0 DEF Grown
<1>2. CASE row.document # d
  <2>1. ReadingsOf(d)' = ReadingsOf(d)
    BY <1>0, <1>1, <1>2 DEF ReadingsOf, Grown
  <2> QED  BY <2>1, <1>2 DEF Latest
<1>3. CASE row.document = d
  <2>1. ReadingsOf(d)' = ReadingsOf(d) \cup {n}
    BY <1>0, <1>1, <1>3 DEF ReadingsOf, Grown
  <2>2. ReadingsOf(d)' \subseteq Nat /\ n \in ReadingsOf(d)'
    BY <1>0, <2>1 DEF ReadingsOf, Grown
  <2>3. \A y \in ReadingsOf(d)' : y <= n
    BY <1>0 DEF ReadingsOf, Grown
  <2>4. (CHOOSE x \in ReadingsOf(d)' : \A y \in ReadingsOf(d)' : y <= x) = n
    BY <2>2, <2>3, LastOfSet
  <2>5. Latest(d)' = n
    BY <2>4 DEF Latest
  <2> QED  BY <2>1, <2>3, <2>5, <1>3
<1> QED  BY <1>2, <1>3

-----------------------------------------------------------------------------
(* Types. *)

LEMMA NewDocument ==
    ASSUME documents \in Seq(Document), NEW c \in Contents, NEW status \in DocumentStatus,
           documents' = Append(documents, [content |-> c, status |-> status,
                                           accepted |-> FALSE])
    PROVE  /\ documents' \in Seq(Document)
           /\ Len(documents') = Len(documents) + 1
           /\ Known = 1 .. Len(documents) /\ Known' = 1 .. Len(documents) + 1
           /\ Len(documents) \in Nat
           /\ \A d \in Known : documents'[d] = documents[d]
           /\ documents'[Len(documents) + 1].content = c
           /\ documents'[Len(documents) + 1].status = status
<1> DEFINE row == [content |-> c, status |-> status, accepted |-> FALSE]
<1>1. row \in Document
  BY DEF Document
<1>2. documents' = Append(documents, row)
  OBVIOUS
<1>3. row.content = c /\ row.status = status
  OBVIOUS
<1> HIDE DEF row
<1> QED  BY <1>1, <1>2, <1>3 DEF Known

LEMMA KnownRow ==
    ASSUME documents \in Seq(Document), NEW d \in Known
    PROVE  /\ d \in Nat
           /\ documents[d] \in Document
           /\ documents[d].content \in Contents
           /\ documents[d].status \in DocumentStatus
<1>1. documents[d] \in Document /\ d \in Nat
  BY DEF Known
<1> QED  BY <1>1 DEF Document

\* What a step may do to the rows it does not add.
RowsKept ==
    /\ documents' \in Seq(Document)
    /\ Known' = Known
    /\ \A d \in Known : documents'[d].content = documents[d].content

LEMMA RowSet ==
    ASSUME documents \in Seq(Document), NEW d \in Known, NEW row \in Document,
           row.content = documents[d].content,
           documents' = [documents EXCEPT ![d] = row]
    PROVE  /\ RowsKept
           /\ documents'[d] = row
           /\ \A e \in Known : e # d => documents'[e] = documents[e]
<1>1. Known = 1 .. Len(documents) /\ Len(documents) \in Nat
  BY DEF Known
<1>2. documents' \in Seq(Document) /\ Len(documents') = Len(documents)
  BY <1>1
<1>3. documents'[d] = row /\ \A e \in Known : e # d => documents'[e] = documents[e]
  BY <1>1
<1>4. Known' = Known
  BY <1>1, <1>2 DEF Known
<1> QED  BY <1>2, <1>3, <1>4 DEF RowsKept

LEMMA StatusSet ==
    ASSUME documents \in Seq(Document), NEW d \in Known, NEW status \in DocumentStatus,
           documents' = [documents EXCEPT ![d].status = status]
    PROVE  /\ RowsKept
           /\ documents'[d].status = status /\ documents'[d].accepted = documents[d].accepted
           /\ \A e \in Known : e # d => documents'[e] = documents[e]
<1> DEFINE row == [documents[d] EXCEPT !.status = status]
<1>1. documents[d] \in Document
  BY DEF Known
<1>2. /\ row \in Document /\ row.content = documents[d].content
      /\ row.status = status /\ row.accepted = documents[d].accepted
  BY <1>1 DEF Document
<1>3. documents' = [documents EXCEPT ![d] = row]
  OBVIOUS
<1> HIDE DEF row
<1> QED  BY <1>2, <1>3, RowSet

LEMMA AcceptedSet ==
    ASSUME documents \in Seq(Document), NEW d \in Known,
           documents' = [documents EXCEPT ![d].status = "ok", ![d].accepted = TRUE]
    PROVE  /\ RowsKept
           /\ documents'[d].accepted
           /\ \A e \in Known : e # d => documents'[e] = documents[e]
<1> DEFINE row == [documents[d] EXCEPT !.status = "ok", !.accepted = TRUE]
<1>1. documents[d] \in Document
  BY DEF Known
<1>2. row \in Document /\ row.content = documents[d].content /\ row.accepted
  BY <1>1 DEF Document, DocumentStatus
<1>3. documents' = [documents EXCEPT ![d] = row]
  OBVIOUS
<1> HIDE DEF row
<1> QED  BY <1>2, <1>3, RowSet

\* A set of rows gets the status F gives them.
LEMMA StatusesSet ==
    ASSUME documents \in Seq(Document), NEW S, NEW F \in [S -> DocumentStatus],
           documents' = [d \in Known |-> IF d \in S
                            THEN [documents[d] EXCEPT !.status = F[d]]
                            ELSE documents[d]]
    PROVE  /\ RowsKept
           /\ \A d \in Known : documents'[d].accepted = documents[d].accepted
           /\ \A d \in Known \cap S : documents'[d].status = F[d]
           /\ \A d \in Known : d \notin S => documents'[d] = documents[d]
<1>1. Known = 1 .. Len(documents) /\ Len(documents) \in Nat
  BY DEF Known
<1>2. \A d \in Known : documents[d] \in Document
  BY <1>1
<1>3. \A d \in Known \cap S :
        /\ documents'[d] = [documents[d] EXCEPT !.status = F[d]]
        /\ documents'[d] \in Document
        /\ documents'[d].content = documents[d].content
        /\ documents'[d].status = F[d]
        /\ documents'[d].accepted = documents[d].accepted
  BY <1>2 DEF Document
<1>4. \A d \in Known : d \notin S => documents'[d] = documents[d]
  OBVIOUS
<1>5. documents' \in Seq(Document) /\ Len(documents') = Len(documents)
  <2>1. documents' \in [1 .. Len(documents) -> Document]
    BY <1>1, <1>2, <1>3, <1>4
  <2> QED  BY <1>1, <2>1
<1>6. Known' = Known
  BY <1>1, <1>5 DEF Known
<1> QED  BY <1>3, <1>4, <1>5, <1>6 DEF RowsKept

-----------------------------------------------------------------------------
(* The invariants of readings alone. *)

LEMMA SameReadings ==
    ASSUME ReadingsInv, extractions' = extractions
    PROVE  ReadingsInv' /\ \A d : ReadingsOf(d)' = ReadingsOf(d) /\ Latest(d)' = Latest(d)
    BY DEF ReadingsInv, LatestIsLast, NumbersPassOnce, CleanIsPassed, ReadingsOf, Latest

\* A new reading is unchecked, or judged against all others.
LEMMA GrownInv ==
    ASSUME ReadingsInv, NEW d \in Nat, NEW data \in Data, NEW row,
           row.document = d, row.data = data, row.passed <=> row.verdict = "clean",
           row.verdict = "clean" => Verdict(d, data) = "clean",
           Grown(row)
    PROVE  ReadingsInv'
<1> DEFINE n == Len(extractions) + 1
<1>0. Grown(row)
  OBVIOUS
<1>1. DOMAIN extractions' = DOMAIN extractions \cup {n} /\ n \notin DOMAIN extractions
  BY <1>0 DEF Grown
<1>2. LatestIsLast'
  <2> SUFFICES ASSUME NEW e \in Nat, ReadingsOf(e)' # {}
               PROVE  /\ Latest(e)' \in ReadingsOf(e)'
                      /\ \A y \in ReadingsOf(e)' : y <= Latest(e)'
    BY DEF LatestIsLast
  <2>1. CASE e = d
    BY <2>1, GrownReadings
  <2>2. CASE e # d
    <3>1. ReadingsOf(e)' = ReadingsOf(e) /\ Latest(e)' = Latest(e)
      BY <2>2, GrownReadings
    <3> QED  BY <3>1 DEF LatestIsLast, ReadingsInv
  <2> QED  BY <2>1, <2>2
<1>3. CleanIsPassed'
  BY <1>0, <1>1 DEF CleanIsPassed, ReadingsInv, Grown
<1>4. NumbersPassOnce'
  <2>1. ASSUME NEW y \in DOMAIN extractions, extractions[y].document # d, row.passed
        PROVE  extractions[y].data.number # data.number
    BY <2>1, CleanIsUnique
  <2> SUFFICES ASSUME NEW x \in DOMAIN extractions', NEW y \in DOMAIN extractions',
                      extractions'[x].document # extractions'[y].document,
                      extractions'[x].passed, extractions'[y].passed
               PROVE  extractions'[x].data.number # extractions'[y].data.number
    BY DEF NumbersPassOnce
  <2>2. CASE x = n
    BY <1>0, <1>1, <2>1, <2>2 DEF Grown
  <2>3. CASE y = n
    BY <1>0, <1>1, <2>1, <2>3 DEF Grown
  <2>4. CASE x # n /\ y # n
    BY <1>0, <1>1, <2>4 DEF Grown, NumbersPassOnce, ReadingsInv
  <2> QED  BY <2>2, <2>3, <2>4
<1> QED  BY <1>2, <1>3, <1>4 DEF ReadingsInv

\* What the check step does to the readings of the documents in some.
JudgedRows(some) ==
    /\ extractions' \in Seq(Extraction)
    /\ DOMAIN extractions' = DOMAIN extractions
    /\ \A x \in DOMAIN extractions :
          /\ extractions'[x].document = extractions[x].document
          /\ extractions'[x].data = extractions[x].data
    /\ \A d \in some :
          /\ Latest(d) \in DOMAIN extractions /\ extractions[Latest(d)].document = d
          /\ extractions'[Latest(d)].verdict = Verdict(d, extractions[Latest(d)].data)
          /\ extractions'[Latest(d)].passed
                <=> \/ extractions[Latest(d)].passed
                    \/ Verdict(d, extractions[Latest(d)].data) = "clean"
    /\ \A x \in DOMAIN extractions :
          (\A d \in some : x # Latest(d)) => extractions'[x] = extractions[x]

LEMMA JudgedInv ==
    ASSUME ReadingsInv, NEW some, JudgedRows(some)
    PROVE  ReadingsInv' /\ \A d : ReadingsOf(d)' = ReadingsOf(d) /\ Latest(d)' = Latest(d)
<1>0. JudgedRows(some)
  OBVIOUS
<1>1. \A d : ReadingsOf(d)' = ReadingsOf(d) /\ Latest(d)' = Latest(d)
  BY <1>0, KeptReadings DEF JudgedRows
<1>2. LatestIsLast'
  BY <1>1 DEF LatestIsLast, ReadingsInv
<1>3. CleanIsPassed'
  <2> SUFFICES ASSUME NEW x \in DOMAIN extractions, extractions'[x].verdict = "clean"
               PROVE  extractions'[x].passed
    BY <1>0 DEF CleanIsPassed, JudgedRows
  <2>1. CASE \E d \in some : x = Latest(d)
    BY <1>0, <2>1 DEF JudgedRows
  <2>2. CASE \A d \in some : x # Latest(d)
    BY <1>0, <2>2 DEF JudgedRows, CleanIsPassed, ReadingsInv
  <2> QED  BY <2>1, <2>2
<1>4. NumbersPassOnce'
  <2>1. ASSUME NEW x \in DOMAIN extractions, extractions'[x].passed, ~extractions[x].passed,
               NEW y \in DOMAIN extractions,
               extractions[y].document # extractions[x].document
        PROVE  extractions[y].data.number # extractions[x].data.number
    <3>1. PICK d \in some : x = Latest(d)
      BY <1>0, <2>1 DEF JudgedRows
    <3>2. extractions[x].document = d /\ Verdict(d, extractions[x].data) = "clean"
      BY <1>0, <2>1, <3>1 DEF JudgedRows
    <3> QED  BY <2>1, <3>2, CleanIsUnique
  <2> SUFFICES ASSUME NEW x \in DOMAIN extractions, NEW y \in DOMAIN extractions,
                      extractions[x].document # extractions[y].document,
                      extractions'[x].passed, extractions'[y].passed
               PROVE  extractions[x].data.number # extractions[y].data.number
    BY <1>0 DEF NumbersPassOnce, JudgedRows
  <2>2. CASE extractions[x].passed /\ extractions[y].passed
    BY <2>2 DEF NumbersPassOnce, ReadingsInv
  <2>3. CASE ~extractions[x].passed
    BY <2>1, <2>3
  <2>4. CASE ~extractions[y].passed
    BY <2>1, <2>4
  <2> QED  BY <2>2, <2>3, <2>4
<1> QED  BY <1>1, <1>2, <1>3, <1>4 DEF ReadingsInv

-----------------------------------------------------------------------------
(* What a document is owed, one document at a time. *)

\* A document is owed nothing unless it is ok.
LEMMA SoundIfNotOk ==
    ASSUME NEW d, documents'[d].status # "ok"
    PROVE  Sound(d)'
    BY DEF Sound, Vouched

\* The row, the last reading and no new copy: nothing changes.
LEMMA SoundStays ==
    ASSUME NEW d, Sound(d), documents'[d] = documents[d],
           ReadingsOf(d)' = ReadingsOf(d), Latest(d)' = Latest(d),
           ReadingsOf(d) # {} => extractions'[Latest(d)] = extractions[Latest(d)],
           (<< d, "needs_review" >> \in thread'.seen /\ documents[d].status = "ok")
                => << d, "needs_review" >> \in thread.seen
    PROVE  Sound(d)'
    BY DEF Sound, Vouched, HasPassed

\* A document whose last reading passed is owed nothing more.
LEMMA SoundIfPassed ==
    ASSUME NEW d, HasPassed(d)'
    PROVE  Sound(d)'
    BY DEF Sound, Vouched, HasPassed

LEMMA SoundIfAccepted ==
    ASSUME NEW d, documents'[d].accepted, ReadingsOf(d)' # {}
    PROVE  Sound(d)'
    BY DEF Sound, Vouched

\* A step of the thread that reads and writes no row.
OnlyThread ==
    /\ UNCHANGED << documents, extractions >>
    /\ upload' \in [Uploads -> Upload] /\ thread' \in Thread /\ passes' \in Nat
    /\ \A u \in Uploads : upload'[u].at = "asking" => upload'[u].document = upload[u].document
                                                     /\ upload[u].at = "asking"
    /\ thread'.at = "asking" => thread'.document \in Known
    /\ \A m \in 1 .. Len(thread'.ids) : ReadingsOf(thread'.ids[m]) # {}
    /\ \A s \in thread'.seen : s \in thread.seen \/ s[2] = documents[s[1]].status
    /\ CopiesAreOfDone'

LEMMA OnlyThreadKeeps ==
    ASSUME IInv, OnlyThread
    PROVE  IInv'
<1>0. OnlyThread /\ Typed /\ Referring /\ ReadingsInv /\ \A d \in Known : Sound(d)
  BY DEF IInv
<1>1. Known' = Known /\ documents' = documents /\ extractions' = extractions
  BY <1>0 DEF OnlyThread, Known
<1>2. ReadingsInv' /\ \A d : ReadingsOf(d)' = ReadingsOf(d) /\ Latest(d)' = Latest(d)
  BY <1>0, <1>1, SameReadings
<1>3. \A d \in Known : Sound(d)'
  <2> TAKE d \in Known
  <2>1. << d, "needs_review" >> \in thread'.seen /\ documents[d].status = "ok"
            => << d, "needs_review" >> \in thread.seen
    BY <1>0 DEF OnlyThread
  <2> QED  BY <1>0, <1>1, <1>2, <2>1, SoundStays
<1>4. Typed' /\ Referring'
  BY <1>0, <1>1 DEF Typed, Referring, OnlyThread
<1>5. ChecksAreOfReadings' /\ CopiesAreOfDone'
  BY <1>0, <1>2 DEF ChecksAreOfReadings, OnlyThread
<1> QED  BY <1>1, <1>2, <1>3, <1>4, <1>5 DEF IInv

-----------------------------------------------------------------------------
(* Steps that write: one lemma for those that add a reading, one for others. *)

NoNewCopies ==
    \A e \in Known : << e, "needs_review" >> \in thread'.seen
                        => << e, "needs_review" >> \in thread.seen

LEMMA GrownStep ==
    ASSUME IInv, NEW d \in Known, NEW r \in Runs \cup {None}, NEW data \in Data,
           NEW v \in {"none", "clean", "faulty"}, v = "clean" => Verdict(d, data) = "clean",
           extractions' = Append(extractions, Row(d, r, data, v)),
           RowsKept, \A e \in Known : e # d => documents'[e] = documents[e],
           NoNewCopies
    PROVE  /\ ReadingsInv'
           /\ extractions' \in Seq(Extraction)
           /\ \A x \in DOMAIN extractions' : extractions'[x].document \in Known'
           /\ \A e \in Known : e # d => Sound(e)'
           /\ \A e : ReadingsOf(e) \subseteq ReadingsOf(e)'
           /\ ReadingsOf(d)' # {}
           /\ (extractions[Latest(d)].passed)' <=> v = "clean"
           /\ (extractions[Latest(d)].verdict)' = v
<1> DEFINE row == Row(d, r, data, v)
           n == Len(extractions) + 1
<1>0. d \in Nat /\ Known = 1 .. Len(documents) /\ Typed /\ Referring /\ ReadingsInv
      /\ \A e \in Known : Sound(e)
  BY DEF IInv, Typed, Known
<1>1. /\ row \in Extraction /\ row.document = d /\ row.data = data
      /\ row.verdict = v /\ (row.passed <=> v = "clean")
  <2>1. d \in Nat
    BY <1>0
  <2> QED  BY <2>1, RowKnown
<1> HIDE DEF row
<1>2. Grown(row)
  <2>1. extractions' = Append(extractions, row)
    BY DEF row
  <2> QED  BY <1>0, <1>1, <2>1, AppendGrows DEF Typed
<1>3. ReadingsInv'
  BY <1>0, <1>1, <1>2, GrownInv
<1>4. \A x \in DOMAIN extractions' : extractions'[x].document \in Known'
  BY <1>0, <1>1, <1>2 DEF Grown, Referring, RowsKept
<1>5. ASSUME NEW e \in Known, e # d
      PROVE  Sound(e)'
  <2>1. ReadingsOf(e)' = ReadingsOf(e) /\ Latest(e)' = Latest(e)
    BY <1>1, <1>2, <1>5, GrownReadings
  <2>2. ReadingsOf(e) # {} => extractions'[Latest(e)] = extractions[Latest(e)]
    <3>1. ReadingsOf(e) # {} => Latest(e) \in DOMAIN extractions
      BY <1>0 DEF ReadingsInv, LatestIsLast, ReadingsOf
    <3> QED  BY <1>2, <3>1 DEF Grown
  <2> QED  BY <1>0, <1>5, <2>1, <2>2, SoundStays DEF NoNewCopies
<1>6. \A e : ReadingsOf(e) \subseteq ReadingsOf(e)'
  BY <1>2 DEF ReadingsOf, Grown
<1>7. ReadingsOf(d)' # {} /\ Latest(d)' = n
  BY <1>1, <1>2, GrownReadings
<1>8. (extractions[Latest(d)])' = row
  BY <1>2, <1>7 DEF Grown
<1> QED  BY <1>1, <1>2, <1>3, <1>4, <1>5, <1>6, <1>7, <1>8 DEF Grown

LEMMA RowStep ==
    ASSUME IInv, extractions' = extractions, RowsKept, NoNewCopies, NEW S,
           \A e \in Known : e \notin S => documents'[e] = documents[e]
    PROVE  /\ ReadingsInv'
           /\ \A x \in DOMAIN extractions' : extractions'[x].document \in Known'
           /\ \A e \in Known : e \notin S => Sound(e)'
           /\ \A e : ReadingsOf(e)' = ReadingsOf(e)
<1>0. Typed /\ Referring /\ ReadingsInv /\ \A e \in Known : Sound(e)
  BY DEF IInv
<1>1. ReadingsInv' /\ \A e : ReadingsOf(e)' = ReadingsOf(e) /\ Latest(e)' = Latest(e)
  BY <1>0, SameReadings
<1>2. \A e \in Known : e \notin S => Sound(e)'
  BY <1>0, <1>1, SoundStays DEF NoNewCopies
<1> QED  BY <1>0, <1>1, <1>2 DEF Referring, RowsKept

\* What the thread knows stays true while others write.
LEMMA ThreadStays ==
    ASSUME IInv, thread' = thread, RowsKept,
           \A e : ReadingsOf(e) \subseteq ReadingsOf(e)'
    PROVE  /\ ChecksAreOfReadings' /\ CopiesAreOfDone' /\ NoNewCopies
           /\ thread' \in Thread
           /\ thread'.at = "asking" => thread'.document \in Known'
<1>1. ChecksAreOfReadings'
  BY DEF IInv, ChecksAreOfReadings
<1>2. CopiesAreOfDone'
  BY DEF IInv, CopiesAreOfDone, RowsKept, Referring
<1> QED  BY <1>1, <1>2 DEF IInv, Typed, Referring, NoNewCopies, RowsKept

-----------------------------------------------------------------------------
(* Uploads. *)

LEMMA IngestKeeps ==
    ASSUME IInv, NEW u \in Uploads, NEW c \in Contents, Ingest(u, c)
    PROVE  IInv'
<1>0. Typed /\ Referring /\ ReadingsInv /\ \A d \in Known : Sound(d)
  BY DEF IInv
<1> DEFINE n == Len(documents) + 1
<1>1. /\ documents' \in Seq(Document) /\ n \in Nat
      /\ Known = 1 .. Len(documents) /\ Known' = Known \cup {n} /\ n \notin Known
      /\ \A d \in Known : documents'[d] = documents[d]
      /\ documents'[n].status # "ok"
  <2>1. PICK status \in {"processing", "rejected"} :
           documents' = Append(documents, [content |-> c, status |-> status,
                                           accepted |-> FALSE])
    BY DEF Ingest
  <2>2. status \in DocumentStatus
    BY DEF DocumentStatus
  <2>3. /\ documents' \in Seq(Document) /\ Len(documents) \in Nat
        /\ Known = 1 .. Len(documents) /\ Known' = 1 .. Len(documents) + 1
        /\ \A d \in Known : documents'[d] = documents[d]
        /\ documents'[n].status = status
    BY <1>0, <2>1, <2>2, NewDocument DEF Typed
  <2>4. Known' = Known \cup {n} /\ n \notin Known
    BY <2>3
  <2> QED  BY <2>3, <2>4
<1>2. upload' \in [Uploads -> Upload]
      /\ \A w \in Uploads : upload'[w].at = "asking" => upload'[w].document \in Known'
  <2>1. CASE upload' = [upload EXCEPT ![u] = [at |-> "asking", document |-> n]]
    <3>1. [at |-> "asking", document |-> n] \in Upload
      BY <1>1 DEF Upload
    <3> QED  BY <1>0, <1>1, <2>1, <3>1 DEF Typed, Referring
  <2>2. CASE upload' = [upload EXCEPT ![u].at = "over"]
    BY <1>0, <1>1, <2>2 DEF Typed, Referring, Upload
  <2> QED  BY <2>1, <2>2 DEF Ingest
<1>3. extractions' = extractions /\ thread' = thread /\ passes' = passes
  BY DEF Ingest
<1>4. ReadingsInv' /\ \A d : ReadingsOf(d)' = ReadingsOf(d) /\ Latest(d)' = Latest(d)
  BY <1>0, <1>3, SameReadings
<1>5. \A d \in Known : Sound(d)'
  BY <1>0, <1>1, <1>3, <1>4, SoundStays
<1>6. \A d \in Known' : d \notin Known => Sound(d)'
  <2> SUFFICES ASSUME NEW d \in Known', d \notin Known
               PROVE  Sound(d)'
    OBVIOUS
  <2>1. documents'[d].status # "ok"
    BY <1>1
  <2> QED  BY <2>1, SoundIfNotOk
<1>7. ChecksAreOfReadings' /\ CopiesAreOfDone'
  BY <1>0, <1>1, <1>3, <1>4 DEF IInv, ChecksAreOfReadings, CopiesAreOfDone, Referring
<1>8. Typed' /\ Referring'
  BY <1>0, <1>1, <1>2, <1>3 DEF Typed, Referring
<1> QED  BY <1>1, <1>4, <1>5, <1>6, <1>7, <1>8 DEF IInv

LEMMA UploadOver ==
    ASSUME Typed, Referring, NEW u \in Uploads, Known' = Known,
           upload' = [upload EXCEPT ![u] = [at |-> "over", document |-> 0]]
    PROVE  /\ upload' \in [Uploads -> Upload]
           /\ \A w \in Uploads : upload'[w].at = "asking" => upload'[w].document \in Known'
<1>1. [at |-> "over", document |-> 0] \in Upload
  BY DEF Upload
<1> QED  BY <1>1 DEF Typed, Referring

LEMMA IngestAnswerKeeps ==
    ASSUME IInv, NEW u \in Uploads, IngestAnswer(u)
    PROVE  IInv'
<1>0. Typed /\ Referring
  BY DEF IInv
<1> DEFINE k == upload[u].document
<1>1. PICK d \in Known : d = k
  BY <1>0 DEF Referring, IngestAnswer
<1>2. thread' = thread /\ passes' = passes
      /\ upload' = [upload EXCEPT ![u] = [at |-> "over", document |-> 0]]
  BY DEF IngestAnswer
<1>3. NoNewCopies
  BY <1>2 DEF NoNewCopies
<1>4. CASE \E data \in Readings[documents[d].content] :
              /\ extractions' = Append(extractions, Row(d, None, data, Verdict(d, data)))
              /\ documents' = [documents EXCEPT ![d].status = StatusFor(Verdict(d, data))]
  <2>1. PICK data \in Readings[documents[d].content] :
              /\ extractions' = Append(extractions, Row(d, None, data, Verdict(d, data)))
              /\ documents' = [documents EXCEPT ![d].status = StatusFor(Verdict(d, data))]
    BY <1>4
  <2>2. data \in Data
    <3>1. documents[d].content \in Contents
      BY <1>0, KnownRow DEF Typed
    <3>2. Readings[documents[d].content] \subseteq Data
      BY <3>1, DocumentsAssumption
    <3> QED  BY <2>1, <3>2
  <2> DEFINE v == Verdict(d, data)
  <2>3. v \in {"clean", "faulty"} /\ StatusFor(v) \in DocumentStatus
        /\ (StatusFor(v) = "ok" <=> v = "clean")
    BY VerdictKnown DEF DocumentStatus
  <2>4. /\ RowsKept /\ documents'[d].status = StatusFor(v)
        /\ \A e \in Known : e # d => documents'[e] = documents[e]
    BY <1>0, <2>1, <2>3, StatusSet DEF Typed
  <2> HIDE DEF v
  <2>5. /\ extractions' = Append(extractions, Row(d, None, data, v))
        /\ v = "clean" => Verdict(d, data) = "clean"
    BY <2>1 DEF v
  <2>6. /\ ReadingsInv'
        /\ extractions' \in Seq(Extraction)
        /\ \A x \in DOMAIN extractions' : extractions'[x].document \in Known'
        /\ \A e \in Known : e # d => Sound(e)'
        /\ \A e : ReadingsOf(e) \subseteq ReadingsOf(e)'
        /\ ReadingsOf(d)' # {}
        /\ (extractions[Latest(d)].passed)' <=> v = "clean"
    BY <1>3, <2>2, <2>3, <2>4, <2>5, GrownStep
  <2>7. Sound(d)'
    <3>1. CASE v = "clean"
      BY <2>6, <3>1, SoundIfPassed DEF HasPassed
    <3>2. CASE v # "clean"
      BY <2>3, <2>4, <3>2, SoundIfNotOk
    <3> QED  BY <3>1, <3>2
  <2>8. /\ ChecksAreOfReadings' /\ CopiesAreOfDone' /\ thread' \in Thread
        /\ thread'.at = "asking" => thread'.document \in Known'
    BY <1>2, <2>4, <2>6, ThreadStays
  <2>9. /\ upload' \in [Uploads -> Upload]
        /\ \A w \in Uploads : upload'[w].at = "asking" => upload'[w].document \in Known'
    BY <1>0, <1>2, <2>4, UploadOver DEF RowsKept
  <2> QED  BY <1>0, <1>2, <2>4, <2>6, <2>7, <2>8, <2>9 DEF IInv, Typed, Referring, RowsKept
<1>5. CASE \E status \in {"failed", "rejected"} :
              /\ documents' = [documents EXCEPT ![d].status = status]
              /\ extractions' = extractions
  <2>1. PICK status \in {"failed", "rejected"} :
              /\ documents' = [documents EXCEPT ![d].status = status]
              /\ extractions' = extractions
    BY <1>5
  <2>2. status \in DocumentStatus
    BY DEF DocumentStatus
  <2>3. /\ RowsKept /\ documents'[d].status # "ok"
        /\ \A e \in Known : e # d => documents'[e] = documents[e]
    BY <1>0, <2>1, <2>2, StatusSet DEF Typed
  <2>4. \A e \in Known : e \notin {d} => documents'[e] = documents[e]
    BY <2>3
  <2>5. /\ ReadingsInv'
        /\ \A x \in DOMAIN extractions' : extractions'[x].document \in Known'
        /\ \A e \in Known : e \notin {d} => Sound(e)'
        /\ \A e : ReadingsOf(e)' = ReadingsOf(e)
    BY <1>3, <2>1, <2>3, <2>4, RowStep
  <2>6. Sound(d)'
    BY <2>3, SoundIfNotOk
  <2>7. /\ ChecksAreOfReadings' /\ CopiesAreOfDone' /\ thread' \in Thread
        /\ thread'.at = "asking" => thread'.document \in Known'
    BY <1>2, <2>3, <2>5, ThreadStays
  <2>8. /\ upload' \in [Uploads -> Upload]
        /\ \A w \in Uploads : upload'[w].at = "asking" => upload'[w].document \in Known'
    BY <1>0, <1>2, <2>3, UploadOver DEF RowsKept
  <2> QED  BY <1>0, <1>2, <2>1, <2>3, <2>5, <2>6, <2>7, <2>8 DEF IInv, Typed, Referring, RowsKept
<1> QED  BY <1>1, <1>4, <1>5 DEF IngestAnswer

LEMMA IngestDiesKeeps ==
    ASSUME IInv, NEW u \in Uploads, IngestDies(u)
    PROVE  IInv'
<1>0. Typed /\ Referring
  BY DEF IInv
<1>1. UNCHANGED << documents, extractions, thread, passes >>
      /\ upload' = [upload EXCEPT ![u] = [at |-> "over", document |-> 0]]
  BY DEF IngestDies
<1>2. [at |-> "over", document |-> 0] \in Upload
  BY DEF Upload
<1>3. CopiesAreOfDone'
  BY <1>1 DEF IInv, CopiesAreOfDone, Known
<1>4. OnlyThread
  BY <1>0, <1>1, <1>2, <1>3 DEF OnlyThread, Typed, Referring, IInv, ChecksAreOfReadings
<1> QED  BY <1>4, OnlyThreadKeeps

-----------------------------------------------------------------------------
(* The worker thread. *)

LEMMA IdleKnown ==
    /\ Idle \in Thread /\ Idle.at = "idle" /\ Idle.ids = << >> /\ Idle.seen = {}
    /\ \A r \in Runs : LET t == [Idle EXCEPT !.run = r, !.at = "files"] IN
          t \in Thread /\ t.at = "files" /\ t.ids = << >> /\ t.seen = {}
<1>1. /\ Idle \in Thread /\ Idle.at = "idle" /\ Idle.ids = << >> /\ Idle.seen = {}
  <2>1. << >> \in Seq(Nat) /\ {} \in SUBSET Nat /\ {} \in SUBSET Contents
        /\ {} \in SUBSET (Nat \X DocumentStatus) /\ "processing" \in DocumentStatus
    BY DEF DocumentStatus
  <2> QED  BY <2>1 DEF Idle, Thread
<1> QED  BY <1>1 DEF Thread

LEMMA BeginKeeps ==
    ASSUME IInv, NEW r \in Runs, Begin(r)
    PROVE  IInv'
<1>1. /\ UNCHANGED << documents, extractions, upload >> /\ passes' \in Nat
      /\ thread' = [Idle EXCEPT !.run = r, !.at = "files"]
  BY DEF IInv, Typed, Begin
<1>2. thread' \in Thread /\ thread'.at = "files" /\ thread'.ids = << >> /\ thread'.seen = {}
  BY <1>1, IdleKnown
<1>3. OnlyThread
  BY <1>1, <1>2 DEF IInv, Typed, OnlyThread, CopiesAreOfDone
<1> QED  BY <1>3, OnlyThreadKeeps

LEMMA AbandonKeeps ==
    ASSUME IInv, Abandon
    PROVE  IInv'
<1>1. /\ UNCHANGED << documents, extractions, upload, passes >>
      /\ thread' \in Thread /\ thread'.at = "idle" /\ thread'.ids = << >> /\ thread'.seen = {}
  BY IdleKnown DEF Abandon
<1>2. OnlyThread
  BY <1>1 DEF IInv, Typed, OnlyThread, CopiesAreOfDone
<1> QED  BY <1>2, OnlyThreadKeeps

LEMMA StartCheckKeeps ==
    ASSUME IInv, StartCheck
    PROVE  IInv'
<1>1. /\ UNCHANGED << documents, extractions, upload, passes >>
      /\ thread' = [thread EXCEPT !.at = "check"] /\ thread \in Thread
  BY DEF IInv, Typed, StartCheck
<1>2. /\ thread' \in Thread /\ thread'.at = "check" /\ thread'.ids = thread.ids
      /\ thread'.seen = thread.seen /\ thread'.done = thread.done
  BY <1>1 DEF Thread
<1>3. CopiesAreOfDone'
  BY <1>1, <1>2 DEF IInv, CopiesAreOfDone, Known
<1>4. OnlyThread
  BY <1>1, <1>2, <1>3 DEF IInv, Typed, OnlyThread, ChecksAreOfReadings
<1> QED  BY <1>4, OnlyThreadKeeps

\* The newest document with a content is a document with that content.
LEMMA ExistingKnown ==
    ASSUME NEW c, NEW d \in Existing(c)
    PROVE  d \in Known /\ documents[d].content = c
    BY DEF Existing

LEMMA ReadFileKeeps ==
    ASSUME IInv, NEW c \in Contents, ReadFile(c)
    PROVE  IInv'
<1>0. Typed /\ Referring /\ ReadingsInv /\ CopiesAreOfDone /\ ChecksAreOfReadings
      /\ \A d \in Known : Sound(d)
  BY DEF IInv
<1>1. /\ extractions' = extractions /\ upload' = upload /\ passes' = passes
      /\ thread.at = "files" /\ c \notin thread.done /\ thread \in Thread
  BY <1>0 DEF ReadFile, Typed
<1>2. CASE \E d \in Existing(c) :
            /\ ReadBefore(d, thread.run)
            /\ thread' = [thread EXCEPT !.done = @ \cup {c}, !.ids = Append(@, d),
                                        !.seen = @ \cup {<< d, documents[d].status >>}]
            /\ documents' = documents
  <2>1. PICK d \in Existing(c) :
            /\ ReadBefore(d, thread.run)
            /\ thread' = [thread EXCEPT !.done = @ \cup {c}, !.ids = Append(@, d),
                                        !.seen = @ \cup {<< d, documents[d].status >>}]
            /\ documents' = documents
    BY <1>2
  <2>2. d \in Known /\ documents[d].content = c /\ d \in Nat
        /\ documents[d].status \in DocumentStatus
    BY <1>0, ExistingKnown, KnownRow DEF Typed
  <2>3. ReadingsOf(d) # {}
    BY <2>1 DEF ReadBefore
  <2>4. /\ thread'.at = "files" /\ thread'.done = thread.done \cup {c}
        /\ thread'.ids = Append(thread.ids, d)
        /\ thread'.seen = thread.seen \cup {<< d, documents[d].status >>}
    BY <1>1, <2>1 DEF Thread
  <2>5. thread' \in Thread
    <3>1. Append(thread.ids, d) \in Seq(Nat)
          /\ thread.seen \cup {<< d, documents[d].status >>} \in SUBSET (Nat \X DocumentStatus)
      BY <1>1, <2>2 DEF Thread
    <3> QED  BY <1>1, <2>1, <3>1 DEF Thread
  <2>6. \A m \in 1 .. Len(thread'.ids) : ReadingsOf(thread'.ids[m]) # {}
    <3>1. thread.ids \in Seq(Nat)
      BY <1>1 DEF Thread
    <3>2. \A m \in 1 .. Len(Append(thread.ids, d)) :
              Append(thread.ids, d)[m] = d
              \/ (m \in 1 .. Len(thread.ids) /\ Append(thread.ids, d)[m] = thread.ids[m])
      BY <2>2, <3>1
    <3> QED  BY <1>0, <2>3, <2>4, <3>2 DEF ChecksAreOfReadings
  <2>7. CopiesAreOfDone'
    BY <1>0, <2>1, <2>2, <2>4 DEF CopiesAreOfDone, Known
  <2>8. \A s \in thread'.seen : s \in thread.seen \/ s[2] = documents[s[1]].status
    BY <2>4
  <2>9. OnlyThread
    BY <1>0, <1>1, <2>1, <2>4, <2>5, <2>6, <2>7, <2>8 DEF OnlyThread, Typed
  <2> QED  BY <2>9, OnlyThreadKeeps
<1>3. CASE \E d \in Existing(c) :
            /\ ~ReadBefore(d, thread.run) /\ Skipped(d)
            /\ thread' = [thread EXCEPT !.done = @ \cup {c}]
            /\ documents' = documents
  <2>1. thread' = [thread EXCEPT !.done = @ \cup {c}] /\ documents' = documents
    BY <1>3
  <2>2. /\ thread' \in Thread /\ thread'.at = "files" /\ thread'.ids = thread.ids
        /\ thread'.seen = thread.seen /\ thread'.done = thread.done \cup {c}
    BY <1>1, <2>1 DEF Thread
  <2>3. CopiesAreOfDone'
    BY <1>0, <2>1, <2>2 DEF CopiesAreOfDone, Known
  <2>4. OnlyThread
    BY <1>0, <1>1, <2>1, <2>2, <2>3 DEF OnlyThread, Typed, ChecksAreOfReadings
  <2> QED  BY <2>4, OnlyThreadKeeps
<1>4. CASE \E d \in Existing(c) :
            /\ ~ReadBefore(d, thread.run) /\ ~Skipped(d)
            /\ thread' = [thread EXCEPT !.done = @ \cup {c}, !.at = "asking", !.document = d,
                                        !.copy = documents[d].status]
            /\ documents' = documents
  <2>1. PICK d \in Existing(c) :
            /\ thread' = [thread EXCEPT !.done = @ \cup {c}, !.at = "asking", !.document = d,
                                        !.copy = documents[d].status]
            /\ documents' = documents
    BY <1>4
  <2>2. d \in Known /\ documents[d].content = c /\ d \in Nat
        /\ documents[d].status \in DocumentStatus
    BY <1>0, ExistingKnown, KnownRow DEF Typed
  <2>3. /\ thread' \in Thread /\ thread'.document = d /\ thread'.ids = thread.ids
        /\ thread'.seen = thread.seen /\ thread'.done = thread.done \cup {c}
    BY <1>1, <2>1, <2>2 DEF Thread
  <2>4. CopiesAreOfDone'
    BY <1>0, <1>1, <2>1, <2>2, <2>3 DEF CopiesAreOfDone, Known
  <2>5. OnlyThread
    BY <1>0, <1>1, <2>1, <2>2, <2>3, <2>4 DEF OnlyThread, Typed, ChecksAreOfReadings
  <2> QED  BY <2>5, OnlyThreadKeeps
<1>5. CASE /\ documents' = Append(documents, [content |-> c, status |-> "processing",
                                              accepted |-> FALSE])
           /\ thread' = [thread EXCEPT !.done = @ \cup {c}, !.at = "asking",
                                       !.document = Len(documents) + 1, !.copy = "processing"]
  <2> DEFINE n == Len(documents) + 1
  <2>0. "processing" \in DocumentStatus
    BY DEF DocumentStatus
  <2>1. /\ documents' \in Seq(Document) /\ Len(documents) \in Nat
        /\ Known = 1 .. Len(documents) /\ Known' = 1 .. Len(documents) + 1
        /\ \A d \in Known : documents'[d] = documents[d]
        /\ documents'[n].status = "processing" /\ documents'[n].content = c
    BY <1>0, <1>5, <2>0, NewDocument DEF Typed
  <2>2. n \in Nat /\ Known' = Known \cup {n} /\ n \notin Known
    BY <2>1
  <2>3. /\ thread' \in Thread /\ thread'.document = n /\ thread'.ids = thread.ids
        /\ thread'.seen = thread.seen /\ thread'.done = thread.done \cup {c}
    BY <1>1, <1>5, <2>0, <2>2 DEF Thread
  <2>4. ReadingsInv' /\ \A d : ReadingsOf(d)' = ReadingsOf(d) /\ Latest(d)' = Latest(d)
    BY <1>0, <1>1, SameReadings
  <2>5. \A d \in Known : Sound(d)'
    BY <1>0, <1>1, <2>1, <2>3, <2>4, SoundStays
  <2>6. \A d \in Known' : d \notin Known => Sound(d)'
    <3> SUFFICES ASSUME NEW d \in Known', d \notin Known
                 PROVE  Sound(d)'
      OBVIOUS
    <3>1. documents'[d].status # "ok"
      BY <2>1, <2>2
    <3> QED  BY <3>1, SoundIfNotOk
  <2>7. CopiesAreOfDone'
    BY <1>0, <2>1, <2>2, <2>3 DEF CopiesAreOfDone
  <2>8. ChecksAreOfReadings'
    BY <1>0, <2>3, <2>4 DEF ChecksAreOfReadings
  <2>9. Typed' /\ Referring'
    BY <1>0, <1>1, <2>1, <2>2, <2>3 DEF Typed, Referring
  <2> QED  BY <2>4, <2>5, <2>6, <2>7, <2>8, <2>9 DEF IInv
<1> QED  BY <1>2, <1>3, <1>4, <1>5 DEF ReadFile

LEMMA NothingWritten ==
    ASSUME Typed, documents' = documents
    PROVE  RowsKept /\ \A e \in Known : documents'[e] = documents[e]
    BY DEF Typed, RowsKept, Known

LEMMA ReadAnswerKeeps ==
    ASSUME IInv, ReadAnswer
    PROVE  IInv'
<1>0. Typed /\ Referring /\ CopiesAreOfDone /\ ChecksAreOfReadings
      /\ \A e \in Known : Sound(e)
  BY DEF IInv
<1>1. PICK d \in Known : d = thread.document
  BY <1>0 DEF Referring, ReadAnswer
<1>2. /\ upload' = upload /\ passes' = passes /\ thread.at = "asking" /\ thread \in Thread
      /\ documents[d].content \in thread.done /\ d \in Nat
      /\ \A s \in thread.seen : s[1] \in Known /\ s[1] # d
                                /\ documents[s[1]].content \in thread.done
  BY <1>0, <1>1, KnownRow DEF Typed, ReadAnswer, CopiesAreOfDone
<1> DEFINE Assign(status) == IF thread.copy = status THEN UNCHANGED documents
                             ELSE documents' = [documents EXCEPT ![d].status = status]
<1>3. ASSUME NEW status \in DocumentStatus, Assign(status)
      PROVE  /\ RowsKept /\ \A e \in Known : e # d => documents'[e] = documents[e]
             /\ documents' = documents \/ documents'[d].status = status
  <2>1. CASE thread.copy = status
    BY <1>0, <1>3, <2>1, NothingWritten
  <2>2. CASE thread.copy # status
    <3>1. documents' = [documents EXCEPT ![d].status = status]
      BY <1>3, <2>2
    <3> QED  BY <1>0, <3>1, StatusSet DEF Typed
  <2> QED  BY <2>1, <2>2
<1>4. CASE \E data \in Readings[documents[d].content] :
            /\ extractions' = Append(extractions, Row(d, thread.run, data, "none"))
            /\ Assign("processing")
            /\ thread' = [thread EXCEPT !.at = "files", !.document = 0,
                                        !.copy = "processing", !.ids = Append(@, d),
                                        !.seen = @ \cup {<< d, "processing" >>}]
  <2>1. PICK data \in Readings[documents[d].content] :
            /\ extractions' = Append(extractions, Row(d, thread.run, data, "none"))
            /\ Assign("processing")
            /\ thread' = [thread EXCEPT !.at = "files", !.document = 0,
                                        !.copy = "processing", !.ids = Append(@, d),
                                        !.seen = @ \cup {<< d, "processing" >>}]
    BY <1>4
  <2>2. data \in Data
    <3>1. documents[d].content \in Contents
      BY <1>0, KnownRow DEF Typed
    <3>2. Readings[documents[d].content] \subseteq Data
      BY <3>1, DocumentsAssumption
    <3> QED  BY <2>1, <3>2
  <2>3. "processing" \in DocumentStatus /\ thread.run \in Runs \cup {None}
    BY <1>2 DEF DocumentStatus, Thread
  <2>4. RowsKept /\ \A e \in Known : e # d => documents'[e] = documents[e]
    BY <1>3, <2>1, <2>3
  <2>5. /\ thread'.at = "files" /\ thread'.done = thread.done
        /\ thread'.ids = Append(thread.ids, d)
        /\ thread'.seen = thread.seen \cup {<< d, "processing" >>}
    BY <1>2, <2>1 DEF Thread
  <2>6. thread' \in Thread
    <3>1. Append(thread.ids, d) \in Seq(Nat)
          /\ thread.seen \cup {<< d, "processing" >>} \in SUBSET (Nat \X DocumentStatus)
      BY <1>2, <2>3 DEF Thread
    <3> QED  BY <1>2, <2>1, <2>3, <3>1 DEF Thread
  <2>7. NoNewCopies
    BY <2>5 DEF NoNewCopies
  <2>8. /\ ReadingsInv'
        /\ extractions' \in Seq(Extraction)
        /\ \A x \in DOMAIN extractions' : extractions'[x].document \in Known'
        /\ \A e \in Known : e # d => Sound(e)'
        /\ \A e : ReadingsOf(e) \subseteq ReadingsOf(e)'
        /\ ReadingsOf(d)' # {}
        /\ (extractions[Latest(d)].verdict)' = "none"
    <3>1. extractions' = Append(extractions, Row(d, thread.run, data, "none"))
      BY <2>1
    <3>2. PICK r \in Runs \cup {None} : r = thread.run
      BY <2>3
    <3>3. extractions' = Append(extractions, Row(d, r, data, "none"))
      BY <3>1, <3>2
    <3> QED  BY <2>2, <2>4, <2>7, <3>3, GrownStep
  <2>9. Sound(d)'
    <3>1. << d, "needs_review" >> \notin thread'.seen
      BY <1>2, <2>5
    <3> QED  BY <2>8, <3>1 DEF Sound, Vouched
  <2>10. ChecksAreOfReadings'
    <3>1. thread.ids \in Seq(Nat)
      BY <1>2 DEF Thread
    <3>2. \A m \in 1 .. Len(Append(thread.ids, d)) :
              Append(thread.ids, d)[m] = d
              \/ (m \in 1 .. Len(thread.ids) /\ Append(thread.ids, d)[m] = thread.ids[m])
      BY <1>2, <3>1
    <3> QED  BY <1>0, <2>5, <2>8, <3>2 DEF ChecksAreOfReadings
  <2>11. CopiesAreOfDone'
    <3>1. ASSUME NEW s \in thread'.seen
          PROVE  s[1] \in Known /\ documents[s[1]].content \in thread.done
      <4>1. CASE s = << d, "processing" >>
        <5>1. s[1] = d
          BY <4>1
        <5> QED  BY <1>2, <5>1
      <4>2. CASE s \in thread.seen
        BY <1>2, <4>2
      <4> QED  BY <2>5, <4>1, <4>2
    <3>2. ASSUME NEW s \in thread'.seen
          PROVE  s[1] \in Known' /\ documents'[s[1]].content \in thread'.done
      BY <2>4, <2>5, <3>1 DEF RowsKept
    <3> QED  BY <2>5, <3>2 DEF CopiesAreOfDone
  <2>12. Typed' /\ Referring'
    BY <1>0, <1>2, <2>4, <2>5, <2>6, <2>8 DEF Typed, Referring, RowsKept
  <2> QED  BY <2>4, <2>8, <2>9, <2>10, <2>11, <2>12 DEF IInv, RowsKept
<1>5. CASE \E status \in {"failed", "rejected"} :
            /\ Assign(status)
            /\ thread' = [thread EXCEPT !.at = "files", !.document = 0, !.copy = "processing"]
            /\ extractions' = extractions
  <2>1. PICK status \in {"failed", "rejected"} :
            /\ Assign(status)
            /\ thread' = [thread EXCEPT !.at = "files", !.document = 0, !.copy = "processing"]
            /\ extractions' = extractions
    BY <1>5
  <2>2. status \in DocumentStatus /\ "processing" \in DocumentStatus
    BY DEF DocumentStatus
  <2>3. /\ RowsKept /\ \A e \in Known : e # d => documents'[e] = documents[e]
        /\ documents' = documents \/ documents'[d].status = status
    BY <1>3, <2>1, <2>2
  <2>4. /\ thread'.at = "files" /\ thread'.done = thread.done /\ thread'.ids = thread.ids
        /\ thread'.seen = thread.seen /\ thread' \in Thread
    BY <1>2, <2>1, <2>2 DEF Thread
  <2>5. CopiesAreOfDone'
    BY <1>2, <2>3, <2>4 DEF CopiesAreOfDone, RowsKept
  <2>6. CASE documents' = documents
    <3>1. OnlyThread
      BY <1>0, <1>2, <2>1, <2>4, <2>5, <2>6 DEF OnlyThread, Typed, ChecksAreOfReadings
    <3> QED  BY <3>1, OnlyThreadKeeps
  <2>7. CASE documents'[d].status = status
    <3>1. \A e \in Known : e \notin {d} => documents'[e] = documents[e]
      BY <2>3
    <3>2. /\ ReadingsInv'
          /\ \A x \in DOMAIN extractions' : extractions'[x].document \in Known'
          /\ \A e \in Known : e \notin {d} => Sound(e)'
          /\ \A e : ReadingsOf(e)' = ReadingsOf(e)
      <4>1. NoNewCopies
        BY <2>4 DEF NoNewCopies
      <4> QED  BY <2>1, <2>3, <3>1, <4>1, RowStep
    <3>3. Sound(d)'
      BY <2>7, SoundIfNotOk
    <3>4. ChecksAreOfReadings'
      BY <1>0, <2>4, <3>2 DEF ChecksAreOfReadings
    <3>5. Typed' /\ Referring'
      BY <1>0, <1>2, <2>1, <2>3, <2>4, <3>2 DEF Typed, Referring, RowsKept
    <3> QED  BY <2>3, <2>5, <3>2, <3>3, <3>4, <3>5 DEF IInv, RowsKept
  <2> QED  BY <2>3, <2>6, <2>7
<1> QED  BY <1>1, <1>4, <1>5 DEF ReadAnswer

LEMMA SubSeqTail ==
    ASSUME NEW s \in Seq(Nat), NEW n \in 1 .. Len(s)
    PROVE  /\ SubSeq(s, n + 1, Len(s)) \in Seq(Nat)
           /\ Len(SubSeq(s, n + 1, Len(s))) = Len(s) - n
           /\ \A m \in 1 .. Len(s) - n :
                m + n \in 1 .. Len(s) /\ SubSeq(s, n + 1, Len(s))[m] = s[m + n]
<1>1. Len(s) \in Nat /\ n \in Nat /\ n <= Len(s) /\ n >= 1
  OBVIOUS
<1>2. Len(SubSeq(s, n + 1, Len(s))) = Len(s) - n
  BY <1>1
<1>3. ASSUME NEW m \in 1 .. Len(s) - n
      PROVE  m + n \in 1 .. Len(s) /\ SubSeq(s, n + 1, Len(s))[m] = s[m + n]
  <2>1. /\ m \in Nat /\ m + n <= Len(s) /\ m >= 1 /\ n + 1 + m - 1 = m + n
        /\ n + 1 \in 1 .. Len(s) + 1 /\ Len(s) \in n + 1 - 1 .. Len(s)
        /\ Len(s) - (n + 1) + 1 = Len(s) - n
    BY <1>1
  <2>2. SubSeq(s, n + 1, Len(s))[m] = s[n + 1 + m - 1]
    BY <2>1, SubSeqProperties
  <2> QED  BY <1>1, <2>1, <2>2
<1> QED  BY <1>1, <1>2, <1>3

LEMMA CheckSomeKeeps ==
    ASSUME IInv, NEW n, CheckSome(n)
    PROVE  IInv'
<1> DEFINE some == {thread.ids[m] : m \in 1 .. n}
           toJudge == {ToJudge(d) : d \in some}
           judged == [d \in some |-> Judged(d)]
           row(x) == [extractions[x] EXCEPT
                         !.verdict = judged[extractions[x].document],
                         !.passed = @ \/ judged[extractions[x].document] = "clean"]
<1>0. Typed /\ Referring /\ ReadingsInv /\ CopiesAreOfDone /\ ChecksAreOfReadings
      /\ \A e \in Known : Sound(e)
  BY DEF IInv
<1>1. /\ thread.at = "check" /\ n \in 1 .. Len(thread.ids)
      /\ extractions' = [x \in DOMAIN extractions |->
                            IF x \in toJudge THEN row(x) ELSE extractions[x]]
      /\ thread' = [thread EXCEPT
            !.at = IF n = Len(thread.ids) THEN "escalate" ELSE "check",
            !.ids = SubSeq(@, n + 1, Len(@)),
            !.review = @ \cup {d \in some : judged[d] = "faulty"}]
      /\ upload' = upload /\ passes' = passes
  BY DEF CheckSome
<1>2. PICK kept \in SUBSET {d \in some : << d, StatusFor(judged[d]) >> \in thread.seen} :
          documents' = [d \in Known |-> IF d \in some \ kept
                            THEN [documents[d] EXCEPT !.status = StatusFor(judged[d])]
                            ELSE documents[d]]
  BY DEF CheckSome
<1>3. thread \in Thread /\ thread.ids \in Seq(Nat) /\ Len(thread.ids) \in Nat /\ n \in Nat
      /\ n <= Len(thread.ids)
      /\ thread.review \in SUBSET Nat
  <2>1. thread \in Thread /\ n \in 1 .. Len(thread.ids)
    BY <1>0, <1>1 DEF Typed
  <2>2. thread.ids \in Seq(Nat) /\ thread.review \in SUBSET Nat
    BY <2>1 DEF Thread
  <2> QED  BY <2>1, <2>2
<1>4. \A d \in some :
        /\ d \in Nat /\ d \in Known /\ ReadingsOf(d) # {}
        /\ Latest(d) \in DOMAIN extractions /\ extractions[Latest(d)].document = d
  <2> SUFFICES ASSUME NEW m \in 1 .. n
               PROVE  LET d == thread.ids[m] IN
                        /\ d \in Nat /\ d \in Known /\ ReadingsOf(d) # {}
                        /\ Latest(d) \in DOMAIN extractions
                        /\ extractions[Latest(d)].document = d
    OBVIOUS
  <2> DEFINE d == thread.ids[m]
  <2>1. d \in Nat /\ ReadingsOf(d) # {}
    <3>1. m \in 1 .. Len(thread.ids)
      BY <1>3
    <3> QED  BY <1>0, <1>3, <3>1 DEF ChecksAreOfReadings
  <2>2. Latest(d) \in ReadingsOf(d)
    BY <1>0, <2>1 DEF ReadingsInv, LatestIsLast
  <2>3. Latest(d) \in DOMAIN extractions /\ extractions[Latest(d)].document = d
    BY <2>2 DEF ReadingsOf
  <2>4. d \in Known
    BY <1>0, <2>3 DEF Referring
  <2> QED  BY <2>1, <2>3, <2>4
<1> HIDE DEF some
<1>5. \A d \in some : /\ ToJudge(d) = Latest(d)
                      /\ judged[d] = Verdict(d, extractions[Latest(d)].data)
                      /\ judged[d] \in {"clean", "faulty"}
                      /\ StatusFor(judged[d]) \in {"ok", "needs_review"}
                      /\ StatusFor(judged[d]) = "ok" <=> judged[d] = "clean"
  BY VerdictKnown DEF ToJudge, Judged
<1> HIDE DEF judged
<1>6. \A x \in DOMAIN extractions : extractions[x] \in Extraction
  BY <1>0 DEF Typed
<1>7. \A x \in DOMAIN extractions : x \in toJudge =>
        /\ extractions[x].document \in some /\ x = Latest(extractions[x].document)
  BY <1>4, <1>5
<1>8. ASSUME NEW x \in DOMAIN extractions, x \in toJudge
      PROVE  LET v == judged[extractions[x].document] IN
             /\ extractions'[x] \in Extraction
             /\ extractions'[x].document = extractions[x].document
             /\ extractions'[x].data = extractions[x].data
             /\ extractions'[x].verdict = v
             /\ extractions'[x].passed <=> extractions[x].passed \/ v = "clean"
  <2>1. extractions'[x] = row(x)
    BY <1>1, <1>8
  <2>2. judged[extractions[x].document] \in {"clean", "faulty"}
    BY <1>5, <1>7, <1>8
  <2>3. PICK v \in {"clean", "faulty"} : v = judged[extractions[x].document]
    BY <2>2
  <2>4. extractions'[x] = [extractions[x] EXCEPT !.verdict = v, !.passed = @ \/ v = "clean"]
    BY <2>1, <2>3
  <2> HIDE DEF row
  <2>5. /\ extractions'[x] \in Extraction
        /\ extractions'[x].document = extractions[x].document
        /\ extractions'[x].data = extractions[x].data
        /\ extractions'[x].verdict = v
        /\ extractions'[x].passed <=> extractions[x].passed \/ v = "clean"
    <3>1. extractions[x] \in Extraction /\ (extractions[x].passed \/ v = "clean") \in BOOLEAN
      BY <1>6
    <3> QED  BY <2>4, <3>1 DEF Extraction
  <2> QED  BY <2>3, <2>5
<1>9. \A x \in DOMAIN extractions : x \notin toJudge => extractions'[x] = extractions[x]
  BY <1>1
<1>10. JudgedRows(some)
  <2>1. DOMAIN extractions' = DOMAIN extractions
    BY <1>1
  <2>2. extractions' \in Seq(Extraction)
    <3>1. \A x \in DOMAIN extractions : extractions'[x] \in Extraction
      BY <1>6, <1>8, <1>9
    <3>2. extractions' = [x \in DOMAIN extractions |-> extractions'[x]]
      BY <1>1
    <3>3. DOMAIN extractions = 1 .. Len(extractions) /\ Len(extractions) \in Nat
      BY <1>0 DEF Typed
    <3> HIDE DEF toJudge, row
    <3>4. extractions' \in [1 .. Len(extractions) -> Extraction]
      BY <3>1, <3>2, <3>3
    <3> QED  BY <3>3, <3>4
  <2>3. \A x \in DOMAIN extractions :
          /\ extractions'[x].document = extractions[x].document
          /\ extractions'[x].data = extractions[x].data
    BY <1>8, <1>9
  <2>4. ASSUME NEW d \in some
        PROVE  /\ Latest(d) \in DOMAIN extractions /\ extractions[Latest(d)].document = d
               /\ extractions'[Latest(d)].verdict = Verdict(d, extractions[Latest(d)].data)
               /\ extractions'[Latest(d)].passed
                    <=> \/ extractions[Latest(d)].passed
                        \/ Verdict(d, extractions[Latest(d)].data) = "clean"
    <3>1. Latest(d) \in DOMAIN extractions /\ extractions[Latest(d)].document = d
          /\ Latest(d) \in toJudge /\ judged[d] = Verdict(d, extractions[Latest(d)].data)
      BY <1>4, <1>5
    <3> QED  BY <1>8, <3>1
  <2>5. \A x \in DOMAIN extractions :
          (\A d \in some : x # Latest(d)) => extractions'[x] = extractions[x]
    BY <1>5, <1>9
  <2> QED  BY <2>1, <2>2, <2>3, <2>4, <2>5 DEF JudgedRows
<1> HIDE DEF toJudge, row
<1>11. ReadingsInv' /\ \A d : ReadingsOf(d)' = ReadingsOf(d) /\ Latest(d)' = Latest(d)
  BY <1>0, <1>10, JudgedInv
<1> DEFINE F == [d \in some \ kept |-> StatusFor(judged[d])]
<1>12. /\ RowsKept
       /\ \A d \in Known : documents'[d].accepted = documents[d].accepted
       /\ \A d \in Known \cap (some \ kept) : documents'[d].status = StatusFor(judged[d])
       /\ \A d \in Known : d \notin some \ kept => documents'[d] = documents[d]
  <2>1. F \in [some \ kept -> DocumentStatus]
    BY <1>5 DEF DocumentStatus
  <2>2. documents' = [d \in Known |-> IF d \in some \ kept
                          THEN [documents[d] EXCEPT !.status = F[d]]
                          ELSE documents[d]]
    BY <1>2
  <2>3. \A d \in some \ kept : F[d] = StatusFor(judged[d])
    OBVIOUS
  <2> HIDE DEF F
  <2>4. /\ RowsKept
        /\ \A d \in Known : documents'[d].accepted = documents[d].accepted
        /\ \A d \in Known \cap (some \ kept) : documents'[d].status = F[d]
        /\ \A d \in Known : d \notin some \ kept => documents'[d] = documents[d]
    BY <1>0, <2>1, <2>2, StatusesSet DEF Typed
  <2> QED  BY <2>3, <2>4
<1>13. /\ thread' \in Thread /\ thread'.at # "asking" /\ thread'.seen = thread.seen
       /\ thread'.done = thread.done /\ thread'.ids = SubSeq(thread.ids, n + 1, Len(thread.ids))
  <2>1. SubSeq(thread.ids, n + 1, Len(thread.ids)) \in Seq(Nat)
        /\ thread.review \cup {d \in some : judged[d] = "faulty"} \in SUBSET Nat
    BY <1>1, <1>3, <1>4, SubSeqTail
  <2> QED  BY <1>1, <1>3, <2>1 DEF Thread
<1>14. ASSUME NEW d \in Known
       PROVE  Sound(d)'
  <2>1. ReadingsOf(d)' = ReadingsOf(d) /\ Latest(d)' = Latest(d)
    BY <1>11
  <2>2. CASE d \notin some
    <3>1. ReadingsOf(d) # {} => extractions'[Latest(d)] = extractions[Latest(d)]
      <4> SUFFICES ASSUME ReadingsOf(d) # {}
                   PROVE  extractions'[Latest(d)] = extractions[Latest(d)]
        OBVIOUS
      <4>1. d \in Nat
        BY <1>0, KnownRow DEF Typed
      <4>2. Latest(d) \in DOMAIN extractions /\ extractions[Latest(d)].document = d
        BY <1>0, <4>1 DEF ReadingsInv, LatestIsLast, ReadingsOf
      <4>3. \A e \in some : Latest(d) # Latest(e)
        BY <1>4, <2>2, <4>2
      <4> QED  BY <1>10, <4>2, <4>3 DEF JudgedRows
    <3>2. documents'[d] = documents[d]
      BY <1>12, <2>2
    <3> QED  BY <1>0, <1>13, <2>1, <3>1, <3>2, SoundStays
  <2>3. CASE d \in some /\ judged[d] = "clean"
    <3>1. HasPassed(d)'
      BY <1>4, <1>5, <1>10, <2>1, <2>3 DEF JudgedRows, HasPassed
    <3> QED  BY <3>1, SoundIfPassed
  <2>4. CASE d \in some \ kept /\ judged[d] = "faulty"
    <3>1. documents'[d].status # "ok"
      BY <1>5, <1>12, <2>4
    <3> QED  BY <3>1, SoundIfNotOk
  <2>5. CASE d \in kept /\ judged[d] = "faulty"
    <3>1. d \in some /\ << d, "needs_review" >> \in thread.seen
      BY <1>5, <2>5
    <3>2. documents'[d] = documents[d]
      BY <1>12, <2>5
    <3>3. CASE documents[d].status # "ok"
      BY <3>2, <3>3, SoundIfNotOk
    <3>4. CASE documents[d].accepted
      BY <1>4, <2>1, <3>1, <3>2, <3>4, SoundIfAccepted
    <3>5. CASE documents[d].status = "ok" /\ ~documents[d].accepted
      <4>1. HasPassed(d)
        BY <1>0, <3>1, <3>5 DEF Sound
      <4>2. HasPassed(d)'
        BY <1>10, <2>1, <3>1, <4>1 DEF HasPassed, JudgedRows
      <4> QED  BY <4>2, SoundIfPassed
    <3> QED  BY <3>3, <3>4, <3>5
  <2> QED  BY <1>2, <1>5, <2>2, <2>3, <2>4, <2>5
<1>15. ChecksAreOfReadings'
  <2>1. \A m \in 1 .. Len(thread'.ids) :
          m + n \in 1 .. Len(thread.ids) /\ thread'.ids[m] = thread.ids[m + n]
    BY <1>1, <1>3, <1>13, SubSeqTail
  <2> QED  BY <1>0, <1>11, <2>1 DEF ChecksAreOfReadings
<1>16. CopiesAreOfDone'
  BY <1>0, <1>12, <1>13 DEF CopiesAreOfDone, RowsKept
<1>17. Typed' /\ Referring'
  BY <1>0, <1>1, <1>10, <1>12, <1>13 DEF Typed, Referring, RowsKept, JudgedRows
<1> QED  BY <1>11, <1>12, <1>14, <1>15, <1>16, <1>17 DEF IInv, RowsKept

LEMMA EscalateKeeps ==
    ASSUME IInv, Escalate
    PROVE  IInv'
<1>0. Typed /\ Referring
  BY DEF IInv
<1>1. PICK some \in SUBSET thread.review :
          documents' = [d \in Known |-> IF d \in some
                            THEN [documents[d] EXCEPT !.status = "needs_review"]
                            ELSE documents[d]]
  BY DEF Escalate
<1>2. /\ extractions' = extractions /\ upload' = upload /\ passes' = passes
      /\ thread' \in Thread /\ thread'.at = "idle" /\ thread'.ids = << >> /\ thread'.seen = {}
  BY IdleKnown DEF Escalate
<1> DEFINE F == [d \in some |-> "needs_review"]
<1>3. F \in [some -> DocumentStatus] /\ \A d \in some : F[d] = "needs_review"
  BY DEF DocumentStatus
<1>4. documents' = [d \in Known |-> IF d \in some
                        THEN [documents[d] EXCEPT !.status = F[d]]
                        ELSE documents[d]]
  BY <1>1
<1> HIDE DEF F
<1>5. /\ RowsKept
      /\ \A d \in Known \cap some : documents'[d].status = F[d]
      /\ \A d \in Known : d \notin some => documents'[d] = documents[d]
  BY <1>0, <1>3, <1>4, StatusesSet DEF Typed
<1>6. NoNewCopies
  BY <1>2 DEF NoNewCopies
<1>7. /\ ReadingsInv'
      /\ \A x \in DOMAIN extractions' : extractions'[x].document \in Known'
      /\ \A d \in Known : d \notin some => Sound(d)'
  BY <1>2, <1>5, <1>6, RowStep
<1>8. \A d \in Known : d \in some => Sound(d)'
  BY <1>3, <1>5, SoundIfNotOk
<1>9. Typed' /\ Referring' /\ ChecksAreOfReadings' /\ CopiesAreOfDone'
  BY <1>0, <1>2, <1>5, <1>7
     DEF Typed, Referring, ChecksAreOfReadings, CopiesAreOfDone, RowsKept
<1> QED  BY <1>5, <1>7, <1>8, <1>9 DEF IInv, RowsKept

-----------------------------------------------------------------------------
(* Reviewers. *)

LEMMA ReviewRest ==
    ASSUME IInv, RowsKept, thread' = thread, upload' = upload, passes' = passes,
           extractions' \in Seq(Extraction),
           \A x \in DOMAIN extractions' : extractions'[x].document \in Known',
           \A e : ReadingsOf(e) \subseteq ReadingsOf(e)'
    PROVE  Typed' /\ Referring' /\ ChecksAreOfReadings' /\ CopiesAreOfDone'
<1>1. /\ ChecksAreOfReadings' /\ CopiesAreOfDone' /\ thread' \in Thread
      /\ thread'.at = "asking" => thread'.document \in Known'
  BY ThreadStays
<1> QED  BY <1>1 DEF IInv, Typed, Referring, RowsKept

LEMMA ApproveKeeps ==
    ASSUME IInv, NEW d \in Known, Approve(d)
    PROVE  IInv'
<1>1. /\ documents' = [documents EXCEPT ![d].status = "ok", ![d].accepted = TRUE]
      /\ ReadingsOf(d) # {}
      /\ UNCHANGED << extractions, upload, thread, passes >>
  BY DEF Approve
<1>2. /\ RowsKept /\ documents'[d].accepted
      /\ \A e \in Known : e \notin {d} => documents'[e] = documents[e]
  <2>1. documents \in Seq(Document)
    BY DEF IInv, Typed
  <2>2. /\ RowsKept /\ documents'[d].accepted
        /\ \A e \in Known : e # d => documents'[e] = documents[e]
    BY <1>1, <2>1, AcceptedSet
  <2> QED  BY <2>2
<1>3. NoNewCopies
  BY <1>1 DEF NoNewCopies
<1>4. /\ ReadingsInv'
      /\ \A x \in DOMAIN extractions' : extractions'[x].document \in Known'
      /\ \A e \in Known : e \notin {d} => Sound(e)'
      /\ \A e : ReadingsOf(e)' = ReadingsOf(e)
  BY <1>1, <1>2, <1>3, RowStep
<1>5. Sound(d)'
  BY <1>1, <1>2, <1>4, SoundIfAccepted
<1>6. Typed' /\ Referring' /\ ChecksAreOfReadings' /\ CopiesAreOfDone'
  BY <1>1, <1>2, <1>4, ReviewRest DEF IInv, Typed
<1> QED  BY <1>2, <1>4, <1>5, <1>6 DEF IInv, RowsKept

LEMMA RejectKeeps ==
    ASSUME IInv, NEW d \in Known, Reject(d)
    PROVE  IInv'
<1>1. /\ documents' = [documents EXCEPT ![d].status = "rejected"]
      /\ UNCHANGED << extractions, upload, thread, passes >>
  BY DEF Reject
<1>2. /\ RowsKept /\ documents'[d].status # "ok"
      /\ \A e \in Known : e \notin {d} => documents'[e] = documents[e]
  <2>1. documents \in Seq(Document) /\ "rejected" \in DocumentStatus
    BY DEF IInv, Typed, DocumentStatus
  <2>2. /\ RowsKept /\ documents'[d].status = "rejected"
        /\ \A e \in Known : e # d => documents'[e] = documents[e]
    BY <1>1, <2>1, StatusSet
  <2> QED  BY <2>2
<1>3. NoNewCopies
  BY <1>1 DEF NoNewCopies
<1>4. /\ ReadingsInv'
      /\ \A x \in DOMAIN extractions' : extractions'[x].document \in Known'
      /\ \A e \in Known : e \notin {d} => Sound(e)'
      /\ \A e : ReadingsOf(e)' = ReadingsOf(e)
  BY <1>1, <1>2, <1>3, RowStep
<1>5. Sound(d)'
  BY <1>2, SoundIfNotOk
<1>6. Typed' /\ Referring' /\ ChecksAreOfReadings' /\ CopiesAreOfDone'
  BY <1>1, <1>2, <1>4, ReviewRest DEF IInv, Typed
<1> QED  BY <1>2, <1>4, <1>5, <1>6 DEF IInv, RowsKept

LEMMA CorrectKeeps ==
    ASSUME IInv, NEW d \in Known, NEW data \in Readings[documents[d].content],
           Correct(d, data)
    PROVE  IInv'
<1>0. Typed /\ Referring /\ ReadingsInv
  BY DEF IInv
<1>1. data \in Data
  <2>1. documents[d].content \in Contents
    BY <1>0, KnownRow DEF Typed
  <2>2. Readings[documents[d].content] \subseteq Data
    BY <2>1, DocumentsAssumption
  <2> QED  BY <2>2
<1> DEFINE v == Verdict(d, data)
           origin == IF ReadingsOf(d) = {} THEN None ELSE extractions[Latest(d)].run
<1>2. PICK r \in Runs \cup {None} : r = origin
  <2>1. ReadingsOf(d) # {} => Latest(d) \in DOMAIN extractions
    BY <1>0, KnownRow DEF Typed, ReadingsInv, LatestIsLast, ReadingsOf
  <2>2. \A x \in DOMAIN extractions : extractions[x].run \in Runs \cup {None}
    <3>1. \A x \in DOMAIN extractions : extractions[x] \in Extraction
      BY <1>0 DEF Typed
    <3> QED  BY <3>1 DEF Extraction
  <2> QED  BY <2>1, <2>2
<1>3. /\ extractions' = Append(extractions, Row(d, r, data, v))
      /\ documents' = [documents EXCEPT ![d].status = "ok", ![d].accepted = TRUE]
      /\ UNCHANGED << upload, thread, passes >>
  BY <1>2 DEF Correct
<1>4. v \in {"none", "clean", "faulty"} /\ (v = "clean" => Verdict(d, data) = "clean")
  BY VerdictKnown
<1> HIDE DEF v
<1>5. /\ RowsKept /\ documents'[d].accepted
      /\ \A e \in Known : e # d => documents'[e] = documents[e]
  BY <1>0, <1>3, AcceptedSet DEF Typed
<1>6. NoNewCopies
  BY <1>3 DEF NoNewCopies
<1>7. /\ ReadingsInv'
      /\ extractions' \in Seq(Extraction)
      /\ \A x \in DOMAIN extractions' : extractions'[x].document \in Known'
      /\ \A e \in Known : e # d => Sound(e)'
      /\ \A e : ReadingsOf(e) \subseteq ReadingsOf(e)'
      /\ ReadingsOf(d)' # {}
  BY <1>1, <1>3, <1>4, <1>5, <1>6, GrownStep
<1>8. Sound(d)'
  BY <1>5, <1>7, SoundIfAccepted
<1>9. Typed' /\ Referring' /\ ChecksAreOfReadings' /\ CopiesAreOfDone'
  BY <1>3, <1>5, <1>7, ReviewRest
<1> QED  BY <1>5, <1>7, <1>8, <1>9 DEF IInv, RowsKept

-----------------------------------------------------------------------------
(* The theorems. *)

LEMMA InitHolds == Init => IInv
<1> SUFFICES ASSUME Init PROVE IInv
  OBVIOUS
<1>1. /\ documents = << >> /\ extractions = << >> /\ thread = Idle /\ passes = 0
      /\ upload = [u \in Uploads |-> [at |-> "none", document |-> 0]]
  BY DEF Init
<1>2. upload \in [Uploads -> Upload] /\ \A u \in Uploads : upload[u].at # "asking"
  BY <1>1 DEF Upload
<1>3. Known = {} /\ DOMAIN extractions = {}
  BY <1>1 DEF Known
<1>4. Typed /\ Referring
  <2>1. thread \in Thread /\ thread.at = "idle"
    BY <1>1, IdleKnown
  <2>2. documents \in Seq(Document) /\ extractions \in Seq(Extraction) /\ passes \in Nat
    BY <1>1
  <2> QED  BY <1>2, <1>3, <2>1, <2>2 DEF Typed, Referring
<1>5. ReadingsInv
  BY <1>3 DEF ReadingsInv, LatestIsLast, NumbersPassOnce, CleanIsPassed, ReadingsOf
<1>6. ChecksAreOfReadings /\ CopiesAreOfDone
  <2>1. thread.at = "idle" /\ thread.ids = << >> /\ thread.seen = {}
    BY <1>1, IdleKnown
  <2> QED  BY <2>1 DEF ChecksAreOfReadings, CopiesAreOfDone
<1> QED  BY <1>3, <1>4, <1>5, <1>6 DEF IInv

LEMMA StepHolds == IInv /\ [Next]_vars => IInv'
<1> SUFFICES ASSUME IInv, [Next]_vars PROVE IInv'
  OBVIOUS
<1>1. ASSUME NEW u \in Uploads, NEW c \in Contents, Ingest(u, c) PROVE IInv'
  BY <1>1, IngestKeeps
<1>2. ASSUME NEW u \in Uploads, IngestAnswer(u) PROVE IInv'
  BY <1>2, IngestAnswerKeeps
<1>3. ASSUME NEW u \in Uploads, IngestDies(u) PROVE IInv'
  BY <1>3, IngestDiesKeeps
<1>4. ASSUME NEW r \in Runs, Begin(r) PROVE IInv'
  BY <1>4, BeginKeeps
<1>5. ASSUME NEW c \in Contents, ReadFile(c) PROVE IInv'
  BY <1>5, ReadFileKeeps
<1>6. CASE ReadAnswer
  BY <1>6, ReadAnswerKeeps
<1>7. CASE StartCheck
  BY <1>7, StartCheckKeeps
<1>8. ASSUME NEW n \in 1 .. Len(thread.ids), CheckSome(n) PROVE IInv'
  BY <1>8, CheckSomeKeeps
<1>9. CASE Escalate
  BY <1>9, EscalateKeeps
<1>10. CASE Abandon
  BY <1>10, AbandonKeeps
<1>11. ASSUME NEW d \in Known, Approve(d) PROVE IInv'
  BY <1>11, ApproveKeeps
<1>12. ASSUME NEW d \in Known, Reject(d) PROVE IInv'
  BY <1>12, RejectKeeps
<1>13. ASSUME NEW d \in Known, NEW data \in Readings[documents[d].content],
              Correct(d, data)
       PROVE IInv'
  BY <1>13, CorrectKeeps
<1>14. CASE UNCHANGED vars
  <2>1. UNCHANGED << documents, extractions, upload, thread, passes >>
    BY <1>14 DEF vars
  <2>2. CopiesAreOfDone'
    BY <2>1 DEF IInv, CopiesAreOfDone, Known
  <2>3. OnlyThread
    BY <2>1, <2>2 DEF IInv, Typed, Referring, OnlyThread, ChecksAreOfReadings
  <2> QED  BY <2>3, OnlyThreadKeeps
<1> QED
  BY <1>1, <1>2, <1>3, <1>4, <1>5, <1>6, <1>7, <1>8, <1>9, <1>10, <1>11, <1>12, <1>13,
     <1>14 DEF Next

LEMMA IInvHolds == Spec => []IInv
  BY InitHolds, StepHolds, PTL DEF Spec

LEMMA Vouching == IInv => OkIsVouchedFor
  BY DEF IInv, Sound, Vouched, OkIsVouchedFor

\* Of two documents that are ok with judged readings and unaccepted, both readings
\* passed; then their numbers differ.
LEMMA Seeing == IInv => DuplicatesAreSeen
<1> SUFFICES ASSUME IInv, NEW d \in Known, NEW e \in Known, d # e,
                    documents[d].status = "ok", documents[e].status = "ok",
                    extractions[Latest(d)].verdict # "none",
                    extractions[Latest(e)].verdict # "none",
                    ~documents[d].accepted, ~documents[e].accepted
             PROVE  extractions[Latest(d)].data.number # extractions[Latest(e)].data.number
  BY DEF DuplicatesAreSeen
<1>1. \A f \in {d, e} :
        /\ Latest(f) \in DOMAIN extractions /\ extractions[Latest(f)].document = f
        /\ extractions[Latest(f)].passed
  <2> SUFFICES ASSUME NEW f \in {d, e}
               PROVE  /\ Latest(f) \in DOMAIN extractions
                      /\ extractions[Latest(f)].document = f
                      /\ extractions[Latest(f)].passed
    OBVIOUS
  <2>1. ReadingsOf(f) # {} /\ extractions[Latest(f)].passed
    BY DEF IInv, Sound, Vouched
  <2>2. f \in Nat
    BY KnownRow DEF IInv, Typed
  <2>3. Latest(f) \in ReadingsOf(f)
    BY <2>1, <2>2 DEF IInv, ReadingsInv, LatestIsLast
  <2> QED  BY <2>1, <2>3 DEF ReadingsOf
<1>2. NumbersPassOnce
  BY DEF IInv, ReadingsInv
<1> QED  BY <1>1, <1>2 DEF NumbersPassOnce

\* The tables and what requests and the thread hold keep their columns and refer to
\* rows that exist.
THEOREM TypeCorrect == Spec => []TypeOK
<1>1. IInv => TypeOK
  BY DEF IInv, Typed, Referring, TypeOK
<1> QED  BY <1>1, IInvHolds, PTL

\* What uploads, runs, escalations and reviewers write in any order leaves no
\* document ok whose latest reading failed, unless a person accepted it.
THEOREM OkVouched == Spec => []OkIsVouchedFor
  BY Vouching, IInvHolds, PTL

\* QC-06 keeps two documents with one number from both becoming ok unseen.
THEOREM DuplicatesSeen == Spec => []DuplicatesAreSeen
  BY Seeing, IInvHolds, PTL
=============================================================================
