--------------------------------- MODULE Tables ---------------------------------
(***************************************************************************)
(* The spreadsheet tools: the merging, normalising and de-duplicating of   *)
(* several files, and the comparison of two.  A sheet is a sequence of     *)
(* rows of equal length, a table a heading for each column and the rows    *)
(* below.  A cell is what it is compared as; how its text is tidied up is  *)
(* given by Strip, Clean and Fold.                                         *)
(***************************************************************************)
EXTENDS Naturals, Sequences, SequencesExt

CONSTANTS Cells,     \* the cells there are, Empty among them
          Empty,
          Strip,     \* Strip[c]: without space around it; nothing left is Empty
          Clean,     \* Clean[c]: normalize_cell
          Fold,      \* Fold[c]: as text without space around it, in lower case
          Numbered,  \* Numbered[n]: the heading a column without one is given
          Pairs,     \* bound: the pairs of sheets that are tried
          KeyColumns \* bound: the values of key_columns that are tried, << >> for none

ASSUME TablesAssumption ==
    /\ Empty \in Cells /\ Strip[Empty] = Empty /\ Clean[Empty] = Empty
    /\ {Strip, Clean} \subseteq [Cells -> Cells]

VARIABLES sheets,  \* the two files
          keys,    \* key_columns of the de-duplication
          table,   \* the workbook that goes from step to step
          step,    \* "none", "merge", "normalize", "dedupe", "done"; "reconcile", "compared"
          found    \* what the comparison listed

tables == << sheets, keys, table, step, found >>

-----------------------------------------------------------------------------
(* Reading and writing. *)

IsBlank(row) == \A i \in DOMAIN row : Strip[row[i]] = Empty

\* _read_table: the first row that is not blank has the headings.
ReadTable(sheet) ==
    LET rows == SelectSeq(sheet, LAMBDA row : ~IsBlank(row)) IN
    IF rows = << >> THEN [header |-> << >>, rows |-> << >>]
    ELSE [header |-> [i \in DOMAIN rows[1] |-> IF rows[1][i] = Empty THEN Numbered[i]
                                                                    ELSE Strip[rows[1][i]]],
          rows |-> Tail(rows)]

\* _write_table, and the reading of what it wrote.
Sheet(t) == << t.header >> \o t.rows
Handed(t) == ReadTable(Sheet(t))

\* header.index: the first column with the heading; the dict of merge has the last.
Columns(header, c) == {i \in DOMAIN header : header[i] = c}
IndexOf(header, c) == CHOOSE i \in Columns(header, c) : \A j \in Columns(header, c) : i <= j
LastOf(header, c) == CHOOSE i \in Columns(header, c) : \A j \in Columns(header, c) : j <= i

Has(header, c) == Columns(header, c) # {}
Under(t, row, c) == IF Has(t.header, c) THEN row[LastOf(t.header, c)] ELSE Empty

-----------------------------------------------------------------------------
(* xlsx.merge_files, xlsx.normalize, xlsx.dedupe. *)

\* A mutated form of Aligned: cells stay in the columns they had in their file.
AlignedAsRead(t, row, header) ==
    [i \in DOMAIN header |-> IF i \in DOMAIN row THEN row[i] ELSE Empty]

Aligned(t, row, header) == [i \in DOMAIN header |-> Under(t, row, header[i])]

\* The headings of one more file, each once, behind those there are.
WithHeader(header, more) ==
    FoldLeft(LAMBDA h, c : IF Has(h, c) THEN h ELSE Append(h, c), header, more)

\* Rows of earlier files are filled up in the end.
Filled(row, header) == [i \in DOMAIN header |-> IF i \in DOMAIN row THEN row[i] ELSE Empty]

MergeFiles(files) ==
    LET add(t, sheet) ==
            LET more == ReadTable(sheet)
                header == WithHeader(t.header, more.header)
            IN [header |-> header,
                rows |-> t.rows \o [r \in DOMAIN more.rows |-> Aligned(more, more.rows[r], header)]]
        all == FoldLeft(add, [header |-> << >>, rows |-> << >>], files)
    IN [all EXCEPT !.rows = [r \in DOMAIN @ |-> Filled(@[r], all.header)]]

Normalized(t) ==
    [t EXCEPT !.rows = [r \in DOMAIN @ |-> [i \in DOMAIN @[r] |-> Clean[@[r][i]]]]]

KeyOf(t, row) ==
    LET columns == IF keys = << >> THEN [i \in DOMAIN t.header |-> i]
                                   ELSE [n \in DOMAIN keys |-> IndexOf(t.header, keys[n])]
    IN [n \in DOMAIN columns |-> Fold[row[columns[n]]]]

\* The row with its key was there before.
Seen(t, r) == \E q \in 1 .. r - 1 : KeyOf(t, t.rows[q]) = KeyOf(t, t.rows[r])

Deduped(t) ==
    LET kept == SelectSeq([r \in DOMAIN t.rows |-> r], LAMBDA r : ~Seen(t, r))
    IN [t EXCEPT !.rows = [n \in DOMAIN kept |-> t.rows[kept[n]]]]

-----------------------------------------------------------------------------
(* xlsx.reconcile. *)

Norm(c) == Fold[Clean[c]]

KeysOf(t, key) == {Norm(t.rows[r][IndexOf(t.header, key)]) : r \in DOMAIN t.rows}

\* The dict of a table by its key column keeps the last row of a key.
RowFor(t, key, k) ==
    LET last == CHOOSE r \in DOMAIN t.rows :
                    /\ Norm(t.rows[r][IndexOf(t.header, key)]) = k
                    /\ \A q \in r + 1 .. Len(t.rows) :
                          Norm(t.rows[q][IndexOf(t.header, key)]) # k
    IN t.rows[last]

\* A mutated form of MissingFrom: rows that only one of the files has are looked for
\* in one direction.
MissingFromLeft(a, b, key, side) == IF side = "left" THEN {} ELSE KeysOf(a, key) \ KeysOf(b, key)

\* The keys of a that b does not have, on the side a is on.
MissingFrom(a, b, key, side) == KeysOf(a, key) \ KeysOf(b, key)

Compared(l, r, key) ==
    {c \in ToSet(l.header) : Has(r.header, c) /\ c # key}

Reconciled(l, r, key) ==
    [only_left |-> MissingFrom(l, r, key, "left"),
     only_right |-> MissingFrom(r, l, key, "right"),
     diffs |-> {<< k, c >> \in (KeysOf(l, key) \cap KeysOf(r, key)) \X Compared(l, r, key) :
                   Norm(RowFor(l, key, k)[IndexOf(l.header, c)])
                     # Norm(RowFor(r, key, k)[IndexOf(r.header, c)])}]

-----------------------------------------------------------------------------
NoTable == [header |-> << >>, rows |-> << >>]

IdleTables ==
    sheets = << << >>, << >> >> /\ keys = << >> /\ table = NoTable /\ step = "none" /\ found = {}

GivenSheets ==
    /\ sheets \in Pairs /\ keys \in KeyColumns
    /\ table = NoTable /\ step = "merge" /\ found = {}

Step(from, to, t) ==
    /\ step = from
    /\ table' = t /\ step' = to
    /\ UNCHANGED << sheets, keys, found >>

Merge == Step("merge", "normalize", MergeFiles(sheets))
Normalize == Step("normalize", "dedupe", Normalized(Handed(table)))

\* A column that is not there is an error, and the step fails.
Dedupe ==
    LET t == Handed(table) IN
    IF \E n \in DOMAIN keys : ~Has(t.header, keys[n]) THEN Step("dedupe", "failed", table)
                                                    ELSE Step("dedupe", "done", Deduped(t))

\* Instead of cleaning them up, the two files are compared.
Reconcile(key) ==
    LET l == ReadTable(sheets[1])
        r == ReadTable(sheets[2])
    IN
    /\ step = "merge"
    /\ Has(l.header, key) /\ Has(r.header, key)
    /\ found' = {<< key, Reconciled(l, r, key) >>} /\ step' = "compared"
    /\ UNCHANGED << sheets, keys, table >>

NextTables == Merge \/ Normalize \/ Dedupe \/ \E key \in Cells : Reconcile(key)

-----------------------------------------------------------------------------
(* Properties. *)

Distinct(header) == \A i, j \in DOMAIN header : i # j => header[i] # header[j]

\* What the two files say, row by row, each cell under its heading, tidied up.
Given(c) ==
    LET rowsOf(sheet) ==
            LET t == ReadTable(sheet) IN [r \in DOMAIN t.rows |-> Clean[Under(t, t.rows[r], c)]]
    IN rowsOf(sheets[1]) \o rowsOf(sheets[2])

Headings == ToSet(ReadTable(sheets[1]).header) \cup ToSet(ReadTable(sheets[2]).header)

\* What de-duplication compares: the key columns, or all.
KeyHeadings == IF keys = << >> THEN Headings ELSE ToSet(keys)
AllRows == DOMAIN Given(Empty)
SameKey(q, r) == \A c \in KeyHeadings : Fold[Given(c)[q]] = Fold[Given(c)[r]]

\* After merging, normalising and de-duplicating, the table has each row of the files
\* that no earlier row repeats, in order, its cells tidied up and under the headings
\* they had, whatever columns the files have and in whatever order.  Two columns of
\* one file must not have the same heading: merging keeps only the last of them.
CleanedIsComplete ==
    step = "done" /\ Distinct(ReadTable(sheets[1]).header) /\ Distinct(ReadTable(sheets[2]).header) =>
        LET kept == SelectSeq([r \in AllRows |-> r],
                              LAMBDA r : \A q \in 1 .. r - 1 : ~SameKey(q, r))
        IN /\ ToSet(table.header) = Headings
           /\ Len(table.rows) = Len(kept)
           /\ \A n \in DOMAIN kept, c \in Headings :
                 Under(table, table.rows[n], c) = Given(c)[kept[n]]

OneRowPerKey(t, key) ==
    \A q, r \in DOMAIN t.rows : q # r =>
        Norm(t.rows[q][IndexOf(t.header, key)]) # Norm(t.rows[r][IndexOf(t.header, key)])

\* Each row of one file has a row of the other that says the same.
Covers(a, b, key) ==
    \A r \in DOMAIN a.rows : \E q \in DOMAIN b.rows :
        \A c \in Compared(a, b, key) \cup {key} :
            Norm(a.rows[r][IndexOf(a.header, c)]) = Norm(b.rows[q][IndexOf(b.header, c)])

\* The comparison lists nothing only if the files say the same, whichever of them has
\* a row too many or another value.  A key must stand in one row of a file: of rows
\* with the same key only the last is compared.
NothingListedIsEqual ==
    \A << key, list >> \in found :
        LET l == ReadTable(sheets[1])
            r == ReadTable(sheets[2])
        IN OneRowPerKey(l, key) /\ OneRowPerKey(r, key) =>
              ((list.only_left = {} /\ list.only_right = {} /\ list.diffs = {})
                 = (Covers(l, r, key) /\ Covers(r, l, key)))
=============================================================================
