------------------------------- MODULE QualityRules -------------------------------
(***************************************************************************)
(* The eight rules an extracted invoice is judged by, and what they are    *)
(* for: the model reads a printed invoice, and may read one field wrong.   *)
(* Amounts are whole numbers of dong; a text is whether it is there.       *)
(***************************************************************************)
EXTENDS Integers, Sequences, FiniteSetsExt

CONSTANTS Lines,     \* the lines printed invoices may have: [quantity, unit_price, amount]
          MaxLines,  \* bound: lines of an invoice
          Rates,     \* the rates of the printed invoices
          Vats,      \* bound: the amounts of tax
          Codes,     \* bound: the tax codes of the sellers, ten digits each
          Amounts    \* bound: what an amount may be read as

VARIABLES printed,  \* the invoice on paper
          read,     \* what the model read
          at,       \* "idle", "printed", "read" or "judged"
          review    \* the verdict: needs_review

rules == << printed, read, at, review >>

TOLERANCE == 1
VALID_VAT_RATES == {0, 5, 8, 10}
TAX_CODE_WEIGHTS == << 31, 29, 23, 19, 17, 13, 7, 5, 3 >>

Apart(a, b) == IF a < b THEN b - a ELSE a - b

SumOf(f) == MapThenSumSet(LAMBDA n : f[n], DOMAIN f)
LineSum(i) == SumOf([n \in DOMAIN i.line_items |-> i.line_items[n].amount])

\* The check digit of _tax_code_error.
Weighted(code) == SumOf([n \in 1 .. 9 |-> code[n] * TAX_CODE_WEIGHTS[n]])
CheckDigit(code) == LET d == (10 - (Weighted(code) % 11)) % 11 IN IF d = 10 THEN 0 ELSE d

-----------------------------------------------------------------------------
(* Rules. *)

QC_01(i) == Apart(LineSum(i), i.subtotal) <= TOLERANCE
QC_02(i) == Apart(i.subtotal + i.vat_amount, i.total) <= TOLERANCE
QC_03(i) == i.vat_rate \in VALID_VAT_RATES
QC_04(i) == Len(i.tax_code) \in {10, 13} /\ CheckDigit(i.tax_code) = i.tax_code[10]
QC_05(i) == i.issue_date = "recent"
QC_06(i) == i.invoice_no = "new"
QC_07(i) ==
    /\ i.invoice_no # "none" /\ i.issue_date # "none" /\ i.named
    /\ Len(i.tax_code) > 0 /\ i.line_items # << >>

\* A mutated form of LineAgrees: only the sum of the lines is checked.
LineAgreesAlways(l) == TRUE

LineAgrees(l) == Apart(l.quantity * l.unit_price, l.amount) <= TOLERANCE

QC_08(i) ==
    /\ i.line_items # << >>
    /\ \A n \in DOMAIN i.line_items : LineAgrees(i.line_items[n])

\* run_qc: QC-05 is a warning, the others are critical.
NeedsReview(i) ==
    ~(QC_01(i) /\ QC_02(i) /\ QC_03(i) /\ QC_04(i) /\ QC_06(i) /\ QC_07(i) /\ QC_08(i))
Warned(i) == ~QC_05(i)

-----------------------------------------------------------------------------
Invoice(items, rate, vat, code) ==
    LET subtotal == SumOf([n \in DOMAIN items |-> items[n].amount]) IN
    [line_items |-> items, subtotal |-> subtotal, vat_rate |-> rate, vat_amount |-> vat,
     total |-> subtotal + vat, tax_code |-> code, issue_date |-> "recent",
     invoice_no |-> "new", named |-> TRUE]

SomeInvoices ==
    {Invoice(items, rate, vat, code) :
        items \in UNION {[1 .. n -> Lines] : n \in 1 .. MaxLines},
        rate \in Rates, vat \in Vats, code \in Codes}

IdleRules == printed = << >> /\ read = << >> /\ at = "idle" /\ review = FALSE

PrintedInvoices ==
    /\ printed \in SomeInvoices
    /\ read = printed /\ at = "printed" /\ review = FALSE

Reads(i) ==
    /\ at = "printed"
    /\ read' = i /\ at' = "read"
    /\ UNCHANGED << printed, review >>

\* The model reads everything right, or one field wrong.
ReadRight == Reads(printed)
ReadLine(n, field, x) == Reads([printed EXCEPT !.line_items[n][field] = x])
ReadAmount(field, x) == Reads([printed EXCEPT ![field] = x])
ReadDigit(n, x) == Reads([printed EXCEPT !.tax_code[n] = x])
ReadText(field, x) == Reads([printed EXCEPT ![field] = x])
LeftOutLine(n) ==
    Reads([printed EXCEPT !.line_items = SubSeq(@, 1, n - 1) \o SubSeq(@, n + 1, Len(@))])

Judge ==
    /\ at = "read"
    /\ review' = NeedsReview(read) /\ at' = "judged"
    /\ UNCHANGED << printed, read >>

NextRules ==
    \/ ReadRight
    \/ /\ at = "printed"
       /\ \/ \E n \in DOMAIN printed.line_items :
               \/ \E field \in {"quantity", "unit_price", "amount"}, x \in Amounts :
                     ReadLine(n, field, x)
               \/ LeftOutLine(n)
          \/ \E field \in {"subtotal", "vat_amount", "total"}, x \in Amounts : ReadAmount(field, x)
          \/ \E n \in 1 .. 10, x \in 0 .. 9 : ReadDigit(n, x)
          \/ \E x \in {"none", "known"} : ReadText("invoice_no", x)
          \/ \E x \in {"none", "future", "old"} : ReadText("issue_date", x)
    \/ Judge

-----------------------------------------------------------------------------
(* Properties. *)

\* By how much line n of what was read says something else than the paper.
LineOff(n) ==
    LET p == printed.line_items[n]
        r == read.line_items[n]
    IN Apart(p.quantity * p.unit_price, r.quantity * r.unit_price) + Apart(p.amount, r.amount)

\* What no rule can see: a misreading within the tolerance, a date that is there, and a
\* digit of a tax code with the check digit 0, which stands for two remainders.
Tolerated ==
    /\ Len(read.line_items) = Len(printed.line_items)
    /\ \A n \in DOMAIN read.line_items : LineOff(n) <= TOLERANCE
    /\ Apart(read.subtotal, printed.subtotal) <= TOLERANCE
    /\ Apart(read.vat_amount, printed.vat_amount) <= TOLERANCE
    /\ Apart(read.total, printed.total) <= TOLERANCE
    /\ \/ read.tax_code = printed.tax_code
       \/ {Weighted(read.tax_code) % 11, Weighted(printed.tax_code) % 11} = {0, 10}
    /\ read.invoice_no = printed.invoice_no
    /\ read.issue_date # "none"

\* One field read wrong makes a critical rule fail, so a person sees the invoice,
\* whichever field it is, however the rules share the fields among them; and an invoice
\* that was read right passes.
MisreadIsCaught == at = "judged" => review = ~Tolerated
=============================================================================
