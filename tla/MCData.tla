--------------------------------- MODULE MCData ---------------------------------
(***************************************************************************)
(* Sheets of two columns, of which headings differ in order, name, or are  *)
(* missing, with texts that differ in space and case; and small invoices   *)
(* with codes of each kind of check digit.  And two threads whose steps    *)
(* write one file, with an export of the same content under another suffix.*)
(***************************************************************************)
EXTENDS Data

SomeCells == {"", "x", " X", "X", "y", "column 1", "column 2"}
StripOf == [c \in SomeCells |-> IF c = " X" THEN "X" ELSE c]
FoldOf == [c \in SomeCells |-> IF c \in {" X", "X"} THEN "x" ELSE c]
NumberedAs == << "column 1", "column 2" >>

Rows == [1 .. 2 -> {"", "x", " X"}]
Headers == { << "x", "y" >>, << "y", "x" >>, << "x", "" >>, << "x", "x" >> }
Sheets(n) == {<< h >> \o body : h \in Headers, body \in UNION {[1 .. k -> Rows] : k \in 0 .. n}}
SomePairs == {<< a, b >> : a \in Sheets(2), b \in Sheets(1)}
SomeKeys == { << >>, << "y" >> }

Line(q, p) == [quantity |-> q, unit_price |-> p, amount |-> q * p]
SomeLines == {Line(1, 4), Line(3, 2)}
SomeCodes == { << 0, 1, 0, 1, 2, 3, 4, 5, 6, 5 >>, << 0, 0, 0, 0, 0, 0, 0, 0, 0, 0 >> }

SomePaths == { << 1, 1 >>, << 1, 2 >> }
OneFile == { << 1, 1 >> }
=============================================================================
