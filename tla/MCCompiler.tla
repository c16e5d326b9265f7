------------------------------- MODULE MCCompiler -------------------------------
(***************************************************************************)
(* The model fills in the templates, or the reading of invoices with one   *)
(* thing wrong: what each validator is there for.                          *)
(***************************************************************************)
EXTENDS Compiler

With(n, step) == [invoice_to_excel EXCEPT !.steps[n] = step]

SomeDrafts ==
    << invoice_to_excel,
       With(2, Step("read_invoice", "render_pdf")),
       With(4, [Step("write_excel", "append_rows") EXCEPT !.given = {}]),
       [invoice_to_excel EXCEPT !.edges = Append(@, Edge("to_review", "read_invoice", "none"))],
       [invoice_to_excel EXCEPT !.edges = Append(@, Edge("scan_folder", "write_excel", "none"))],
       [doc_classify EXCEPT !.edges = Append(@, Edge("classify", "dedupe", "none")),
                            !.trigger = [type |-> "file_watch", sound |-> FALSE]] >>
=============================================================================
