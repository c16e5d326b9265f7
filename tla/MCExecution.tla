------------------------------ MODULE MCExecution ------------------------------
(***************************************************************************)
(* Workflows for TLC: the template invoice_to_excel, with its steps named  *)
(* after what they do, and one a user made of it.                          *)
(***************************************************************************)
EXTENDS Execution

Edge(a, b, condition) == [from |-> a, to |-> b, condition |-> condition]

InvoiceToExcel ==
    [steps |-> << "list", "read", "check", "write", "escalate" >>,
     edges |-> << Edge("list", "read", "none"), Edge("read", "check", "none"),
                  Edge("check", "write", "pass"), Edge("check", "escalate", "fail") >>,
     tool |-> [k \in {"list", "read", "check", "write", "escalate"} |-> k],
     onError |-> [k \in {"list", "read", "check", "write", "escalate"} |->
                    IF k = "read" THEN "retry" ELSE "stop"],
     retryMax |-> [k \in {"list", "read", "check", "write", "escalate"} |->
                    IF k = "read" THEN 2 ELSE 0]]

\* A user may edit on_error of a step before approving the workflow.
EscalateMayFail == [InvoiceToExcel EXCEPT !.onError["escalate"] = "skip"]

OneRun == 1 .. 1
TwoRuns == 1 .. 2
OneInvoice == {1}
TwoInvoices == {1, 2}
TheOther == {2}
Nobody == {}
=============================================================================
