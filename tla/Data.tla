---------------------------------- MODULE Data ----------------------------------
(***************************************************************************)
(* The work on data, of one part at a time: spreadsheet tools, quality     *)
(* rules, or the store of files with the tables that list them.            *)
(***************************************************************************)
EXTENDS Tables, QualityRules, Outputs

vars == << tables, rules, outputVars >>

Init ==
    /\ OutputsInit
    /\ \/ GivenSheets /\ IdleRules
       \/ IdleTables /\ PrintedInvoices
       \/ IdleTables /\ IdleRules

Next ==
    \/ NextTables /\ UNCHANGED << rules, outputVars >>
    \/ NextRules /\ UNCHANGED << tables, outputVars >>
    \/ IdleTables /\ IdleRules /\ OutputsNext /\ UNCHANGED << tables, rules >>

Spec == Init /\ [][Next]_vars
=============================================================================
